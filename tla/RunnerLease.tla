---------------------------- MODULE RunnerLease ----------------------------
(***************************************************************************)
(* The one-job runner of a workflow run (scripts/runner_job.py,               *)
(* runner_lifecycle.py, runner_arm.py): a virtual machine, its registration   *)
(* with GitHub and a checkpoint that is saved between the requests.  Starting *)
(* it and cleaning up after it may break off at any step; the job, other      *)
(* people and GitHub go their own way meanwhile.                              *)
(***************************************************************************)
EXTENDS Integers, Sequences, FiniteSets

CONSTANT MaxMachines   \* bound on machines ever created under the name

ASSUME RunnerAssumption == MaxMachines \in Nat \ {0}

VARIABLES
    made,       \* machines created so far, the latest one under the name
    vm,         \* the machine under the name (0: none)
    foreign,    \* machines that somebody else created
    nsg,        \* its security group exists
    runner,     \* registrations: [vm: its name is derived from, state]
    command,    \* whose configuration the machine's run command carries (0: none)
    saved,      \* the saved state, if any: [phase, vm]
    lease       \* the procedure under way, if any: [step, vm, kind]

runnerVars == <<made, vm, foreign, nsg, runner, command, saved, lease>>

RunnerInit ==
    /\ made = 0 /\ vm = 0 /\ foreign = {} /\ nsg = FALSE
    /\ runner = {} /\ command = 0 /\ saved = {} /\ lease = {}

-----------------------------------------------------------------------------
(* start_runner(): the checkpoint is saved before each thing it creates. *)

StartSteps == <<"creating", "provision", "created", "find", "registering", "generate", "registered",
                "confirm", "command", "started", "online">>

StepAfter(step) ==
    LET i == CHOOSE i \in DOMAIN StartSteps : StartSteps[i] = step
    IN IF i = Len(StartSteps) THEN {} ELSE {StartSteps[i + 1]}

Advance(l) == {[l EXCEPT !.step = next] : next \in StepAfter(l.step)}

\* A lease is started once; its machine must not exist.
StartLease ==
    /\ lease = {} /\ saved = {} /\ vm = 0
    /\ lease' = {[step |-> StartSteps[1], vm |-> 0, kind |-> "start"]}
    /\ UNCHANGED <<made, vm, foreign, nsg, runner, command, saved>>

\* A step that only saves its phase.
SavesPhase == {"creating", "created", "registering", "registered", "started", "online"}

SaveLeasePhase ==
    \E l \in lease :
        /\ l.kind = "start" /\ l.step \in SavesPhase
        \* online: the runner is up and has no job yet
        /\ l.step = "online" => \E r \in runner : r.vm = l.vm /\ r.state = "idle"
        /\ saved' = {[phase |-> l.step, vm |-> l.vm]}
        /\ lease' = Advance(l)
        /\ UNCHANGED <<made, vm, foreign, nsg, runner, command>>

\* The deployment creates the machine, or runs into one; its state is read back.
Provision ==
    \E l \in lease :
        /\ l.step = "provision"
        /\ IF vm = 0 THEN made < MaxMachines /\ made' = made + 1 /\ vm' = made' /\ nsg' = TRUE
           ELSE UNCHANGED <<made, vm, nsg>>
        /\ lease' = {[n EXCEPT !.vm = vm'] : n \in Advance(l)}
        /\ UNCHANGED <<foreign, runner, command, saved>>

\* The machine is the one read before; its runner is not registered.
FindNone ==
    \E l \in lease :
        /\ l.step = "find" /\ vm = l.vm
        /\ ~\E r \in runner : r.vm = l.vm
        /\ lease' = Advance(l)
        /\ UNCHANGED <<made, vm, foreign, nsg, runner, command, saved>>

Generate ==
    \E l \in lease :
        /\ l.step = "generate"
        /\ runner' = runner \cup {[vm |-> l.vm, state |-> "offline"]}
        /\ lease' = Advance(l)
        /\ UNCHANGED <<made, vm, foreign, nsg, command, saved>>

\* It is still that machine ...
ConfirmMachine ==
    \E l \in lease :
        /\ l.step = "confirm" /\ vm = l.vm
        /\ lease' = Advance(l)
        /\ UNCHANGED <<made, vm, foreign, nsg, runner, command, saved>>

\* ... and managed_command() gives the configuration to the machine under the
\* name: a runner machine without a command, whichever it is by now.
PutCommand ==
    \E l \in lease :
        /\ l.step = "command" /\ vm # 0 /\ command = 0
        /\ command' = l.vm
        /\ lease' = Advance(l)
        /\ UNCHANGED <<made, vm, foreign, nsg, runner, saved>>

-----------------------------------------------------------------------------
(* cleanup_runner(). *)

\* The phases from which the registration is known.
StartCleanup ==
    /\ lease = {}
    /\ \E c \in saved :
          /\ c.phase \in {"registered", "started", "online", "retiring"}
          /\ vm = c.vm \/ (c.phase = "retiring" /\ vm = 0)
          /\ lease' = {[step |-> "remove", vm |-> c.vm, kind |-> c.phase]}
    /\ UNCHANGED <<made, vm, foreign, nsg, runner, command, saved>>

Mine(l) == {r \in runner : r.vm = l.vm}

\* Mutant: a busy runner is left registered, and the cleanup goes on.
RemovableTolerant(l) == TRUE

\* A runner at work is not removed; GitHub refuses as well.
Removable(l) == \A r \in Mine(l) : r.state # "busy"

RemoveRegistration ==
    \E l \in lease :
        /\ l.step = "remove" /\ Removable(l)
        /\ runner' = {r \in runner : r \in Mine(l) => r.state = "busy"}
        /\ lease' = {[l EXCEPT !.step = "retiring"]}
        /\ UNCHANGED <<made, vm, foreign, nsg, command, saved>>

SaveRetiring ==
    \E l \in lease :
        /\ l.step = "retiring"
        /\ vm = l.vm \/ (l.kind = "retiring" /\ vm = 0)
        /\ saved' = {[phase |-> "retiring", vm |-> l.vm]}
        /\ lease' = {[l EXCEPT !.step = "delete"]}
        /\ UNCHANGED <<made, vm, foreign, nsg, runner, command>>

\* delete_machine(): the machine is compared once more, if it is there ...
CompareMachine ==
    \E l \in lease :
        /\ l.step = "delete" /\ vm \in {0, l.vm}
        /\ lease' = {[l EXCEPT !.step = IF vm = 0 THEN "group" ELSE "erase"]}
        /\ UNCHANGED <<made, vm, foreign, nsg, runner, command, saved>>

\* ... and the one under the name is deleted with its disk and interface ...
DeleteMachine ==
    \E l \in lease :
        /\ l.step = "erase"
        /\ vm' = 0 /\ command' = 0
        /\ lease' = {[l EXCEPT !.step = "group"]}
        /\ UNCHANGED <<made, foreign, nsg, runner, saved>>

\* ... then, when all of it is gone, the group, if nothing is attached to it.
DeleteGroup ==
    \E l \in lease :
        /\ l.step = "group" /\ vm = 0
        /\ nsg' = FALSE
        /\ lease' = {[l EXCEPT !.step = "retired"]}
        /\ UNCHANGED <<made, vm, foreign, runner, command, saved>>

SaveRetired ==
    \E l \in lease :
        /\ l.step = "retired"
        /\ saved' = {[phase |-> "retired", vm |-> l.vm]}
        /\ lease' = {}
        /\ UNCHANGED <<made, vm, foreign, nsg, runner, command>>

\* A request fails, or the process is killed.
LeaseDies ==
    /\ lease # {} /\ lease' = {}
    /\ UNCHANGED <<made, vm, foreign, nsg, runner, command, saved>>

-----------------------------------------------------------------------------
(* GitHub, the machine and other people. *)

\* The machine under the name works with r's configuration.
MachineUp(r) == vm # 0 /\ command = r.vm

\* The runner comes up, takes its job and is gone from GitHub when it is done.
RunnerMoves ==
    /\ \E r \in runner :
          /\ MachineUp(r)
          /\ \/ r.state = "offline" /\ runner' = (runner \ {r}) \cup {[r EXCEPT !.state = "idle"]}
             \/ r.state = "idle" /\ runner' = (runner \ {r}) \cup {[r EXCEPT !.state = "busy"]}
             \/ r.state = "busy" /\ runner' = runner \ {r}
    /\ UNCHANGED <<made, vm, foreign, nsg, command, saved, lease>>

\* Somebody deletes the machine, but not while its job runs ...
SomebodyDeletes ==
    /\ vm # 0 /\ \A r \in runner : MachineUp(r) => r.state # "busy"
    /\ vm' = 0 /\ command' = 0
    /\ UNCHANGED <<made, foreign, nsg, runner, saved, lease>>

\* ... or creates one, like the runner's, under the name while it is free.
SomebodyCreates ==
    /\ vm = 0 /\ made < MaxMachines
    /\ made' = made + 1 /\ vm' = made' /\ foreign' = foreign \cup {made'} /\ nsg' = TRUE
    /\ UNCHANGED <<runner, command, saved, lease>>

RunnerNext ==
    \/ StartLease \/ SaveLeasePhase \/ Provision \/ FindNone \/ Generate \/ ConfirmMachine \/ PutCommand
    \/ StartCleanup \/ RemoveRegistration \/ SaveRetiring \/ CompareMachine \/ DeleteMachine
    \/ DeleteGroup \/ SaveRetired \/ LeaseDies \/ RunnerMoves \/ SomebodyDeletes \/ SomebodyCreates

RunnerSpec == RunnerInit /\ [][RunnerNext]_runnerVars

-----------------------------------------------------------------------------
(* Properties. *)

\* A checkpoint knows of every machine and registration the procedures left
\* behind, and they never take the machine away on which a job of theirs runs,
\* be it the one that was approved or one that took its name.  (Such a machine
\* may receive a registration that was not made for it, and an idle one may be
\* deleted: the comparisons of the machine precede requests without a condition.)
LeaseAccounted ==
    /\ vm # 0 /\ vm \notin foreign =>
          \E c \in saved : c.phase = "creating" \/ (c.vm = vm /\ c.phase # "retired")
    /\ \A r \in runner : \E c \in saved : c.vm = r.vm /\ c.phase # "retired"
    /\ \A r \in runner : r.state = "busy" => MachineUp(r)
=============================================================================
