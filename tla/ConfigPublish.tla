---------------------------- MODULE ConfigPublish ----------------------------
(***************************************************************************)
(* Publication of gateway configuration from a local checkout:              *)
(* runtime-config (local_execution/runtime_config.py) changes settings,     *)
(* model-sync (local_execution/model_sync.py, scripts/model_sync_*.py)      *)
(* changes the model list.  Both plan, wait for a review, plan again and    *)
(* compare, then create an immutable ConfigMap, point the Deployment at it  *)
(* with a compare-and-set patch, wait for the rollout, verify what the Pods *)
(* mount and install the new customer file.  Nothing locks the cluster or   *)
(* the file: runs overlap with each other, with edits by other parties and  *)
(* with an editor on the file.  A run may fail at any call, also after the  *)
(* call took effect, or be killed.                                          *)
(***************************************************************************)
EXTENDS Naturals, Sequences, FiniteSets

CONSTANTS
    Runs,      \* slots for runs that may overlap
    Kinds,     \* operations in use: "settings" (runtime-config), "models" (model-sync)
    Settings,  \* values of a runtime setting
    Accounts,  \* Azure OpenAI accounts; a model list is the set of accounts it uses
    Native,    \* application.authentication.mode is native: Pods are probed
    MaxStarts, \* bound: runs started
    MaxUndo,   \* bound: rollbacks
    MaxDrift   \* bound: edits of the Deployment or of the customer file by others

ASSUME PublishAssumption ==
    /\ Kinds \subseteq {"settings", "models"}
    /\ Native \in BOOLEAN /\ "unset" \notin Settings
    /\ MaxStarts \in Nat /\ MaxUndo \in Nat /\ MaxDrift \in Nat

VARIABLES
    live,     \* Deployment litellm: ConfigMap it mounts, resourceVersion, rest of the spec
    maps,     \* ConfigMaps that exist; the name is the hash of the content
    pods,     \* configurations mounted by the Pods that are not being deleted
    infra,    \* accounts with private endpoint, DNS binding and role
    conf,     \* the customer file: its runtimeSettings (if any), models, the rest
    run,      \* run[o]: the process of a run
    rec,      \* rec[o]: state.json in the directory of the slot's newest run
    files,    \* recovery files of all runs that went on to publish
    reviewed, \* plans whose run ended as planned; the review approves them
    latest,   \* the newest plan.json of runtime-config
    spent,    \* history: plans whose patch took effect, in this order
    did,      \* history: runs whose patch took effect
    settled,  \* history: the run that completed, until the next patch, installation or recovery
    count     \* starts, rollbacks and edits so far

cluster == <<live, maps, pods, infra>>
books   == <<files, reviewed, latest>>
history == <<spent, did, settled>>
vars    == <<cluster, conf, run, rec, books, history, count>>

Runtimes == [set : Settings, mod : SUBSET Accounts]
Idle     == [pc |-> "idle", op |-> "none", plan |-> {}, approved |-> {}, todo |-> {}]
NewRec   == [status |-> "none", attempted |-> FALSE, patched |-> FALSE]

Init ==
    /\ \E s \in Settings, a \in Accounts, known \in BOOLEAN :
         /\ live = [cm |-> [set |-> s, mod |-> {a}], rv |-> 1, spec |-> 0]
         /\ conf = [set |-> IF known THEN s ELSE "unset", mod |-> {a}, rest |-> 0]
    /\ maps = {live.cm} /\ pods = {live.cm} /\ infra = live.cm.mod
    /\ run = [o \in Runs |-> Idle] /\ rec = [o \in Runs |-> NewRec]
    /\ files = {} /\ reviewed = {} /\ latest = {}
    /\ spent = << >> /\ did = {} /\ settled = {}
    /\ count = [starts |-> 0, undo |-> 0, drift |-> 0]

-----------------------------------------------------------------------------
(* What a run reads and computes. *)

\* Mutant: plans and patches are not bound to a resourceVersion.
DeploymentVersionIgnored == 0

\* resourceVersion, as baseline() records it and the patch tests it.
DeploymentVersion == live.rv

\* baseline(): the evidence a plan is bound to ...
Baseline == [cm |-> live.cm, rv |-> DeploymentVersion, spec |-> live.spec]

\* ... which exists only while the live YAML is what the customer file says.
Reconciled(file) ==
    /\ live.cm.mod = file.mod
    /\ file.set # "unset" => live.cm.set = file.set

\* desired_configuration(), reconcile(): the new file; a catalog replaces the
\* model list or is merged into it.
Desired(kind, file, want) ==
    IF kind = "settings" THEN [file EXCEPT !.set = want.set]
    ELSE [file EXCEPT !.mod = IF want.merge THEN @ \cup want.mod ELSE want.mod]

\* configuration_payload(): the new YAML is the live one with the change.
Payload(kind, file, want, cm) ==
    IF kind = "settings" THEN [cm EXCEPT !.set = want.set]
    ELSE [cm EXCEPT !.mod = Desired(kind, file, want).mod]

Wants(kind) ==
    IF kind = "settings" THEN [set : Settings, mod : {{}}, merge : {FALSE}]
    ELSE [set : {"unset"}, mod : (SUBSET Accounts) \ {{}}, merge : BOOLEAN]

\* The plan: everything the review binds, desired state included.
PlanOf(kind, file, want, missing) ==
    [kind |-> kind, file |-> file, want |-> want, base |-> Baseline, missing |-> missing,
     doc |-> Desired(kind, file, want), cm |-> Payload(kind, file, want, live.cm)]

\* endpoint_state(), role_state(): endpoint, DNS binding and role are there;
\* infrastructure_plan(): the accounts a deployment is planned for.
Ready(accounts) == accounts \subseteq infra
Missing(accounts) == {a \in accounts : ~Ready({a})}

Plan(o) == CHOOSE p \in run[o].plan : TRUE
Changed(o) == Plan(o).cm # Plan(o).base.cm
At(o, pc) == run[o].pc = pc

Goto(o, pc) == run' = [run EXCEPT ![o].pc = pc]

-----------------------------------------------------------------------------
(* Planning: all reads, then the plan is saved or compared. *)

\* latest_approval(), --approved-plan-sha256: what an execute may be given.  Only
\* the newest plan of runtime-config, and only if its run ended as planned.
Approvals(kind) ==
    {p \in reviewed : p.kind = kind /\ (kind = "settings" => p \in latest)}

\* Inputs are read.
Start(o, kind, op) ==
    /\ At(o, "idle") /\ count.starts < MaxStarts
    /\ \E want \in Wants(kind) :
        \E a \in IF op = "plan" THEN {{}} ELSE {{p} : p \in Approvals(kind)} :
          run' = [run EXCEPT ![o] = [Idle EXCEPT !.pc = "read", !.op = op, !.approved = a,
                    !.plan = {[kind |-> kind, file |-> conf, want |-> want]}]]
    /\ rec' = [rec EXCEPT ![o] = [NewRec EXCEPT !.status = "planning"]]
    /\ did' = did \ {o}
    /\ count' = [count EXCEPT !.starts = @ + 1]
    /\ UNCHANGED <<cluster, conf, books, spent, settled>>

\* prepare(): the baseline, the dry run and the missing prerequisites; with
\* native authentication runtime-config also probes every Pod.
Prepare(o) ==
    /\ At(o, "read")
    /\ \E i \in run[o].plan :
        /\ Reconciled(i.file)
        /\ i.kind = "settings" /\ Native => pods = {live.cm}
        /\ run' = [run EXCEPT ![o].pc = "planned",
                     ![o].plan = {PlanOf(i.kind, i.file, i.want, Missing(i.want.mod))}]
    /\ UNCHANGED <<cluster, conf, rec, books, history, count>>

\* runtime-config writes plan.json first; from here on it is the newest plan.
WritePlan(o) ==
    /\ At(o, "planned") /\ run[o].op = "plan" /\ Plan(o).kind = "settings"
    /\ latest' = run[o].plan
    /\ Goto(o, "written")
    /\ UNCHANGED <<cluster, conf, rec, files, reviewed, history, count>>

SavePlan(o) ==
    /\ run[o].op = "plan"
    /\ At(o, IF Plan(o).kind = "settings" THEN "written" ELSE "planned")
    /\ reviewed' = reviewed \cup run[o].plan
    /\ run' = [run EXCEPT ![o] = Idle]
    /\ rec' = [rec EXCEPT ![o].status = "planned"]
    /\ UNCHANGED <<cluster, conf, files, latest, history, count>>

\* previous and desired document, rollback patch.
Evidence(o) == [from |-> Plan(o).base.cm, to |-> Plan(o).cm, before |-> Plan(o).file, after |-> Plan(o).doc]

\* Mutant: no recovery files.
AcceptBare(o) ==
    /\ At(o, "planned") /\ run[o].op = "execute"
    /\ run[o].approved = run[o].plan /\ conf = Plan(o).file
    /\ run' = [run EXCEPT ![o].pc = IF Plan(o).kind = "settings" THEN "recheck" ELSE "infra",
                          ![o].todo = Plan(o).missing]
    /\ rec' = [rec EXCEPT ![o].status = IF Plan(o).kind = "models" THEN "executing" ELSE @]
    /\ UNCHANGED <<cluster, conf, books, history, count>>

\* The fresh plan is the approved one and the inputs are still the same.
Accept(o) ==
    /\ At(o, "planned") /\ run[o].op = "execute"
    /\ run[o].approved = run[o].plan /\ conf = Plan(o).file
    /\ run' = [run EXCEPT ![o].pc = IF Plan(o).kind = "settings" THEN "recheck" ELSE "infra",
                          ![o].todo = Plan(o).missing]
    /\ files' = files \cup {Evidence(o)}
    /\ rec' = [rec EXCEPT ![o].status = IF Plan(o).kind = "models" THEN "executing" ELSE @]
    /\ UNCHANGED <<cluster, conf, reviewed, latest, history, count>>

-----------------------------------------------------------------------------
(* execute_infrastructure(): one deployment per account, then all re-read. *)

Deploy(o, a) ==
    /\ At(o, "infra") /\ a \in run[o].todo
    /\ infra' = infra \cup {a}
    /\ run' = [run EXCEPT ![o].todo = @ \ {a}]
    /\ UNCHANGED <<live, maps, pods, conf, rec, books, history, count>>

\* Mutant: the application is updated without re-reading the prerequisites.
VerifyInfrastructureSkipped(o) ==
    /\ At(o, "infra")
    /\ Goto(o, "recheck")
    /\ UNCHANGED <<cluster, conf, rec, books, history, count>>

VerifyInfrastructure(o) ==
    /\ At(o, "infra") /\ run[o].todo = {} /\ Ready(Plan(o).want.mod)
    /\ Goto(o, "recheck")
    /\ UNCHANGED <<cluster, conf, rec, books, history, count>>

-----------------------------------------------------------------------------
(* apply(): ConfigMap, patch, rollout, verification. *)

\* Mutant: the attempt is recorded only after the patch.
RecheckUnrecorded(o) ==
    /\ At(o, "recheck") /\ Baseline = Plan(o).base /\ conf = Plan(o).file
    /\ Goto(o, IF Changed(o) THEN "fresh" ELSE "rollout")
    /\ UNCHANGED <<cluster, conf, rec, books, history, count>>

\* The live workload and the inputs are those of the plan; the attempt is
\* recorded before anything is written.
Recheck(o) ==
    /\ At(o, "recheck") /\ Baseline = Plan(o).base /\ conf = Plan(o).file
    /\ rec' = [rec EXCEPT ![o].status = "executing", ![o].attempted = Changed(o)]
    /\ Goto(o, IF Changed(o) THEN "fresh" ELSE "rollout")
    /\ UNCHANGED <<cluster, conf, books, history, count>>

CreateConfigMap(o) ==
    /\ At(o, "fresh") /\ Baseline = Plan(o).base
    /\ maps' = maps \cup {Plan(o).cm}
    /\ Goto(o, "patch")
    /\ UNCHANGED <<live, pods, infra, conf, rec, books, history, count>>

\* Mutant: a merge patch without tests.
PatchBlind(o) ==
    /\ live' = [live EXCEPT !.cm = Plan(o).cm, !.rv = @ + 1]
    /\ spent' = Append(spent, Plan(o)) /\ did' = did \cup {o} /\ settled' = {}
    /\ UNCHANGED <<maps, pods, infra, conf, books, count>>

\* The JSON patch: tests of uid, resourceVersion and old name, then replace.
Patch(o) ==
    /\ DeploymentVersion = Plan(o).base.rv /\ live.cm = Plan(o).base.cm
    /\ live' = [live EXCEPT !.cm = Plan(o).cm, !.rv = @ + 1]
    /\ spent' = Append(spent, Plan(o)) /\ did' = did \cup {o} /\ settled' = {}
    /\ UNCHANGED <<maps, pods, infra, conf, books, count>>

PatchDeployment(o) ==
    /\ At(o, "patch") /\ Patch(o)
    /\ Goto(o, "patched")
    /\ UNCHANGED rec

\* The patch took effect but its answer is lost: the run fails.
PatchAnswerLost(o) ==
    /\ At(o, "patch") /\ Patch(o)
    /\ run' = [run EXCEPT ![o] = Idle]
    /\ rec' = [rec EXCEPT ![o].status = "failed"]

RecordPatched(o) ==
    /\ At(o, "patched")
    /\ rec' = [rec EXCEPT ![o].patched = TRUE]
    /\ Goto(o, "rollout")
    /\ UNCHANGED <<cluster, conf, books, history, count>>

\* verify_deployment(): the approved spec with the new volume, nothing else.
Verified(o) == live.cm = Plan(o).cm /\ live.spec = Plan(o).base.spec

\* Mutant: the Deployment is verified, the Pods are not.
VerifyRolloutSpecOnly(o) ==
    /\ At(o, "rollout") /\ Verified(o)
    /\ Goto(o, IF Plan(o).kind = "settings" THEN "effective" ELSE "install")
    /\ UNCHANGED <<cluster, conf, rec, books, history, count>>

\* rollout status, then every ready Pod mounts the new text.
VerifyRollout(o) ==
    /\ At(o, "rollout") /\ Verified(o) /\ pods = {Plan(o).cm}
    /\ Goto(o, IF Plan(o).kind = "settings" THEN "effective" ELSE "install")
    /\ UNCHANGED <<cluster, conf, rec, books, history, count>>

-----------------------------------------------------------------------------
(* The customer file. *)

\* With native authentication effective_checks() asks the running processes;
\* then the inputs once more.
EffectiveChecks(o) ==
    /\ At(o, "effective")
    /\ Native => Verified(o) /\ pods = {Plan(o).cm}
    /\ conf = Plan(o).file
    /\ Goto(o, "installed")
    /\ UNCHANGED <<cluster, conf, rec, books, history, count>>

\* baseline() against the new file before it is installed.
InstalledBaseline(o) ==
    /\ At(o, "installed") /\ Reconciled(Plan(o).doc) /\ live.cm = Plan(o).cm
    /\ Goto(o, "install")
    /\ UNCHANGED <<cluster, conf, rec, books, history, count>>

\* install_report(): the new file is renamed over the old one, if it differs.
\* model-sync looks at the old one right before.
Install(o) ==
    /\ At(o, "install")
    /\ Plan(o).kind = "models" => conf = Plan(o).file
    /\ conf' = IF Plan(o).doc = Plan(o).file THEN conf ELSE Plan(o).doc
    /\ Goto(o, "done")
    /\ settled' = IF conf' = conf THEN settled ELSE {}
    /\ UNCHANGED <<cluster, rec, books, spent, did, count>>

\* runtime-config reads the file back; the run is recorded as completed.
Complete(o) ==
    /\ At(o, "done")
    /\ Plan(o).kind = "settings" => conf = Plan(o).doc
    /\ run' = [run EXCEPT ![o] = Idle]
    /\ rec' = [rec EXCEPT ![o].status = "completed"]
    /\ settled' = {[doc |-> Plan(o).doc, cm |-> Plan(o).cm]}
    /\ UNCHANGED <<cluster, conf, books, spent, did, count>>

-----------------------------------------------------------------------------
(* Failure.  Any call fails, a check does not hold, a wait times out: the    *)
(* finally clause records it.  Or the process is killed and records nothing. *)

Fail(o) ==
    /\ ~At(o, "idle")
    /\ run' = [run EXCEPT ![o] = Idle]
    /\ rec' = [rec EXCEPT ![o].status = "failed"]
    /\ UNCHANGED <<cluster, conf, books, history, count>>

Kill(o) ==
    /\ ~At(o, "idle")
    /\ run' = [run EXCEPT ![o] = Idle]
    /\ UNCHANGED <<cluster, conf, rec, books, history, count>>

\* The documented ways out, from the files of a run that went on to publish:
\* the rollback patch, which tests the mounted name, with the two sections of
\* the previous file, or the desired file while the desired mapping is live.
Quiescent == \A o \in Runs : At(o, "idle")

RollBack(e) ==
    /\ Quiescent /\ count.undo < MaxUndo
    /\ live.cm = e.to /\ e.from # e.to
    /\ live' = [live EXCEPT !.cm = e.from, !.rv = @ + 1]
    /\ conf' = [conf EXCEPT !.set = e.before.set, !.mod = e.before.mod]
    /\ count' = [count EXCEPT !.undo = @ + 1]
    /\ settled' = {}
    /\ UNCHANGED <<maps, pods, infra, run, rec, books, spent, did>>

InstallDesired(e) ==
    /\ Quiescent /\ live.cm = e.to
    /\ conf' = [conf EXCEPT !.set = e.after.set, !.mod = e.after.mod]
    /\ settled' = {}
    /\ UNCHANGED <<cluster, run, rec, books, spent, did, count>>

-----------------------------------------------------------------------------
(* The cluster and other parties (external). *)

\* The rollout controller starts a Pod, or stops the old ones; status changes.
RollOut ==
    /\ pods # {live.cm} /\ live.cm \in maps
    /\ pods' = IF live.cm \in pods THEN {live.cm} ELSE pods \cup {live.cm}
    /\ live' = [live EXCEPT !.rv = @ + 1]
    /\ UNCHANGED <<maps, infra, conf, run, rec, books, history, count>>

ForeignEdit ==
    /\ count.drift < MaxDrift
    /\ count' = [count EXCEPT !.drift = @ + 1]
    /\ \/ live' = [live EXCEPT !.rv = @ + 1, !.spec = @ + 1] /\ UNCHANGED conf
       \/ conf' = [conf EXCEPT !.rest = @ + 1] /\ UNCHANGED live
    /\ UNCHANGED <<maps, pods, infra, run, rec, books, history>>

-----------------------------------------------------------------------------
Step(o) ==
    \/ Prepare(o) \/ WritePlan(o) \/ SavePlan(o) \/ Accept(o)
    \/ \E a \in Accounts : Deploy(o, a)
    \/ VerifyInfrastructure(o) \/ Recheck(o) \/ CreateConfigMap(o)
    \/ PatchDeployment(o) \/ RecordPatched(o) \/ VerifyRollout(o)
    \/ EffectiveChecks(o) \/ InstalledBaseline(o) \/ Install(o) \/ Complete(o)

\* An operator follows the recovery instructions.
Recover == \E e \in files : RollBack(e) \/ InstallDesired(e)

Next ==
    \/ \E o \in Runs :
        \/ \E k \in Kinds, op \in {"plan", "execute"} : Start(o, k, op)
        \/ Step(o) \/ PatchAnswerLost(o) \/ Fail(o) \/ Kill(o)
    \/ Recover \/ RollOut \/ ForeignEdit

Spec == Init /\ [][Next]_vars

(* Fairness: a process goes on or fails, since every call has a timeout, and  *)
(* while the file and the cluster disagree somebody follows the instructions. *)
FairSpec ==
    /\ Spec
    /\ WF_vars(Recover /\ ~Reconciled(conf))
    /\ \A o \in Runs : WF_vars(Step(o) \/ Fail(o))

-----------------------------------------------------------------------------
(* Properties. *)

\* Types of the cluster, the file, the runs and their records.
TypeOK ==
    /\ live.cm \in Runtimes /\ live.rv \in Nat /\ live.spec \in 0..MaxDrift
    /\ maps \subseteq Runtimes /\ pods \subseteq Runtimes /\ infra \subseteq Accounts
    /\ conf.set \in Settings \cup {"unset"} /\ conf.mod \subseteq Accounts
    /\ \A o \in Runs : Cardinality(run[o].plan) <= 1 /\ Cardinality(run[o].approved) <= 1
    /\ rec \in [Runs -> [status : {"none", "planning", "planned", "executing", "failed", "completed"},
                         attempted : BOOLEAN, patched : BOOLEAN]]
    /\ latest # {} => \E p \in latest : p.kind = "settings"

\* Whoever overlaps: a patch takes effect only as one reviewed plan says, on
\* exactly the Deployment that was reviewed, version and spec included.
PatchAsApproved ==
    [][spent' # spent =>
         LET p == spent'[Len(spent')]
         IN /\ p \in reviewed
            /\ live.cm = p.base.cm /\ live.rv = p.base.rv /\ live.spec = p.base.spec
            /\ live'.cm = p.cm /\ live'.spec = live.spec]_vars

\* A review is good for one publication: not even after a rollback to the very
\* configuration it was made for does the same approval patch again.
ApprovalUsedOnce ==
    \A i, j \in 1..Len(spent) : spent[i] = spent[j] => i = j

\* state.json never denies a change: if the Deployment was patched, the record
\* on disk says that a patch was attempted and not that the run only planned,
\* also if the process was killed in between.
RecordNeverDenies ==
    \A o \in did : rec[o].attempted /\ rec[o].status \notin {"planning", "planned"}

\* Whoever publishes or rolls back: the Deployment names a ConfigMap that exists,
\* and every model of the live list has its private endpoint, DNS and role.
MountedUsable ==
    live.cm \in maps /\ live.cm.mod \subseteq infra

\* A run that reports completion leaves settings and models of the file, the
\* Deployment and every Pod in agreement, until the next publication or
\* recovery; other parties editing the rest do not disturb it.
CompletedAgrees ==
    \A s \in settled :
        /\ conf.set = s.doc.set /\ conf.mod = s.doc.mod
        /\ live.cm = s.cm /\ pods = {s.cm} /\ Reconciled(conf)

\* Wherever a run broke off, the documented recovery leads back to a state in
\* which the next run can be planned.
NeverStuck ==
    ~Reconciled(conf) ~> Reconciled(conf)
=============================================================================
