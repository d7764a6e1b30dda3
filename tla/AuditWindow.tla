----------------------------- MODULE AuditWindow -----------------------------
(***************************************************************************)
(* The audit maintenance window (scripts/audit_window.py) and the recovery  *)
(* Job it protects (scripts/audit_runtime.py, audit-recovery-worker.mjs):   *)
(* plan / approve / execute of audit-pause, audit-resume and audit-recover  *)
(* against a Kubernetes API with compare-and-set patches.  An operator run  *)
(* may die after any call and is then started again; runs do not overlap    *)
(* (one workflow concurrency group per environment), but the Job outlives   *)
(* the run that created it.  Other parties may edit the workloads.          *)
(***************************************************************************)
EXTENDS Naturals, FiniteSets

CONSTANTS
    MaxWindows,  \* bound: maintenance windows opened
    MaxDeaths,   \* bound: operator runs that die or fail half way
    MaxDrift     \* bound: edits of the workloads by somebody else

ASSUME BoundsAssumption == MaxWindows \in Nat /\ MaxDeaths \in Nat /\ MaxDrift \in Nat

VARIABLES
    dep,      \* spec of Deployment llm-api-proxy: the replicas field and the rest
    cron,     \* spec of CronJob l3-retention: the suspend field and the rest
    cm,       \* the checkpoint ConfigMap: at most one
    writer,   \* writer Pods exist
    purging,  \* a retention Job or Pod is active
    job,      \* the recovery Job: none, checking (verifyWindow), writing
    jobWin,   \* the window the recovery Job was created for
    op,       \* the operator run in progress
    approved, \* the reviewed plan
    count     \* windows opened, runs died, foreign edits so far

vars == <<dep, cron, cm, writer, purging, job, jobWin, op, approved, count>>

\* replicas: missing (defaults to 1), zero, or a positive number.
\* suspend:  missing (defaults to false), false, or true.
Deps  == [replicas : {"missing", "zero", "some"}, rest : 0..MaxDrift]
Crons == [suspend : {"missing", "false", "true"}, rest : 0..MaxDrift]

PausedDep(d)  == [d EXCEPT !.replicas = "zero"]
PausedCron(c) == [c EXCEPT !.suspend = "true"]

Idle == [pc |-> "idle", action |-> "none", dep |-> {}, cron |-> {}, win |-> {}]

Init ==
    /\ dep \in [replicas : {"missing", "some"}, rest : {0}]
    /\ cron \in [suspend : {"missing", "false", "true"}, rest : {0}]
    /\ cm = {} /\ writer = TRUE /\ purging = FALSE
    /\ job = "none" /\ jobWin = {}
    /\ op = Idle /\ approved = {}
    /\ count = [windows |-> 0, deaths |-> 0, drift |-> 0]

-----------------------------------------------------------------------------
(* Reads and checks shared by the operations. *)

\* verify_targets(): each spec is the recorded original or its paused form.
TargetsKnown(w) ==
    /\ dep \in {w.dep, PausedDep(w.dep)}
    /\ cron \in {w.cron, PausedCron(w.cron)}

TargetsPaused(w) == dep = PausedDep(w.dep) /\ cron = PausedCron(w.cron)

Quiet == ~writer /\ ~purging

\* Mutant: a resume does not ask whether a recovery Job is active.
PlannableDuringJob(action) ==
    IF cm = {}
    THEN action = "pause" /\ dep.replicas # "zero"
    ELSE \A w \in cm : (action = "pause" => w.phase # "resuming") /\ TargetsKnown(w)

\* Mutant: only a window that was fully paused can be resumed.
PlannableOnceOnly(action) ==
    /\ job = "none"
    /\ IF cm = {}
       THEN action = "pause" /\ dep.replicas # "zero"
       ELSE \A w \in cm : (action = "resume" => w.phase = "paused") /\ TargetsKnown(w)

\* plan_window(): may this action be planned now, and what does the plan bind?
Plannable(action) ==
    /\ job = "none"
    /\ IF cm = {}
       THEN action = "pause" /\ dep.replicas # "zero"
       ELSE \A w \in cm : (action = "pause" => w.phase # "resuming") /\ TargetsKnown(w)

PlanOf(action) == [action |-> action, cm |-> cm, dep |-> dep, cron |-> cron]

\* assert_paused(): the precondition of recovery and of governance changes.
AssertPaused ==
    \E w \in cm : w.phase = "paused" /\ TargetsPaused(w) /\ Quiet

-----------------------------------------------------------------------------
(* The operator run: one step per call that reads or writes the cluster. *)

At(pc) == op.pc = pc

Plan(action) ==
    /\ At("idle") /\ Plannable(action)
    /\ approved' = {PlanOf(action)}
    /\ UNCHANGED <<dep, cron, cm, writer, purging, job, jobWin, op, count>>

\* execute_window(): the plan is recomputed and must be the approved one.
Execute(action) ==
    /\ At("idle") /\ Plannable(action) /\ approved = {PlanOf(action)}
    /\ cm = {} => count.windows < MaxWindows
    /\ op' = [Idle EXCEPT !.pc = "checkpoint", !.action = action, !.dep = {dep}, !.cron = {cron}]
    /\ UNCHANGED <<dep, cron, cm, writer, purging, job, jobWin, approved, count>>

\* The checkpoint is created from the planned snapshot, before any change.
Checkpoint ==
    /\ At("checkpoint") /\ cm = {} /\ op.action = "pause"
    /\ \E d \in op.dep, c \in op.cron :
         cm' = {[id |-> count.windows + 1, phase |-> "pausing", dep |-> d, cron |-> c]}
    /\ count' = [count EXCEPT !.windows = @ + 1]
    /\ op' = [op EXCEPT !.pc = "read1"]
    /\ UNCHANGED <<dep, cron, writer, purging, job, jobWin, approved>>

\* A checkpoint exists already; a resume marks it with a compare-and-set.
Load ==
    /\ At("checkpoint") /\ cm # {}
    /\ cm' = IF op.action = "resume" THEN {[w EXCEPT !.phase = "resuming"] : w \in cm} ELSE cm
    /\ op' = [op EXCEPT !.pc = "read1"]
    /\ UNCHANGED <<dep, cron, writer, purging, job, jobWin, approved, count>>

\* target_state() and verify_targets() at the head of each loop turn.
ReadTargets ==
    /\ op.pc \in {"read1", "read2"}
    /\ \E w \in cm :
        /\ TargetsKnown(w)
        /\ op' = [op EXCEPT !.pc = IF @ = "read1" THEN "patch1" ELSE "patch2",
                            !.dep = {dep}, !.cron = {cron}, !.win = {w}]
    /\ UNCHANGED <<dep, cron, cm, writer, purging, job, jobWin, approved, count>>

\* Pause stops retention before the writer, resume starts it after.
PatchesCron == (op.pc = "patch1") <=> (op.action = "pause")

AfterPatch == IF op.pc = "patch1" THEN "read2" ELSE "wait"

\* Mutant: the patch replaces the spec without testing what it replaces.
PatchDeploymentBlind ==
    /\ op.pc \in {"patch1", "patch2"} /\ ~PatchesCron
    /\ \E d \in op.dep, w \in op.win :
        dep' = IF op.action = "pause" THEN PausedDep(d) ELSE [d EXCEPT !.replicas = w.dep.replicas]
    /\ op' = [op EXCEPT !.pc = AfterPatch]
    /\ UNCHANGED <<cron, cm, writer, purging, job, jobWin, approved, count>>

\* patch_target() on the Deployment: nothing to do, or test uid and spec and
\* replace the spec in one request.
PatchDeployment ==
    /\ op.pc \in {"patch1", "patch2"} /\ ~PatchesCron
    /\ \E d \in op.dep, w \in op.win :
        LET desired == IF op.action = "pause" THEN PausedDep(d) ELSE [d EXCEPT !.replicas = w.dep.replicas]
        IN IF desired = d THEN UNCHANGED dep ELSE dep = d /\ dep' = desired
    /\ op' = [op EXCEPT !.pc = AfterPatch]
    /\ UNCHANGED <<cron, cm, writer, purging, job, jobWin, approved, count>>

\* Mutant: a field the original spec did not have is restored as its default.
PatchCronJobDefault ==
    /\ op.pc \in {"patch1", "patch2"} /\ PatchesCron
    /\ \E c \in op.cron, w \in op.win :
        /\ cron = c
        /\ cron' = IF op.action = "pause" THEN PausedCron(c)
                   ELSE [c EXCEPT !.suspend = IF w.cron.suspend = "missing" THEN "false" ELSE w.cron.suspend]
    /\ op' = [op EXCEPT !.pc = AfterPatch]
    /\ UNCHANGED <<dep, cm, writer, purging, job, jobWin, approved, count>>

PatchCronJob ==
    /\ op.pc \in {"patch1", "patch2"} /\ PatchesCron
    /\ \E c \in op.cron, w \in op.win :
        LET desired == IF op.action = "pause" THEN PausedCron(c) ELSE [c EXCEPT !.suspend = w.cron.suspend]
        IN IF desired = c THEN UNCHANGED cron ELSE cron = c /\ cron' = desired
    /\ op' = [op EXCEPT !.pc = AfterPatch]
    /\ UNCHANGED <<dep, cm, writer, purging, job, jobWin, approved, count>>

\* wait_quiet(), and the re-check that the workloads stayed paused.
WaitQuiet ==
    /\ At("wait") /\ op.action = "pause" /\ Quiet
    /\ \E w \in op.win : TargetsPaused(w)
    /\ op' = [op EXCEPT !.pc = "save"]
    /\ UNCHANGED <<dep, cron, cm, writer, purging, job, jobWin, approved, count>>

SavePaused ==
    /\ At("save")
    /\ cm' = {[w EXCEPT !.phase = "paused"] : w \in cm}
    /\ op' = Idle
    /\ UNCHANGED <<dep, cron, writer, purging, job, jobWin, approved, count>>

\* rollout status: the Pods the spec asks for are there.
WaitReady ==
    /\ At("wait") /\ op.action = "resume" /\ (writer \/ dep.replicas = "zero")
    /\ op' = [op EXCEPT !.pc = "delete"]
    /\ UNCHANGED <<dep, cron, cm, writer, purging, job, jobWin, approved, count>>

DeleteCheckpoint ==
    /\ At("delete")
    /\ cm' = {}
    /\ op' = Idle
    /\ UNCHANGED <<dep, cron, writer, purging, job, jobWin, approved, count>>

\* Any call fails, a wait times out, a check throws or the runner dies.  The
\* checkpoint is kept and nothing is resumed.
Die ==
    /\ ~At("idle") /\ count.deaths < MaxDeaths
    /\ op' = Idle
    /\ count' = [count EXCEPT !.deaths = @ + 1]
    /\ UNCHANGED <<dep, cron, cm, writer, purging, job, jobWin, approved>>

-----------------------------------------------------------------------------
(* audit-recover: create a Job inside the window; the Job checks for itself. *)

CreateRecoveryJob ==
    /\ At("idle") /\ job = "none" /\ AssertPaused
    /\ job' = "checking" /\ jobWin' = cm
    /\ UNCHANGED <<dep, cron, cm, writer, purging, op, approved, count>>

\* verifyWindow(): the same checkpoint, both specs paused, nothing running.
VerifyWindow ==
    /\ job = "checking"
    /\ job' = IF cm = jobWin /\ AssertPaused THEN "writing" ELSE "none"
    /\ UNCHANGED <<dep, cron, cm, writer, purging, jobWin, op, approved, count>>

\* One recoverRequest() is done; the next entry, or the end, checks again.
EntryDone ==
    /\ job = "writing"
    /\ job' = "checking"
    /\ UNCHANGED <<dep, cron, cm, writer, purging, jobWin, op, approved, count>>

\* The Job completes, fails, or reaches activeDeadlineSeconds.
JobEnds ==
    /\ job # "none"
    /\ job' = "none"
    /\ UNCHANGED <<dep, cron, cm, writer, purging, jobWin, op, approved, count>>

-----------------------------------------------------------------------------
(* The cluster (external): controllers, and edits by other parties. *)

WriterStarts ==
    /\ ~writer /\ dep.replicas # "zero"
    /\ writer' = TRUE
    /\ UNCHANGED <<dep, cron, cm, purging, job, jobWin, op, approved, count>>

WriterStops ==
    /\ writer /\ dep.replicas = "zero"
    /\ writer' = FALSE
    /\ UNCHANGED <<dep, cron, cm, purging, job, jobWin, op, approved, count>>

RetentionStarts ==
    /\ ~purging /\ cron.suspend # "true"
    /\ purging' = TRUE
    /\ UNCHANGED <<dep, cron, cm, writer, job, jobWin, op, approved, count>>

RetentionEnds ==
    /\ purging
    /\ purging' = FALSE
    /\ UNCHANGED <<dep, cron, cm, writer, job, jobWin, op, approved, count>>

ForeignEdit ==
    /\ count.drift < MaxDrift
    /\ count' = [count EXCEPT !.drift = @ + 1]
    /\ \/ dep' = [dep EXCEPT !.rest = @ + 1] /\ UNCHANGED cron
       \/ dep' \in {[dep EXCEPT !.replicas = v] : v \in {"zero", "some"}} /\ UNCHANGED cron
       \/ cron' = [cron EXCEPT !.rest = @ + 1] /\ UNCHANGED dep
    /\ UNCHANGED <<cm, writer, purging, job, jobWin, op, approved>>

-----------------------------------------------------------------------------
OperatorStep ==
    \/ Checkpoint \/ Load \/ ReadTargets \/ PatchDeployment \/ PatchCronJob
    \/ WaitQuiet \/ SavePaused \/ WaitReady \/ DeleteCheckpoint

Cluster == WriterStarts \/ WriterStops \/ RetentionStarts \/ RetentionEnds

Next ==
    \/ \E a \in {"pause", "resume"} : Plan(a) \/ Execute(a)
    \/ OperatorStep \/ Die
    \/ CreateRecoveryJob \/ VerifyWindow \/ EntryDone \/ JobEnds
    \/ Cluster \/ ForeignEdit

Spec == Init /\ [][Next]_vars

(* Fairness: controllers reconcile, Jobs are over by their deadline, and a   *)
(* run that is alive goes on; whoever opened a window keeps asking for its   *)
(* end (the documented way out of every failure is to plan and run resume).  *)
FairSpec ==
    /\ Spec
    /\ WF_vars(OperatorStep) /\ WF_vars(JobEnds)
    /\ WF_vars(WriterStarts) /\ WF_vars(WriterStops) /\ WF_vars(RetentionEnds)
    /\ SF_vars(Plan("resume")) /\ SF_vars(Execute("resume"))

-----------------------------------------------------------------------------
(* Properties. *)

\* Without foreign edits, recovery never writes while a gateway Pod or a
\* retention Job is active, whatever runs died and however the Job outlived
\* the run that created it (the promise of verifyWindow and of the window).
RecoveryQuiesced ==
    count.drift = 0 /\ job = "writing" => Quiet

\* A spec that is neither the recorded original nor its paused form is never
\* changed by an operator run, even if the edit came between read and patch.
ForeignEditKept ==
    [][\A w \in cm :
         /\ dep \notin {w.dep, PausedDep(w.dep)} /\ dep' # dep => count'.drift = count.drift + 1
         /\ cron \notin {w.cron, PausedCron(w.cron)} /\ cron' # cron => count'.drift = count.drift + 1]_vars

\* Without foreign edits, a window closes only when both specs are what they
\* were before it opened, a missing field included.
CloseRestores ==
    [][\A w \in cm : cm' = {} /\ count.drift = 0 => dep = w.dep /\ cron = w.cron]_vars

\* Without foreign edits, every window can be closed: whatever died on the
\* way, planning and running resume again ends it.
WindowCloses ==
    (cm # {} /\ count.drift = 0) ~> (cm = {} \/ count.drift > 0)
=============================================================================
