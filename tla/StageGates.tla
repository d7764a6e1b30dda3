----------------------------- MODULE StageGates -----------------------------
(***************************************************************************)
(* The stage gates of the migration: acceptance evidence                    *)
(* (scripts/migration_evidence.py, workflow_artifacts.py), the fingerprint  *)
(* of the part of the configuration a stage depends on                      *)
(* (customer_migration.py) and planned, approved and executed ARM           *)
(* deployments (migration_deploy.py), by a workflow or by the local runner  *)
(* (local_execution/runner.py).                                             *)
(*                                                                          *)
(* Workflows of one environment exclude each other (concurrency group       *)
(* customer-change); the local runner, an operator who edits the            *)
(* configuration or merges a commit, and Azure itself do not.               *)
(***************************************************************************)
EXTENDS Integers, Sequences, FiniteSets

CONSTANTS
    Stages,     \* the stages that apply (greenfield drops 1, native drops 7)
    Sections,   \* the sections of the customer configuration that are edited
    Components, \* ARM components
    MaxRuns,    \* bound on acceptances
    MaxPlans,   \* bound on plans put up for approval
    MaxEdits    \* bound on edits, commits, expiries and changes from outside

First == [bootstrap |-> 0, network |-> 0, legacyAccess |-> 1, contentAudit |-> 2, platform |-> 3,
          authentication |-> 4, certificates |-> 4, privateIngress |-> 4, databaseAccess |-> 5,
          application |-> 6, proxy |-> 7, entra |-> 7, auditRuntime |-> 8, observability |-> 8,
          auditGovernance |-> 8, edge |-> 9, dns |-> 9, origin |-> 9]

ASSUME GatesAssumption ==
    /\ Stages \subseteq 0..9
    /\ Sections \subseteq DOMAIN First \cup {"base", "l3Audit"}
    /\ Components \subseteq {"network", "platform", "edge"}
    /\ MaxRuns \in Nat /\ MaxPlans \in Nat /\ MaxEdits \in Nat

VARIABLES
    mode,     \* governance.approvalMode: dual or single-operator
    cfg,      \* cfg[k]: version of section k of the customer configuration
    rev,      \* the commit the jobs run at
    runs,     \* successful acceptance runs in order, each with its ledger
    aged,     \* acceptances up to this one are older than seven days
    job,      \* the deployment by a workflow under way, if any
    reviewed, \* the plans that were put up for approval
    here,     \* the deployment by the local runner under way, if any
    arm,      \* arm[c]: what is deployed as component c
    edits     \* changes from outside so far

gates == <<mode, cfg, rev, runs, aged, job, reviewed, here, arm, edits>>

\* stage_fingerprint(): the sections a stage depends on.  The L3 sidecar is
\* scoped to its network (stage 4) and its activation (from stage 8 on).
InScope(k, s) ==
    CASE k = "base" -> TRUE
      [] k = "l3Audit" -> s = 4 \/ s >= 8
      [] OTHER -> s >= First[k]

Scoped(c, s) == [k \in {x \in Sections : InScope(x, s)} |-> c[k]]

NoDeployment == [stage |-> -1, scope |-> << >>]

GateInit ==
    /\ mode \in {"dual", "single-operator"}
    /\ cfg = [k \in Sections |-> 0] /\ rev = 1
    /\ runs = << >> /\ aged = 0
    /\ job = {} /\ here = {} /\ reviewed = {}
    /\ arm = [c \in Components |-> NoDeployment] /\ edits = 0

-----------------------------------------------------------------------------
(* Evidence. *)

\* validate_evidence(): every record is of this configuration's scope, of this
\* commit (unless one operator answers for all), recent, and none is missing.
Validated(records, s, c, v) ==
    /\ \A e \in records :
          /\ e.scope = Scoped(c, e.stage)
          /\ mode = "dual" => e.rev = v
          /\ e.born > aged
    /\ \A p \in Stages : p < s => \E e \in records : e.stage = p

\* load_evidence(): the ledger of the newest acceptance run; with two approvers
\* of the newest at this commit.  An older one is never tried instead.
Candidates(v) == {i \in 1..Len(runs) : mode = "dual" => runs[i].rev = v}

Newest(v) ==
    IF Candidates(v) = {} THEN {}
    ELSE runs[CHOOSE i \in Candidates(v) : \A j \in Candidates(v) : j <= i].records

\* Mutant: later stages keep their evidence when an earlier one is accepted again.
LedgerKeepsLater(s, c, v, previous) ==
    {e \in previous : e.stage # s}
    \cup {[stage |-> s, scope |-> Scoped(c, s), rev |-> v, born |-> Len(runs) + 1]}

\* record_evidence(): the predecessors and the new record; later stages go.
Ledger(s, c, v, previous) ==
    {e \in previous : e.stage < s}
    \cup {[stage |-> s, scope |-> Scoped(c, s), rev |-> v, born |-> Len(runs) + 1]}

\* Checklist, confirmation and ledger, in one step: a checklist of another scope,
\* another commit or another week is refused, so only one that could as well be
\* drafted now counts; and of what the job reads besides configuration and commit
\* (read when it starts) nothing changes while it runs.
Accept(s) ==
    LET previous == {e \in Newest(rev) : e.stage < s}
        new == Ledger(s, cfg, rev, Newest(rev))
    IN /\ job = {} /\ Len(runs) < MaxRuns
       /\ Validated(previous, s, cfg, rev)
       /\ Validated(new, s + 1, cfg, rev)
       /\ runs' = Append(runs, [stage |-> s, rev |-> rev, records |-> new])
       /\ UNCHANGED <<mode, cfg, rev, aged, job, reviewed, here, arm, edits>>

-----------------------------------------------------------------------------
(* Deployments.  A plan's hash covers what-if's view of what is deployed.    *)

Plan(s, c, conf, v) ==
    [stage |-> s, c |-> c, scope |-> Scoped(conf, s), rev |-> v, before |-> arm[c]]

\* parameters_for(): the platform grows over three stages.
Belongs(s, c) == IF c = "platform" THEN s \in {3, 4, 5} ELSE s = First[c]

\* A plan is made, by a workflow (operation plan) or by the local runner, and put
\* up for approval; no evidence is needed.
PutUp(s, c) ==
    /\ job = {} \/ here = {}
    /\ Belongs(s, c) /\ Cardinality(reviewed) < MaxPlans
    /\ reviewed' = reviewed \cup {Plan(s, c, cfg, rev)} /\ reviewed' # reviewed
    /\ UNCHANGED <<mode, cfg, rev, runs, aged, job, here, arm, edits>>

\* operation deploy: the plan run that is named must be of this stage, component,
\* scope and commit (approved_operation), and the evidence must be complete.
Later(records, s) == \E e \in records : e.stage > s

StartDeploy(s, c) ==
    /\ job = {} /\ Belongs(s, c)
    /\ Validated(Newest(rev), s, cfg, rev)
    /\ c = "network" => \A e \in Newest(rev) : e.stage < 4
    /\ c = "platform" => ~Later(Newest(rev), s)
    /\ \E p \in reviewed :
          /\ p.stage = s /\ p.c = c /\ p.scope = Scoped(cfg, s) /\ p.rev = rev
          /\ job' = {[stage |-> s, c |-> c, cfg |-> cfg, rev |-> rev, approved |-> p,
                      compared |-> FALSE, overtaken |-> FALSE]}
    /\ UNCHANGED <<mode, cfg, rev, runs, aged, reviewed, here, arm, edits>>

\* Mutant: the plan that was approved is not compared with what is there now.
ReplanUnreviewed ==
    \E j \in job :
        /\ ~j.compared
        /\ job' = {[j EXCEPT !.compared = TRUE]}
        /\ UNCHANGED <<mode, cfg, rev, runs, aged, reviewed, here, arm, edits>>

\* what-if again: the plan must be the approved one ...
Replan ==
    \E j \in job :
        /\ ~j.compared /\ Plan(j.stage, j.c, j.cfg, j.rev) = j.approved
        /\ job' = {[j EXCEPT !.compared = TRUE]}
        /\ UNCHANGED <<mode, cfg, rev, runs, aged, reviewed, here, arm, edits>>

Deployed(j) == [stage |-> j.stage, scope |-> Scoped(j.cfg, j.stage)]

\* The other side deploys between the comparison of a plan and its deployment.
Overtaken(steps, c) == {[x EXCEPT !.overtaken = @ \/ (x.compared /\ x.c = c)] : x \in steps}

\* ... and ARM applies it.
Create ==
    \E j \in job :
        /\ j.compared
        /\ arm' = [arm EXCEPT ![j.c] = Deployed(j)]
        /\ here' = Overtaken(here, j.c)
        /\ job' = {}
        /\ UNCHANGED <<mode, cfg, rev, runs, aged, reviewed, edits>>

\* Any step fails, or the runner is lost; nothing is undone.
JobFails ==
    /\ job # {}
    /\ job' = {}
    /\ UNCHANGED <<mode, cfg, rev, runs, aged, reviewed, here, arm, edits>>

-----------------------------------------------------------------------------
(* The local runner: plans, compares with the approved hash and executes     *)
(* what it planned.  It reads no evidence, and stages 0 and 1 need no hash.  *)

LocalApproved(s, c) ==
    LET plan == Plan(s, c, cfg, rev)
    IN /\ here = {} /\ Belongs(s, c)
       /\ s > 1 => plan \in reviewed
       /\ here' = {[stage |-> s, c |-> c, cfg |-> cfg, rev |-> rev, approved |-> plan,
                    compared |-> s > 1, overtaken |-> FALSE]}
       /\ UNCHANGED <<mode, cfg, rev, runs, aged, job, reviewed, arm, edits>>

LocalExecute ==
    \E j \in here :
        /\ \/ UNCHANGED <<arm, job>>
           \/ arm' = [arm EXCEPT ![j.c] = Deployed(j)] /\ job' = Overtaken(job, j.c)
        /\ here' = {}
        /\ UNCHANGED <<mode, cfg, rev, runs, aged, reviewed, edits>>

-----------------------------------------------------------------------------
(* The world. *)

Outside == edits < MaxEdits /\ edits' = edits + 1

EditConfig(k) ==
    /\ Outside
    /\ cfg' = [cfg EXCEPT ![k] = 1 - @]
    /\ UNCHANGED <<mode, rev, runs, aged, job, reviewed, here, arm>>

\* A commit is merged; or a run of the commit before is started again, or the
\* branch set back, and jobs run at that one.
Commit ==
    /\ Outside
    /\ rev' = 3 - rev
    /\ UNCHANGED <<mode, cfg, runs, aged, job, reviewed, here, arm>>

\* Time passes: acceptances up to one of them grow older than seven days.
WeekPasses ==
    /\ Outside
    /\ aged' \in (aged + 1)..Len(runs)
    /\ UNCHANGED <<mode, cfg, rev, runs, job, reviewed, here, arm>>

-----------------------------------------------------------------------------
GateNext ==
    \/ \E s \in Stages :
         \/ Accept(s)
         \/ \E c \in Components :
              PutUp(s, c) \/ StartDeploy(s, c) \/ LocalApproved(s, c)
    \/ Replan \/ Create \/ JobFails \/ LocalExecute
    \/ (\E k \in Sections : EditConfig(k)) \/ Commit \/ WeekPasses

GateSpec == GateInit /\ [][GateNext]_gates

-----------------------------------------------------------------------------
(* Properties. *)

Counts(i, v) == mode = "dual" => runs[i].rev = v

Superseding(i, v) == {k \in (i + 1)..Len(runs) : Counts(k, v) /\ runs[k].stage <= runs[i].stage}

\* Whatever a workflow is about to deploy at a stage rests, for every stage
\* before, on an acceptance of exactly that configuration, and among the
\* acceptances that count for it none of this stage or an earlier one came later:
\* editing a section back or accepting a stage again never revives evidence.  With
\* two approvers only the acceptances of the same commit count, so that going back
\* to an older commit takes up its evidence as it was.
BuiltOnAccepted ==
    \A j \in job : j.compared =>
        \A p \in Stages : p < j.stage =>
            \E i \in 1..Len(runs) :
                /\ Counts(i, j.rev) /\ runs[i].stage = p
                /\ \E e \in runs[i].records : e.stage = p /\ e.scope = Scoped(j.cfg, p)
                /\ Superseding(i, j.rev) = {}

\* Whoever is about to deploy finds the component as the reviewer of the plan saw
\* it, whatever was deployed, edited, committed or planned since: what-if's view
\* is part of the hash.  Only what the other side deploys after the comparison
\* itself goes unseen.
DeploysWhatWasReviewed ==
    \A j \in job \cup here : j.compared => j.overtaken \/ arm[j.c] = j.approved.before

\* What is about to be deployed stands on evidence that counts and was reviewed
\* against what is there (migration_deploy.py:414-440, local_execution/runner.py).
DeploymentsStand == BuiltOnAccepted /\ DeploysWhatWasReviewed
=============================================================================
