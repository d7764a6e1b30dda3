-------------------------- MODULE MigrationProofs ---------------------------
(***************************************************************************)
(* Theorems about the migration, for any stages, planes, addresses,        *)
(* changes from outside and interrupted operations: what a deployment      *)
(* rests on (StageGates), whom the planes trust and what was released to   *)
(* this Front Door (EdgeRelease), the way back of the DNS cutover          *)
(* (DnsCutover), the access rule of the legacy entry (LegacyEntry), and the *)
(* database with its keys and Pods (DatabaseStage).                        *)
(***************************************************************************)
EXTENDS StageGates, DnsCutover, LegacyEntry, DatabaseStage, FiniteSetTheorems, TLAPS

-----------------------------------------------------------------------------
(***************************************************************************)
(* StageGates: what is deployed was accepted.                              *)
(*                                                                         *)
(* GatesInvariant: what a ledger holds was born in an acceptance of its    *)
(* own stage, and no acceptance that counts for the same deployments       *)
(* repeated that stage or an earlier one since.                            *)
(***************************************************************************)

Configurations == [Sections -> {0, 1}]
Scopes == UNION {[T -> {0, 1}] : T \in SUBSET Sections}
Evidence == [stage : Stages, scope : Scopes, rev : {1, 2}, born : Nat]
Acceptance == [stage : Stages, rev : {1, 2}, records : SUBSET Evidence]

IsJob(j) ==
    /\ j = [stage |-> j.stage, c |-> j.c, cfg |-> j.cfg, rev |-> j.rev, approved |-> j.approved,
            compared |-> j.compared, overtaken |-> j.overtaken]
    /\ j.stage \in Stages /\ j.rev \in {1, 2} /\ j.c \in Components

GatesTyped ==
    /\ cfg \in Configurations /\ rev \in {1, 2}
    /\ runs \in Seq(Acceptance)
    /\ \A j \in job : IsJob(j)

\* What a deployment keeps when it is compared or overtaken.
SameJob(q, j) ==
    /\ q.stage = j.stage /\ q.cfg = j.cfg /\ q.rev = j.rev
    /\ q.c = j.c /\ q.approved = j.approved /\ IsJob(q)

\* Some acceptance is the newest of those that count at a commit.
NewestExists ==
    \A v \in {1, 2} : Candidates(v) # {} =>
        \E i \in Candidates(v) : \A j \in Candidates(v) : j <= i

\* Where a record comes from, and what was accepted since.
Rests(e, i) ==
    /\ e.born \in 1..i /\ Counts(e.born, runs[i].rev)
    /\ runs[e.born].stage = e.stage /\ e \in runs[e.born].records
    /\ \A k \in (e.born + 1)..i : Counts(k, runs[i].rev) => runs[k].stage > e.stage

LedgersRest == \A i \in 1..Len(runs) : \A e \in runs[i].records : Rests(e, i)

\* A deployment under way has evidence for every stage before, and none is
\* accepted while it runs.
JobRests ==
    \A j \in job : \A p \in Stages : p < j.stage =>
        \E e \in Newest(j.rev) : e.stage = p /\ e.scope = Scoped(j.cfg, p)

GatesInvariant == GatesTyped /\ NewestExists /\ LedgersRest /\ JobRests

-----------------------------------------------------------------------------
\* The part of a configuration a stage depends on is a function of sections.
LEMMA ScopedTyped ==
    ASSUME NEW c \in Configurations, NEW s
    PROVE  Scoped(c, s) \in Scopes
<1> DEFINE T == {x \in Sections : InScope(x, s)}
<1>1. T \in SUBSET Sections
  OBVIOUS
<1>2. Scoped(c, s) \in [T -> {0, 1}]
  BY DEF Scoped, Configurations
<1> QED BY <1>1, <1>2 DEF Scopes

\* load_evidence(): the ledger of the newest run that counts, or none.
LEMMA NewestIs ==
    ASSUME NewestExists, NEW v \in {1, 2}, NEW e \in Newest(v)
    PROVE  \E m \in Candidates(v) :
               /\ Newest(v) = runs[m].records
               /\ \A j \in Candidates(v) : j <= m
<1> DEFINE Greatest(i) == i \in Candidates(v) /\ \A j \in Candidates(v) : j <= i
<1>1. Candidates(v) # {}
  BY DEF Newest
<1>2. \E i : Greatest(i)
  BY <1>1 DEF NewestExists
<1>3. Greatest(CHOOSE i \in Candidates(v) : \A j \in Candidates(v) : j <= i)
  BY <1>2
<1> QED BY <1>1, <1>3 DEF Newest

\* Nothing is accepted: ledgers and jobs keep what they rest on.
LEMMA RunsUnchanged ==
    ASSUME GatesInvariant, UNCHANGED <<mode, runs>>
    PROVE  /\ NewestExists' /\ LedgersRest'
           /\ \A v : Newest(v)' = Newest(v)
  BY DEF GatesInvariant, NewestExists, Candidates, LedgersRest, Rests, Counts, Newest

\* migration_deploy.py: the comparison of the plan.
LEMMA ComparedJob ==
    ASSUME NEW j, IsJob(j), NEW q, q = [j EXCEPT !.compared = TRUE]
    PROVE  SameJob(q, j) /\ q.compared = TRUE /\ q.overtaken = j.overtaken
<1>1. q = [stage |-> j.stage, c |-> j.c, cfg |-> j.cfg, rev |-> j.rev, approved |-> j.approved,
           compared |-> TRUE, overtaken |-> j.overtaken]
  BY Zenon DEF IsJob
<1>2. /\ q.stage = j.stage /\ q.cfg = j.cfg /\ q.rev = j.rev /\ q.c = j.c
      /\ q.approved = j.approved /\ q.compared = TRUE /\ q.overtaken = j.overtaken
  BY <1>1
<1> QED BY <1>1, <1>2 DEF IsJob, SameJob

\* One field of a deployment is set.
LEMMA OvertakenJob ==
    ASSUME NEW j, IsJob(j), NEW over, NEW q, q = [j EXCEPT !.overtaken = over]
    PROVE  SameJob(q, j) /\ q.compared = j.compared /\ q.overtaken = over
<1>1. q = [stage |-> j.stage, c |-> j.c, cfg |-> j.cfg, rev |-> j.rev, approved |-> j.approved,
           compared |-> j.compared, overtaken |-> over]
  BY DEF IsJob
<1>2. /\ q.stage = j.stage /\ q.cfg = j.cfg /\ q.rev = j.rev /\ q.c = j.c
      /\ q.approved = j.approved /\ q.compared = j.compared /\ q.overtaken = over
  BY <1>1
<1> QED BY <1>1, <1>2 DEF IsJob, SameJob

\* The other side deploys component c (Overtaken).
LEMMA OvertakenBy ==
    ASSUME NEW j, IsJob(j), NEW c, NEW q,
           q = [j EXCEPT !.overtaken = @ \/ (j.compared /\ j.c = c)]
    PROVE  /\ SameJob(q, j) /\ q.compared = j.compared
           /\ q.overtaken = (j.overtaken \/ (j.compared /\ j.c = c))
<1> DEFINE over == j.overtaken \/ (j.compared /\ j.c = c)
<1>1. q = [j EXCEPT !.overtaken = over]
  OBVIOUS
<1> HIDE DEF over
<1>2. SameJob(q, j) /\ q.compared = j.compared /\ q.overtaken = over
  BY SMTT(60), <1>1, OvertakenJob
<1> QED BY <1>2 DEF over

-----------------------------------------------------------------------------
LEMMA GatesBegin == GateInit => GatesInvariant
<1> SUFFICES ASSUME GateInit PROVE GatesInvariant
  OBVIOUS
<1>1. GatesTyped
  BY DEF GateInit, GatesTyped, Configurations
<1>2. Len(runs) = 0
  BY DEF GateInit
<1>3. NewestExists /\ LedgersRest
  BY <1>2 DEF NewestExists, Candidates, LedgersRest
<1> QED BY <1>1, <1>3 DEF GateInit, GatesInvariant, JobRests

\* An acceptance keeps the predecessors of the newest ledger and adds itself.
LEMMA AcceptKeeps ==
    ASSUME GatesAssumption, GatesInvariant, NEW s \in Stages, Accept(s)
    PROVE  GatesInvariant'
<1> DEFINE n == Len(runs) + 1
           record == [stage |-> s, scope |-> Scoped(cfg, s), rev |-> rev, born |-> n]
           kept == {e \in Newest(rev) : e.stage < s}
           run == [stage |-> s, rev |-> rev, records |-> kept \cup {record}]
<1>0. /\ runs \in Seq(Acceptance) /\ Len(runs) \in Nat /\ rev \in {1, 2} /\ cfg \in Configurations
      /\ NewestExists /\ LedgersRest /\ s \in Int /\ Stages \subseteq Int
  BY DEF GatesInvariant, GatesTyped, GatesAssumption
<1>1. runs' = Append(runs, run) /\ job = {} /\ job' = {} /\ UNCHANGED <<mode, cfg, rev>>
  BY DEF Accept, Ledger
<1>2. kept \subseteq Evidence
  <2> SUFFICES ASSUME NEW e \in kept PROVE e \in Evidence
    OBVIOUS
  <2>1. PICK m \in Candidates(rev) : Newest(rev) = runs[m].records
    BY <1>0, NewestIs
  <2>2. runs[m] \in Acceptance
    BY <1>0, <2>1 DEF Candidates
  <2> QED BY <2>1, <2>2 DEF Acceptance
<1>3. run \in Acceptance
  BY <1>0, <1>2, ScopedTyped DEF Acceptance, Evidence
<1>4. /\ runs' \in Seq(Acceptance) /\ Len(runs') = n /\ runs'[n] = run
      /\ \A i \in 1..Len(runs) : runs'[i] = runs[i]
  BY <1>0, <1>1, <1>3
<1>5. GatesTyped'
  BY <1>0, <1>1, <1>4 DEF GatesTyped
<1>6. NewestExists'
  <2> SUFFICES ASSUME NEW v \in {1, 2}, Candidates(v)' # {}
               PROVE  \E i \in Candidates(v)' : \A j \in Candidates(v)' : j <= i
    BY DEF NewestExists
  <2>1. CASE n \in Candidates(v)'
    <3>1. \A i \in Candidates(v)' : i \in Int /\ i <= n
      BY <1>0, <1>4 DEF Candidates
    <3> QED BY <2>1, <3>1
  <2>2. CASE n \notin Candidates(v)'
    <3>1. Candidates(v)' = Candidates(v)
      BY <2>2, <1>0, <1>1, <1>4 DEF Candidates
    <3> QED BY <3>1, <1>0 DEF NewestExists
  <2> QED BY <2>1, <2>2
<1>7. LedgersRest'
  <2> SUFFICES ASSUME NEW i \in 1..n, NEW e \in runs'[i].records
               PROVE  Rests(e, i)'
    BY <1>4 DEF LedgersRest
  <2>1. CASE i # n
    <3>1. i \in 1..Len(runs) /\ runs'[i] = runs[i]
      BY <2>1, <1>0, <1>4
    <3>2. Rests(e, i)
      BY <3>1, <1>0 DEF LedgersRest
    <3>3. \A k \in 1..i : runs'[k] = runs[k]
      BY <3>1, <1>0, <1>4
    <3>4. e.born \in 1..i /\ \A k \in (e.born + 1)..i : k \in 1..i
      BY <3>1, <3>2, <1>0 DEF Rests
    <3> QED BY <3>1, <3>2, <3>3, <3>4, <1>1 DEF Rests, Counts
  <2>2. CASE i = n /\ e = record
    BY <2>2, <1>0, <1>4 DEF Rests, Counts
  <2>3. CASE i = n /\ e \in kept
    <3>1. PICK m \in Candidates(rev) :
              Newest(rev) = runs[m].records /\ \A j \in Candidates(rev) : j <= m
      BY <2>3, <1>0, NewestIs
    <3>2. m \in 1..Len(runs) /\ Counts(m, rev)
      BY <3>1 DEF Candidates, Counts
    <3>3. Rests(e, m) /\ e.stage < s
      BY <2>3, <3>1, <3>2, <1>0 DEF LedgersRest
    <3>4. e.born \in 1..m /\ e.born \in 1..Len(runs)
      BY <3>2, <3>3, <1>0 DEF Rests
    <3>5. Counts(e.born, rev)
      BY <3>2, <3>3 DEF Rests, Counts
    <3>6. ASSUME NEW k \in (e.born + 1)..n, Counts(k, rev)'
          PROVE  runs'[k].stage > e.stage
      <4>0. e.stage \in Int
        <5>1. e \in Evidence
          BY <1>2, <2>3
        <5>2. e.stage \in Stages
          BY <5>1 DEF Evidence
        <5> QED BY <5>2, <1>0
      <4>1. CASE k = n
        BY <4>0, <4>1, <1>0, <1>4, <3>3
      <4>2. CASE k # n
        <5>1. k \in 1..Len(runs) /\ runs'[k] = runs[k] /\ Counts(k, rev)
          BY <4>2, <3>4, <3>6, <1>0, <1>1, <1>4 DEF Counts
        <5>2. k \in Candidates(rev)
          BY <5>1 DEF Candidates, Counts
        <5>3. k \in (e.born + 1)..m
          BY <5>1, <5>2, <3>1, <3>2, <3>4, <1>0
        <5>4. Counts(k, runs[m].rev)
          BY <5>1, <3>2 DEF Counts
        <5> QED BY <5>1, <5>3, <5>4, <3>3 DEF Rests
      <4> QED BY <4>1, <4>2
    <3>7. runs'[i].rev = rev /\ rev' = rev
      BY <2>3, <1>1, <1>4
    <3>8. e.born \in 1..i /\ runs'[e.born] = runs[e.born] /\ Counts(e.born, rev)'
      BY <2>3, <3>4, <3>5, <1>0, <1>1, <1>4 DEF Counts
    <3> QED BY <2>3, <3>3, <3>6, <3>7, <3>8 DEF Rests, Counts
  <2> QED BY <2>1, <2>2, <2>3, <1>4
<1> QED BY <1>1, <1>5, <1>6, <1>7 DEF GatesInvariant, JobRests

\* A deployment starts on a complete ledger of this configuration.
LEMMA StartKeeps ==
    ASSUME GatesInvariant, NEW s \in Stages, NEW c \in Components, StartDeploy(s, c)
    PROVE  GatesInvariant'
<1> DEFINE j(q) == [stage |-> s, c |-> c, cfg |-> cfg, rev |-> rev, approved |-> q,
                    compared |-> FALSE, overtaken |-> FALSE]
<1>1. PICK q \in reviewed : /\ job' = {j(q)} /\ UNCHANGED <<mode, cfg, rev, runs>>
                           /\ Validated(Newest(rev), s, cfg, rev)
  BY DEF StartDeploy
<1>2. NewestExists' /\ LedgersRest'
  BY <1>1, RunsUnchanged
<1>3. GatesTyped'
  BY <1>1 DEF GatesInvariant, GatesTyped, IsJob
<1>4. JobRests'
  <2> SUFFICES ASSUME NEW i \in job', NEW p \in Stages, p < i.stage
               PROVE  \E e \in Newest(i.rev)' : e.stage = p /\ e.scope = Scoped(i.cfg, p)
    BY DEF JobRests
  <2>1. i.stage = s /\ i.cfg = cfg /\ i.rev = rev
    BY <1>1
  <2>2. Newest(i.rev)' = Newest(rev)
    BY <1>1, <2>1 DEF Newest, Candidates
  <2> QED BY <1>1, <2>1, <2>2 DEF Validated
<1> QED BY <1>2, <1>3, <1>4 DEF GatesInvariant

\* The other steps accept nothing and start no deployment.
LEMMA OthersKeep ==
    ASSUME GatesInvariant, UNCHANGED <<mode, runs>>,
           cfg' \in Configurations, rev' \in {1, 2},
           \A j \in job' : \E i \in job : j.stage = i.stage /\ j.cfg = i.cfg /\ j.rev = i.rev /\ IsJob(j)
    PROVE  GatesInvariant'
<1>1. NewestExists' /\ LedgersRest' /\ \A v : Newest(v)' = Newest(v)
  BY RunsUnchanged
<1>2. GatesTyped'
  BY DEF GatesInvariant, GatesTyped, IsJob
<1>3. JobRests'
  <2> SUFFICES ASSUME NEW j \in job', NEW p \in Stages, p < j.stage
               PROVE  \E e \in Newest(j.rev)' : e.stage = p /\ e.scope = Scoped(j.cfg, p)
    BY DEF JobRests
  <2>1. PICK i \in job : j.stage = i.stage /\ j.cfg = i.cfg /\ j.rev = i.rev
    OBVIOUS
  <2>2. Newest(j.rev)' = Newest(j.rev)
    BY <1>1
  <2> QED BY <2>1, <2>2 DEF GatesInvariant, JobRests
<1> QED BY <1>1, <1>2, <1>3 DEF GatesInvariant

LEMMA GatesStep ==
    ASSUME GatesAssumption, GatesInvariant, [GateNext]_gates
    PROVE  GatesInvariant'
<1>0. cfg \in Configurations /\ rev \in {1, 2} /\ \A j \in job : IsJob(j)
  BY DEF GatesInvariant, GatesTyped
<1>1. ASSUME NEW s \in Stages, Accept(s) PROVE GatesInvariant'
  BY <1>1, AcceptKeeps
<1>2. ASSUME NEW s \in Stages, NEW c \in Components, StartDeploy(s, c) PROVE GatesInvariant'
  BY <1>2, StartKeeps
<1>3. ASSUME NEW s \in Stages, NEW c \in Components, PutUp(s, c) \/ LocalApproved(s, c)
      PROVE GatesInvariant'
  BY <1>0, <1>3, OthersKeep DEF PutUp, LocalApproved
<1>4. ASSUME Replan PROVE GatesInvariant'
  <2>1. PICK j \in job : job' = {[j EXCEPT !.compared = TRUE]} /\ UNCHANGED <<mode, cfg, rev, runs>>
    BY <1>4 DEF Replan
  <2> DEFINE q == [j EXCEPT !.compared = TRUE]
  <2>2. IsJob(j)
    BY <1>0
  <2>3. q.stage = j.stage /\ q.cfg = j.cfg /\ q.rev = j.rev /\ IsJob(q)
    BY <2>2, ComparedJob DEF SameJob
  <2> QED BY <1>0, <2>1, <2>3, OthersKeep
<1>5. ASSUME Create \/ JobFails PROVE GatesInvariant'
  BY <1>0, <1>5, OthersKeep DEF Create, JobFails
<1>9. ASSUME LocalExecute PROVE GatesInvariant'
  <2>1. PICK c : job' = job \/ job' = Overtaken(job, c)
    BY <1>9 DEF LocalExecute
  <2>2. \A j \in job' : \E i \in job : j.stage = i.stage /\ j.cfg = i.cfg /\ j.rev = i.rev /\ IsJob(j)
    <3> SUFFICES ASSUME NEW j \in job', job' = Overtaken(job, c)
                 PROVE  \E i \in job : SameJob(j, i)
      BY <1>0, <2>1 DEF SameJob
    <3>1. PICK x \in job : j = [x EXCEPT !.overtaken = @ \/ (x.compared /\ x.c = c)]
      BY DEF Overtaken
    <3>2. SameJob(j, x)
      BY <1>0, <3>1, OvertakenBy
    <3> QED BY <3>2
  <2> QED BY <1>0, <1>9, <2>2, OthersKeep DEF LocalExecute
<1>6. ASSUME NEW k \in Sections, EditConfig(k) PROVE GatesInvariant'
  <2>1. cfg' \in Configurations
    BY <1>0, <1>6 DEF EditConfig, Configurations
  <2> QED BY <1>0, <1>6, <2>1, OthersKeep DEF EditConfig
<1>7. ASSUME Commit \/ WeekPasses PROVE GatesInvariant'
  BY <1>0, <1>7, OthersKeep DEF Commit, WeekPasses
<1>8. ASSUME UNCHANGED gates PROVE GatesInvariant'
  BY <1>0, <1>8, OthersKeep DEF gates
<1> QED BY <1>1, <1>2, <1>3, <1>4, <1>5, <1>9, <1>6, <1>7, <1>8 DEF GateNext

-----------------------------------------------------------------------------
LEMMA GatesSuffice ==
    ASSUME GatesAssumption, GatesInvariant
    PROVE  BuiltOnAccepted
<1> SUFFICES ASSUME NEW j \in job, NEW p \in Stages, p < j.stage
             PROVE  \E i \in 1..Len(runs) :
                        /\ Counts(i, j.rev) /\ runs[i].stage = p
                        /\ \E e \in runs[i].records : e.stage = p /\ e.scope = Scoped(j.cfg, p)
                        /\ Superseding(i, j.rev) = {}
  BY DEF BuiltOnAccepted
<1>0. j.rev \in {1, 2} /\ Len(runs) \in Nat /\ NewestExists /\ LedgersRest
  BY DEF GatesInvariant, GatesTyped, IsJob
<1>1. PICK e \in Newest(j.rev) : e.stage = p /\ e.scope = Scoped(j.cfg, p)
  BY DEF GatesInvariant, JobRests
<1>2. PICK m \in Candidates(j.rev) :
          Newest(j.rev) = runs[m].records /\ \A k \in Candidates(j.rev) : k <= m
  BY <1>0, <1>1, NewestIs
<1>3. m \in 1..Len(runs) /\ Counts(m, j.rev)
  BY <1>2 DEF Candidates, Counts
<1>4. Rests(e, m)
  BY <1>0, <1>1, <1>2, <1>3 DEF LedgersRest
<1>5. e.born \in 1..Len(runs) /\ e.born \in Int
  BY <1>0, <1>3, <1>4 DEF Rests
<1>6. Counts(e.born, j.rev) /\ runs[e.born].stage = p /\ e \in runs[e.born].records
  BY <1>1, <1>3, <1>4 DEF Rests, Counts
<1>7. ASSUME NEW k \in (e.born + 1)..Len(runs), Counts(k, j.rev)
      PROVE  runs[k].stage > p
  <2>1. k \in Candidates(j.rev)
    BY <1>0, <1>5, <1>7 DEF Candidates, Counts
  <2>2. k \in (e.born + 1)..m /\ Counts(k, runs[m].rev)
    BY <2>1, <1>0, <1>2, <1>3, <1>5, <1>7 DEF Counts
  <2> QED BY <2>2, <1>1, <1>4 DEF Rests
<1>8. Superseding(e.born, j.rev) = {}
  <2> SUFFICES ASSUME NEW k \in (e.born + 1)..Len(runs), Counts(k, j.rev), runs[k].stage <= p
               PROVE  FALSE
    BY <1>6 DEF Superseding
  <2>1. runs[k].stage > p
    BY <1>7
  <2>2. runs[k] \in Acceptance
    BY <1>5, <1>0 DEF GatesInvariant, GatesTyped
  <2>3. runs[k].stage \in 0..9 /\ p \in 0..9
    BY <2>2 DEF Acceptance, GatesAssumption
  <2> QED BY <2>1, <2>3
<1> QED BY <1>1, <1>5, <1>6, <1>8

\* Whatever a workflow is about to deploy rests, for every stage before, on an
\* acceptance of exactly its configuration (migration_evidence.py:54-82,
\* workflow_artifacts.py:85-120), for any history of acceptances, edits, commits
\* and expiries.  Among the acceptances that count for it, which with two
\* approvers are those of its own commit, none of that stage or an earlier one
\* came later.  With two approvers acceptances at another commit supersede
\* nothing: going back to an older commit takes its evidence up again.
THEOREM EvidenceHolds == GateSpec => []BuiltOnAccepted
<1>1. GatesAssumption
  BY GatesAssumption
<1>2. GateInit => GatesInvariant
  BY GatesBegin
<1>3. GatesInvariant /\ [GateNext]_gates => GatesInvariant'
  BY <1>1, GatesStep
<1>4. GatesInvariant => BuiltOnAccepted
  BY <1>1, GatesSuffice
<1> QED BY <1>2, <1>3, <1>4, PTL DEF GateSpec

-----------------------------------------------------------------------------
(***************************************************************************)
(* StageGates: what is deployed was reviewed.  SidesInvariant is the        *)
(* property with the shape of the two deployments that may be under way.   *)
(***************************************************************************)

IsSide(j) == IsJob(j) /\ j.compared \in BOOLEAN /\ j.overtaken \in BOOLEAN

AsReviewed(j) == j.compared => j.overtaken \/ arm[j.c] = j.approved.before

SidesInvariant ==
    /\ arm = [c \in Components |-> arm[c]] /\ rev \in {1, 2}
    /\ \A j \in job \cup here : IsSide(j) /\ AsReviewed(j)

\* One side deploys: the other finds what it compared, or is overtaken.
LEMMA DeploymentSeen ==
    ASSUME SidesInvariant, NEW c, NEW d, arm' = [arm EXCEPT ![c] = d],
           NEW x \in job \cup here, NEW y,
           y = [x EXCEPT !.overtaken = @ \/ (x.compared /\ x.c = c)]
    PROVE  IsSide(y) /\ AsReviewed(y)'
<1>1. IsSide(x) /\ AsReviewed(x) /\ x.c \in Components
  BY DEF SidesInvariant, IsSide, IsJob
<1>2. /\ y.c = x.c /\ y.compared = x.compared /\ y.approved = x.approved
      /\ y.overtaken = (x.overtaken \/ (x.compared /\ x.c = c))
      /\ IsSide(y)
  <2>1. IsJob(x)
    BY <1>1 DEF IsSide
  <2>2. /\ SameJob(y, x) /\ y.compared = x.compared
        /\ y.overtaken = (x.overtaken \/ (x.compared /\ x.c = c))
    BY <2>1, OvertakenBy
  <2>3. IsSide(y)
    BY <1>1, <2>2 DEF IsSide, SameJob
  <2> QED BY <2>2, <2>3 DEF SameJob
<1>3. x.c # c => arm'[x.c] = arm[x.c]
  BY <1>1 DEF SidesInvariant
<1>4. CASE x.c = c
  BY <1>2, <1>4 DEF AsReviewed
<1>5. CASE x.c # c
  BY <1>1, <1>2, <1>3, <1>5 DEF AsReviewed
<1> QED BY <1>4, <1>5

LEMMA SidesStep ==
    ASSUME SidesInvariant, [GateNext]_gates
    PROVE  SidesInvariant'
<1>0. /\ arm = [c \in Components |-> arm[c]] /\ rev \in {1, 2}
      /\ \A j \in job \cup here : IsSide(j) /\ AsReviewed(j)
  BY DEF SidesInvariant
<1>1. ASSUME NEW s \in Stages, Accept(s) PROVE SidesInvariant'
  BY <1>0, <1>1 DEF Accept, SidesInvariant, AsReviewed
<1>2. ASSUME NEW s \in Stages, NEW c \in Components, PutUp(s, c) PROVE SidesInvariant'
  BY <1>0, <1>2 DEF PutUp, SidesInvariant, AsReviewed
<1>3. ASSUME NEW s \in Stages, NEW c \in Components, StartDeploy(s, c) PROVE SidesInvariant'
  <2>1. PICK q \in reviewed :
            /\ job' = {[stage |-> s, c |-> c, cfg |-> cfg, rev |-> rev, approved |-> q,
                         compared |-> FALSE, overtaken |-> FALSE]}
            /\ UNCHANGED <<rev, arm, here>>
    BY <1>3 DEF StartDeploy
  <2> DEFINE y == [stage |-> s, c |-> c, cfg |-> cfg, rev |-> rev, approved |-> q,
                   compared |-> FALSE, overtaken |-> FALSE]
  <2>2. IsSide(y) /\ ~y.compared
    BY <1>0 DEF IsSide, IsJob
  <2> HIDE DEF y
  <2>3. job' = {y}
    BY <2>1 DEF y
  <2> QED BY <1>0, <2>1, <2>2, <2>3 DEF SidesInvariant, AsReviewed
<1>4. ASSUME NEW s \in Stages, NEW c \in Components, LocalApproved(s, c) PROVE SidesInvariant'
  <2> DEFINE plan == Plan(s, c, cfg, rev)
             y == [stage |-> s, c |-> c, cfg |-> cfg, rev |-> rev, approved |-> plan,
                   compared |-> s > 1, overtaken |-> FALSE]
  <2>1. here' = {y} /\ UNCHANGED <<rev, arm, job>>
    BY <1>4 DEF LocalApproved
  <2>2. y.approved.before = arm[c] /\ y.c = c
    BY DEF Plan
  <2>3. IsSide(y) /\ AsReviewed(y)
    <3>1. IsSide(y)
      BY <1>0 DEF IsSide, IsJob
    <3>2. AsReviewed(y)
      BY <2>2 DEF AsReviewed
    <3> QED BY <3>1, <3>2
  <2> QED BY <1>0, <2>1, <2>3 DEF SidesInvariant, AsReviewed
<1>5. ASSUME Replan PROVE SidesInvariant'
  <2>1. PICK j \in job : /\ Plan(j.stage, j.c, j.cfg, j.rev) = j.approved
                         /\ job' = {[j EXCEPT !.compared = TRUE]}
                         /\ UNCHANGED <<rev, arm, here>>
    BY <1>5 DEF Replan
  <2> DEFINE y == [j EXCEPT !.compared = TRUE]
  <2>2. j.approved.before = arm[j.c]
    BY <2>1 DEF Plan
  <2>3. IsSide(y) /\ y.c = j.c /\ y.approved = j.approved
    BY <1>0, ComparedJob DEF IsSide, SameJob
  <2> HIDE DEF y
  <2>4. AsReviewed(y)
    BY <2>2, <2>3 DEF AsReviewed
  <2>5. job' = {y}
    BY <2>1 DEF y
  <2> QED BY <1>0, <2>1, <2>3, <2>4, <2>5 DEF SidesInvariant, AsReviewed
<1>6. ASSUME Create PROVE SidesInvariant'
  <2>1. PICK c, d : /\ arm' = [arm EXCEPT ![c] = d] /\ here' = Overtaken(here, c) /\ job' = {}
                    /\ rev' = rev
    BY <1>6 DEF Create
  <2>2. \A y \in here' : IsSide(y) /\ AsReviewed(y)'
    BY <2>1, DeploymentSeen DEF Overtaken
  <2> QED BY <1>0, <2>1, <2>2 DEF SidesInvariant, AsReviewed
<1>7. ASSUME JobFails PROVE SidesInvariant'
  BY <1>0, <1>7 DEF JobFails, SidesInvariant, AsReviewed
<1>8. ASSUME LocalExecute PROVE SidesInvariant'
  <2>1. CASE UNCHANGED <<arm, job>>
    BY <1>0, <1>8, <2>1 DEF LocalExecute, SidesInvariant, AsReviewed
  <2>2. CASE ~UNCHANGED <<arm, job>>
    <3>1. PICK c, d : /\ arm' = [arm EXCEPT ![c] = d] /\ job' = Overtaken(job, c) /\ here' = {}
                      /\ rev' = rev
      BY <1>8, <2>2 DEF LocalExecute
    <3>2. \A y \in job' : IsSide(y) /\ AsReviewed(y)'
      BY <3>1, DeploymentSeen DEF Overtaken
    <3> QED BY <1>0, <3>1, <3>2 DEF SidesInvariant, AsReviewed
  <2> QED BY <2>1, <2>2
<1>9. ASSUME (\E k \in Sections : EditConfig(k)) \/ Commit \/ WeekPasses \/ UNCHANGED gates
      PROVE  SidesInvariant'
  <2>1. UNCHANGED <<arm, job, here>> /\ rev' \in {1, 2}
    BY <1>0, <1>9 DEF EditConfig, Commit, WeekPasses, gates
  <2> QED BY <1>0, <2>1 DEF SidesInvariant, AsReviewed
<1> QED BY <1>1, <1>2, <1>3, <1>4, <1>5, <1>6, <1>7, <1>8, <1>9 DEF GateNext

\* Whoever is about to deploy finds the component as the reviewer of the plan saw
\* it (migration_deploy.py:428, local_execution/runner.py), for any deployments,
\* edits, commits and plans of either side in between; only what the other side
\* deploys after the comparison goes unseen.
THEOREM ReviewsHold == GateSpec => []DeploysWhatWasReviewed
<1>1. GateInit => SidesInvariant
  BY DEF GateInit, SidesInvariant
<1>2. SidesInvariant /\ [GateNext]_gates => SidesInvariant'
  BY SidesStep
<1>3. SidesInvariant => DeploysWhatWasReviewed
  BY DEF SidesInvariant, AsReviewed, DeploysWhatWasReviewed
<1> QED BY <1>1, <1>2, <1>3, PTL DEF GateSpec

\* Every deployment that is about to be made stands on both: the evidence that
\* counts for it (EvidenceHolds) and a review of what it will change (ReviewsHold).
THEOREM DeploymentsHold == GateSpec => []DeploymentsStand
<1>1. BuiltOnAccepted /\ DeploysWhatWasReviewed => DeploymentsStand
  BY DEF DeploymentsStand
<1> QED BY <1>1, EvidenceHolds, ReviewsHold, PTL

-----------------------------------------------------------------------------
(***************************************************************************)
(* EdgeRelease: no operation changes whom a plane trusts, and released     *)
(* traffic is accepted from this Front Door only.                          *)
(*                                                                         *)
(* Neither is inductive. EdgeInvariant adds what each operation under way  *)
(* still relies on: an apply works with documents that were rendered from  *)
(* what it read, and whoever changed a plane since is its only manager; a  *)
(* binding is for the profile as it is; a checked release still holds.     *)
(***************************************************************************)

Rules == [id : 0..2, pod : 0..1, by : SUBSET {Applier, Patcher, Someone}]

EdgeType ==
    /\ auth \in {"native", "entra"}
    /\ edge \in [id : 0..2, on : BOOLEAN]
    /\ ingress \in [Planes -> Rules]
    /\ outside \in Nat

\* An apply: the documents keep the trust that was read, and a plane that has
\* lost it is managed by the one who took it.
ApplyJob(j) ==
    /\ j \in [kind : {"apply"}, seen : [Planes -> Rules], want : [Planes -> [id : 0..2, pod : 0..1]],
              force : SUBSET Planes, todo : Seq(Planes)]
    /\ \A p \in Planes : /\ j.want[p].id = j.seen[p].id
                         /\ ingress[p].id # j.want[p].id => ingress[p].by = {Someone}

\* A binding: planes trusted nobody or this profile when they were read.
BindJob(j) ==
    /\ j \in [kind : {"bind"}, id : 0..2, seen : [Planes -> [id : 0..2, pod : 0..1]], todo : Seq(Planes)]
    /\ \A p \in Planes : j.seen[p].id \in {0, j.id}
    /\ ~doubt => j.id = edge.id

RefreshJob(j) == j.kind = "refresh"

\* A release that was checked.
ReleaseJob(j) ==
    /\ j.kind = "release"
    /\ ~doubt => \A p \in Planes : ingress[p].id = edge.id

Jobs == \A j \in work : ApplyJob(j) \/ BindJob(j) \/ RefreshJob(j) \/ ReleaseJob(j)

EdgeInvariant == EdgeType /\ Jobs /\ ReleasedIsBound

-----------------------------------------------------------------------------
\* The order of work is a sequence of planes.
LEMMA OrderIsSeq == Order \in Seq(Planes)
<1>1. Cardinality(Planes) \in Nat
  BY EdgeAssumption, FS_CardinalityType
<1>2. QED
  BY <1>1, EdgeAssumption DEF Order

\* What is read of the planes has the type of what is written to them.
LEMMA LiveType ==
    ASSUME EdgeType
    PROVE  Live \in [Planes -> [id : 0..2, pod : 0..1]] /\ \A p \in Planes : Live[p].id = ingress[p].id
BY DEF EdgeType, Live, Rules

\* The next plane of a job is a plane, and what is left is still a job's list.
LEMMA NextPlane ==
    ASSUME NEW todo \in Seq(Planes), todo # << >>
    PROVE  Head(todo) \in Planes /\ Tail(todo) \in Seq(Planes)
OBVIOUS

\* An apply never changes whom a plane trusts: with the value it found it has
\* nothing to change, and a value somebody put there since is theirs alone, a
\* conflict that server-side apply refuses.
LEMMA ApplyKeepsTrust ==
    ASSUME EdgeInvariant, ApplyPlane
    PROVE  /\ EdgeType' /\ Jobs'
           /\ \A p \in Planes : ingress'[p].id = ingress[p].id
<1>1. PICK j \in work :
        /\ j.kind = "apply" /\ j.todo # << >>
        /\ IF Head(j.todo) \in j.force
           THEN ingress[Head(j.todo)] = j.seen[Head(j.todo)]
           ELSE auth = "native" \/ j.want[Head(j.todo)].id # 0
                => ~Conflict(Head(j.todo), j.want[Head(j.todo)].id)
        /\ ingress' = [ingress EXCEPT ![Head(j.todo)] =
               IF auth = "entra" /\ j.want[Head(j.todo)].id = 0
               THEN [ingress[Head(j.todo)] EXCEPT !.pod = j.want[Head(j.todo)].pod]
               ELSE Applied(Head(j.todo), j.want[Head(j.todo)].id, j.want[Head(j.todo)].pod)]
        /\ work' = {[j EXCEPT !.todo = Tail(@)]}
        /\ UNCHANGED <<auth, edge, doubt, outside>>
  BY DEF ApplyPlane
<1>2. ApplyJob(j)
  BY <1>1 DEF EdgeInvariant, Jobs, BindJob, RefreshJob, ReleaseJob
<1> DEFINE p == Head(j.todo)
           w == j.want[p]
<1>3. p \in Planes /\ Tail(j.todo) \in Seq(Planes)
  BY <1>1, <1>2, NextPlane DEF ApplyJob
<1>4. w \in [id : 0..2, pod : 0..1] /\ w.id = j.seen[p].id
  BY <1>2, <1>3 DEF ApplyJob
<1>5. ingress[p] \in Rules /\ ingress \in [Planes -> Rules]
  BY <1>3 DEF EdgeInvariant, EdgeType
<1>6. /\ ingress'[p] \in Rules /\ ingress'[p].id = ingress[p].id
      /\ ingress'[p].id # w.id => ingress'[p].by = {Someone}
  <2>1. CASE auth = "entra" /\ w.id = 0
    <3>1. ingress'[p] = [ingress[p] EXCEPT !.pod = w.pod]
      BY <1>1, <1>3, <1>5, <2>1
    <3>2. QED
      BY <3>1, <1>2, <1>3, <1>4, <1>5 DEF Rules, ApplyJob
  <2>2. CASE ~(auth = "entra" /\ w.id = 0)
    <3>1. ingress'[p] = Applied(p, w.id, w.pod)
      BY <1>1, <1>3, <1>5, <2>2
    <3>2. w.id = ingress[p].id
      <4>1. CASE p \in j.force
        BY <4>1, <1>1, <1>4
      <4>2. CASE p \notin j.force
        <5>1. SUFFICES ASSUME w.id # ingress[p].id PROVE FALSE
          OBVIOUS
        <5>2. ingress[p].by = {Someone}
          BY <5>1, <1>2, <1>3 DEF ApplyJob
        <5>3. Conflict(p, w.id)
          BY <5>1, <5>2 DEF Conflict, Someone, Applier
        <5>4. auth # "native" /\ w.id = 0
          BY <5>3, <4>2, <1>1
        <5>5. QED
          BY <5>4, <2>2 DEF EdgeInvariant, EdgeType
      <4>3. QED
        BY <4>1, <4>2
    <3>3. QED
      BY <3>1, <3>2, <1>4, <1>5 DEF Applied, Rules
  <2>3. QED
    BY <2>1, <2>2
<1>7. \A q \in Planes : q # p => ingress'[q] = ingress[q]
  BY <1>1, <1>5, SMTT(60)
<1>8. ingress' \in [Planes -> Rules]
  BY <1>1, <1>3, <1>5, <1>6, <1>7
<1>9. \A q \in Planes : ingress'[q].id = ingress[q].id
  BY <1>6, <1>7
<1>10. EdgeType'
  BY <1>1, <1>8 DEF EdgeInvariant, EdgeType
<1>11. Jobs'
  <2> DEFINE k == [j EXCEPT !.todo = Tail(@)]
  <2>1. k \in [kind : {"apply"}, seen : [Planes -> Rules], want : [Planes -> [id : 0..2, pod : 0..1]],
               force : SUBSET Planes, todo : Seq(Planes)]
    BY <1>2, <1>3 DEF ApplyJob
  <2>2. k.want = j.want /\ k.seen = j.seen
    BY <1>2 DEF ApplyJob
  <2>3. \A q \in Planes : /\ k.want[q].id = k.seen[q].id
                          /\ ingress'[q].id # k.want[q].id => ingress'[q].by = {Someone}
    BY <2>2, <1>2, <1>6, <1>7 DEF ApplyJob
  <2>4. work' = {k}
    BY <1>1
  <2>5. \A i \in work' : ApplyJob(i)'
    BY <2>1, <2>3, <2>4 DEF ApplyJob
  <2>6. QED
    BY <2>5 DEF Jobs
<1>12. QED
  BY SMTT(60), <1>9, <1>10, <1>11

\* A binding changes a plane that trusts nobody, and makes it trust the profile.
LEMMA BindBinds ==
    ASSUME EdgeInvariant, BindPlane
    PROVE  EdgeInvariant' /\ \A p \in Planes : ingress'[p].id = ingress[p].id \/ ingress[p].id = 0
<1>1. PICK j \in work :
        /\ j.kind = "bind" /\ j.todo # << >>
        /\ Live[Head(j.todo)] = j.seen[Head(j.todo)]
        /\ ingress' = IF ingress[Head(j.todo)].id = j.id THEN ingress
                      ELSE [ingress EXCEPT ![Head(j.todo)].id = j.id, ![Head(j.todo)].by = {Patcher}]
        /\ work' = {[j EXCEPT !.todo = Tail(@)]}
        /\ UNCHANGED <<auth, edge, doubt, outside>>
  BY DEF BindPlane
<1>2. BindJob(j)
  BY <1>1 DEF EdgeInvariant, Jobs, ApplyJob, RefreshJob, ReleaseJob
<1> DEFINE p == Head(j.todo)
<1>3. p \in Planes /\ Tail(j.todo) \in Seq(Planes)
  BY <1>1, <1>2, NextPlane DEF BindJob
<1>4. ingress[p] \in Rules /\ ingress \in [Planes -> Rules]
  BY <1>3 DEF EdgeInvariant, EdgeType
<1>5. ingress[p].id \in {0, j.id} /\ j.id \in 0..2
  <2>1. ingress[p].id = j.seen[p].id
    BY <1>1, <1>3, LiveType DEF EdgeInvariant
  <2>2. QED
    BY <2>1, <1>2, <1>3 DEF BindJob
<1>6. ingress'[p] \in Rules /\ ingress'[p].id = j.id
  BY <1>1, <1>3, <1>4, <1>5 DEF Rules
<1>7. \A q \in Planes : q # p => ingress'[q] = ingress[q]
  BY <1>1, <1>4
<1>8. ingress' \in [Planes -> Rules]
  BY <1>1, <1>3, <1>4, <1>5, <1>6, <1>7
<1>9. \A q \in Planes : ingress'[q].id = ingress[q].id \/ ingress[q].id = 0
  BY <1>5, <1>6, <1>7
<1>10. EdgeType'
  BY <1>1, <1>8 DEF EdgeInvariant, EdgeType
<1>11. Jobs'
  <2> DEFINE k == [j EXCEPT !.todo = Tail(@)]
  <2>1. k \in [kind : {"bind"}, id : 0..2, seen : [Planes -> [id : 0..2, pod : 0..1]], todo : Seq(Planes)]
    BY <1>2, <1>3 DEF BindJob
  <2>2. k.seen = j.seen /\ k.id = j.id
    BY <1>2 DEF BindJob
  <2>3. (\A q \in Planes : k.seen[q].id \in {0, k.id}) /\ (~doubt' => k.id = edge'.id)
    BY <2>2, <1>1, <1>2 DEF BindJob
  <2>4. work' = {k}
    BY <1>1
  <2>5. QED
    BY <2>1, <2>3, <2>4 DEF Jobs, BindJob
<1>12. ReleasedIsBound'
  BY <1>1, <1>2, <1>6, <1>7 DEF EdgeInvariant, ReleasedIsBound, BindJob
<1>13. QED
  BY <1>9, <1>10, <1>11, <1>12 DEF EdgeInvariant

\* Somebody outside: the release is in doubt and the rule is theirs alone.
LEMMA RetrustKeeps ==
    ASSUME EdgeInvariant, NEW p \in Planes, NEW id \in 0..2, Retrust(p, id)
    PROVE  EdgeInvariant' /\ outside' # outside
<1>1. /\ ingress' = [ingress EXCEPT ![p].id = id, ![p].by = {Someone}]
      /\ doubt' = TRUE /\ outside' = outside + 1
      /\ UNCHANGED <<auth, edge, work>>
  BY DEF Retrust, Happens
<1>2. ingress \in [Planes -> Rules] /\ ingress[p] \in Rules
  BY DEF EdgeInvariant, EdgeType
<1>3. ingress'[p] \in Rules /\ ingress'[p].by = {Someone}
  BY <1>1, <1>2 DEF Rules
<1>4. \A q \in Planes : q # p => ingress'[q] = ingress[q]
  BY <1>1, <1>2
<1>5. ingress' \in [Planes -> Rules]
  BY <1>1, <1>2, <1>3, <1>4
<1>6. EdgeType' /\ outside' # outside
  BY <1>1, <1>5 DEF EdgeInvariant, EdgeType
<1>7. Jobs'
  <2>1. SUFFICES ASSUME NEW j \in work
                 PROVE  ApplyJob(j)' \/ BindJob(j)' \/ RefreshJob(j) \/ ReleaseJob(j)'
    BY <1>1 DEF Jobs, RefreshJob
  <2>2. CASE ApplyJob(j)
    BY <2>2, <1>3, <1>4 DEF ApplyJob
  <2>3. CASE BindJob(j)
    BY <2>3, <1>1 DEF BindJob
  <2>4. CASE ReleaseJob(j)
    BY <2>4, <1>1 DEF ReleaseJob
  <2>5. QED
    BY <2>2, <2>3, <2>4 DEF EdgeInvariant, Jobs
<1>8. ReleasedIsBound'
  BY <1>1 DEF ReleasedIsBound
<1>9. QED
  BY <1>6, <1>7, <1>8 DEF EdgeInvariant

\* A step that changes neither the planes, nor the profile, nor the doubt, and
\* gives up or keeps the operation under way.
LEMMA QuietStep ==
    ASSUME EdgeInvariant, work' \subseteq work, outside' \in Nat,
           UNCHANGED <<auth, edge, ingress, doubt>>
    PROVE  EdgeInvariant'
<1>1. EdgeType'
  BY DEF EdgeInvariant, EdgeType
<1>2. Jobs'
  BY DEF EdgeInvariant, Jobs, ApplyJob, BindJob, RefreshJob, ReleaseJob
<1>3. QED
  BY <1>1, <1>2 DEF EdgeInvariant, ReleasedIsBound

-----------------------------------------------------------------------------
\* The invariant holds at first.
LEMMA EdgeStarts == EdgeInit => EdgeInvariant
BY DEF EdgeInit, EdgeInvariant, EdgeType, Rules, Jobs, ReleasedIsBound, Applier, Patcher, Someone

\* Every step keeps the invariant, and a plane loses the profile it trusts only
\* to a step from outside.
LEMMA EdgeSteps ==
    ASSUME EdgeInvariant, EdgeNext
    PROVE  /\ EdgeInvariant'
           /\ \A p \in Planes :
                 ingress'[p].id = ingress[p].id \/ ingress[p].id = 0 \/ outside' # outside
<1>1. CASE \E pod \in 0..1 : ApplyPlan(pod)
  <2>1. PICK pod \in 0..1 : ApplyPlan(pod)
    BY <1>1
  <2> DEFINE j == [kind |-> "apply", seen |-> ingress, want |-> [p \in Planes |-> Desired(p, pod)],
                   force |-> {p \in Planes : Handoff(p)}, todo |-> Order]
  <2>2. work' = {j} /\ UNCHANGED <<auth, edge, ingress, doubt, outside>>
    BY <2>1 DEF ApplyPlan
  <2>3. \A p \in Planes : Desired(p, pod) = [id |-> ingress[p].id, pod |-> pod]
    BY DEF Desired
  <2>4. j.want \in [Planes -> [id : 0..2, pod : 0..1]] /\ \A p \in Planes : j.want[p].id = ingress[p].id
    BY <2>3 DEF EdgeInvariant, EdgeType, Rules
  <2>5. ApplyJob(j)
    BY <2>4, OrderIsSeq DEF ApplyJob, EdgeInvariant, EdgeType
  <2>6. \A i \in work' : ApplyJob(i)'
    BY <2>2, <2>5 DEF ApplyJob
  <2>7. QED
    BY <2>2, <2>6 DEF EdgeInvariant, EdgeType, Jobs, ReleasedIsBound
<1>2. CASE ApplyPlane
  <2>1. UNCHANGED <<edge, doubt>>
    BY <1>2 DEF ApplyPlane
  <2>2. QED
    BY <1>2, <2>1, ApplyKeepsTrust DEF EdgeInvariant, ReleasedIsBound
<1>3. CASE ApplyEnd \/ BindEnd \/ PublishBackend \/ RefreshFrontend \/ RefreshRoutes \/ OperationDies
  <2>1. work' \subseteq work /\ UNCHANGED <<auth, edge, ingress, doubt, outside>>
    BY <1>3 DEF ApplyEnd, BindEnd, PublishBackend, RefreshFrontend, RefreshRoutes, OperationDies
  <2>2. QED
    BY <2>1, QuietStep DEF EdgeInvariant, EdgeType
<1>4. CASE BindPlan
  <2> DEFINE j == [kind |-> "bind", id |-> edge.id, seen |-> Live, todo |-> Order]
  <2>1. /\ work' = {j} /\ UNCHANGED <<auth, edge, ingress, doubt, outside>>
        /\ \A p \in Planes : ingress[p].id \in {0, edge.id}
    BY <1>4 DEF BindPlan
  <2>2. BindJob(j)
    BY <2>1, OrderIsSeq, LiveType DEF BindJob, EdgeInvariant, EdgeType
  <2>3. \A i \in work' : BindJob(i)'
    BY <2>1, <2>2 DEF BindJob
  <2>4. QED
    BY <2>1, <2>3 DEF EdgeInvariant, EdgeType, Jobs, ReleasedIsBound
<1>5. CASE BindPlane
  BY <1>5, BindBinds
<1>6. CASE RefreshPlan
  <2>1. (\A i \in work' : RefreshJob(i)) /\ UNCHANGED <<auth, edge, ingress, doubt, outside>>
    BY <1>6 DEF RefreshPlan, RefreshJob
  <2>2. QED
    BY <2>1 DEF EdgeInvariant, EdgeType, Jobs, ReleasedIsBound, RefreshJob
<1>7. CASE Prepare
  <2>1. /\ work = {} /\ work' = {} /\ edge' = [id |-> IF edge.id = 0 THEN 1 ELSE edge.id, on |-> FALSE]
        /\ UNCHANGED <<auth, ingress, doubt, outside>>
    BY <1>7 DEF Prepare
  <2>2. QED
    BY <2>1 DEF EdgeInvariant, EdgeType, Jobs, ReleasedIsBound
<1>8. CASE ReleaseCheck
  <2>1. /\ \A i \in work' : i.kind = "release"
        /\ \A p \in Planes : ingress[p].id = edge.id
        /\ doubt' = FALSE /\ UNCHANGED <<auth, edge, ingress, outside>>
    BY <1>8 DEF ReleaseCheck, BindingCurrent
  <2>2. \A i \in work' : ReleaseJob(i)'
    BY <2>1 DEF ReleaseJob
  <2>3. QED
    BY <2>1, <2>2 DEF EdgeInvariant, EdgeType, Jobs, ReleasedIsBound
<1>9. CASE ReleaseCreate
  <2>1. PICK j \in work :
          /\ j.kind = "release" /\ edge' = [edge EXCEPT !.on = TRUE] /\ work' = {}
          /\ UNCHANGED <<auth, ingress, doubt, outside>>
    BY <1>9 DEF ReleaseCreate
  <2>2. ReleaseJob(j)
    BY <2>1 DEF EdgeInvariant, Jobs, ApplyJob, BindJob, RefreshJob
  <2>3. QED
    BY <2>1, <2>2 DEF EdgeInvariant, EdgeType, Jobs, ReleasedIsBound, ReleaseJob
<1>10. CASE \E p \in Planes, id \in 0..2 : Retrust(p, id)
  BY <1>10, RetrustKeeps
<1>11. CASE ProfileReplaced
  <2>1. /\ edge' = [id |-> 2, on |-> FALSE] /\ doubt' = TRUE /\ outside' = outside + 1
        /\ UNCHANGED <<auth, ingress, work>>
    BY <1>11 DEF ProfileReplaced, Happens
  <2>2. Jobs'
    <3>1. SUFFICES ASSUME NEW j \in work
                   PROVE  ApplyJob(j)' \/ BindJob(j)' \/ RefreshJob(j) \/ ReleaseJob(j)'
      BY <2>1 DEF Jobs, RefreshJob
    <3>2. QED
      BY <2>1 DEF EdgeInvariant, Jobs, ApplyJob, BindJob, ReleaseJob
  <2>3. QED
    BY <2>1, <2>2 DEF EdgeInvariant, EdgeType, ReleasedIsBound
<1>12. CASE ModelSync
  <2>1. work' \subseteq work /\ outside' = outside + 1 /\ UNCHANGED <<auth, edge, ingress, doubt>>
    BY <1>12 DEF ModelSync, Happens
  <2>2. QED
    BY <2>1, QuietStep DEF EdgeInvariant, EdgeType
<1>13. QED
  BY <1>1, <1>2, <1>3, <1>4, <1>5, <1>6, <1>7, <1>8, <1>9, <1>10, <1>11, <1>12 DEF EdgeNext

\* A stuttering step changes nothing the invariant is about.
LEMMA EdgeStutters ==
    ASSUME EdgeInvariant, UNCHANGED edgeVars
    PROVE  EdgeInvariant'
BY QuietStep DEF edgeVars, EdgeInvariant, EdgeType

\* The invariant holds in every behaviour.
LEMMA EdgeInvariantHolds == EdgeSpec => []EdgeInvariant
<1>1. EdgeInvariant /\ [EdgeNext]_edgeVars => EdgeInvariant'
  BY EdgeSteps, EdgeStutters
<1>2. QED
  BY <1>1, EdgeStarts, PTL DEF EdgeSpec

\* private_ingress_runtime.py, edge_binding.py, migration_deploy.py: while
\* traffic flows every plane accepts it from this Front Door only, whatever was
\* applied, rebound, refreshed or broken off since, unless somebody changed a
\* plane or the profile behind the back of the release.
THEOREM ReleaseStaysBound == EdgeSpec => []ReleasedIsBound
<1>1. EdgeInvariant => ReleasedIsBound
  BY DEF EdgeInvariant
<1>2. QED
  BY <1>1, EdgeInvariantHolds, PTL

\* No operation of this repository takes away or replaces the Front Door that a
\* plane trusts, an edit made while the operation runs included.
THEOREM TrustIsKept == EdgeSpec => TrustKept
<1>1. EdgeInvariant /\ [EdgeNext]_edgeVars =>
        [\A p \in Planes :
            ingress'[p].id = ingress[p].id \/ ingress[p].id = 0 \/ outside' # outside]_edgeVars
  BY EdgeSteps
<1>2. QED
  BY <1>1, EdgeInvariantHolds, PTL DEF EdgeSpec, TrustKept

-----------------------------------------------------------------------------
(***************************************************************************)
(* DnsCutover: a record that leads to the new endpoints is one of a        *)
(* checkpoint that knows the way back.                                     *)
(*                                                                         *)
(* CutoverInvariant adds what a change under way holds in its hands: the   *)
(* checkpoint it saves or has saved, and whether it writes what that       *)
(* checkpoint calls after or what it calls before. The checkpoint itself   *)
(* never has a new endpoint as the way back, because it is taken only      *)
(* while no record leads to one.                                           *)
(***************************************************************************)

IsCheckpoint(c) ==
    /\ c = [conf |-> c.conf, before |-> c.before, after |-> c.after, phase |-> c.phase]
    /\ \A p \in Planes : c.before[p] \notin {1, 2}

RecordsLead ==
    \A p \in Planes : dns[p] \in {1, 2} =>
        \E c \in checkpoint : c.phase # "rolled-back" /\ dns[p] = c.after[p]

\* A publication leads to what its checkpoint says is after, a rollback to what was before.
Heads(g, c) ==
    \/ g.phase = "published" /\ g.want = c.after /\ c.phase # "rolled-back"
    \/ g.phase = "rolled-back" /\ g.want = c.before

IsChange(g) ==
    g = [phase |-> g.phase, cp |-> g.cp, want |-> g.want, seen |-> g.seen, todo |-> g.todo,
         saved |-> g.saved]

Changes(g) ==
    /\ IsChange(g)
    /\ \E c \in g.cp : g.cp = {c} /\ IsCheckpoint(c) /\ Heads(g, c)
    /\ checkpoint = g.cp \/ (~g.saved /\ checkpoint = {})

CutoverInvariant ==
    /\ DOMAIN dns = Planes
    /\ (checkpoint = {} \/ \E c \in checkpoint : checkpoint = {c} /\ IsCheckpoint(c))
    /\ \A g \in change : Changes(g)
    /\ RecordsLead

LEMMA CutoverStarts == CutoverInit => CutoverInvariant
  BY DEF CutoverInit, CutoverInvariant, RecordsLead, Absent, Legacy

\* The steps of a change keep what it is about.
LEMMA SavedStep ==
  ASSUME NEW g, NEW x, IsChange(g)
  PROVE  [g EXCEPT !.saved = x] =
              [phase |-> g.phase, cp |-> g.cp, want |-> g.want, seen |-> g.seen, todo |-> g.todo, saved |-> x]
<1>1. DOMAIN g = {"phase", "cp", "want", "seen", "todo", "saved"}
  BY DEF IsChange
<1>. QED  BY <1>1 DEF IsChange

LEMMA TodoStep ==
  ASSUME NEW g, NEW x, IsChange(g)
  PROVE  [g EXCEPT !.todo = x] =
              [phase |-> g.phase, cp |-> g.cp, want |-> g.want, seen |-> g.seen, todo |-> x,
               saved |-> g.saved]
<1>1. DOMAIN g = {"phase", "cp", "want", "seen", "todo", "saved"}
  BY DEF IsChange
<1>. QED  BY <1>1 DEF IsChange

LEMMA SeenOnly ==
  ASSUME NEW g, NEW y, IsChange(g)
  PROVE  [g EXCEPT !.seen = y] =
              [phase |-> g.phase, cp |-> g.cp, want |-> g.want, seen |-> y, todo |-> g.todo,
               saved |-> g.saved]
<1>1. DOMAIN g = {"phase", "cp", "want", "seen", "todo", "saved"}
  BY DEF IsChange
<1>. QED  BY <1>1 DEF IsChange

LEMMA SeenStep ==
  ASSUME NEW g, NEW x, NEW y, IsChange(g)
  PROVE  [g EXCEPT !.todo = x, !.seen = y] =
              [phase |-> g.phase, cp |-> g.cp, want |-> g.want, seen |-> y, todo |-> x, saved |-> g.saved]
<1>1. PICK h : h = [g EXCEPT !.todo = x]
  OBVIOUS
<1>2. h = [phase |-> g.phase, cp |-> g.cp, want |-> g.want, seen |-> g.seen, todo |-> x, saved |-> g.saved]
  BY <1>1, TodoStep DEF IsChange
<1>3. /\ h.phase = g.phase /\ h.cp = g.cp /\ h.want = g.want
      /\ h.todo = x /\ h.saved = g.saved /\ h.seen = g.seen
  BY <1>2
<1>4. h = [phase |-> h.phase, cp |-> h.cp, want |-> h.want, seen |-> h.seen, todo |-> h.todo,
           saved |-> h.saved]
  BY <1>2, <1>3
<1>5. [h EXCEPT !.seen = y] =
              [phase |-> h.phase, cp |-> h.cp, want |-> h.want, seen |-> y, todo |-> h.todo,
               saved |-> h.saved]
  BY <1>4, SeenOnly DEF IsChange
<1>. QED  BY <1>1, <1>3, <1>5

LEMMA CutoverStep ==
  ASSUME CutoverInvariant, CutoverNext
  PROVE  CutoverInvariant'
<1>. USE DEF CutoverInvariant
<1>1. CASE UNCHANGED dnsVars
  BY <1>1 DEF dnsVars, Changes, RecordsLead
<1>2. CASE PublishStart
  <2>1. PICK g : /\ change' = {g} /\ UNCHANGED <<dns, checkpoint>>
                 /\ g = [phase |-> "published", cp |-> Taken, want |-> Endpoints, seen |-> dns,
                         todo |-> Order, saved |-> FALSE]
                 /\ \A c \in checkpoint : Continuable(c)
    BY <1>2 DEF PublishStart
  <2>2. CASE checkpoint = {}
    <3>1. PICK c : c = New
      OBVIOUS
    <3>2. IsCheckpoint(c) /\ c.after = Endpoints /\ c.phase = "prepared"
      BY <2>2, <3>1 DEF New, IsCheckpoint, RecordsLead
    <3>3. g.cp = {c}
      BY <2>1, <2>2, <3>1 DEF Taken
    <3>4. Changes(g)'
      BY <2>1, <2>2, <3>2, <3>3 DEF Changes, IsChange, Heads, IsCheckpoint
    <3>. QED  BY <2>1, <3>4 DEF RecordsLead
  <2>3. CASE checkpoint # {}
    <3>1. PICK c \in checkpoint : checkpoint = {c} /\ IsCheckpoint(c)
      BY <2>3
    <3>2. c.after = Endpoints /\ c.phase # "rolled-back"
      BY <2>1, <3>1 DEF Continuable
    <3>3. g.cp = {c} /\ g.phase = "published" /\ g.want = Endpoints
      BY <2>1, <2>3, <3>1 DEF Taken
    <3>4. Changes(g)'
      BY <2>1, <3>1, <3>2, <3>3 DEF Changes, IsChange, Heads, IsCheckpoint
    <3>. QED  BY <2>1, <3>4 DEF RecordsLead
  <2>. QED  BY <2>2, <2>3
<1>3. CASE RollbackStart
  <2>1. PICK c, g :
                 /\ c \in checkpoint
                 /\ change' = {g} /\ UNCHANGED <<dns, checkpoint>>
                 /\ g = [phase |-> "rolled-back", cp |-> {c}, want |-> c.before, seen |-> dns,
                         todo |-> Order, saved |-> FALSE]
    BY <1>3 DEF RollbackStart
  <2>2. checkpoint = {c} /\ IsCheckpoint(c)
    BY <2>1
  <2>3. Changes(g)'
    BY <2>1, <2>2 DEF Changes, IsChange, Heads, IsCheckpoint
  <2>. QED  BY <2>1, <2>3 DEF RecordsLead
<1>4. CASE SaveCheckpoint
  <2>1. PICK g \in change : /\ checkpoint' = g.cp /\ dns' = dns
                            /\ change' = {[g EXCEPT !.saved = TRUE]}
    BY <1>4 DEF SaveCheckpoint
  <2>2. PICK c \in g.cp : g.cp = {c} /\ IsCheckpoint(c) /\ Heads(g, c)
    BY DEF Changes
  <2>3. IsCheckpoint(c)' /\ RecordsLead'
    BY <2>1, <2>2 DEF IsCheckpoint, RecordsLead, Changes
  <2>4. Changes([g EXCEPT !.saved = TRUE])'
    BY <2>1, <2>2, <2>3, SavedStep, ZenonT(60) DEF Changes, IsChange, Heads
  <2>. QED  BY <2>1, <2>2, <2>3, <2>4
<1>5. CASE WriteRecord
  <2>1. PICK g, p, x, y :
          /\ g \in change /\ checkpoint' = checkpoint /\ g.saved
          /\ \/ change' = {[g EXCEPT !.todo = x]} /\ dns' = dns
             \/ change' = {[g EXCEPT !.todo = x, !.seen = y]} /\ dns' = [dns EXCEPT ![p] = g.want[p]]
    <3>1. PICK g \in change :
            /\ checkpoint' = checkpoint /\ g.saved
            /\ LET p == Head(g.todo) IN
                  IF g.seen[p] = g.want[p]
                  THEN change' = {[g EXCEPT !.todo = Tail(@)]} /\ dns' = dns
                  ELSE /\ dns' = [dns EXCEPT ![p] = g.want[p]]
                       /\ change' = {[g EXCEPT !.todo = Tail(@), !.seen = dns']}
      BY <1>5 DEF WriteRecord
    <3>2. PICK p, x, y : p = Head(g.todo) /\ x = Tail(g.todo) /\ y = dns'
      OBVIOUS
    <3>. QED  BY <3>1, <3>2
  <2>2. PICK c \in g.cp : g.cp = {c} /\ IsCheckpoint(c) /\ Heads(g, c) /\ checkpoint = {c}
    BY <2>1 DEF Changes
  <2>3. \A h \in change' : Changes(h)'
    <3>1. CASE change' = {[g EXCEPT !.todo = x]}
      <4>1. Changes([g EXCEPT !.todo = x])'
        BY <2>1, <2>2, TodoStep DEF Changes, IsChange, Heads, IsCheckpoint
      <4>. QED  BY <3>1, <4>1
    <3>2. CASE change' = {[g EXCEPT !.todo = x, !.seen = y]}
      <4>1. Changes([g EXCEPT !.todo = x, !.seen = y])'
        <5>1. PICK h : h = [g EXCEPT !.todo = x, !.seen = y]
          OBVIOUS
        <5>2. h = [phase |-> g.phase, cp |-> g.cp, want |-> g.want, seen |-> y, todo |-> x, saved |-> g.saved]
          <6>1. IsChange(g)
            BY <2>1 DEF Changes, IsChange
          <6>. QED  BY <5>1, <6>1, SeenStep DEF IsChange
        <5>3. Changes(h)'
          BY <2>1, <2>2, <5>2 DEF Changes, IsChange, Heads, IsCheckpoint
        <5>. QED  BY <5>1, <5>3
      <4>. QED  BY <3>2, <4>1
    <3>. QED  BY <2>1, <3>1, <3>2
  <2>4. RecordsLead'
    BY <2>1, <2>2 DEF RecordsLead, Heads, IsCheckpoint
  <2>. QED  BY <2>1, <2>2, <2>3, <2>4 DEF IsCheckpoint
<1>6. CASE SavePhase
  <2>1. PICK g \in change : /\ checkpoint' = {[c EXCEPT !.phase = g.phase] : c \in g.cp}
                            /\ change' = {} /\ dns' = dns /\ dns = g.want
    BY <1>6 DEF SavePhase
  <2>2. PICK c \in g.cp : g.cp = {c} /\ IsCheckpoint(c) /\ Heads(g, c)
    BY DEF Changes
  <2>3. PICK d : d = [c EXCEPT !.phase = g.phase]
    OBVIOUS
  <2>4. d = [conf |-> c.conf, before |-> c.before, after |-> c.after, phase |-> g.phase]
    BY <2>2, <2>3 DEF IsCheckpoint
  <2>5. IsCheckpoint(d)' /\ checkpoint' = {d}
    BY <2>1, <2>2, <2>3, <2>4 DEF IsCheckpoint
  <2>6. RecordsLead'
    BY <2>1, <2>2, <2>4, <2>5 DEF RecordsLead, Heads, IsCheckpoint
  <2>. QED  BY <2>1, <2>5, <2>6
<1>7. CASE ChangeDies
  BY <1>7 DEF ChangeDies, RecordsLead
<1>8. ASSUME NEW p \in Planes, NEW v \in {Absent, Legacy, Elsewhere}, ZoneEdit(p, v)
      PROVE  CutoverInvariant'
  BY <1>8 DEF ZoneEdit, Changes, RecordsLead, Absent, Legacy, Elsewhere
<1>. QED  BY <1>1, <1>2, <1>3, <1>4, <1>5, <1>6, <1>7, <1>8 DEF CutoverNext

\* dns_runtime.py: a record that leads to the release's endpoints is one whose
\* earlier target is in the checkpoint, and the checkpoint's way back never is
\* such an endpoint, whatever publication or rollback died in between and
\* whoever edited the zone.
THEOREM WayBackIsKept == CutoverSpec => []WayBackKept
<1>1. CutoverInvariant /\ UNCHANGED cutoverVars => CutoverInvariant'
  BY DEF CutoverInvariant, cutoverVars, dnsVars, Changes, RecordsLead
<1>2. CutoverInvariant => WayBackKept
  BY DEF CutoverInvariant, RecordsLead, WayBackKept, IsCheckpoint
<1>. QED  BY <1>1, <1>2, CutoverStarts, CutoverStep, PTL DEF CutoverSpec

-----------------------------------------------------------------------------
(***************************************************************************)
(* LegacyEntry: whoever the operation keeps out can be let in again.       *)
(*                                                                         *)
(* EntryInvariant relates the entry to the checkpoint (original and        *)
(* restricted differ in the sources only) and to what the entry would be   *)
(* without the operation, and says that an execution in progress works     *)
(* with the saved checkpoint and writes one of its two values.             *)
(***************************************************************************)

IsEntry(e) == e = [rest |-> e.rest, sources |-> e.sources]

\* A checkpoint: the restricted value is the original one with fewer sources.
IsCycle(c) ==
    /\ c = [phase |-> c.phase, original |-> c.original, restricted |-> c.restricted]
    /\ IsEntry(c.original) /\ IsEntry(c.restricted) /\ c.restricted.rest = c.original.rest
    /\ Admitted(c.restricted.sources) \subseteq Admitted(c.original.sources)

EntryTyped ==
    /\ IsEntry(entry) /\ allowed \in Ranges
    /\ cycle = {} \/ \E c \in cycle : cycle = {c} /\ IsCycle(c)

\* The entry is as it would be without the operation, or narrower than that.
EntryHeld ==
    \/ entry = before
    \/ \E c \in cycle : c.original = before /\ Admitted(entry.sources) \subseteq Admitted(before.sources)

\* An entry that the checkpoint recognizes can be given back what it was.
OriginalKept == \A c \in cycle : entry \in {c.original, c.restricted} => before = c.original

\* An execution works with the cycle that is saved or is about to be, and an
\* entry that was not edited since is as it was planned.
Executes(o) ==
    /\ o = [plan |-> o.plan, step |-> o.step, same |-> o.same]
    /\ IsCycle(o.plan.state)
    /\ o.plan.from \in {o.plan.state.original, o.plan.state.restricted}
    /\ o.plan.desired \in {o.plan.state.original, o.plan.state.restricted}
    /\ o.step = "checkpoint" => \A c \in cycle : c.original = o.plan.state.original
    /\ o.step # "checkpoint" => cycle = {o.plan.state}
    /\ o.same /\ o.step \in {"checkpoint", "patch"} => entry = o.plan.from

EntryInvariant == EntryTyped /\ EntryHeld /\ OriginalKept /\ \A o \in operation : Executes(o)

LEMMA EntryStarts == EntryInit => EntryInvariant
<1> SUFFICES ASSUME EntryInit PROVE EntryInvariant  OBVIOUS
<1>1. IsEntry(entry)
  BY DEF EntryInit, IsEntry
<1>. QED  BY <1>1 DEF EntryInit, EntryInvariant, EntryTyped, EntryHeld, OriginalKept

LEMMA CyclePhase ==
  ASSUME NEW c, IsCycle(c), NEW x
  PROVE  /\ IsCycle([c EXCEPT !.phase = x])
         /\ [c EXCEPT !.phase = x].original = c.original
         /\ [c EXCEPT !.phase = x].restricted = c.restricted
<1>1. [c EXCEPT !.phase = x] = [phase |-> x, original |-> c.original, restricted |-> c.restricted]
  BY DEF IsCycle
<1>. QED  BY <1>1 DEF IsCycle

\* Unset admits everyone.
LEMMA Narrowed ==
  ASSUME NEW s, NEW a \in Ranges, s # Unset => a \subseteq s
  PROVE  Admitted(a) \subseteq Admitted(s)
<1>1. a # {} /\ a \subseteq Clients
  BY DEF Ranges
<1>2. Admitted(a) = a
  BY <1>1 DEF Admitted, Unset
<1>3. CASE s = {}
  BY <1>1, <1>2, <1>3 DEF Admitted, Unset
<1>4. CASE s # {}
  BY <1>2, <1>4 DEF Admitted, Unset
<1>. QED  BY <1>3, <1>4

LEMMA PlanExecutes ==
  ASSUME EntryTyped, NEW action, NEW p \in EntryPlans(action)
  PROVE  /\ IsCycle(p.state) /\ p.from = entry
         /\ p.from \in {p.state.original, p.state.restricted}
         /\ p.desired \in {p.state.original, p.state.restricted}
         /\ \A c \in cycle : c.original = p.state.original
<1>1. PICK c, x :
        /\ c \in (IF action = "restrict" THEN Restriction ELSE cycle)
        /\ p.from = entry /\ p.state = [c EXCEPT !.phase = x]
        /\ p.desired \in {c.original, c.restricted}
  <2>1. PICK c \in (IF action = "restrict" THEN Restriction ELSE cycle) :
          p = [action |-> action, from |-> entry, found |-> cycle,
               state |-> [c EXCEPT !.phase = IF action = "restrict" THEN "restricting" ELSE "restoring"],
               desired |-> IF action = "restrict" THEN c.restricted ELSE c.original]
    BY DEF EntryPlans
  <2>2. PICK x : x = IF action = "restrict" THEN "restricting" ELSE "restoring"
    OBVIOUS
  <2>3. p.from = entry /\ p.state = [c EXCEPT !.phase = x] /\ p.desired \in {c.original, c.restricted}
    BY <2>1, <2>2
  <2>. QED  BY <2>3
<1>2. Recognized
  BY DEF EntryPlans
<1>3. CASE c \in cycle
  BY <1>1, <1>2, <1>3, CyclePhase DEF EntryTyped, Recognized
<1>4. CASE c \notin cycle
  <2>1. /\ StartsCycle /\ Narrower
        /\ c = [phase |-> "restricting", original |-> entry,
                restricted |-> [entry EXCEPT !.sources = allowed]]
    BY <1>1, <1>4 DEF Restriction
  <2>2. c.restricted = [rest |-> entry.rest, sources |-> allowed] /\ c.original = entry
    BY <2>1 DEF EntryTyped, IsEntry
  <2>3. Admitted(allowed) \subseteq Admitted(entry.sources)
    BY <2>1, Narrowed DEF Narrower, EntryTyped
  <2>4. IsCycle(c)
    BY <2>1, <2>2, <2>3 DEF IsCycle, IsEntry, EntryTyped
  <2>. QED  BY <1>1, <2>1, <2>2, <2>4, CyclePhase DEF StartsCycle
<1>. QED  BY <1>3, <1>4

LEMMA StepSet ==
  ASSUME NEW o, o = [plan |-> o.plan, step |-> o.step, same |-> o.same], NEW x
  PROVE  /\ [o EXCEPT !.step = x] = [plan |-> o.plan, step |-> x, same |-> o.same]
         /\ [o EXCEPT !.same = x] = [plan |-> o.plan, step |-> o.step, same |-> x]
  OBVIOUS

LEMMA EntryStep ==
  ASSUME EntryInvariant, EntryNext
  PROVE  EntryInvariant'
<1>. USE DEF EntryInvariant
<1>1. CASE \E action \in {"restrict", "restore"} : Offer(action)
  BY <1>1 DEF Offer, EntryTyped, EntryHeld, OriginalKept, Executes
<1>2. CASE StartExecute
  <2>1. PICK p \in offered :
          /\ p \in EntryPlans(p.action)
          /\ operation' = {[plan |-> p, step |-> "checkpoint", same |-> TRUE]}
          /\ UNCHANGED <<entry, cycle, allowed, before>>
    BY <1>2 DEF StartExecute
  <2>2. Executes([plan |-> p, step |-> "checkpoint", same |-> TRUE])'
    BY <2>1, PlanExecutes DEF Executes
  <2>. QED  BY <2>1, <2>2 DEF EntryTyped, EntryHeld, OriginalKept
<1>3. CASE SaveIntent
  <2>1. PICK o \in operation, x \in {"confirm", "patch"} :
          /\ o.step = "checkpoint" /\ cycle' = {o.plan.state}
          /\ operation' = {[o EXCEPT !.step = x]}
          /\ before' = Unrestricted(entry, cycle', before)
          /\ UNCHANGED <<entry, allowed>>
    BY <1>3 DEF SaveIntent, Proceeds
  <2>2. PICK s : s = o.plan.state
    OBVIOUS
  <2>3. IsCycle(s) /\ \A c \in cycle : c.original = s.original
    BY <2>1, <2>2 DEF Executes
  <2>4. before' = IF entry = s.restricted THEN s.original ELSE before
    BY <2>1, <2>2 DEF Unrestricted
  <2>5. EntryTyped'
    BY <2>1, <2>2, <2>3 DEF EntryTyped
  <2>6. EntryHeld'
    BY <2>1, <2>2, <2>3, <2>4 DEF EntryHeld, IsCycle
  <2>7. OriginalKept'
    BY <2>1, <2>2, <2>3, <2>4 DEF OriginalKept, EntryHeld
  <2>8. \A q \in operation' : Executes(q)'
    BY <2>1, StepSet DEF Executes
  <2>. QED  BY <2>5, <2>6, <2>7, <2>8
<1>4. CASE PatchEntry
  <2>1. PICK o \in operation :
          /\ o.step = "patch" /\ o.same
          /\ entry' = [entry EXCEPT !.sources = o.plan.desired.sources]
          /\ operation' = {[o EXCEPT !.step = "confirm"]}
          /\ UNCHANGED <<cycle, allowed, before>>
    BY <1>4 DEF PatchEntry, Proceeds, Unedited
  <2>2. PICK s : s = o.plan.state
    OBVIOUS
  <2>3. /\ IsCycle(s) /\ cycle = {s} /\ entry \in {s.original, s.restricted}
        /\ o.plan.desired \in {s.original, s.restricted}
    BY <2>1, <2>2 DEF Executes
  <2>4. entry' = o.plan.desired
    <3>1. entry' = [rest |-> entry.rest, sources |-> o.plan.desired.sources]
      BY <2>1 DEF EntryTyped, IsEntry
    <3>. QED  BY <2>3, <3>1 DEF IsCycle, IsEntry
  <2>5. before' = s.original
    BY <2>1, <2>3 DEF OriginalKept
  <2>6. EntryTyped' /\ EntryHeld' /\ OriginalKept'
    BY <2>1, <2>3, <2>4, <2>5 DEF EntryTyped, EntryHeld, OriginalKept, IsCycle
  <2>7. \A q \in operation' : Executes(q)'
    BY <2>1, <2>4, StepSet DEF Executes
  <2>. QED  BY <2>6, <2>7
<1>5. CASE Confirm
  <2>1. PICK o \in operation :
          /\ o.step = "confirm" /\ operation' = {[o EXCEPT !.step = "done"]}
          /\ UNCHANGED <<entry, cycle, allowed, before>>
    BY <1>5 DEF Confirm, Proceeds
  <2>2. \A q \in operation' : Executes(q)'
    BY <2>1, StepSet DEF Executes
  <2>. QED  BY <2>1, <2>2 DEF EntryTyped, EntryHeld, OriginalKept
<1>6. CASE SaveDone
  <2>1. PICK o, x :
          /\ o \in operation /\ o.step = "done" /\ cycle' = {[o.plan.state EXCEPT !.phase = x]}
          /\ operation' = {} /\ UNCHANGED <<entry, allowed, before>>
    BY <1>6 DEF SaveDone
  <2>2. IsCycle(o.plan.state) /\ cycle = {o.plan.state}
    BY <2>1 DEF Executes
  <2>3. PICK s : s = [o.plan.state EXCEPT !.phase = x]
    OBVIOUS
  <2>4. IsCycle(s) /\ s.original = o.plan.state.original /\ s.restricted = o.plan.state.restricted
    BY <2>2, <2>3, CyclePhase
  <2>. QED  BY <2>1, <2>2, <2>3, <2>4 DEF EntryTyped, EntryHeld, OriginalKept
<1>7. CASE ExecuteDies
  BY <1>7 DEF ExecuteDies, EntryTyped, EntryHeld, OriginalKept
<1>8. CASE EditPolicy
  BY <1>8 DEF EditPolicy, EntryTyped, EntryHeld, OriginalKept, Executes
<1>9. CASE EditEntry
  <2>1. /\ entry' \in [rest: {entry.rest, entry.rest + 1}, sources: Ranges \cup {Unset}]
        /\ before' = Unrestricted(entry', cycle, entry')
        /\ operation' = {[o EXCEPT !.same = FALSE] : o \in operation}
        /\ UNCHANGED <<cycle, allowed>>
    BY <1>9 DEF EditEntry
  <2>2. EntryTyped'
    BY <2>1 DEF EntryTyped, IsEntry
  <2>3. ASSUME cycle = {}
        PROVE  EntryHeld' /\ OriginalKept'
    <3>1. before' = entry'
      BY <2>1, <2>3 DEF Unrestricted
    <3>2. cycle' = {}
      BY <2>1, <2>3
    <3>. QED  BY <3>1, <3>2 DEF EntryHeld, OriginalKept
  <2>4. ASSUME NEW c \in cycle, cycle = {c}, IsCycle(c)
        PROVE  EntryHeld' /\ OriginalKept'
    <3>1. before' = IF entry' = c.restricted THEN c.original ELSE entry'
      BY <2>1, <2>4 DEF Unrestricted
    <3>. QED  BY <2>1, <2>4, <3>1 DEF EntryHeld, OriginalKept, IsCycle
  <2>5. ASSUME NEW o \in operation
        PROVE  Executes([o EXCEPT !.same = FALSE])'
    <3>1. o = [plan |-> o.plan, step |-> o.step, same |-> o.same]
      BY DEF Executes
    <3>2. [o EXCEPT !.same = FALSE] = [plan |-> o.plan, step |-> o.step, same |-> FALSE]
      BY <3>1, StepSet
    <3>. QED  BY <2>1, <3>2 DEF Executes
  <2>6. EntryHeld' /\ OriginalKept'
    BY <2>3, <2>4 DEF EntryTyped
  <2>. QED  BY <2>1, <2>2, <2>5, <2>6
<1>. QED  BY <1>1, <1>2, <1>3, <1>4, <1>5, <1>6, <1>7, <1>8, <1>9 DEF EntryNext

\* legacy_access.py: the entry is either as it would be without the operation
\* or narrower, and then the checkpoint says how it was: through any
\* restrictions, restorations, deaths, edits of the entry and new policies.
THEOREM AccessReturns == EntrySpec => []AccessReversible
<1>1. EntryInvariant /\ UNCHANGED entryVars => EntryInvariant'
  BY DEF EntryInvariant, entryVars, EntryTyped, EntryHeld, OriginalKept, Executes
<1>2. EntryInvariant => AccessReversible
  BY DEF EntryInvariant, EntryHeld, AccessReversible
<1>. QED  BY <1>1, <1>2, EntryStarts, EntryStep, PTL DEF EntrySpec

-----------------------------------------------------------------------------
(***************************************************************************)
(* DatabaseStage: Pods serve on a database that fits, and the stored data  *)
(* stay readable.                                                          *)
(*                                                                         *)
(* SchemaKept: whatever names a revision, a receipt, an operation before   *)
(* its receipt, the application or a Pod, stands on a database with all    *)
(* its migrations, and with Pods nothing opens the history again.          *)
(*                                                                         *)
(* KeysKept: an imported salt is the one of the source, whoever writes it. *)
(* A generated one is set by the only operation on keys there is, which    *)
(* holds its lock and saw there was none: without the lock the Vault keeps *)
(* whatever is written last.                                               *)
(***************************************************************************)

Vaults == [Keys -> Seq(Nat \ {0})]
Application == [rev : Nat, salt : Nat]
RolesOperation == [kind : {"roles"}, pc : {"grant"}, locked : BOOLEAN]
KeysRecord ==
    [kind : {"keys"}, pc : {"read", "write", "save"}, locked : BOOLEAN, rev : Nat,
     seen : Vaults, new : Nat \ {0}]
KeysOperation == {o \in KeysRecord : o.pc = "save" => Missing(o.seen) = {}}
SchemaOperation ==
    [kind : {"schema"}, pc : {"deploy", "revoke", "verify", "save"}, locked : BOOLEAN, rev : Nat]
Operation == RolesOperation \cup KeysOperation \cup SchemaOperation

DatabaseTyped ==
    /\ origin \in {"greenfield", "migration"} /\ head \in Nat \ {0} /\ breaks \in Nat
    /\ db \in [n : Nat, failed : BOOLEAN, views : BOOLEAN]
    /\ rights \in [grants : BOOLEAN, history : BOOLEAN]
    /\ vault \in Vaults /\ data \in Nat
    /\ receipts \in [schema : Nat, keys : Nat, salt : Nat]
    /\ ops \in [Operators -> SUBSET Operation]
    /\ app \in SUBSET Application /\ pods \in SUBSET Application
    /\ unlocked \in BOOLEAN

SchemaKept ==
    /\ \A p \in app : db.n >= Last(p.rev)
    /\ \A p \in pods : db.n >= Last(p.rev)
    /\ receipts.schema # 0 => db.n >= Last(receipts.schema)
    /\ \A w \in Operators : \A o \in OpsAt(w, "schema", "save") : db.n >= Last(o.rev)
    /\ pods # {} => ~rights.history

Keyed(w) == {o \in ops[w] : o.kind = "keys"}

ImportedKept ==
    /\ Versions("salt") \subseteq {LegacyKey} /\ data \in {0, LegacyKey}
    /\ \A p \in pods : p.salt = LegacyKey
    /\ \A w \in Operators : \A o \in Keyed(w) : o.new = LegacyKey

GeneratedKept ==
    /\ Len(vault["salt"]) <= 1
    /\ data # 0 => Versions("salt") \subseteq {data}
    /\ \A p \in pods : p.salt = data
    /\ \A v, w \in Operators : Keyed(v) # {} /\ Keyed(w) # {} => v = w
    /\ \A w \in Operators : \A o \in Keyed(w) :
         o.locked /\ (o.seen["salt"] = << >> => vault["salt"] = << >> /\ data = 0)

KeysKept ==
    /\ data = 0 => pods = {}
    /\ data # 0 => db.n > 0
    /\ origin = "migration" => ImportedKept
    /\ origin = "greenfield" /\ ~unlocked => GeneratedKept

DatabaseInvariant == DatabaseTyped /\ SchemaKept /\ KeysKept

-----------------------------------------------------------------------------
\* Start and Move give one operator one operation, Done takes it away.
LEMMA OperationReplaced ==
    ASSUME DatabaseTyped, NEW w \in Operators, NEW o \in Operation,
           ops' = [ops EXCEPT ![w] = {o}]
    PROVE  /\ ops' \in [Operators -> SUBSET Operation]
           /\ \A v \in Operators : ops'[v] = IF v = w THEN {o} ELSE ops[v]
BY DEF DatabaseTyped

LEMMA OperationDone ==
    ASSUME DatabaseTyped, NEW w \in Operators, Done(w)
    PROVE  /\ ops' \in [Operators -> SUBSET Operation]
           /\ \A v \in Operators : ops'[v] = IF v = w THEN {} ELSE ops[v]
BY DEF DatabaseTyped, Done, Idle

LEMMA EmptyVault == [master |-> << >>, salt |-> << >>] \in Vaults
<1> DEFINE none == << >>
<1>1. none \in Seq(Nat \ {0})
  OBVIOUS
<1> HIDE DEF none
<1>2. [master |-> none, salt |-> none] \in [{"master", "salt"} -> Seq(Nat \ {0})]
  BY <1>1
<1> QED BY <1>2 DEF Vaults, Keys, none

LEMMA DatabaseStarts == DatabaseInit => DatabaseInvariant
<1> SUFFICES ASSUME DatabaseInit PROVE DatabaseInvariant
  OBVIOUS
<1>1. DatabaseTyped
  <2>1. vault \in Vaults
    BY EmptyVault DEF DatabaseInit
  <2>2. ops \in [Operators -> SUBSET Operation]
    BY DEF DatabaseInit, Idle
  <2>3. /\ origin \in {"greenfield", "migration"} /\ head = 1 /\ breaks = 0 /\ data = 0
        /\ unlocked = FALSE /\ app = {} /\ pods = {}
        /\ db = [n |-> 0, failed |-> FALSE, views |-> FALSE]
        /\ rights = [grants |-> FALSE, history |-> FALSE]
        /\ receipts = [schema |-> 0, keys |-> 0, salt |-> 0]
    BY Zenon DEF DatabaseInit
  <2>4. /\ db \in [n : Nat, failed : BOOLEAN, views : BOOLEAN]
        /\ rights \in [grants : BOOLEAN, history : BOOLEAN]
        /\ receipts \in [schema : Nat, keys : Nat, salt : Nat]
    BY <2>3
  <2>5. head \in Nat \ {0} /\ breaks \in Nat /\ data \in Nat
    BY <2>3
  <2>7. unlocked \in BOOLEAN
    BY <2>3, Zenon
  <2>6. app \in SUBSET Application /\ pods \in SUBSET Application
    BY <2>3
  <2> QED BY <2>1, <2>2, <2>3, <2>4, <2>5, <2>6, <2>7, Zenon DEF DatabaseTyped
<1>2. \A w \in Operators : ops[w] = {}
  BY DEF DatabaseInit, Idle
<1>3. SchemaKept
  BY <1>2 DEF DatabaseInit, SchemaKept, OpsAt, Last
<1>4. KeysKept
  <2>0. vault["salt"] = << >>
    BY DEF DatabaseInit
  <2>1. Versions("salt") = {} /\ Len(vault["salt"]) = 0
    BY <2>0 DEF Versions
  <2> QED BY <1>2, <2>1 DEF DatabaseInit, KeysKept, ImportedKept, GeneratedKept, Keyed
<1> QED BY <1>1, <1>3, <1>4 DEF DatabaseInvariant

\* What an operation is when it is at a step of one kind.
LEMMA OperationOfKind ==
    ASSUME NEW o \in Operation
    PROVE  /\ o.kind = "keys" => o \in KeysOperation
           /\ o.kind = "schema" => o \in SchemaOperation
<1>1. o \in RolesOperation => o.kind = "roles"
  BY DEF RolesOperation
<1>2. o \in KeysOperation => o.kind = "keys"
  BY DEF KeysOperation, KeysRecord
<1>3. o \in SchemaOperation => o.kind = "schema"
  BY DEF SchemaOperation
<1> QED BY <1>1, <1>2, <1>3 DEF Operation

LEMMA OperationKinds ==
    ASSUME DatabaseTyped, NEW w \in Operators
    PROVE  /\ \A o \in Keyed(w) : o \in KeysOperation
           /\ \A pc : \A o \in OpsAt(w, "keys", pc) : o \in KeysOperation /\ o \in Keyed(w)
           /\ \A pc : \A o \in OpsAt(w, "schema", pc) : o \in SchemaOperation
<1>1. \A o \in ops[w] : o \in Operation
  BY SMTT(60) DEF DatabaseTyped
<1> QED BY <1>1, OperationOfKind DEF OpsAt, Keyed

\* What the operations become: moved on, or as they start.
LEMMA OperationsMoved ==
    /\ [kind |-> "roles", pc |-> "grant", locked |-> TRUE] \in Operation
    /\ head \in Nat => [kind |-> "schema", pc |-> "deploy", locked |-> TRUE, rev |-> head] \in SchemaOperation
    /\ \A o \in SchemaOperation : \A pc \in {"revoke", "verify", "save"}, l \in BOOLEAN :
         /\ [o EXCEPT !.pc = pc] \in SchemaOperation
         /\ [o EXCEPT !.locked = l] \in SchemaOperation
         /\ [o EXCEPT !.pc = pc, !.locked = l] \in SchemaOperation
<1>1. [kind |-> "roles", pc |-> "grant", locked |-> TRUE] \in Operation
  BY DEF Operation, RolesOperation
<1>2. ASSUME head \in Nat
      PROVE  [kind |-> "schema", pc |-> "deploy", locked |-> TRUE, rev |-> head] \in SchemaOperation
  BY <1>2 DEF SchemaOperation
<1>3. ASSUME NEW o \in SchemaOperation, NEW pc \in {"revoke", "verify", "save"}, NEW l \in BOOLEAN
      PROVE  /\ [o EXCEPT !.pc = pc] \in SchemaOperation
             /\ [o EXCEPT !.locked = l] \in SchemaOperation
             /\ [o EXCEPT !.pc = pc, !.locked = l] \in SchemaOperation
  BY DEF SchemaOperation
<1> QED BY <1>1, <1>2, <1>3

\* An operation on keys reads, sets one key, or loses its lock.
LEMMA KeysMoved ==
    ASSUME DatabaseTyped, NEW o \in KeysOperation
    PROVE  /\ [o EXCEPT !.pc = IF Missing(o.seen) = {} THEN "save" ELSE "write"] \in KeysOperation
           /\ \A v \in Vaults : [o EXCEPT !.pc = "read", !.seen = v] \in KeysOperation
           /\ [o EXCEPT !.locked = FALSE] \in KeysOperation
<1> o \in KeysRecord
  BY DEF KeysOperation
<1>1. [o EXCEPT !.pc = IF Missing(o.seen) = {} THEN "save" ELSE "write"] \in KeysOperation
  <2> DEFINE q == [o EXCEPT !.pc = IF Missing(o.seen) = {} THEN "save" ELSE "write"]
  <2>1. q \in KeysRecord /\ q.seen = o.seen /\ (q.pc = "save" => Missing(o.seen) = {})
    BY DEF KeysRecord
  <2> QED BY <2>1 DEF KeysOperation
<1>2. ASSUME NEW v \in Vaults PROVE [o EXCEPT !.pc = "read", !.seen = v] \in KeysOperation
  <2> DEFINE q == [o EXCEPT !.pc = "read", !.seen = v]
  <2>1. q \in KeysRecord /\ q.pc = "read"
    BY DEF KeysRecord
  <2> QED BY <2>1 DEF KeysOperation
<1>3. [o EXCEPT !.locked = FALSE] \in KeysOperation
  <2> DEFINE q == [o EXCEPT !.locked = FALSE]
  <2>1. q \in KeysRecord /\ q.seen = o.seen /\ q.pc = o.pc
    BY DEF KeysRecord
  <2> QED BY <2>1 DEF KeysOperation
<1> QED BY <1>1, <1>2, <1>3

\* It starts with what the Vault holds, and sets what it saw missing there.
LEMMA KeysStarted ==
    ASSUME DatabaseTyped
    PROVE  /\ Value \in Nat \ {0} /\ (origin = "migration" => Value = LegacyKey)
           /\ [kind |-> "keys", pc |-> "read", locked |-> TRUE, rev |-> head, seen |-> vault, new |-> Value]
                 \in KeysOperation
<1>1. Value \in Nat \ {0} /\ (origin = "migration" => Value = LegacyKey)
  BY DEF Value, LegacyKey, DatabaseTyped
<1> QED BY <1>1 DEF KeysOperation, KeysRecord, DatabaseTyped

LEMMA VaultSet ==
    ASSUME DatabaseTyped, NEW o \in KeysOperation, NEW k \in Keys,
           vault' = [vault EXCEPT ![k] = Append(@, o.new)]
    PROVE  /\ vault' \in Vaults /\ [o.seen EXCEPT ![k] = vault'[k]] \in Vaults
           /\ vault'["salt"] = IF k = "salt" THEN Append(vault["salt"], o.new) ELSE vault["salt"]
<1>1. o.new \in Nat \ {0} /\ o.seen \in Vaults
  BY DEF KeysOperation, KeysRecord
<1>2. vault[k] \in Seq(Nat \ {0}) /\ vault \in [Keys -> Seq(Nat \ {0})]
  BY DEF DatabaseTyped, Vaults
<1>3. Append(vault[k], o.new) \in Seq(Nat \ {0})
  BY <1>1, <1>2
<1>4. vault' \in Vaults /\ vault'[k] = Append(vault[k], o.new)
  BY <1>2, <1>3 DEF Vaults
<1>5. [o.seen EXCEPT ![k] = vault'[k]] \in Vaults
  BY <1>1, <1>3, <1>4 DEF Vaults
<1>6. vault'["salt"] = IF k = "salt" THEN Append(vault["salt"], o.new) ELSE vault["salt"]
  BY <1>2 DEF Keys
<1> QED BY <1>4, <1>5, <1>6

-----------------------------------------------------------------------------
LEMMA DatabaseTypeStep ==
    ASSUME DatabaseTyped, DatabaseNext PROVE DatabaseTyped'
<1> DEFINE OpsTyped == ops \in [Operators -> SUBSET Operation]
<1>0. RolesOperation \cup KeysOperation \cup SchemaOperation = Operation
  BY DEF Operation
<1>a. \A w \in Operators, o \in Operation : Start(w, o) \/ Move(w, o) => OpsTyped'
  BY OperationReplaced DEF Start, Move
<1>b. \A w \in Operators : Done(w) => OpsTyped'
  BY OperationDone
<1>1. ASSUME NEW w \in Operators,
             CreateRoles(w) \/ GrantRoles(w) \/ StartKeys(w) \/ SaveKeys(w)
      PROVE  DatabaseTyped'
  <2>1. CASE CreateRoles(w)
    BY <2>1, OperationsMoved, <1>a DEF CreateRoles, DatabaseTyped
  <2>2. CASE GrantRoles(w)
    BY <2>2, <1>b DEF GrantRoles, Granted, DatabaseTyped
  <2>3. CASE StartKeys(w)
    BY <2>3, KeysStarted, <1>a, <1>0 DEF StartKeys, DatabaseTyped
  <2>4. CASE SaveKeys(w)
    <3>1. PICK o \in OpsAt(w, "keys", "save") :
             receipts' = [receipts EXCEPT !.keys = o.rev, !.salt = o.seen.salt[Len(o.seen.salt)]]
      BY <2>4 DEF SaveKeys
    <3>2. o \in KeysOperation /\ o.pc = "save"
      BY OperationKinds DEF OpsAt
    <3>3. o.rev \in Nat /\ o.seen["salt"] \in Seq(Nat \ {0}) /\ o.seen["salt"] # << >>
      BY <3>2 DEF KeysOperation, KeysRecord, Missing, Vaults, Keys
    <3>4. o.seen.salt[Len(o.seen.salt)] \in Nat
      BY <3>3
    <3>5. OpsTyped'
      BY <2>4, <1>b DEF SaveKeys
    <3>6. receipts' \in [schema : Nat, keys : Nat, salt : Nat]
      BY <3>1, <3>3, <3>4 DEF DatabaseTyped
    <3> QED BY <2>4, <3>5, <3>6 DEF SaveKeys, DatabaseTyped
  <2> QED BY <1>1, <2>1, <2>2, <2>3, <2>4
<1>2. ASSUME NEW w \in Operators, ReadKeys(w) \/ SetKey(w) PROVE DatabaseTyped'
  <2>1. CASE ReadKeys(w)
    <3>1. OpsTyped'
      BY <2>1, OperationKinds, KeysMoved, <1>a, <1>0 DEF ReadKeys
    <3> QED BY <2>1, <3>1 DEF ReadKeys, DatabaseTyped
  <2>2. CASE SetKey(w)
    <3>0. PICK o \in OpsAt(w, "keys", "write") : \E k \in Missing(o.seen) :
             /\ vault' = [vault EXCEPT ![k] = Append(@, o.new)]
             /\ Move(w, [o EXCEPT !.pc = "read", !.seen = [o.seen EXCEPT ![k] = vault'[k]]])
      BY <2>2 DEF SetKey
    <3>1. PICK k \in Missing(o.seen) :
             /\ vault' = [vault EXCEPT ![k] = Append(@, o.new)]
             /\ Move(w, [o EXCEPT !.pc = "read", !.seen = [o.seen EXCEPT ![k] = vault'[k]]])
      BY <3>0
    <3>2. o \in KeysOperation /\ k \in Keys
      BY OperationKinds DEF Missing
    <3>3. vault' \in Vaults /\ [o.seen EXCEPT ![k] = vault'[k]] \in Vaults
      BY <3>1, <3>2, VaultSet
    <3>4. OpsTyped'
      BY <3>1, <3>2, <3>3, <1>0, <1>a, KeysMoved
    <3> QED BY <2>2, <3>3, <3>4 DEF SetKey, DatabaseTyped
  <2> QED BY <1>2, <2>1, <2>2
<1>3. ASSUME NEW w \in Operators, StartSchema(w) \/ Migrate(w) \/ SaveSchema(w)
      PROVE  DatabaseTyped'
  <2>1. CASE StartSchema(w)
    BY <2>1, OperationsMoved, <1>a, <1>0 DEF StartSchema, DatabaseTyped
  <2>2. CASE Migrate(w)
    <3>1. db' \in [n : Nat, failed : BOOLEAN, views : BOOLEAN]
      <4>1. [db EXCEPT !.n = @ + 1] \in [n : Nat, failed : BOOLEAN, views : BOOLEAN]
        BY DEF DatabaseTyped
      <4>2. [db EXCEPT !.failed = TRUE] \in [n : Nat, failed : BOOLEAN, views : BOOLEAN]
        BY DEF DatabaseTyped
      <4> QED BY <2>2, <4>1, <4>2 DEF Migrate
    <3>2. rights' \in [grants : BOOLEAN, history : BOOLEAN]
      BY <2>2 DEF Migrate, DatabaseTyped, Tables
    <3> QED BY <2>2, <3>1, <3>2 DEF Migrate, DatabaseTyped
  <2>3. CASE SaveSchema(w)
    <3>1. PICK o \in OpsAt(w, "schema", "save") : receipts' = [receipts EXCEPT !.schema = o.rev]
      BY <2>3 DEF SaveSchema
    <3>2. o.rev \in Nat
      BY OperationKinds DEF SchemaOperation
    <3> QED BY <2>3, <3>1, <3>2, <1>b DEF SaveSchema, DatabaseTyped
  <2> QED BY <1>3, <2>1, <2>2, <2>3
<1>4. ASSUME NEW w \in Operators, CreateViews(w) \/ Revoke(w) \/ VerifySchema(w) \/ SessionLost(w)
      PROVE  DatabaseTyped'
  <2>1. OpsTyped'
    <3>1. CASE CreateViews(w) \/ Revoke(w) \/ VerifySchema(w)
      BY <3>1, OperationKinds, OperationsMoved, <1>a, <1>0 DEF CreateViews, Revoke, VerifySchema
    <3>2. CASE SessionLost(w)
      <4>1. PICK o \in ops[w] : /\ o.kind = "keys" \/ o.kind = "schema"
                               /\ Move(w, [o EXCEPT !.locked = FALSE])
        BY <3>2 DEF SessionLost
      <4>2. [o EXCEPT !.locked = FALSE] \in Operation
        BY <4>1, <1>0, OperationOfKind, OperationsMoved, KeysMoved DEF DatabaseTyped
      <4> QED BY <4>1, <4>2, <1>a
    <3> QED BY SMTT(60), <1>4, <3>1, <3>2
  <2>2. CASE CreateViews(w)
    BY <2>1, <2>2 DEF CreateViews, DatabaseTyped
  <2>3. CASE Revoke(w)
    BY <2>1, <2>3 DEF Revoke, DatabaseTyped
  <2>4. CASE VerifySchema(w)
    BY <2>1, <2>4 DEF VerifySchema, DatabaseTyped
  <2>5. CASE SessionLost(w)
    BY <2>1, <2>5 DEF SessionLost, Break, DatabaseTyped
  <2> QED BY <1>4, <2>2, <2>3, <2>4, <2>5
<1>5. ASSUME NEW w \in Operators, OperatorDies(w) PROVE DatabaseTyped'
  BY <1>5, <1>b DEF OperatorDies, Break, DatabaseTyped
<1>6. CASE Restore \/ PlanSchema \/ Publish
  <2>1. CASE Restore
    BY <2>1 DEF Restore, Restored, LegacyKey, DatabaseTyped
  <2>2. CASE PlanSchema
    BY <2>2 DEF PlanSchema, DatabaseTyped
  <2>3. CASE Publish
    BY <2>3 DEF Publish, Publishable, Application, DatabaseTyped
  <2> QED BY <1>6, <2>1, <2>2, <2>3
<1>7. CASE PodStarts \/ PodStops \/ NewRevision
  <2>1. CASE PodStarts
    BY <2>1 DEF PodStarts, Application, DatabaseTyped
  <2>2. CASE PodStops \/ NewRevision
    BY <2>2 DEF PodStops, NewRevision, DatabaseTyped
  <2> QED BY <1>7, <2>1, <2>2
<1>8. CASE (\E k \in Keys : KeyLost(k)) \/ Resolved
  <2>1. CASE \E k \in Keys : KeyLost(k)
    <3>1. PICK k \in Keys : vault' = [vault EXCEPT ![k] = << >>]
      BY <2>1 DEF KeyLost
    <3>2. vault' \in Vaults
      BY <3>1 DEF Vaults, DatabaseTyped
    <3> QED BY <2>1, <3>2 DEF KeyLost, Break, DatabaseTyped
  <2>2. CASE Resolved
    <3>1. [db EXCEPT !.failed = FALSE] \in [n : Nat, failed : BOOLEAN, views : BOOLEAN]
      BY DEF DatabaseTyped
    <3> QED BY <2>2, <3>1 DEF Resolved, Break, DatabaseTyped
  <2> QED BY <1>8, <2>1, <2>2
<1> QED BY <1>1, <1>2, <1>3, <1>4, <1>5, <1>6, <1>7, <1>8 DEF DatabaseNext

-----------------------------------------------------------------------------
\* Nothing that is there is taken from the database, and what there is
\* of it decides about a new application, operation or Pod.
LEMMA DatabaseGrows ==
    ASSUME DatabaseTyped, DatabaseNext
    PROVE  /\ db'.n \in Nat /\ db'.n >= db.n
           /\ rights'.history => rights.history \/ ~Tables
<1> DEFINE Grows == db'.n \in Nat /\ db'.n >= db.n /\ (rights'.history => rights.history \/ ~Tables)
<1>1. \/ db' = db /\ rights' = rights
      \/ Restore \/ Resolved
      \/ \E w \in Operators : Migrate(w) \/ CreateViews(w) \/ Revoke(w) \/ GrantRoles(w)
  BY DEF DatabaseNext, CreateRoles, StartKeys, ReadKeys, SetKey, SaveKeys, StartSchema,
         VerifySchema, SaveSchema, OperatorDies, SessionLost, PlanSchema,
         Publish, PodStarts, PodStops, NewRevision, KeyLost
<1>2. CASE db' = db /\ rights' = rights
  BY <1>2 DEF DatabaseTyped
<1>3. CASE Restore
  BY <1>3 DEF Restore, Restored, Tables, DatabaseTyped
<1>4. CASE Resolved
  BY <1>4 DEF Resolved, DatabaseTyped
<1>5. ASSUME NEW w \in Operators, Migrate(w) \/ CreateViews(w) PROVE Grows
  <2>1. db' \in {[db EXCEPT !.n = @ + 1], [db EXCEPT !.failed = TRUE], [db EXCEPT !.views = TRUE]}
    BY <1>5 DEF Migrate, CreateViews
  <2>2. db'.n \in Nat /\ db'.n >= db.n
    BY <2>1 DEF DatabaseTyped
  <2>3. rights' = rights \/ rights' = [rights EXCEPT !.history = @ \/ ~Tables]
    BY <1>5 DEF Migrate, CreateViews
  <2> QED BY <2>2, <2>3 DEF DatabaseTyped, Tables
<1>6. ASSUME NEW w \in Operators, Revoke(w) \/ GrantRoles(w) PROVE Grows
  <2>1. CASE Revoke(w)
    BY <2>1 DEF Revoke, DatabaseTyped
  <2>2. CASE GrantRoles(w)
    BY <2>2 DEF GrantRoles, Granted, DatabaseTyped
  <2> QED BY <1>6, <2>1, <2>2
<1> QED BY <1>1, <1>2, <1>3, <1>4, <1>5, <1>6

\* An operator's operation is what it was, or this operator moved.
LEMMA OperatorMoves ==
    ASSUME DatabaseTyped, DatabaseNext, NEW w \in Operators
    PROVE  \/ ops'[w] \subseteq ops[w]
           \/ CreateRoles(w) \/ StartKeys(w) \/ ReadKeys(w) \/ SetKey(w) \/ StartSchema(w)
           \/ CreateViews(w) \/ Revoke(w) \/ VerifySchema(w) \/ SessionLost(w)
<1> DEFINE Moves(v) ==
        \/ CreateRoles(v) \/ StartKeys(v) \/ ReadKeys(v) \/ SetKey(v) \/ StartSchema(v)
        \/ CreateViews(v) \/ Revoke(v) \/ VerifySchema(v) \/ SessionLost(v)
<1>1. UNCHANGED ops \/ \E v \in Operators : Done(v) \/ Moves(v)
  BY DEF DatabaseNext, GrantRoles, SaveKeys, Migrate, SaveSchema, OperatorDies, Restore, PlanSchema,
         Publish, PodStarts, PodStops, NewRevision, KeyLost, Resolved
<1>2. ASSUME NEW v \in Operators, Moves(v), v # w PROVE ops'[w] = ops[w]
  <2>1. \E x : ops' = [ops EXCEPT ![v] = x]
    BY <1>2 DEF CreateRoles, StartKeys, ReadKeys, SetKey, StartSchema, CreateViews, Revoke, VerifySchema,
                SessionLost, Start, Move
  <2> QED BY <1>2, <2>1 DEF DatabaseTyped
<1>3. ASSUME NEW v \in Operators, Done(v) PROVE ops'[w] \subseteq ops[w]
  BY <1>3, OperationDone
<1> QED BY <1>1, <1>2, <1>3

\* An operation on keys keeps its lock and its value; when it sees no salt it
\* saw none before and set none.
LEMMA KeysOperationMoves ==
    ASSUME DatabaseTyped, NEW w \in Operators, ReadKeys(w) \/ SetKey(w), NEW o \in ops'[w]
    PROVE  /\ o.kind = "keys"
           /\ \E q \in Keyed(w) :
                /\ o.locked = q.locked /\ o.new = q.new
                /\ o.seen["salt"] = << >> => q.seen["salt"] = << >> /\ vault'["salt"] = vault["salt"]
<1>1. CASE ReadKeys(w)
  <2>1. PICK q \in OpsAt(w, "keys", "read") :
           /\ Move(w, [q EXCEPT !.pc = IF Missing(q.seen) = {} THEN "save" ELSE "write"])
           /\ vault' = vault
    BY <1>1 DEF ReadKeys
  <2>2. q \in KeysRecord /\ q \in Keyed(w)
    BY OperationKinds DEF KeysOperation
  <2>3. o = [q EXCEPT !.pc = IF Missing(q.seen) = {} THEN "save" ELSE "write"]
    BY <2>1 DEF Move, DatabaseTyped
  <2>4. o.kind = "keys" /\ o.locked = q.locked /\ o.new = q.new /\ o.seen = q.seen
    BY <2>2, <2>3 DEF KeysRecord
  <2> QED BY <2>1, <2>2, <2>4
<1>2. CASE SetKey(w)
  <2>0. PICK q \in OpsAt(w, "keys", "write") : \E k \in Missing(q.seen) :
           /\ vault' = [vault EXCEPT ![k] = Append(@, q.new)]
           /\ Move(w, [q EXCEPT !.pc = "read", !.seen = [q.seen EXCEPT ![k] = vault'[k]]])
    BY <1>2 DEF SetKey
  <2>1. PICK k \in Missing(q.seen) :
           /\ vault' = [vault EXCEPT ![k] = Append(@, q.new)]
           /\ Move(w, [q EXCEPT !.pc = "read", !.seen = [q.seen EXCEPT ![k] = vault'[k]]])
    BY <2>0
  <2>2. q \in KeysOperation /\ q \in Keyed(w) /\ q \in KeysRecord /\ k \in Keys
    BY OperationKinds DEF KeysOperation, Missing
  <2>3. o = [q EXCEPT !.pc = "read", !.seen = [q.seen EXCEPT ![k] = vault'[k]]]
    BY <2>1 DEF Move, DatabaseTyped
  <2>4. /\ o.kind = "keys" /\ o.locked = q.locked /\ o.new = q.new
        /\ o.seen = [q.seen EXCEPT ![k] = vault'[k]]
    BY <2>2, <2>3 DEF KeysRecord
  <2>5. vault'["salt"] = IF k = "salt" THEN Append(vault["salt"], q.new) ELSE vault["salt"]
    BY <2>1, <2>2, VaultSet
  <2>6. q.seen \in [Keys -> Seq(Nat \ {0})] /\ vault["salt"] \in Seq(Nat \ {0}) /\ q.new \in Nat \ {0}
    BY <2>2 DEF KeysRecord, Vaults, Keys, DatabaseTyped
  <2>7. CASE k = "salt"
    <3>1. o.seen["salt"] = vault'["salt"]
      BY <2>4, <2>6, <2>7 DEF Keys
    <3>2. vault'["salt"] = Append(vault["salt"], q.new)
      BY <2>5, <2>7
    <3>3. Len(vault'["salt"]) # 0
      BY <2>6, <3>2
    <3>4. vault'["salt"] # << >>
      BY <3>3
    <3> QED BY <2>2, <2>4, <3>1, <3>4
  <2>8. CASE k # "salt"
    <3>1. o.seen["salt"] = q.seen["salt"]
      BY <2>4, <2>6, <2>8 DEF Keys
    <3> QED BY <2>2, <2>4, <2>5, <2>8, <3>1
  <2> QED BY <2>7, <2>8
<1> QED BY <1>1, <1>2

LEMMA SessionLostMoves ==
    ASSUME DatabaseTyped, NEW w \in Operators, SessionLost(w), NEW o \in ops'[w]
    PROVE  \/ o.kind = "schema" /\ o.pc = "deploy"
           \/ /\ o.kind = "keys" /\ unlocked'
              /\ \E q \in Keyed(w) : o.new = q.new
<1>1. PICK q \in ops[w] : /\ q.kind = "keys" \/ (q.kind = "schema" /\ q.pc = "deploy")
                          /\ Move(w, [q EXCEPT !.locked = FALSE])
                          /\ unlocked' = (unlocked \/ q.kind = "keys")
  BY DEF SessionLost
<1>2. o = [q EXCEPT !.locked = FALSE] /\ q \in Operation
  BY <1>1 DEF Move, DatabaseTyped
<1>3. CASE q.kind = "keys"
  <2>1. q \in KeysRecord
    BY <1>2, <1>3, OperationOfKind DEF KeysOperation
  <2>2. o.kind = "keys" /\ o.new = q.new
    BY <1>2, <2>1 DEF KeysRecord
  <2> QED BY <1>1, <1>3, <2>2 DEF Keyed
<1>4. CASE q.kind = "schema" /\ q.pc = "deploy"
  <2>1. q \in SchemaOperation
    BY <1>2, <1>4, OperationOfKind
  <2> QED BY <1>2, <1>4, <2>1 DEF SchemaOperation
<1> QED BY <1>1, <1>3, <1>4

LEMMA SchemaStep ==
    ASSUME DatabaseTyped, SchemaKept, DatabaseNext, DatabaseTyped'
    PROVE  SchemaKept'
<1> DEFINE Stands(r) == db.n >= Last(r)
           Named == /\ \A p \in app' : Stands(p.rev)
                    /\ \A p \in pods' : Stands(p.rev)
                    /\ receipts'.schema # 0 => Stands(receipts'.schema)
<1>1. \A r \in Nat : Stands(r) => db'.n >= Last(r)
  BY SMTT(60), DatabaseGrows DEF Last, DatabaseTyped
\* a new receipt, application or Pod
<1>2. \/ UNCHANGED <<receipts, app, pods>> \/ Publish \/ PodStarts \/ PodStops
      \/ \E w \in Operators : SaveKeys(w) \/ SaveSchema(w)
  BY ZenonT(60) DEF DatabaseNext, CreateRoles, GrantRoles, StartKeys, ReadKeys, SetKey, StartSchema, Migrate, CreateViews,
         Revoke, VerifySchema, OperatorDies, SessionLost, Restore, PlanSchema, NewRevision, KeyLost, Resolved
<1>3. Named
  <2>1. CASE UNCHANGED <<receipts, app, pods>>
    BY <2>1 DEF SchemaKept
  <2>2. CASE Publish
    BY <2>2 DEF Publish, Publishable, SchemaKept, DatabaseTyped
  <2>3. CASE PodStarts \/ PodStops
    BY <2>3 DEF PodStarts, PodStops, SchemaKept
  <2>4. ASSUME NEW w \in Operators, SaveKeys(w) PROVE Named
    BY <2>4 DEF SaveKeys, SchemaKept, DatabaseTyped
  <2>5. ASSUME NEW w \in Operators, SaveSchema(w) PROVE Named
    BY <2>5 DEF SaveSchema, SchemaKept, DatabaseTyped
  <2> QED BY <1>2, <2>1, <2>2, <2>3, <2>4, <2>5
\* an operation before its receipt
<1>4. \A w \in Operators : \A o \in OpsAt(w, "schema", "save")' : Stands(o.rev)
  <2> SUFFICES ASSUME NEW w \in Operators, NEW o \in OpsAt(w, "schema", "save")'
               PROVE  Stands(o.rev)
    OBVIOUS
  <2>1. o \in ops'[w] /\ o.kind = "schema" /\ o.pc = "save"
    BY DEF OpsAt
  <2>2. CASE ops'[w] \subseteq ops[w]
    BY <2>1, <2>2 DEF OpsAt, SchemaKept
  <2>3. CASE VerifySchema(w)
    <3>1. PICK q \in OpsAt(w, "schema", "verify") :
             Verified(q) /\ Move(w, [q EXCEPT !.pc = "save", !.locked = FALSE])
      BY <2>3 DEF VerifySchema
    <3>2. q \in SchemaOperation
      BY OperationKinds
    <3>3. o = [q EXCEPT !.pc = "save", !.locked = FALSE]
      BY <2>1, <3>1 DEF Move, DatabaseTyped
    <3>4. o.rev = q.rev /\ q.rev \in Nat
      BY <3>2, <3>3 DEF SchemaOperation
    <3> QED BY <3>1, <3>4 DEF Verified, Last, DatabaseTyped
  <2>4. CASE CreateRoles(w) \/ StartKeys(w) \/ StartSchema(w)
    BY <2>1, <2>4 DEF CreateRoles, StartKeys, StartSchema, Start, DatabaseTyped
  <2>5. CASE ReadKeys(w) \/ SetKey(w) \/ SessionLost(w)
    <3>1. ReadKeys(w) \/ SetKey(w) => o.kind = "keys"
      BY <2>1, KeysOperationMoves
    <3>2. SessionLost(w) => o.kind = "keys" \/ o.pc = "deploy"
      BY <2>1, SessionLostMoves
    <3> QED BY <2>1, <2>5, <3>1, <3>2
  <2>6. CASE CreateViews(w) \/ Revoke(w)
    <3>1. PICK q \in OpsAt(w, "schema", "deploy") \cup OpsAt(w, "schema", "revoke") :
             o \in {[q EXCEPT !.pc = "revoke"], [q EXCEPT !.pc = "verify"]}
      BY <2>1, <2>6 DEF CreateViews, Revoke, Move, DatabaseTyped
    <3>2. q \in SchemaOperation
      BY OperationKinds
    <3> QED BY <2>1, <3>1, <3>2 DEF SchemaOperation
  <2> QED BY OperatorMoves, <2>2, <2>3, <2>4, <2>5, <2>6
<1>5. pods' # {} => ~rights'.history
  <2>1. CASE PodStarts
    BY <2>1 DEF PodStarts
  <2>2. CASE pods' \subseteq pods
    <3>1. pods # {} => Tables
      BY DEF SchemaKept, Tables, Last, Application, DatabaseTyped
    <3> QED BY <2>2, <3>1, DatabaseGrows DEF SchemaKept
  <2>3. PodStarts \/ pods' \subseteq pods
    BY <1>2 DEF Publish, PodStops, SaveKeys, SaveSchema
  <2> QED BY <2>1, <2>2, <2>3
<1>6. \A w \in Operators : \A o \in OpsAt(w, "schema", "save")' : o.rev \in Nat
  <2> SUFFICES ASSUME NEW w \in Operators, NEW o \in OpsAt(w, "schema", "save")'
               PROVE  o.rev \in Nat
    OBVIOUS
  <2>1. o \in Operation /\ o.kind = "schema"
    BY DEF OpsAt, DatabaseTyped
  <2> QED BY <2>1, OperationOfKind DEF SchemaOperation
<1> QED BY <1>1, <1>3, <1>4, <1>5, <1>6 DEF SchemaKept, DatabaseTyped, Application

-----------------------------------------------------------------------------
\* An operation on keys starts with what the Vault holds, or goes on.
LEMMA KeysOperationStep ==
    ASSUME DatabaseTyped, DatabaseNext, NEW w \in Operators, NEW o \in Keyed(w)'
    PROVE  \/ /\ StartKeys(w)
              /\ o.seen = vault /\ o.locked /\ o.new = Value
           \/ \E q \in Keyed(w) :
                /\ o.new = q.new
                /\ unlocked' \/ o.locked = q.locked
                /\ \/ unlocked'
                   \/ o.seen = q.seen /\ ~SetKey(w)
                   \/ o.seen["salt"] = << >> => q.seen["salt"] = << >> /\ vault'["salt"] = vault["salt"]
<1>1. o \in ops'[w] /\ o.kind = "keys"
  BY DEF Keyed
<1>2. CASE StartKeys(w)
  BY <1>1, <1>2 DEF StartKeys, Start, DatabaseTyped
<1>3. CASE ReadKeys(w) \/ SetKey(w)
  BY <1>1, <1>3, KeysOperationMoves
<1>4. CASE SessionLost(w)
  BY <1>1, <1>4, SessionLostMoves
<1>5. CASE CreateRoles(w) \/ StartSchema(w)
  BY SMTT(60), <1>1, <1>5 DEF CreateRoles, StartSchema, Start, DatabaseTyped
<1>6. CASE CreateViews(w) \/ Revoke(w) \/ VerifySchema(w)
  <2>1. \E q \in SchemaOperation : ops' = [ops EXCEPT ![w] = {q}]
    BY <1>6, OperationKinds, OperationsMoved DEF CreateViews, Revoke, VerifySchema, Move
  <2>2. o \in SchemaOperation
    BY <1>1, <2>1 DEF DatabaseTyped
  <2> QED BY <1>1, <2>2 DEF SchemaOperation
<1>7. CASE ops'[w] \subseteq ops[w] /\ ~SetKey(w)
  BY <1>1, <1>7 DEF Keyed
<1> QED BY <1>2, <1>3, <1>4, <1>5, <1>6, <1>7, OperatorMoves

\* The versions of the salt are those there were, none, or one more that an
\* operation made which saw none.
LEMMA SaltStep ==
    ASSUME DatabaseTyped, DatabaseNext
    PROVE  \/ vault'["salt"] = vault["salt"]
           \/ vault'["salt"] = << >>
           \/ \E w \in Operators : \E o \in Keyed(w) :
                /\ o.seen["salt"] = << >> /\ o.new \in Nat \ {0}
                /\ vault'["salt"] = Append(vault["salt"], o.new) /\ data' = data /\ pods' = pods
<1>1. vault' = vault \/ (\E w \in Operators : SetKey(w)) \/ \E k \in Keys : KeyLost(k)
  BY DEF DatabaseNext, CreateRoles, GrantRoles, StartKeys, ReadKeys, SaveKeys, StartSchema, Migrate,
         CreateViews, Revoke, VerifySchema, SaveSchema, OperatorDies, SessionLost, Restore, PlanSchema,
         Publish, PodStarts, PodStops, NewRevision, Resolved
<1>2. ASSUME NEW k \in Keys, KeyLost(k) PROVE vault'["salt"] \in {vault["salt"], << >>}
  BY <1>2 DEF KeyLost, DatabaseTyped, Vaults, Keys
<1>3. ASSUME NEW w \in Operators, SetKey(w), vault'["salt"] # vault["salt"]
      PROVE  \E o \in Keyed(w) :
                /\ o.seen["salt"] = << >> /\ o.new \in Nat \ {0}
                /\ vault'["salt"] = Append(vault["salt"], o.new) /\ data' = data /\ pods' = pods
  <2>1. PICK o \in OpsAt(w, "keys", "write") : \E k \in Missing(o.seen) :
           vault' = [vault EXCEPT ![k] = Append(@, o.new)]
    BY <1>3 DEF SetKey
  <2>2. PICK k \in Missing(o.seen) : vault' = [vault EXCEPT ![k] = Append(@, o.new)]
    BY <2>1
  <2>3. o \in KeysOperation /\ o \in Keyed(w) /\ k \in Keys /\ o.seen[k] = << >>
    BY <2>2, OperationKinds DEF Missing
  <2>4. k = "salt" /\ vault'["salt"] = Append(vault["salt"], o.new)
    BY <1>3, <2>2, <2>3, VaultSet
  <2>5. o.new \in Nat \ {0} /\ data' = data /\ pods' = pods
    BY <1>3, <2>3 DEF SetKey, KeysOperation, KeysRecord
  <2> QED BY <2>3, <2>4, <2>5
<1> QED BY SMTT(60), <1>1, <1>2, <1>3

\* A Pod is new only when it uses a version that is there.
LEMMA PodsStep ==
    ASSUME DatabaseTyped, DatabaseNext
    PROVE  \/ data' = data /\ pods' \subseteq pods
           \/ Restore
           \/ \E p \in app : /\ PodStarts /\ p.salt \in Versions("salt") /\ p.salt \in Nat \ {0}
                             /\ pods' = pods \cup {p} /\ vault' = vault
                             /\ data' = IF data = 0 THEN p.salt ELSE data
<1>1. (data' = data /\ pods' \subseteq pods) \/ Restore \/ PodStarts
  BY DEF DatabaseNext, CreateRoles, GrantRoles, StartKeys, ReadKeys, SetKey, SaveKeys, StartSchema, Migrate,
         CreateViews, Revoke, VerifySchema, SaveSchema, OperatorDies, SessionLost, PlanSchema, Publish,
         PodStops, NewRevision, KeyLost, Resolved
<1>2. CASE PodStarts
  <2>1. PICK p \in app : /\ p.salt \in Versions("salt") /\ pods' = pods \cup {p}
                         /\ data' = IF data = 0 THEN p.salt ELSE data
    BY <1>2 DEF PodStarts
  <2>2. vault["salt"] \in Seq(Nat \ {0})
    BY DEF DatabaseTyped, Vaults, Keys
  <2>3. p.salt \in Nat \ {0}
    BY <2>1, <2>2 DEF Versions
  <2> QED BY <1>2, <2>1, <2>3 DEF PodStarts
<1> QED BY SMTT(60), <1>1, <1>2

LEMMA ImportedStep ==
    ASSUME DatabaseTyped, SchemaKept, origin = "migration", KeysKept, DatabaseNext
    PROVE  ImportedKept'
<1>0. ImportedKept
  BY DEF KeysKept
<1>1. Versions("salt")' \subseteq {LegacyKey}
  <2>1. ASSUME NEW w \in Operators, NEW o \in Keyed(w), vault'["salt"] = Append(vault["salt"], o.new)
        PROVE  Versions("salt")' \subseteq {LegacyKey}
    <3>1. o.new = LegacyKey /\ vault["salt"] \in Seq(Nat \ {0})
      BY <1>0 DEF ImportedKept, DatabaseTyped, Vaults, Keys
    <3> QED BY SMTT(60), <1>0, <2>1, <3>1 DEF ImportedKept, Versions
  <2>2. vault'["salt"] = << >> => Versions("salt")' = {}
    BY DEF Versions
  <2>3. vault'["salt"] = vault["salt"] => Versions("salt")' = Versions("salt")
    BY DEF Versions
  <2> QED BY <1>0, <2>1, <2>2, <2>3, SaltStep DEF ImportedKept
<1>2. data' \in {0, LegacyKey} /\ \A p \in pods' : p.salt = LegacyKey
  <2>1. Restore => data' = LegacyKey /\ pods' = pods
    BY DEF Restore
  <2> QED BY <1>0, <2>1, PodsStep DEF ImportedKept
<1>3. \A w \in Operators : \A o \in Keyed(w)' : o.new = LegacyKey
  BY <1>0, KeysOperationStep, KeysStarted DEF ImportedKept
<1> QED BY <1>1, <1>2, <1>3 DEF ImportedKept

LEMMA GeneratedStep ==
    ASSUME DatabaseTyped, SchemaKept, origin = "greenfield", ~unlocked, KeysKept, DatabaseNext, ~unlocked'
    PROVE  GeneratedKept'
<1>0. GeneratedKept /\ (data = 0 => pods = {}) /\ ~Restore
  BY DEF KeysKept, Restore
<1>s. vault["salt"] \in Seq(Nat \ {0})
  BY DEF DatabaseTyped, Vaults, Keys
\* one operation on keys at a time
<1>1. ASSUME NEW v \in Operators, NEW w \in Operators, Keyed(v)' # {}, Keyed(w)' # {}
      PROVE  v = w
  <2>1. ASSUME NEW u \in Operators, Keyed(u)' # {}
        PROVE  Keyed(u) # {} \/ StartKeys(u)
    BY <2>1, KeysOperationStep
  <2>2. ASSUME NEW u \in Operators, NEW x \in Operators, StartKeys(u), Keyed(x) # {} PROVE FALSE
    <3>1. PICK q \in Keyed(x) : q.locked
      BY <1>0, <2>2 DEF GeneratedKept
    <3> QED BY <2>2, <3>1 DEF StartKeys, Start, Locked, Keyed
  <2>3. ASSUME NEW u \in Operators, NEW x \in Operators, StartKeys(u), u # x, Keyed(x)' # {}
        PROVE  FALSE
    <3>1. Keyed(x)' = Keyed(x)
      BY <2>3 DEF StartKeys, Start, Keyed, DatabaseTyped
    <3> QED BY <2>2, <2>3, <3>1
  <2> QED BY <1>0, <1>1, <2>1, <2>3 DEF GeneratedKept
\* what an operation that sees no salt knows
<1>2. ASSUME NEW w \in Operators, NEW o \in Keyed(w), o.seen["salt"] = << >>
      PROVE  vault["salt"] = << >> /\ data = 0 /\ data' = 0 /\ pods' = {}
  <2>1. vault["salt"] = << >> /\ data = 0 /\ pods = {}
    BY <1>0, <1>2 DEF GeneratedKept
  <2>2. Versions("salt") = {}
    BY <2>1 DEF Versions
  <2> QED BY <1>0, <2>1, <2>2, PodsStep
<1>3. Len(vault'["salt"]) <= 1 /\ (data' # 0 => Versions("salt")' \subseteq {data'})
  <2>1. CASE vault'["salt"] = << >>
    BY <2>1 DEF Versions
  <2>2. ASSUME NEW w \in Operators, NEW o \in Keyed(w), o.seen["salt"] = << >>,
               o.new \in Nat \ {0}, vault'["salt"] = Append(vault["salt"], o.new)
        PROVE  Len(vault'["salt"]) = 1 /\ data' = 0
    <3>1. vault["salt"] = << >> /\ data' = 0
      BY <1>2, <2>2
    <3> QED BY <2>2, <3>1
  <2>3. CASE vault'["salt"] = vault["salt"]
    <3>1. Versions("salt")' = Versions("salt") /\ Len(vault'["salt"]) <= 1
      BY <1>0, <2>3 DEF GeneratedKept, Versions
    <3>2. ASSUME NEW p \in Versions("salt") PROVE Versions("salt") = {p}
      BY <1>0, <1>s DEF GeneratedKept, Versions
    <3> QED BY <1>0, <3>1, <3>2, PodsStep DEF GeneratedKept
  <2> QED BY <2>1, <2>2, <2>3, SaltStep
<1>4. \A p \in pods' : p.salt = data'
  <2>1. ASSUME NEW p \in Versions("salt"), data # 0 PROVE p = data
    BY <1>0, <2>1 DEF GeneratedKept
  <2> QED BY <1>0, <2>1, PodsStep DEF GeneratedKept
<1>5. ASSUME NEW w \in Operators, NEW o \in Keyed(w)'
      PROVE  o.locked /\ (o.seen["salt"] = << >> => vault'["salt"] = << >> /\ data' = 0)
  <2>1. CASE StartKeys(w) /\ o.seen = vault /\ o.locked
    <3>1. vault' = vault /\ data' = data /\ SafeToCreate(vault)
      BY <2>1 DEF StartKeys
    <3>2. vault["salt"] = << >> => "salt" \in Missing(vault)
      BY DEF Missing, Keys
    <3> QED BY <2>1, <3>1, <3>2 DEF SafeToCreate, Tables, KeysKept, DatabaseTyped
  <2>2. ASSUME NEW q \in Keyed(w), o.locked = q.locked,
               o.seen["salt"] = << >> => q.seen["salt"] = << >> /\ vault'["salt"] = vault["salt"]
        PROVE  o.locked /\ (o.seen["salt"] = << >> => vault'["salt"] = << >> /\ data' = 0)
    BY <1>0, <1>2, <2>2 DEF GeneratedKept
  <2>3. ASSUME NEW q \in Keyed(w), o.locked = q.locked, o.seen = q.seen, ~SetKey(w)
        PROVE  o.locked /\ (o.seen["salt"] = << >> => vault'["salt"] = << >> /\ data' = 0)
    <3>1. vault' = vault \/ (\E k \in Keys : KeyLost(k)) \/ \E v \in Operators : SetKey(v)
      BY ZenonT(60) DEF DatabaseNext, CreateRoles, GrantRoles, StartKeys, ReadKeys, SaveKeys, StartSchema, Migrate,
             CreateViews, Revoke, VerifySchema, SaveSchema, OperatorDies, SessionLost, Restore, PlanSchema,
             Publish, PodStarts, PodStops, NewRevision, Resolved
    <3>2. ASSUME NEW v \in Operators, SetKey(v) PROVE FALSE
      <4>1. Keyed(v) # {}
        BY <3>2, OperationKinds DEF SetKey
      <4> QED BY <1>0, <2>3, <3>2, <4>1 DEF GeneratedKept
    <3>3. ASSUME NEW k \in Keys, KeyLost(k) PROVE vault'["salt"] \in {vault["salt"], << >>}
      BY <3>3 DEF KeyLost, DatabaseTyped, Vaults, Keys
    <3> QED BY SMTT(60), <1>0, <1>2, <2>3, <3>1, <3>2, <3>3 DEF GeneratedKept
  <2> QED BY <2>1, <2>2, <2>3, KeysOperationStep
<1> QED BY <1>1, <1>3, <1>4, <1>5 DEF GeneratedKept

LEMMA KeysStep ==
    ASSUME DatabaseTyped, SchemaKept, KeysKept, DatabaseNext, DatabaseTyped'
    PROVE  KeysKept'
<1>1. origin' = origin
  BY ZenonT(60) DEF DatabaseNext, CreateRoles, GrantRoles, StartKeys, ReadKeys, SetKey, SaveKeys, StartSchema, Migrate,
         CreateViews, Revoke, VerifySchema, SaveSchema, OperatorDies, SessionLost, Restore, PlanSchema,
         Publish, PodStarts, PodStops, NewRevision, KeyLost, Resolved
<1>u. unlocked => unlocked'
  <2>1. unlocked' = unlocked \/ \E w \in Operators : SessionLost(w)
    BY DEF DatabaseNext, CreateRoles, GrantRoles, StartKeys, ReadKeys, SetKey, SaveKeys, StartSchema, Migrate,
           CreateViews, Revoke, VerifySchema, SaveSchema, OperatorDies, Restore, PlanSchema,
           Publish, PodStarts, PodStops, NewRevision, KeyLost, Resolved
  <2> QED BY <2>1 DEF SessionLost
<1>2. data' = 0 => pods' = {}
  BY PodsStep DEF KeysKept, Restore, LegacyKey
<1>3. data' # 0 => db'.n > 0
  <2>1. data # 0 => db'.n > 0
    BY DatabaseGrows DEF KeysKept, DatabaseTyped
  <2>2. Restore => db'.n > 0
    BY DEF Restore, Restored
  <2>3. PodStarts => db'.n > 0
    BY DEF PodStarts, Tables, DatabaseTyped
  <2> QED BY <2>1, <2>2, <2>3, PodsStep
<1> QED BY <1>1, <1>u, <1>2, <1>3, ImportedStep, GeneratedStep DEF KeysKept, DatabaseTyped

LEMMA DatabaseInvariantHolds == DatabaseSpec => []DatabaseInvariant
<1>1. DatabaseInvariant /\ [DatabaseNext]_stageFive => DatabaseInvariant'
  <2> SUFFICES ASSUME DatabaseInvariant, [DatabaseNext]_stageFive PROVE DatabaseInvariant'
    OBVIOUS
  <2>1. CASE DatabaseNext
    BY <2>1, DatabaseTypeStep, SchemaStep, KeysStep DEF DatabaseInvariant
  <2>2. CASE UNCHANGED stageFive
    BY ZenonT(60), <2>2 DEF stageFive, DatabaseInvariant, DatabaseTyped, SchemaKept, OpsAt,
                KeysKept, ImportedKept, GeneratedKept, Keyed, Versions
  <2> QED BY <2>1, <2>2
<1> QED BY <1>1, DatabaseStarts, PTL DEF DatabaseSpec

\* A Pod serves on a database with every migration of its revision, and as a
\* role that cannot write the migration history.
THEOREM PodsServeMigrated == DatabaseSpec => []PodsServe
<1>1. DatabaseInvariant => PodsServe
  BY DEF DatabaseInvariant, SchemaKept, PodsServe
<1> QED BY <1>1, DatabaseInvariantHolds, PTL

\* The key of the stored data is never replaced by another one: by keys that
\* are created, imported, lost or set by an operation that was broken off.  An
\* imported key is kept even by operations that lost their lock; a generated one
\* as long as none did (runtime_secrets.py:112-114 writes whatever it saw).
THEOREM DataStayReadable == DatabaseSpec => []KeysFitData
<1>1. DatabaseInvariant => KeysFitData
  BY DEF DatabaseInvariant, DatabaseTyped, KeysKept, ImportedKept, GeneratedKept, KeysFitData, KeyFits
<1> QED BY <1>1, DatabaseInvariantHolds, PTL
=============================================================================
