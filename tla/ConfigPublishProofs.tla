------------------------- MODULE ConfigPublishProofs -------------------------
(***************************************************************************)
(* Proofs about ConfigPublish for any number of overlapping runs, settings,  *)
(* accounts, rollbacks and foreign edits.  A plan is bound to a version of   *)
(* the Deployment; as versions only grow, a plan either describes the live   *)
(* Deployment exactly or can never be used again.                            *)
(***************************************************************************)
EXTENDS ConfigPublish, TLAPS

\* Where a run has a plan, where the plan was approved, where nothing was
\* patched yet, and where an attempt must be on record.
Publishing == {"infra", "recheck", "fresh", "patch", "patched", "rollout",
               "effective", "installed", "install", "done"}
Planned    == {"planned", "written"} \cup Publishing
Before     == {"read", "planned", "written", "infra", "recheck", "fresh", "patch"}
Recorded   == {"fresh", "patch", "patched"}

Statuses == {"none", "planning", "planned", "executing", "failed", "completed"}

Shapes ==
    /\ live \in [cm : maps, rv : Nat, spec : Nat]
    /\ DOMAIN run = Runs
    /\ \A o \in Runs : /\ DOMAIN run[o] = {"pc", "op", "plan", "approved", "todo"}
                       /\ run[o].pc \in {"idle", "read"} \cup Planned
    /\ rec \in [Runs -> [status : Statuses, attempted : BOOLEAN, patched : BOOLEAN]]

\* A plan whose version is the live one describes the live Deployment.
Based(p) ==
    /\ p.base.rv \in Nat /\ p.base.rv <= live.rv /\ p.base.cm \in maps
    /\ p.base.rv = live.rv => p.base.cm = live.cm /\ p.base.spec = live.spec

RunOK(o) ==
    /\ run[o].pc \in Planned => \E p \in run[o].plan : run[o].plan = {p} /\ Based(p)
    /\ run[o].pc \in Publishing => run[o].plan \subseteq reviewed
    /\ run[o].approved \subseteq reviewed
    /\ run[o].pc = "patch" => \A p \in run[o].plan : p.cm \in maps
    /\ run[o].pc \in Recorded => rec[o].attempted /\ rec[o].status = "executing"
    /\ run[o].pc \in Before => o \notin did
    /\ o \in did => rec[o].attempted /\ rec[o].status \notin {"planning", "planned"}

FilesOK == \A e \in files : e.from \in maps

SpentOK ==
    /\ spent \in Seq(reviewed)
    /\ \A i \in 1..Len(spent) : spent[i].base.rv \in Nat /\ spent[i].base.rv < live.rv

IInv ==
    /\ Shapes
    /\ \A o \in Runs : RunOK(o)
    /\ did \subseteq Runs
    /\ FilesOK /\ SpentOK /\ ApprovalUsedOnce

\* What every step does to what plans and approvals refer to.
Grow ==
    /\ maps \subseteq maps' /\ reviewed \subseteq reviewed'
    /\ live' = live \/ (live'.rv \in Nat /\ live'.rv > live.rv)

-----------------------------------------------------------------------------
(* Growing preserves what is known of plans. *)

LEMMA BasedGrows ==
  ASSUME NEW p, Based(p), live.rv \in Nat, Grow
  PROVE  Based(p)'
  BY DEF Based, Grow

LEMMA PlansGrow ==
  ASSUME NEW o, live.rv \in Nat, Grow, run'[o].plan = run[o].plan,
         \E p \in run[o].plan : run[o].plan = {p} /\ Based(p)
  PROVE  \E p \in run'[o].plan : run'[o].plan = {p} /\ Based(p)'
  BY BasedGrows

LEMMA OthersKept ==
  ASSUME NEW q, RunOK(q), live.rv \in Nat, Grow,
         run'[q] = run[q], rec'[q] = rec[q], q \in did' <=> q \in did
  PROVE  RunOK(q)'
<1>1. run[q].pc \in Planned => \E p \in run'[q].plan : run'[q].plan = {p} /\ Based(p)'
  BY PlansGrow DEF RunOK
<1>2. run[q].pc \in Publishing => run'[q].plan \subseteq reviewed'
  BY DEF RunOK, Grow
<1>3. run'[q].approved \subseteq reviewed'
  BY DEF RunOK, Grow
<1>4. run[q].pc = "patch" => \A p \in run'[q].plan : p.cm \in maps'
  BY DEF RunOK, Grow
<1>. QED  BY <1>1, <1>2, <1>3, <1>4 DEF RunOK

LEMMA SeqGrows ==
  ASSUME NEW S, NEW T, S \subseteq T, NEW s \in Seq(S)
  PROVE  s \in Seq(T)
  OBVIOUS

LEMMA SpentKept ==
  ASSUME SpentOK, ApprovalUsedOnce, live.rv \in Nat, Grow, spent' = spent
  PROVE  SpentOK' /\ ApprovalUsedOnce'
<1>1. spent \in Seq(reviewed')
  BY SeqGrows DEF SpentOK, Grow
<1>2. \A i \in 1..Len(spent) : spent[i].base.rv \in Nat /\ spent[i].base.rv < live'.rv
  BY DEF SpentOK, Grow
<1>. QED  BY <1>1, <1>2 DEF SpentOK, ApprovalUsedOnce

\* A step of one run: what the others are left with, and the rest.
LEMMA OneRun ==
  ASSUME IInv, NEW o \in Runs, Grow, Shapes', RunOK(o)', FilesOK',
         \A q \in Runs \ {o} : run'[q] = run[q] /\ rec'[q] = rec[q] /\ (q \in did' <=> q \in did),
         did' \subseteq Runs, SpentOK' /\ ApprovalUsedOnce'
  PROVE  IInv'
<1>1. live.rv \in Nat  BY DEF IInv, Shapes
<1>2. \A q \in Runs \ {o} : RunOK(q)'
  BY <1>1, OthersKept DEF IInv
<1>. QED  BY <1>2 DEF IInv

LEMMA ThePlan ==
  ASSUME NEW o, NEW p, run[o].plan = {p}
  PROVE  Plan(o) = p
  BY DEF Plan

-----------------------------------------------------------------------------
LEMMA InitIInv == Init => IInv
<1> SUFFICES ASSUME Init PROVE IInv  OBVIOUS
<1>1. Shapes
  <2>1. live \in [cm : maps, rv : Nat, spec : Nat]
    BY DEF Init
  <2>2. rec \in [Runs -> [status : Statuses, attempted : BOOLEAN, patched : BOOLEAN]]
    <3>1. NewRec \in [status : Statuses, attempted : BOOLEAN, patched : BOOLEAN]
      BY DEF NewRec, Statuses
    <3>. QED  BY <3>1 DEF Init
  <2>3. DOMAIN run = Runs
    BY DEF Init
  <2>4. \A o \in Runs : /\ DOMAIN run[o] = {"pc", "op", "plan", "approved", "todo"}
                        /\ run[o].pc = "idle"
    BY DEF Init, Idle
  <2>. QED  BY <2>1, <2>2, <2>3, <2>4 DEF Shapes
<1>2. \A o \in Runs : RunOK(o)
  BY DEF Init, RunOK, Idle, Planned, Publishing, Before, Recorded
<1>3. FilesOK /\ SpentOK /\ ApprovalUsedOnce /\ did \subseteq Runs
  BY DEF Init, FilesOK, SpentOK, ApprovalUsedOnce
<1>. QED  BY <1>1, <1>2, <1>3 DEF IInv

-----------------------------------------------------------------------------
(* The steps of a run, grouped by what they touch. *)

\* A step that moves run o on to pc and leaves plan, approval, cluster versions,
\* records of others and histories alone.
Moves(o, pc) ==
    /\ run' = [run EXCEPT ![o].pc = pc]
    /\ UNCHANGED <<live, rec, did, spent, files, reviewed>>
    /\ maps \subseteq maps'

LEMMA MovesShapes ==
  ASSUME Shapes, NEW o \in Runs, NEW pc \in {"idle", "read"} \cup Planned, Moves(o, pc)
  PROVE  /\ Shapes' /\ Grow
         /\ run'[o] = [run[o] EXCEPT !.pc = pc] /\ run'[o].pc = pc
         /\ run'[o].plan = run[o].plan /\ run'[o].approved = run[o].approved
         /\ \A q \in Runs \ {o} : run'[q] = run[q]
<1>1. live' \in [cm : maps', rv : Nat, spec : Nat]
  BY DEF Shapes, Moves
<1>2. /\ DOMAIN run' = Runs
      /\ run'[o] = [run[o] EXCEPT !.pc = pc]
      /\ \A q \in Runs \ {o} : run'[q] = run[q]
  BY DEF Shapes, Moves
<1>3. /\ run'[o].pc = pc /\ run'[o].plan = run[o].plan /\ run'[o].approved = run[o].approved
      /\ DOMAIN run'[o] = {"pc", "op", "plan", "approved", "todo"}
  BY <1>2 DEF Shapes
<1>4. \A q \in Runs : /\ DOMAIN run'[q] = {"pc", "op", "plan", "approved", "todo"}
                      /\ run'[q].pc \in {"idle", "read"} \cup Planned
  BY <1>2, <1>3 DEF Shapes
<1>5. rec' \in [Runs -> [status : Statuses, attempted : BOOLEAN, patched : BOOLEAN]]
  BY DEF Shapes, Moves
<1>6. Shapes'
  BY <1>1, <1>2, <1>4, <1>5 DEF Shapes
<1>7. Grow
  BY DEF Grow, Moves
<1>. QED  BY <1>2, <1>3, <1>6, <1>7

\* From a step that publishes to the next one.
LEMMA MovesIInv ==
  ASSUME IInv, NEW o \in Runs, NEW pc \in Publishing, Moves(o, pc),
         run[o].pc \in Publishing,
         pc = "patch" => \A p \in run[o].plan : p.cm \in maps',
         pc \in Recorded => run[o].pc \in Recorded,
         pc \in Before => run[o].pc \in Before
  PROVE  IInv'
<1>1. RunOK(o) /\ Shapes /\ live.rv \in Nat
  BY DEF IInv, Shapes
<1>2. /\ Shapes' /\ Grow
      /\ run'[o].pc = pc
      /\ run'[o].plan = run[o].plan /\ run'[o].approved = run[o].approved
      /\ \A q \in Runs \ {o} : run'[q] = run[q]
  BY <1>1, MovesShapes DEF Planned
<1>3. \E p \in run'[o].plan : run'[o].plan = {p} /\ Based(p)'
  BY <1>1, <1>2, PlansGrow DEF RunOK, Planned
<1>4. RunOK(o)'
  <2>1. run'[o].plan \subseteq reviewed' /\ run'[o].approved \subseteq reviewed'
    BY <1>1, <1>2 DEF RunOK, Moves
  <2>2. pc \in Recorded => rec'[o].attempted /\ rec'[o].status = "executing"
    BY <1>1 DEF RunOK, Moves
  <2>3. pc \in Before => o \notin did'
    BY <1>1 DEF RunOK, Moves
  <2>4. o \in did' => rec'[o].attempted /\ rec'[o].status \notin {"planning", "planned"}
    BY <1>1 DEF RunOK, Moves
  <2>. QED  BY <1>2, <1>3, <2>1, <2>2, <2>3, <2>4 DEF RunOK
<1>5. SpentOK' /\ ApprovalUsedOnce'
  BY <1>1, <1>2, SpentKept DEF IInv, Moves
<1>6. FilesOK' /\ did' \subseteq Runs
  BY DEF IInv, FilesOK, Moves
<1>. QED  BY <1>2, <1>4, <1>5, <1>6, OneRun DEF Moves
\* The steps that only move on.
LEMMA QuietIInv ==
  ASSUME IInv, NEW o \in Runs,
         \/ VerifyInfrastructure(o) \/ CreateConfigMap(o) \/ VerifyRollout(o)
         \/ EffectiveChecks(o) \/ InstalledBaseline(o) \/ Install(o)
  PROVE  IInv'
<1>1. RunOK(o)  BY DEF IInv
<1>2. CASE VerifyInfrastructure(o)
  <2>1. Moves(o, "recheck") /\ run[o].pc = "infra"
    BY <1>2 DEF VerifyInfrastructure, At, Goto, Moves, cluster, books, history
  <2>. QED  BY <2>1, MovesIInv DEF Publishing, Recorded, Before
<1>3. CASE CreateConfigMap(o)
  <2>1. Moves(o, "patch") /\ run[o].pc = "fresh" /\ Plan(o).cm \in maps'
    BY <1>3 DEF CreateConfigMap, At, Goto, Moves, books, history
  <2>2. \A p \in run[o].plan : p.cm \in maps'
    BY <1>1, <2>1, ThePlan DEF RunOK, Planned, Publishing
  <2>. QED  BY <2>1, <2>2, MovesIInv DEF Publishing, Recorded, Before
<1>4. CASE VerifyRollout(o)
  <2>1. /\ Moves(o, "effective") \/ Moves(o, "install")
        /\ run[o].pc = "rollout"
    BY <1>4 DEF VerifyRollout, At, Goto, Moves, cluster, books, history
  <2>. QED  BY <2>1, MovesIInv DEF Publishing, Recorded, Before
<1>5. CASE EffectiveChecks(o)
  <2>1. Moves(o, "installed") /\ run[o].pc = "effective"
    BY <1>5 DEF EffectiveChecks, At, Goto, Moves, cluster, books, history
  <2>. QED  BY <2>1, MovesIInv DEF Publishing, Recorded, Before
<1>6. CASE InstalledBaseline(o)
  <2>1. Moves(o, "install") /\ run[o].pc = "installed"
    BY <1>6 DEF InstalledBaseline, At, Goto, Moves, cluster, books, history
  <2>. QED  BY <2>1, MovesIInv DEF Publishing, Recorded, Before
<1>7. CASE Install(o)
  <2>1. Moves(o, "done") /\ run[o].pc = "install"
    BY <1>7 DEF Install, At, Goto, Moves, cluster, books
  <2>. QED  BY <2>1, MovesIInv DEF Publishing, Recorded, Before
<1>. QED  BY <1>2, <1>3, <1>4, <1>5, <1>6, <1>7

-----------------------------------------------------------------------------
(* Replacing a run, and changing its record. *)

LEMMA RunSet ==
  ASSUME Shapes, NEW o \in Runs, NEW r, run' = [run EXCEPT ![o] = r],
         DOMAIN r = {"pc", "op", "plan", "approved", "todo"},
         r.pc \in {"idle", "read"} \cup Planned
  PROVE  /\ run'[o] = r /\ DOMAIN run' = Runs
         /\ \A q \in Runs \ {o} : run'[q] = run[q]
         /\ \A q \in Runs : /\ DOMAIN run'[q] = {"pc", "op", "plan", "approved", "todo"}
                            /\ run'[q].pc \in {"idle", "read"} \cup Planned
  BY DEF Shapes

LEMMA StatusSet ==
  ASSUME Shapes, NEW o \in Runs, NEW s \in Statuses, rec' = [rec EXCEPT ![o].status = s]
  PROVE  /\ rec' \in [Runs -> [status : Statuses, attempted : BOOLEAN, patched : BOOLEAN]]
         /\ rec'[o].status = s /\ rec'[o].attempted = rec[o].attempted
         /\ \A q \in Runs \ {o} : rec'[q] = rec[q]
  BY DEF Shapes

\* Steps after which the run is over and that patch nothing.
Ends(o) ==
    /\ run' = [run EXCEPT ![o] = Idle]
    /\ \/ rec' = rec
       \/ \E s \in {"failed", "completed"} : rec' = [rec EXCEPT ![o].status = s]
       \/ o \notin did /\ rec' = [rec EXCEPT ![o].status = "planned"]
    /\ UNCHANGED <<live, maps, did, spent, files>>
    /\ reviewed \subseteq reviewed'

LEMMA EndsIInv ==
  ASSUME IInv, NEW o \in Runs, Ends(o)
  PROVE  IInv'
<1>1. RunOK(o) /\ Shapes /\ live.rv \in Nat
  BY DEF IInv, Shapes
<1>2. DOMAIN Idle = {"pc", "op", "plan", "approved", "todo"} /\ Idle.pc = "idle" /\ Idle.approved = {}
  BY DEF Idle
<1>3. /\ run'[o] = Idle /\ DOMAIN run' = Runs
      /\ \A q \in Runs \ {o} : run'[q] = run[q]
      /\ \A q \in Runs : /\ DOMAIN run'[q] = {"pc", "op", "plan", "approved", "todo"}
                         /\ run'[q].pc \in {"idle", "read"} \cup Planned
  <2>1. run' = [run EXCEPT ![o] = Idle]  BY DEF Ends
  <2>. QED  BY <1>1, <1>2, <2>1, RunSet
<1>4. /\ rec' \in [Runs -> [status : Statuses, attempted : BOOLEAN, patched : BOOLEAN]]
      /\ \A q \in Runs \ {o} : rec'[q] = rec[q]
      /\ o \in did => rec'[o].attempted /\ rec'[o].status \notin {"planning", "planned"}
  <2>1. CASE rec' = rec
    BY <1>1, <2>1 DEF Shapes, RunOK
  <2>2. ASSUME NEW s \in {"failed", "completed"}, rec' = [rec EXCEPT ![o].status = s]
        PROVE  <1>4!1 /\ <1>4!2 /\ <1>4!3
    <3>1. s \in Statuses  BY DEF Statuses
    <3>. QED  BY <1>1, <2>2, <3>1, StatusSet DEF RunOK
  <2>3. CASE o \notin did /\ rec' = [rec EXCEPT ![o].status = "planned"]
    <3>1. "planned" \in Statuses  BY DEF Statuses
    <3>. QED  BY <1>1, <2>3, <3>1, StatusSet
  <2>. QED  BY <2>1, <2>2, <2>3 DEF Ends
<1>5. Shapes' /\ Grow
  BY <1>1, <1>3, <1>4 DEF Shapes, Grow, Ends
<1>6. RunOK(o)'
  BY <1>2, <1>3, <1>4 DEF RunOK, Planned, Publishing, Before, Recorded, Ends
<1>7. SpentOK' /\ ApprovalUsedOnce'
  BY <1>1, <1>5, SpentKept DEF IInv, Ends
<1>8. FilesOK' /\ did' \subseteq Runs
  BY DEF IInv, FilesOK, Ends
<1>. QED  BY <1>3, <1>4, <1>5, <1>6, <1>7, <1>8, OneRun DEF Ends

LEMMA OverIInv ==
  ASSUME IInv, NEW o \in Runs, SavePlan(o) \/ Complete(o) \/ Fail(o) \/ Kill(o)
  PROVE  IInv'
<1>1. CASE SavePlan(o)
  <2>1. run[o].pc \in {"planned", "written"}
    BY <1>1 DEF SavePlan, At
  <2>2. o \notin did
    BY <2>1 DEF IInv, RunOK, Before
  <2>3. Ends(o)
    BY <1>1, <2>2 DEF SavePlan, Ends, cluster, history
  <2>. QED  BY <2>3, EndsIInv
<1>2. CASE Complete(o)
  <2>1. Ends(o)
    BY <1>2 DEF Complete, Ends, cluster, books
  <2>. QED  BY <2>1, EndsIInv
<1>3. CASE Fail(o)
  <2>1. Ends(o)
    BY <1>3 DEF Fail, Ends, cluster, books, history
  <2>. QED  BY <2>1, EndsIInv
<1>4. CASE Kill(o)
  <2>1. Ends(o)
    BY <1>4 DEF Kill, Ends, cluster, books, history
  <2>. QED  BY <2>1, EndsIInv
<1>. QED  BY <1>1, <1>2, <1>3, <1>4
-----------------------------------------------------------------------------
(* Steps of a run that leave cluster versions and patches alone. *)

LEMMA Replaced ==
  ASSUME IInv, NEW o \in Runs, NEW r, run' = [run EXCEPT ![o] = r],
         DOMAIN r = {"pc", "op", "plan", "approved", "todo"},
         r.pc \in {"idle", "read"} \cup Planned,
         rec' \in [Runs -> [status : Statuses, attempted : BOOLEAN, patched : BOOLEAN]],
         \A q \in Runs \ {o} : rec'[q] = rec[q] /\ (q \in did' <=> q \in did),
         did' \subseteq did, FilesOK', RunOK(o)',
         UNCHANGED <<live, maps, spent, reviewed>>
  PROVE  IInv'
<1>1. Shapes /\ live.rv \in Nat
  BY DEF IInv, Shapes
<1>2. /\ DOMAIN run' = Runs
      /\ \A q \in Runs \ {o} : run'[q] = run[q]
      /\ \A q \in Runs : /\ DOMAIN run'[q] = {"pc", "op", "plan", "approved", "todo"}
                         /\ run'[q].pc \in {"idle", "read"} \cup Planned
  BY <1>1, RunSet
<1>3. Shapes' /\ Grow
  BY <1>1, <1>2 DEF Shapes, Grow
<1>4. SpentOK' /\ ApprovalUsedOnce'
  BY <1>1, <1>3, SpentKept DEF IInv
<1>5. did' \subseteq Runs
  BY DEF IInv
<1>. QED  BY <1>2, <1>3, <1>4, <1>5, OneRun

LEMMA StartIInv ==
  ASSUME IInv, NEW o \in Runs, NEW kind \in Kinds, NEW op \in {"plan", "execute"}, Start(o, kind, op)
  PROVE  IInv'
<1>1. PICK want \in Wants(kind), a \in IF op = "plan" THEN {{}} ELSE {{p} : p \in Approvals(kind)} :
        run' = [run EXCEPT ![o] = [Idle EXCEPT !.pc = "read", !.op = op, !.approved = a,
                  !.plan = {[kind |-> kind, file |-> conf, want |-> want]}]]
  BY DEF Start
<1> DEFINE r == [Idle EXCEPT !.pc = "read", !.op = op, !.approved = a,
                   !.plan = {[kind |-> kind, file |-> conf, want |-> want]}]
<1>2. DOMAIN r = {"pc", "op", "plan", "approved", "todo"} /\ r.pc = "read" /\ r.approved = a
  BY DEF Idle
<1>3. a \subseteq reviewed
  BY DEF Approvals
<1>4. rec' \in [Runs -> [status : Statuses, attempted : BOOLEAN, patched : BOOLEAN]]
  <2>1. [NewRec EXCEPT !.status = "planning"] \in [status : Statuses, attempted : BOOLEAN, patched : BOOLEAN]
    BY DEF NewRec, Statuses
  <2>. QED  BY <2>1 DEF IInv, Shapes, Start
<1>5. /\ \A q \in Runs \ {o} : rec'[q] = rec[q] /\ (q \in did' <=> q \in did)
      /\ did' \subseteq did /\ o \notin did' /\ FilesOK'
      /\ UNCHANGED <<live, maps, spent, reviewed>>
  BY DEF IInv, Shapes, FilesOK, Start, cluster, books
<1>6. run'[o] = r
  BY <1>1 DEF IInv, Shapes
<1>7. RunOK(o)'
  BY <1>2, <1>3, <1>5, <1>6 DEF RunOK, Planned, Publishing, Before, Recorded
<1> HIDE DEF r
<1>8. run' = [run EXCEPT ![o] = r]  BY <1>1 DEF r
<1>. QED  BY <1>2, <1>4, <1>5, <1>7, <1>8, Replaced

\* A new plan is based on the cluster as it is.
LEMMA PrepareIInv ==
  ASSUME IInv, NEW o \in Runs, Prepare(o)
  PROVE  IInv'
<1>1. PICK i \in run[o].plan :
        run' = [run EXCEPT ![o].pc = "planned",
                           ![o].plan = {PlanOf(i.kind, i.file, i.want, Missing(i.want.mod))}]
  BY DEF Prepare
<1>2. PICK p : p = PlanOf(i.kind, i.file, i.want, Missing(i.want.mod))
  OBVIOUS
<1>3. p.base.cm = live.cm /\ p.base.rv = live.rv /\ p.base.spec = live.spec
  BY <1>2 DEF PlanOf, Baseline, DeploymentVersion
<1>4. UNCHANGED <<live, maps, rec, did, files, reviewed, spent>> /\ run[o].pc = "read"
  BY DEF Prepare, At, cluster, books, history
<1>5. Based(p)'
  BY <1>3, <1>4 DEF IInv, Shapes, Based
<1>6. PICK r : r = [run[o] EXCEPT !.pc = "planned", !.plan = {p}]
  OBVIOUS
<1>7. /\ DOMAIN r = {"pc", "op", "plan", "approved", "todo"}
      /\ r.pc = "planned" /\ r.plan = {p} /\ r.approved = run[o].approved
      /\ run' = [run EXCEPT ![o] = r] /\ run'[o] = r
  BY <1>1, <1>2, <1>6 DEF IInv, Shapes
<1>8. RunOK(o)'
  BY <1>4, <1>5, <1>7 DEF IInv, RunOK, Planned, Publishing, Before, Recorded
<1>9. r.pc \in {"idle", "read"} \cup Planned
  BY <1>7 DEF Planned
<1>10. FilesOK'
  BY <1>4 DEF IInv, FilesOK
<1>11. rec' \in [Runs -> [status : Statuses, attempted : BOOLEAN, patched : BOOLEAN]]
  BY <1>4 DEF IInv, Shapes
<1>. QED  BY <1>4, <1>7, <1>8, <1>9, <1>10, <1>11, Replaced

LEMMA WritePlanIInv ==
  ASSUME IInv, NEW o \in Runs, WritePlan(o)
  PROVE  IInv'
<1>1. Moves(o, "written") /\ run[o].pc = "planned"
  BY DEF WritePlan, At, Goto, Moves, cluster, history
<1>2. RunOK(o) /\ Shapes /\ live.rv \in Nat
  BY DEF IInv, Shapes
<1>3. /\ Shapes' /\ Grow
      /\ run'[o].pc = "written" /\ run'[o].plan = run[o].plan /\ run'[o].approved = run[o].approved
      /\ \A q \in Runs \ {o} : run'[q] = run[q]
  BY <1>1, <1>2, MovesShapes DEF Planned
<1>4. \E p \in run'[o].plan : run'[o].plan = {p} /\ Based(p)'
  BY <1>1, <1>2, <1>3, PlansGrow DEF RunOK, Planned
<1>5. RunOK(o)'
  BY <1>1, <1>2, <1>3, <1>4 DEF RunOK, Moves, Planned, Publishing, Before, Recorded
<1>6. SpentOK' /\ ApprovalUsedOnce'
  BY <1>1, <1>2, <1>3, SpentKept DEF IInv, Moves
<1>7. FilesOK' /\ did' \subseteq Runs
  BY <1>1 DEF IInv, FilesOK, Moves
<1>. QED  BY <1>1, <1>3, <1>5, <1>6, <1>7, OneRun DEF Moves
LEMMA AcceptIInv ==
  ASSUME IInv, NEW o \in Runs, Accept(o)
  PROVE  IInv'
<1>1. run[o].pc = "planned" /\ run[o].approved = run[o].plan
  BY DEF Accept, At
<1>2. PICK r : r = [run[o] EXCEPT !.pc = IF Plan(o).kind = "settings" THEN "recheck" ELSE "infra",
                                  !.todo = Plan(o).missing]
  OBVIOUS
<1>3. /\ DOMAIN r = {"pc", "op", "plan", "approved", "todo"}
      /\ r.pc \in {"recheck", "infra"} /\ r.plan = run[o].plan /\ r.approved = run[o].plan
      /\ run' = [run EXCEPT ![o] = r] /\ run'[o] = r
  BY <1>1, <1>2 DEF IInv, Shapes, Accept
<1>4. UNCHANGED <<live, maps, did, reviewed, spent>>
  BY DEF Accept, cluster, history
<1>5. PICK p \in run[o].plan : run[o].plan = {p} /\ Based(p)
  BY <1>1 DEF IInv, RunOK, Planned
<1>6. FilesOK'
  <2>1. files' = files \cup {Evidence(o)}
    BY DEF Accept
  <2>2. Evidence(o).from = p.base.cm
    BY <1>5, ThePlan DEF Evidence
  <2>. QED  BY <1>4, <1>5, <2>1, <2>2 DEF IInv, FilesOK, Based
<1>7. /\ rec' \in [Runs -> [status : Statuses, attempted : BOOLEAN, patched : BOOLEAN]]
      /\ \A q \in Runs \ {o} : rec'[q] = rec[q]
  <2>1. PICK s \in Statuses : rec' = [rec EXCEPT ![o].status = s]
    BY DEF Accept, IInv, Shapes, Statuses
  <2>. QED  BY <2>1, StatusSet DEF IInv
<1>8. Based(p)'
  BY <1>4, <1>5 DEF Based
<1>9. RunOK(o)'
  BY <1>1, <1>3, <1>4, <1>5, <1>8 DEF IInv, RunOK, Planned, Publishing, Before, Recorded
<1>10. r.pc \in {"idle", "read"} \cup Planned
  BY <1>3 DEF Planned, Publishing
<1>. QED  BY <1>3, <1>4, <1>6, <1>7, <1>9, <1>10, Replaced

LEMMA DeployIInv ==
  ASSUME IInv, NEW o \in Runs, NEW a, Deploy(o, a)
  PROVE  IInv'
<1>1. run[o].pc = "infra" /\ UNCHANGED <<live, maps, rec, did, files, reviewed, spent>>
  BY DEF Deploy, At, books, history
<1>2. PICK r : r = [run[o] EXCEPT !.todo = @ \ {a}]
  OBVIOUS
<1>3. /\ DOMAIN r = {"pc", "op", "plan", "approved", "todo"}
      /\ r.pc = "infra" /\ r.plan = run[o].plan /\ r.approved = run[o].approved
      /\ run' = [run EXCEPT ![o] = r] /\ run'[o] = r
  BY <1>1, <1>2 DEF IInv, Shapes, Deploy
<1>4. PICK p \in run[o].plan : run[o].plan = {p} /\ Based(p)
  BY <1>1 DEF IInv, RunOK, Planned, Publishing
<1>5. Based(p)'
  BY <1>1, <1>4 DEF Based
<1>6. RunOK(o)'
  BY <1>1, <1>3, <1>4, <1>5 DEF IInv, RunOK, Planned, Publishing, Before, Recorded
<1>7. r.pc \in {"idle", "read"} \cup Planned
  BY <1>3 DEF Planned, Publishing
<1>8. FilesOK' /\ rec' \in [Runs -> [status : Statuses, attempted : BOOLEAN, patched : BOOLEAN]]
  BY <1>1 DEF IInv, FilesOK, Shapes
<1>. QED  BY <1>1, <1>3, <1>6, <1>7, <1>8, Replaced
LEMMA RecheckIInv ==
  ASSUME IInv, NEW o \in Runs, Recheck(o)
  PROVE  IInv'
<1>1. run[o].pc = "recheck" /\ UNCHANGED <<live, maps, did, files, reviewed, spent>>
  BY DEF Recheck, At, cluster, books, history
<1>2. PICK c \in BOOLEAN : c = Changed(o)
  BY DEF Changed
<1>3. PICK r : r = [run[o] EXCEPT !.pc = IF c THEN "fresh" ELSE "rollout"]
  OBVIOUS
<1>4. /\ DOMAIN r = {"pc", "op", "plan", "approved", "todo"}
      /\ r.pc = (IF c THEN "fresh" ELSE "rollout")
      /\ r.plan = run[o].plan /\ r.approved = run[o].approved
      /\ run' = [run EXCEPT ![o] = r] /\ run'[o] = r
  BY <1>1, <1>2, <1>3 DEF IInv, Shapes, Recheck, Goto
<1>5. PICK p \in run[o].plan : run[o].plan = {p} /\ Based(p)
  BY <1>1 DEF IInv, RunOK, Planned, Publishing
<1>6. Based(p)'
  BY <1>1, <1>5 DEF Based
<1>7. /\ rec' \in [Runs -> [status : Statuses, attempted : BOOLEAN, patched : BOOLEAN]]
      /\ rec'[o].status = "executing" /\ rec'[o].attempted = c
      /\ \A q \in Runs \ {o} : rec'[q] = rec[q]
  <2>1. rec' = [rec EXCEPT ![o].status = "executing", ![o].attempted = c]
    BY <1>2 DEF Recheck
  <2>2. "executing" \in Statuses
    BY DEF Statuses
  <2>. QED  BY <2>1, <2>2 DEF IInv, Shapes
<1>8. o \notin did
  BY <1>1 DEF IInv, RunOK, Before
<1>9. RunOK(o)'
  BY <1>1, <1>4, <1>5, <1>6, <1>7, <1>8 DEF IInv, RunOK, Planned, Publishing, Before, Recorded
<1>10. r.pc \in {"idle", "read"} \cup Planned
  BY <1>4 DEF Planned, Publishing
<1>11. FilesOK'
  BY <1>1 DEF IInv, FilesOK
<1>. QED  BY <1>1, <1>4, <1>7, <1>9, <1>10, <1>11, Replaced

LEMMA RecordPatchedIInv ==
  ASSUME IInv, NEW o \in Runs, RecordPatched(o)
  PROVE  IInv'
<1>1. run[o].pc = "patched" /\ UNCHANGED <<live, maps, did, files, reviewed, spent>>
  BY DEF RecordPatched, At, cluster, books, history
<1>2. PICK r : r = [run[o] EXCEPT !.pc = "rollout"]
  OBVIOUS
<1>3. /\ DOMAIN r = {"pc", "op", "plan", "approved", "todo"}
      /\ r.pc = "rollout" /\ r.plan = run[o].plan /\ r.approved = run[o].approved
      /\ run' = [run EXCEPT ![o] = r] /\ run'[o] = r
  BY <1>1, <1>2 DEF IInv, Shapes, RecordPatched, Goto
<1>4. PICK p \in run[o].plan : run[o].plan = {p} /\ Based(p)
  BY <1>1 DEF IInv, RunOK, Planned, Publishing
<1>5. Based(p)'
  BY <1>1, <1>4 DEF Based
<1>6. /\ rec' \in [Runs -> [status : Statuses, attempted : BOOLEAN, patched : BOOLEAN]]
      /\ rec'[o].status = rec[o].status /\ rec'[o].attempted = rec[o].attempted
      /\ \A q \in Runs \ {o} : rec'[q] = rec[q]
  BY DEF IInv, Shapes, RecordPatched
<1>7. RunOK(o)'
  BY <1>1, <1>3, <1>4, <1>5, <1>6 DEF IInv, RunOK, Planned, Publishing, Before, Recorded
<1>8. r.pc \in {"idle", "read"} \cup Planned
  BY <1>3 DEF Planned, Publishing
<1>9. FilesOK'
  BY <1>1 DEF IInv, FilesOK
<1>. QED  BY <1>1, <1>3, <1>6, <1>7, <1>8, <1>9, Replaced

-----------------------------------------------------------------------------
(* The patch: the version grows, the plan joins those that are used up. *)

\* What the JSON patch does, whether or not its answer arrives.
LEMMA PatchEffect ==
  ASSUME IInv, NEW o \in Runs, run[o].pc = "patch", Patch(o)
  PROVE  \E p \in run[o].plan :
           /\ p = Plan(o) /\ run[o].plan = {p} /\ Based(p) /\ Based(p)'
           /\ p \in reviewed /\ p.base.rv = live.rv
           /\ live' \in [cm : maps', rv : Nat, spec : Nat]
           /\ live'.rv = live.rv + 1 /\ live'.cm = p.cm /\ live'.spec = live.spec
           /\ Grow /\ did' = did \cup {o} /\ FilesOK' /\ reviewed' = reviewed
           /\ spent' = Append(spent, p) /\ SpentOK' /\ ApprovalUsedOnce'
<1>1. RunOK(o) /\ Shapes /\ FilesOK /\ SpentOK /\ ApprovalUsedOnce
  BY DEF IInv
<1>2. PICK p \in run[o].plan : run[o].plan = {p} /\ Based(p)
  BY <1>1 DEF RunOK, Planned, Publishing
<1>3. p = Plan(o)
  BY <1>2, ThePlan
<1>4. p.cm \in maps /\ p \in reviewed
  BY <1>1 DEF RunOK, Publishing
<1>5. p.base.rv = live.rv
  BY <1>3 DEF Patch, DeploymentVersion
<1>6. UNCHANGED <<maps, files, reviewed>> /\ did' = did \cup {o} /\ spent' = Append(spent, p)
  BY <1>3 DEF Patch, books
<1>7. /\ live' \in [cm : maps', rv : Nat, spec : Nat]
      /\ live'.rv = live.rv + 1 /\ live'.cm = p.cm /\ live'.spec = live.spec
  <2>1. live' = [live EXCEPT !.cm = p.cm, !.rv = live.rv + 1]
    BY <1>3 DEF Patch
  <2>2. live \in [cm : maps, rv : Nat, spec : Nat] /\ p.cm \in maps /\ live.rv + 1 \in Nat
    BY <1>1, <1>4 DEF Shapes
  <2>3. maps' = maps
    BY <1>6
  <2>. QED  BY <2>1, <2>2, <2>3
<1>8. live.rv \in Nat /\ Grow
  BY <1>1, <1>6, <1>7 DEF Shapes, Grow
<1>9. Based(p)'
  BY <1>2, <1>8, BasedGrows
<1>10. Len(spent) \in Nat /\ spent \in Seq(reviewed)
  BY <1>1 DEF SpentOK
<1>11. /\ spent' \in Seq(reviewed) /\ Len(spent') = Len(spent) + 1
       /\ spent'[Len(spent) + 1] = p
       /\ \A i \in 1..Len(spent) : spent'[i] = spent[i]
  BY <1>4, <1>6, <1>10
<1>12. SpentOK'
  <2>1. \A i \in 1..Len(spent') : i \in 1..Len(spent) \/ i = Len(spent) + 1
    BY <1>10, <1>11
  <2>2. \A i \in 1..Len(spent) : spent'[i].base.rv \in Nat /\ spent'[i].base.rv < live'.rv
    BY <1>1, <1>7, <1>8, <1>11 DEF SpentOK
  <2>3. p.base.rv \in Nat /\ p.base.rv < live'.rv
    BY <1>5, <1>7, <1>8
  <2>. QED  BY <1>6, <1>11, <2>1, <2>2, <2>3 DEF SpentOK
<1>13. ApprovalUsedOnce'
  <2>1. \A i \in 1..Len(spent') : i \in 1..Len(spent) \/ i = Len(spent) + 1
    BY <1>10, <1>11
  <2>2. \A i \in 1..Len(spent) : spent[i] # p
    BY <1>1, <1>5, <1>8 DEF SpentOK
  <2>3. \A i, j \in 1..Len(spent) : spent'[i] = spent'[j] => i = j
    BY <1>1, <1>11 DEF ApprovalUsedOnce
  <2>. QED  BY <1>11, <2>1, <2>2, <2>3 DEF ApprovalUsedOnce
<1>14. FilesOK'
  BY <1>1, <1>6 DEF FilesOK
<1>. QED  BY <1>2, <1>3, <1>4, <1>5, <1>6, <1>7, <1>8, <1>9, <1>12, <1>13, <1>14
LEMMA PatchDeploymentIInv ==
  ASSUME IInv, NEW o \in Runs, PatchDeployment(o)
  PROVE  IInv'
<1>1. run[o].pc = "patch" /\ Patch(o) /\ rec' = rec
  BY DEF PatchDeployment, At
<1>2. PICK p \in run[o].plan :
           /\ run[o].plan = {p} /\ Based(p)' /\ p \in reviewed
           /\ live' \in [cm : maps', rv : Nat, spec : Nat]
           /\ Grow /\ did' = did \cup {o} /\ FilesOK' /\ reviewed' = reviewed
           /\ SpentOK' /\ ApprovalUsedOnce'
  BY <1>1, PatchEffect
<1>3. PICK r : r = [run[o] EXCEPT !.pc = "patched"]
  OBVIOUS
<1>4. /\ DOMAIN r = {"pc", "op", "plan", "approved", "todo"}
      /\ r.pc = "patched" /\ r.plan = run[o].plan /\ r.approved = run[o].approved
      /\ run' = [run EXCEPT ![o] = r] /\ run'[o] = r
  BY <1>3 DEF IInv, Shapes, PatchDeployment, Goto
<1>5. r.pc \in {"idle", "read"} \cup Planned
  BY <1>4 DEF Planned, Publishing
<1>6. /\ DOMAIN run' = Runs
      /\ \A q \in Runs \ {o} : run'[q] = run[q]
      /\ \A q \in Runs : /\ DOMAIN run'[q] = {"pc", "op", "plan", "approved", "todo"}
                         /\ run'[q].pc \in {"idle", "read"} \cup Planned
  BY <1>4, <1>5, RunSet DEF IInv
<1>7. Shapes'
  BY <1>1, <1>2, <1>6 DEF IInv, Shapes
<1>8. rec'[o].attempted /\ rec'[o].status = "executing"
  BY <1>1 DEF IInv, RunOK, Recorded
<1>9. RunOK(o)'
  BY <1>1, <1>2, <1>4, <1>8 DEF IInv, RunOK, Planned, Publishing, Before, Recorded
<1>10. did' \subseteq Runs
  BY <1>2 DEF IInv
<1>. QED  BY <1>1, <1>2, <1>6, <1>7, <1>9, <1>10, OneRun

LEMMA PatchAnswerLostIInv ==
  ASSUME IInv, NEW o \in Runs, PatchAnswerLost(o)
  PROVE  IInv'
<1>1. /\ run[o].pc = "patch" /\ Patch(o)
      /\ run' = [run EXCEPT ![o] = Idle] /\ rec' = [rec EXCEPT ![o].status = "failed"]
  BY DEF PatchAnswerLost, At
<1>2. PICK p \in run[o].plan :
           /\ live' \in [cm : maps', rv : Nat, spec : Nat]
           /\ Grow /\ did' = did \cup {o} /\ FilesOK' /\ reviewed' = reviewed
           /\ SpentOK' /\ ApprovalUsedOnce'
  BY <1>1, PatchEffect
<1>3. /\ DOMAIN Idle = {"pc", "op", "plan", "approved", "todo"}
      /\ Idle.pc = "idle" /\ Idle.approved = {}
  BY DEF Idle
<1>4. /\ run'[o] = Idle /\ DOMAIN run' = Runs
      /\ \A q \in Runs \ {o} : run'[q] = run[q]
      /\ \A q \in Runs : /\ DOMAIN run'[q] = {"pc", "op", "plan", "approved", "todo"}
                         /\ run'[q].pc \in {"idle", "read"} \cup Planned
  BY <1>1, <1>3, RunSet DEF IInv
<1>5. /\ rec' \in [Runs -> [status : Statuses, attempted : BOOLEAN, patched : BOOLEAN]]
      /\ rec'[o].status = "failed" /\ rec'[o].attempted = rec[o].attempted
      /\ \A q \in Runs \ {o} : rec'[q] = rec[q]
  <2>1. "failed" \in Statuses  BY DEF Statuses
  <2>. QED  BY <1>1, <2>1, StatusSet DEF IInv
<1>6. Shapes'
  BY <1>2, <1>4, <1>5 DEF Shapes
<1>7. rec[o].attempted
  BY <1>1 DEF IInv, RunOK, Recorded
<1>8. RunOK(o)'
  BY <1>3, <1>4, <1>5, <1>7 DEF RunOK, Planned, Publishing, Before, Recorded
<1>9. did' \subseteq Runs
  BY <1>2 DEF IInv
<1>. QED  BY <1>2, <1>4, <1>5, <1>6, <1>8, <1>9, OneRun

-----------------------------------------------------------------------------
(* Everything else: no run takes part. *)

LEMMA NoRun ==
  ASSUME IInv, UNCHANGED <<run, rec, did, spent, reviewed, maps, files>>,
         live' \in [cm : maps, rv : Nat, spec : Nat],
         live' = live \/ live'.rv > live.rv
  PROVE  IInv'
<1>1. Shapes' /\ Grow /\ live.rv \in Nat
  BY DEF IInv, Shapes, Grow
<1>2. \A q \in Runs : RunOK(q)'
  BY <1>1, OthersKept DEF IInv
<1>3. SpentOK' /\ ApprovalUsedOnce'
  BY <1>1, SpentKept DEF IInv
<1>. QED  BY <1>1, <1>2, <1>3 DEF IInv, FilesOK

LEMMA Versions ==
  ASSUME NEW S, NEW l \in [cm : S, rv : Nat, spec : Nat]
  PROVE  /\ [l EXCEPT !.rv = @ + 1] \in [cm : S, rv : Nat, spec : Nat]
         /\ [l EXCEPT !.rv = @ + 1, !.spec = @ + 1] \in [cm : S, rv : Nat, spec : Nat]
         /\ \A c \in S : [l EXCEPT !.cm = c, !.rv = @ + 1] \in [cm : S, rv : Nat, spec : Nat]
         /\ [l EXCEPT !.rv = @ + 1].rv > l.rv
         /\ [l EXCEPT !.rv = @ + 1, !.spec = @ + 1].rv > l.rv
         /\ \A c \in S : [l EXCEPT !.cm = c, !.rv = @ + 1].rv > l.rv
<1>1. l.cm \in S /\ l.rv \in Nat /\ l.spec \in Nat
  OBVIOUS
<1>2. l.rv + 1 \in Nat /\ l.spec + 1 \in Nat /\ l.rv + 1 > l.rv
  BY <1>1
<1>3. [l EXCEPT !.rv = @ + 1] \in [cm : S, rv : Nat, spec : Nat]
  BY <1>1, <1>2
<1>4. [l EXCEPT !.rv = @ + 1, !.spec = @ + 1] \in [cm : S, rv : Nat, spec : Nat]
  BY <1>1, <1>2
<1>5. [l EXCEPT !.rv = @ + 1].rv = l.rv + 1
  OBVIOUS
<1>6. [l EXCEPT !.rv = @ + 1, !.spec = @ + 1].rv = l.rv + 1
  OBVIOUS
<1>7. \A c \in S : [l EXCEPT !.cm = c, !.rv = @ + 1] \in [cm : S, rv : Nat, spec : Nat]
  BY <1>1, <1>2
<1>8. \A c \in S : [l EXCEPT !.cm = c, !.rv = @ + 1].rv = l.rv + 1
  OBVIOUS
<1>. QED  BY <1>2, <1>3, <1>4, <1>5, <1>6, <1>7, <1>8

LEMMA ClusterIInv ==
  ASSUME IInv, RollOut \/ ForeignEdit \/ Recover
  PROVE  IInv'
<1>1. live \in [cm : maps, rv : Nat, spec : Nat]
  BY DEF IInv, Shapes
<1>2. CASE RollOut
  <2>1. live' = [live EXCEPT !.rv = @ + 1]
    BY <1>2 DEF RollOut
  <2>2. live' \in [cm : maps, rv : Nat, spec : Nat] /\ live'.rv > live.rv
    BY <1>1, <2>1, Versions
  <2>. QED  BY <1>2, <2>2, NoRun DEF RollOut, books, history
<1>3. CASE ForeignEdit
  <2>1. live' = live \/ live' = [live EXCEPT !.rv = @ + 1, !.spec = @ + 1]
    BY <1>3 DEF ForeignEdit
  <2>2. live' \in [cm : maps, rv : Nat, spec : Nat] /\ (live' = live \/ live'.rv > live.rv)
    BY <1>1, <2>1, Versions
  <2>. QED  BY <1>3, <2>2, NoRun DEF ForeignEdit, books, history
<1>4. CASE Recover
  <2>1. PICK e \in files : RollBack(e) \/ InstallDesired(e)
    BY <1>4 DEF Recover
  <2>2. CASE RollBack(e)
    <3>1. live' = [live EXCEPT !.cm = e.from, !.rv = @ + 1] /\ e.from \in maps
      BY <2>2 DEF RollBack, IInv, FilesOK
    <3>2. live' \in [cm : maps, rv : Nat, spec : Nat] /\ live'.rv > live.rv
      BY <1>1, <3>1, Versions
    <3>. QED  BY <2>2, <3>2, NoRun DEF RollBack, books
  <2>3. CASE InstallDesired(e)
    BY <1>1, <2>3, NoRun DEF InstallDesired, cluster, books
  <2>. QED  BY <2>1, <2>2, <2>3
<1>. QED  BY <1>2, <1>3, <1>4

LEMMA StepIInv ==
  ASSUME IInv, NEW o \in Runs, Step(o)
  PROVE  IInv'
  BY PrepareIInv, WritePlanIInv, AcceptIInv, DeployIInv, RecheckIInv, PatchDeploymentIInv,
     RecordPatchedIInv, QuietIInv, OverIInv
  DEF Step

LEMMA NextIInv == IInv /\ [Next]_vars => IInv'
<1> SUFFICES ASSUME IInv, [Next]_vars PROVE IInv'  OBVIOUS
<1>1. ASSUME NEW o \in Runs, NEW k \in Kinds, NEW op \in {"plan", "execute"}, Start(o, k, op)
      PROVE  IInv'
  BY <1>1, StartIInv
<1>2. ASSUME NEW o \in Runs, Step(o) \/ PatchAnswerLost(o) \/ Fail(o) \/ Kill(o)
      PROVE  IInv'
  BY <1>2, StepIInv, PatchAnswerLostIInv, OverIInv
<1>3. CASE RollOut \/ ForeignEdit \/ Recover
  BY <1>3, ClusterIInv
<1>4. CASE UNCHANGED vars
  <2>1. UNCHANGED <<live, run, rec, did, spent, reviewed, maps, files>>
    BY <1>4 DEF vars, cluster, books, history
  <2>. QED  BY <2>1, NoRun DEF IInv, Shapes
<1>. QED  BY <1>1, <1>2, <1>3, <1>4 DEF Next

\* Every reachable state satisfies the inductive invariant.
LEMMA Invariance == Spec => []IInv
  BY InitIInv, NextIInv, PTL DEF Spec

-----------------------------------------------------------------------------
\* An approval patches at most once, rollbacks included.
THEOREM OnceCorrect == Spec => []ApprovalUsedOnce
<1>1. IInv => ApprovalUsedOnce  BY DEF IInv
<1>. QED  BY <1>1, Invariance, PTL

\* state.json never denies a patch that took effect.
THEOREM RecordCorrect == Spec => []RecordNeverDenies
<1>1. IInv => RecordNeverDenies  BY DEF IInv, RunOK, RecordNeverDenies
<1>. QED  BY <1>1, Invariance, PTL

-----------------------------------------------------------------------------
(* A patch takes effect only as it was reviewed. *)

\* Appending is the only way the history of patches changes.
Approved ==
    spent' # spent =>
       LET p == spent'[Len(spent')]
       IN /\ p \in reviewed
          /\ live.cm = p.base.cm /\ live.rv = p.base.rv /\ live.spec = p.base.spec
          /\ live'.cm = p.cm /\ live'.spec = live.spec

LEMMA PatchIsApproved ==
  ASSUME IInv, NEW o \in Runs, run[o].pc = "patch", Patch(o)
  PROVE  Approved
<1>1. PICK p \in run[o].plan :
           /\ Based(p) /\ p \in reviewed /\ p.base.rv = live.rv
           /\ live'.cm = p.cm /\ live'.spec = live.spec
           /\ spent' = Append(spent, p)
  BY PatchEffect
<1>2. spent \in Seq(reviewed) /\ p \in reviewed
  BY <1>1 DEF IInv, SpentOK
<1>3. spent'[Len(spent')] = p
  BY <1>1, <1>2
<1>. QED  BY <1>1, <1>3 DEF Approved, Based

LEMMA OnlyPatchesSpend ==
  ASSUME [Next]_vars, spent' # spent
  PROVE  \E o \in Runs : run[o].pc = "patch" /\ Patch(o)
<1>1. ~UNCHANGED vars  BY DEF vars, history
<1>2. PICK o \in Runs :
        \/ \E k \in Kinds, op \in {"plan", "execute"} : Start(o, k, op)
        \/ Step(o) \/ PatchAnswerLost(o) \/ Fail(o) \/ Kill(o)
  <2>1. ~RollOut /\ ~ForeignEdit
    BY SMTT(60) DEF RollOut, ForeignEdit, history
  <2>2. ~Recover
    BY DEF Recover, RollBack, InstallDesired
  <2>. QED  BY <1>1, <2>1, <2>2 DEF Next
<1>3. ~\E k \in Kinds, op \in {"plan", "execute"} : Start(o, k, op)
  BY DEF Start
<1>4. ~Fail(o) /\ ~Kill(o)
  BY DEF Fail, Kill, history
<1>5. Step(o) => PatchDeployment(o)
  <2>1. ~Prepare(o) /\ ~WritePlan(o) /\ ~SavePlan(o) /\ ~Accept(o)
    BY DEF Prepare, WritePlan, SavePlan, Accept, history
  <2>2. ~\E a \in Accounts : Deploy(o, a)
    BY DEF Deploy, history
  <2>3. ~VerifyInfrastructure(o) /\ ~Recheck(o) /\ ~CreateConfigMap(o) /\ ~RecordPatched(o)
    BY DEF VerifyInfrastructure, Recheck, CreateConfigMap, RecordPatched, history
  <2>4. ~VerifyRollout(o) /\ ~EffectiveChecks(o) /\ ~InstalledBaseline(o) /\ ~Install(o) /\ ~Complete(o)
    BY DEF VerifyRollout, EffectiveChecks, InstalledBaseline, Install, Complete, history
  <2>. QED  BY <2>1, <2>2, <2>3, <2>4 DEF Step
<1>6. PatchDeployment(o) \/ PatchAnswerLost(o)
  BY <1>2, <1>3, <1>4, <1>5
<1>. QED  BY <1>6 DEF PatchDeployment, PatchAnswerLost, At

\* Whatever overlaps, a patch that takes effect is one reviewed plan on exactly
\* the Deployment that was reviewed.
THEOREM ApprovedCorrect == Spec => PatchAsApproved
<1>1. IInv /\ [Next]_vars => Approved
  BY OnlyPatchesSpend, PatchIsApproved DEF Approved
<1>2. Approved <=> (spent' # spent =>
         LET p == spent'[Len(spent')]
         IN /\ p \in reviewed
            /\ live.cm = p.base.cm /\ live.rv = p.base.rv /\ live.spec = p.base.spec
            /\ live'.cm = p.cm /\ live'.spec = live.spec)
  BY DEF Approved
<1>. QED  BY <1>1, <1>2, Invariance, PTL DEF Spec, PatchAsApproved
-----------------------------------------------------------------------------
(* What the Deployment names can be mounted and reached.  A model list is     *)
(* published only after its prerequisites were read again, a settings change  *)
(* and a rollback publish a list that was live before, and no prerequisite is *)
(* ever taken away.                                                           *)

CmLike(c)   == c = [set |-> c.set, mod |-> c.mod]
FileLike(f) == f = [set |-> f.set, mod |-> f.mod, rest |-> f.rest]

\* The prerequisites of the new list have been verified.
Verifiable == {"recheck", "fresh", "patch", "patched", "rollout",
               "effective", "installed", "install", "done"}

PlanReaches(p) ==
    /\ CmLike(p.base.cm) /\ p.base.cm.mod \subseteq infra
    /\ CmLike(p.cm) /\ FileLike(p.doc)
    /\ p.cm.mod \subseteq infra \cup p.want.mod
    /\ p.kind = "settings" => p.cm.mod \subseteq infra

RunReaches(o) ==
    /\ run[o].pc = "read" => \A i \in run[o].plan : FileLike(i.file)
    /\ run[o].pc \in Planned => \A p \in run[o].plan : PlanReaches(p)
    /\ run[o].pc \in Verifiable => \A p \in run[o].plan : p.cm.mod \subseteq infra

Reaches ==
    /\ CmLike(live.cm) /\ live.cm.mod \subseteq infra
    /\ FileLike(conf)
    /\ \A e \in files : CmLike(e.from) /\ e.from.mod \subseteq infra
    /\ \A o \in Runs : RunReaches(o)

LEMMA RunKept ==
  ASSUME NEW o, RunReaches(o), infra \subseteq infra', run'[o] = run[o]
  PROVE  RunReaches(o)'
  BY DEF RunReaches, PlanReaches

\* A run that moves on, to a place where no more is known of its plan than before.
LEMMA RunMoved ==
  ASSUME NEW o, RunReaches(o), infra \subseteq infra', run'[o].plan = run[o].plan,
         run[o].pc \in Planned,
         run'[o].pc \in Verifiable => run[o].pc \in Verifiable
                 \/ \A p \in run[o].plan : p.cm.mod \subseteq infra',
         run'[o].pc # "read"
  PROVE  RunReaches(o)'
  BY DEF RunReaches, PlanReaches

LEMMA PlansReach ==
  ASSUME NEW kind, NEW file, NEW want, FileLike(file), Reconciled(file),
         CmLike(live.cm), live.cm.mod \subseteq infra, NEW missing
  PROVE  PlanReaches(PlanOf(kind, file, want, missing))
<1>. DEFINE p == PlanOf(kind, file, want, missing)
<1>1. p.base.cm = live.cm /\ p.cm = Payload(kind, file, want, live.cm) /\ p.doc = Desired(kind, file, want)
      /\ p.want = want /\ p.kind = kind
  BY DEF PlanOf, Baseline
<1>2. CASE kind = "settings"
  <2>1. p.cm = [live.cm EXCEPT !.set = want.set] /\ p.doc = [file EXCEPT !.set = want.set]
    BY <1>1, <1>2 DEF Payload, Desired
  <2>2. p.cm = [set |-> want.set, mod |-> live.cm.mod]
    BY <2>1 DEF CmLike
  <2>3. p.doc = [set |-> want.set, mod |-> file.mod, rest |-> file.rest]
    BY <2>1 DEF FileLike
  <2>. QED  BY <1>1, <2>2, <2>3 DEF PlanReaches, CmLike, FileLike
<1>3. CASE kind # "settings"
  <2>. DEFINE list == IF want.merge THEN file.mod \cup want.mod ELSE want.mod
  <2>1. p.doc = [file EXCEPT !.mod = list]
    BY <1>1, <1>3 DEF Desired
  <2>2. p.doc = [set |-> file.set, mod |-> list, rest |-> file.rest]
    BY <2>1 DEF FileLike
  <2>3. p.cm = [live.cm EXCEPT !.mod = list]
    BY <1>1, <1>3, <2>2 DEF Payload
  <2>4. p.cm = [set |-> live.cm.set, mod |-> list]
    BY <2>3 DEF CmLike
  <2>5. file.mod \subseteq infra
    BY DEF Reconciled
  <2>6. CmLike(p.cm) /\ FileLike(p.doc) /\ p.cm.mod = list
    BY <2>2, <2>4 DEF CmLike, FileLike
  <2>7. p.cm.mod \subseteq infra \cup p.want.mod
    BY <1>1, <2>5, <2>6
  <2>8. p.kind # "settings"
    BY <1>1, <1>3
  <2>9. CmLike(p.base.cm) /\ p.base.cm.mod \subseteq infra
    BY <1>1
  <2>. QED  BY <2>6, <2>7, <2>8, <2>9 DEF PlanReaches
<1>. QED  BY <1>2, <1>3

LEMMA ReachesInit == Init => Reaches
<1>. SUFFICES ASSUME Init PROVE Reaches  OBVIOUS
<1>1. CmLike(live.cm) /\ FileLike(conf) /\ live.cm.mod \subseteq infra /\ files = {}
  <2>1. PICK s \in Settings, a \in Accounts, known \in BOOLEAN :
          /\ live = [cm |-> [set |-> s, mod |-> {a}], rv |-> 1, spec |-> 0]
          /\ conf = [set |-> IF known THEN s ELSE "unset", mod |-> {a}, rest |-> 0]
    BY DEF Init
  <2>2. live.cm = [set |-> s, mod |-> {a}]
    BY <2>1
  <2>3. CmLike(live.cm)
    BY <2>2 DEF CmLike
  <2>4. FileLike(conf)
    BY <2>1 DEF FileLike
  <2>. QED  BY <2>3, <2>4 DEF Init
<1>2. \A o \in Runs : run[o].pc = "idle"
  BY DEF Init, Idle
<1>. QED  BY <1>1, <1>2 DEF Reaches, RunReaches, Planned, Publishing, Verifiable

\* A run goes on and changes nothing but itself, and prerequisites only for the better.
LEMMA ReachesRun ==
  ASSUME Reaches, NEW o \in Runs, NEW r, run' = [run EXCEPT ![o] = r], DOMAIN run = Runs,
         UNCHANGED live, FileLike(conf)', infra \subseteq infra',
         \A e \in files' \ files : CmLike(e.from) /\ e.from.mod \subseteq infra,
         RunReaches(o)'
  PROVE  Reaches'
<1>1. \A q \in Runs \ {o} : RunReaches(q)'
  BY RunKept DEF Reaches
<1>. QED  BY <1>1 DEF Reaches

LEMMA RunField ==
  ASSUME Shapes, NEW o \in Runs
  PROVE  /\ DOMAIN run = Runs
         /\ \A pc : /\ [run[o] EXCEPT !.pc = pc].pc = pc
                    /\ [run[o] EXCEPT !.pc = pc].plan = run[o].plan
         /\ \A pc, t : /\ [run[o] EXCEPT !.pc = pc, !.todo = t].pc = pc
                       /\ [run[o] EXCEPT !.pc = pc, !.todo = t].plan = run[o].plan
         /\ \A t : /\ [run[o] EXCEPT !.todo = t].pc = run[o].pc
                   /\ [run[o] EXCEPT !.todo = t].plan = run[o].plan
         /\ \A pc, p : /\ [run[o] EXCEPT !.pc = pc, !.plan = p].pc = pc
                       /\ [run[o] EXCEPT !.pc = pc, !.plan = p].plan = p
  BY DEF Shapes

\* Steps of a run that leave the Deployment alone.
LEMMA ReachesQuiet ==
  ASSUME IInv, Reaches, NEW o \in Runs,
         \/ WritePlan(o) \/ SavePlan(o) \/ \E a \in Accounts : Deploy(o, a)
         \/ Recheck(o) \/ CreateConfigMap(o) \/ RecordPatched(o) \/ VerifyRollout(o)
         \/ EffectiveChecks(o) \/ InstalledBaseline(o) \/ Complete(o) \/ Fail(o) \/ Kill(o)
  PROVE  Reaches'
<1>1. Shapes /\ RunReaches(o) /\ FileLike(conf) /\ DOMAIN run = Runs
  BY DEF IInv, Shapes, Reaches
<1>2. ASSUME UNCHANGED <<live, conf>>, infra \subseteq infra', files' = files,
             NEW r, run' = [run EXCEPT ![o] = r],
             \/ r.pc = "idle"
             \/ /\ r.plan = run[o].plan /\ run[o].pc \in Planned /\ r.pc # "read"
                /\ r.pc \in Verifiable => run[o].pc \in Verifiable
      PROVE  Reaches'
  <2>1. run'[o] = r
    BY <1>1, <1>2
  <2>2. RunReaches(o)'
    <3>1. CASE r.pc = "idle"
      BY <2>1, <3>1 DEF RunReaches, Planned, Publishing, Verifiable
    <3>2. CASE ~(r.pc = "idle")
      BY <1>1, <1>2, <2>1, <3>2, RunMoved
    <3>. QED  BY <3>1, <3>2
  <2>. QED  BY <1>1, <1>2, <2>2, ReachesRun
<1>3. Idle.pc = "idle"
  BY DEF Idle
<1>4. CASE SavePlan(o) \/ Complete(o) \/ Fail(o) \/ Kill(o)
  BY <1>2, <1>3, <1>4 DEF SavePlan, Complete, Fail, Kill, cluster, books, history
<1>5. ASSUME NEW pc, run' = [run EXCEPT ![o].pc = pc], UNCHANGED <<live, conf, infra, files>>,
             run[o].pc \in Planned, pc # "read", pc \in Verifiable => run[o].pc \in Verifiable
      PROVE  Reaches'
  <2>1. /\ run' = [run EXCEPT ![o] = [run[o] EXCEPT !.pc = pc]]
        /\ [run[o] EXCEPT !.pc = pc].pc = pc /\ [run[o] EXCEPT !.pc = pc].plan = run[o].plan
    BY <1>1, <1>5, RunField
  <2>. QED  BY <1>2, <1>5, <2>1
<1>6. CASE \E a \in Accounts : Deploy(o, a)
  <2>1. PICK a \in Accounts : Deploy(o, a)
    BY <1>6
  <2>2. PICK t : t = run[o].todo \ {a}
    OBVIOUS
  <2>3. /\ UNCHANGED <<live, conf>> /\ infra \subseteq infra' /\ files' = files
        /\ run[o].pc = "infra" /\ run' = [run EXCEPT ![o] = [run[o] EXCEPT !.todo = t]]
    BY <2>1, <2>2 DEF Deploy, At, books
  <2>4. [run[o] EXCEPT !.todo = t].pc = "infra" /\ [run[o] EXCEPT !.todo = t].plan = run[o].plan
    BY <1>1, <2>3, RunField
  <2>. QED  BY <1>2, <2>3, <2>4 DEF Planned, Publishing, Verifiable
<1>7. CASE WritePlan(o)
  BY <1>5, <1>7 DEF WritePlan, At, Goto, cluster, Planned, Verifiable
<1>8. CASE Recheck(o)
  <2>1. \E pc \in {"fresh", "rollout"} : run' = [run EXCEPT ![o].pc = pc]
    BY <1>8 DEF Recheck, Goto
  <2>2. run[o].pc = "recheck" /\ UNCHANGED <<live, conf, infra, files>>
    BY <1>8 DEF Recheck, At, cluster, books
  <2>. QED  BY <1>5, <2>1, <2>2 DEF Planned, Publishing, Verifiable
<1>9. CASE VerifyRollout(o)
  <2>1. \E pc \in {"effective", "install"} : run' = [run EXCEPT ![o].pc = pc]
    BY <1>9 DEF VerifyRollout, Goto
  <2>2. run[o].pc = "rollout" /\ UNCHANGED <<live, conf, infra, files>>
    BY <1>9 DEF VerifyRollout, At, cluster, books
  <2>. QED  BY <1>5, <2>1, <2>2 DEF Planned, Publishing, Verifiable
<1>10. CASE CreateConfigMap(o)
  BY <1>5, <1>10 DEF CreateConfigMap, At, Goto, books, Planned, Publishing, Verifiable
<1>11. CASE RecordPatched(o)
  BY <1>5, <1>11 DEF RecordPatched, At, Goto, cluster, books, Planned, Publishing, Verifiable
<1>12. CASE EffectiveChecks(o)
  BY <1>5, <1>12 DEF EffectiveChecks, At, Goto, cluster, books, Planned, Publishing, Verifiable
<1>13. CASE InstalledBaseline(o)
  BY <1>5, <1>13 DEF InstalledBaseline, At, Goto, cluster, books, Planned, Publishing, Verifiable
<1>. QED  BY <1>4, <1>6, <1>7, <1>8, <1>9, <1>10, <1>11, <1>12, <1>13

LEMMA ReachesStart ==
  ASSUME IInv, Reaches, NEW o \in Runs, NEW k \in Kinds, NEW op \in {"plan", "execute"}, Start(o, k, op)
  PROVE  Reaches'
<1>1. PICK want, a : run' = [run EXCEPT ![o] = [Idle EXCEPT !.pc = "read", !.op = op, !.approved = a,
                                           !.plan = {[kind |-> k, file |-> conf, want |-> want]}]]
  BY DEF Start
<1>2. PICK r : r = [Idle EXCEPT !.pc = "read", !.op = op, !.approved = a,
                                !.plan = {[kind |-> k, file |-> conf, want |-> want]}]
  OBVIOUS
<1>3. r.pc = "read" /\ \A i \in r.plan : i.file = conf
  BY <1>2 DEF Idle
<1>4. UNCHANGED <<live, conf, infra, files>> /\ DOMAIN run = Runs /\ FileLike(conf)
  BY DEF Start, cluster, books, IInv, Shapes, Reaches
<1>5. run' = [run EXCEPT ![o] = r] /\ run'[o] = r
  BY <1>1, <1>2, <1>4
<1>6. RunReaches(o)'
  BY <1>3, <1>4, <1>5 DEF RunReaches, Planned, Publishing, Verifiable
<1>. QED  BY <1>4, <1>5, <1>6, ReachesRun

LEMMA ReachesPrepare ==
  ASSUME IInv, Reaches, NEW o \in Runs, Prepare(o)
  PROVE  Reaches'
<1>1. PICK i \in run[o].plan :
        /\ Reconciled(i.file) /\ run[o].pc = "read"
        /\ run' = [run EXCEPT ![o] = [run[o] EXCEPT !.pc = "planned",
                     !.plan = {PlanOf(i.kind, i.file, i.want, Missing(i.want.mod))}]]
  BY DEF Prepare, At
<1>2. PICK p : p = PlanOf(i.kind, i.file, i.want, Missing(i.want.mod))
  OBVIOUS
<1>3. PICK r : r = [run[o] EXCEPT !.pc = "planned", !.plan = {p}]
  OBVIOUS
<1>4. /\ DOMAIN run = Runs /\ run' = [run EXCEPT ![o] = r] /\ run'[o] = r
      /\ r.pc = "planned" /\ r.plan = {p}
  BY <1>1, <1>2, <1>3, RunField DEF IInv, Shapes
<1>5. UNCHANGED <<live, conf, infra, files>>
  BY DEF Prepare, cluster, books
<1>6. FileLike(i.file) /\ CmLike(live.cm) /\ live.cm.mod \subseteq infra /\ FileLike(conf)
  BY <1>1 DEF Reaches, RunReaches
<1>7. PlanReaches(p)
  BY <1>1, <1>2, <1>6, PlansReach
<1>8. RunReaches(o)'
  BY <1>4, <1>5, <1>7 DEF RunReaches, PlanReaches, Verifiable
<1>. QED  BY <1>4, <1>5, <1>6, <1>8, ReachesRun

\* The plan of a run that has one.
LEMMA PlanHeld ==
  ASSUME IInv, Reaches, NEW o \in Runs, run[o].pc \in Planned
  PROVE  \E p \in run[o].plan : /\ run[o].plan = {p} /\ Plan(o) = p /\ PlanReaches(p)
                                /\ run[o].pc \in Verifiable => p.cm.mod \subseteq infra
<1>1. PICK p \in run[o].plan : run[o].plan = {p}
  BY DEF IInv, RunOK
<1>2. Plan(o) = p
  BY <1>1, ThePlan
<1>. QED  BY <1>1, <1>2 DEF Reaches, RunReaches

LEMMA ReachesAccept ==
  ASSUME IInv, Reaches, NEW o \in Runs, Accept(o)
  PROVE  Reaches'
<1>1. run[o].pc = "planned" /\ run[o].pc \in Planned /\ DOMAIN run = Runs /\ RunReaches(o) /\ FileLike(conf)
  BY DEF Accept, At, Planned, IInv, Shapes, Reaches
<1>2. PICK p \in run[o].plan : run[o].plan = {p} /\ Plan(o) = p /\ PlanReaches(p)
  BY <1>1, PlanHeld
<1>3. PICK pc, t : /\ pc = (IF p.kind = "settings" THEN "recheck" ELSE "infra") /\ t = p.missing
                   /\ run' = [run EXCEPT ![o] = [run[o] EXCEPT !.pc = pc, !.todo = t]]
  BY <1>2 DEF Accept
<1>4. PICK r : r = [run[o] EXCEPT !.pc = pc, !.todo = t]
  OBVIOUS
<1>5. run' = [run EXCEPT ![o] = r] /\ run'[o] = r /\ r.pc = pc /\ r.plan = run[o].plan
  BY <1>1, <1>3, <1>4, RunField DEF IInv
<1>6. UNCHANGED <<live, conf, infra>> /\ files' = files \cup {Evidence(o)} /\ Evidence(o).from = p.base.cm
  BY <1>2 DEF Accept, cluster, Evidence
<1>7. CmLike(p.base.cm) /\ p.base.cm.mod \subseteq infra
  BY <1>2 DEF PlanReaches
<1>8. RunReaches(o)'
  <2>1. pc \in Verifiable => \A q \in run[o].plan : q.cm.mod \subseteq infra'
    BY <1>2, <1>3, <1>6 DEF PlanReaches, Verifiable
  <2>. QED  BY <1>1, <1>3, <1>5, <1>6, <2>1, RunMoved
<1>. QED  BY <1>1, <1>5, <1>6, <1>7, <1>8, ReachesRun

\* What the list needs is there when it has been read again.
LEMMA ReachesVerify ==
  ASSUME IInv, Reaches, NEW o \in Runs, VerifyInfrastructure(o)
  PROVE  Reaches'
<1>1. run[o].pc = "infra" /\ run[o].pc \in Planned /\ DOMAIN run = Runs /\ RunReaches(o) /\ FileLike(conf)
  BY DEF VerifyInfrastructure, At, Planned, Publishing, IInv, Shapes, Reaches
<1>2. PICK p \in run[o].plan : run[o].plan = {p} /\ Plan(o) = p /\ PlanReaches(p)
  BY <1>1, PlanHeld
<1>3. p.want.mod \subseteq infra
  BY <1>2 DEF VerifyInfrastructure, Ready
<1>4. p.cm.mod \subseteq infra
  BY <1>2, <1>3 DEF PlanReaches
<1>5. UNCHANGED <<live, conf, infra, files>>
  BY DEF VerifyInfrastructure, cluster, books
<1>6. PICK r : r = [run[o] EXCEPT !.pc = "recheck"]
  OBVIOUS
<1>7. run' = [run EXCEPT ![o] = r] /\ run'[o] = r /\ r.pc = "recheck" /\ r.plan = run[o].plan
  BY <1>1, <1>6, RunField DEF VerifyInfrastructure, Goto, IInv
<1>8. RunReaches(o)'
  BY <1>1, <1>2, <1>4, <1>5, <1>7, RunMoved
<1>. QED  BY <1>1, <1>5, <1>7, <1>8, ReachesRun

LEMMA ReachesInstall ==
  ASSUME IInv, Reaches, NEW o \in Runs, Install(o)
  PROVE  Reaches'
<1>1. run[o].pc = "install" /\ run[o].pc \in Planned /\ DOMAIN run = Runs /\ RunReaches(o) /\ FileLike(conf)
  BY DEF Install, At, Planned, Publishing, IInv, Shapes, Reaches
<1>2. PICK p \in run[o].plan : Plan(o) = p /\ PlanReaches(p)
  BY <1>1, PlanHeld
<1>3. conf' = conf \/ conf' = p.doc
  BY <1>2 DEF Install
<1>4. FileLike(conf)'
  BY <1>1, <1>2, <1>3 DEF PlanReaches, FileLike
<1>5. UNCHANGED <<live, infra, files>>
  BY DEF Install, cluster, books
<1>6. PICK r : r = [run[o] EXCEPT !.pc = "done"]
  OBVIOUS
<1>7. run' = [run EXCEPT ![o] = r] /\ run'[o] = r /\ r.pc = "done" /\ r.plan = run[o].plan
  BY <1>1, <1>6, RunField DEF Install, Goto, IInv
<1>8. RunReaches(o)'
  BY <1>1, <1>5, <1>7, RunMoved DEF Verifiable
<1>. QED  BY <1>4, <1>5, <1>1, <1>7, <1>8, ReachesRun

\* The patch names a list that was verified; whether its answer arrives or not.
LEMMA ReachesPatch ==
  ASSUME IInv, Reaches, NEW o \in Runs, PatchDeployment(o) \/ PatchAnswerLost(o)
  PROVE  Reaches'
<1>1. /\ run[o].pc = "patch" /\ run[o].pc \in Planned /\ run[o].pc \in Verifiable
      /\ DOMAIN run = Runs /\ RunReaches(o) /\ Patch(o)
  BY DEF PatchDeployment, PatchAnswerLost, At, Planned, Publishing, Verifiable, IInv, Shapes, Reaches
<1>2. PICK p \in run[o].plan : Plan(o) = p /\ PlanReaches(p) /\ p.cm.mod \subseteq infra
  BY <1>1, PlanHeld
<1>3. live'.cm = p.cm
  BY <1>1, <1>2 DEF Patch, IInv, Shapes
<1>4. CmLike(live.cm)' /\ live'.cm.mod \subseteq infra
  BY <1>2, <1>3 DEF PlanReaches, CmLike
<1>5. UNCHANGED <<conf, infra, files>>
  BY <1>1 DEF Patch, books
<1>6. RunReaches(o)'
  <2>1. CASE PatchDeployment(o)
    <3>1. PICK r : r = [run[o] EXCEPT !.pc = "patched"]
      OBVIOUS
    <3>2. run'[o] = r /\ r.pc = "patched" /\ r.plan = run[o].plan
      BY <1>1, <2>1, <3>1, RunField DEF PatchDeployment, Goto, IInv
    <3>. QED  BY <1>1, <1>5, <3>2, RunMoved DEF Verifiable
  <2>2. CASE PatchAnswerLost(o)
    BY <1>1, <2>2 DEF PatchAnswerLost, Idle, RunReaches, Planned, Publishing, Verifiable
  <2>. QED  BY <2>1, <2>2
<1>7. \A q \in Runs \ {o} : run'[q] = run[q]
  BY <1>1 DEF PatchDeployment, PatchAnswerLost, Goto
<1>8. \A q \in Runs \ {o} : RunReaches(q)'
  BY <1>5, <1>7, RunKept DEF Reaches
<1>. QED  BY <1>4, <1>5, <1>6, <1>8 DEF Reaches

\* Rollbacks, the rollout, and other parties.
LEMMA ReachesCluster ==
  ASSUME IInv, Reaches, RollOut \/ ForeignEdit \/ Recover
  PROVE  Reaches'
<1>1. UNCHANGED <<run, infra, files>>
  BY DEF RollOut, ForeignEdit, Recover, RollBack, InstallDesired, cluster, books
<1>2. \A q \in Runs : RunReaches(q)'
  BY <1>1, RunKept DEF Reaches
<1>3. FileLike(conf) /\ CmLike(live.cm) /\ live.cm.mod \subseteq infra
         /\ live \in [cm : maps, rv : Nat, spec : Nat]
  BY DEF Reaches, IInv, Shapes
<1>4. FileLike(conf)'
  <2>1. \/ conf' = conf \/ conf' = [conf EXCEPT !.rest = @ + 1]
        \/ \E s, m : conf' = [conf EXCEPT !.set = s, !.mod = m]
    BY DEF RollOut, ForeignEdit, Recover, RollBack, InstallDesired
  <2>2. CASE conf' = conf
    BY <1>3, <2>2 DEF FileLike
  <2>3. CASE conf' = [conf EXCEPT !.rest = @ + 1]
    BY <1>3, <2>3 DEF FileLike
  <2>4. CASE \E s, m : conf' = [conf EXCEPT !.set = s, !.mod = m]
    <3>1. PICK s, m : conf' = [conf EXCEPT !.set = s, !.mod = m]
      BY <2>4
    <3>2. conf' = [set |-> s, mod |-> m, rest |-> conf.rest]
      BY <1>3, <3>1 DEF FileLike
    <3>. QED  BY <3>2 DEF FileLike
  <2>. QED  BY <2>1, <2>2, <2>3, <2>4, ZenonT(60)
<1>5. live'.cm = live.cm \/ \E e \in files : live'.cm = e.from
  BY <1>3 DEF RollOut, ForeignEdit, Recover, RollBack, InstallDesired, cluster
<1>6. CmLike(live.cm)' /\ live'.cm.mod \subseteq infra
  BY <1>3, <1>5 DEF Reaches, CmLike
<1>. QED  BY <1>1, <1>2, <1>4, <1>6 DEF Reaches

LEMMA ReachesNext == IInv /\ Reaches /\ [Next]_vars => Reaches'
<1> SUFFICES ASSUME IInv, Reaches, [Next]_vars PROVE Reaches'  OBVIOUS
<1>1. ASSUME NEW o \in Runs, NEW k \in Kinds, NEW op \in {"plan", "execute"}, Start(o, k, op)
      PROVE  Reaches'
  BY <1>1, ReachesStart
<1>2. ASSUME NEW o \in Runs, Step(o) \/ PatchAnswerLost(o) \/ Fail(o) \/ Kill(o)
      PROVE  Reaches'
  BY <1>2, ReachesQuiet, ReachesPrepare, ReachesAccept, ReachesVerify, ReachesInstall, ReachesPatch DEF Step
<1>3. CASE RollOut \/ ForeignEdit \/ Recover
  BY <1>3, ReachesCluster
<1>4. CASE UNCHANGED vars
  BY <1>4 DEF vars, cluster, books, Reaches, RunReaches, PlanReaches, CmLike, FileLike
<1>. QED  BY <1>1, <1>2, <1>3, <1>4 DEF Next

\* The Deployment always names a ConfigMap that exists, with models that can be
\* reached, whichever runs overlap and whoever rolls back.
THEOREM MountedCorrect == Spec => []MountedUsable
<1>1. Spec => []Reaches
  BY ReachesInit, ReachesNext, Invariance, PTL DEF Spec
<1>2. IInv /\ Reaches => MountedUsable
  BY DEF IInv, Shapes, Reaches, MountedUsable
<1>. QED  BY <1>1, <1>2, Invariance, PTL
-----------------------------------------------------------------------------
(* Completion, for runs that do not overlap.  Between the last comparison of  *)
(* the customer file and the installation only an edit of its other sections  *)
(* can come in, and from the verified rollout to the end nothing moves the    *)
(* Deployment or the Pods: RollBack waits until no run is active.  Where runs  *)
(* overlap, one may patch between the other's last check and its completion,  *)
(* and the statement is false.                                                *)

Alone == \A x, y \in Runs : x = y

\* After the Pods were verified.
RolledOut == {"effective", "installed", "install", "done"}

\* The two sections of the customer file that runs write.
SameSections(f, g) == f.set = g.set /\ f.mod = g.mod

\* The planned file and the planned YAML say the same.
PlanFits(p) ==
    /\ p.cm.mod = p.doc.mod
    /\ p.doc.set # "unset" => p.cm.set = p.doc.set

RunAgrees(o) ==
    /\ run[o].pc \in Planned => \A p \in run[o].plan : PlanFits(p)
    /\ run[o].pc \in Publishing \ {"done"} => \A p \in run[o].plan : SameSections(conf, p.file)
    /\ run[o].pc \in RolledOut => \A p \in run[o].plan : live.cm = p.cm /\ pods = {p.cm}
    /\ run[o].pc = "done" => \A p \in run[o].plan : SameSections(conf, p.doc)

Agree == CompletedAgrees /\ \A o \in Runs : RunAgrees(o)

\* A run that goes on, or ends, and leaves file, Deployment and Pods alone.
LEMMA AgreeMoves ==
  ASSUME Alone, Agree, NEW o \in Runs, NEW r, DOMAIN run = Runs,
         run' = [run EXCEPT ![o] = r], UNCHANGED <<live, pods, conf, settled>>,
         \/ r.pc \in {"idle", "read"}
         \/ /\ r.plan = run[o].plan /\ run[o].pc \in Planned
            /\ r.pc \in Publishing => run[o].pc \in Publishing
            /\ r.pc \in RolledOut => run[o].pc \in RolledOut
            /\ run[o].pc # "done" /\ r.pc # "done"
  PROVE  Agree'
<1>1. run'[o] = r /\ RunAgrees(o) /\ \A q \in Runs : q = o
  BY DEF Alone, Agree
<1>2. CASE r.pc \in {"idle", "read"}
  BY <1>1, <1>2 DEF Agree, CompletedAgrees, Reconciled, RunAgrees, Planned, Publishing, RolledOut
<1>3. CASE r.pc \notin {"idle", "read"}
  <2>1. RunAgrees(o)'
    BY <1>1, <1>3 DEF RunAgrees, PlanFits, SameSections
  <2>. QED  BY <1>1, <2>1 DEF Agree, CompletedAgrees, Reconciled
<1>. QED  BY <1>2, <1>3

LEMMA AgreeInit == Init => Agree
<1> SUFFICES ASSUME Init PROVE Agree  OBVIOUS
<1>1. settled = {} /\ \A o \in Runs : run[o].pc = "idle"
  BY DEF Init, Idle
<1>. QED  BY <1>1 DEF Agree, CompletedAgrees, RunAgrees, Planned, Publishing, RolledOut

LEMMA AgreeQuiet ==
  ASSUME Alone, IInv, Agree, NEW o \in Runs,
         \/ WritePlan(o) \/ SavePlan(o) \/ \E a \in Accounts : Deploy(o, a)
         \/ VerifyInfrastructure(o) \/ Recheck(o) \/ CreateConfigMap(o) \/ RecordPatched(o)
         \/ EffectiveChecks(o) \/ InstalledBaseline(o) \/ Fail(o) \/ Kill(o)
  PROVE  Agree'
<1>1. Shapes /\ DOMAIN run = Runs
  BY DEF IInv, Shapes
<1>2. ASSUME NEW pc, run' = [run EXCEPT ![o].pc = pc], UNCHANGED <<live, pods, conf, settled>>,
             run[o].pc \in Planned, run[o].pc # "done", pc # "done",
             pc \in Publishing => run[o].pc \in Publishing,
             pc \in RolledOut => run[o].pc \in RolledOut
      PROVE  Agree'
  <2>1. PICK r : r = [run[o] EXCEPT !.pc = pc]
    OBVIOUS
  <2>2. r.pc = pc /\ r.plan = run[o].plan /\ run' = [run EXCEPT ![o] = r]
    BY <1>1, <1>2, <2>1, RunField
  <2>. QED  BY <1>1, <1>2, <2>2, AgreeMoves
<1>3. CASE SavePlan(o) \/ Fail(o) \/ Kill(o)
  <2>1. run' = [run EXCEPT ![o] = Idle] /\ UNCHANGED <<live, pods, conf, settled>> /\ Idle.pc = "idle"
    BY <1>3 DEF SavePlan, Fail, Kill, cluster, history, Idle
  <2>. QED  BY <1>1, <2>1, AgreeMoves
<1>4. CASE \E a \in Accounts : Deploy(o, a)
  <2>1. PICK a \in Accounts : Deploy(o, a)
    BY <1>4
  <2>2. PICK t : t = run[o].todo \ {a}
    OBVIOUS
  <2>3. PICK r : r = [run[o] EXCEPT !.todo = t]
    OBVIOUS
  <2>4. /\ run' = [run EXCEPT ![o] = r] /\ run[o].pc = "infra" /\ UNCHANGED <<live, pods, conf, settled>>
    BY <2>1, <2>2, <2>3 DEF Deploy, At, history
  <2>5. r.pc = "infra" /\ r.plan = run[o].plan
    BY <1>1, <2>3, <2>4, RunField
  <2>. QED  BY <1>1, <2>4, <2>5, AgreeMoves DEF Planned, Publishing, RolledOut
<1>5. CASE WritePlan(o)
  BY <1>2, <1>5 DEF WritePlan, At, Goto, cluster, history, Planned, Publishing, RolledOut
<1>6. CASE VerifyInfrastructure(o)
  BY <1>2, <1>6 DEF VerifyInfrastructure, At, Goto, cluster, history, Planned, Publishing, RolledOut
<1>7. CASE Recheck(o)
  <2>1. \E pc \in {"fresh", "rollout"} : run' = [run EXCEPT ![o].pc = pc]
    BY <1>7 DEF Recheck, Goto
  <2>2. run[o].pc = "recheck" /\ UNCHANGED <<live, pods, conf, settled>>
    BY <1>7 DEF Recheck, At, cluster, history
  <2>. QED  BY <1>2, <2>1, <2>2 DEF Planned, Publishing, RolledOut
<1>8. CASE CreateConfigMap(o)
  BY <1>2, <1>8 DEF CreateConfigMap, At, Goto, history, Planned, Publishing, RolledOut
<1>9. CASE RecordPatched(o)
  BY <1>2, <1>9 DEF RecordPatched, At, Goto, cluster, history, Planned, Publishing, RolledOut
<1>10. CASE EffectiveChecks(o)
  BY <1>2, <1>10 DEF EffectiveChecks, At, Goto, cluster, history, Planned, Publishing, RolledOut
<1>11. CASE InstalledBaseline(o)
  BY <1>2, <1>11 DEF InstalledBaseline, At, Goto, cluster, history, Planned, Publishing, RolledOut
<1>. QED  BY <1>3, <1>4, <1>5, <1>6, <1>7, <1>8, <1>9, <1>10, <1>11

LEMMA AgreeStart ==
  ASSUME Alone, IInv, Agree, NEW o \in Runs, NEW k \in Kinds, NEW op \in {"plan", "execute"}, Start(o, k, op)
  PROVE  Agree'
<1>1. PICK want, a : run' = [run EXCEPT ![o] = [Idle EXCEPT !.pc = "read", !.op = op, !.approved = a,
                                           !.plan = {[kind |-> k, file |-> conf, want |-> want]}]]
  BY DEF Start
<1>2. PICK r : r = [Idle EXCEPT !.pc = "read", !.op = op, !.approved = a,
                                !.plan = {[kind |-> k, file |-> conf, want |-> want]}]
  OBVIOUS
<1>3. r.pc = "read" /\ run' = [run EXCEPT ![o] = r]
  BY <1>1, <1>2 DEF Idle
<1>4. UNCHANGED <<live, pods, conf, settled>> /\ DOMAIN run = Runs
  BY DEF Start, cluster, IInv, Shapes
<1>. QED  BY <1>3, <1>4, AgreeMoves

\* What a plan is made of: the file it was made from agrees with the cluster.
LEMMA PlansFit ==
  ASSUME NEW kind, NEW file, NEW want, FileLike(file), Reconciled(file), CmLike(live.cm), NEW missing
  PROVE  PlanFits(PlanOf(kind, file, want, missing))
<1>. DEFINE p == PlanOf(kind, file, want, missing)
<1>1. p.cm = Payload(kind, file, want, live.cm) /\ p.doc = Desired(kind, file, want)
  BY DEF PlanOf
<1>2. CASE kind = "settings"
  <2>1. p.cm = [live.cm EXCEPT !.set = want.set] /\ p.doc = [file EXCEPT !.set = want.set]
    BY <1>1, <1>2 DEF Payload, Desired
  <2>2. p.cm = [set |-> want.set, mod |-> live.cm.mod]
    BY <2>1 DEF CmLike
  <2>3. p.doc = [set |-> want.set, mod |-> file.mod, rest |-> file.rest]
    BY <2>1 DEF FileLike
  <2>4. live.cm.mod = file.mod
    BY DEF Reconciled
  <2>. QED  BY <2>2, <2>3, <2>4 DEF PlanFits
<1>3. CASE kind # "settings"
  <2>. DEFINE list == IF want.merge THEN file.mod \cup want.mod ELSE want.mod
  <2>1. p.doc = [file EXCEPT !.mod = list]
    BY <1>1, <1>3 DEF Desired
  <2>2. p.doc = [set |-> file.set, mod |-> list, rest |-> file.rest]
    BY <2>1 DEF FileLike
  <2>3. p.cm = [live.cm EXCEPT !.mod = list]
    BY <1>1, <1>3, <2>2 DEF Payload
  <2>4. p.cm = [set |-> live.cm.set, mod |-> list]
    BY <2>3 DEF CmLike
  <2>5. file.set # "unset" => live.cm.set = file.set
    BY DEF Reconciled
  <2>. QED  BY <2>2, <2>4, <2>5 DEF PlanFits
<1>. QED  BY <1>2, <1>3

LEMMA AgreePrepare ==
  ASSUME Alone, IInv, Reaches, Agree, NEW o \in Runs, Prepare(o)
  PROVE  Agree'
<1>1. PICK i \in run[o].plan :
        /\ Reconciled(i.file) /\ run[o].pc = "read"
        /\ run' = [run EXCEPT ![o] = [run[o] EXCEPT !.pc = "planned",
                     !.plan = {PlanOf(i.kind, i.file, i.want, Missing(i.want.mod))}]]
  BY DEF Prepare, At
<1>2. PICK p : p = PlanOf(i.kind, i.file, i.want, Missing(i.want.mod))
  OBVIOUS
<1>3. PICK r : r = [run[o] EXCEPT !.pc = "planned", !.plan = {p}]
  OBVIOUS
<1>4. run'[o] = r /\ r.pc = "planned" /\ r.plan = {p}
  BY <1>1, <1>2, <1>3, RunField DEF IInv, Shapes
<1>5. UNCHANGED <<live, pods, conf, settled>>
  BY DEF Prepare, cluster, history
<1>6. FileLike(i.file) /\ CmLike(live.cm)
  BY <1>1 DEF Reaches, RunReaches
<1>7. PlanFits(p)
  BY <1>1, <1>2, <1>6, PlansFit
<1>8. RunAgrees(o)'
  BY <1>4, <1>7 DEF RunAgrees, PlanFits, Publishing, RolledOut
<1>. QED  BY <1>5, <1>8 DEF Alone, Agree, CompletedAgrees, Reconciled

\* The plan of the run, and what is known of it.
LEMMA PlanAgrees ==
  ASSUME IInv, Reaches, Agree, NEW o \in Runs, run[o].pc \in Planned
  PROVE  \E p \in run[o].plan :
           /\ run[o].plan = {p} /\ Plan(o) = p /\ PlanFits(p)
           /\ run[o].pc \in Publishing \ {"done"} => SameSections(conf, p.file)
           /\ run[o].pc \in RolledOut => live.cm = p.cm /\ pods = {p.cm}
           /\ run[o].pc = "done" => SameSections(conf, p.doc)
<1>1. PICK p \in run[o].plan : run[o].plan = {p} /\ Plan(o) = p
  BY PlanHeld
<1>. QED  BY <1>1 DEF Agree, RunAgrees

LEMMA AgreeAccept ==
  ASSUME Alone, IInv, Reaches, Agree, NEW o \in Runs, Accept(o)
  PROVE  Agree'
<1>1. run[o].pc = "planned" /\ run[o].pc \in Planned /\ DOMAIN run = Runs
  BY DEF Accept, At, Planned, IInv, Shapes
<1>2. PICK p \in run[o].plan : run[o].plan = {p} /\ Plan(o) = p /\ PlanFits(p)
  BY <1>1, PlanAgrees
<1>3. PICK pc, t : /\ pc = (IF p.kind = "settings" THEN "recheck" ELSE "infra") /\ t = p.missing
                   /\ run' = [run EXCEPT ![o] = [run[o] EXCEPT !.pc = pc, !.todo = t]]
  BY <1>2 DEF Accept
<1>4. PICK r : r = [run[o] EXCEPT !.pc = pc, !.todo = t]
  OBVIOUS
<1>5. run'[o] = r /\ r.pc = pc /\ r.plan = {p}
  BY <1>1, <1>2, <1>3, <1>4, RunField DEF IInv
<1>6. UNCHANGED <<live, pods, conf, settled>> /\ conf = p.file
  BY <1>2 DEF Accept, cluster, history
<1>7. RunAgrees(o)'
  BY <1>2, <1>3, <1>5, <1>6 DEF RunAgrees, PlanFits, SameSections, RolledOut
<1>. QED  BY <1>6, <1>7 DEF Alone, Agree, CompletedAgrees, Reconciled

LEMMA AgreeRollout ==
  ASSUME Alone, IInv, Reaches, Agree, NEW o \in Runs, VerifyRollout(o)
  PROVE  Agree'
<1>1. run[o].pc = "rollout" /\ run[o].pc \in Planned /\ run[o].pc \in Publishing \ {"done"}
      /\ DOMAIN run = Runs
  BY DEF VerifyRollout, At, Planned, Publishing, IInv, Shapes
<1>2. PICK p \in run[o].plan : run[o].plan = {p} /\ Plan(o) = p /\ PlanFits(p) /\ SameSections(conf, p.file)
  BY <1>1, PlanAgrees
<1>3. PICK pc \in {"effective", "install"} : run' = [run EXCEPT ![o].pc = pc]
  BY DEF VerifyRollout, Goto
<1>4. PICK r : r = [run[o] EXCEPT !.pc = pc]
  OBVIOUS
<1>5. run'[o] = r /\ r.pc = pc /\ r.plan = {p}
  BY <1>1, <1>2, <1>3, <1>4, RunField DEF IInv
<1>6. UNCHANGED <<live, pods, conf, settled>> /\ live.cm = p.cm /\ pods = {p.cm}
  BY <1>2 DEF VerifyRollout, Verified, cluster, history
<1>7. RunAgrees(o)'
  BY <1>2, <1>3, <1>5, <1>6 DEF RunAgrees, PlanFits, SameSections
<1>. QED  BY <1>6, <1>7 DEF Alone, Agree, CompletedAgrees, Reconciled

\* The new file differs from the old one in the planned section only.
LEMMA AgreeInstall ==
  ASSUME Alone, IInv, Reaches, Agree, NEW o \in Runs, Install(o)
  PROVE  Agree'
<1>1. run[o].pc = "install" /\ run[o].pc \in Planned /\ run[o].pc \in Publishing \ {"done"}
      /\ run[o].pc \in RolledOut /\ DOMAIN run = Runs
  BY DEF Install, At, Planned, Publishing, RolledOut, IInv, Shapes
<1>2. PICK p \in run[o].plan : /\ run[o].plan = {p} /\ Plan(o) = p /\ PlanFits(p)
                               /\ SameSections(conf, p.file) /\ live.cm = p.cm /\ pods = {p.cm}
  BY <1>1, PlanAgrees
<1>3. PICK r : r = [run[o] EXCEPT !.pc = "done"]
  OBVIOUS
<1>4. run'[o] = r /\ r.pc = "done" /\ r.plan = {p}
  BY <1>1, <1>2, <1>3, RunField DEF Install, Goto, IInv
<1>5. UNCHANGED <<live, pods>> /\ conf' = (IF p.doc = p.file THEN conf ELSE p.doc)
  BY <1>2 DEF Install, cluster
<1>6. SameSections(conf', p.doc)
  BY <1>2, <1>5 DEF SameSections
<1>7. RunAgrees(o)'
  BY <1>2, <1>4, <1>5, <1>6 DEF RunAgrees, PlanFits, SameSections
<1>8. CompletedAgrees'
  <2>1. settled' = {} \/ (conf' = conf /\ settled' = settled)
    BY DEF Install
  <2>. QED  BY <1>5, <2>1 DEF Agree, CompletedAgrees, Reconciled
<1>. QED  BY <1>7, <1>8 DEF Alone, Agree

LEMMA AgreeComplete ==
  ASSUME Alone, IInv, Reaches, Agree, NEW o \in Runs, Complete(o)
  PROVE  Agree'
<1>1. run[o].pc = "done" /\ run[o].pc \in Planned /\ run[o].pc \in RolledOut /\ DOMAIN run = Runs
  BY DEF Complete, At, Planned, Publishing, RolledOut, IInv, Shapes
<1>2. PICK p \in run[o].plan : /\ Plan(o) = p /\ PlanFits(p)
                               /\ SameSections(conf, p.doc) /\ live.cm = p.cm /\ pods = {p.cm}
  BY <1>1, PlanAgrees
<1>3. run'[o].pc = "idle" /\ UNCHANGED <<live, pods, conf>> /\ settled' = {[doc |-> p.doc, cm |-> p.cm]}
  BY <1>1, <1>2 DEF Complete, Idle, cluster
<1>4. Reconciled(conf)
  BY <1>2 DEF Reconciled, PlanFits, SameSections
<1>5. CompletedAgrees'
  BY <1>2, <1>3, <1>4 DEF CompletedAgrees, Reconciled, SameSections
<1>6. RunAgrees(o)'
  BY <1>3 DEF RunAgrees, Planned, Publishing, RolledOut
<1>. QED  BY <1>5, <1>6 DEF Alone, Agree

LEMMA AgreePatch ==
  ASSUME Alone, IInv, Reaches, Agree, NEW o \in Runs, PatchDeployment(o) \/ PatchAnswerLost(o)
  PROVE  Agree'
<1>1. /\ run[o].pc = "patch" /\ run[o].pc \in Planned /\ run[o].pc \in Publishing \ {"done"}
      /\ DOMAIN run = Runs /\ Patch(o)
  BY DEF PatchDeployment, PatchAnswerLost, At, Planned, Publishing, IInv, Shapes
<1>2. PICK p \in run[o].plan : run[o].plan = {p} /\ PlanFits(p) /\ SameSections(conf, p.file)
  BY <1>1, PlanAgrees
<1>3. settled' = {} /\ conf' = conf
  BY <1>1 DEF Patch
<1>4. RunAgrees(o)'
  <2>1. CASE PatchDeployment(o)
    <3>1. PICK r : r = [run[o] EXCEPT !.pc = "patched"]
      OBVIOUS
    <3>2. run'[o] = r /\ r.pc = "patched" /\ r.plan = {p}
      BY <1>1, <1>2, <2>1, <3>1, RunField DEF PatchDeployment, Goto, IInv
    <3>. QED  BY <1>2, <1>3, <3>2 DEF RunAgrees, PlanFits, SameSections, RolledOut
  <2>2. CASE PatchAnswerLost(o)
    BY <1>1, <2>2 DEF PatchAnswerLost, Idle, RunAgrees, Planned, Publishing, RolledOut
  <2>. QED  BY <2>1, <2>2
<1>. QED  BY <1>3, <1>4 DEF Alone, Agree, CompletedAgrees

\* Recovery waits for the runs to end; the rollout stops where the run verified
\* it; other parties edit other sections.
LEMMA AgreeCluster ==
  ASSUME IInv, Reaches, Agree, RollOut \/ ForeignEdit \/ Recover
  PROVE  Agree'
<1>1. FileLike(conf) /\ live \in [cm : maps, rv : Nat, spec : Nat]
  BY DEF Reaches, IInv, Shapes
<1>2. CASE RollOut
  <2>1. live'.cm = live.cm /\ pods # {live.cm} /\ UNCHANGED <<conf, run, settled>>
    BY <1>1, <1>2 DEF RollOut, history
  <2>2. settled = {}
    BY <2>1 DEF Agree, CompletedAgrees
  <2>3. \A q \in Runs : run[q].pc \in RolledOut => run[q].plan = {}
    BY <2>1 DEF Agree, RunAgrees
  <2>4. \A q \in Runs : RunAgrees(q)'
    BY <2>1, <2>3 DEF Agree, RunAgrees, PlanFits, SameSections
  <2>. QED  BY <2>1, <2>2, <2>4 DEF Agree, CompletedAgrees
<1>3. CASE ForeignEdit
  <2>1. live'.cm = live.cm /\ UNCHANGED <<run, pods, settled>>
    BY <1>1, <1>3 DEF ForeignEdit, history
  <2>2. conf'.set = conf.set /\ conf'.mod = conf.mod
    <3>1. conf' = conf \/ conf' = [conf EXCEPT !.rest = @ + 1]
      BY <1>3 DEF ForeignEdit
    <3>2. conf' = conf \/ conf' = [set |-> conf.set, mod |-> conf.mod, rest |-> conf.rest + 1]
      BY <1>1, <3>1 DEF FileLike
    <3>. QED  BY <3>2
  <2>3. \A q \in Runs : RunAgrees(q)'
    BY <2>1, <2>2 DEF Agree, RunAgrees, PlanFits, SameSections
  <2>. QED  BY <2>1, <2>2, <2>3 DEF Agree, CompletedAgrees, Reconciled
<1>4. CASE Recover
  <2>1. settled' = {} /\ run' = run /\ \A q \in Runs : run[q].pc = "idle"
    BY <1>4 DEF Recover, RollBack, InstallDesired, Quiescent, At
  <2>. QED  BY <2>1 DEF Agree, CompletedAgrees, RunAgrees, Planned, Publishing, RolledOut
<1>. QED  BY <1>2, <1>3, <1>4

LEMMA AgreeNext == Alone /\ IInv /\ Reaches /\ Agree /\ [Next]_vars => Agree'
<1> SUFFICES ASSUME Alone, IInv, Reaches, Agree, [Next]_vars PROVE Agree'  OBVIOUS
<1>1. ASSUME NEW o \in Runs, NEW k \in Kinds, NEW op \in {"plan", "execute"}, Start(o, k, op)
      PROVE  Agree'
  BY <1>1, AgreeStart
<1>2. ASSUME NEW o \in Runs, Step(o) \/ PatchAnswerLost(o) \/ Fail(o) \/ Kill(o)
      PROVE  Agree'
  BY <1>2, AgreeQuiet, AgreePrepare, AgreeAccept, AgreeRollout, AgreeInstall, AgreeComplete, AgreePatch DEF Step
<1>3. CASE RollOut \/ ForeignEdit \/ Recover
  BY <1>3, AgreeCluster
<1>4. CASE UNCHANGED vars
  BY <1>4 DEF vars, cluster, history, Agree, CompletedAgrees, Reconciled, RunAgrees, PlanFits, SameSections
<1>. QED  BY <1>1, <1>2, <1>3, <1>4 DEF Next

\* Runs that do not overlap: one that reports completion leaves file, Deployment
\* and Pods in agreement until the next publication or recovery, for any
\* settings, accounts, failures and edits by others.
THEOREM CompletionAgrees == (\A x, y \in Runs : x = y) /\ Spec => []CompletedAgrees
<1> SUFFICES ASSUME Alone PROVE Spec => []CompletedAgrees
  BY DEF Alone
<1>1. Spec => []Reaches
  BY ReachesInit, ReachesNext, Invariance, PTL DEF Spec
<1>2. Spec => []Agree
  <2>1. IInv /\ Reaches /\ Agree /\ [Next]_vars => Agree'
    BY AgreeNext
  <2>. QED  BY AgreeInit, <2>1, <1>1, Invariance, PTL DEF Spec
<1>3. Agree => CompletedAgrees
  BY DEF Agree
<1>. QED  BY <1>2, <1>3, PTL
=============================================================================
