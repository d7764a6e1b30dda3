---------------------------- MODULE AuditLifecycle ----------------------------
(***************************************************************************)
(* What happens to a journal after its writer: recovery of interrupted      *)
(* requests (audit-recovery.mjs, audit-recovery-job.mjs, -worker.mjs),      *)
(* retention (audit-reader.mjs maintainAudit, audit-maintenance.mjs), the   *)
(* legal-hold registry (scripts/audit_governance.py) and the maintenance    *)
(* window that keeps them apart (scripts/audit_window.py, abstracted to its *)
(* phases).  Composed with the writer of AuditJournal: one store, so every  *)
(* interleaving of writer crashes, late uploads, recovery and deletion.     *)
(***************************************************************************)
EXTENDS AuditJournal

VARIABLES
    age,     \* age[r]: fresh (under 15 min), aged, expired (past expiresAt)
    window,  \* maintenance window: open (none), pausing, paused
    held,    \* requests in holds.json
    retain,  \* the retention Job: on, the holds it read when it started
    purge,   \* purge[r]: what the retention Job removes next for r
    plan,    \* the approved recovery plan: at most one snapshot of the batch
    rec,     \* the recovery Job executing a plan: on, entries to do, entry at hand
    rwire    \* rwire[r]: the put the recovery Job issued last for r

lifeVars == <<age, window, held, retain, purge, plan, rec, rwire>>
allVars  == <<vars, lifeVars>>

LifeInit ==
    /\ Init
    /\ age = [r \in Requests |-> "fresh"]
    /\ window = "open"
    /\ held = {}
    /\ retain = [on |-> FALSE, holds |-> {}]
    /\ purge = [r \in Requests |-> "idle"]
    /\ plan = {}
    /\ rec = [on |-> FALSE, todo |-> {}, at |-> {}]
    /\ rwire = [r \in Requests |-> {}]

-----------------------------------------------------------------------------
(* What recoverRequest() reads. *)

OfKind(r, k) == {b \in store[r] : b.kind = k}

HeaderFormat(r) ==
    IF OfKind(r, "header") = {} THEN "none" ELSE (CHOOSE b \in OfKind(r, "header") : TRUE).format

LastChain(r) ==
    IF Framed(r) = {} THEN << >> ELSE CHOOSE c \in Framed(r) : \A d \in Framed(r) : Len(d) <= Len(c)

\* Frames are numbered without a gap, each names its predecessor's hash, and
\* there are none without a header.
ChainValid(r) ==
    /\ Framed(r) # {} => OfKind(r, "header") # {}
    /\ {Len(c) : c \in Framed(r)} = 1..Cardinality(Framed(r))
    /\ \A c \in Framed(r) : Len(c) > 1 => SubSeq(c, 1, Len(c) - 1) \in Framed(r)

EndValid(r) ==
    \A e \in OfKind(r, "end") : e.chain = LastChain(r) /\ e.format = HeaderFormat(r)

\* The record the journal stands for; without an end marker the process was
\* interrupted.
Rebuilt(r, recovered) ==
    IF OfKind(r, "end") = {}
    THEN Record("process_interrupted", HeaderFormat(r), LastChain(r), FALSE, recovered)
    ELSE LET e == CHOOSE b \in OfKind(r, "end") : TRUE
         IN Record(e.outcome, HeaderFormat(r), LastChain(r), e.truncated, recovered)

Repairs == {"index_repair", "completion_repair", "partial_recovery"}

\* Mutant: recovery of requests that are still active.
RecoveryStatusNoAge(r) ==
    LET content == OfKind(r, "record")
    IN IF Pending \notin store[r] THEN "missing"
       ELSE IF OfKind(r, "index") # {} THEN "indexed"
       ELSE IF Request \notin store[r] THEN "gap"
       ELSE IF content # {} THEN "index_repair" ELSE "partial_recovery"

RecoveryStatus(r) ==
    LET content == OfKind(r, "record")
        index   == OfKind(r, "index")
    IN CASE Pending \notin store[r] -> "missing"
         [] Pending \in store[r] /\ age[r] = "expired" -> "expired"
         [] Pending \in store[r] /\ age[r] = "fresh" -> "active"
         [] Pending \in store[r] /\ age[r] = "aged" ->
              IF index # {}
              THEN IF \A i \in index : i.contentHash \in content THEN "indexed" ELSE "integrity_failure"
              ELSE IF Request \notin store[r] THEN "gap"
              ELSE IF ~ChainValid(r) \/ ~EndValid(r) \/ (\E b \in content : b # Rebuilt(r, b.recovered))
                   THEN "integrity_failure"
              ELSE IF content # {} THEN "index_repair"
              ELSE IF OfKind(r, "end") # {} THEN "completion_repair" ELSE "partial_recovery"

\* stateSha256 of an entry, for the statuses that have one.
PlanEntry(r) ==
    [status |-> RecoveryStatus(r),
     state  |-> IF RecoveryStatus(r) \in Repairs \cup {"indexed"} THEN store[r] ELSE {}]

PlanView == [r \in Requests |-> PlanEntry(r)]

-----------------------------------------------------------------------------
(* Recovery: plan, approve, execute, all inside a paused window. *)

PlanRecovery ==
    /\ window = "paused" /\ ~rec.on
    /\ plan' = {PlanView}
    /\ UNCHANGED <<vars, age, window, held, retain, purge, rec, rwire>>

\* The Job recomputes the plan and runs only if it is the approved one.
ExecuteRecovery ==
    /\ window = "paused" /\ ~rec.on
    /\ plan = {PlanView}
    /\ rec' = [on |-> TRUE, at |-> {}, todo |-> {r \in Requests : RecoveryStatus(r) \in Repairs}]
    /\ UNCHANGED <<vars, age, window, held, retain, purge, plan, rwire>>

Planned(r) == \E p \in plan : p[r].state = store[r]

\* One entry: verifyQuiesced(), then the state must be the approved one.
RecoverRequest(r) ==
    /\ rec.on /\ r \in rec.todo /\ rec.at = {} /\ window = "paused"
    /\ RecoveryStatus(r) \in Repairs /\ Planned(r)
    /\ LET content == OfKind(r, "record")
       IN rwire' = [rwire EXCEPT ![r] =
                      IF content = {} THEN {Rebuilt(r, TRUE)} ELSE {Index(b) : b \in content}]
    /\ rec' = [rec EXCEPT !.todo = @ \ {r}, !.at = {r}]
    /\ UNCHANGED <<vars, age, window, held, retain, purge, plan>>

RecoverLand(r) ==
    \E o \in rwire[r] :
        /\ \A b \in store[r] : ~SameName(b, o)
        /\ store' = [store EXCEPT ![r] = @ \cup {o}]
        /\ UNCHANGED <<wire, cap, client, proc, lifeVars>>

\* The record is durable: write its index.
RecoverRecordAck(r) ==
    /\ rec.on /\ r \in rec.at
    /\ \E b \in rwire[r] :
        /\ b.kind = "record" /\ b \in store[r]
        /\ rwire' = [rwire EXCEPT ![r] = {Index(b)}]
    /\ UNCHANGED <<vars, age, window, held, retain, purge, plan, rec>>

RecoverIndexAck(r) ==
    /\ rec.on /\ r \in rec.at
    /\ \E i \in rwire[r] : i.kind = "index" /\ i \in store[r]
    /\ rwire' = [rwire EXCEPT ![r] = {}]
    /\ rec' = [rec EXCEPT !.at = {}]
    /\ UNCHANGED <<vars, age, window, held, retain, purge, plan>>

\* The Job is done when its last put is acknowledged, or it stops early: a put
\* fails, a check throws, its Pod dies.  The window stays paused either way.
RecoveryEnds ==
    /\ rec.on
    /\ rec' = [on |-> FALSE, todo |-> {}, at |-> {}]
    /\ UNCHANGED <<vars, age, window, held, retain, purge, plan, rwire>>

-----------------------------------------------------------------------------
(* Retention: for every expired intent, the intent itself goes last. *)

RetentionStart ==
    /\ window = "open" /\ ~retain.on
    /\ retain' = [on |-> TRUE, holds |-> held]
    /\ UNCHANGED <<vars, age, window, held, purge, plan, rec, rwire>>

\* Mutant: only records that were indexed are deleted.
PurgeBeginIndexed(r) ==
    /\ retain.on /\ \A q \in Requests : purge[q] = "idle"
    /\ OfKind(r, "index") # {} /\ age[r] = "expired" /\ r \notin retain.holds
    /\ purge' = [purge EXCEPT ![r] = "content"]
    /\ UNCHANGED <<vars, age, window, held, retain, plan, rec, rwire>>

PurgeBegin(r) ==
    /\ retain.on /\ \A q \in Requests : purge[q] = "idle"
    /\ Pending \in store[r] /\ age[r] = "expired" /\ r \notin retain.holds
    /\ purge' = [purge EXCEPT ![r] = "content"]
    /\ UNCHANGED <<vars, age, window, held, retain, plan, rec, rwire>>

Remove(r, blobs, next) ==
    /\ store' = [store EXCEPT ![r] = @ \ blobs]
    /\ purge' = [purge EXCEPT ![r] = next]
    /\ UNCHANGED <<wire, cap, client, proc, age, window, held, retain, plan, rec, rwire>>

\* Mutant: the intent goes first.
PurgeContentIntentFirst(r) ==
    purge[r] = "content" /\ Remove(r, OfKind(r, "record") \cup {Pending}, "request")

PurgeContent(r) == purge[r] = "content" /\ Remove(r, OfKind(r, "record"), "request")
PurgeRequest(r) == purge[r] = "request" /\ Remove(r, {Request}, "journal")

\* The journal is listed by name: frames, then end.json, then header.json.
NextInJournal(r) ==
    IF Framed(r) # {}
    THEN {Frame(c) : c \in {x \in Framed(r) : \A d \in Framed(r) : Len(x) <= Len(d)}}
    ELSE IF OfKind(r, "end") # {} THEN OfKind(r, "end") ELSE OfKind(r, "header")

PurgeJournal(r) ==
    /\ purge[r] = "journal"
    /\ Remove(r, NextInJournal(r), IF NextInJournal(r) = {} THEN "index" ELSE "journal")

PurgeIndex(r)   == purge[r] = "index" /\ Remove(r, OfKind(r, "index"), "pending")
PurgePending(r) == purge[r] = "pending" /\ Remove(r, {Pending}, "idle")

Purge(r) ==
    PurgeContent(r) \/ PurgeRequest(r) \/ PurgeJournal(r) \/ PurgeIndex(r) \/ PurgePending(r)

\* The Job ends, fails at some removal, or is killed.
RetentionEnds ==
    /\ retain.on
    /\ retain' = [on |-> FALSE, holds |-> {}]
    /\ purge' = [r \in Requests |-> "idle"]
    /\ UNCHANGED <<vars, age, window, held, plan, rec, rwire>>

-----------------------------------------------------------------------------
(* The maintenance window and the hold registry. *)

\* execute_window(audit-pause) up to wait_quiet: no new writer, no new Job.
Pause ==
    /\ window = "open" /\ ~rec.on
    /\ window' = "pausing"
    /\ UNCHANGED <<vars, age, held, retain, purge, plan, rec, rwire>>

\* Mutant: the window counts as paused while the writer still drains.
PausedWhileDraining ==
    /\ window = "pausing" /\ ~retain.on
    /\ window' = "paused"
    /\ UNCHANGED <<vars, age, held, retain, purge, plan, rec, rwire>>

Paused ==
    /\ window = "pausing" /\ ~proc.up /\ ~retain.on
    /\ window' = "paused"
    /\ UNCHANGED <<vars, age, held, retain, purge, plan, rec, rwire>>

\* audit-resume needs every recovery Job to be over; uploads of a Job that
\* died do not outlive the approval and rollout this takes.  An approved plan
\* is bound to its window (uid and id), so it ends with it.
Resume ==
    /\ window \in {"pausing", "paused"} /\ ~rec.on
    /\ window' = "open"
    /\ rwire' = [r \in Requests |-> {}]
    /\ plan' = {}
    /\ UNCHANGED <<vars, age, held, retain, purge, rec>>

\* Mutant: holds may change while a retention Job runs.
ChangeHoldAnytime(r) ==
    /\ held' = IF r \in held THEN held \ {r} ELSE held \cup {r}
    /\ UNCHANGED <<vars, age, window, retain, purge, plan, rec, rwire>>

ChangeHold(r) ==
    /\ window = "paused" /\ ~rec.on
    /\ held' = IF r \in held THEN held \ {r} ELSE held \cup {r}
    /\ UNCHANGED <<vars, age, window, retain, purge, plan, rec, rwire>>

\* A hold's until passes; retention compares it with the clock at every record.
HoldLapses(r) ==
    /\ r \in held
    /\ held' = held \ {r}
    /\ retain' = [retain EXCEPT !.holds = @ \ {r}]
    /\ UNCHANGED <<vars, age, window, purge, plan, rec, rwire>>

-----------------------------------------------------------------------------
(* Time.  createdAt is set by begin(); 15 minutes later no upload of a      *)
(* request that is over can still be under way, and expiresAt is at least a *)
(* day later, when no request is.                                           *)

InFlight(r) == cap[r].phase = "intent" \/ cap[r].phase \in Begun

Age(r) ==
    /\ age[r] = "fresh" /\ cap[r].phase # "new"
    /\ age' = [age EXCEPT ![r] = "aged"]
    /\ UNCHANGED <<vars, window, held, retain, purge, plan, rec, rwire>>

Expire(r) ==
    /\ age[r] = "aged"
    /\ InFlight(r) => cap[r].phase = "abandoned" /\ cap[r].res # "pending"
    /\ age' = [age EXCEPT ![r] = "expired"]
    /\ UNCHANGED <<vars, window, held, retain, purge, plan, rec, rwire>>

-----------------------------------------------------------------------------
WriterStep ==
    /\ \/ \E r \in Requests :
            \/ (age[r] = "fresh" \/ cap[r].op # "idle") /\ Land(r)
            \/ Handle(r) \/ Deliver(r) \/ Complete(r) \/ Disconnect(r)
       \/ CoolDown
       \/ Crash
       \/ window = "open" /\ Restart
    /\ UNCHANGED lifeVars

LifeNext ==
    \/ WriterStep
    \/ \E r \in Requests :
         \/ RecoverRequest(r) \/ RecoverLand(r) \/ RecoverRecordAck(r) \/ RecoverIndexAck(r)
         \/ PurgeBegin(r) \/ Purge(r)
         \/ ChangeHold(r) \/ HoldLapses(r) \/ Age(r) \/ Expire(r)
    \/ PlanRecovery \/ ExecuteRecovery \/ RecoveryEnds
    \/ RetentionStart \/ RetentionEnds
    \/ Pause \/ Paused \/ Resume

LifeSpec == LifeInit /\ [][LifeNext]_allVars

(* Retention on its own, from any journal an interrupted writer can leave    *)
(* behind: the blobs are put in this order and deleted by maintainAudit().   *)

PutOrder(f, chain, o) ==
    <<Pending, Request, Header(f)>> \o [k \in 1..Len(chain) |-> Frame(SubSeq(chain, 1, k))]
    \o <<End(o, f, chain, FALSE), Record(o, f, chain, FALSE, FALSE), Index(Record(o, f, chain, FALSE, FALSE))>>

LeftBehind ==
    LET puts == PutOrder("sse", [k \in 1..MaxFrames |-> "event"], "client_disconnect")
    IN {{puts[i] : i \in 1..n} : n \in 0..Len(puts)}

RetentionInit ==
    /\ store \in [Requests -> LeftBehind]
    /\ wire = [r \in Requests |-> {}]
    /\ cap = [r \in Requests |-> [NewCap EXCEPT !.phase = "lost", !.fin = "client_disconnect"]]
    /\ client = [r \in Requests |-> [NewClient EXCEPT !.gone = TRUE]]
    /\ proc = [up |-> FALSE, active |-> 0, cooling |-> FALSE]
    /\ age = [r \in Requests |-> "aged"]
    /\ window = "open" /\ held = {} /\ plan = {}
    /\ retain = [on |-> FALSE, holds |-> {}]
    /\ purge = [r \in Requests |-> "idle"]
    /\ rec = [on |-> FALSE, todo |-> {}, at |-> {}]
    /\ rwire = [r \in Requests |-> {}]

RetentionNext ==
    \/ \E r \in Requests : PurgeBegin(r) \/ Purge(r) \/ ChangeHold(r) \/ HoldLapses(r) \/ Expire(r)
    \/ RetentionStart \/ RetentionEnds
    \/ Pause \/ Paused \/ Resume

-----------------------------------------------------------------------------
(* Properties. *)

\* Retention finds records through their intent (it lists "pending"), so no
\* blob of a request may exist without it: not while a purge was interrupted,
\* not after a late upload, not after a recovery that raced the expiry.
RetentionReachesAll ==
    \A r \in Requests : store[r] # {} => Pending \in store[r]

\* recoverRequest() never throws an integrity error on a journal this code
\* wrote, wherever the writer, an earlier recovery or an upload was cut off.
RecoveryNeverBlocked ==
    \A r \in Requests : RecoveryStatus(r) # "integrity_failure"

\* An indexed record, recovered or not, holds everything the client saw; it
\* claims the outcome the gateway decided on or an interruption, and an
\* answer the client saw end cleanly is never filed as interrupted.
IndexTellsTheTruth ==
    \A r \in Requests : \A i \in OfKind(r, "index") :
        LET b == i.contentHash
        IN /\ Len(client[r].sent) <= Len(b.chain)
           /\ client[r].sent = SubSeq(b.chain, 1, Len(client[r].sent))
           /\ b.outcome \in {cap[r].fin, "process_interrupted"}
           /\ client[r].reply = "ended" => b.outcome = "upstream_end"
           /\ b.recovered => age[r] # "fresh"

\* A record on hold loses nothing: the retention Job works from the registry
\* it read at its start, and holds change only while no such Job runs.
HoldRespected ==
    [][\A r \in held : store[r] \subseteq store'[r]]_allVars
=============================================================================
