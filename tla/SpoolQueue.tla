----------------------------- MODULE SpoolQueue -----------------------------
(***************************************************************************)
(* The disk queue of the optional L3 sidecar (l3-audit/src/queue.ts) and    *)
(* its two sinks (azure.ts): captured records are spooled to a directory    *)
(* one atomic file at a time, a tick every 5 s uploads the content, replaces *)
(* the file by one without content, sends the index and removes the file.   *)
(* The writer and the tick interleave at every await; any file operation or *)
(* sink call may fail, a sink call also after it took effect; the process   *)
(* or its node may die, which also undoes directory changes that were not   *)
(* synced.  With Renews records arrive without end: the identifier of one    *)
(* that is over is given to a later one.  (The counters, which a failed sync *)
(* makes drift, then drift without bound.)                                  *)
(***************************************************************************)
EXTENDS Integers, Sequences, FiniteSets, FiniteSetsExt, Functions

CONSTANTS
    Records,      \* record ids that are in use at the same time
    Limit,        \* byte budget of the spool, in units of a slim file
    PendingLimit, \* byte budget of the writes that are queued in memory
    MaxCount,     \* limit on records in the spool
    SyncFails,    \* may a directory sync fail after the rename?
    MaxCrashes,   \* bound on crashes
    Renews        \* do later records take the identifiers of those that are over?

ASSUME SpoolAssumption ==
    /\ Records \subseteq Nat /\ IsFiniteSet(Records)
    /\ Limit \in Nat /\ PendingLimit \in Nat /\ MaxCount \in Nat /\ MaxCrashes \in Nat
    /\ SyncFails \in BOOLEAN /\ Renews \in BOOLEAN

VARIABLES
    name,     \* name[r]: place of r's file name among all (a random UUID)
    file,     \* file[r]: none, full, slim (contentDone), bad (unreadable), corrupt (quarantined)
    durable,  \* file as of the last directory sync
    tmp,      \* records with a .json.tmp file
    mem,      \* the Queue object's writer side and counters
    tick,     \* the tick under way
    blob,     \* records whose content is in Blob storage
    law,      \* law[r]: index rows that Log Analytics has for r
    dropped,  \* records that were counted and signalled as dropped
    seen,     \* records handed to enqueue()
    old,      \* records older than the retry period
    crashes, lost   \* crashes so far, and records not yet safely on disk then

vars == <<name, file, durable, tmp, mem, tick, blob, law, dropped, seen, old, crashes, lost>>
disk == <<file, durable, tmp>>
sink == <<blob, law>>
past == <<name, seen, old, crashes, lost>>

Full == 2
Slim == 1
Size(f) == CASE f \in {"full", "bad", "corrupt"} -> Full [] f = "slim" -> Slim [] f = "none" -> 0
Queued(f) == f \in {"full", "slim", "bad"}

NewMem == [up |-> TRUE, ready |-> TRUE, pend |-> << >>, write |-> "idle", diskBytes |-> 0, count |-> 0]
NewTick == [step |-> "idle", at |-> {}, todo |-> {}, wait |-> {}, now |-> {}]

Init ==
    /\ name = [r \in Records |-> r]
    /\ file = [r \in Records |-> "none"] /\ durable = file /\ tmp = {}
    /\ mem = NewMem /\ tick = NewTick
    /\ blob = {} /\ law = [r \in Records |-> {}]
    /\ dropped = {} /\ seen = {} /\ old = {} /\ crashes = 0 /\ lost = {}

InMemory == {mem.pend[i] : i \in 1..Len(mem.pend)}

-----------------------------------------------------------------------------
(* enqueue() and the write it chains to the serial promise. *)

Fits ==
    /\ Full + Full * Len(mem.pend) + mem.diskBytes <= Limit
    /\ Full * Len(mem.pend) + Full <= PendingLimit
    /\ mem.count < MaxCount

\* Mutant: the writes queued in memory are not counted against the budget.
EnqueueUnreserved(r) ==
    /\ mem.up /\ r \notin seen
    /\ seen' = seen \cup {r}
    /\ IF mem.ready /\ Full + mem.diskBytes <= Limit /\ mem.count < MaxCount
       THEN /\ mem' = [mem EXCEPT !.pend = Append(@, r), !.count = @ + 1]
            /\ UNCHANGED dropped
       ELSE /\ dropped' = dropped \cup {r}
            /\ UNCHANGED mem
    /\ UNCHANGED <<disk, tick, sink, name, old, crashes, lost>>

Enqueue(r) ==
    /\ mem.up /\ r \notin seen
    /\ seen' = seen \cup {r}
    /\ IF mem.ready /\ Fits
       THEN /\ mem' = [mem EXCEPT !.pend = Append(@, r), !.count = @ + 1]
            /\ UNCHANGED dropped
       ELSE /\ dropped' = dropped \cup {r}
            /\ UNCHANGED mem
    /\ UNCHANGED <<disk, tick, sink, name, old, crashes, lost>>

\* atomic(): the temporary file is written and synced ...
WriteTemp ==
    /\ mem.up /\ mem.pend # << >> /\ mem.write = "idle"
    /\ tmp' = tmp \cup {Head(mem.pend)}
    /\ mem' = [mem EXCEPT !.write = "temp"]
    /\ UNCHANGED <<file, durable, tick, sink, dropped, past>>

\* ... renamed ...
WriteRename ==
    /\ mem.write = "temp"
    /\ file' = [file EXCEPT ![Head(mem.pend)] = "full"]
    /\ tmp' = tmp \ {Head(mem.pend)}
    /\ mem' = [mem EXCEPT !.write = "renamed"]
    /\ UNCHANGED <<durable, tick, sink, dropped, past>>

Written(m) == [m EXCEPT !.pend = Tail(@), !.write = "idle"]

\* ... and the directory is synced; atomic()'s finally removes the temporary
\* name, whoever's it is by now, and the counters follow.
WriteDone ==
    /\ mem.write = "renamed"
    /\ durable' = file
    /\ tmp' = tmp \ {Head(mem.pend)}
    /\ mem' = [Written(mem) EXCEPT !.diskBytes = @ + Full]
    /\ UNCHANGED <<file, tick, sink, dropped, past>>

\* A step of atomic() fails: before the rename, or syncing the directory.
WriteFail ==
    /\ \/ mem.write = "temp"
       \/ mem.write = "renamed" /\ SyncFails
    /\ tmp' = tmp \ {Head(mem.pend)}
    /\ mem' = [mem EXCEPT !.write = "stat"]
    /\ UNCHANGED <<file, durable, tick, sink, dropped, past>>

\* After a failed write the file is looked for: it may be there all the same.
WriteStat ==
    LET r == Head(mem.pend)
    IN /\ mem.write = "stat"
       /\ IF file[r] # "none"
          THEN /\ mem' = [Written(mem) EXCEPT !.diskBytes = @ + Size(file[r])]
               /\ UNCHANGED dropped
          ELSE /\ mem' = [Written(mem) EXCEPT !.count = @ - 1]
               /\ dropped' = dropped \cup {r}
       /\ UNCHANGED <<disk, tick, sink, past>>

-----------------------------------------------------------------------------
(* tick(): at most one runs; a failure ends it, the file stays. *)

TickStart ==
    /\ mem.up /\ mem.ready /\ tick.step = "idle"
    /\ tick' = [NewTick EXCEPT !.step = "flush", !.wait = InMemory, !.now = old]
    /\ UNCHANGED <<disk, mem, sink, dropped, past>>

\* flush() waits for the writes that were queued when it was called.
TickList ==
    /\ tick.step = "flush" /\ tick.wait \cap InMemory = {}
    /\ tick' = [tick EXCEPT !.step = "next", !.todo = {r \in Records : Queued(file[r])}]
    /\ UNCHANGED <<disk, mem, sink, dropped, past>>

TickEnd ==
    /\ tick.step = "next" /\ tick.todo = {}
    /\ tick' = NewTick
    /\ UNCHANGED <<disk, mem, sink, dropped, past>>

\* The names are sorted; those of records that arrived later may come first.
Take(r) == tick.step = "next" /\ r \in tick.todo /\ \A q \in tick.todo : name[r] <= name[q]

\* A file that cannot be parsed is set aside and does not stop the others.
TickQuarantine(r) ==
    /\ Take(r) /\ file[r] = "bad"
    /\ file' = [file EXCEPT ![r] = "corrupt"]
    /\ mem' = [mem EXCEPT !.count = @ - 1]
    /\ dropped' = dropped \cup {r}
    /\ tick' = [tick EXCEPT !.todo = @ \ {r}]
    /\ UNCHANGED <<durable, tmp, sink, past>>

Onward(r, s) == tick' = [tick EXCEPT !.step = s, !.at = {r}, !.todo = @ \ {r}]

\* Older than 24 h: given up, after an attempt to send a gap index.
TickExpired(r) ==
    /\ Take(r) /\ file[r] # "bad" /\ r \in tick.now
    /\ dropped' = dropped \cup {r}
    /\ Onward(r, "gap")
    /\ UNCHANGED <<disk, mem, sink, past>>

\* Mutant: the index is sent first.
TickReadIndexFirst(r) ==
    /\ Take(r) /\ file[r] # "bad" /\ r \notin tick.now
    /\ Onward(r, "index")
    /\ UNCHANGED <<disk, mem, sink, dropped, past>>

TickRead(r) ==
    /\ Take(r) /\ file[r] # "bad" /\ r \notin tick.now
    /\ Onward(r, IF file[r] = "full" THEN "content" ELSE "index")
    /\ UNCHANGED <<disk, mem, sink, dropped, past>>

At(r, s) == tick.step = s /\ r \in tick.at

\* content(): If-None-Match upload; the same envelope again is a success.
SendContent(r) ==
    /\ At(r, "content")
    /\ blob' = blob \cup {r}
    /\ tick' = [tick EXCEPT !.step = "replace"]
    /\ UNCHANGED <<disk, mem, law, dropped, past>>

\* The checkpoint: the file without its content, again through atomic().
ReplaceTemp(r) ==
    /\ At(r, "replace")
    /\ tmp' = tmp \cup {r}
    /\ tick' = [tick EXCEPT !.step = "rename"]
    /\ UNCHANGED <<file, durable, mem, sink, dropped, past>>

ReplaceDone(r) ==
    /\ At(r, "rename") /\ r \in tmp
    /\ file' = [file EXCEPT ![r] = "slim"] /\ durable' = file' /\ tmp' = tmp \ {r}
    /\ mem' = [mem EXCEPT !.diskBytes = @ + Slim - Full]
    /\ tick' = [tick EXCEPT !.step = "index"]
    /\ UNCHANGED <<sink, dropped, past>>

SendIndex(r) ==
    /\ At(r, "index")
    /\ law' = [law EXCEPT ![r] = @ \cup {"index"}]
    /\ tick' = [tick EXCEPT !.step = "unlink"]
    /\ UNCHANGED <<disk, mem, blob, dropped, past>>

\* Mutant: an expired record is kept until its gap index is accepted.
SendGapRetries(r) ==
    /\ At(r, "gap")
    /\ \/ law' = [law EXCEPT ![r] = @ \cup {"gap"}] /\ tick' = [tick EXCEPT !.step = "unlink"]
       \/ law' = law /\ tick' = NewTick
    /\ UNCHANGED <<disk, mem, blob, dropped, past>>

\* The gap index may fail; the record is removed in either case.
SendGap(r) ==
    /\ At(r, "gap")
    /\ law' \in {law, [law EXCEPT ![r] = @ \cup {"gap"}]}
    /\ tick' = [tick EXCEPT !.step = "unlink"]
    /\ UNCHANGED <<disk, mem, blob, dropped, past>>

Unlink(r) ==
    /\ At(r, "unlink")
    /\ file' = [file EXCEPT ![r] = "none"]
    /\ mem' = [mem EXCEPT !.diskBytes = @ - Size(file[r]), !.count = @ - 1]
    /\ tick' = [tick EXCEPT !.step = "next", !.at = {}]
    /\ UNCHANGED <<durable, tmp, sink, dropped, past>>

\* Mutant: a failed index removes the file all the same.
TickFailRemoves(r) ==
    /\ tick.step \in {"content", "replace", "rename", "index", "unlink"} /\ r \in tick.at
    /\ IF At(r, "index")
       THEN /\ file' = [file EXCEPT ![r] = "none"]
            /\ mem' = [mem EXCEPT !.diskBytes = @ - Size(file[r]), !.count = @ - 1]
       ELSE UNCHANGED <<file, mem>>
    /\ blob' \in {blob, IF At(r, "content") THEN blob \cup {r} ELSE blob}
    /\ law' = law
    /\ tmp' = tmp \ {r}
    /\ tick' = NewTick
    /\ UNCHANGED <<durable, dropped, past>>

\* A step fails and the tick ends.  A sink call may have taken effect, and a
\* replacement may be in place although its directory sync failed.
TickFail(r) ==
    /\ tick.step \in {"content", "replace", "rename", "index", "unlink"} /\ r \in tick.at
    /\ blob' \in {blob, IF At(r, "content") THEN blob \cup {r} ELSE blob}
    /\ law' \in {law, IF At(r, "index") THEN [law EXCEPT ![r] = @ \cup {"index"}] ELSE law}
    /\ file' \in {file, IF At(r, "rename") /\ r \in tmp /\ SyncFails
                        THEN [file EXCEPT ![r] = "slim"] ELSE file}
    /\ tmp' = IF At(r, "rename") THEN tmp \ {r} ELSE tmp
    /\ tick' = NewTick
    /\ UNCHANGED <<durable, mem, dropped, past>>

\* Listing the directory, or reading the next file, fails.
TickReadFail ==
    /\ \/ tick.step = "flush" /\ tick.wait \cap InMemory = {}
       \/ tick.step = "next" /\ tick.todo # {}
    /\ tick' = NewTick
    /\ UNCHANGED <<disk, mem, sink, dropped, past>>

-----------------------------------------------------------------------------
(* Time, disk and process. *)

Expire(r) ==
    /\ r \in seen \ old
    /\ old' = old \cup {r}
    /\ UNCHANGED <<disk, mem, tick, sink, dropped, name, seen, crashes, lost>>

\* Traffic goes on: the identifier of a record that is over stands for a later
\* one from now on, with a name that falls anywhere among the others.
Over(r) ==
    /\ r \in seen /\ file[r] = "none" /\ durable[r] = "none"
    /\ r \notin tmp \cup InMemory \cup tick.at \cup tick.todo

Renew(r) ==
    /\ Renews /\ Over(r)
    /\ name' \in {n \in Bijection(Records, Records) :
                    \A p, q \in Records \ {r} : n[p] < n[q] <=> name[p] < name[q]}
    /\ seen' = seen \ {r} /\ old' = old \ {r} /\ lost' = lost \ {r} /\ dropped' = dropped \ {r}
    /\ blob' = blob \ {r} /\ law' = [law EXCEPT ![r] = {}]
    /\ tick' = [tick EXCEPT !.wait = @ \ {r}, !.now = @ \ {r}]
    /\ UNCHANGED <<disk, mem, crashes>>

\* A spooled file becomes unreadable.
Rot(r) ==
    /\ file[r] = "full" /\ durable[r] = "full" /\ r \notin tick.at
    /\ file' = [file EXCEPT ![r] = "bad"] /\ durable' = [durable EXCEPT ![r] = "bad"]
    /\ UNCHANGED <<tmp, mem, tick, sink, dropped, past>>

\* The process dies, perhaps with its node: directory changes that were not
\* synced may be undone.
Crash ==
    /\ mem.up /\ crashes < MaxCrashes
    /\ \E S \in SUBSET {r \in Records : file[r] # durable[r]} :
         /\ file' = [r \in Records |-> IF r \in S THEN durable[r] ELSE file[r]]
         /\ lost' = lost \cup InMemory \cup {r \in S : durable[r] = "none"}
    /\ durable' = file'
    /\ mem' = [NewMem EXCEPT !.up = FALSE]
    /\ tick' = NewTick
    /\ crashes' = crashes + 1
    /\ UNCHANGED <<tmp, sink, dropped, name, seen, old>>

Bytes == SumFunction([r \in Records |-> Size(file[r])])
Count == Cardinality({r \in Records : Queued(file[r])})

\* Mutant: quarantined files are forgotten at the next start.
RestartForgets ==
    /\ ~mem.up
    /\ tmp' = {} /\ dropped' = dropped \cup tmp
    /\ mem' = [NewMem EXCEPT
                 !.diskBytes = SumFunction([r \in {q \in Records : Queued(file[q])} |-> Size(file[r])]),
                 !.count = Count]
    /\ UNCHANGED <<file, durable, tick, sink, past>>

\* init(): leftovers of interrupted writes go, the rest is counted.
Restart ==
    /\ ~mem.up
    /\ tmp' = {} /\ dropped' = dropped \cup tmp \cup {r \in Records : file[r] = "corrupt"}
    /\ mem' = [NewMem EXCEPT !.diskBytes = Bytes, !.count = Count]
    /\ UNCHANGED <<file, durable, tick, sink, past>>

\* init() fails: the proxy runs on, every capture is counted as dropped.
RestartUnready ==
    /\ ~mem.up
    /\ mem' = [NewMem EXCEPT !.ready = FALSE]
    /\ UNCHANGED <<disk, tick, sink, dropped, past>>

-----------------------------------------------------------------------------
Write == WriteTemp \/ WriteRename \/ WriteDone \/ WriteFail \/ WriteStat

Deliver(r) ==
    \/ TickQuarantine(r) \/ TickExpired(r) \/ TickRead(r)
    \/ SendContent(r) \/ ReplaceTemp(r) \/ ReplaceDone(r) \/ SendIndex(r)
    \/ SendGap(r) \/ Unlink(r)

Next ==
    \/ \E r \in Records : Enqueue(r) \/ Deliver(r) \/ TickFail(r) \/ Expire(r) \/ Rot(r) \/ Renew(r)
    \/ Write
    \/ TickStart \/ TickList \/ TickEnd \/ TickReadFail
    \/ Crash \/ Restart \/ RestartUnready

Spec == Init /\ [][Next]_vars

(* Fairness: promises settle, the interval timer fires, time passes and the  *)
(* container is restarted.  Of the sinks nothing is assumed, they may fail   *)
(* for ever; the local directory can be listed, read and unlinked from if    *)
(* that is tried again and again.                                            *)
Pick(r) == TickQuarantine(r) \/ TickExpired(r) \/ TickRead(r)

Attempt(r) == (tick.at = {r} /\ Deliver(r)) \/ TickFail(r)

Fairness ==
    /\ WF_vars(Write) /\ WF_vars(Restart)
    /\ WF_vars(TickStart) /\ SF_vars(TickList) /\ WF_vars(TickEnd)
    /\ \A r \in Records :
          WF_vars(Expire(r)) /\ SF_vars(Pick(r)) /\ WF_vars(Attempt(r)) /\ SF_vars(Unlink(r))

FairSpec == Spec /\ Fairness

-----------------------------------------------------------------------------
(* Properties. *)

\* Log Analytics never has an index without a gap mark whose content is not in
\* Blob storage: content precedes index through every retry and restart.
IndexAfterContent ==
    \A r \in Records : "index" \in law[r] => r \in blob

\* A captured record is somewhere: in memory, in the spool, indexed, counted
\* as dropped, or it was still in memory, or its directory entry not synced,
\* when the process or its node died.
NothingVanishes ==
    \A r \in seen : \/ r \in InMemory \/ Queued(file[r])
                    \/ "index" \in law[r] \/ r \in dropped \/ r \in lost

Quiet == mem.up /\ mem.ready /\ mem.pend = << >> /\ tick.step \in {"idle", "next"}

\* Whenever no file operation is under way the byte and record counters that
\* admit new records are those of the directory, quarantined files included.
CountersExact ==
    Quiet => mem.diskBytes = Bytes /\ mem.count = Count

\* As long as its node stays up (a crash may bring back a file whose removal
\* was not synced) the spool stays within its budget of bytes and of records.
SpoolWithinLimit ==
    crashes = 0 => Bytes <= Limit /\ Count <= MaxCount

\* Every record leaves the spool when its retry period is over, even if a sink
\* fails for ever and other records are ahead of it.
SpoolDrains ==
    <>[](mem.up /\ mem.ready) => \A r \in Records : Queued(file[r]) ~> ~Queued(file[r])

Younger(r) == \E q \in Records : Queued(file[q]) /\ q \notin old /\ name[q] < name[r]

\* With sinks that fail for ever nothing but younger records keeps a record in the
\* spool: one that never leaves finds, again and again, a record ahead of it that
\* arrived later and is still within its own retry period.  Failing, unreadable
\* and expired records ahead of it do not hold it up for ever.
OnlyYoungerBlock ==
    <>[](mem.up /\ mem.ready) =>
        \A r \in Records : []<>~Queued(file[r]) \/ []<>Younger(r)
=============================================================================
