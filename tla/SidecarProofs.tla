--------------------------- MODULE SidecarProofs ---------------------------
(***************************************************************************)
(* The L3 sidecar, for any records, limits, crashes and turns.              *)
(*  - SpoolQueue: the content of a record is stored before its index, no    *)
(*    captured record vanishes, the counters are those of the directory and *)
(*    the spool stays within its budgets.                                   *)
(*  - L3Capture: the memory budget is exactly what captures and unfinished  *)
(*    frames hold, and a client that waits gets its own answers recorded.   *)
(* Between the two are the facts about sums that both rest on.              *)
(***************************************************************************)
EXTENDS SpoolQueue, L3Capture, FiniteSetTheorems, SequenceTheorems, TLAPS

Files == {"none", "full", "slim", "bad", "corrupt"}

IsMem(m) == m = [up |-> m.up, ready |-> m.ready, pend |-> m.pend, write |-> m.write,
                 diskBytes |-> m.diskBytes, count |-> m.count]

SpoolTyped ==
    /\ file \in [Records -> Files] /\ durable \in [Records -> Files]
    /\ law \in [Records -> SUBSET {"index", "gap"}]
    /\ IsMem(mem)
    /\ tick = [step |-> tick.step, at |-> tick.at, todo |-> tick.todo, wait |-> tick.wait, now |-> tick.now]
    /\ mem.pend \in Seq(Records) /\ tick.at \subseteq Records /\ tick.todo \subseteq Records

\* The writer's position: only a running process writes, and it writes the head.
WriterPlace ==
    /\ mem.write # "idle" => mem.pend # << >>
    /\ ~mem.up => mem.pend = << >>

\* The tick works on one record; those it has still to do are in the spool.
TickPlace ==
    /\ \A r, q \in tick.at : r = q
    /\ \A r \in tick.todo : Queued(file[r]) /\ r \notin tick.at
    /\ tick.step \in {"idle", "flush", "next"} => tick.at = {}

\* A record without its content has it in Blob storage, on disk and at the sinks.
ContentStored ==
    /\ IndexAfterContent
    /\ \A r \in Records : "slim" \in {file[r], durable[r]} => r \in blob
    /\ tick.step \in {"replace", "rename", "index"} => tick.at \subseteq blob

\* What leaves the spool is indexed or counted.
LeavesAccounted ==
    /\ \A r \in Records : "corrupt" \in {file[r], durable[r]} => r \in dropped
    /\ tick.step = "gap" => tick.at \subseteq dropped
    /\ tick.step = "unlink" => \A r \in tick.at : "index" \in law[r] \/ r \in dropped

Kept(r) == Queued(file[r]) \/ "index" \in law[r] \/ r \in dropped \/ r \in lost

\* A record whose write has returned is kept, and so is the one just renamed.
AllKept ==
    /\ seen \subseteq Records
    /\ \A r \in seen : r \in InMemory \/ Kept(r)
    /\ mem.write = "renamed" => Kept(Head(mem.pend))

SpoolInvariant ==
    SpoolTyped /\ WriterPlace /\ TickPlace /\ ContentStored /\ LeavesAccounted /\ AllKept

-----------------------------------------------------------------------------
(* The writer's queue. *)

Of(q) == {q[i] : i \in 1..Len(q)}

\* A queue that gets one more, or loses its head, holds one record more or less.
LEMMA PendingChanges ==
    ASSUME NEW s \in Seq(Records)
    PROVE  /\ \A r \in Records : /\ Append(s, r) \in Seq(Records) /\ Append(s, r) # << >>
                                 /\ Of(Append(s, r)) = Of(s) \cup {r}
                                 /\ s # << >> => Head(Append(s, r)) = Head(s)
           /\ s # << >> => /\ Head(s) \in Records /\ Tail(s) \in Seq(Records) /\ Head(s) \in Of(s)
                           /\ Of(s) = {Head(s)} \cup Of(Tail(s))
<1>. USE DEF Of
<1>1. ASSUME NEW r \in Records
      PROVE  /\ Append(s, r) \in Seq(Records) /\ Append(s, r) # << >>
             /\ Of(Append(s, r)) = Of(s) \cup {r}
             /\ s # << >> => Head(Append(s, r)) = Head(s)
  <2>. DEFINE u == Append(s, r)
  <2>1. /\ u \in Seq(Records) /\ Len(u) = Len(s) + 1 /\ Len(s) \in Nat /\ u # << >>
        /\ u[Len(u)] = r /\ \A i \in 1..Len(s) : u[i] = s[i]
    OBVIOUS
  <2>. HIDE DEF u
  <2>2. Of(u) \subseteq Of(s) \cup {r}
    <3>. SUFFICES ASSUME NEW i \in 1..Len(u) PROVE u[i] \in Of(s) \cup {r}  OBVIOUS
    <3>1. i \in 1..Len(s) \/ i = Len(u)  BY <2>1
    <3>. QED  BY <2>1, <3>1
  <2>3. Of(s) \cup {r} \subseteq Of(u)
    <3>1. r \in Of(u)
      <4>1. Len(u) \in 1..Len(u)  BY <2>1
      <4>. QED  BY <2>1, <4>1
    <3>2. ASSUME NEW i \in 1..Len(s) PROVE s[i] \in Of(u)
      <4>1. i \in 1..Len(u) /\ u[i] = s[i]  BY <2>1
      <4>. QED  BY <4>1
    <3>. QED  BY <3>1, <3>2
  <2>4. s # << >> => Head(u) = Head(s)
    BY DEF u
  <2>. QED  BY <2>1, <2>2, <2>3, <2>4 DEF u
<1>2. ASSUME s # << >>
      PROVE  /\ Head(s) \in Records /\ Tail(s) \in Seq(Records) /\ Head(s) \in Of(s)
             /\ Of(s) = {Head(s)} \cup Of(Tail(s))
  <2>. DEFINE u == Tail(s)
  <2>1. /\ u \in Seq(Records) /\ Len(s) = Len(u) + 1 /\ Len(u) \in Nat
        /\ s[1] = Head(s) /\ Head(s) \in Records /\ \A i \in 1..Len(u) : u[i] = s[i + 1]
    BY <1>2
  <2>. HIDE DEF u
  <2>2. Head(s) \in Of(s)
    <3>1. 1 \in 1..Len(s)  BY <2>1
    <3>. QED  BY <2>1, <3>1
  <2>3. Of(s) \subseteq {Head(s)} \cup Of(u)
    <3>. SUFFICES ASSUME NEW i \in 1..Len(s) PROVE s[i] = Head(s) \/ s[i] \in Of(u)  OBVIOUS
    <3>1. CASE i = 1  BY <2>1, <3>1
    <3>2. CASE i # 1
      <4>1. i - 1 \in 1..Len(u) /\ u[i - 1] = s[i]  BY <2>1, <3>2
      <4>. QED  BY <4>1
    <3>. QED  BY <3>1, <3>2
  <2>4. Of(u) \subseteq Of(s)
    <3>. SUFFICES ASSUME NEW i \in 1..Len(u) PROVE u[i] \in Of(s)  OBVIOUS
    <3>1. i + 1 \in 1..Len(s) /\ u[i] = s[i + 1]  BY <2>1
    <3>. QED  BY <3>1
  <2>. QED  BY <2>1, <2>2, <2>3, <2>4 DEF u
<1>. QED  BY <1>1, <1>2

\* The same for the writer's queue before and after a step.
LEMMA WriterQueue ==
    ASSUME SpoolTyped
    PROVE  /\ \A r \in Records : mem'.pend = Append(mem.pend, r) =>
                /\ mem'.pend \in Seq(Records) /\ mem'.pend # << >> /\ InMemory' = InMemory \cup {r}
                /\ mem.pend # << >> => Head(mem'.pend) = Head(mem.pend)
           /\ mem.pend # << >> => Head(mem.pend) \in Records
           /\ mem.pend # << >> /\ mem'.pend = Tail(mem.pend) =>
                /\ mem'.pend \in Seq(Records) /\ Head(mem.pend) \in InMemory
                /\ InMemory = {Head(mem.pend)} \cup InMemory'
           /\ mem'.pend = mem.pend => InMemory' = InMemory
<1>1. mem.pend \in Seq(Records) /\ InMemory = Of(mem.pend) /\ InMemory' = Of(mem'.pend)
  BY DEF SpoolTyped, InMemory, Of
<1>. QED  BY <1>1, PendingChanges

\* The head is gone and the writer is idle; the counters follow.
LEMMA WrittenIs ==
    ASSUME NEW m, IsMem(m), NEW x, NEW n,
           n = [Written(m) EXCEPT !.diskBytes = x] \/ n = [Written(m) EXCEPT !.count = x]
    PROVE  IsMem(n) /\ n.pend = Tail(m.pend) /\ n.write = "idle" /\ n.up = m.up
<1>1. CASE n = [Written(m) EXCEPT !.diskBytes = x]
  <2>1. n = [[m EXCEPT !.pend = Tail(m.pend), !.write = "idle"] EXCEPT !.diskBytes = x]
    BY <1>1 DEF Written
  <2>. QED  BY <2>1 DEF IsMem
<1>2. CASE n = [Written(m) EXCEPT !.count = x]
  <2>1. n = [[m EXCEPT !.pend = Tail(m.pend), !.write = "idle"] EXCEPT !.count = x]
    BY <1>2 DEF Written
  <2>. QED  BY <2>1 DEF IsMem
<1>. QED  BY <1>1, <1>2

-----------------------------------------------------------------------------
(* Steps keep the invariant. *)

\* The writer's steps.
LEMMA WriteKeeps ==
    ASSUME SpoolInvariant, Write
    PROVE  SpoolInvariant'
<1>. USE DEF SpoolInvariant, SpoolTyped, IsMem, WriterPlace, TickPlace, ContentStored, IndexAfterContent,
             LeavesAccounted, AllKept, Kept, Files, Queued, disk, sink, past
<1>1. CASE WriteTemp
  BY <1>1, WriterQueue DEF WriteTemp
<1>2. CASE WriteRename
  BY <1>2, WriterQueue, SMTT(60) DEF WriteRename
<1>3. CASE WriteDone
  BY <1>3, WriterQueue DEF WriteDone, Written
<1>4. CASE WriteFail
  BY <1>4, WriterQueue DEF WriteFail
<1>5. CASE WriteStat
  <2>. DEFINE r == Head(mem.pend)
  <2>1. /\ mem.write = "stat" /\ mem.pend # << >> /\ mem.up
        /\ \/ /\ file[r] # "none" /\ dropped' = dropped
              /\ mem' = [Written(mem) EXCEPT !.diskBytes = @ + Size(file[r])]
           \/ /\ dropped' = dropped \cup {r}
              /\ mem' = [Written(mem) EXCEPT !.count = @ - 1]
        /\ UNCHANGED <<file, durable, tmp, tick, blob, law, seen, old, crashes, lost>>
    BY <1>5 DEF WriteStat
  <2>3. IsMem(mem') /\ mem'.pend = Tail(mem.pend) /\ mem'.write = "idle" /\ mem'.up = mem.up
    <3>1. IsMem(mem)  OBVIOUS
    <3>. HIDE DEF IsMem
    <3>2. \/ mem' = [Written(mem) EXCEPT !.diskBytes = Written(mem).diskBytes + Size(file[r])]
          \/ mem' = [Written(mem) EXCEPT !.count = Written(mem).count - 1]
      BY <2>1
    <3>. QED  BY ONLY <3>1, <3>2, WrittenIs
  <2>4. /\ mem'.pend \in Seq(Records) /\ InMemory = {r} \cup InMemory' /\ r \in Records
    BY <2>1, <2>3, WriterQueue
  <2>5. file[r] # "none" => Queued(file[r]) \/ r \in dropped
    BY <2>4
  <2>. HIDE DEF r
  <2>6. AllKept'
    BY <2>1, <2>3, <2>4, <2>5
  <2>. QED  BY <2>1, <2>3, <2>4, <2>6
<1>. QED  BY <1>1, <1>2, <1>3, <1>4, <1>5 DEF Write

\* Steps of the tick on one record.
LEMMA DeliverKeeps ==
    ASSUME SpoolInvariant, NEW r \in Records, Deliver(r)
    PROVE  SpoolInvariant'
<1>. USE DEF SpoolInvariant, SpoolTyped, IsMem, WriterPlace, TickPlace, ContentStored, IndexAfterContent,
             LeavesAccounted, AllKept, Kept, Files, Queued, disk, sink, past
<1>1. CASE TickQuarantine(r)
  BY <1>1, WriterQueue, ZenonT(60) DEF TickQuarantine, Take
<1>a. ASSUME tick.step = "next", r \in tick.todo, NEW s \in {"gap", "content", "index"}, Onward(r, s)
      PROVE  /\ tick'.step = s /\ tick'.at = {r} /\ tick'.todo = tick.todo \ {r}
             /\ tick' = [step |-> tick'.step, at |-> tick'.at, todo |-> tick'.todo, wait |-> tick'.wait,
                         now |-> tick'.now]
  <2>1. tick' = [step |-> s, at |-> {r}, todo |-> tick.todo \ {r}, wait |-> tick.wait, now |-> tick.now]
    BY <1>a DEF Onward
  <2>. QED  BY <2>1
<1>2. CASE TickExpired(r)
  <2>1. /\ tick.step = "next" /\ r \in tick.todo /\ dropped' = dropped \cup {r} /\ Onward(r, "gap")
        /\ UNCHANGED <<disk, mem, sink, past>> /\ InMemory' = InMemory
    BY <1>2 DEF TickExpired, Take, InMemory
  <2>2. tick'.step = "gap" /\ tick'.at = {r} /\ tick'.todo = tick.todo \ {r}
    BY <1>a, <2>1
  <2>3. SpoolTyped' /\ WriterPlace' /\ TickPlace'
    BY <1>a, <2>1, <2>2
  <2>4. ContentStored' /\ LeavesAccounted' /\ AllKept'
    BY <2>1, <2>2
  <2>. QED  BY <2>3, <2>4
<1>3. CASE TickRead(r)
  <2>. DEFINE s == IF file[r] = "full" THEN "content" ELSE "index"
  <2>1. /\ tick.step = "next" /\ r \in tick.todo /\ file[r] # "bad" /\ Onward(r, s)
        /\ UNCHANGED <<disk, mem, sink, dropped, past>> /\ InMemory' = InMemory
    BY <1>3 DEF TickRead, Take, InMemory
  <2>2. tick'.step = s /\ tick'.at = {r} /\ tick'.todo = tick.todo \ {r}
    BY <1>a, <2>1
  <2>3. SpoolTyped' /\ WriterPlace' /\ TickPlace'
    BY <1>a, <2>1, <2>2
  <2>4. s = "index" => r \in blob
    BY <2>1
  <2>5. ContentStored' /\ LeavesAccounted' /\ AllKept'
    BY <2>1, <2>2, <2>4
  <2>. QED  BY <2>3, <2>5
<1>4. CASE SendContent(r)
  BY <1>4, WriterQueue DEF SendContent, At
<1>5. CASE ReplaceTemp(r)
  BY <1>5, WriterQueue DEF ReplaceTemp, At
<1>6. CASE ReplaceDone(r)
  BY <1>6, WriterQueue, SMTT(60) DEF ReplaceDone, At
<1>7. CASE SendIndex(r)
  BY <1>7, WriterQueue DEF SendIndex, At
<1>8. CASE SendGap(r)
  BY <1>8, WriterQueue DEF SendGap, At
<1>9. CASE Unlink(r)
  <2>1. /\ tick.step = "unlink" /\ r \in tick.at
        /\ file' = [file EXCEPT ![r] = "none"] /\ tick' = [tick EXCEPT !.step = "next", !.at = {}]
        /\ UNCHANGED <<durable, tmp, sink, dropped, past>>
    BY <1>9 DEF Unlink, At
  <2>2. IsMem(mem') /\ mem'.pend = mem.pend /\ mem'.write = mem.write /\ mem'.up = mem.up
    BY <1>9 DEF Unlink
  <2>3. /\ tick' = [step |-> "next", at |-> {}, todo |-> tick.todo, wait |-> tick.wait, now |-> tick.now]
        /\ tick'.step = "next" /\ tick'.at = {} /\ tick'.todo = tick.todo
    BY <2>1
  <2>4. file' \in [Records -> Files] /\ \A q \in Records : file'[q] = IF q = r THEN "none" ELSE file[q]
    BY <2>1
  <2>5. SpoolTyped' /\ WriterPlace'
    BY <2>1, <2>2, <2>3, <2>4
  <2>6. TickPlace'
    BY <2>1, <2>3, <2>4
  <2>7. ContentStored' /\ LeavesAccounted'
    BY <2>1, <2>3, <2>4
  <2>8. InMemory' = InMemory
    BY <2>2 DEF InMemory
  <2>9. \A q \in Records : Kept(q) => Kept(q)'
    BY <2>1, <2>4
  <2>10. AllKept'
    BY <2>1, <2>2, <2>8, <2>9, WriterQueue
  <2>. QED  BY <2>5, <2>6, <2>7, <2>10
<1>. QED  BY <1>1, <1>2, <1>3, <1>4, <1>5, <1>6, <1>7, <1>8, <1>9 DEF Deliver

\* The other steps of the tick.
LEMMA TickKeeps ==
    ASSUME SpoolInvariant, TickStart \/ TickList \/ TickEnd \/ TickReadFail
    PROVE  SpoolInvariant'
<1>. USE DEF SpoolInvariant, SpoolTyped, IsMem, WriterPlace, TickPlace, ContentStored, IndexAfterContent,
             LeavesAccounted, AllKept, Kept, Files, Queued, disk, sink, past
<1>1. CASE TickStart
  BY <1>1, WriterQueue DEF TickStart, NewTick
<1>2. CASE TickList
  BY <1>2, WriterQueue DEF TickList, NewTick
<1>3. CASE TickEnd
  BY <1>3, WriterQueue DEF TickEnd, NewTick
<1>4. CASE TickReadFail
  BY <1>4, WriterQueue DEF TickReadFail, NewTick
<1>. QED  BY <1>1, <1>2, <1>3, <1>4

\* Captures, failures of the tick, time and the disk.
LEMMA RecordKeeps ==
    ASSUME SpoolInvariant, NEW r \in Records, Enqueue(r) \/ TickFail(r) \/ Expire(r) \/ Rot(r) \/ Renew(r)
    PROVE  SpoolInvariant'
<1>. USE DEF SpoolInvariant, SpoolTyped, IsMem, WriterPlace, TickPlace, ContentStored, IndexAfterContent,
             LeavesAccounted, AllKept, Kept, Files, Queued, disk, sink, past
<1>1. CASE Enqueue(r)
  <2>1. /\ mem.up /\ seen' = seen \cup {r}
        /\ \/ mem' = [mem EXCEPT !.pend = Append(mem.pend, r), !.count = mem.count + 1] /\ dropped' = dropped
           \/ dropped' = dropped \cup {r} /\ mem' = mem
        /\ UNCHANGED <<file, durable, tmp, tick, blob, law, old, crashes, lost>>
    BY <1>1 DEF Enqueue
  <2>2. CASE dropped' = dropped \cup {r} /\ mem' = mem
    BY <2>1, <2>2, WriterQueue
  <2>3. CASE mem' = [mem EXCEPT !.pend = Append(mem.pend, r), !.count = mem.count + 1] /\ dropped' = dropped
    <3>1. /\ mem' = [up |-> mem'.up, ready |-> mem'.ready, pend |-> mem'.pend, write |-> mem'.write,
                     diskBytes |-> mem'.diskBytes, count |-> mem'.count]
          /\ mem'.pend = Append(mem.pend, r) /\ mem'.write = mem.write /\ mem'.up = mem.up
      BY <2>3
    <3>. QED  BY <2>1, <2>3, <3>1, WriterQueue
  <2>. QED  BY <2>1, <2>2, <2>3
<1>2. CASE TickFail(r)
  BY <1>2, WriterQueue DEF TickFail, At, NewTick
<1>3. CASE Expire(r)
  BY <1>3, WriterQueue DEF Expire
<1>4. CASE Rot(r)
  BY <1>4, WriterQueue DEF Rot
<1>5. CASE Renew(r)
  <2>1. /\ file[r] = "none" /\ durable[r] = "none" /\ r \notin InMemory /\ r \notin tick.at
        /\ seen' = seen \ {r} /\ lost' = lost \ {r} /\ dropped' = dropped \ {r} /\ blob' = blob \ {r}
        /\ law' = [law EXCEPT ![r] = {}]
        /\ UNCHANGED <<file, durable, tmp, mem>>
        /\ tick' = [tick EXCEPT !.wait = tick.wait \ {r}, !.now = tick.now \ {r}]
    BY <1>5 DEF Renew, Over
  <2>2. InMemory' = InMemory
    BY <2>1 DEF InMemory
  <2>3. tick'.step = tick.step /\ tick'.at = tick.at /\ tick'.todo = tick.todo
    BY <2>1
  <2>4. SpoolTyped' /\ WriterPlace' /\ TickPlace'
    BY <2>1, <2>3, ZenonT(60)
  <2>5. ContentStored' /\ LeavesAccounted'
    BY <2>1, <2>3
  <2>6. mem.write = "renamed" => Head(mem.pend) \in InMemory
    <3>1. mem.write = "renamed" => mem.pend # << >> /\ mem.pend \in Seq(Records)
      OBVIOUS
    <3>. QED  BY ONLY <3>1 DEF InMemory
  <2>7. AllKept'
    BY <2>1, <2>2, <2>6
  <2>. QED  BY <2>4, <2>5, <2>7
<1>. QED  BY <1>1, <1>2, <1>3, <1>4, <1>5

\* The process dies and starts again.
LEMMA ProcessKeeps ==
    ASSUME SpoolInvariant, Crash \/ Restart \/ RestartUnready
    PROVE  SpoolInvariant'
<1>. USE DEF SpoolInvariant, SpoolTyped, IsMem, WriterPlace, TickPlace, ContentStored, IndexAfterContent,
             LeavesAccounted, AllKept, Kept, Files, Queued, disk, sink, past
<1>1. CASE Crash
  <2>1. PICK S \in SUBSET {r \in Records : file[r] # durable[r]} :
          /\ file' = [r \in Records |-> IF r \in S THEN durable[r] ELSE file[r]]
          /\ lost' = lost \cup InMemory \cup {r \in S : durable[r] = "none"}
    BY <1>1 DEF Crash
  <2>2. /\ mem' = [up |-> FALSE, ready |-> TRUE, pend |-> << >>, write |-> "idle", diskBytes |-> 0, count |-> 0]
        /\ tick' = [step |-> "idle", at |-> {}, todo |-> {}, wait |-> {}, now |-> {}]
        /\ durable' = file' /\ UNCHANGED <<tmp, blob, law, dropped, seen, old>>
    BY <1>1 DEF Crash, NewMem, NewTick
  <2>3. file' \in [Records -> Files]
    BY <2>1
  <2>4. ASSUME NEW r \in Records
        PROVE  /\ file'[r] = file[r] \/ file'[r] = durable[r]
               /\ r \in InMemory \/ Kept(r) => Kept(r)'
    BY <2>1, <2>2
  <2>5. SpoolTyped' /\ WriterPlace' /\ TickPlace'
    BY <2>2, <2>3
  <2>6. ContentStored' /\ LeavesAccounted'
    BY <2>2, <2>4
  <2>7. AllKept'
    BY <2>2, <2>4
  <2>. QED  BY <2>5, <2>6, <2>7
<1>2. CASE Restart
  BY <1>2, WriterQueue DEF Restart, NewMem, InMemory
<1>3. CASE RestartUnready
  BY <1>3, WriterQueue DEF RestartUnready, NewMem, InMemory
<1>. QED  BY <1>1, <1>2, <1>3

LEMMA SpoolBegins == Init => SpoolInvariant
  BY DEF Init, NewMem, NewTick, InMemory, SpoolInvariant, SpoolTyped, IsMem, WriterPlace, TickPlace, ContentStored,
         IndexAfterContent, LeavesAccounted, AllKept, Files

LEMMA SpoolSteps == SpoolInvariant /\ [Next]_vars => SpoolInvariant'
<1>1. ASSUME SpoolInvariant, UNCHANGED vars PROVE SpoolInvariant'
  BY <1>1 DEF vars, SpoolInvariant, SpoolTyped, WriterPlace, TickPlace, ContentStored,
              IndexAfterContent, LeavesAccounted, AllKept, Kept, InMemory
<1>. QED  BY <1>1, WriteKeeps, DeliverKeeps, TickKeeps, RecordKeeps, ProcessKeeps DEF Next

LEMMA SpoolInvariance == Spec => []SpoolInvariant
  BY SpoolBegins, SpoolSteps, PTL DEF Spec

\* queue.ts uploads the content of a record before its index, whichever calls
\* fail after they took effect, are repeated, or are cut off by a restart.
THEOREM ContentFirst == Spec => []IndexAfterContent
<1>1. SpoolInvariant => IndexAfterContent
  BY DEF SpoolInvariant, ContentStored
<1>. QED  BY <1>1, SpoolInvariance, PTL

\* No record that was handed to enqueue() disappears without trace, through
\* failed writes, directory syncs, quarantine, expiry and crashes.
THEOREM RecordsKept == Spec => []NothingVanishes
<1>1. SpoolInvariant => NothingVanishes
  BY DEF SpoolInvariant, AllKept, Kept, NothingVanishes
<1>. QED  BY <1>1, SpoolInvariance, PTL
-----------------------------------------------------------------------------
(***************************************************************************)
(* Sums over finite sets.  The community module defines them by recursion  *)
(* over chosen elements; every statement about all subsets is proved by a  *)
(* smallest set that would contradict it.                                  *)
(***************************************************************************)

\* Among subsets of a finite set there is a smallest one.
LEMMA SmallestSet ==
    ASSUME NEW S, IsFiniteSet(S), NEW B \in SUBSET SUBSET S, B # {}
    PROVE  \E m \in B : \A u \in SUBSET m : u # m => u \notin B
<1>1. IsWellFoundedOn(StrictSubsetOrdering(S), SUBSET S)
  BY FS_StrictSubsetOrderingWellFounded, FS_FiniteSubsetsOfFinite
<1>2. PICK m \in B : \A u \in B : ~ (<<u, m>> \in StrictSubsetOrdering(S))
  BY <1>1, WFMin
<1>3. ASSUME NEW u \in SUBSET m, u # m, u \in B PROVE FALSE
  <2>1. u \in SUBSET S /\ m \in SUBSET S
    OBVIOUS
  <2>2. <<u, m>> \in StrictSubsetOrdering(S)
    BY <1>3, <2>1 DEF StrictSubsetOrdering
  <2> QED BY <1>2, <1>3, <2>2
<1> QED BY <1>3

OneOf(s) == CHOOSE x \in s : TRUE

\* g gives the sums of f over the subsets of S.
Sums(f, S, g) ==
    g = [s \in SUBSET S |-> IF s = {} THEN 0 ELSE f[OneOf(s)] + g[s \ {OneOf(s)}]]

LEMMA SumsAt ==
    ASSUME NEW f, NEW S, NEW g, Sums(f, S, g), NEW s \in SUBSET S
    PROVE  /\ s = {} => g[s] = 0
           /\ s # {} => /\ g[s] = f[OneOf(s)] + g[s \ {OneOf(s)}]
                        /\ OneOf(s) \in s
<1>1. g[s] = IF s = {} THEN 0 ELSE f[OneOf(s)] + g[s \ {OneOf(s)}]
  BY DEF Sums
<1> QED BY <1>1 DEF OneOf

LEMMA SumsAgree ==
    ASSUME NEW f, NEW S, IsFiniteSet(S), NEW A \in SUBSET S, NEW C \in SUBSET S,
           NEW g, Sums(f, A, g), NEW h, Sums(f, C, h), NEW u \in SUBSET (A \cap C)
    PROVE  g[u] = h[u]
<1> DEFINE B == {s \in SUBSET (A \cap C) : g[s] # h[s]}
<1> SUFFICES ASSUME B # {} PROVE FALSE
  OBVIOUS
<1>0. B \in SUBSET SUBSET S
  OBVIOUS
<1>1. PICK m \in B : \A s \in SUBSET m : s # m => s \notin B
  <2> HIDE DEF B
  <2> QED BY <1>0, SmallestSet
<1>2. m # {} /\ OneOf(m) \in m
  BY SumsAt, <1>1
<1>3. m \ {OneOf(m)} \in SUBSET m /\ m \ {OneOf(m)} # m
  BY <1>2
<1>4. g[m \ {OneOf(m)}] = h[m \ {OneOf(m)}]
  BY <1>1, <1>3
<1> QED BY <1>1, <1>2, <1>4, SumsAt

LEMMA SumsExist ==
    ASSUME NEW f, NEW S, IsFiniteSet(S)
    PROVE  \E g : Sums(f, S, g)
<1> DEFINE B == {s \in SUBSET S : ~ \E g : Sums(f, s, g)}
<1> SUFFICES ASSUME B # {} PROVE FALSE
  OBVIOUS
<1>0. B \in SUBSET SUBSET S
  OBVIOUS
<1>1. PICK m \in B : \A s \in SUBSET m : s # m => s \notin B
  <2> HIDE DEF B
  <2> QED BY <1>0, SmallestSet
<1> DEFINE G(s) == CHOOSE g : Sums(f, s, g)
           Less == {s \in SUBSET m : s # m}
           top == IF m = {} THEN 0 ELSE f[OneOf(m)] + G(m \ {OneOf(m)})[m \ {OneOf(m)}]
           h == [s \in SUBSET m |-> IF s = m THEN top ELSE G(s)[s]]
<1>2. \A s \in Less : Sums(f, s, G(s)) /\ s \in SUBSET S
  BY <1>1
<1>3. ASSUME NEW s \in SUBSET m
      PROVE  h[s] = IF s = {} THEN 0 ELSE f[OneOf(s)] + h[s \ {OneOf(s)}]
  <2> DEFINE t == s \ {OneOf(s)}
  <2>1. CASE s = m /\ m = {}
    BY <2>1
  <2>2. CASE s = m /\ m # {}
    <3>1. t \in Less
      BY <2>2 DEF OneOf
    <3>2. h[m] = f[OneOf(m)] + G(t)[t] /\ h[t] = G(t)[t]
      BY <2>2, <3>1
    <3> QED BY <2>2, <3>2
  <2>3. CASE s # m /\ s = {}
    <3>1. h[s] = G(s)[s]
      BY <2>3
    <3> QED BY <1>2, <2>3, <3>1, SumsAt
  <2>4. CASE s # m /\ s # {}
    <3>1. OneOf(s) \in s /\ t \in Less /\ s \in Less
      BY <2>4 DEF OneOf
    <3>2. h[s] = G(s)[s] /\ h[t] = G(t)[t]
      BY <2>4, <3>1
    <3>3. G(s)[s] = f[OneOf(s)] + G(s)[t]
      BY <1>2, <2>4, <3>1, SumsAt
    <3>4. G(s)[t] = G(t)[t]
      <4> HIDE DEF t, G
      <4>1. t \subseteq s
        BY DEF t
      <4>2. s \in SUBSET S /\ t \in SUBSET S /\ t \in SUBSET (s \cap t)
        BY <1>2, <3>1, <4>1
      <4>3. Sums(f, s, G(s)) /\ Sums(f, t, G(t))
        BY <1>2, <3>1
      <4>4. \A a, b : Sums(f, s, a) /\ Sums(f, t, b) => a[t] = b[t]
        BY <4>2, SumsAgree
      <4> QED BY <4>3, <4>4
    <3> QED BY <2>4, <3>2, <3>3, <3>4
  <2> QED BY <2>1, <2>2, <2>3, <2>4
<1>4. Sums(f, m, h)
  <2> DEFINE k == [s \in SUBSET m |-> IF s = {} THEN 0 ELSE f[OneOf(s)] + h[s \ {OneOf(s)}]]
  <2>1. h = [s \in SUBSET m |-> h[s]]
    OBVIOUS
  <2> HIDE DEF h
  <2> QED BY <1>3, <2>1 DEF Sums
<1> QED BY <1>1, <1>4

LEMMA SumUnfolds ==
    ASSUME NEW f, NEW S, IsFiniteSet(S), NEW T \in SUBSET S
    PROVE  /\ SumFunctionOnSet(f, {}) = 0
           /\ T # {} => /\ OneOf(T) \in T
                        /\ SumFunctionOnSet(f, T) = f[OneOf(T)] + SumFunctionOnSet(f, T \ {OneOf(T)})
<1> DEFINE G(s) == CHOOSE g : Sums(f, s, g)
<1>1. \A s : SumFunctionOnSet(f, s) = G(s)[s]
  BY DEF SumFunctionOnSet, FoldFunctionOnSet, MapThenFoldSet, Sums, OneOf
<1>2. \A s \in SUBSET S : Sums(f, s, G(s))
  BY SumsExist, FS_Subset
<1> HIDE DEF G
<1>3. SumFunctionOnSet(f, {}) = 0
  <2>1. G({})[{}] = 0
    BY <1>2, SumsAt, {} \in SUBSET {}, {} \in SUBSET S
  <2> QED BY <1>1, <2>1
<1>4. ASSUME T # {}
      PROVE  /\ OneOf(T) \in T
             /\ SumFunctionOnSet(f, T) = f[OneOf(T)] + SumFunctionOnSet(f, T \ {OneOf(T)})
  <2> DEFINE t == T \ {OneOf(T)}
  <2>1. OneOf(T) \in T /\ G(T)[T] = f[OneOf(T)] + G(T)[t]
    BY <1>2, <1>4, SumsAt
  <2>2. t \in SUBSET S /\ t \in SUBSET (T \cap t)
    OBVIOUS
  <2> HIDE DEF t
  <2>3. G(T)[t] = G(t)[t]
    BY <1>2, <2>2, SumsAgree
  <2> QED BY <1>1, <2>1, <2>3 DEF t
<1> QED BY <1>3, <1>4

\* A sum of naturals is a natural.
LEMMA SumIsNat ==
    ASSUME NEW f, NEW S, IsFiniteSet(S), \A x \in S : f[x] \in Nat
    PROVE  SumFunctionOnSet(f, S) \in Nat
<1> DEFINE B == {s \in SUBSET S : SumFunctionOnSet(f, s) \notin Nat}
<1> SUFFICES ASSUME B # {} PROVE FALSE
  OBVIOUS
<1>0. B \in SUBSET SUBSET S
  OBVIOUS
<1>1. PICK m \in B : \A s \in SUBSET m : s # m => s \notin B
  <2> HIDE DEF B
  <2> QED BY <1>0, SmallestSet
<1>2. m # {}
  <2>1. SumFunctionOnSet(f, {}) = 0
    BY SumUnfolds
  <2>2. SumFunctionOnSet(f, m) \notin Nat
    BY <1>1
  <2> QED BY <2>1, <2>2
<1>3. OneOf(m) \in m /\ SumFunctionOnSet(f, m) = f[OneOf(m)] + SumFunctionOnSet(f, m \ {OneOf(m)})
  BY <1>1, <1>2, SumUnfolds
<1>4. SumFunctionOnSet(f, m \ {OneOf(m)}) \in Nat
  BY <1>1, <1>3
<1> QED BY <1>1, <1>3, <1>4

\* Any element may be taken out of a sum.
LEMMA SumTakesOut ==
    ASSUME NEW f, NEW S, IsFiniteSet(S), \A x \in S : f[x] \in Nat, NEW x \in S
    PROVE  SumFunctionOnSet(f, S) = f[x] + SumFunctionOnSet(f, S \ {x})
<1> DEFINE T(s) == SumFunctionOnSet(f, s)
           B == {s \in SUBSET S : \E y \in s : T(s) # f[y] + T(s \ {y})}
<1> SUFFICES ASSUME B # {} PROVE FALSE
  OBVIOUS
<1>a. \A s \in SUBSET S : T(s) \in Nat
  <2> SUFFICES ASSUME NEW s \in SUBSET S PROVE T(s) \in Nat
    OBVIOUS
  <2> QED BY SumIsNat, FS_Subset
<1>0. B \in SUBSET SUBSET S
  OBVIOUS
<1>1. PICK m \in B : \A s \in SUBSET m : s # m => s \notin B
  <2> HIDE DEF B
  <2> QED BY <1>0, SmallestSet
<1>2. PICK y \in m : T(m) # f[y] + T(m \ {y})
  BY <1>1
<1> DEFINE p == OneOf(m)
<1>3. p \in m /\ T(m) = f[p] + T(m \ {p})
  <2>1. m \in SUBSET S /\ m # {}
    BY <1>0, <1>2
  <2> QED BY <2>1, SumUnfolds
<1>4. \A s \in SUBSET m : s # m => \A z \in s : T(s) = f[z] + T(s \ {z})
  BY <1>1
<1> HIDE DEF T, p, B
<1>5. p # y
  BY <1>2, <1>3
<1>6. T(m \ {p}) = f[y] + T((m \ {p}) \ {y})
  BY <1>2, <1>3, <1>4, <1>5
<1>7. T(m \ {y}) = f[p] + T((m \ {y}) \ {p})
  BY <1>2, <1>3, <1>4, <1>5
<1>8. (m \ {y}) \ {p} = (m \ {p}) \ {y}
  OBVIOUS
<1>9. f[p] \in Nat /\ f[y] \in Nat /\ T((m \ {p}) \ {y}) \in Nat
  BY <1>0, <1>a, <1>2, <1>3
<1> QED BY <1>2, <1>3, <1>6, <1>7, <1>8, <1>9

\* A sum depends only on what is summed.
LEMMA SumsEqual ==
    ASSUME NEW f, NEW g, NEW S, IsFiniteSet(S), \A x \in S : f[x] = g[x]
    PROVE  SumFunctionOnSet(f, S) = SumFunctionOnSet(g, S)
<1> DEFINE B == {s \in SUBSET S : SumFunctionOnSet(f, s) # SumFunctionOnSet(g, s)}
<1> SUFFICES ASSUME B # {} PROVE FALSE
  OBVIOUS
<1>0. B \in SUBSET SUBSET S
  OBVIOUS
<1>1. PICK m \in B : \A s \in SUBSET m : s # m => s \notin B
  <2> HIDE DEF B
  <2> QED BY <1>0, SmallestSet
<1>2. m \in SUBSET S
  OBVIOUS
<1>3. m # {}
  BY <1>1, SumUnfolds
<1>4. /\ OneOf(m) \in m
      /\ SumFunctionOnSet(f, m) = f[OneOf(m)] + SumFunctionOnSet(f, m \ {OneOf(m)})
      /\ SumFunctionOnSet(g, m) = g[OneOf(m)] + SumFunctionOnSet(g, m \ {OneOf(m)})
  BY <1>2, <1>3, SumUnfolds
<1>5. m \ {OneOf(m)} \in SUBSET m /\ m \ {OneOf(m)} # m
  BY <1>4
<1>6. SumFunctionOnSet(f, m \ {OneOf(m)}) = SumFunctionOnSet(g, m \ {OneOf(m)})
  BY <1>1, <1>2, <1>5
<1> QED BY <1>1, <1>2, <1>4, <1>6

\* One value changes, and the sum by as much.
LEMMA SumChanges ==
    ASSUME NEW S, IsFiniteSet(S), NEW x \in S,
           NEW f, \A y \in S : f[y] \in Nat, NEW g, \A y \in S : g[y] \in Nat,
           \A y \in S : y # x => g[y] = f[y]
    PROVE  SumFunctionOnSet(g, S) = SumFunctionOnSet(f, S) + g[x] - f[x]
<1> DEFINE R == S \ {x}
<1>1. IsFiniteSet(R) /\ \A y \in R : f[y] \in Nat /\ g[y] = f[y]
  BY FS_RemoveElement
<1>2. SumFunctionOnSet(f, R) \in Nat /\ SumFunctionOnSet(g, R) = SumFunctionOnSet(f, R)
  <2> HIDE DEF R
  <2>1. SumFunctionOnSet(f, R) \in Nat
    BY <1>1, SumIsNat
  <2>2. SumFunctionOnSet(g, R) = SumFunctionOnSet(f, R)
    BY <1>1, SumsEqual
  <2> QED BY <2>1, <2>2
<1>3. SumFunctionOnSet(f, S) = f[x] + SumFunctionOnSet(f, R)
  BY SumTakesOut
<1>4. SumFunctionOnSet(g, S) = g[x] + SumFunctionOnSet(g, R)
  BY SumTakesOut
<1>5. f[x] \in Nat /\ g[x] \in Nat
  OBVIOUS
<1> HIDE DEF R
<1> QED BY <1>2, <1>3, <1>4, <1>5

\* A sum over the two parts of a set.
LEMMA SumSplits ==
    ASSUME NEW f, NEW S, IsFiniteSet(S), \A x \in S : f[x] \in Nat, NEW A \in SUBSET S
    PROVE  SumFunctionOnSet(f, S) = SumFunctionOnSet(f, A) + SumFunctionOnSet(f, S \ A)
<1> DEFINE T(s) == SumFunctionOnSet(f, s)
           B == {s \in SUBSET S : T(s) # T(s \cap A) + T(s \ A)}
<1> SUFFICES ASSUME B # {} PROVE FALSE
  <2>1. S \cap A = A /\ S \in SUBSET S
    OBVIOUS
  <2> HIDE DEF T
  <2>2. B = {} => T(S) = T(S \cap A) + T(S \ A)
    BY <2>1
  <2> QED BY <2>1, <2>2 DEF T
<1>a. \A s \in SUBSET S : T(s) \in Nat
  <2> SUFFICES ASSUME NEW s \in SUBSET S PROVE T(s) \in Nat
    OBVIOUS
  <2> QED BY SumIsNat, FS_Subset
<1>b. \A s \in SUBSET S : \A x \in s : T(s) = f[x] + T(s \ {x})
  <2> SUFFICES ASSUME NEW s \in SUBSET S, NEW x \in s PROVE T(s) = f[x] + T(s \ {x})
    OBVIOUS
  <2> QED BY SumTakesOut, FS_Subset
<1>c. T({}) = 0
  BY SumUnfolds
<1>0. B \in SUBSET SUBSET S
  OBVIOUS
<1>1. PICK m \in B : \A s \in SUBSET m : s # m => s \notin B
  <2> HIDE DEF B
  <2> QED BY <1>0, SmallestSet
<1> HIDE DEF T
<1>2. m \in SUBSET S /\ T(m) # T(m \cap A) + T(m \ A)
  BY <1>1
<1>3. m # {}
  <2>1. ASSUME m = {} PROVE FALSE
    <3>1. m \cap A = {} /\ m \ A = {}
      BY <2>1
    <3> QED BY <1>2, <1>c, <2>1, <3>1
  <2> QED BY <2>1
<1>4. PICK x \in m : TRUE
  BY <1>3
<1> DEFINE n == m \ {x}
<1>5. T(n) = T(n \cap A) + T(n \ A)
  BY <1>1, <1>2
<1>6. T(m) = f[x] + T(n)
  BY <1>b, <1>2
<1>7. CASE x \in A
  <2>1. T(m \cap A) = f[x] + T((m \cap A) \ {x})
    BY <1>b, <1>2, <1>7
  <2>2. T((m \cap A) \ {x}) = T(n \cap A) /\ T(m \ A) = T(n \ A)
    <3>1. (m \cap A) \ {x} = n \cap A /\ m \ A = n \ A
      BY <1>7
    <3> QED BY <3>1
  <2>3. f[x] \in Nat /\ T(n \cap A) \in Nat /\ T(n \ A) \in Nat
    BY <1>a, <1>2
  <2> HIDE DEF n
  <2> QED BY <1>2, <1>5, <1>6, <2>1, <2>2, <2>3
<1>8. CASE x \notin A
  <2>1. T(m \ A) = f[x] + T((m \ A) \ {x})
    BY <1>b, <1>2, <1>8
  <2>2. T((m \ A) \ {x}) = T(n \ A) /\ T(m \cap A) = T(n \cap A)
    <3>1. (m \ A) \ {x} = n \ A /\ m \cap A = n \cap A
      BY <1>8
    <3> QED BY <3>1
  <2>3. f[x] \in Nat /\ T(n \cap A) \in Nat /\ T(n \ A) \in Nat
    BY <1>a, <1>2
  <2> HIDE DEF n
  <2> QED BY <1>2, <1>5, <1>6, <2>1, <2>2, <2>3
<1> QED BY <1>7, <1>8

LEMMA SumOfZeros ==
    ASSUME NEW f, NEW S, IsFiniteSet(S), \A x \in S : f[x] = 0
    PROVE  SumFunctionOnSet(f, S) = 0
<1> DEFINE B == {s \in SUBSET S : SumFunctionOnSet(f, s) # 0}
<1> SUFFICES ASSUME B # {} PROVE FALSE
  OBVIOUS
<1>0. B \in SUBSET SUBSET S
  OBVIOUS
<1>1. PICK m \in B : \A s \in SUBSET m : s # m => s \notin B
  <2> HIDE DEF B
  <2> QED BY <1>0, SmallestSet
<1>2. m \in SUBSET S /\ SumFunctionOnSet(f, m) # 0
  BY <1>1
<1>3. m # {}
  BY <1>2, SumUnfolds
<1>4. /\ OneOf(m) \in m
      /\ SumFunctionOnSet(f, m) = f[OneOf(m)] + SumFunctionOnSet(f, m \ {OneOf(m)})
  BY <1>2, <1>3, SumUnfolds
<1>5. SumFunctionOnSet(f, m \ {OneOf(m)}) = 0
  BY <1>1, <1>2, <1>4
<1> QED BY <1>2, <1>4, <1>5

-----------------------------------------------------------------------------
(***************************************************************************)
(* SpoolQueue: the counters are those of the directory.                     *)
(***************************************************************************)

\* A record is queued in memory once, and then its file is not there before
\* the writer has renamed it.
QueuedOnce ==
    /\ mem.write \in {"idle", "temp", "renamed", "stat"}
    /\ \A i, j \in 1..Len(mem.pend) : mem.pend[i] = mem.pend[j] => i = j
    /\ InMemory \subseteq seen
    /\ \A r \in Records \ seen : file[r] = "none" /\ durable[r] = "none"
    /\ \A r \in InMemory : file[r] = "none" \/ (mem.write = "renamed" /\ r = Head(mem.pend))

\* The record of the tick is still in the spool, with what the tick read of it.
TickHolds ==
    /\ tick.step \in {"content", "replace", "rename"} => \A r \in tick.at : file[r] = "full"
    /\ tick.step \in {"index", "unlink", "gap"} => \A r \in tick.at : Queued(file[r])
    /\ ~ (mem.up /\ mem.ready) => mem.pend = << >> /\ tick.step = "idle"

\* The write whose file is there but not yet counted.
Landed == IF mem.write = "renamed" THEN 1 ELSE 0

\* The counters are those of the directory and of the writes under way.
CountersFollow ==
    /\ mem.diskBytes \in Int /\ mem.count \in Int /\ crashes \in Nat
    /\ mem.up /\ mem.ready => /\ Bytes = mem.diskBytes + Full * Landed
                              /\ mem.count = Count + Len(mem.pend) - Landed

\* What is admitted fits beside what is there and what is queued.
RoomKept ==
    crashes = 0 => /\ mem.up /\ mem.ready
                   /\ mem.diskBytes + Full * Len(mem.pend) <= Limit /\ mem.count <= MaxCount

CountersInvariant == QueuedOnce /\ TickHolds /\ CountersFollow /\ RoomKept

\* What a file adds to the count.
Counted(f) == IF Queued(f) THEN 1 ELSE 0

LEMMA SizesAre ==
    \A f \in Files : Size(f) = (IF f = "none" THEN 0 ELSE IF f = "slim" THEN 1 ELSE 2)
BY DEF Files, Size, Full, Slim

\* One file changes: the bytes and the records of the directory follow.
LEMMA DirectoryChanges ==
    ASSUME SpoolTyped, NEW r \in Records, NEW v \in Files, file' = [file EXCEPT ![r] = v]
    PROVE  /\ Bytes \in Nat /\ Bytes' = Bytes + Size(v) - Size(file[r])
           /\ Count \in Nat /\ Count' = Count + Counted(v) - Counted(file[r])
<1> DEFINE f == [q \in Records |-> Size(file[q])]
           g == [q \in Records |-> Size(file'[q])]
           A == {q \in Records : Queued(file[q])}
           B == {q \in Records : Queued(file'[q])}
<1>1. /\ file \in [Records -> Files] /\ file[r] \in Files
      /\ file'[r] = v /\ \A q \in Records : q # r => file'[q] = file[q]
      /\ IsFiniteSet(Records)
  BY SpoolAssumption DEF SpoolTyped
<1>2. Bytes = SumFunctionOnSet(f, Records) /\ Bytes' = SumFunctionOnSet(g, Records)
  BY DEF Bytes, SumFunction
<1>3. /\ \A q \in Records : f[q] \in Nat /\ g[q] \in Nat
      /\ \A q \in Records : q # r => g[q] = f[q]
      /\ f[r] = Size(file[r]) /\ g[r] = Size(v)
  <2>1. \A q \in Records : file[q] \in Files /\ file'[q] \in Files
    BY <1>1
  <2> QED BY <1>1, <2>1, SizesAre
<1> HIDE DEF f, g
<1>4. SumFunctionOnSet(f, Records) \in Nat
  BY <1>1, <1>3, SumIsNat
<1>5. SumFunctionOnSet(g, Records) = SumFunctionOnSet(f, Records) + g[r] - f[r]
  BY <1>1, <1>3, SumChanges
<1>6. IsFiniteSet(A) /\ Cardinality(A) \in Nat /\ Count = Cardinality(A) /\ Count' = Cardinality(B)
  <2>1. IsFiniteSet(A)
    BY <1>1, FS_Subset
  <2>2. Cardinality(A) \in Nat
    BY <2>1, FS_CardinalityType
  <2> QED BY <2>1, <2>2 DEF Count
<1>7. Cardinality(B) = Cardinality(A) + Counted(v) - Counted(file[r])
  <2>1. CASE Queued(v) <=> Queued(file[r])
    <3>1. A = B
      BY <1>1, <2>1
    <3>2. Counted(v) = Counted(file[r]) /\ Counted(v) \in Int
      BY <2>1 DEF Counted
    <3>3. Cardinality(B) = Cardinality(A)
      BY <3>1
    <3> HIDE DEF A, B
    <3> QED BY <1>6, <3>2, <3>3
  <2>2. CASE Queued(v) /\ ~Queued(file[r])
    <3>1. B = A \cup {r} /\ r \notin A
      BY <1>1, <2>2
    <3> HIDE DEF A, B
    <3>2. Cardinality(B) = Cardinality(A) + 1
      BY <1>6, <3>1, FS_AddElement
    <3> QED BY <1>6, <2>2, <3>2 DEF Counted
  <2>3. CASE ~Queued(v) /\ Queued(file[r])
    <3>1. B = A \ {r} /\ r \in A
      BY <1>1, <2>3
    <3> HIDE DEF A, B
    <3>2. Cardinality(B) = Cardinality(A) - 1
      BY <1>6, <3>1, FS_RemoveElement
    <3> QED BY <1>6, <2>3, <3>2 DEF Counted
  <2> QED BY <2>1, <2>2, <2>3
<1> QED BY <1>2, <1>3, <1>4, <1>5, <1>6, <1>7

LEMMA DirectoryTyped ==
    ASSUME SpoolTyped PROVE Bytes \in Nat /\ Count \in Nat
<1> DEFINE f == [q \in Records |-> Size(file[q])]
<1>1. Bytes = SumFunctionOnSet(f, Records) /\ \A q \in Records : f[q] \in Nat
  BY SizesAre DEF SpoolTyped, Bytes, SumFunction
<1> HIDE DEF f
<1>2. Bytes \in Nat
  BY <1>1, SumIsNat, SpoolAssumption
<1>3. IsFiniteSet({q \in Records : Queued(file[q])})
  BY SpoolAssumption, FS_Subset
<1> QED BY <1>2, <1>3, FS_CardinalityType DEF Count

\* A queue without a record twice stays so.
LEMMA QueueOnce ==
    ASSUME NEW s \in Seq(Records), \A i, j \in 1..Len(s) : s[i] = s[j] => i = j
    PROVE  /\ Len(s) \in Nat /\ (s = << >> <=> Len(s) = 0)
           /\ \A r \in Records \ Of(s) : LET u == Append(s, r)
                IN Len(u) = Len(s) + 1 /\ \A i, j \in 1..Len(u) : u[i] = u[j] => i = j
           /\ s # << >> => LET u == Tail(s)
                IN /\ Len(u) = Len(s) - 1 /\ \A i, j \in 1..Len(u) : u[i] = u[j] => i = j
                   /\ Head(s) \notin Of(u)
<1>1. Len(s) \in Nat /\ (s = << >> <=> Len(s) = 0)
  BY EmptySeq
<1>2. ASSUME NEW r \in Records \ Of(s)
      PROVE  LET u == Append(s, r)
             IN Len(u) = Len(s) + 1 /\ \A i, j \in 1..Len(u) : u[i] = u[j] => i = j
  <2> DEFINE u == Append(s, r)
             n == Len(s)
  <2>1. n \in Nat /\ Len(u) = n + 1 /\ u[n + 1] = r /\ \A i \in 1..n : u[i] = s[i] /\ u[i] # r
    BY <1>2 DEF Of
  <2>2. \A i, j \in 1..n : s[i] = s[j] => i = j
    OBVIOUS
  <2> HIDE DEF u, n
  <2>3. ASSUME NEW i \in 1..Len(u), NEW j \in 1..Len(u), u[i] = u[j] PROVE i = j
    <3>1. (i \in 1..n \/ i = n + 1) /\ (j \in 1..n \/ j = n + 1)
      BY <2>1
    <3> QED BY <2>1, <2>2, <2>3, <3>1
  <2> QED BY <2>1, <2>3 DEF u, n
<1>3. ASSUME s # << >>
      PROVE  LET u == Tail(s)
             IN /\ Len(u) = Len(s) - 1 /\ \A i, j \in 1..Len(u) : u[i] = u[j] => i = j
                /\ Head(s) \notin Of(u)
  <2> DEFINE u == Tail(s)
             n == Len(s)
  <2>1. n \in Nat /\ n # 0 /\ Len(u) = n - 1 /\ Head(s) = s[1] /\ \A i \in 1..(n - 1) : u[i] = s[i + 1]
    BY <1>1, <1>3
  <2>2. \A i, j \in 1..n : s[i] = s[j] => i = j
    OBVIOUS
  <2> HIDE DEF u, n
  <2>3. ASSUME NEW i \in 1..Len(u), NEW j \in 1..Len(u), u[i] = u[j] PROVE i = j
    <3>1. i + 1 \in 1..n /\ j + 1 \in 1..n /\ s[i + 1] = s[j + 1] /\ i \in Int /\ j \in Int
      BY <2>1, <2>3
    <3>2. i + 1 = j + 1
      BY <2>2, <3>1
    <3> QED BY <3>1, <3>2
  <2>4. ASSUME NEW i \in 1..Len(u), u[i] = Head(s) PROVE FALSE
    <3>1. i + 1 \in 1..n /\ 1 \in 1..n /\ s[i + 1] = s[1] /\ i \in Nat /\ i # 0
      BY <2>1, <2>4
    <3>2. i + 1 = 1
      BY <2>2, <3>1
    <3> QED BY <3>1, <3>2
  <2> QED BY <2>1, <2>3, <2>4 DEF u, n, Of
<1> QED BY <1>1, <1>2, <1>3

-----------------------------------------------------------------------------
(* Steps keep the counters. *)

SpoolCounters == SpoolInvariant /\ CountersInvariant

\* The tick moves on and leaves files and counters alone.
LEMMA TickMoves ==
    ASSUME SpoolCounters, UNCHANGED <<file, durable, mem, seen, crashes>>, TickHolds'
    PROVE  CountersInvariant'
<1>1. InMemory' = InMemory /\ Bytes' = Bytes /\ Count' = Count /\ Landed' = Landed
  BY DEF InMemory, Bytes, Count, Landed
<1>2. QueuedOnce'
  BY <1>1 DEF SpoolCounters, CountersInvariant, QueuedOnce
<1>3. CountersFollow' /\ RoomKept'
  BY <1>1 DEF SpoolCounters, CountersInvariant, CountersFollow, RoomKept
<1> QED BY <1>2, <1>3 DEF CountersInvariant

\* A spooled file changes, and the counters with it.
LEMMA FileMoves ==
    ASSUME SpoolCounters, NEW r \in Records, NEW v \in Files, file[r] # "none",
           file' = [file EXCEPT ![r] = v], UNCHANGED <<seen, crashes>>,
           \A q \in Records : q # r => durable'[q] \in {durable[q], file[q]},
           mem'.up = mem.up /\ mem'.ready = mem.ready /\ mem'.pend = mem.pend /\ mem'.write = mem.write,
           mem'.diskBytes = mem.diskBytes + Size(v) - Size(file[r]),
           mem'.count = mem.count + Counted(v) - Counted(file[r]),
           Size(v) <= Size(file[r]), Counted(v) <= Counted(file[r]),
           TickHolds'
    PROVE  CountersInvariant'
<1>1. SpoolTyped /\ QueuedOnce /\ CountersFollow /\ RoomKept
  BY DEF SpoolCounters, SpoolInvariant, CountersInvariant
<1>2. InMemory' = InMemory /\ Landed' = Landed
  BY DEF InMemory, Landed
<1>3. /\ file'[r] = v /\ \A q \in Records : q # r => file'[q] = file[q]
      /\ file[r] \in Files /\ r \in seen /\ InMemory \subseteq Records
  BY <1>1 DEF SpoolTyped, QueuedOnce, InMemory
<1>4. QueuedOnce'
  BY <1>1, <1>2, <1>3 DEF QueuedOnce
<1>5. /\ Bytes \in Nat /\ Bytes' = Bytes + Size(v) - Size(file[r])
      /\ Count \in Nat /\ Count' = Count + Counted(v) - Counted(file[r])
  BY <1>1, DirectoryChanges
<1>6. /\ Size(v) \in Int /\ Size(file[r]) \in Int /\ Counted(v) \in Int /\ Counted(file[r]) \in Int
      /\ Landed \in Int /\ Len(mem.pend) \in Nat /\ Limit \in Nat /\ MaxCount \in Nat /\ Full = 2
  BY <1>1, <1>3, SizesAre, SpoolAssumption DEF Counted, Landed, SpoolTyped, Full
<1>7. mem'.diskBytes \in Int /\ mem'.count \in Int /\ mem'.diskBytes <= mem.diskBytes /\ mem'.count <= mem.count
  <2>1. mem.diskBytes \in Int /\ mem.count \in Int
    BY <1>1 DEF CountersFollow
  <2>2. /\ mem'.diskBytes = mem.diskBytes + Size(v) - Size(file[r])
        /\ mem'.count = mem.count + Counted(v) - Counted(file[r])
        /\ Size(v) <= Size(file[r]) /\ Counted(v) <= Counted(file[r])
    OBVIOUS
  <2> QED BY ONLY <1>6, <2>1, <2>2, SMTT(30)
<1>8. ASSUME mem'.up, mem'.ready
      PROVE  Bytes' = mem'.diskBytes + Full * Landed' /\ mem'.count = Count' + Len(mem'.pend) - Landed'
  <2>1. /\ Bytes = mem.diskBytes + Full * Landed /\ mem.count = Count + Len(mem.pend) - Landed
        /\ mem.diskBytes \in Int /\ mem.count \in Int
    BY <1>1, <1>8 DEF CountersFollow
  <2>2. /\ mem'.diskBytes = mem.diskBytes + Size(v) - Size(file[r]) /\ mem'.pend = mem.pend
        /\ mem'.count = mem.count + Counted(v) - Counted(file[r])
    OBVIOUS
  <2>3. Full * Landed' = Full * Landed /\ Full * Landed \in Int
    BY ONLY <1>2, <1>6 DEF Full
  <2>4. Bytes' = mem'.diskBytes + Full * Landed'
    <3>1. Bytes = mem.diskBytes + Full * Landed' /\ Full * Landed' \in Int
      BY <2>1, <2>3
    <3> DEFINE p == Full * Landed'
    <3> HIDE DEF p
    <3>2. Bytes = mem.diskBytes + p /\ p \in Int /\ mem.diskBytes \in Int
      BY <2>1, <3>1 DEF p
    <3>3. Bytes' = mem'.diskBytes + p
      BY ONLY <1>5, <1>6, <2>2, <3>2, SMTT(60)
    <3> QED BY <3>3 DEF p
  <2>5. mem'.count = Count' + Len(mem'.pend) - Landed'
    BY ONLY <1>2, <1>5, <1>6, <2>1, <2>2
  <2> QED BY <2>4, <2>5
<1>9. CountersFollow'
  BY <1>1, <1>7, <1>8 DEF CountersFollow
<1>10. RoomKept'
  <2>1. mem.diskBytes \in Int /\ mem.count \in Int
    BY <1>1 DEF CountersFollow
  <2> SUFFICES ASSUME crashes' = 0
               PROVE  /\ mem'.up /\ mem'.ready
                      /\ mem'.diskBytes + Full * Len(mem'.pend) <= Limit /\ mem'.count <= MaxCount
    BY DEF RoomKept
  <2>2. /\ mem.up /\ mem.ready
        /\ mem.diskBytes + Full * Len(mem.pend) <= Limit /\ mem.count <= MaxCount
    BY <1>1 DEF RoomKept
  <2>3. mem'.up = mem.up /\ mem'.ready = mem.ready /\ mem'.pend = mem.pend
    OBVIOUS
  <2>4. mem'.up /\ mem'.ready /\ mem'.count <= MaxCount
    BY ONLY <1>6, <1>7, <2>1, <2>2, <2>3
  <2>5. mem'.diskBytes + Full * Len(mem'.pend) <= Limit
    BY ONLY <1>6, <1>7, <2>1, <2>2, <2>3, SMTT(60) DEF Full
  <2> QED BY <2>4, <2>5
<1> QED BY <1>4, <1>9, <1>10 DEF CountersInvariant

\* The writer.
LEMMA WriteCounts ==
    ASSUME ~SyncFails, SpoolCounters, Write
    PROVE  CountersInvariant'
<1> DEFINE h == Head(mem.pend)
<1>1. /\ SpoolTyped /\ IsMem(mem) /\ WriterPlace /\ QueuedOnce /\ TickHolds /\ CountersFollow /\ RoomKept
      /\ mem.pend \in Seq(Records) /\ file \in [Records -> Files] /\ InMemory = Of(mem.pend)
      /\ mem.diskBytes \in Int /\ mem.count \in Int
  BY DEF SpoolCounters, SpoolInvariant, SpoolTyped, CountersInvariant, CountersFollow, InMemory, Of
<1>2. /\ UNCHANGED <<tick, seen, crashes>>
      /\ mem.pend # << >>
  BY <1>1 DEF Write, WriteTemp, WriteRename, WriteDone, WriteFail, WriteStat, past, disk, sink, WriterPlace
<1>3. /\ h \in InMemory /\ h \in Records
      /\ Tail(mem.pend) \in Seq(Records) /\ InMemory = {h} \cup Of(Tail(mem.pend)) /\ h \notin Of(Tail(mem.pend))
      /\ Len(mem.pend) \in Nat /\ Len(mem.pend) # 0 /\ Len(Tail(mem.pend)) = Len(mem.pend) - 1
      /\ \A i, j \in 1..Len(Tail(mem.pend)) : Tail(mem.pend)[i] = Tail(mem.pend)[j] => i = j
  <2>1. \A i, j \in 1..Len(mem.pend) : mem.pend[i] = mem.pend[j] => i = j
    BY <1>1 DEF QueuedOnce
  <2>2. /\ Len(mem.pend) \in Nat /\ Len(mem.pend) # 0 /\ Len(Tail(mem.pend)) = Len(mem.pend) - 1
        /\ \A i, j \in 1..Len(Tail(mem.pend)) : Tail(mem.pend)[i] = Tail(mem.pend)[j] => i = j
        /\ h \notin Of(Tail(mem.pend))
    BY <1>1, <1>2, <2>1, QueueOnce
  <2> QED BY <1>1, <1>2, <2>2, PendingChanges
<1>4. Full = 2 /\ Limit \in Nat /\ MaxCount \in Nat /\ Size("none") = 0 /\ Size("full") = 2
      /\ Counted("none") = 0 /\ Counted("full") = 1
  BY SpoolAssumption, SizesAre DEF Full, Counted, Queued, Files
<1>5. Bytes \in Nat /\ Count \in Nat
  BY <1>1, DirectoryTyped
<1> HIDE DEF h
\* The writer marks its place; nothing is there yet, nothing is counted.
<1>6. ASSUME NEW w \in {"temp", "stat"}, mem.write \in {"idle", "temp"}, mem' = [mem EXCEPT !.write = w],
             UNCHANGED <<file, durable>>
      PROVE  CountersInvariant'
  <2>1. /\ mem'.up = mem.up /\ mem'.ready = mem.ready /\ mem'.pend = mem.pend /\ mem'.write = w
        /\ mem'.diskBytes = mem.diskBytes /\ mem'.count = mem.count
    BY <1>1, <1>6 DEF IsMem
  <2>2. InMemory' = InMemory /\ Bytes' = Bytes /\ Count' = Count /\ Landed' = 0 /\ Landed = 0
    BY <1>6, <2>1 DEF InMemory, Bytes, Count, Landed
  <2>3. QueuedOnce'
    BY <1>1, <1>2, <1>6, <2>1, <2>2 DEF QueuedOnce
  <2>4. TickHolds'
    BY <1>1, <1>2, <1>6, <2>1 DEF TickHolds
  <2>5. CountersFollow' /\ RoomKept'
    BY <1>1, <1>2, <2>1, <2>2 DEF CountersFollow, RoomKept
  <2> QED BY <2>3, <2>4, <2>5 DEF CountersInvariant
<1>7. CASE WriteTemp
  BY <1>6, <1>7 DEF WriteTemp
<1>8. CASE WriteFail
  BY <1>6, <1>8 DEF WriteFail
\* The file appears.
<1>9. CASE WriteRename
  <2>1. /\ mem.write = "temp" /\ file' = [file EXCEPT ![h] = "full"] /\ durable' = durable
        /\ mem' = [mem EXCEPT !.write = "renamed"]
    BY <1>9 DEF WriteRename, h
  <2>2. /\ mem'.up = mem.up /\ mem'.ready = mem.ready /\ mem'.pend = mem.pend /\ mem'.write = "renamed"
        /\ mem'.diskBytes = mem.diskBytes /\ mem'.count = mem.count
    BY <1>1, <2>1 DEF IsMem
  <2>3. file[h] = "none" /\ h \in seen
    BY <1>1, <1>3, <2>1 DEF QueuedOnce
  <2>4. Bytes' = Bytes + 2 /\ Count' = Count + 1
    <3>1. /\ Bytes' = Bytes + Size("full") - Size(file[h])
          /\ Count' = Count + Counted("full") - Counted(file[h])
      BY <1>1, <1>3, <2>1, DirectoryChanges DEF Files
    <3> QED BY <1>4, <1>5, <2>3, <3>1
  <2>5. InMemory' = InMemory /\ Landed' = 1 /\ Landed = 0
    BY <2>1, <2>2 DEF InMemory, Landed
  <2>6. \A r \in Records : file'[r] = IF r = h THEN "full" ELSE file[r]
    BY <1>1, <1>3, <2>1
  <2>7. QueuedOnce'
    <3>1. Head(mem'.pend) = h
      BY <2>2 DEF h
    <3>2. \A r \in InMemory : r \in Records /\ file[r] = "none"
      BY <1>1, <1>3, <2>1 DEF QueuedOnce, Of
    <3>3. mem'.write \in {"idle", "temp", "renamed", "stat"}
      BY <2>2
    <3> QED BY <1>1, <1>2, <2>1, <2>2, <2>3, <2>5, <2>6, <3>1, <3>2, <3>3 DEF QueuedOnce
  <2>8. TickHolds'
    <3>1. tick.at \subseteq Records /\ Queued("full")
      BY <1>1 DEF SpoolTyped, Queued
    <3> QED BY <1>1, <1>2, <2>2, <2>6, <3>1 DEF TickHolds
  <2>9. CountersFollow'
    <3>1. ASSUME mem'.up, mem'.ready
          PROVE  Bytes' = mem'.diskBytes + Full * Landed' /\ mem'.count = Count' + Len(mem'.pend) - Landed'
      <4>1. Bytes = mem.diskBytes + Full * Landed /\ mem.count = Count + Len(mem.pend) - Landed
        BY <1>1, <2>2, <3>1 DEF CountersFollow
      <4>2. Full * Landed = 0 /\ Full * Landed' = 2
        BY ONLY <2>5 DEF Full
      <4>3. mem.diskBytes \in Int /\ mem.count \in Int /\ Len(mem.pend) \in Nat
        BY <1>1, <1>3
      <4>4. Bytes' = mem'.diskBytes + Full * Landed'
        BY ONLY <1>5, <2>2, <2>4, <4>1, <4>2, <4>3
      <4>5. mem'.count = Count' + Len(mem'.pend) - Landed'
        <5>1. Len(mem'.pend) = Len(mem.pend) /\ mem'.count = mem.count
          BY <2>2
        <5>2. mem.count = Count + Len(mem.pend)
          BY ONLY <1>5, <2>5, <4>1, <4>3
        <5>3. Count' + Len(mem.pend) - Landed' = Count + Len(mem.pend)
          <6> DEFINE n == Len(mem.pend)
          <6> HIDE DEF n
          <6>1. n \in Nat /\ Count \in Nat /\ Count' = Count + 1 /\ Landed' = 1
            BY <1>5, <2>4, <2>5, <4>3 DEF n
          <6>2. Count' + n - Landed' = Count + n
            BY ONLY <6>1
          <6> QED BY <6>2 DEF n
        <5> QED BY ONLY <5>1, <5>2, <5>3
      <4> QED BY <4>4, <4>5
    <3> QED BY <1>1, <1>2, <2>2, <3>1 DEF CountersFollow
  <2>10. RoomKept'
    BY <1>1, <1>2, <2>2 DEF RoomKept
  <2> QED BY <2>7, <2>8, <2>9, <2>10 DEF CountersInvariant
\* The writer returns: the file is counted, or it is not there.
<1>10. ASSUME mem.write \in {"renamed", "stat"}, UNCHANGED file, durable' \in {durable, file},
              NEW n \in {0, 1}, n = Landed,
              /\ mem'.up = mem.up /\ mem'.ready = mem.ready /\ mem'.pend = Tail(mem.pend) /\ mem'.write = "idle"
              /\ mem'.diskBytes = mem.diskBytes + Full * n /\ mem'.count = mem.count - (1 - n)
       PROVE  CountersInvariant'
  <2>1. InMemory' = Of(Tail(mem.pend)) /\ Bytes' = Bytes /\ Count' = Count /\ Landed' = 0
    BY <1>10 DEF InMemory, Of, Bytes, Count, Landed
  <2>2. QueuedOnce'
    <3>1. \A r \in InMemory' : r \in InMemory /\ file[r] = "none"
      BY <1>1, <1>3, <2>1 DEF QueuedOnce, h
    <3>2. \A r \in Records \ seen : file[r] = "none" /\ durable'[r] = "none"
      BY <1>1, <1>10 DEF QueuedOnce
    <3>3. \A i, j \in 1..Len(mem'.pend) : mem'.pend[i] = mem'.pend[j] => i = j
      BY <1>3, <1>10
    <3>4. InMemory \subseteq seen /\ file' = file /\ seen' = seen
      BY <1>1, <1>2, <1>10 DEF QueuedOnce
    <3> QED BY <1>10, <3>1, <3>2, <3>3, <3>4 DEF QueuedOnce
  <2>3. TickHolds'
    <3>1. mem.up /\ mem.ready
      BY <1>1, <1>2 DEF TickHolds
    <3> QED BY <1>1, <1>2, <1>10, <3>1 DEF TickHolds
  <2>4. /\ mem'.diskBytes \in Int /\ mem'.count \in Int /\ n \in Int
        /\ mem'.count <= mem.count
    BY <1>1, <1>4, <1>10
  <2>5. CountersFollow'
    <3>1. ASSUME mem'.up, mem'.ready
          PROVE  Bytes' = mem'.diskBytes + Full * Landed' /\ mem'.count = Count' + Len(mem'.pend) - Landed'
      <4>1. Bytes = mem.diskBytes + Full * n /\ mem.count = Count + Len(mem.pend) - n
        BY <1>1, <1>10, <3>1 DEF CountersFollow
      <4>2. Len(mem'.pend) = Len(mem.pend) - 1
        BY <1>3, <1>10
      <4> QED BY <1>1, <1>3, <1>4, <1>5, <1>10, <2>1, <2>4, <4>1, <4>2
    <3> QED BY <1>1, <1>2, <2>4, <3>1 DEF CountersFollow
  <2>6. RoomKept'
    <3> SUFFICES ASSUME crashes' = 0
                 PROVE  /\ mem'.up /\ mem'.ready
                        /\ mem'.diskBytes + Full * Len(mem'.pend) <= Limit /\ mem'.count <= MaxCount
      BY DEF RoomKept
    <3>1. /\ mem.up /\ mem.ready
          /\ mem.diskBytes + Full * Len(mem.pend) <= Limit /\ mem.count <= MaxCount
      BY <1>1, <1>2 DEF RoomKept
    <3>2. Len(mem'.pend) = Len(mem.pend) - 1
      BY <1>3, <1>10
    <3>3. /\ mem'.up = mem.up /\ mem'.ready = mem.ready /\ mem'.diskBytes = mem.diskBytes + Full * n
          /\ n \in {0, 1}
      BY <1>10
    <3>4. mem'.up /\ mem'.ready /\ mem'.count <= MaxCount
      BY ONLY <1>1, <1>4, <2>4, <3>1, <3>3
    <3>5. mem'.diskBytes + Full * Len(mem'.pend) <= Limit
      BY ONLY <1>1, <1>3, <1>4, <2>4, <3>1, <3>2, <3>3, SMTT(60) DEF Full
    <3> QED BY <3>4, <3>5
  <2> QED BY <2>2, <2>3, <2>5, <2>6 DEF CountersInvariant
<1>11. CASE WriteDone
  <2>1. /\ mem.write = "renamed" /\ durable' = file /\ file' = file /\ Landed = 1
        /\ mem' = [[mem EXCEPT !.pend = Tail(mem.pend), !.write = "idle"] EXCEPT !.diskBytes = mem.diskBytes + Full]
    BY <1>1, <1>11 DEF WriteDone, Written, IsMem, Landed
  <2>2. /\ mem'.up = mem.up /\ mem'.ready = mem.ready /\ mem'.pend = Tail(mem.pend) /\ mem'.write = "idle"
        /\ mem'.diskBytes = mem.diskBytes + Full /\ mem'.count = mem.count
    BY <1>1, <2>1 DEF IsMem
  <2>3. mem'.diskBytes = mem.diskBytes + Full * 1 /\ mem'.count = mem.count - (1 - 1)
    BY <1>1, <1>4, <2>2
  <2> QED BY <1>10, <2>1, <2>2, <2>3
<1>12. CASE WriteStat
  <2>1. mem.write = "stat" /\ file' = file /\ durable' = durable /\ Landed = 0
    BY <1>12 DEF WriteStat, disk, Landed
  <2>2. file[h] = "none"
    BY <1>1, <1>3, <2>1 DEF QueuedOnce
  <2>3. mem' = [[mem EXCEPT !.pend = Tail(mem.pend), !.write = "idle"] EXCEPT !.count = mem.count - 1]
    BY <1>1, <1>12, <2>2 DEF WriteStat, Written, IsMem, h
  <2>4. /\ mem'.up = mem.up /\ mem'.ready = mem.ready /\ mem'.pend = Tail(mem.pend) /\ mem'.write = "idle"
        /\ mem'.diskBytes = mem.diskBytes /\ mem'.count = mem.count - 1
    BY <1>1, <2>3 DEF IsMem
  <2>5. mem'.diskBytes = mem.diskBytes + Full * 0 /\ mem'.count = mem.count - (1 - 0)
    BY <1>1, <1>4, <2>4
  <2> QED BY <1>10, <2>1, <2>4, <2>5
<1> QED BY <1>7, <1>8, <1>9, <1>11, <1>12 DEF Write

\* The tick: what it does to a file it does to the counters.
LEMMA DeliverCounts ==
    ASSUME SpoolCounters, NEW r \in Records, Deliver(r)
    PROVE  CountersInvariant'
<1>1. /\ SpoolTyped /\ IsMem(mem) /\ TickPlace /\ QueuedOnce /\ TickHolds
      /\ file \in [Records -> Files] /\ mem.diskBytes \in Int /\ mem.count \in Int
      /\ tick = [step |-> tick.step, at |-> tick.at, todo |-> tick.todo, wait |-> tick.wait, now |-> tick.now]
      /\ \A q \in tick.todo : Queued(file[q])
  BY DEF SpoolCounters, SpoolInvariant, SpoolTyped, CountersInvariant, CountersFollow, TickPlace
<1>2. /\ Size("none") = 0 /\ Size("full") = 2 /\ Size("slim") = 1 /\ Size("bad") = 2 /\ Size("corrupt") = 2
      /\ Counted("none") = 0 /\ Counted("full") = 1 /\ Counted("slim") = 1 /\ Counted("bad") = 1
      /\ Counted("corrupt") = 0
  BY SizesAre DEF Files, Counted, Queued
<1>3. CASE TickQuarantine(r)
  <2>1. /\ tick.step = "next" /\ file[r] = "bad" /\ file' = [file EXCEPT ![r] = "corrupt"] /\ durable' = durable
        /\ mem' = [mem EXCEPT !.count = mem.count - 1] /\ tick' = [tick EXCEPT !.todo = @ \ {r}]
        /\ UNCHANGED <<seen, crashes>>
    BY <1>3 DEF TickQuarantine, Take, past
  <2>2. /\ mem'.up = mem.up /\ mem'.ready = mem.ready /\ mem'.pend = mem.pend /\ mem'.write = mem.write
        /\ mem'.diskBytes = mem.diskBytes /\ mem'.count = mem.count - 1
    BY <1>1, <2>1 DEF IsMem
  <2>3. tick'.step = "next"
    BY <1>1, <2>1
  <2>4. TickHolds'
    BY <1>1, <2>1, <2>2, <2>3 DEF TickHolds
  <2>5. /\ mem'.diskBytes = mem.diskBytes + Size("corrupt") - Size(file[r])
        /\ mem'.count = mem.count + Counted("corrupt") - Counted(file[r])
        /\ Size("corrupt") <= Size(file[r]) /\ Counted("corrupt") <= Counted(file[r])
    BY <1>1, <1>2, <2>1, <2>2
  <2>6. "corrupt" \in Files /\ file[r] # "none" /\ \A q \in Records : q # r => durable'[q] \in {durable[q], file[q]}
    BY <2>1 DEF Files
  <2> QED BY <2>1, <2>2, <2>4, <2>5, <2>6, FileMoves
<1>4. CASE TickExpired(r) \/ TickRead(r)
  <2>1. /\ tick.step = "next" /\ r \in tick.todo /\ file[r] # "bad"
        /\ \E s \in {"gap", "content", "index"} :
             /\ tick' = [tick EXCEPT !.step = s, !.at = {r}, !.todo = @ \ {r}]
             /\ s = "content" => file[r] = "full"
        /\ UNCHANGED <<file, durable, mem, seen, crashes>>
    BY <1>4 DEF TickExpired, TickRead, Take, Onward, disk, past
  <2>2. PICK s \in {"gap", "content", "index"} :
          /\ tick' = [tick EXCEPT !.step = s, !.at = {r}, !.todo = @ \ {r}]
          /\ s = "content" => file[r] = "full"
    BY <2>1
  <2>3. tick'.step = s /\ tick'.at = {r}
    BY <1>1, <2>2
  <2>4. mem.up /\ mem.ready
    BY <1>1, <2>1 DEF TickHolds
  <2>5. TickHolds'
    BY <1>1, <2>1, <2>2, <2>3, <2>4 DEF TickHolds
  <2> QED BY <2>1, <2>5, TickMoves
<1>5. CASE SendContent(r) \/ ReplaceTemp(r) \/ SendIndex(r) \/ SendGap(r)
  <2>1. /\ UNCHANGED <<file, durable, mem, seen, crashes>>
        /\ \/ tick.step = "content" /\ tick' = [tick EXCEPT !.step = "replace"]
           \/ tick.step = "replace" /\ tick' = [tick EXCEPT !.step = "rename"]
           \/ tick.step = "index" /\ tick' = [tick EXCEPT !.step = "unlink"]
           \/ tick.step = "gap" /\ tick' = [tick EXCEPT !.step = "unlink"]
    BY <1>5 DEF SendContent, ReplaceTemp, SendIndex, SendGap, At, disk, past
  <2>2. /\ tick'.at = tick.at
        /\ \/ tick.step = "content" /\ tick'.step = "replace"
           \/ tick.step = "replace" /\ tick'.step = "rename"
           \/ tick.step \in {"index", "gap"} /\ tick'.step = "unlink"
    <3>1. ASSUME NEW w, tick' = [tick EXCEPT !.step = w] PROVE tick'.at = tick.at /\ tick'.step = w
      BY <1>1, <3>1
    <3> QED BY <2>1, <3>1
  <2>3. TickHolds'
    BY <1>1, <2>1, <2>2 DEF TickHolds
  <2> QED BY <2>1, <2>3, TickMoves
<1>6. CASE ReplaceDone(r)
  <2>1. /\ tick.step = "rename" /\ r \in tick.at
        /\ file' = [file EXCEPT ![r] = "slim"] /\ durable' = file'
        /\ mem' = [mem EXCEPT !.diskBytes = mem.diskBytes + Slim - Full] /\ tick' = [tick EXCEPT !.step = "index"]
        /\ UNCHANGED <<seen, crashes>>
    BY <1>6 DEF ReplaceDone, At, past
  <2>2. /\ mem'.up = mem.up /\ mem'.ready = mem.ready /\ mem'.pend = mem.pend /\ mem'.write = mem.write
        /\ mem'.diskBytes = mem.diskBytes + Slim - Full /\ mem'.count = mem.count
    BY <1>1, <2>1 DEF IsMem
  <2>3. tick'.step = "index" /\ tick'.at = tick.at
    BY <1>1, <2>1
  <2>4. file[r] = "full" /\ mem.up /\ mem.ready /\ \A q \in tick.at : q \in Records /\ file[q] = "full"
    BY <1>1, <2>1 DEF TickHolds, SpoolTyped
  <2>5. TickHolds'
    <3>1. \A q \in tick.at : Queued(file'[q])
      BY <1>1, <2>1, <2>4 DEF Queued
    <3> QED BY <2>2, <2>3, <2>4, <3>1 DEF TickHolds
  <2>6. /\ mem'.diskBytes = mem.diskBytes + Size("slim") - Size(file[r])
        /\ mem'.count = mem.count + Counted("slim") - Counted(file[r])
        /\ Size("slim") <= Size(file[r]) /\ Counted("slim") <= Counted(file[r])
    BY <1>1, <1>2, <2>2, <2>4 DEF Slim, Full
  <2>7. "slim" \in Files /\ file[r] # "none" /\ \A q \in Records : q # r => durable'[q] \in {durable[q], file[q]}
    BY <1>1, <2>1, <2>4 DEF Files
  <2> QED BY <2>1, <2>2, <2>5, <2>6, <2>7, FileMoves
<1>7. CASE Unlink(r)
  <2>1. /\ tick.step = "unlink" /\ r \in tick.at
        /\ file' = [file EXCEPT ![r] = "none"] /\ durable' = durable
        /\ mem' = [mem EXCEPT !.diskBytes = mem.diskBytes - Size(file[r]), !.count = mem.count - 1]
        /\ tick' = [tick EXCEPT !.step = "next", !.at = {}]
        /\ UNCHANGED <<seen, crashes>>
    BY <1>7 DEF Unlink, At, past
  <2>2. /\ mem'.up = mem.up /\ mem'.ready = mem.ready /\ mem'.pend = mem.pend /\ mem'.write = mem.write
        /\ mem'.diskBytes = mem.diskBytes - Size(file[r]) /\ mem'.count = mem.count - 1
    BY <1>1, <2>1 DEF IsMem
  <2>3. tick'.step = "next" /\ tick'.at = {}
    BY <1>1, <2>1
  <2>4. Queued(file[r]) /\ mem.up /\ mem.ready
    BY <1>1, <2>1 DEF TickHolds
  <2>5. TickHolds'
    BY <2>2, <2>3, <2>4 DEF TickHolds
  <2>6. file[r] \in {"full", "slim", "bad"}
    BY <2>4 DEF Queued
  <2>7. /\ mem'.diskBytes = mem.diskBytes + Size("none") - Size(file[r])
        /\ mem'.count = mem.count + Counted("none") - Counted(file[r])
        /\ Size("none") <= Size(file[r]) /\ Counted("none") <= Counted(file[r])
    BY <1>1, <1>2, <2>2, <2>6
  <2>8. "none" \in Files /\ file[r] # "none" /\ \A q \in Records : q # r => durable'[q] \in {durable[q], file[q]}
    BY <2>1, <2>6 DEF Files
  <2> QED BY <2>1, <2>2, <2>5, <2>7, <2>8, FileMoves
<1> QED BY <1>3, <1>4, <1>5, <1>6, <1>7 DEF Deliver

LEMMA TickCounts ==
    ASSUME SpoolCounters, TickStart \/ TickList \/ TickEnd \/ TickReadFail
    PROVE  CountersInvariant'
<1>1. /\ TickHolds
      /\ tick = [step |-> tick.step, at |-> tick.at, todo |-> tick.todo, wait |-> tick.wait, now |-> tick.now]
  BY DEF SpoolCounters, SpoolInvariant, SpoolTyped, CountersInvariant
<1>2. /\ UNCHANGED <<file, durable, mem, seen, crashes>>
      /\ tick'.step \in {"idle", "flush", "next"} /\ (tick'.step # "idle" => mem.up /\ mem.ready)
  <2>1. UNCHANGED <<file, durable, mem, seen, crashes>>
    BY DEF TickStart, TickList, TickEnd, TickReadFail, disk, past
  <2>2. CASE TickStart
    BY <2>1, <2>2 DEF TickStart, NewTick
  <2>3. CASE TickList
    <3>1. tick.step = "flush" /\ tick'.step = "next"
      BY <1>1, <2>3 DEF TickList
    <3> QED BY <1>1, <2>1, <3>1 DEF TickHolds
  <2>4. CASE TickEnd \/ TickReadFail
    BY <2>1, <2>4 DEF TickEnd, TickReadFail, NewTick
  <2> QED BY <2>1, <2>2, <2>3, <2>4
<1>3. TickHolds'
  BY <1>1, <1>2 DEF TickHolds
<1> QED BY <1>2, <1>3, TickMoves

\* Captures, failures of the tick, time and the disk.
LEMMA RecordCounts ==
    ASSUME ~SyncFails, SpoolCounters, NEW r \in Records, Enqueue(r) \/ TickFail(r) \/ Expire(r) \/ Rot(r) \/ Renew(r)
    PROVE  CountersInvariant'
<1>1. /\ SpoolTyped /\ IsMem(mem) /\ QueuedOnce /\ TickHolds /\ CountersFollow /\ RoomKept
      /\ file \in [Records -> Files] /\ mem.diskBytes \in Int /\ mem.count \in Int
      /\ mem.pend \in Seq(Records) /\ InMemory = Of(mem.pend)
      /\ WriterPlace
  BY DEF SpoolCounters, SpoolInvariant, SpoolTyped, CountersInvariant, CountersFollow, InMemory, Of
<1>2. CASE TickFail(r)
  <2>1. UNCHANGED <<file, durable, mem, seen, crashes>> /\ tick'.step = "idle"
    BY <1>2 DEF TickFail, NewTick, past
  <2>2. TickHolds'
    BY <1>1, <2>1 DEF TickHolds
  <2> QED BY <2>1, <2>2, TickMoves
<1>3. CASE Expire(r)
  <2>1. UNCHANGED <<file, durable, mem, seen, crashes, tick>>
    BY <1>3 DEF Expire, disk
  <2>2. TickHolds'
    BY <1>1, <2>1 DEF TickHolds
  <2> QED BY <2>1, <2>2, TickMoves
<1>4. CASE Rot(r)
  <2>1. /\ file[r] = "full" /\ r \notin tick.at /\ file' = [file EXCEPT ![r] = "bad"]
        /\ durable' = [durable EXCEPT ![r] = "bad"]
        /\ UNCHANGED <<mem, tick, seen, crashes>>
    BY <1>4 DEF Rot, past
  <2>2. TickHolds'
    <3>1. \A q \in tick.at : q \in Records /\ file'[q] = file[q]
      BY <1>1, <2>1 DEF SpoolTyped
    <3> QED BY <1>1, <2>1, <3>1 DEF TickHolds
  <2>3. /\ Size("bad") = 2 /\ Size(file[r]) = 2 /\ Counted("bad") = 1 /\ Counted(file[r]) = 1
        /\ "bad" \in Files /\ file[r] # "none"
    BY <2>1, SizesAre DEF Counted, Queued, Files
  <2>4. /\ mem'.diskBytes = mem.diskBytes + Size("bad") - Size(file[r])
        /\ mem'.count = mem.count + Counted("bad") - Counted(file[r])
        /\ Size("bad") <= Size(file[r]) /\ Counted("bad") <= Counted(file[r])
    BY <1>1, <2>1, <2>3
  <2>5. \A q \in Records : q # r => durable'[q] \in {durable[q], file[q]}
    BY <1>1, <2>1 DEF SpoolTyped
  <2> QED BY <2>1, <2>2, <2>3, <2>4, <2>5, FileMoves
<1>5. CASE Enqueue(r)
  <2>1. /\ r \notin seen /\ seen' = seen \cup {r} /\ UNCHANGED <<file, durable, tick, crashes>>
        /\ \/ mem' = mem
           \/ /\ mem.ready /\ mem.up /\ Fits
              /\ mem' = [mem EXCEPT !.pend = Append(mem.pend, r), !.count = mem.count + 1]
    BY <1>5 DEF Enqueue, disk
  <2>2. Bytes' = Bytes /\ Count' = Count
    BY <2>1 DEF Bytes, Count
  <2>3. CASE mem' = mem
    <3>1. InMemory' = InMemory /\ Landed' = Landed
      BY <2>3 DEF InMemory, Landed
    <3>2. QueuedOnce'
      BY <1>1, <2>1, <2>3, <3>1 DEF QueuedOnce
    <3>3. TickHolds' /\ CountersFollow' /\ RoomKept'
      BY <1>1, <2>1, <2>2, <2>3, <3>1 DEF TickHolds, CountersFollow, RoomKept
    <3> QED BY <3>2, <3>3 DEF CountersInvariant
  <2>4. CASE /\ mem.ready /\ mem.up /\ Fits
             /\ mem' = [mem EXCEPT !.pend = Append(mem.pend, r), !.count = mem.count + 1]
    <3>1. /\ mem'.up = mem.up /\ mem'.ready = mem.ready /\ mem'.pend = Append(mem.pend, r)
          /\ mem'.write = mem.write /\ mem'.diskBytes = mem.diskBytes /\ mem'.count = mem.count + 1
      BY <1>1, <2>4 DEF IsMem
    <3>2. /\ r \notin Of(mem.pend) /\ file[r] = "none"
          /\ \A i, j \in 1..Len(mem.pend) : mem.pend[i] = mem.pend[j] => i = j
      BY <1>1, <2>1 DEF QueuedOnce
    <3>3. /\ Len(mem.pend) \in Nat /\ Len(mem'.pend) = Len(mem.pend) + 1
          /\ \A i, j \in 1..Len(mem'.pend) : mem'.pend[i] = mem'.pend[j] => i = j
      <4>1. r \in Records \ Of(mem.pend)
        BY <3>2
      <4>2. LET u == Append(mem.pend, r)
            IN Len(u) = Len(mem.pend) + 1 /\ \A i, j \in 1..Len(u) : u[i] = u[j] => i = j
        BY <1>1, <3>2, <4>1, QueueOnce
      <4> QED BY <1>1, <3>1, <4>2
    <3>4. /\ InMemory' = InMemory \cup {r} /\ Landed' = Landed
          /\ mem.pend # << >> => Head(mem'.pend) = Head(mem.pend)
      BY <1>1, <3>1, WriterQueue DEF Landed
    <3>5. QueuedOnce'
      <4>1. mem.write = "renamed" => Head(mem'.pend) = Head(mem.pend)
        BY <1>1, <3>4 DEF WriterPlace
      <4> QED BY <1>1, <2>1, <3>1, <3>2, <3>3, <3>4, <4>1 DEF QueuedOnce
    <3>6. TickHolds'
      BY <1>1, <2>1, <2>4, <3>1 DEF TickHolds
    <3>7. CountersFollow'
      <4>1. Bytes = mem.diskBytes + Full * Landed /\ mem.count = Count + Len(mem.pend) - Landed
        BY <1>1, <2>4 DEF CountersFollow
      <4>2. Bytes' = mem'.diskBytes + Full * Landed'
        BY <2>2, <3>1, <3>4, <4>1
      <4>3. Landed \in Int /\ Count \in Nat
        BY <1>1, DirectoryTyped DEF Landed
      <4>4. mem'.count = Count' + Len(mem'.pend) - Landed'
        <5> DEFINE n == Len(mem.pend)
        <5> HIDE DEF n
        <5>1. /\ n \in Nat /\ Landed \in Int /\ Count \in Nat /\ mem.count = Count + n - Landed
              /\ Len(mem'.pend) = n + 1 /\ mem'.count = mem.count + 1 /\ Count' = Count /\ Landed' = Landed
          BY <2>2, <3>1, <3>3, <3>4, <4>1, <4>3 DEF n
        <5> QED BY ONLY <5>1
      <4> QED BY <1>1, <2>1, <3>1, <4>2, <4>4 DEF CountersFollow
    <3>8. RoomKept'
      <4>1. Full + Full * Len(mem.pend) + mem.diskBytes <= Limit /\ mem.count < MaxCount
        BY <2>4 DEF Fits
      <4>2. mem'.diskBytes + Full * Len(mem'.pend) <= Limit
        BY ONLY <1>1, <3>1, <3>3, <4>1, SpoolAssumption DEF Full
      <4>3. mem'.count <= MaxCount
        BY <1>1, <3>1, <4>1, SpoolAssumption
      <4> QED BY <2>1, <2>4, <3>1, <4>2, <4>3 DEF RoomKept
    <3> QED BY <3>5, <3>6, <3>7, <3>8 DEF CountersInvariant
  <2> QED BY <2>1, <2>3, <2>4
<1>6. CASE Renew(r)
  <2>1. /\ file[r] = "none" /\ durable[r] = "none" /\ r \notin InMemory /\ r \notin tick.at
        /\ seen' = seen \ {r} /\ UNCHANGED <<file, durable, mem, crashes>>
        /\ tick'.step = tick.step /\ tick'.at = tick.at
    BY <1>1, <1>6 DEF Renew, Over, disk, SpoolTyped
  <2>2. InMemory' = InMemory /\ Bytes' = Bytes /\ Count' = Count /\ Landed' = Landed
    BY <2>1 DEF InMemory, Bytes, Count, Landed
  <2>3. QueuedOnce'
    BY <1>1, <2>1, <2>2 DEF QueuedOnce
  <2>4. CountersFollow' /\ RoomKept'
    BY <1>1, <2>1, <2>2 DEF CountersFollow, RoomKept
  <2>5. TickHolds'
    BY <1>1, <2>1 DEF TickHolds
  <2> QED BY <2>3, <2>4, <2>5 DEF CountersInvariant
<1> QED BY <1>2, <1>3, <1>4, <1>5, <1>6

\* The process dies and starts again: what is there is counted anew.
LEMMA ProcessCounts ==
    ASSUME SpoolCounters, Crash \/ Restart \/ RestartUnready
    PROVE  CountersInvariant'
<1>1. /\ SpoolTyped /\ QueuedOnce /\ TickHolds /\ CountersFollow /\ RoomKept
      /\ crashes \in Nat
      /\ file \in [Records -> Files] /\ durable \in [Records -> Files]
  BY DEF SpoolCounters, SpoolInvariant, SpoolTyped, CountersInvariant, CountersFollow
<1>2. Bytes \in Nat /\ Count \in Nat
  BY <1>1, DirectoryTyped
<1>3. /\ mem'.pend = << >> /\ mem'.write = "idle" /\ tick'.step = "idle" /\ crashes' \in Nat /\ crashes' # 0
      /\ seen' = seen /\ mem'.diskBytes \in Int /\ mem'.count \in Int
      /\ \A r \in Records : file'[r] \in {file[r], durable[r]} /\ durable'[r] \in {file[r], durable[r]}
  <2>1. CASE Crash
    <3>1. /\ mem' = [NewMem EXCEPT !.up = FALSE] /\ tick' = NewTick /\ crashes' = crashes + 1 /\ seen' = seen
          /\ durable' = file'
      BY <2>1 DEF Crash
    <3>2. \A r \in Records : file'[r] \in {file[r], durable[r]}
      BY <2>1 DEF Crash
    <3>3. /\ mem'.pend = << >> /\ mem'.write = "idle" /\ tick'.step = "idle"
          /\ mem'.diskBytes = 0 /\ mem'.count = 0
      BY <3>1 DEF NewMem, NewTick
    <3> QED BY <1>1, <3>1, <3>2, <3>3
  <2>2. CASE Restart \/ RestartUnready
    <3>1. ~mem.up /\ UNCHANGED <<file, durable, tick, seen, crashes>>
      BY <2>2 DEF Restart, RestartUnready, disk, past
    <3>2. /\ mem'.pend = << >> /\ mem'.write = "idle" /\ mem'.diskBytes \in Int /\ mem'.count \in Int
      <4>1. mem' = [NewMem EXCEPT !.diskBytes = Bytes, !.count = Count] \/ mem' = [NewMem EXCEPT !.ready = FALSE]
        BY <2>2 DEF Restart, RestartUnready
      <4>2. CASE mem' = [NewMem EXCEPT !.diskBytes = Bytes, !.count = Count]
        <5>1. /\ mem'.pend = << >> /\ mem'.write = "idle" /\ mem'.diskBytes = Bytes /\ mem'.count = Count
          BY ONLY <4>2 DEF NewMem
        <5> QED BY <1>2, <5>1
      <4>3. CASE mem' = [NewMem EXCEPT !.ready = FALSE]
        <5>1. /\ mem'.pend = << >> /\ mem'.write = "idle" /\ mem'.diskBytes = 0 /\ mem'.count = 0
          BY ONLY <4>3 DEF NewMem
        <5> QED BY <5>1
      <4> QED BY <4>1, <4>2, <4>3
    <3>3. tick.step = "idle" /\ crashes # 0
      BY <1>1, <3>1 DEF TickHolds, RoomKept
    <3> QED BY <1>1, <3>1, <3>2, <3>3
  <2> QED BY <2>1, <2>2
<1>4. mem'.up /\ mem'.ready => mem'.diskBytes = Bytes /\ mem'.count = Count /\ file' = file
  BY DEF Crash, Restart, RestartUnready, NewMem
<1>5. InMemory' = {} /\ Landed' = 0
  BY <1>3 DEF InMemory, Landed
<1>6. QueuedOnce'
  <2>1. \A i, j \in 1..Len(mem'.pend) : mem'.pend[i] = mem'.pend[j] => i = j
    BY <1>3
  <2>2. \A r \in Records \ seen : file'[r] = "none" /\ durable'[r] = "none"
    BY <1>1, <1>3 DEF QueuedOnce
  <2> QED BY <1>3, <1>5, <2>1, <2>2 DEF QueuedOnce
<1>7. TickHolds'
  BY <1>3 DEF TickHolds
<1>8. CountersFollow'
  <2>1. ASSUME mem'.up, mem'.ready
        PROVE  Bytes' = mem'.diskBytes + Full * Landed' /\ mem'.count = Count' + Len(mem'.pend) - Landed'
    <3>1. Bytes' = Bytes /\ Count' = Count /\ mem'.diskBytes = Bytes /\ mem'.count = Count /\ Len(mem'.pend) = 0
      BY <1>3, <1>4, <2>1 DEF Bytes, Count
    <3>2. Full * Landed' = 0
      BY <1>5 DEF Full
    <3> QED BY ONLY <1>2, <1>5, <3>1, <3>2
  <2> QED BY <1>3, <2>1 DEF CountersFollow
<1>9. RoomKept'
  BY <1>3 DEF RoomKept
<1> QED BY <1>6, <1>7, <1>8, <1>9 DEF CountersInvariant

LEMMA CountersBegin == Init => CountersInvariant
<1> SUFFICES ASSUME Init PROVE CountersInvariant
  OBVIOUS
<1>1. /\ mem.up /\ mem.ready /\ mem.pend = << >> /\ mem.write = "idle" /\ mem.diskBytes = 0 /\ mem.count = 0
      /\ tick.step = "idle" /\ crashes = 0 /\ seen = {}
      /\ \A r \in Records : file[r] = "none" /\ durable[r] = "none"
  BY DEF Init, NewMem, NewTick
<1>2. InMemory = {} /\ Landed = 0 /\ Len(mem.pend) = 0
  BY <1>1 DEF InMemory, Landed
<1>3. Bytes = 0
  <2> DEFINE f == [r \in Records |-> Size(file[r])]
  <2>1. Bytes = SumFunctionOnSet(f, Records) /\ \A r \in Records : f[r] = 0
    BY <1>1, SizesAre DEF Bytes, SumFunction, Files
  <2> HIDE DEF f
  <2> QED BY <2>1, SumOfZeros, SpoolAssumption
<1>4. Count = 0
  <2>1. {r \in Records : Queued(file[r])} = {}
    BY <1>1 DEF Queued
  <2> QED BY <2>1, FS_EmptySet DEF Count
<1>5. QueuedOnce /\ TickHolds
  BY <1>1, <1>2 DEF QueuedOnce, TickHolds
<1>6. Full * Landed = 0 /\ Full * Len(mem.pend) = 0 /\ Limit \in Nat /\ MaxCount \in Nat
  BY <1>2, SpoolAssumption DEF Full
<1>7. CountersFollow /\ RoomKept
  BY <1>1, <1>2, <1>3, <1>4, <1>6 DEF CountersFollow, RoomKept
<1> QED BY <1>5, <1>7 DEF CountersInvariant

LEMMA CountersInvariance == Spec => [](~SyncFails => CountersInvariant)
<1> DEFINE I == ~SyncFails => CountersInvariant
<1>1. Init => I
  BY CountersBegin
<1>2. SpoolInvariant /\ I /\ [Next]_vars => I'
  <2> SUFFICES ASSUME ~SyncFails, SpoolInvariant, CountersInvariant, [Next]_vars PROVE CountersInvariant'
    OBVIOUS
  <2>0. SpoolCounters
    BY DEF SpoolCounters
  <2>1. CASE UNCHANGED vars
    <3>1. UNCHANGED <<file, durable, mem, seen, crashes, tick>>
      BY <2>1 DEF vars
    <3>2. TickHolds'
      BY <3>1 DEF CountersInvariant, TickHolds
    <3> QED BY <2>0, <3>1, <3>2, TickMoves
  <2> QED BY <2>0, <2>1, WriteCounts, DeliverCounts, TickCounts, RecordCounts, ProcessCounts DEF Next
<1> HIDE DEF I
<1>3. Spec => []I
  BY <1>1, <1>2, SpoolInvariance, PTL DEF Spec
<1> QED BY <1>3 DEF I

\* queue.ts: the counters that admit new records are those of the directory
\* whenever no file operation is under way, through failed writes, quarantine,
\* expiry, crashes and restarts, as long as no directory sync fails.
THEOREM CountersAreExact == ~SyncFails /\ Spec => []CountersExact
<1>1. SpoolInvariant /\ (~SyncFails => CountersInvariant) => (~SyncFails => CountersExact)
  <2> SUFFICES ASSUME SpoolInvariant, CountersInvariant, Quiet PROVE mem.diskBytes = Bytes /\ mem.count = Count
    BY DEF CountersExact
  <2>1. mem.up /\ mem.ready /\ mem.pend = << >> /\ mem.write = "idle" /\ SpoolTyped
    BY DEF Quiet, SpoolInvariant, WriterPlace
  <2>2. /\ Bytes = mem.diskBytes + Full * Landed /\ mem.count = Count + Len(mem.pend) - Landed
        /\ mem.diskBytes \in Int
    BY <2>1 DEF CountersInvariant, CountersFollow
  <2>3. Landed = 0 /\ Full * Landed = 0 /\ Len(mem.pend) = 0
    BY <2>1 DEF Landed, Full
  <2>4. Count \in Nat
    BY <2>1, DirectoryTyped
  <2> QED BY ONLY <2>2, <2>3, <2>4
<1> SUFFICES ASSUME ~SyncFails PROVE Spec => []CountersExact
  OBVIOUS
<1>2. SpoolInvariant /\ (~SyncFails => CountersInvariant) => CountersExact
  BY <1>1
<1> QED BY <1>2, SpoolInvariance, CountersInvariance, PTL

\* As long as its node stays up and no directory sync fails the spool keeps its
\* budgets of bytes and of records, whichever writes and deliveries interleave.
THEOREM SpoolKeepsItsLimit == ~SyncFails /\ Spec => []SpoolWithinLimit
<1>1. SpoolInvariant /\ (~SyncFails => CountersInvariant) => (~SyncFails => SpoolWithinLimit)
  <2> SUFFICES ASSUME SpoolInvariant, CountersInvariant, crashes = 0 PROVE Bytes <= Limit /\ Count <= MaxCount
    BY DEF SpoolWithinLimit
  <2>1. /\ mem.up /\ mem.ready /\ mem.diskBytes + Full * Len(mem.pend) <= Limit /\ mem.count <= MaxCount
        /\ mem.diskBytes \in Int /\ mem.count \in Int
        /\ Bytes = mem.diskBytes + Full * Landed /\ mem.count = Count + Len(mem.pend) - Landed
    BY DEF CountersInvariant, RoomKept, CountersFollow
  <2>2. /\ Len(mem.pend) \in Nat /\ Landed \in {0, 1} /\ (Landed = 1 => Len(mem.pend) # 0)
    BY DEF SpoolInvariant, SpoolTyped, WriterPlace, Landed
  <2>3. Count \in Nat /\ Limit \in Nat /\ MaxCount \in Nat
    BY DirectoryTyped, SpoolAssumption DEF SpoolInvariant
  <2> DEFINE n == Len(mem.pend)
  <2> HIDE DEF n
  <2>4. n \in Nat /\ Landed <= n /\ Landed \in {0, 1} /\ mem.diskBytes + Full * n <= Limit /\ mem.count = Count + n - Landed
    BY <2>1, <2>2 DEF n
  <2>5. Count <= MaxCount
    BY ONLY <2>1, <2>3, <2>4
  <2>6. Full * Landed <= Full * n /\ Full * Landed \in Int /\ Full * n \in Int
    BY ONLY <2>4 DEF Full
  <2>7. Bytes <= Limit
    BY ONLY <2>1, <2>3, <2>4, <2>6
  <2> QED BY <2>5, <2>7
<1> SUFFICES ASSUME ~SyncFails PROVE Spec => []SpoolWithinLimit
  OBVIOUS
<1>2. SpoolInvariant /\ (~SyncFails => CountersInvariant) => SpoolWithinLimit
  BY <1>1
<1> QED BY <1>2, SpoolInvariance, CountersInvariance, PTL

-----------------------------------------------------------------------------
(***************************************************************************)
(* L3Capture: the budget is what captures and unfinished frames hold.      *)
(***************************************************************************)

Captures == {0} \cup Turns
Capture == [state : {"none", "live", "finished"}, gap : BOOLEAN, held : Nat, got : SUBSET Turns]
Event == [type : {"none", "other", "create", "created", "delta", "done", "error"}, turn : Captures]
Tap == [size : Nat, discarding : BOOLEAN, stopped : BOOLEAN, event : Event]

\* pending, active and all name turns.
SessionTyped(w, a, h) ==
    /\ w \in Seq(Turns) /\ h \in SUBSET Turns
    /\ DOMAIN a \in SUBSET Turns /\ \A t \in DOMAIN a : a[t] \in Turns

CaptureTyped ==
    /\ memory \in Int /\ captures \in [Captures -> Capture]
    /\ SessionTyped(waiting, active, all)
    /\ taps \in [Sides -> Tap] /\ turns \in [Turns -> {"none", "sent", "created", "ended"}]
    /\ exchange \in [phase : {"none", "asked", "answered", "ended"}, complete : BOOLEAN]

\* An exchange or a turn that has not begun has no capture; the client creates
\* such turns, the server answers turns.
Unbegun ==
    /\ exchange.phase = "none" => captures[0] = NoCapture
    /\ \A t \in Turns : turns[t] = "none" => captures[t].state = "none"
    /\ taps["client"].event.type \in {"none", "other", "create"}
    /\ taps["client"].event.type = "create" =>
         taps["client"].event.turn \in Turns /\ turns[taps["client"].event.turn] = "none"
    /\ taps["client"].event.type # "create" => taps["client"].event.turn = 0
    /\ taps["server"].event.type \in {"none", "created", "delta", "done", "error"}
    /\ taps["server"].event # NoEvent =>
         /\ taps["server"].event.type # "none"
         /\ taps["server"].event.turn \in Turns /\ turns[taps["server"].event.turn] # "none"

BudgetInvariant == CaptureTyped /\ Unbegun /\ BudgetExact

-----------------------------------------------------------------------------
(* Sums over captures. *)

Held(caps) == SumFunctionOnSet([t \in Captures |-> HeldBy(caps[t])], Captures)

LEMMA CapturesFinite == IsFiniteSet(Captures)
<1>1. IsFiniteSet(Turns)
  BY FS_Interval, CaptureAssumption DEF Turns
<1> QED BY <1>1, FS_Singleton, FS_Union DEF Captures

LEMMA HeldByTyped == \A cap \in Capture : HeldBy(cap) \in Nat
BY DEF Capture, HeldBy

LEMMA HeldTyped ==
    ASSUME NEW caps \in [Captures -> Capture] PROVE Held(caps) \in Nat
<1> DEFINE f == [t \in Captures |-> HeldBy(caps[t])]
<1>1. \A t \in Captures : f[t] \in Nat
  BY HeldByTyped
<1> HIDE DEF f
<1>2. SumFunctionOnSet(f, Captures) \in Nat
  BY <1>1, CapturesFinite, SumIsNat
<1> QED BY <1>2 DEF Held, f

LEMMA HeldSame ==
    ASSUME NEW caps \in [Captures -> Capture], NEW next \in [Captures -> Capture],
           \A t \in Captures : HeldBy(next[t]) = HeldBy(caps[t])
    PROVE  Held(next) = Held(caps)
BY DEF Held

LEMMA HeldChanges ==
    ASSUME NEW caps \in [Captures -> Capture], NEW next \in [Captures -> Capture], NEW x \in Captures,
           \A t \in Captures : t # x => HeldBy(next[t]) = HeldBy(caps[t])
    PROVE  Held(next) = Held(caps) + HeldBy(next[x]) - HeldBy(caps[x])
<1> DEFINE f == [t \in Captures |-> HeldBy(caps[t])]
           g == [t \in Captures |-> HeldBy(next[t])]
<1>1. /\ \A t \in Captures : f[t] \in Nat /\ g[t] \in Nat
      /\ \A t \in Captures : t # x => g[t] = f[t]
      /\ f[x] = HeldBy(caps[x]) /\ g[x] = HeldBy(next[x])
  BY HeldByTyped
<1> HIDE DEF f, g
<1>2. SumFunctionOnSet(g, Captures) = SumFunctionOnSet(f, Captures) + g[x] - f[x]
  BY <1>1, CapturesFinite, SumChanges
<1> QED BY <1>1, <1>2 DEF Held, f, g

\* What finishes is returned.
LEMMA HeldReturned ==
    ASSUME NEW caps \in [Captures -> Capture], NEW next \in [Captures -> Capture], NEW A \in SUBSET Captures,
           \A t \in A : HeldBy(next[t]) = 0,
           \A t \in Captures \ A : HeldBy(next[t]) = HeldBy(caps[t])
    PROVE  Held(next) = Held(caps) - SumFunctionOnSet([t \in Captures |-> HeldBy(caps[t])], A)
<1> DEFINE f == [t \in Captures |-> HeldBy(caps[t])]
           g == [t \in Captures |-> HeldBy(next[t])]
           B == Captures \ A
<1>1. /\ \A t \in Captures : f[t] \in Nat /\ g[t] \in Nat
      /\ \A t \in A : g[t] = 0
      /\ \A t \in B : g[t] = f[t]
      /\ IsFiniteSet(A) /\ IsFiniteSet(B)
  BY HeldByTyped, CapturesFinite, FS_Subset
<1> HIDE DEF f, g
<1>2. SumFunctionOnSet(f, Captures) = SumFunctionOnSet(f, A) + SumFunctionOnSet(f, B)
  BY <1>1, CapturesFinite, SumSplits
<1>3. SumFunctionOnSet(g, Captures) = SumFunctionOnSet(g, A) + SumFunctionOnSet(g, B)
  BY <1>1, CapturesFinite, SumSplits
<1> HIDE DEF B
<1>4. SumFunctionOnSet(g, A) = 0
  BY <1>1, SumOfZeros
<1>5. SumFunctionOnSet(g, B) = SumFunctionOnSet(f, B)
  BY <1>1, SumsEqual
<1>6. SumFunctionOnSet(f, A) \in Nat /\ SumFunctionOnSet(f, B) \in Nat
  <2>1. \A t \in A : f[t] \in Nat
    BY <1>1
  <2>2. \A t \in B : f[t] \in Nat
    BY <1>1 DEF B
  <2>3. SumFunctionOnSet(f, A) \in Nat
    BY <1>1, <2>1, SumIsNat
  <2>4. SumFunctionOnSet(f, B) \in Nat
    BY <1>1, <2>2, SumIsNat
  <2> QED BY <2>3, <2>4
<1> QED BY <1>2, <1>3, <1>4, <1>5, <1>6 DEF Held, f, g

-----------------------------------------------------------------------------
(* What a handler does to the captures and to the bytes in use. *)

\* The bytes follow what the captures hold, and stay within the limit.
Follows(caps, used, next, bytes) ==
    /\ next \in [Captures -> Capture]
    /\ bytes = used + Held(next) - Held(caps)
    /\ bytes \in Int /\ (used <= MemoryLimit => bytes <= MemoryLimit)

\* A handler leaves the exchange alone and begins captures of the turns X only.
Untouched(next, X) ==
    /\ next[0] = captures[0]
    /\ \A t \in Turns \ X : captures[t].state = "none" => next[t].state = "none"

LEMMA AddIs ==
    ASSUME NEW cap \in Capture, NEW from \in SUBSET Turns, NEW used \in Int
    PROVE  /\ Add(cap, 1, from, used) \in Capture
           /\ Add(cap, 1, from, used).state = cap.state
           /\ Add(cap, 1, from, used).held >= cap.held
           /\ HeldBy(Add(cap, 1, from, used)) - HeldBy(cap) = Add(cap, 1, from, used).held - cap.held
           /\ used <= MemoryLimit => used + (Add(cap, 1, from, used).held - cap.held) <= MemoryLimit
           /\ cap.gap => Add(cap, 1, from, used) = cap
           /\ cap.state # "live" => Add(cap, 1, from, used) = cap
           /\ Add(cap, 1, from, used).got \in {cap.got, cap.got \cup from}
<1> DEFINE more == [cap EXCEPT !.held = @ + 1, !.got = @ \cup from]
           gap == [cap EXCEPT !.gap = TRUE]
<1>1. /\ more \in Capture /\ more.state = cap.state /\ more.held = cap.held + 1
      /\ more.got = cap.got \cup from
  <2>1. cap.held + 1 \in Nat /\ cap.got \cup from \in SUBSET Turns
    BY DEF Capture
  <2> QED BY <2>1 DEF Capture
<1>2. gap \in Capture /\ gap.state = cap.state /\ gap.held = cap.held /\ gap.got = cap.got
  BY DEF Capture
<1>3. cap.held \in Nat /\ MemoryLimit \in Nat
  BY CaptureAssumption DEF Capture
<1>4. \/ Add(cap, 1, from, used) = cap
      \/ Add(cap, 1, from, used) = gap /\ cap.state = "live" /\ ~cap.gap
      \/ Add(cap, 1, from, used) = more /\ cap.state = "live" /\ ~cap.gap /\ used + 1 <= MemoryLimit
  BY DEF Add, Gap
<1> HIDE DEF more, gap
<1> QED BY <1>1, <1>2, <1>3, <1>4 DEF HeldBy

LEMMA FinishIs ==
    ASSUME NEW cap \in Capture
    PROVE  /\ Finish(cap) \in Capture /\ Finish(cap).held = cap.held /\ HeldBy(Finish(cap)) = 0
           /\ Finish(cap).gap = cap.gap /\ Finish(cap).got = cap.got
           /\ Finish(cap).state # "live" /\ (cap.state = "none" => Finish(cap).state = "none")
           /\ Returned(cap) = HeldBy(cap)
BY DEF Capture, Finish, HeldBy, Returned

LEMMA GapIs ==
    ASSUME NEW cap \in Capture
    PROVE  /\ Gap(cap) \in Capture /\ Gap(cap).held = cap.held /\ HeldBy(Gap(cap)) = HeldBy(cap)
           /\ Gap(cap).gap /\ Gap(cap).got = cap.got /\ Gap(cap).state = cap.state
BY DEF Capture, Gap, HeldBy

LEMMA NewIs ==
    /\ NewCapture \in Capture /\ NewCapture.held = 0 /\ HeldBy(NewCapture) = 0
    /\ NewCapture.state = "live" /\ NewCapture.got = {}
    /\ NoCapture \in Capture /\ NoCapture.held = 0 /\ HeldBy(NoCapture) = 0
BY DEF NewCapture, NoCapture, Capture, HeldBy

LEMMA MarkedIs ==
    ASSUME NEW caps \in [Captures -> Capture]
    PROVE  /\ Marked(caps) \in [Captures -> Capture]
           /\ Held(Marked(caps)) = Held(caps)
           /\ \A t \in Captures : /\ Marked(caps)[t].state = caps[t].state
                                  /\ Marked(caps)[t].got = caps[t].got
                                  /\ Marked(caps)[t].held = caps[t].held
                                  /\ HeldBy(Marked(caps)[t]) = HeldBy(caps[t])
                                  /\ Marked(caps)[t].gap = (caps[t].gap \/ t \in all)
                                  /\ t \notin all => Marked(caps)[t] = caps[t]
<1>1. Marked(caps) = [t \in Captures |-> IF t \in all THEN Gap(caps[t]) ELSE caps[t]]
  BY DEF Marked
<1>2. \A t \in Captures : /\ Marked(caps)[t] \in Capture
                          /\ Marked(caps)[t].state = caps[t].state
                          /\ Marked(caps)[t].got = caps[t].got
                          /\ Marked(caps)[t].held = caps[t].held
                          /\ HeldBy(Marked(caps)[t]) = HeldBy(caps[t])
                          /\ Marked(caps)[t].gap = (caps[t].gap \/ t \in all)
                          /\ t \notin all => Marked(caps)[t] = caps[t]
  <2> SUFFICES ASSUME NEW t \in Captures
               PROVE  /\ Marked(caps)[t] \in Capture
                      /\ Marked(caps)[t].state = caps[t].state
                      /\ Marked(caps)[t].got = caps[t].got
                      /\ Marked(caps)[t].held = caps[t].held
                      /\ HeldBy(Marked(caps)[t]) = HeldBy(caps[t])
                      /\ Marked(caps)[t].gap = (caps[t].gap \/ t \in all)
                      /\ t \notin all => Marked(caps)[t] = caps[t]
    OBVIOUS
  <2>0. caps[t] \in Capture
    OBVIOUS
  <2>1. caps[t] \in Capture /\ caps[t].gap \in BOOLEAN
    BY <2>0 DEF Capture
  <2>2. CASE t \in all
    <3>1. Marked(caps)[t] = Gap(caps[t])
      BY <1>1, <2>2
    <3> QED BY <2>1, <2>2, <3>1, GapIs
  <2>3. CASE t \notin all
    <3>1. Marked(caps)[t] = caps[t]
      BY <1>1, <2>3
    <3> QED BY <2>1, <2>3, <3>1
  <2> QED BY <2>2, <2>3
<1>3. Marked(caps) \in [Captures -> Capture]
  BY <1>1, <1>2
<1> QED BY <1>2, <1>3, HeldSame

\* One capture changes as the bytes say, the others at most in their gap mark.
LEMMA OneFollows ==
    ASSUME NEW caps \in [Captures -> Capture], NEW used \in Int, NEW m \in [Captures -> Capture],
           \A t \in Captures : HeldBy(m[t]) = HeldBy(caps[t]),
           NEW x \in Captures, NEW cap \in Capture,
           NEW bytes, bytes = used + HeldBy(cap) - HeldBy(caps[x]),
           used <= MemoryLimit => bytes <= MemoryLimit
    PROVE  Follows(caps, used, [m EXCEPT ![x] = cap], bytes)
<1> DEFINE next == [m EXCEPT ![x] = cap]
<1>1. next \in [Captures -> Capture] /\ next[x] = cap /\ \A t \in Captures : t # x => next[t] = m[t]
  OBVIOUS
<1> HIDE DEF next
<1>2. Held(next) = Held(caps) + HeldBy(cap) - HeldBy(caps[x])
  BY <1>1, HeldChanges
<1>3. Held(caps) \in Nat /\ Held(next) \in Nat /\ HeldBy(cap) \in Nat /\ HeldBy(caps[x]) \in Nat
  BY <1>1, HeldTyped, HeldByTyped
<1> QED BY <1>1, <1>2, <1>3 DEF Follows, next

LEMMA WithdrawnTyped ==
    ASSUME NEW s \in Seq(Turns), NEW t
    PROVE  Withdrawn(s, t) \in Seq(Turns) /\ (s = << >> => Withdrawn(s, t) = << >>)
<1>1. CASE \A i \in 1..Len(s) : s[i] # t
  BY <1>1 DEF Withdrawn
<1>2. CASE ~ \A i \in 1..Len(s) : s[i] # t
  <2> DEFINE i == CHOOSE j \in 1..Len(s) : s[j] = t
  <2>1. i \in 1..Len(s)
    BY <1>2
  <2>2. Withdrawn(s, t) = SubSeq(s, 1, i - 1) \o SubSeq(s, i + 1, Len(s))
    BY <1>2 DEF Withdrawn
  <2> HIDE DEF i
  <2>3. SubSeq(s, 1, i - 1) \in Seq(Turns) /\ SubSeq(s, i + 1, Len(s)) \in Seq(Turns)
    BY <2>1
  <2>4. s # << >>
    BY <2>1
  <2> QED BY <2>2, <2>3, <2>4
<1> QED BY <1>1, <1>2

LEMMA ClientHandled ==
    ASSUME CaptureTyped, Unbegun, NEW used \in Int, NEW e \in Event,
           e.type = "create" => e.turn \in Turns /\ turns[e.turn] = "none"
    PROVE  LET n == ClientMessage(captures, used, e)
           IN /\ Follows(captures, used, n.captures, n.bytes)
              /\ SessionTyped(n.waiting, n.active, n.all)
              /\ Untouched(n.captures, {e.turn})
<1>0. 0 \notin Turns /\ 0 \notin all /\ 0 \in Captures /\ Turns \subseteq Captures
  BY DEF Turns, Captures, CaptureTyped, SessionTyped
<1>1. CASE e.type # "create" \/ Cardinality(all) >= TurnLimit
  <2>1. ClientMessage(captures, used, e) = State(Marked(captures), waiting, active, all, used)
    BY <1>1 DEF ClientMessage
  <2>2. Follows(captures, used, Marked(captures), used)
    BY MarkedIs, HeldTyped DEF Follows, CaptureTyped
  <2>3. Untouched(Marked(captures), {e.turn})
    BY <1>0, MarkedIs DEF Untouched, CaptureTyped
  <2> QED BY <2>1, <2>2, <2>3 DEF State, CaptureTyped
<1>2. CASE ~ (e.type # "create" \/ Cardinality(all) >= TurnLimit)
  <2> DEFINE cap == Add(NewCapture, 1, {}, used)
  <2>1. ClientMessage(captures, used, e) =
          State([captures EXCEPT ![e.turn] = cap], Append(waiting, e.turn), active, all \cup {e.turn}, used + cap.held)
    BY <1>2 DEF ClientMessage
  <2>2. /\ cap \in Capture /\ HeldBy(cap) = cap.held
        /\ used <= MemoryLimit => used + cap.held <= MemoryLimit
    <3>1. {} \in SUBSET Turns
      OBVIOUS
    <3>2. /\ cap \in Capture /\ HeldBy(cap) - 0 = cap.held - 0
          /\ used <= MemoryLimit => used + (cap.held - 0) <= MemoryLimit
      BY <3>1, AddIs, NewIs
    <3>3. cap.held \in Nat /\ HeldBy(cap) \in Nat
      BY <3>2, HeldByTyped DEF Capture
    <3> HIDE DEF cap
    <3> QED BY <3>2, <3>3
  <2> HIDE DEF cap
  <2>3. e.turn \in Captures /\ HeldBy(captures[e.turn]) = 0
    BY <1>2 DEF Captures, Unbegun, HeldBy
  <2>4. Follows(captures, used, [captures EXCEPT ![e.turn] = cap], used + cap.held)
    <3>1. cap.held \in Nat
      BY <2>2 DEF Capture
    <3> DEFINE bytes == used + cap.held
    <3>2. bytes = used + HeldBy(cap) - HeldBy(captures[e.turn])
      BY <2>2, <2>3, <3>1
    <3>3. used <= MemoryLimit => bytes <= MemoryLimit
      BY <2>2
    <3> HIDE DEF bytes
    <3>4. Follows(captures, used, [captures EXCEPT ![e.turn] = cap], bytes)
      BY <2>2, <2>3, <3>2, <3>3, OneFollows DEF CaptureTyped
    <3> QED BY <3>4 DEF bytes
  <2>5. SessionTyped(Append(waiting, e.turn), active, all \cup {e.turn})
    BY <1>2 DEF SessionTyped, CaptureTyped
  <2>6. Untouched([captures EXCEPT ![e.turn] = cap], {e.turn})
    BY <1>0, <1>2 DEF Untouched, CaptureTyped
  <2> QED BY <2>1, <2>4, <2>5, <2>6 DEF State
<1> QED BY <1>1, <1>2

LEMMA ServerHandled ==
    ASSUME CaptureTyped, NEW used \in Int, NEW e \in Event, e.turn \in Turns
    PROVE  LET n == ServerMessage(captures, used, e)
           IN /\ Follows(captures, used, n.captures, n.bytes)
              /\ SessionTyped(n.waiting, n.active, n.all)
              /\ Untouched(n.captures, {})
<1> DEFINE marked == IF Ambiguous(e) THEN Marked(captures) ELSE captures
           left == IF Shifts(e) /\ waiting # << >> THEN Tail(waiting) ELSE waiting
           known == IF Shifts(e) /\ waiting # << >> /\ e.type = "created"
                    THEN [i \in DOMAIN active \cup {e.turn} |->
                              IF i = e.turn THEN Head(waiting) ELSE active[i]]
                    ELSE active
<1>0. 0 \notin Turns /\ 0 \notin all /\ 0 \in Captures /\ Turns \subseteq Captures
  BY DEF Turns, Captures, CaptureTyped, SessionTyped
<1>1. /\ marked \in [Captures -> Capture]
      /\ \A t \in Captures : /\ HeldBy(marked[t]) = HeldBy(captures[t])
                             /\ marked[t].held = captures[t].held
                             /\ marked[t].state = captures[t].state
      /\ marked[0] = captures[0]
  BY <1>0, MarkedIs DEF CaptureTyped
<1>2. SessionTyped(left, known, all)
  <2>1. waiting # << >> => Head(waiting) \in Turns /\ Tail(waiting) \in Seq(Turns)
    BY DEF CaptureTyped, SessionTyped
  <2>2. left \in Seq(Turns)
    BY <2>1 DEF CaptureTyped, SessionTyped
  <2>3. DOMAIN known \in SUBSET Turns /\ \A t \in DOMAIN known : known[t] \in Turns
    BY <2>1 DEF CaptureTyped, SessionTyped
  <2> HIDE DEF left, known
  <2> QED BY <2>2, <2>3 DEF CaptureTyped, SessionTyped
<1>3. Attributed(e) \subseteq Turns
  BY DEF Attributed, Named, CaptureTyped, SessionTyped
<1>4. CASE Attributed(e) = {}
  <2>1. ServerMessage(captures, used, e) = State(Marked(marked), left, known, all, used)
    BY <1>4 DEF ServerMessage
  <2> HIDE DEF marked, left, known
  <2>2. Held(Marked(marked)) = Held(captures) /\ Marked(marked) \in [Captures -> Capture]
    BY <1>1, MarkedIs, HeldSame DEF CaptureTyped
  <2>3. Follows(captures, used, Marked(marked), used)
    BY <2>2, HeldTyped DEF Follows, CaptureTyped
  <2>4. Untouched(Marked(marked), {})
    BY <1>0, <1>1, MarkedIs DEF Untouched
  <2> QED BY <1>2, <2>1, <2>3, <2>4 DEF State
<1>5. CASE Attributed(e) # {}
  <2> DEFINE t == CHOOSE u \in Attributed(e) : TRUE
             cap == Add(marked[t], 1, {e.turn}, used)
             bytes == used + (cap.held - marked[t].held)
  <2>1. ServerMessage(captures, used, e) =
          IF e.type \notin {"done", "error"}
          THEN State([marked EXCEPT ![t] = cap], left, known, all, bytes)
          ELSE State([marked EXCEPT ![t] = Finish(cap)], Withdrawn(left, t),
                     Without(known, t), all \ {t}, bytes - Returned(cap))
    BY <1>5 DEF ServerMessage
  <2>2. t \in Captures /\ t \in Turns
    BY <1>3, <1>5 DEF Captures
  <2> HIDE DEF marked, left, known, t
  <2>3. /\ cap \in Capture /\ cap.held >= marked[t].held
        /\ HeldBy(cap) - HeldBy(marked[t]) = cap.held - marked[t].held
        /\ used <= MemoryLimit => bytes <= MemoryLimit
        /\ cap.state = marked[t].state
    <3>1. marked[t] \in Capture /\ {e.turn} \in SUBSET Turns
      BY <1>1, <2>2
    <3> QED BY <3>1, AddIs, ZenonT(60)
  <2> HIDE DEF cap
  <2>4. /\ HeldBy(cap) \in Nat /\ HeldBy(captures[t]) \in Nat /\ cap.held \in Nat /\ marked[t].held \in Nat
        /\ HeldBy(marked[t]) = HeldBy(captures[t])
    BY <1>1, <2>2, <2>3, HeldByTyped DEF CaptureTyped, Capture
  <2>5. bytes = used + HeldBy(cap) - HeldBy(captures[t])
    BY <2>3, <2>4
  <2>6. Follows(captures, used, [marked EXCEPT ![t] = cap], bytes)
    <3> HIDE DEF bytes
    <3> QED BY <1>1, <2>2, <2>3, <2>5, OneFollows DEF CaptureTyped
  <2>7. /\ Finish(cap) \in Capture /\ HeldBy(Finish(cap)) = 0 /\ Returned(cap) = HeldBy(cap)
        /\ cap.state = "none" => Finish(cap).state = "none"
    BY <2>3, FinishIs
  <2>8. Follows(captures, used, [marked EXCEPT ![t] = Finish(cap)], bytes - Returned(cap))
    <3> DEFINE less == bytes - Returned(cap)
    <3>1. less = used + HeldBy(Finish(cap)) - HeldBy(captures[t])
      BY <2>4, <2>5, <2>7
    <3>2. used <= MemoryLimit => less <= MemoryLimit
      BY <2>4, <2>7, <3>1, CaptureAssumption
    <3> HIDE DEF less
    <3>3. Follows(captures, used, [marked EXCEPT ![t] = Finish(cap)], less)
      BY <1>1, <2>2, <2>7, <3>1, <3>2, OneFollows DEF CaptureTyped
    <3> QED BY <3>3 DEF less
  <2>9. SessionTyped(Withdrawn(left, t), Without(known, t), all \ {t})
    BY <1>2, WithdrawnTyped DEF SessionTyped, Without
  <2>10. /\ Untouched([marked EXCEPT ![t] = cap], {})
         /\ Untouched([marked EXCEPT ![t] = Finish(cap)], {})
    BY <1>0, <1>1, <2>2, <2>3, <2>7 DEF Untouched
  <2> HIDE DEF bytes
  <2> QED BY <1>2, <2>1, <2>6, <2>8, <2>9, <2>10 DEF State
<1> QED BY <1>4, <1>5

-----------------------------------------------------------------------------
\* A piece is kept or its frame is given up, and the bytes follow the parser.
LEMMA PieceIs ==
    ASSUME NEW tap \in Tap, memory \in Int
    PROVE  /\ Piece(tap).tap \in Tap
           /\ Piece(tap).bytes = memory + (Piece(tap).tap.size - tap.size)
           /\ memory <= MemoryLimit => Piece(tap).bytes <= MemoryLimit
           /\ Piece(tap).tap.event = tap.event /\ Piece(tap).tap.stopped = tap.stopped
           /\ Piece(tap).tap.discarding => tap.discarding \/ tap.stopped \/ Piece(tap).gap
<1> DEFINE keeps == ~tap.stopped /\ ~tap.discarding
           fits == memory + 1 <= MemoryLimit
           more == [tap EXCEPT !.size = @ + 1]
           none == [tap EXCEPT !.size = 0, !.discarding = TRUE]
           next == IF ~keeps THEN tap ELSE IF fits THEN more ELSE none
<1>1. Piece(tap) = [tap |-> next, bytes |-> memory + (next.size - tap.size), gap |-> keeps /\ ~fits]
  BY DEF Piece
<1>2. /\ Piece(tap).tap = next /\ Piece(tap).bytes = memory + (next.size - tap.size)
      /\ Piece(tap).gap = (keeps /\ ~fits)
  BY <1>1
<1>3. more \in Tap /\ more.size = tap.size + 1 /\ more.event = tap.event /\ more.stopped = tap.stopped
      /\ more.discarding = tap.discarding
  BY DEF Tap
<1>4. none \in Tap /\ none.size = 0 /\ none.event = tap.event /\ none.stopped = tap.stopped
  BY DEF Tap
<1>5. tap.size \in Nat /\ MemoryLimit \in Nat
  BY CaptureAssumption DEF Tap
<1> HIDE DEF more, none
<1>6. CASE ~keeps
  BY <1>2, <1>5, <1>6
<1>7. CASE keeps /\ fits
  BY <1>2, <1>3, <1>5, <1>7
<1>8. CASE keeps /\ ~fits
  <2>1. Piece(tap).tap = none /\ Piece(tap).gap
    BY <1>2, <1>8
  <2>2. Piece(tap).bytes = memory + (0 - tap.size)
    BY <1>2, <1>4, <1>8
  <2>3. memory <= MemoryLimit => Piece(tap).bytes <= MemoryLimit
    BY <1>5, <2>2
  <2> QED BY <1>4, <2>1, <2>2, <2>3
<1> QED BY <1>6, <1>7, <1>8

LEMMA BudgetStarts == L3Init => BudgetInvariant
<1> SUFFICES ASSUME L3Init PROVE BudgetInvariant
  OBVIOUS
<1>1. captures \in [Captures -> Capture] /\ \A t \in Captures : HeldBy(captures[t]) = 0
  BY NewIs DEF L3Init, Captures
<1>2. DOMAIN active = {}
  BY DEF L3Init
<1>3. CaptureTyped
  BY <1>1, <1>2 DEF L3Init, CaptureTyped, SessionTyped, Captures, Sides, NewTap, Tap, NoEvent, Event
<1>4. Unbegun
  BY DEF L3Init, Unbegun, Captures, Sides, NewTap, NoEvent, NoCapture
<1>5. Charged = 0
  <2> DEFINE f == [t \in Captures |-> HeldBy(captures[t])]
  <2>1. \A t \in Captures : f[t] = 0
    BY <1>1
  <2>2. Charged = SumFunctionOnSet(f, Captures)
    BY <1>1 DEF Charged, SumFunction
  <2> HIDE DEF f
  <2> QED BY <2>1, <2>2, CapturesFinite, SumOfZeros
<1>6. BudgetExact
  BY <1>5, CaptureAssumption DEF L3Init, BudgetExact, Buffered, Sides, NewTap
<1> QED BY <1>3, <1>4, <1>6 DEF BudgetInvariant

LEMMA ChargedIs ==
    captures \in [Captures -> Capture] => Charged = Held(captures)
BY DEF Charged, SumFunction, Held

\* A callback of the exchange.
LEMMA HandleKeeps ==
    ASSUME BudgetInvariant, NEW cap \in Capture, NEW back \in Nat, NEW phase \in {"asked", "answered", "ended"},
           Handle(cap, back, phase),
           memory + (cap.held - captures[0].held) - back = memory + HeldBy(cap) - HeldBy(captures[0]),
           memory + (cap.held - captures[0].held) - back <= MemoryLimit
    PROVE  BudgetInvariant'
<1> DEFINE bytes == memory + (cap.held - captures[0].held) - back
<1>1. Follows(captures, memory, [captures EXCEPT ![0] = cap], bytes)
  <2>1. 0 \in Captures
    BY DEF Captures
  <2> HIDE DEF bytes
  <2>2. bytes = memory + HeldBy(cap) - HeldBy(captures[0]) /\ bytes <= MemoryLimit
    BY DEF bytes
  <2> QED BY <2>1, <2>2, OneFollows DEF BudgetInvariant, CaptureTyped
<1>2. captures' = [captures EXCEPT ![0] = cap] /\ memory' = bytes
  BY DEF Handle
<1> HIDE DEF bytes
<1>3. CaptureTyped'
  BY <1>1, <1>2 DEF Handle, BudgetInvariant, CaptureTyped, Follows
<1>4. Unbegun'
  <2>1. \A t \in Turns : captures'[t] = captures[t]
    BY <1>2 DEF Turns, Captures, BudgetInvariant, CaptureTyped
  <2>2. exchange'.phase # "none"
    BY DEF Handle, BudgetInvariant, CaptureTyped
  <2> QED BY <2>1, <2>2 DEF Handle, BudgetInvariant, Unbegun
<1>5. Charged = Held(captures)
  BY ChargedIs DEF BudgetInvariant, CaptureTyped
<1>6. Charged' = Held(captures')
  BY <1>3 DEF CaptureTyped, Charged, SumFunction, Held
<1>7. Buffered' = Buffered /\ Buffered \in Nat
  BY DEF Handle, Buffered, BudgetInvariant, CaptureTyped, Sides, Tap
<1>8. BudgetExact'
  <2>1. Held(captures') \in Nat /\ Held(captures) \in Nat
    BY <1>3, HeldTyped DEF BudgetInvariant, CaptureTyped
  <2>2. memory' = memory + Held(captures') - Held(captures) /\ memory' <= MemoryLimit
    BY <1>1, <1>2 DEF Follows, BudgetInvariant, BudgetExact
  <2> QED BY <1>5, <1>6, <1>7, <2>1, <2>2 DEF BudgetInvariant, BudgetExact
<1> QED BY <1>3, <1>4, <1>8 DEF BudgetInvariant

\* The callbacks of the exchange keep the budget.
LEMMA ExchangeKeeps ==
    ASSUME BudgetInvariant,
           Request \/ Chunk \/ RequestEnd \/ Response \/ ResponseEnd \/ Disconnected
    PROVE  BudgetInvariant'
<1> DEFINE cap == captures[0]
<1>1. /\ cap \in Capture /\ HeldBy(cap) \in Nat /\ cap.held \in Nat
      /\ memory \in Int /\ memory <= MemoryLimit /\ MemoryLimit \in Nat
      /\ Gap(cap) \in Capture /\ HeldBy(Gap(cap)) = HeldBy(cap) /\ Gap(cap).held = cap.held
      /\ exchange.phase \in {"none", "asked", "answered", "ended"}
      /\ exchange.phase = "none" => cap = NoCapture
  <2>1. cap \in Capture
    BY DEF BudgetInvariant, CaptureTyped, Captures
  <2> HIDE DEF cap
  <2>2. HeldBy(cap) \in Nat /\ cap.held \in Nat
    BY <2>1, HeldByTyped DEF Capture
  <2>3. /\ Gap(cap) \in Capture /\ HeldBy(Gap(cap)) = HeldBy(cap) /\ Gap(cap).held = cap.held
    BY <2>1, GapIs
  <2> QED BY <2>1, <2>2, <2>3, CaptureAssumption
          DEF BudgetInvariant, CaptureTyped, Unbegun, BudgetExact, cap
<1> DEFINE Moves(c, back, phase) ==
             /\ c \in Capture /\ back \in Nat /\ phase \in {"asked", "answered", "ended"}
             /\ Handle(c, back, phase)
             /\ memory + (c.held - cap.held) - back = memory + HeldBy(c) - HeldBy(cap)
             /\ memory + (c.held - cap.held) - back <= MemoryLimit
<1>2. ASSUME NEW c, NEW back, NEW phase, Moves(c, back, phase) PROVE BudgetInvariant'
  BY <1>2, HandleKeeps
<1>3. ASSUME NEW c \in {cap, Gap(cap)} PROVE
        /\ Finish(c) \in Capture /\ Finish(c).held = cap.held /\ HeldBy(Finish(c)) = 0
        /\ Returned(cap) = HeldBy(cap)
  <2>1. c \in Capture /\ c.held = cap.held
    BY <1>1, <1>3
  <2> HIDE DEF cap
  <2> QED BY <1>1, <2>1, FinishIs
<1>4. CASE Request
  <2>1. Moves(NewCapture, 0, "asked")
    BY <1>1, <1>4, NewIs DEF Request
  <2> QED BY <1>2, <2>1
<1>5. CASE Chunk
  <2> DEFINE more == Add(cap, 1, {}, memory)
  <2>1. /\ more \in Capture
        /\ HeldBy(more) - HeldBy(cap) = more.held - cap.held
        /\ memory <= MemoryLimit => memory + (more.held - cap.held) <= MemoryLimit
    <3>1. {} \in SUBSET Turns
      OBVIOUS
    <3> HIDE DEF cap
    <3> QED BY <1>1, <3>1, AddIs
  <2>2. more.held \in Nat /\ HeldBy(more) \in Nat
    BY <2>1, HeldByTyped DEF Capture
  <2>3. Handle(more, 0, exchange.phase) /\ exchange.phase \in {"asked", "answered"}
    BY <1>5 DEF Chunk
  <2> HIDE DEF more, cap
  <2>4. Moves(more, 0, exchange.phase)
    BY <1>1, <2>1, <2>2, <2>3
  <2> QED BY <1>2, <2>4
<1>6. CASE RequestEnd
  BY <1>6 DEF RequestEnd, BudgetInvariant, CaptureTyped, Unbegun, BudgetExact, Buffered, Charged
<1>7. CASE Response
  <2>1. Moves(cap, 0, "answered")
    BY <1>1, <1>7 DEF Response
  <2> QED BY <1>2, <2>1
<1>8. CASE ResponseEnd
  <2>1. PICK c \in {cap, Gap(cap)} : Handle(Finish(c), Returned(cap), "ended")
    BY <1>8 DEF ResponseEnd
  <2>2. Moves(Finish(c), Returned(cap), "ended")
    <3>1. /\ Finish(c) \in Capture /\ Finish(c).held = cap.held /\ HeldBy(Finish(c)) = 0
          /\ Returned(cap) = HeldBy(cap)
      BY <1>3
    <3> HIDE DEF cap
    <3> QED BY <1>1, <2>1, <3>1
  <2> QED BY <1>2, <2>2
<1>9. CASE Disconnected
  <2>1. Handle(Finish(cap), Returned(cap), "ended")
    BY <1>9 DEF Disconnected
  <2>2. Moves(Finish(cap), Returned(cap), "ended")
    <3>1. /\ Finish(cap) \in Capture /\ Finish(cap).held = cap.held /\ HeldBy(Finish(cap)) = 0
          /\ Returned(cap) = HeldBy(cap)
      BY <1>3
    <3> HIDE DEF cap
    <3> QED BY <1>1, <2>1, <3>1
  <2> QED BY <1>2, <2>2
<1> QED BY <1>4, <1>5, <1>6, <1>7, <1>8, <1>9

\* A frame begins: its first piece is charged.
LEMMA FrameBeginsKeeps ==
    ASSUME BudgetInvariant, NEW s \in Sides, FrameBegins(s)
    PROVE  BudgetInvariant'
<1>1. PICK e \in Begun(s), shape \in Shapes :
         LET frame == [taps[s] EXCEPT !.event = e,
                                      !.discarding = ~taps[s].stopped /\ shape = "discarded",
                                      !.stopped = @ \/ shape = "broken"]
             first == Piece(frame)
         IN /\ taps' = [taps EXCEPT ![s] = first.tap]
            /\ memory' = first.bytes
            /\ captures' = IF first.gap \/ (~taps[s].stopped /\ shape # "text") THEN Marked(captures) ELSE captures
  BY DEF FrameBegins
<1> DEFINE tap == [taps[s] EXCEPT !.event = e,
                                  !.discarding = ~taps[s].stopped /\ shape = "discarded",
                                  !.stopped = @ \/ shape = "broken"]
           piece == Piece(tap)
<1>2. /\ taps' = [taps EXCEPT ![s] = piece.tap] /\ memory' = piece.bytes
      /\ captures' \in {captures, Marked(captures)}
  BY <1>1
<1>3. e \in Event /\ (s = "client" => e.type \in {"create", "other"} /\ (e.type = "other" => e.turn = 0)) /\ (s = "server" => e.type \in {"created", "delta", "done", "error"} /\ e.turn \in Turns /\ turns[e.turn] # "none")
      /\ (s = "client" /\ e.type = "create" => e.turn \in Turns /\ turns[e.turn] = "none")
  BY DEF Begun, Sendable, Answerable, Event, Captures, Sides
<1>4. tap \in Tap /\ tap.size = taps[s].size /\ tap.event = e
  <2>1. taps[s] \in Tap
    BY DEF BudgetInvariant, CaptureTyped
  <2> QED BY <1>3, <2>1 DEF Tap
<1> HIDE DEF tap
<1>5. /\ piece.tap \in Tap /\ piece.bytes = memory + (piece.tap.size - tap.size) /\ piece.bytes <= MemoryLimit
      /\ piece.tap.event = e
  BY <1>4, PieceIs DEF BudgetInvariant, CaptureTyped, BudgetExact
<1>6. captures' \in [Captures -> Capture] /\ Held(captures') = Held(captures) /\ \A t \in Captures : captures'[t].state = captures[t].state
  BY <1>2, MarkedIs DEF BudgetInvariant, CaptureTyped
<1>6a. 0 \notin all
  BY DEF BudgetInvariant, CaptureTyped, SessionTyped, Turns
<1>7. captures'[0] = captures[0]
  <2>1. 0 \in Captures
    BY DEF Captures
  <2>2. captures \in [Captures -> Capture]
    BY DEF BudgetInvariant, CaptureTyped
  <2>3. Marked(captures)[0] = captures[0]
    BY <1>6a, <2>1, <2>2, MarkedIs
  <2> QED BY <1>2, <2>3
<1> HIDE DEF piece
<1>8. CaptureTyped'
  <2>1. taps' \in [Sides -> Tap]
    BY <1>2, <1>5 DEF BudgetInvariant, CaptureTyped
  <2>2. memory' \in Int
    BY <1>2, <1>4, <1>5, SMTT(60) DEF BudgetInvariant, CaptureTyped, Tap
  <2> QED BY <1>6, <2>1, <2>2 DEF FrameBegins, BudgetInvariant, CaptureTyped
<1>9. Unbegun'
  <2>1. \A x \in Sides : taps'[x].event = IF x = s THEN e ELSE taps[x].event
    BY <1>2, <1>5 DEF BudgetInvariant, CaptureTyped
  <2>2. "client" \in Sides /\ "server" \in Sides
    BY DEF Sides
  <2>3. Turns \subseteq Captures
    BY DEF Captures
  <2> QED BY <1>3, <1>6, <1>7, <2>1, <2>2, <2>3 DEF FrameBegins, BudgetInvariant, Unbegun
<1>10. BudgetExact'
  <2>1. Buffered' = Buffered + (piece.tap.size - tap.size) /\ Buffered \in Nat /\ tap.size \in Nat /\ piece.tap.size \in Nat
    <3>1. \A x \in Sides : taps'[x].size = IF x = s THEN piece.tap.size ELSE taps[x].size
      BY <1>2 DEF BudgetInvariant, CaptureTyped
    <3>2. \A x \in Sides : taps[x].size \in Nat
      BY DEF BudgetInvariant, CaptureTyped, Tap
    <3>3. piece.tap.size \in Nat
      BY <1>5 DEF Tap
    <3> QED BY <1>4, <3>1, <3>2, <3>3 DEF Buffered, Sides
  <2>2. Charged = Held(captures) /\ Charged' = Held(captures') /\ Held(captures) \in Nat
    BY <1>6, HeldTyped DEF Charged, SumFunction, Held, BudgetInvariant, CaptureTyped
  <2> QED BY <1>2, <1>5, <1>6, <2>1, <2>2 DEF BudgetInvariant, BudgetExact
<1> QED BY <1>8, <1>9, <1>10 DEF BudgetInvariant

\* A frame ends: its bytes are released, then its message is handled.
LEMMA FrameEndsKeeps ==
    ASSUME BudgetInvariant, NEW s \in Sides, FrameEnds(s)
    PROVE  BudgetInvariant'
<1> DEFINE e == taps[s].event
           used == memory - taps[s].size
           next == IF taps[s].stopped \/ taps[s].discarding
                   THEN State(captures, waiting, active, all, used)
                   ELSE IF s = "client" THEN ClientMessage(captures, used, e)
                   ELSE ServerMessage(captures, used, e)
<1>1. /\ captures' = next.captures /\ waiting' = next.waiting
      /\ active' = next.active /\ all' = next.all
      /\ memory' = next.bytes /\ turns' = Reached(e)
      /\ taps' = [taps EXCEPT ![s] = [NewTap EXCEPT !.stopped = taps[s].stopped]]
      /\ UNCHANGED exchange /\ e # NoEvent
  BY DEF FrameEnds
<1>2. /\ e \in Event /\ taps[s].size \in Nat /\ taps[s].stopped \in BOOLEAN /\ used \in Int /\ used <= MemoryLimit
      /\ captures \in [Captures -> Capture]
  BY CaptureAssumption DEF BudgetInvariant, CaptureTyped, BudgetExact, Tap
<1>3. /\ s = "client" => /\ e.type \in {"other", "create", "none"}
                         /\ e.type = "create" => e.turn \in Turns /\ turns[e.turn] = "none"
      /\ s = "server" => /\ e.turn \in Turns /\ turns[e.turn] # "none"
                         /\ e.type \in {"created", "delta", "done", "error"}
  BY <1>1 DEF BudgetInvariant, Unbegun
<1>4. /\ Follows(captures, used, next.captures, next.bytes)
      /\ SessionTyped(next.waiting, next.active, next.all)
      /\ Untouched(next.captures, IF s = "client" THEN {e.turn} ELSE {})
  <2> HIDE DEF used, e
  <2>1. CASE taps[s].stopped \/ taps[s].discarding
    <3>1. Follows(captures, used, captures, used)
      BY <1>2, HeldTyped DEF Follows
    <3> QED BY <2>1, <3>1 DEF State, Untouched, BudgetInvariant, CaptureTyped
  <2>2. CASE ~(taps[s].stopped \/ taps[s].discarding) /\ s = "client"
    BY <1>2, <1>3, <2>2, ClientHandled DEF BudgetInvariant
  <2>3. CASE ~(taps[s].stopped \/ taps[s].discarding) /\ s = "server"
    BY <1>2, <1>3, <2>3, ServerHandled DEF BudgetInvariant
  <2> QED BY <2>1, <2>2, <2>3 DEF Sides
<1> HIDE DEF next
<1>5. Reached(e) \in [Turns -> {"none", "sent", "created", "ended"}]
  BY <1>3 DEF Reached, BudgetInvariant, CaptureTyped
<1>6. taps' \in [Sides -> Tap] /\ \A x \in Sides : taps'[x].event = IF x = s THEN NoEvent ELSE taps[x].event
  <2> DEFINE new == [NewTap EXCEPT !.stopped = taps[s].stopped]
  <2>1. new \in Tap /\ new.event = NoEvent
    BY <1>2 DEF NewTap, Tap, NoEvent, Event, Captures
  <2>2. taps' = [taps EXCEPT ![s] = new]
    BY <1>1
  <2> HIDE DEF new
  <2> QED BY <2>1, <2>2 DEF BudgetInvariant, CaptureTyped
<1>7. CaptureTyped'
  BY <1>1, <1>4, <1>5, <1>6 DEF Follows, BudgetInvariant, CaptureTyped
<1>8. Unbegun'
  <2>1. captures'[0] = captures[0]
    BY <1>1, <1>4 DEF Untouched
  <2>2. ASSUME NEW t \in Turns, turns'[t] = "none" PROVE captures'[t].state = "none"
    <3>1. turns[t] = "none" /\ ~(s = "client" /\ e.type = "create" /\ t = e.turn)
      <4>1. Reached(e)[t] = "none" /\ turns \in [Turns -> {"none", "sent", "created", "ended"}]
        BY <1>1, <2>2 DEF BudgetInvariant, CaptureTyped
      <4>2. t # 0
        BY DEF Turns
      <4>3. turns[t] = "none" /\ (t = e.turn => e.type = "delta")
        BY <4>1, <4>2 DEF Reached
      <4> QED BY <4>3
    <3>2. CASE t # e.turn \/ s = "server"
      BY <1>1, <1>4, <3>1, <3>2 DEF Untouched, BudgetInvariant, Unbegun
    <3>3. CASE s = "client" /\ e.type # "create"
      <4>1. e.turn = 0
        BY <1>3, <3>3 DEF BudgetInvariant, Unbegun
      <4> QED BY <3>2, <4>1 DEF Turns
    <3> QED BY <3>1, <3>2, <3>3 DEF Sides
  <2>3. ASSUME taps'["client"].event.type = "create"
        PROVE  taps'["client"].event.turn \in Turns /\ turns'[taps'["client"].event.turn] = "none"
    <3>1. s = "server" /\ taps'["client"].event = taps["client"].event
      BY <1>6, <2>3 DEF Sides, NoEvent
    <3>2. taps["client"].event.turn \in Turns /\ turns[taps["client"].event.turn] = "none"
      BY <2>3, <3>1 DEF BudgetInvariant, Unbegun
    <3>3. turns'[taps["client"].event.turn] = "none"
      BY <1>1, <1>3, <3>1, <3>2 DEF Reached, BudgetInvariant, CaptureTyped
    <3> QED BY <3>1, <3>2, <3>3
  <2>4. ASSUME taps'["server"].event # NoEvent
        PROVE  /\ taps'["server"].event.type # "none"
               /\ taps'["server"].event.turn \in Turns /\ turns'[taps'["server"].event.turn] # "none"
    <3>1. s = "client" /\ taps'["server"].event = taps["server"].event
      BY <1>6, <2>4 DEF Sides
    <3>2. /\ taps["server"].event.type # "none"
          /\ taps["server"].event.turn \in Turns /\ turns[taps["server"].event.turn] # "none"
      BY <2>4, <3>1 DEF BudgetInvariant, Unbegun
    <3>3. turns'[taps["server"].event.turn] # "none"
      BY <1>1, <3>2 DEF Reached, BudgetInvariant, CaptureTyped
    <3> QED BY <3>1, <3>2, <3>3
  <2>5. /\ taps'["client"].event.type \in {"none", "other", "create"}
        /\ taps'["client"].event.type # "create" => taps'["client"].event.turn = 0
        /\ taps'["server"].event.type \in {"none", "created", "delta", "done", "error"}
    BY <1>6 DEF Sides, NoEvent, BudgetInvariant, Unbegun
  <2> QED BY <1>1, <2>1, <2>2, <2>3, <2>4, <2>5 DEF BudgetInvariant, Unbegun
<1>9. BudgetExact'
  <2>1. Buffered' = Buffered - taps[s].size
    <3>1. \A x \in Sides : taps'[x].size = IF x = s THEN 0 ELSE taps[x].size
      BY <1>1 DEF BudgetInvariant, CaptureTyped, NewTap
    <3>2. \A x \in Sides : taps[x].size \in Nat
      BY DEF BudgetInvariant, CaptureTyped, Tap
    <3> QED BY <3>1, <3>2 DEF Buffered, Sides
  <2>2. Charged = Held(captures) /\ Charged' = Held(captures') /\ Held(captures) \in Nat /\ Held(captures') \in Nat
    BY <1>2, <1>7, HeldTyped DEF Charged, SumFunction, Held, CaptureTyped
  <2>3. memory' = used + Held(captures') - Held(captures) /\ memory' <= MemoryLimit
    BY <1>1, <1>2, <1>4 DEF Follows
  <2>4. Buffered \in Nat
    BY DEF Buffered, BudgetInvariant, CaptureTyped, Sides, Tap
  <2> QED BY <1>2, <2>1, <2>2, <2>3, <2>4 DEF BudgetInvariant, BudgetExact
<1> QED BY <1>7, <1>8, <1>9 DEF BudgetInvariant

\* The session closes: what its parsers and captures hold is returned.
LEMMA SessionClosesKeeps ==
    ASSUME BudgetInvariant, SessionCloses
    PROVE  BudgetInvariant'
<1> DEFINE f == [t \in DOMAIN captures |-> Returned(captures[t])]
<1>1. PICK caps \in {captures, Marked(captures)} :
         captures' = [t \in DOMAIN caps |-> IF t \in all THEN Finish(caps[t]) ELSE caps[t]]
  BY DEF SessionCloses
<1>2. captures \in [Captures -> Capture] /\ all \in SUBSET Captures /\ 0 \in Captures /\ 0 \notin all
  BY DEF BudgetInvariant, CaptureTyped, SessionTyped, Captures, Turns
<1>3. /\ caps \in [Captures -> Capture] /\ DOMAIN caps = Captures
      /\ \A t \in Captures : caps[t].state = captures[t].state /\ HeldBy(caps[t]) = HeldBy(captures[t])
      /\ caps[0] = captures[0]
  BY <1>1, <1>2, MarkedIs
<1>4. /\ captures' \in [Captures -> Capture]
      /\ \A t \in all : HeldBy(captures'[t]) = 0
      /\ \A t \in Captures \ all : HeldBy(captures'[t]) = HeldBy(captures[t])
      /\ \A t \in Captures : captures[t].state = "none" => captures'[t].state = "none"
      /\ captures'[0] = captures[0]
  BY <1>1, <1>2, <1>3, FinishIs
<1>5. Held(captures') = Held(captures) - SumFunctionOnSet([t \in Captures |-> HeldBy(captures[t])], all)
  BY <1>2, <1>4, HeldReturned
<1>6. f = [t \in Captures |-> HeldBy(captures[t])]
  BY <1>2, FinishIs
<1>7. SumFunctionOnSet(f, all) \in Nat
  <2>1. \A t \in all : f[t] \in Nat
    BY <1>2, <1>6, HeldByTyped
  <2>2. IsFiniteSet(all)
    BY <1>2, CapturesFinite, FS_Subset
  <2> HIDE DEF f
  <2> QED BY <2>1, <2>2, SumIsNat
<1>8. memory' = memory - Buffered - SumFunctionOnSet(f, all)
  BY DEF SessionCloses
<1> HIDE DEF f
<1>9. Buffered' = 0 /\ Buffered \in Nat /\ taps' \in [Sides -> Tap]
  BY DEF SessionCloses, Buffered, BudgetInvariant, CaptureTyped, Sides, Tap, NewTap, NoEvent, Event, Captures
<1>10. CaptureTyped'
  <2>1. SessionTyped(<< >>, << >>, {})
    BY DEF SessionTyped
  <2>2. memory' \in Int
    BY <1>7, <1>8, <1>9 DEF BudgetInvariant, CaptureTyped
  <2> QED BY <1>4, <1>9, <2>1, <2>2 DEF SessionCloses, BudgetInvariant, CaptureTyped
<1>11. Unbegun'
  <2>1. \A x \in Sides : taps'[x].event = NoEvent
    BY DEF SessionCloses, NewTap
  <2>2. Turns \subseteq Captures
    BY DEF Captures
  <2>3. /\ "client" \in Sides /\ "server" \in Sides /\ turns' = turns /\ exchange' = exchange
        /\ NoEvent.type = "none" /\ NoEvent.turn = 0
    BY DEF Sides, SessionCloses, NoEvent
  <2>4. /\ exchange.phase = "none" => captures[0] = NoCapture
        /\ \A t \in Turns : turns[t] = "none" => captures[t].state = "none"
    BY DEF BudgetInvariant, Unbegun
  <2>5. /\ exchange'.phase = "none" => captures'[0] = NoCapture
        /\ \A t \in Turns : turns'[t] = "none" => captures'[t].state = "none"
    BY <1>4, <2>2, <2>3, <2>4
  <2> QED BY <2>1, <2>3, <2>5 DEF Unbegun
<1>12. BudgetExact'
  <2>1. Charged = Held(captures) /\ Charged' = Held(captures') /\ Held(captures) \in Nat
    BY <1>2, <1>4, HeldTyped DEF Charged, SumFunction, Held
  <2> QED BY <1>5, <1>6, <1>7, <1>8, <1>9, <2>1, CaptureAssumption DEF BudgetInvariant, BudgetExact, CaptureTyped
<1> QED BY <1>10, <1>11, <1>12 DEF BudgetInvariant

LEMMA BudgetInvariantHolds == L3Spec => []BudgetInvariant
<1>1. BudgetInvariant /\ [L3Next]_l3Vars => BudgetInvariant'
  <2> SUFFICES ASSUME BudgetInvariant, [L3Next]_l3Vars PROVE BudgetInvariant'
    OBVIOUS
  <2>1. CASE UNCHANGED l3Vars
    BY <2>1 DEF l3Vars, BudgetInvariant, CaptureTyped, Unbegun, BudgetExact, Buffered, Charged
  <2> QED BY <2>1, ExchangeKeeps, FrameBeginsKeeps, FrameEndsKeeps, SessionClosesKeeps DEF L3Next
<1> QED BY <1>1, BudgetStarts, PTL DEF L3Spec

\* record.ts add() and finish(), websocket.ts feed(), release() and close():
\* bytes are neither leaked nor returned twice, and the limit is kept, however
\* the exchange and the session end, for any number of turns and any limits.
THEOREM BudgetIsExact == L3Spec => []BudgetExact
<1>1. BudgetInvariant => BudgetExact
  BY DEF BudgetInvariant
<1> QED BY <1>1, BudgetInvariantHolds, PTL

-----------------------------------------------------------------------------
(***************************************************************************)
(* L3Capture: a client that waits gets its own answers.                     *)
(***************************************************************************)

\* One turn runs at a time: those before it have ended, those after it have
\* not begun; the server answers the one that runs.
OneTurn ==
    /\ \A u, v \in Turns : u < v /\ turns[v] # "none" => turns[u] = "ended"
    /\ LET e == taps["client"].event
       IN e.type = "create" => \A v \in Turns : v < e.turn => turns[v] = "ended"
    /\ LET e == taps["server"].event
       IN /\ e.type = "created" => turns[e.turn] = "sent"
          /\ e.type \in {"delta", "done"} => turns[e.turn] = "created"
          /\ e.type = "error" => turns[e.turn] \in {"sent", "created"}

\* Captures h that the session holds are of turns that began, the others are
\* not live; what is no gap has only its own answers.
HeldTurns(caps, a, h, trn) ==
    /\ \A t \in Turns : caps[t].state = "live" => t \in h
    /\ \A t \in Turns : ~caps[t].gap => caps[t].got \subseteq {t}
    /\ \A t \in h : trn[t] # "none"
    /\ \A t \in DOMAIN a : trn[t] \in {"created", "ended"}

\* A held turn that is no gap runs, and the session knows how far it is.
InPlace(caps, w, a, h, trn) ==
    \A t \in h : \/ caps[t].gap
                 \/ trn[t] = "sent" /\ \E i \in 1..Len(w) : w[i] = t
                 \/ trn[t] = "created" /\ w = << >> /\ t \in DOMAIN a /\ a[t] = t

\* An answer the parser gave up is known to be missing.
GivenUp ==
    LET tap == taps["server"]
    IN tap.event.type # "none" /\ tap.discarding /\ ~tap.stopped /\ tap.event.turn \in all
         => captures[tap.event.turn].gap

SerialInvariant ==
    /\ OneTurn
    /\ HeldTurns(captures, active, all, turns)
    /\ ~taps["server"].stopped => InPlace(captures, waiting, active, all, turns)
    /\ GivenUp

\* A gap mark on what is held disturbs nothing.
LEMMA MarksDisturbNothing ==
    ASSUME NEW caps \in [Captures -> Capture], all \in SUBSET Turns, NEW w, NEW a, NEW trn
    PROVE  /\ HeldTurns(caps, a, all, trn) => HeldTurns(Marked(caps), a, all, trn)
           /\ InPlace(Marked(caps), w, a, all, trn)
<1>1. \A t \in Turns : /\ Marked(caps)[t].state = caps[t].state /\ Marked(caps)[t].got = caps[t].got
                       /\ Marked(caps)[t].gap = (caps[t].gap \/ t \in all)
  BY MarkedIs DEF Captures
<1>2. \A t \in Turns : (t \in all \/ caps[t].gap) <=> Marked(caps)[t].gap
  BY <1>1
<1>3. HeldTurns(caps, a, all, trn) => HeldTurns(Marked(caps), a, all, trn)
  BY <1>1, <1>2 DEF HeldTurns
<1>4. \A t \in all : Marked(caps)[t].gap
  BY <1>2
<1> QED BY <1>3, <1>4 DEF InPlace

\* The conversation itself stays serial, whatever the parser sees.
LEMMA OneTurnKept ==
    ASSUME ~Overlap, BudgetInvariant, SerialInvariant, NEW s \in Sides, FrameEnds(s)
    PROVE  OneTurn'
<1> DEFINE e == taps[s].event
<1>1. /\ turns' = Reached(e) /\ e # NoEvent
      /\ taps' = [taps EXCEPT ![s] = [NewTap EXCEPT !.stopped = taps[s].stopped]]
  BY DEF FrameEnds
<1>2. /\ taps \in [Sides -> Tap] /\ turns \in [Turns -> {"none", "sent", "created", "ended"}]
      /\ "client" \in Sides /\ "server" \in Sides
  BY DEF BudgetInvariant, CaptureTyped, Sides
<1>3. \A x \in Sides : taps'[x].event = IF x = s THEN NoEvent ELSE taps[x].event
  BY <1>1, <1>2 DEF NewTap
<1>4. NoEvent.type = "none"
  BY DEF NoEvent
<1>5. /\ s = "client" => /\ e.type \in {"create", "other", "none"} /\ (e.type # "create" => e.turn = 0)
                         /\ e.type = "create" => /\ e.turn \in Turns /\ turns[e.turn] = "none"
                                                 /\ \A v \in Turns : v < e.turn => turns[v] = "ended"
      /\ s = "server" => /\ e.type \in {"created", "delta", "done", "error"}
                         /\ e.turn \in Turns /\ turns[e.turn] \in {"sent", "created"}
  BY <1>1 DEF BudgetInvariant, Unbegun, SerialInvariant, OneTurn
<1> HIDE DEF e
<1>6. \A t \in Turns : /\ t # e.turn => turns'[t] = turns[t]
                       /\ t = e.turn => turns'[t] # "none"
  <2>1. 0 \notin Turns
    BY DEF Turns
  <2>2. CASE s = "client"
    BY <1>1, <1>2, <1>5, <2>1, <2>2 DEF Reached
  <2>3. CASE s = "server"
    BY <1>1, <1>2, <1>5, <2>1, <2>3 DEF Reached
  <2> QED BY <2>2, <2>3 DEF Sides
<1>7. \A u, v \in Turns : u < v /\ turns[v] # "none" => turns[u] = "ended"
  BY DEF SerialInvariant, OneTurn
<1>8. ASSUME NEW u \in Turns, NEW v \in Turns, u < v, turns'[v] # "none" PROVE turns'[u] = "ended"
  <2>1. u # v
    BY <1>8 DEF Turns
  <2>2. CASE v = e.turn
    <3>1. turns[u] = "ended"
      BY <1>5, <1>7, <1>8, <2>2 DEF Sides, Turns
    <3> QED BY <1>6, <2>1, <2>2, <3>1
  <2>3. CASE v # e.turn /\ u = e.turn
    <3>1. turns[u] = "ended"
      BY <1>6, <1>7, <1>8, <2>3
    <3> QED BY <1>5, <2>3, <3>1 DEF Sides, Turns
  <2>4. CASE v # e.turn /\ u # e.turn
    BY <1>6, <1>7, <1>8, <2>4
  <2> QED BY <2>2, <2>3, <2>4
<1>9. ASSUME taps'["client"].event.type = "create", NEW v \in Turns, v < taps'["client"].event.turn
      PROVE  turns'[v] = "ended"
  <2>1. s = "server" /\ taps'["client"].event = taps["client"].event
    BY <1>2, <1>3, <1>4, <1>9 DEF Sides
  <2>2. turns[v] = "ended"
    BY <1>9, <2>1 DEF SerialInvariant, OneTurn
  <2>3. v # e.turn
    BY <1>5, <2>1, <2>2
  <2> QED BY <1>6, <2>2, <2>3
<1>10. LET x == taps'["server"].event
       IN /\ x.type = "created" => turns'[x.turn] = "sent"
          /\ x.type \in {"delta", "done"} => turns'[x.turn] = "created"
          /\ x.type = "error" => turns'[x.turn] \in {"sent", "created"}
  <2>1. CASE s = "server"
    BY <1>2, <1>3, <1>4, <2>1
  <2>2. CASE s = "client"
    <3> DEFINE x == taps["server"].event
    <3>1. taps'["server"].event = x
      BY <1>2, <1>3, <2>2
    <3>2. /\ x.type = "created" => turns[x.turn] = "sent"
          /\ x.type \in {"delta", "done"} => turns[x.turn] = "created"
          /\ x.type = "error" => turns[x.turn] \in {"sent", "created"}
      BY DEF SerialInvariant, OneTurn
    <3>3. x.type \in {"created", "delta", "done", "error"} => x.turn \in Turns /\ turns[x.turn] # "none"
      BY <1>4 DEF BudgetInvariant, Unbegun
    <3> HIDE DEF x
    <3>4. x.type \in {"created", "delta", "done", "error"} => x.turn # e.turn
      BY <1>5, <2>2, <3>3 DEF Turns
    <3> QED BY <1>6, <3>1, <3>2, <3>3, <3>4
  <2> QED BY <2>1, <2>2 DEF Sides
<1> QED BY <1>8, <1>9, <1>10 DEF OneTurn

\* A frame that is dropped or unreadable: only the conversation goes on.
LEMMA DroppedFrame ==
    ASSUME ~Overlap, BudgetInvariant, SerialInvariant, NEW s \in Sides, taps[s].event # NoEvent,
           taps[s].stopped \/ taps[s].discarding
    PROVE  /\ HeldTurns(captures, active, all, Reached(taps[s].event))
           /\ ~taps["server"].stopped => InPlace(captures, waiting, active, all, Reached(taps[s].event))
<1> DEFINE e == taps[s].event
           trn == Reached(e)
<1>1. /\ s = "client" => e.type \in {"create", "other", "none"} /\ (e.type # "create" => e.turn = 0)
                         /\ (e.type = "create" => e.turn \in Turns /\ turns[e.turn] = "none")
      /\ s = "server" => /\ e.type \in {"created", "delta", "done", "error"}
                         /\ e.turn \in Turns /\ turns[e.turn] \in {"sent", "created"}
                         /\ e.type # "created" /\ e.type # "error" => turns[e.turn] = "created"
                         /\ e.type = "created" => turns[e.turn] = "sent"
  BY DEF BudgetInvariant, Unbegun, SerialInvariant, OneTurn
<1>2. /\ turns \in [Turns -> {"none", "sent", "created", "ended"}] /\ all \in SUBSET Turns
      /\ DOMAIN active \subseteq Turns
  BY DEF BudgetInvariant, CaptureTyped, SessionTyped
<1>3. \A t \in Turns : /\ t # e.turn => trn[t] = turns[t]
                       /\ trn[t] = "none" => turns[t] = "none"
                       /\ turns[t] \in {"created", "ended"} => trn[t] \in {"created", "ended"}
  BY <1>1, <1>2 DEF Reached, Sides
<1>4. HeldTurns(captures, active, all, trn)
  <2> HIDE DEF trn
  <2> QED BY <1>2, <1>3 DEF SerialInvariant, HeldTurns
<1>5. ASSUME ~taps["server"].stopped PROVE InPlace(captures, waiting, active, all, trn)
  <2>1. ASSUME NEW t \in all, ~captures[t].gap PROVE t # e.turn
    <3>1. CASE s = "client"
      <4>1. turns[t] # "none" /\ t # 0
        BY <1>2 DEF SerialInvariant, HeldTurns, Turns
      <4> QED BY <1>1, <3>1, <4>1
    <3>2. CASE s = "server"
      <4>1. taps["server"].discarding /\ e.type # "none"
        BY <1>1, <1>5, <3>2
      <4> QED BY <1>5, <2>1, <3>2, <4>1 DEF SerialInvariant, GivenUp
    <3> QED BY <3>1, <3>2 DEF Sides
  <2>2. InPlace(captures, waiting, active, all, turns)
    BY <1>5 DEF SerialInvariant
  <2> HIDE DEF trn, e
  <2> QED BY <1>2, <1>3, <2>1, <2>2 DEF InPlace
<1> QED BY <1>4, <1>5

\* What the client says: a turn that is sent has its place, whatever is marked.
LEMMA ClientKeepsPlaces ==
    ASSUME ~Overlap, BudgetInvariant, SerialInvariant, NEW used \in Int, NEW e \in Event,
           e = taps["client"].event, e # NoEvent
    PROVE  LET n == ClientMessage(captures, used, e)
           IN /\ HeldTurns(n.captures, n.active, n.all, Reached(e))
              /\ ~taps["server"].stopped =>
                   InPlace(n.captures, n.waiting, n.active, n.all, Reached(e))
              /\ \A t \in all : captures[t].gap => n.captures[t].gap
              /\ n.all \subseteq all \cup {e.turn}
<1> DEFINE trn == Reached(e)
<1>0. /\ e.type # "create" => e.turn = 0
      /\ e.type = "create" => /\ e.turn \in Turns /\ turns[e.turn] = "none"
                              /\ \A v \in Turns : v < e.turn => turns[v] = "ended"
  BY DEF BudgetInvariant, Unbegun, SerialInvariant, OneTurn
<1>1. /\ turns \in [Turns -> {"none", "sent", "created", "ended"}] /\ all \in SUBSET Turns
      /\ DOMAIN active \subseteq Turns /\ waiting \in Seq(Turns)
      /\ captures \in [Captures -> Capture] /\ Turns \subseteq Captures /\ 0 \notin Turns
  BY DEF BudgetInvariant, CaptureTyped, SessionTyped, Captures, Turns
<1>2. /\ \A t \in all : turns[t] # "none" /\ t # e.turn
      /\ \A t \in DOMAIN active : turns[t] \in {"created", "ended"} /\ t # e.turn
      /\ \A t \in Turns : captures[t].state = "live" => t \in all
      /\ \A t \in Turns : ~captures[t].gap => captures[t].got \subseteq {t}
  BY <1>0, <1>1 DEF SerialInvariant, HeldTurns
<1>3. \A t \in Turns : t # e.turn => trn[t] = turns[t]
  BY <1>0, <1>1 DEF Reached
<1>4. e.type = "create" => trn[e.turn] = "sent"
  BY <1>0, <1>1 DEF Reached
<1>5. HeldTurns(captures, active, all, trn)
  BY <1>1, <1>2, <1>3 DEF HeldTurns
<1>6. CASE e.type # "create" \/ Cardinality(all) >= TurnLimit
  <2>1. ClientMessage(captures, used, e) = State(Marked(captures), waiting, active, all, used)
    BY <1>6 DEF ClientMessage
  <2>2. /\ HeldTurns(Marked(captures), active, all, trn)
        /\ InPlace(Marked(captures), waiting, active, all, trn)
    BY <1>1, <1>5, MarksDisturbNothing
  <2>3. \A t \in all : Marked(captures)[t].gap
    <3>1. \A t \in all : Marked(captures)[t].gap = (captures[t].gap \/ t \in all)
      BY <1>1, MarkedIs
    <3> QED BY <3>1
  <2> QED BY <2>1, <2>2, <2>3 DEF State
<1>7. CASE ~ (e.type # "create" \/ Cardinality(all) >= TurnLimit)
  <2> DEFINE cap == Add(NewCapture, 1, {}, used)
             next == [captures EXCEPT ![e.turn] = cap]
  <2>1. ClientMessage(captures, used, e) = State(next, Append(waiting, e.turn), active, all \cup {e.turn}, used + cap.held)
    BY <1>7 DEF ClientMessage
  <2>2. cap.got = {}
    <3>1. {} \in SUBSET Turns
      OBVIOUS
    <3>2. cap.got \in {NewCapture.got, NewCapture.got \cup {}}
      BY <3>1, AddIs, NewIs
    <3> QED BY <3>2, NewIs
  <2> HIDE DEF cap
  <2>3. e.turn \in Turns /\ next[e.turn] = cap /\ \A t \in Turns : t # e.turn => next[t] = captures[t]
    BY <1>0, <1>1, <1>7
  <2> HIDE DEF next, trn
  <2>4. HeldTurns(next, active, all \cup {e.turn}, trn)
    BY <1>1, <1>2, <1>3, <1>4, <1>7, <2>2, <2>3, ZenonT(60) DEF HeldTurns
  <2>5. ASSUME ~taps["server"].stopped
        PROVE  InPlace(next, Append(waiting, e.turn), active, all \cup {e.turn}, trn)
    <3>1. ASSUME NEW t \in all, ~captures[t].gap PROVE FALSE
      <4>1. turns[t] \in {"sent", "created"}
        BY <2>5, <3>1 DEF SerialInvariant, InPlace
      <4>2. t < e.turn \/ e.turn < t
        BY <1>1, <1>2, <2>3 DEF Turns
      <4>3. ~ (e.turn < t)
        BY <1>0, <1>1, <1>7, <2>3, <3>1, <4>1 DEF SerialInvariant, OneTurn
      <4> QED BY <1>0, <1>1, <1>7, <3>1, <4>1, <4>2, <4>3
    <3>2. /\ Append(waiting, e.turn)[Len(waiting) + 1] = e.turn
          /\ Len(waiting) + 1 \in 1..Len(Append(waiting, e.turn))
      BY <1>1, <2>3
    <3>3. trn[e.turn] = "sent"
      BY <1>4, <1>7
    <3>4. \A t \in all : next[t].gap
      <4>1. \A t \in all : captures[t].gap /\ t \in Turns /\ t # e.turn
        BY <1>1, <1>2, <3>1
      <4> QED BY <2>3, <4>1
    <3> QED BY <3>2, <3>3, <3>4 DEF InPlace
  <2>6. \A t \in all : captures[t].gap => next[t].gap
    BY <1>1, <1>2, <2>3
  <2> QED BY <2>1, <2>4, <2>5, <2>6 DEF State, trn
<1> QED BY <1>6, <1>7

\* What the server answers: only the turn that runs can be attributed an answer
\* that its record keeps without a gap mark, and it keeps its place.
LEMMA ServerKeepsPlaces ==
    ASSUME ~Overlap, BudgetInvariant, SerialInvariant, NEW used \in Int, NEW e \in Event,
           e = taps["server"].event, e # NoEvent, ~taps["server"].stopped
    PROVE  LET n == ServerMessage(captures, used, e)
           IN /\ HeldTurns(n.captures, n.active, n.all, Reached(e))
              /\ InPlace(n.captures, n.waiting, n.active, n.all, Reached(e))
<1> DEFINE trn == Reached(e)
           marked == IF Ambiguous(e) THEN Marked(captures) ELSE captures
           left == IF Shifts(e) /\ waiting # << >> THEN Tail(waiting) ELSE waiting
           known == IF Shifts(e) /\ waiting # << >> /\ e.type = "created"
                    THEN [i \in DOMAIN active \cup {e.turn} |->
                              IF i = e.turn THEN Head(waiting) ELSE active[i]]
                    ELSE active
<1>1. /\ turns \in [Turns -> {"none", "sent", "created", "ended"}] /\ all \in SUBSET Turns
      /\ DOMAIN active \subseteq Turns /\ \A t \in DOMAIN active : active[t] \in Turns
      /\ waiting \in Seq(Turns)
      /\ captures \in [Captures -> Capture] /\ Turns \subseteq Captures /\ 0 \notin Turns
  BY DEF BudgetInvariant, CaptureTyped, SessionTyped, Captures, Turns
<1>2. /\ e.type \in {"created", "delta", "done", "error"} /\ e.turn \in Turns
      /\ e.type = "created" => turns[e.turn] = "sent"
      /\ e.type \in {"delta", "done"} => turns[e.turn] = "created"
      /\ e.type = "error" => turns[e.turn] \in {"sent", "created"}
  BY DEF BudgetInvariant, Unbegun, SerialInvariant, OneTurn
<1>3. /\ \A t \in Turns : t # e.turn => trn[t] = turns[t]
      /\ trn[e.turn] = CASE e.type = "created" -> "created" [] e.type = "delta" -> turns[e.turn]
                          [] OTHER -> "ended"
  BY <1>1, <1>2 DEF Reached
<1>4. /\ \A t \in Turns : captures[t].state = "live" => t \in all
      /\ \A t \in Turns : ~captures[t].gap => captures[t].got \subseteq {t}
      /\ \A t \in all : turns[t] # "none"
      /\ \A t \in DOMAIN active : turns[t] \in {"created", "ended"}
      /\ InPlace(captures, waiting, active, all, turns)
  BY DEF SerialInvariant, HeldTurns
<1>5. ASSUME NEW t \in all, ~captures[t].gap PROVE t = e.turn
  <2>1. turns[t] \in {"sent", "created"} /\ turns[e.turn] \in {"sent", "created"}
    BY <1>2, <1>4, <1>5 DEF InPlace
  <2>2. t < e.turn \/ e.turn < t \/ t = e.turn
    BY <1>1, <1>2 DEF Turns
  <2> QED BY <1>1, <1>2, <2>1, <2>2 DEF SerialInvariant, OneTurn
<1>6. /\ marked \in [Captures -> Capture]
      /\ \A t \in Turns : /\ marked[t].state = captures[t].state /\ marked[t].got = captures[t].got
                          /\ captures[t].gap => marked[t].gap
                          /\ Ambiguous(e) /\ t \in all => marked[t].gap
  <2>1. \A t \in Turns : /\ Marked(captures)[t].state = captures[t].state
                          /\ Marked(captures)[t].got = captures[t].got
                          /\ Marked(captures)[t].gap = (captures[t].gap \/ t \in all)
    BY <1>1, MarkedIs
  <2> QED BY <1>1, <2>1, MarkedIs
<1>7. HeldTurns(marked, known, all, trn)
  <2>1. DOMAIN known \subseteq Turns /\ \A t \in DOMAIN known : trn[t] \in {"created", "ended"}
    BY <1>1, <1>2, <1>3, <1>4
  <2>2. \A t \in all : trn[t] # "none"
    BY <1>1, <1>2, <1>3, <1>4
  <2>3. \A t \in Turns : ~marked[t].gap => marked[t].got \subseteq {t}
    BY <1>4, <1>6
  <2> HIDE DEF marked, known, trn
  <2> QED BY <1>4, <1>6, <2>1, <2>2, <2>3 DEF HeldTurns
\* Where the turn that runs stands before and after.
<1>8. ASSUME e.turn \in all, ~marked[e.turn].gap
      PROVE  /\ e.type = "created" => /\ Attributed(e) = {e.turn} /\ left = << >>
                                      /\ e.turn \in DOMAIN known /\ known[e.turn] = e.turn
             /\ e.type = "delta" => known = active /\ left = waiting
             /\ e.type = "done" => Attributed(e) = {e.turn}
             /\ e.type = "error" => Attributed(e) \in {{}, {e.turn}}
  <2>1. ~captures[e.turn].gap /\ ~Ambiguous(e)
    BY <1>2, <1>6, <1>8
  <2>2. \/ turns[e.turn] = "sent" /\ \E i \in 1..Len(waiting) : waiting[i] = e.turn
        \/ turns[e.turn] = "created" /\ waiting = << >> /\ e.turn \in DOMAIN active /\ active[e.turn] = e.turn
    BY <1>4, <1>8, <2>1 DEF InPlace
  <2>3. ASSUME Shifts(e), turns[e.turn] = "sent"
        PROVE  waiting # << >> /\ Head(waiting) = e.turn /\ Tail(waiting) = << >>
    <3>1. PICK i \in 1..Len(waiting) : waiting[i] = e.turn
      BY <2>2, <2>3
    <3>2. ~ (Len(waiting) > 1)
      BY <2>1, <2>3 DEF Ambiguous
    <3>3. Len(waiting) = 1 /\ waiting[1] = e.turn
      <4>1. Len(waiting) \in Nat
        BY <1>1
      <4>2. Len(waiting) = 1 /\ i = 1
        <5> DEFINE n == Len(waiting)
        <5>1. n \in Nat /\ ~(n > 1) /\ i \in 1..n
          BY <3>1, <3>2, <4>1
        <5> HIDE DEF n
        <5>2. n = 1 /\ i = 1
          BY <5>1
        <5> QED BY <5>2 DEF n
      <4> QED BY <3>1, <4>2
    <3>4. Len(Tail(waiting)) = 0 /\ Tail(waiting) \in Seq(Turns) /\ Head(waiting) = e.turn /\ waiting # << >>
      BY <1>1, <3>3
    <3> QED BY <3>4, EmptySeq
  <2>4. CASE e.type = "created"
    <3>1. turns[e.turn] = "sent" /\ e.turn \notin DOMAIN active
      BY <1>2, <1>4, <2>4
    <3>2. Named(e) = {} /\ Shifts(e)
      BY <2>4, <3>1 DEF Named, Shifts
    <3>3. waiting # << >> /\ Head(waiting) = e.turn /\ Tail(waiting) = << >>
      BY <2>3, <3>1, <3>2
    <3>4. Attributed(e) = {e.turn}
      BY <3>2, <3>3 DEF Attributed
    <3> QED BY <2>4, <3>2, <3>3, <3>4
  <2>5. CASE e.type = "delta"
    BY <2>5 DEF Shifts
  <2>6. CASE e.type = "done"
    BY <1>2, <2>2, <2>6 DEF Attributed, Named
  <2>7. CASE e.type = "error"
    <3>1. Named(e) = {} /\ Shifts(e)
      BY <2>7 DEF Named, Shifts
    <3>2. CASE turns[e.turn] = "sent"
      BY <2>3, <2>7, <3>1, <3>2 DEF Attributed
    <3>3. CASE waiting = << >>
      <4>1. Attributed(e) = IF Cardinality(all) = 1 THEN all ELSE {}
        BY <3>1, <3>3 DEF Attributed
      <4>2. IsFiniteSet(all)
        BY <1>1, FS_Subset, CapturesFinite
      <4>3. Cardinality(all) = 1 => all = {e.turn}
        BY <1>8, <4>2, FS_Singleton
      <4> QED BY <2>7, <4>1, <4>3
    <3> QED BY <2>2, <2>7, <3>2, <3>3
  <2> QED BY <1>2, <2>4, <2>5, <2>6, <2>7
<1>9. CASE Attributed(e) = {}
  <2>1. ServerMessage(captures, used, e) = State(Marked(marked), left, known, all, used)
    BY <1>9 DEF ServerMessage
  <2> HIDE DEF marked, left, known, trn
  <2>2. HeldTurns(Marked(marked), known, all, trn) /\ InPlace(Marked(marked), left, known, all, trn)
    BY <1>1, <1>6, <1>7, MarksDisturbNothing
  <2> QED BY <2>1, <2>2 DEF State, trn
<1>10. CASE Attributed(e) # {}
  <2> DEFINE t == CHOOSE u \in Attributed(e) : TRUE
             cap == Add(marked[t], 1, {e.turn}, used)
             bytes == used + (cap.held - marked[t].held)
             over == e.type \in {"done", "error"}
             next == [marked EXCEPT ![t] = IF over THEN Finish(cap) ELSE cap]
             rest == IF over THEN all \ {t} ELSE all
             named == IF over THEN Without(known, t) ELSE known
             queue == IF over THEN Withdrawn(left, t) ELSE left
  <2>1. LET n == ServerMessage(captures, used, e)
        IN n.captures = next /\ n.waiting = queue /\ n.active = named /\ n.all = rest
    <3>1. ServerMessage(captures, used, e) =
            IF e.type \notin {"done", "error"}
            THEN State([marked EXCEPT ![t] = cap], left, known, all, bytes)
            ELSE State([marked EXCEPT ![t] = Finish(cap)], Withdrawn(left, t),
                       Without(known, t), all \ {t}, bytes - Returned(cap))
      BY <1>10 DEF ServerMessage
    <3> HIDE DEF marked, left, known, cap, bytes, t
    <3>2. CASE over
      BY <3>1, <3>2 DEF State
    <3>3. CASE ~over
      BY <3>1, <3>3 DEF State
    <3> QED BY <3>2, <3>3
  <2>2. t \in Turns /\ t \in Attributed(e)
    BY <1>1, <1>10 DEF Attributed, Named
  <2> HIDE DEF marked, left, known, trn, t
  <2>3. /\ cap \in Capture /\ cap.state = marked[t].state
        /\ marked[t].gap => cap = marked[t]
        /\ marked[t].state # "live" => cap = marked[t]
        /\ cap.got \in {marked[t].got, marked[t].got \cup {e.turn}}
    <3>1. marked[t] \in Capture /\ {e.turn} \in SUBSET Turns
      BY <1>1, <1>2, <1>6, <2>2
    <3> DEFINE m == marked[t]
               from == {e.turn}
    <3>2. m \in Capture /\ from \in SUBSET Turns /\ cap = Add(m, 1, from, used)
      BY <3>1
    <3> HIDE DEF m, from, cap
    <3>3. /\ cap \in Capture /\ cap.state = m.state /\ (m.gap => cap = m)
          /\ (m.state # "live" => cap = m) /\ cap.got \in {m.got, m.got \cup from}
      BY <3>2, AddIs
    <3> QED BY <3>3 DEF m, from
  <2> HIDE DEF cap
  <2>4. Finish(cap).gap = cap.gap /\ Finish(cap).got = cap.got /\ Finish(cap).state # "live"
    BY <2>3, FinishIs
  <2>5. /\ \A u \in Turns : u # t => next[u] = marked[u]
        /\ next[t].gap = cap.gap /\ next[t].got = cap.got
        /\ next[t].state = "live" => cap.state = "live" /\ ~over
    BY <1>1, <1>6, <2>2, <2>4
  <2>6. ~cap.gap => cap.got \subseteq {t}
    <3>1. CASE marked[t].gap \/ marked[t].state # "live"
      BY <1>7, <2>2, <2>3, <3>1 DEF HeldTurns
    <3>2. CASE ~marked[t].gap /\ marked[t].state = "live"
      <4>1. t = e.turn
        BY <1>4, <1>5, <1>6, <2>2, <3>2
      <4>2. marked[t].got \subseteq {t}
        BY <1>7, <2>2, <3>2 DEF HeldTurns
      <4> QED BY <2>3, <4>1, <4>2
    <3> QED BY <3>1, <3>2
  <2>7. DOMAIN named \subseteq DOMAIN known /\ rest \subseteq all /\ (\A u \in all : u # t => u \in rest)
        /\ (~over => rest = all)
    BY DEF Without
  <2> HIDE DEF next, rest, named, queue
  <2>8. HeldTurns(next, named, rest, trn)
    <3>1. \A u \in Turns : next[u].state = "live" => u \in rest
      BY <1>7, <2>2, <2>3, <2>5, <2>7 DEF HeldTurns
    <3>2. \A u \in Turns : ~next[u].gap => next[u].got \subseteq {u}
      BY <1>7, <2>5, <2>6 DEF HeldTurns
    <3> QED BY <1>7, <2>7, <3>1, <3>2 DEF HeldTurns
  <2>9. InPlace(next, queue, named, rest, trn)
    <3> SUFFICES ASSUME NEW u \in rest, ~next[u].gap
                 PROVE  \/ trn[u] = "sent" /\ \E i \in 1..Len(queue) : queue[i] = u
                        \/ trn[u] = "created" /\ queue = << >> /\ u \in DOMAIN named /\ named[u] = u
      BY DEF InPlace
    <3>1. u \in all /\ ~marked[u].gap
      BY <1>1, <2>3, <2>5, <2>7
    <3>2. u = e.turn /\ ~captures[u].gap
      BY <1>1, <1>5, <1>6, <3>1
    <3>3. ~ (e.type \in {"done", "error"})
      <4>1. ASSUME e.type \in {"done", "error"} PROVE t = u
        BY <1>8, <1>10, <2>2, <3>1, <3>2, <4>1
      <4> QED BY <4>1 DEF rest
    <3>4. named = known /\ queue = left
      BY <3>3 DEF named, queue
    <3>5. CASE e.type = "created"
      BY <1>3, <1>8, <3>1, <3>2, <3>4, <3>5
    <3>6. CASE e.type = "delta"
      BY <1>3, <1>4, <1>8, <3>1, <3>2, <3>4, <3>6 DEF InPlace
    <3> QED BY <1>2, <3>3, <3>5, <3>6
  <2> QED BY <2>1, <2>8, <2>9 DEF trn
<1> QED BY <1>9, <1>10

\* A frame begins: what is given up is marked.
LEMMA SerialFrameBegins ==
    ASSUME ~Overlap, BudgetInvariant, SerialInvariant, NEW s \in Sides, FrameBegins(s)
    PROVE  SerialInvariant'
<1>1. PICK e \in Begun(s), shape \in Shapes :
         LET frame == [taps[s] EXCEPT !.event = e,
                                      !.discarding = ~taps[s].stopped /\ shape = "discarded",
                                      !.stopped = @ \/ shape = "broken"]
             first == Piece(frame)
         IN /\ taps' = [taps EXCEPT ![s] = first.tap]
            /\ captures' = IF first.gap \/ (~taps[s].stopped /\ shape # "text") THEN Marked(captures) ELSE captures
  BY DEF FrameBegins
<1> DEFINE tap == [taps[s] EXCEPT !.event = e,
                                  !.discarding = ~taps[s].stopped /\ shape = "discarded",
                                  !.stopped = @ \/ shape = "broken"]
           piece == Piece(tap)
<1>2. /\ taps' = [taps EXCEPT ![s] = piece.tap]
      /\ captures' = IF piece.gap \/ (~taps[s].stopped /\ shape # "text") THEN Marked(captures) ELSE captures
  BY <1>1
<1>3. UNCHANGED <<waiting, active, all, turns>>
  BY DEF FrameBegins
<1>4. /\ taps \in [Sides -> Tap] /\ taps[s] \in Tap /\ captures \in [Captures -> Capture] /\ all \in SUBSET Turns
      /\ memory \in Int /\ "client" \in Sides /\ "server" \in Sides /\ Turns \subseteq Captures
      /\ waiting' = waiting
  BY <1>3 DEF BudgetInvariant, CaptureTyped, SessionTyped, Sides, Captures
<1>5. /\ e \in Event
      /\ s = "client" /\ e.type = "create" => \A v \in Turns : v < e.turn => turns[v] = "ended"
      /\ s = "server" => /\ e.type = "created" => turns[e.turn] = "sent"
                         /\ e.type \in {"delta", "done"} => turns[e.turn] = "created"
                         /\ e.type = "error" => turns[e.turn] \in {"sent", "created"}
  <2>1. CASE s = "client"
    BY <2>1 DEF Begun, Sendable, Event, Captures
  <2>2. CASE s = "server"
    BY <2>2 DEF Begun, Answerable, Event, Captures
  <2> QED BY <2>1, <2>2 DEF Sides
<1>6. /\ tap \in Tap /\ tap.event = e /\ tap.stopped = (taps[s].stopped \/ shape = "broken")
      /\ tap.discarding = (~taps[s].stopped /\ shape = "discarded")
  BY <1>4, <1>5 DEF Tap
<1> HIDE DEF tap
<1>7. /\ piece.tap.event = e /\ piece.tap.stopped = tap.stopped
      /\ piece.tap.discarding => tap.discarding \/ tap.stopped \/ piece.gap
  BY <1>4, <1>6, PieceIs
<1> HIDE DEF piece
<1>8. \A x \in Sides : taps'[x] = IF x = s THEN piece.tap ELSE taps[x]
  BY <1>2, <1>4
<1>9. OneTurn'
  <2>1. \A x \in Sides : taps'[x].event = IF x = s THEN e ELSE taps[x].event
    BY <1>7, <1>8
  <2>2. turns' = turns
    BY <1>3
  <2> QED BY <1>4, <1>5, <2>1, <2>2 DEF SerialInvariant, OneTurn
<1>10. HeldTurns(captures', active', all', turns')
  BY <1>2, <1>3, <1>4, MarksDisturbNothing DEF SerialInvariant
<1>11. ASSUME ~taps'["server"].stopped PROVE InPlace(captures', waiting', active', all', turns')
  <2>1. ~taps["server"].stopped
    BY <1>4, <1>6, <1>7, <1>8, <1>11
  <2> QED BY <1>2, <1>3, <1>4, <2>1, MarksDisturbNothing DEF SerialInvariant
<1>12. \A t \in all : /\ Marked(captures)[t].gap
                      /\ captures[t].gap => captures'[t].gap
  <2>1. \A t \in all : Marked(captures)[t].gap = (captures[t].gap \/ t \in all)
    BY <1>4, MarkedIs
  <2> QED BY <1>2, <2>1
<1>13. GivenUp'
  <2>1. CASE s = "client"
    <3>1. taps'["server"] = taps["server"]
      BY <1>4, <1>8, <2>1
    <3> QED BY <1>3, <1>12, <3>1 DEF SerialInvariant, GivenUp
  <2>2. CASE s = "server"
    <3> SUFFICES ASSUME piece.tap.discarding, ~piece.tap.stopped, e.turn \in all PROVE captures'[e.turn].gap
      BY <1>3, <1>4, <1>7, <1>8, <2>2 DEF GivenUp
    <3>1. piece.gap \/ (~taps[s].stopped /\ shape # "text")
      BY <1>6, <1>7
    <3> QED BY <1>2, <1>12, <3>1
  <2> QED BY <2>1, <2>2 DEF Sides
<1> QED BY <1>9, <1>10, <1>11, <1>13 DEF SerialInvariant, HeldTurns, InPlace

\* A frame ends: the conversation and the session go on together.
LEMMA SerialFrameEnds ==
    ASSUME ~Overlap, BudgetInvariant, SerialInvariant, NEW s \in Sides, FrameEnds(s)
    PROVE  SerialInvariant'
<1> DEFINE e == taps[s].event
           used == memory - taps[s].size
           next == IF taps[s].stopped \/ taps[s].discarding
                   THEN State(captures, waiting, active, all, used)
                   ELSE IF s = "client" THEN ClientMessage(captures, used, e)
                   ELSE ServerMessage(captures, used, e)
<1>1. /\ captures' = next.captures /\ waiting' = next.waiting
      /\ active' = next.active /\ all' = next.all /\ turns' = Reached(e)
      /\ taps' = [taps EXCEPT ![s] = [NewTap EXCEPT !.stopped = taps[s].stopped]]
      /\ e # NoEvent
  BY DEF FrameEnds
<1>2. /\ e \in Event /\ used \in Int /\ taps \in [Sides -> Tap] /\ all \in SUBSET Turns
      /\ "client" \in Sides /\ "server" \in Sides
  BY DEF BudgetInvariant, CaptureTyped, SessionTyped, Tap, Sides
<1>3. /\ \A x \in Sides : taps'[x].stopped = taps[x].stopped
      /\ \A x \in Sides : x # s => taps'[x] = taps[x]
      /\ taps'[s].event.type = "none"
  BY <1>1, <1>2, SMTT(60) DEF NewTap, NoEvent
<1>4. /\ HeldTurns(next.captures, next.active, next.all, Reached(e))
      /\ ~taps["server"].stopped => InPlace(next.captures, next.waiting, next.active, next.all, Reached(e))
      /\ s = "client" => /\ \A t \in all : captures[t].gap => next.captures[t].gap
                         /\ next.all \subseteq all \cup {e.turn}
  <2> HIDE DEF used
  <2>1. CASE taps[s].stopped \/ taps[s].discarding
    BY <1>1, <2>1, DroppedFrame DEF State
  <2>2. CASE ~(taps[s].stopped \/ taps[s].discarding) /\ s = "client"
    BY <1>1, <1>2, <2>2, ClientKeepsPlaces
  <2>3. CASE ~(taps[s].stopped \/ taps[s].discarding) /\ s = "server"
    BY <1>1, <1>2, <2>3, ServerKeepsPlaces
  <2> QED BY <2>1, <2>2, <2>3 DEF Sides
<1> HIDE DEF next
<1>5. OneTurn'
  BY OneTurnKept
<1>6. GivenUp'
  <2>1. CASE s = "server"
    BY <1>3, <2>1 DEF GivenUp
  <2>2. CASE s = "client"
    <3> DEFINE x == taps["server"].event
    <3>1. taps'["server"] = taps["server"]
      BY <1>2, <1>3, <2>2
    <3> SUFFICES ASSUME x.type # "none", taps["server"].discarding, ~taps["server"].stopped, x.turn \in all'
                 PROVE  captures'[x.turn].gap
      BY <3>1 DEF GivenUp
    <3>2. x.turn \in Turns /\ turns[x.turn] # "none"
      BY DEF BudgetInvariant, Unbegun, NoEvent
    <3>3. e.type = "create" => turns[e.turn] = "none"
      BY <2>2 DEF BudgetInvariant, Unbegun
    <3>4. e.type # "create" => e.turn = 0
      BY <2>2 DEF BudgetInvariant, Unbegun
    <3>5. x.turn # e.turn
      BY <3>2, <3>3, <3>4 DEF Turns
    <3>6. x.turn \in all
      BY <1>1, <1>4, <2>2, <3>5
    <3>7. captures[x.turn].gap
      BY <3>6 DEF SerialInvariant, GivenUp
    <3> QED BY <1>1, <1>4, <2>2, <3>6, <3>7
  <2> QED BY <2>1, <2>2 DEF Sides
<1>7. ~taps'["server"].stopped => InPlace(captures', waiting', active', all', turns')
  BY <1>1, <1>2, <1>3, <1>4
<1> QED BY <1>1, <1>4, <1>5, <1>6, <1>7 DEF SerialInvariant, HeldTurns, InPlace

LEMMA SerialSessionCloses ==
    ASSUME BudgetInvariant, SerialInvariant, SessionCloses
    PROVE  SerialInvariant'
<1>1. PICK caps \in {captures, Marked(captures)} :
         captures' = [t \in DOMAIN caps |-> IF t \in all THEN Finish(caps[t]) ELSE caps[t]]
  BY DEF SessionCloses
<1>2. captures \in [Captures -> Capture] /\ all \in SUBSET Turns /\ Turns \subseteq Captures
  BY DEF BudgetInvariant, CaptureTyped, SessionTyped, Captures
<1>3. /\ caps \in [Captures -> Capture] /\ DOMAIN caps = Captures
      /\ HeldTurns(caps, active, all, turns)
  BY <1>1, <1>2, MarkedIs, MarksDisturbNothing DEF SerialInvariant
<1>4. ASSUME NEW t \in Turns
      PROVE  captures'[t].state # "live" /\ (~captures'[t].gap => captures'[t].got \subseteq {t})
  <2>1. caps[t] \in Capture
    BY <1>2, <1>3
  <2>2. CASE t \in all
    <3>1. captures'[t] = Finish(caps[t])
      BY <1>1, <1>2, <1>3, <2>2
    <3> QED BY <1>3, <2>1, <3>1, FinishIs DEF HeldTurns
  <2>3. CASE t \notin all
    <3>1. captures'[t] = caps[t]
      BY <1>1, <1>2, <1>3, <2>3
    <3> QED BY <1>3, <2>3, <3>1 DEF HeldTurns
  <2> QED BY <2>2, <2>3
<1>5. /\ all' = {} /\ active' = << >> /\ turns' = turns
      /\ \A x \in Sides : taps'[x].event.type = "none"
      /\ "client" \in Sides /\ "server" \in Sides
  BY DEF SessionCloses, NewTap, NoEvent, Sides
<1>6. OneTurn'
  BY <1>5 DEF SerialInvariant, OneTurn
<1>7. HeldTurns(captures', active', all', turns')
  <2>1. DOMAIN active' = {}
    BY <1>5
  <2> QED BY <1>4, <1>5, <2>1 DEF HeldTurns
<1>8. InPlace(captures', waiting', active', all', turns') /\ GivenUp'
  BY <1>5 DEF InPlace, GivenUp
<1> QED BY <1>6, <1>7, <1>8 DEF SerialInvariant, HeldTurns, InPlace

\* The exchange has no part in the session.
LEMMA SerialExchange ==
    ASSUME BudgetInvariant, SerialInvariant,
           Request \/ Chunk \/ RequestEnd \/ Response \/ ResponseEnd \/ Disconnected
    PROVE  SerialInvariant'
<1>1. /\ UNCHANGED <<waiting, active, all, taps, turns>>
      /\ captures' = captures \/ \E cap : captures' = [captures EXCEPT ![0] = cap]
  BY DEF Request, Chunk, RequestEnd, Response, ResponseEnd, Disconnected, Handle
<1>2. /\ \A t \in Turns : captures'[t] = captures[t]
      /\ all \subseteq Turns
  BY <1>1 DEF BudgetInvariant, CaptureTyped, SessionTyped, Captures, Turns
<1>3. OneTurn'
  BY <1>1 DEF SerialInvariant, OneTurn
<1>4. HeldTurns(captures', active', all', turns')
  BY <1>1, <1>2 DEF SerialInvariant, HeldTurns
<1>5. ~taps'["server"].stopped => InPlace(captures', waiting', active', all', turns')
  BY <1>1, <1>2 DEF SerialInvariant, InPlace
<1>6. GivenUp'
  BY <1>1, <1>2 DEF SerialInvariant, GivenUp
<1> QED BY <1>3, <1>4, <1>5, <1>6 DEF SerialInvariant, HeldTurns, InPlace

LEMMA SerialStarts == L3Init => SerialInvariant
<1> SUFFICES ASSUME L3Init PROVE SerialInvariant
  OBVIOUS
<1>1. /\ \A t \in Turns : captures[t] = NoCapture /\ turns[t] = "none"
      /\ all = {} /\ DOMAIN active = {}
      /\ taps["client"].event.type = "none" /\ taps["server"].event.type = "none"
  BY DEF L3Init, Sides, NewTap, NoEvent
<1>2. OneTurn
  BY <1>1 DEF OneTurn
<1>3. HeldTurns(captures, active, all, turns)
  BY <1>1 DEF HeldTurns, NoCapture
<1> QED BY <1>1, <1>2, <1>3 DEF SerialInvariant, InPlace, GivenUp

\* websocket.ts Session: a client that waits for the end of a turn before it
\* sends the next has no record without a gap mark that holds another turn's
\* answer, whatever frames are dropped, refused or unreadable on either side,
\* for any number of turns and any limits.
THEOREM SerialTurnsKeepTheirAnswers == L3Spec => []SerialAnswers
<1> DEFINE Serial == ~Overlap => SerialInvariant
<1>1. L3Init => Serial
  BY SerialStarts
<1>2. BudgetInvariant /\ Serial /\ [L3Next]_l3Vars => Serial'
  <2> SUFFICES ASSUME BudgetInvariant, ~Overlap, SerialInvariant, [L3Next]_l3Vars PROVE SerialInvariant'
    OBVIOUS
  <2>1. CASE UNCHANGED l3Vars
    BY <2>1 DEF l3Vars, SerialInvariant, OneTurn, HeldTurns, InPlace, GivenUp
  <2> QED BY <2>1, SerialExchange, SerialFrameBegins, SerialFrameEnds, SerialSessionCloses DEF L3Next
<1>3. Serial => SerialAnswers
  BY DEF SerialInvariant, HeldTurns, SerialAnswers, OwnAnswers
<1> HIDE DEF Serial
<1> QED BY <1>1, <1>2, <1>3, BudgetInvariantHolds, PTL DEF L3Spec
=============================================================================
