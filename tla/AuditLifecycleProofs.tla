------------------------- MODULE AuditLifecycleProofs -------------------------
(***************************************************************************)
(* Proofs about the life of a journal after its writer, for every set of    *)
(* requests, all limits and journals of any length: recovery is never       *)
(* blocked and what it indexes is true, retention can still find whatever   *)
(* is left of a request, and a record on hold loses nothing.                *)
(*   The argument follows a request through three ages.  While the writer   *)
(* may still touch it, the invariants of AuditJournalProofs and             *)
(* AuditLedgerProofs hold of it.  After that its blobs are a whole journal, *)
(* which recovery completes.  Once it expired they only get fewer, in the   *)
(* order in which retention removes them.                                   *)
(***************************************************************************)
EXTENDS AuditLedgerProofs, AuditLifecycle

-----------------------------------------------------------------------------
(* What the blobs of a request say. *)

Headers(r) == OfKind(r, "header")
EndMarks(r)    == OfKind(r, "end")
Records(r) == OfKind(r, "record")

Kinds == {"pending", "request", "header", "frame", "end", "record", "index"}

\* A blob is known by its kind.
LEMMA BlobShapes ==
    ASSUME NEW b \in Blobs
    PROVE  /\ b.kind \in Kinds
           /\ b.kind = "pending" => b = Pending
           /\ b.kind = "request" => b = Request
           /\ b.kind = "header" => b.format \in Formats /\ b = Header(b.format)
           /\ b.kind = "frame" => b.chain \in Seq(Texts) /\ b = Frame(b.chain)
           /\ b.kind = "end" => b.outcome \in Outcomes /\ b.truncated \in BOOLEAN
           /\ b.kind = "record" => b \in RecordBlobs
<1>1. CASE b \in [kind : {"pending", "request"}]
  BY <1>1 DEF Pending, Request, Kinds
<1>2. CASE b \in [kind : {"header"}, format : Formats]
  BY <1>2 DEF Header, Kinds
<1>3. CASE b \in [kind : {"frame"}, chain : Seq(Texts)]
  BY <1>3 DEF Frame, Kinds
<1>4. CASE b \in [kind : {"end"}, outcome : Outcomes, format : Formats \cup {"none"},
                  chain : Seq(Texts), truncated : BOOLEAN]
  BY <1>4 DEF Kinds
<1>5. CASE b \in RecordBlobs
  BY <1>5 DEF RecordBlobs, Kinds
<1>6. CASE b \in [kind : {"index"}, contentHash : RecordBlobs]
  BY <1>6 DEF Kinds
<1>. QED  BY <1>1, <1>2, <1>3, <1>4, <1>5, <1>6 DEF Blobs

\* What a record says.
LEMMA RecordFields ==
    ASSUME NEW o, NEW f, NEW chain, NEW t, NEW x
    PROVE  LET b == Record(o, f, chain, t, x)
           IN /\ b.kind = "record" /\ b.outcome = o /\ b.format = f /\ b.chain = chain
              /\ b.truncated = t /\ b.recovered = x
              /\ (/\ o \in Outcomes \cup {"process_interrupted"} /\ f \in Formats \cup {"none"}
                  /\ chain \in Seq(Texts) /\ t \in BOOLEAN /\ x \in BOOLEAN) => b \in RecordBlobs
<1>. DEFINE done == o = "upstream_end" /\ Terminal(f, chain) /\ ~t
<1>1. Record(o, f, chain, t, x) =
        [kind |-> "record", outcome |-> o, format |-> f, chain |-> chain, truncated |-> t,
         recovered |-> x, complete |-> done]
  BY DEF Record
<1>2. done \in BOOLEAN
  OBVIOUS
<1>. HIDE DEF done
<1>. QED  BY <1>1, <1>2 DEF RecordBlobs

\* What recovery reads, as a function of the blobs it reads it from.
FormatOf(headers) == IF headers = {} THEN "none" ELSE (CHOOSE b \in headers : TRUE).format

RecordOf(ends, f, chain, x) ==
    IF ends = {}
    THEN Record("process_interrupted", f, chain, FALSE, x)
    ELSE LET e == CHOOSE b \in ends : TRUE IN Record(e.outcome, f, chain, e.truncated, x)

\* It depends on the frames, the header and the end alone.
LEMMA RebuiltFrom ==
    ASSUME NEW r \in Requests, Framed(r)' = Framed(r), Headers(r)' = Headers(r), EndMarks(r)' = EndMarks(r)
    PROVE  /\ HeaderFormat(r)' = HeaderFormat(r) /\ LastChain(r)' = LastChain(r)
           /\ \A x : Rebuilt(r, x)' = Rebuilt(r, x)
<1>1. HeaderFormat(r)' = HeaderFormat(r)
  <2>1. HeaderFormat(r) = FormatOf(Headers(r)) /\ HeaderFormat(r)' = FormatOf(Headers(r)')
    BY DEF HeaderFormat, Headers, FormatOf
  <2>. QED  BY <2>1
<1>2. LastChain(r)' = LastChain(r)
  BY DEF LastChain
<1>3. ASSUME NEW x PROVE Rebuilt(r, x)' = Rebuilt(r, x)
  <2>1. /\ Rebuilt(r, x) = RecordOf(EndMarks(r), HeaderFormat(r), LastChain(r), x)
        /\ Rebuilt(r, x)' = RecordOf(EndMarks(r)', HeaderFormat(r)', LastChain(r)', x)
    BY DEF Rebuilt, EndMarks, RecordOf
  <2>. QED  BY <1>1, <1>2, <2>1
<1>. QED  BY <1>1, <1>2, <1>3

LEMMA SameBlobs ==
    ASSUME NEW r \in Requests, store'[r] = store[r]
    PROVE  /\ \A k : OfKind(r, k)' = OfKind(r, k)
           /\ Headers(r)' = Headers(r) /\ EndMarks(r)' = EndMarks(r) /\ Records(r)' = Records(r)
           /\ HeaderFormat(r)' = HeaderFormat(r) /\ LastChain(r)' = LastChain(r)
           /\ \A x : Rebuilt(r, x)' = Rebuilt(r, x)
           /\ Framed(r)' = Framed(r) /\ Longest(r)' = Longest(r) /\ Indexed(r)' = Indexed(r)
<1>1. \A k : OfKind(r, k)' = OfKind(r, k)
  BY DEF OfKind
<1>2. Headers(r)' = Headers(r) /\ EndMarks(r)' = EndMarks(r) /\ Records(r)' = Records(r)
  BY <1>1 DEF Headers, EndMarks, Records
<1>. QED  BY <1>1, <1>2, SameStore, RebuiltFrom

\* The text that recovery reads is the text of the entry.
LEMMA LastIsLongest ==
    ASSUME NEW r \in Requests, OneText(r)
    PROVE  LastChain(r) = Longest(r)
<1>. DEFINE L == Longest(r)
<1>1. /\ L \in Seq(Texts) /\ Len(L) \in Nat /\ L \in Framed(r) \cup {<< >>}
      /\ \A c \in Framed(r) : c \in Seq(Texts) /\ Len(c) \in 1..Len(L) /\ c = SubSeq(L, 1, Len(c))
  BY DEF OneText, IsText
<1>. HIDE DEF L
<1>2. CASE Framed(r) = {}
  BY <1>1, <1>2 DEF LastChain, L
<1>3. CASE Framed(r) # {}
  <2>1. L \in Framed(r)
    <3>1. PICK c \in Framed(r) : TRUE  BY <1>3
    <3>2. Len(L) >= 1  BY <1>1, <3>1
    <3>3. L # << >>  BY <1>1, <3>2
    <3>. QED  BY <1>1, <3>3
  <2>2. \A d \in Framed(r) : Len(d) <= Len(L)
    BY <1>1
  <2>3. ASSUME NEW c \in Framed(r), \A d \in Framed(r) : Len(d) <= Len(c) PROVE c = L
    <3>1. Len(c) = Len(L) /\ c = SubSeq(L, 1, Len(c))  BY <1>1, <2>1, <2>3
    <3>. QED  BY <1>1, <3>1
  <2>. QED  BY <1>3, <2>1, <2>2, <2>3 DEF LastChain, L
<1>. QED  BY <1>2, <1>3

\* The chains are all beginnings of the text, and only they.
LEMMA ChainsOfText ==
    ASSUME NEW r \in Requests, OneText(r), Durable(r, Longest(r))
    PROVE  /\ Longest(r) \in Seq(Texts) /\ Len(Longest(r)) \in Nat
           /\ Framed(r) = {SubSeq(Longest(r), 1, k) : k \in 1..Len(Longest(r))}
           /\ \A k \in 1..Len(Longest(r)) : Len(SubSeq(Longest(r), 1, k)) = k
<1>. DEFINE L == Longest(r)
<1>1. /\ L \in Seq(Texts) /\ Len(L) \in Nat
      /\ \A c \in Framed(r) : Len(c) \in 1..Len(L) /\ c = SubSeq(L, 1, Len(c))
  BY DEF OneText, IsText
<1>2. ASSUME NEW k \in 1..Len(L) PROVE SubSeq(L, 1, k) \in Framed(r) /\ Len(SubSeq(L, 1, k)) = k
  <2>1. Frame(SubSeq(L, 1, k)) \in store[r]
    BY DEF Durable
  <2>2. Frame(SubSeq(L, 1, k)).kind = "frame" /\ Frame(SubSeq(L, 1, k)).chain = SubSeq(L, 1, k)
    BY DEF Frame
  <2>3. SubSeq(L, 1, k) \in Framed(r)
    BY <2>1, <2>2 DEF Framed
  <2>. QED  BY <1>1, <2>3
<1>. HIDE DEF L
<1>3. Framed(r) = {SubSeq(L, 1, k) : k \in 1..Len(L)}
  BY <1>1, <1>2
<1>. QED  BY <1>1, <1>2, <1>3 DEF L

\* Whatever is durable is a beginning of the text.
LEMMA PrefixOfText ==
    ASSUME NEW r \in Requests, OneText(r), NEW s \in Seq(Texts), Durable(r, s)
    PROVE  Len(s) <= Len(Longest(r)) /\ s = SubSeq(Longest(r), 1, Len(s))
<1>1. /\ Longest(r) \in Seq(Texts) /\ Len(Longest(r)) \in Nat
      /\ \A c \in Framed(r) : Len(c) \in 1..Len(Longest(r)) /\ c = SubSeq(Longest(r), 1, Len(c))
  BY DEF OneText, IsText
<1>2. CASE Len(s) = 0
  <2>1. s = << >> /\ SubSeq(Longest(r), 1, 0) = << >>
    BY <1>1, <1>2
  <2>. QED  BY <1>1, <1>2, <2>1
<1>3. CASE Len(s) # 0
  <2>1. Len(s) \in 1..Len(s) /\ SubSeq(s, 1, Len(s)) = s
    BY <1>3
  <2>2. Frame(s) \in store[r] /\ Frame(s).kind = "frame" /\ Frame(s).chain = s
    BY <2>1 DEF Durable, Frame
  <2>3. s \in Framed(r)
    BY <2>2 DEF Framed
  <2>. QED  BY <1>1, <2>3
<1>. QED  BY <1>2, <1>3

\* So the checks that recovery makes of the frames succeed.
LEMMA ChainIsValid ==
    ASSUME NEW r \in Requests, OneText(r), Durable(r, Longest(r)), Framed(r) # {} => Headers(r) # {}
    PROVE  ChainValid(r)
<1>. DEFINE L == Longest(r)
            n == Len(L)
            f == [k \in 1..n |-> SubSeq(L, 1, k)]
<1>1. /\ L \in Seq(Texts) /\ n \in Nat
      /\ Framed(r) = {SubSeq(L, 1, k) : k \in 1..n}
      /\ \A k \in 1..n : Len(SubSeq(L, 1, k)) = k
  BY ChainsOfText
<1>2. Cardinality(Framed(r)) = n
  <2>. HIDE DEF L, n
  <2>1. f \in Bijection(1..n, Framed(r))
    BY <1>1 DEF Bijection, Injection, IsInjective, Surjection
  <2>2. ExistsBijection(1..n, Framed(r))
    BY <2>1 DEF ExistsBijection
  <2>. QED  BY <1>1, <2>2, FS_CountingElements
<1>3. {Len(c) : c \in Framed(r)} = 1..n
  <2>. HIDE DEF L, n
  <2>1. ASSUME NEW c \in Framed(r) PROVE Len(c) \in 1..n
    BY <1>1
  <2>2. ASSUME NEW k \in 1..n PROVE \E c \in Framed(r) : Len(c) = k
    <3>1. SubSeq(L, 1, k) \in Framed(r) /\ Len(SubSeq(L, 1, k)) = k  BY <1>1
    <3>. QED  BY <3>1
  <2>. QED  BY <2>1, <2>2
<1>4. ASSUME NEW c \in Framed(r), Len(c) > 1 PROVE SubSeq(c, 1, Len(c) - 1) \in Framed(r)
  <2>1. PICK k \in 1..n : c = SubSeq(L, 1, k) /\ Len(c) = k
    BY <1>1
  <2>2. SubSeq(c, 1, k - 1) = SubSeq(L, 1, k - 1) /\ k - 1 \in 1..n
    BY <1>1, <1>4, <2>1
  <2>. QED  BY <1>1, <2>1, <2>2
<1>. QED  BY <1>2, <1>3, <1>4 DEF ChainValid, Headers

-----------------------------------------------------------------------------
(* The invariant. *)

\* Nothing of the writer is under way for a request that is quiet.
Quiet(r) ==
    /\ cap[r].op = "idle"
    /\ \/ cap[r].phase \in {"refused", "done", "lost"}
       \/ cap[r].phase = "abandoned" /\ cap[r].res # "pending"

\* Requests that the writer, or an upload it left, may still touch.
Active(r) == age[r] = "fresh" \/ ~Quiet(r)

NamedOnce(r) == \A a, b \in store[r] : SameName(a, b) => a = b

\* A whole journal: what recovery can complete.
Whole(r) ==
    /\ OneText(r) /\ Durable(r, Longest(r))
    /\ Framed(r) # {} => Headers(r) # {}
    /\ \A e \in EndMarks(r) : e.chain = Longest(r) /\ e.format = HeaderFormat(r)
    /\ \A b \in Records(r) : b = Rebuilt(r, b.recovered)
    /\ \A i \in Indexed(r) : i.contentHash \in Records(r)

\* It holds what the client saw and what the gateway decided.
Served(r) ==
    /\ Durable(r, client[r].sent)
    /\ \A e \in EndMarks(r) : cap[r].fin # "open" /\ e.outcome = cap[r].fin
    /\ client[r].reply = "ended" => Indexed(r) # {}

Unfinished(r) ==
    cap[r].res = "pending" /\ cap[r].op \notin {"end", "record", "index"} /\ cap[r].phase # "lost"

\* What may still land is the blob that the journal lacks next.
Due(r, o) ==
    /\ o.kind # "pending" => Pending \in store[r]
    /\ o.kind = "header" =>
         /\ Framed(r) = {} /\ EndMarks(r) = {} /\ Records(r) = {}
         /\ cap[r].info # "none" /\ o = Header(cap[r].info)
    /\ o.kind = "frame" => Headers(r) # {} /\ EndMarks(r) = {} /\ Records(r) = {}
    /\ o.kind = "end" =>
         /\ o.chain = Longest(r) /\ o.format = HeaderFormat(r) /\ Records(r) = {}
         /\ cap[r].fin # "open" /\ o.outcome = cap[r].fin
    /\ o.kind = "record" => o = Rebuilt(r, FALSE)
    /\ o.kind = "index" => o.contentHash \in Records(r) /\ ~o.contentHash.recovered
    /\ o.kind \in {"end", "record", "index"} => ~Unfinished(r)

\* The put that is under way, and what came before it.
Puts(r) ==
    /\ cap[r].op = "header" => wire[r] = {Header(cap[r].info)}
    /\ cap[r].op = "end" => wire[r] = {MyEnd(cap[r])}
    /\ cap[r].op = "record" => wire[r] = {MyRecord(cap[r])} /\ MyEnd(cap[r]) \in store[r]
    /\ cap[r].op = "index" => wire[r] = {Index(MyRecord(cap[r]))} /\ MyRecord(cap[r]) \in store[r]

\* What the writer knows of the header and of the end.
Headed(r) ==
    /\ \A h \in Headers(r) : cap[r].info # "none" /\ h = Header(cap[r].info)
    /\ cap[r].info # "none" /\ ~Uncertain(r) /\ cap[r].op # "header" => Header(cap[r].info) \in store[r]
    /\ Unfinished(r) => EndMarks(r) = {} /\ Records(r) = {}

Writing(r) == (\A o \in wire[r] : Due(r, o)) /\ Puts(r) /\ Headed(r)

\* IndexTellsTheTruth, of one request.
Told(r) ==
    \A i \in Indexed(r) :
        LET b == i.contentHash
        IN /\ Len(client[r].sent) <= Len(b.chain)
           /\ client[r].sent = SubSeq(b.chain, 1, Len(client[r].sent))
           /\ b.outcome \in {cap[r].fin, "process_interrupted"}
           /\ client[r].reply = "ended" => b.outcome = "upstream_end"
           /\ b.recovered => age[r] # "fresh"

\* What a recovery Job has under way completes the journal of a quiet request.
Repair(r, o) ==
    /\ window = "paused" /\ ~Active(r) /\ client[r].reply # "ended" /\ Pending \in store[r]
    /\ \/ o = Rebuilt(r, TRUE)
       \/ o.kind = "index" /\ o.contentHash \in Records(r)

\* Retention takes the frames from the first on, so what is left of them is a line.
Line(r) ==
    \E text \in Seq(Texts), m \in Nat \ {0} : Framed(r) = {SubSeq(text, 1, k) : k \in m..Len(text)}

\* How far retention has come with a request.
Cleared(r) ==
    /\ purge[r] # "idle" => retain.on /\ r \notin retain.holds /\ age[r] = "expired"
    /\ purge[r] \in {"request", "journal", "index", "pending"} => Records(r) = {}
    /\ purge[r] \in {"journal", "index", "pending"} => Request \notin store[r]
    /\ purge[r] \in {"index", "pending"} => Framed(r) = {} /\ EndMarks(r) = {} /\ Headers(r) = {}
    /\ purge[r] = "pending" => Indexed(r) = {}

\* The window keeps the Jobs and the writer apart.
Exclusive ==
    /\ retain.on => window # "paused" /\ held \subseteq retain.holds
    /\ window = "paused" => ~proc.up
    /\ ~proc.up => \A r \in Requests : cap[r].phase \in Over

LifeTypes ==
    /\ age \in [Requests -> {"fresh", "aged", "expired"}]
    /\ purge \in [Requests -> {"idle", "content", "request", "journal", "index", "pending"}]
    /\ rwire \in [Requests -> SUBSET Blobs]
    /\ retain = [on |-> retain.on, holds |-> retain.holds] /\ retain.on \in BOOLEAN

Aging(r) ==
    /\ age[r] # "fresh" => cap[r].phase # "new"
    /\ age[r] = "expired" => Quiet(r) /\ Line(r)

Written(r) == Active(r) => Local(r) /\ Entry(r) /\ Writing(r) /\ rwire[r] = {}

Kept(r) == age[r] # "expired" \/ rwire[r] # {} => Whole(r) /\ Served(r)

Found(r) == store[r] # {} => Pending \in store[r]

Life(r) ==
    /\ Aging(r) /\ Written(r) /\ Kept(r) /\ NamedOnce(r) /\ Told(r) /\ Cleared(r) /\ Found(r)
    /\ \A o \in rwire[r] : Repair(r, o)

LifeInv == TypeOK /\ Counted /\ LifeTypes /\ Exclusive /\ \A r \in Requests : Life(r)

-----------------------------------------------------------------------------
(* The steps of the writer that put nothing new. *)

\* What is due stays due while the blobs and the outcome stay.
LEMMA DueKept ==
    ASSUME NEW r \in Requests, store'[r] = store[r],
           cap[r].fin # "open" => cap'[r].fin = cap[r].fin, cap'[r].info = cap[r].info,
           Unfinished(r)' => Unfinished(r), NEW o, Due(r, o)
    PROVE  Due(r, o)'
<1>1. /\ Headers(r)' = Headers(r) /\ EndMarks(r)' = EndMarks(r) /\ Records(r)' = Records(r)
      /\ HeaderFormat(r)' = HeaderFormat(r) /\ Framed(r)' = Framed(r) /\ Longest(r)' = Longest(r)
      /\ Rebuilt(r, FALSE)' = Rebuilt(r, FALSE)
  BY SameBlobs
<1>. QED  BY <1>1 DEF Due

LEMMA SaysSame ==
    ASSUME NEW c, NEW d, c.fin = d.fin, c.info = d.info, c.frames = d.frames, c.truncated = d.truncated
    PROVE  MyEnd(c) = MyEnd(d) /\ MyRecord(c) = MyRecord(d)
  BY DEF MyEnd, MyRecord

\* A step that puts nothing, and leaves the put that is under way or ends it.
LEMMA WritingKept ==
    ASSUME NEW r \in Requests, Writing(r), store'[r] = store[r],
           cap[r].fin # "open" => cap'[r].fin = cap[r].fin,
           cap'[r].info = cap[r].info,
           Uncertain(r) => Uncertain(r)',
           Unfinished(r)' => Unfinished(r),
           \/ /\ cap'[r].op = cap[r].op /\ wire'[r] = wire[r]
              /\ cap[r].op \in {"end", "record", "index"} =>
                   /\ cap[r].fin # "open" /\ cap'[r].frames = cap[r].frames
                   /\ cap'[r].truncated = cap[r].truncated
           \/ /\ cap'[r].op = "idle" /\ wire'[r] \subseteq wire[r]
              /\ cap[r].op = "header" => Uncertain(r)' \/ Header(cap[r].info) \in store[r]
    PROVE  Writing(r)'
<1>1. /\ Headers(r)' = Headers(r) /\ EndMarks(r)' = EndMarks(r) /\ Records(r)' = Records(r)
  BY SameBlobs
<1>2. \A o \in wire'[r] : Due(r, o)'
  BY DueKept DEF Writing
<1>3. Puts(r)'
  <2>1. CASE cap'[r].op = cap[r].op /\ wire'[r] = wire[r]
    <3>1. cap[r].op = "header" => wire'[r] = {Header(cap'[r].info)}
      BY <2>1 DEF Writing, Puts
    <3>2. cap[r].op \in {"end", "record", "index"} =>
            MyEnd(cap'[r]) = MyEnd(cap[r]) /\ MyRecord(cap'[r]) = MyRecord(cap[r])
      BY <2>1, SaysSame
    <3>. QED  BY <2>1, <3>1, <3>2 DEF Writing, Puts
  <2>2. CASE cap'[r].op = "idle"
    BY <2>2 DEF Puts
  <2>. QED  BY <2>1, <2>2
<1>4. Headed(r)'
  BY <1>1 DEF Writing, Headed
<1>. QED  BY <1>2, <1>3, <1>4 DEF Writing

\* Only one header can be there: its format is what recovery reads.
LEMMA HeaderKnown ==
    ASSUME NEW r \in Requests, TypeOK, Headed(r), ~Uncertain(r), cap[r].op # "header"
    PROVE  HeaderFormat(r) = cap[r].info
<1>1. CASE cap[r].info = "none"
  <2>1. Headers(r) = {}
    BY <1>1 DEF Headed
  <2>. QED  BY <1>1, <2>1 DEF HeaderFormat, Headers
<1>2. CASE cap[r].info # "none"
  <2>. DEFINE h == Header(cap[r].info)
  <2>1. h \in store[r] /\ h.kind = "header" /\ h.format = cap[r].info
    BY <1>2 DEF Headed, Header
  <2>2. h \in Headers(r) /\ \A x \in Headers(r) : x = h
    BY <2>1 DEF Headed, Headers, OfKind
  <2>. HIDE DEF h
  <2>3. FormatOf(Headers(r)) = cap[r].info
    BY <2>1, <2>2 DEF FormatOf
  <2>. QED  BY <2>3 DEF FormatOf, HeaderFormat, Headers
<1>. QED  BY <1>1, <1>2

\* What the end and the record of a capture say.
LEMMA EndFields ==
    ASSUME NEW c
    PROVE  /\ MyEnd(c).kind = "end" /\ MyEnd(c).outcome = c.fin /\ MyEnd(c).format = c.info
           /\ MyEnd(c).chain = c.frames /\ MyEnd(c).truncated = c.truncated
           /\ MyRecord(c).kind = "record" /\ ~MyRecord(c).recovered
           /\ Index(MyRecord(c)).kind = "index" /\ Index(MyRecord(c)).contentHash = MyRecord(c)
  BY DEF MyEnd, End, MyRecord, Record, Index

\* The record that the writer puts is the one recovery would rebuild.
LEMMA WriterRebuilds ==
    ASSUME NEW r \in Requests, NamedOnce(r), Whole(r), NEW c, MyEnd(c) \in store[r]
    PROVE  MyRecord(c) = Rebuilt(r, FALSE)
<1>1. MyEnd(c) \in EndMarks(r)
  BY EndFields DEF EndMarks, OfKind
<1>2. \A e \in EndMarks(r) : e = MyEnd(c)
  <2>. SUFFICES ASSUME NEW e \in EndMarks(r) PROVE e = MyEnd(c)  OBVIOUS
  <2>1. e \in store[r] /\ e.kind = "end"
    BY DEF EndMarks, OfKind
  <2>2. SameName(e, MyEnd(c))
    BY <2>1, EndFields DEF SameName
  <2>. QED  BY <2>1, <2>2 DEF NamedOnce
<1>3. c.frames = LastChain(r) /\ c.info = HeaderFormat(r)
  BY <1>1, LastIsLongest, EndFields DEF Whole
<1>4. (CHOOSE b \in EndMarks(r) : TRUE) = MyEnd(c) /\ EndMarks(r) # {}
  BY <1>1, <1>2
<1>5. Rebuilt(r, FALSE) = RecordOf(EndMarks(r), HeaderFormat(r), LastChain(r), FALSE)
  BY DEF Rebuilt, RecordOf, EndMarks
<1>6. RecordOf(EndMarks(r), HeaderFormat(r), LastChain(r), FALSE)
        = Record(c.fin, HeaderFormat(r), LastChain(r), c.truncated, FALSE)
  BY <1>4, EndFields DEF RecordOf
<1>. QED  BY <1>3, <1>5, <1>6 DEF MyRecord

\* The handler's own steps.
LEMMA HandleWriting ==
    ASSUME TypeOK, NEW r \in Requests, Local(r), Entry(r), Writing(r), Handle(r)
    PROVE  Writing(r)'
<1>. /\ cap[r] \in Caps /\ cap \in [Requests -> Caps] /\ wire \in [Requests -> SUBSET Blobs]
  BY DEF TypeOK
<1>s. store'[r] = store[r]
  BY DEF Handle, BeginRefused, Begin, IntentAck, RequestAck, BeginFail, Forward, Reject, ProxyError
<1>f. cap[r].op \in {"end", "record", "index"} => Finishing(r)
  BY DEF Local, PutInPhase
<1>1. CASE Begin(r) \/ IntentAck(r)
  <2>1. /\ cap'[r].fin = cap[r].fin /\ cap'[r].info = cap[r].info /\ cap'[r].res = cap[r].res
        /\ cap'[r].uncertain = cap[r].uncertain /\ cap'[r].phase = "intent"
        /\ cap[r].phase \in {"new", "intent"} /\ cap'[r].op \in {"pending", "request"}
    BY <1>1 DEF Begin, IntentAck, Caps
  <2>2. /\ Headers(r)' = Headers(r) /\ EndMarks(r)' = EndMarks(r) /\ Records(r)' = Records(r)
    BY <1>s, SameBlobs
  <2>3. cap[r].info = "none" /\ Unfinished(r)
    BY <2>1, <1>f DEF Entry, ClientFollows, Early, Unfinished, Finishing, Local, PutInPhase
  <2>4. Headed(r)' /\ Puts(r)'
    BY <2>1, <2>2, <2>3 DEF Headed, Puts, Writing
  <2>5. ASSUME NEW o \in wire'[r] PROVE o = Pending \/ (o = Request /\ Pending \in store'[r])
    BY <1>1, <1>s DEF Begin, IntentAck, Acked, Local, PutInPhase
  <2>6. ASSUME NEW o \in wire'[r] PROVE Due(r, o)'
    <3>1. o.kind \in {"pending", "request"} /\ (o.kind # "pending" => Pending \in store'[r])
      BY <2>5 DEF Pending, Request
    <3>. QED  BY <3>1 DEF Due
  <2>. QED  BY <2>4, <2>6 DEF Writing
<1>2. CASE BeginRefused(r) \/ BeginFail(r) \/ RequestAck(r)
  <2>1. /\ cap'[r].info = cap[r].info /\ cap'[r].uncertain = cap[r].uncertain
        /\ cap[r].fin # "open" => cap'[r].fin = cap[r].fin
        /\ cap[r].phase \in {"new", "intent"} /\ cap'[r].res = cap[r].res
        /\ cap'[r].op \in {"idle", cap[r].op} /\ wire'[r] \subseteq wire[r]
        /\ cap'[r].op # "idle" => wire'[r] = wire[r]
    <3>1. CASE BeginRefused(r)
      BY <3>1 DEF BeginRefused, Caps
    <3>2. CASE BeginFail(r)
      BY <3>2 DEF BeginFail, Caps
    <3>3. CASE RequestAck(r)
      BY <3>3 DEF RequestAck, Finish, Caps
    <3>. QED  BY <1>2, <3>1, <3>2, <3>3
  <2>2. cap[r].op \notin {"header", "frame", "end", "record", "index"} /\ Unfinished(r)
    BY <2>1, <1>f DEF Unfinished, Finishing, Local, PutInPhase
  <2>3. Uncertain(r) => Uncertain(r)'
    BY <2>1 DEF Uncertain
  <2>. QED  BY <1>s, <2>1, <2>2, <2>3, WritingKept
<1>3. CASE Forward(r) \/ (\E o \in Denials : Reject(r, o)) \/ ProxyError(r)
  <2>1. /\ cap'[r].info = cap[r].info /\ cap'[r].uncertain = cap[r].uncertain
        /\ cap[r].fin # "open" => cap'[r].fin = cap[r].fin
        /\ cap[r].phase \in Begun /\ cap'[r].res = cap[r].res
        /\ cap'[r].op = cap[r].op /\ wire'[r] = wire[r]
        /\ cap'[r].frames = cap[r].frames /\ cap'[r].truncated = cap[r].truncated
    <3>1. CASE Forward(r)
      BY <3>1 DEF Forward, Caps, Begun
    <3>2. CASE \E o \in Denials : Reject(r, o)
      BY <3>2 DEF Reject, Finish, Caps, Begun
    <3>3. CASE ProxyError(r)
      BY <3>3 DEF ProxyError, Finish, Caps, Begun
    <3>. QED  BY <1>3, <3>1, <3>2, <3>3
  <2>2. (Uncertain(r) => Uncertain(r)') /\ (Unfinished(r)' => Unfinished(r))
    BY <2>1 DEF Uncertain, Unfinished, Begun
  <2>3. cap[r].op \in {"end", "record", "index"} => cap[r].fin # "open"
    BY <1>f DEF Finishing
  <2>. QED  BY <1>s, <2>1, <2>2, <2>3, WritingKept
<1>. QED  BY <1>1, <1>2, <1>3 DEF Handle

\* What an acknowledged frame leaves of the capture.
LEMMA FrameAckKeeps ==
    ASSUME TypeOK, NEW r \in Requests, PutInPhase(r), FrameAck(r)
    PROVE  /\ cap'[r].info = cap[r].info /\ cap'[r].uncertain = cap[r].uncertain
           /\ cap[r].fin # "open" => cap'[r].fin = cap[r].fin
           /\ cap'[r].res = cap[r].res /\ cap'[r].op = "idle" /\ cap'[r].phase # "new"
           /\ client'[r].reply \in {client[r].reply, "streaming"}
<1>. cap[r] \in Caps /\ cap \in [Requests -> Caps] /\ client[r] \in Clients /\ client \in [Requests -> Clients]
  BY DEF TypeOK
<1>. client[r].gone \in BOOLEAN  BY DEF Clients
<1>0. cap[r].phase = "delivering"
  BY SMTT(60) DEF FrameAck, PutInPhase
<1>1. PICK t \in Texts : LET chain == Append(cap[r].frames, t) IN
        /\ AckedCap(r, chain) \in Caps
        /\ \/ /\ cap' = [cap EXCEPT ![r] =
                        [Finish(AckedCap(r, chain), "upstream_end") EXCEPT !.phase = "committing"]]
              /\ UNCHANGED client
           \/ /\ cap' = [cap EXCEPT ![r] = AckedCap(r, chain)]
              /\ client' = [client EXCEPT ![r] = [client[r] EXCEPT !.reply = "streaming", !.sent = chain]]
           \/ /\ cap' = [cap EXCEPT ![r] = Abort(AckedCap(r, chain), "upstream_error", client[r].gone)]
              /\ UNCHANGED client
  BY FrameAckEffect
<1>. DEFINE c == AckedCap(r, Append(cap[r].frames, t))
<1>2. /\ c.info = cap[r].info /\ c.uncertain = cap[r].uncertain /\ c.fin = cap[r].fin
      /\ c.res = cap[r].res /\ c.op = "idle" /\ c \in Caps /\ c.phase # "new"
  BY <1>1, <1>0 DEF AckedCap, Caps
<1>3. \/ cap'[r] = [Finish(c, "upstream_end") EXCEPT !.phase = "committing"]
      \/ cap'[r] = c
      \/ cap'[r] = Abort(c, "upstream_error", client[r].gone)
  BY <1>1
<1>4. client'[r].reply \in {client[r].reply, "streaming"}
  <2>. DEFINE d == [client[r] EXCEPT !.reply = "streaming", !.sent = Append(cap[r].frames, t)]
  <2>1. d.reply = "streaming"
    BY DEF Clients
  <2>. HIDE DEF d
  <2>2. client' = client \/ client' = [client EXCEPT ![r] = d]
    BY <1>1 DEF d
  <2>. QED  BY <2>1, <2>2
<1>5. "upstream_end" \in Outcomes /\ "upstream_error" \in Outcomes
  BY DEF Outcomes
<1>. HIDE DEF c
<1>6. CASE cap'[r] = [Finish(c, "upstream_end") EXCEPT !.phase = "committing"]
  BY <1>2, <1>4, <1>5, <1>6, FinishFacts
<1>7. CASE cap'[r] = c
  BY <1>2, <1>4, <1>7
<1>8. CASE cap'[r] = Abort(c, "upstream_error", client[r].gone)
  BY <1>2, <1>4, <1>5, <1>8, FinishFacts
<1>. QED  BY <1>3, <1>6, <1>7, <1>8

LEMMA OpIsKnown ==
    ASSUME TypeOK, NEW r \in Requests
    PROVE  cap[r].op \in Ops
  BY DEF TypeOK, Caps

\* While the writer knows the journal, its header is there, and there is no end.
LEMMA StillOpen ==
    ASSUME NEW r \in Requests, Local(r), Entry(r), Writing(r), cap[r].fin = "open", cap[r].op = "idle",
           cap[r].phase \in {"forwarded", "delivering"}
    PROVE  /\ Unfinished(r) /\ Pending \in store[r] /\ EndMarks(r) = {} /\ Records(r) = {} /\ ~Uncertain(r)
           /\ cap[r].info = "none" => Headers(r) = {}
           /\ cap[r].info # "none" => Header(cap[r].info) \in Headers(r)
           /\ cap[r].phase = "forwarded" => cap[r].info = "none"
           /\ cap[r].phase = "delivering" => cap[r].info # "none"
<1>1. Unfinished(r) /\ ~Uncertain(r)
  BY DEF Unfinished, Uncertain, Entry, WriterKnows
<1>2. Pending \in store[r]
  BY DEF Local, IntentDurable, Begun
<1>3. cap[r].info # "none" => Header(cap[r].info) \in Headers(r)
  BY <1>1 DEF Writing, Headed, Headers, OfKind, Header
<1>. QED  BY <1>1, <1>2, <1>3 DEF Writing, Headed, Entry, ClientFollows, Early

\* The delivery's steps.
LEMMA DeliverWriting ==
    ASSUME TypeOK, NEW r \in Requests, Local(r), Entry(r), Writing(r), Whole(r), Deliver(r)
    PROVE  Writing(r)'
<1>. /\ cap[r] \in Caps /\ cap \in [Requests -> Caps] /\ wire \in [Requests -> SUBSET Blobs]
     /\ client[r].gone \in BOOLEAN
  BY DEF TypeOK, Clients
<1>s. store'[r] = store[r]
  BY DEF Deliver, Respond, RespondRejected, HeaderAck, JournalWriteFail, SendFrame,
         FrameRejected, StreamFault, FrameAck, StreamEnd, CommitDone, FailDone
<1>f. /\ cap[r].op \in {"end", "record", "index"} => Finishing(r)
      /\ cap[r].op \in {"header", "frame"} => cap[r].phase = "delivering"
      /\ cap[r].op \in {"pending", "request"} => cap[r].phase = "intent"
  BY DEF Local, PutInPhase
<1>b. /\ Headers(r)' = Headers(r) /\ EndMarks(r)' = EndMarks(r) /\ Records(r)' = Records(r)
      /\ Framed(r)' = Framed(r)
  BY <1>s, SameBlobs
<1>1. CASE \E f \in Formats : Respond(r, f)
  <2>1. PICK f \in Formats : Respond(r, f)  BY <1>1
  <2>2. /\ cap[r].phase = "forwarded" /\ cap[r].fin = "open" /\ cap'[r].op = "header" /\ cap'[r].info = f
        /\ cap'[r].res = cap[r].res /\ wire'[r] = {Header(f)} /\ f # "none"
    BY <2>1 DEF Respond, Caps, Formats
  <2>3. cap[r].op = "idle"
    BY <1>f, <2>2, OpIsKnown DEF Finishing, Ops
  <2>4. /\ Pending \in store[r] /\ EndMarks(r) = {} /\ Records(r) = {} /\ Headers(r) = {}
    BY <2>2, <2>3, StillOpen
  <2>5. Framed(r) = {}
    BY <2>4 DEF Whole
  <2>6. Due(r, Header(f))'
    BY <1>s, <1>b, <2>2, <2>4, <2>5 DEF Due, Header
  <2>7. Puts(r)' /\ Headed(r)'
    BY <1>b, <2>2, <2>4 DEF Puts, Headed
  <2>. QED  BY <2>2, <2>6, <2>7 DEF Writing
<1>2. CASE \E t \in Texts : SendFrame(r, t)
  <2>1. PICK t \in Texts : SendFrame(r, t)  BY <1>2
  <2>2. /\ cap[r].phase = "delivering" /\ cap[r].op = "idle" /\ cap[r].fin = "open" /\ cap'[r].op = "frame"
        /\ cap'[r].info = cap[r].info /\ cap'[r].res = cap[r].res /\ cap'[r].phase = cap[r].phase
        /\ cap'[r].uncertain = cap[r].uncertain
        /\ wire'[r] = {Frame(Append(cap[r].frames, t))}
    BY <2>1 DEF SendFrame, Reading, Caps
  <2>3. /\ Pending \in store[r] /\ EndMarks(r) = {} /\ Records(r) = {} /\ Headers(r) # {}
    BY <2>2, StillOpen
  <2>4. ASSUME NEW o \in wire'[r] PROVE Due(r, o)'
    <3>1. o.kind = "frame"  BY <2>2 DEF Frame
    <3>. QED  BY <1>s, <1>b, <2>3, <3>1 DEF Due
  <2>5. Puts(r)'
    BY <2>2 DEF Puts
  <2>6. Headed(r)'
    BY <1>s, <1>b, <2>2, <2>3 DEF Headed, Writing, Uncertain
  <2>. QED  BY <2>4, <2>5, <2>6 DEF Writing
<1>3. CASE \/ RespondRejected(r) \/ FrameRejected(r) \/ (\E o \in Faults : StreamFault(r, o))
           \/ StreamEnd(r) \/ CommitDone(r) \/ FailDone(r)
  <2>1. /\ cap'[r].info = cap[r].info /\ cap'[r].uncertain = cap[r].uncertain
        /\ cap[r].fin # "open" => cap'[r].fin = cap[r].fin
        /\ cap'[r].res = cap[r].res /\ cap'[r].phase # "lost" /\ cap[r].phase # "lost"
        /\ cap'[r].op = cap[r].op /\ wire'[r] = wire[r]
        /\ cap'[r].frames = cap[r].frames
        /\ cap'[r].truncated = cap[r].truncated \/ cap[r].op = "idle"
    <3>1. CASE RespondRejected(r)
      BY <3>1 DEF RespondRejected, Abort, Finish, Caps
    <3>2. CASE FrameRejected(r)
      BY <3>2 DEF FrameRejected, Reading, Abort, Finish, Caps
    <3>3. CASE \E o \in Faults : StreamFault(r, o)
      BY <3>3 DEF StreamFault, Reading, Abort, Finish, Caps
    <3>4. CASE StreamEnd(r)
      BY <3>4 DEF StreamEnd, Reading, Finish, Caps
    <3>5. CASE CommitDone(r) \/ FailDone(r)
      BY <3>5 DEF CommitDone, FailDone, Caps
    <3>. QED  BY <1>3, <3>1, <3>2, <3>3, <3>4, <3>5
  <2>2. (Uncertain(r) => Uncertain(r)') /\ (Unfinished(r)' => Unfinished(r))
    BY <2>1 DEF Uncertain, Unfinished
  <2>3. cap[r].op \in {"end", "record", "index"} =>
          cap[r].fin # "open" /\ cap'[r].truncated = cap[r].truncated
    BY <1>f, <2>1 DEF Finishing
  <2>. QED  BY <1>s, <2>1, <2>2, <2>3, WritingKept
<1>4. CASE HeaderAck(r) \/ JournalWriteFail(r)
  <2>1. /\ cap'[r].info = cap[r].info
        /\ cap[r].uncertain => cap'[r].uncertain
        /\ cap[r].fin # "open" => cap'[r].fin = cap[r].fin
        /\ cap'[r].res = cap[r].res /\ cap[r].op \in {"header", "frame"}
        /\ cap'[r].op = "idle" /\ wire'[r] \subseteq wire[r]
        /\ cap'[r].uncertain \/ wire[r] \subseteq store[r]
    <3>1. CASE HeaderAck(r)
      BY <3>1 DEF HeaderAck, Acked, Caps
    <3>2. CASE JournalWriteFail(r)
      BY <3>2 DEF JournalWriteFail, Abort, Finish, Caps
    <3>. QED  BY <1>4, <3>1, <3>2
  <2>2. cap[r].phase = "delivering" /\ (Unfinished(r)' => Unfinished(r)) /\ (Uncertain(r) => Uncertain(r)')
    BY <1>f, <2>1 DEF Unfinished, Uncertain
  <2>3. cap[r].op = "header" => Uncertain(r)' \/ Header(cap[r].info) \in store[r]
    BY <2>1 DEF Writing, Puts, Uncertain
  <2>. QED  BY <1>s, <2>1, <2>2, <2>3, WritingKept
<1>5. CASE FrameAck(r)
  <2>1. /\ cap[r].op = "frame" /\ cap[r].phase = "delivering" /\ wire'[r] = {}
    BY <1>5, <1>f DEF FrameAck
  <2>2. /\ cap'[r].info = cap[r].info /\ cap'[r].uncertain = cap[r].uncertain
        /\ cap[r].fin # "open" => cap'[r].fin = cap[r].fin
        /\ cap'[r].res = cap[r].res /\ cap'[r].op = "idle"
    BY <1>5, FrameAckKeeps DEF Local
  <2>3. (Uncertain(r) => Uncertain(r)') /\ (Unfinished(r)' => Unfinished(r))
    BY <2>1, <2>2 DEF Uncertain, Unfinished
  <2>. QED  BY <1>s, <2>1, <2>2, <2>3, WritingKept
<1>. QED  BY <1>1, <1>2, <1>3, <1>4, <1>5 DEF Deliver

\* The steps of finish(), and a disconnect.
LEMMA CompleteWriting ==
    ASSUME TypeOK, NEW r \in Requests, Local(r), Entry(r), Writing(r), Whole(r), NamedOnce(r),
           Complete(r) \/ Disconnect(r)
    PROVE  Writing(r)'
<1>. /\ cap[r] \in Caps /\ cap \in [Requests -> Caps] /\ wire \in [Requests -> SUBSET Blobs]
  BY DEF TypeOK
<1>s. store'[r] = store[r]
  BY DEF Complete, FinishStart, FinishFalse, EndAck, RecordAck, IndexAck, Disconnect
<1>f. cap[r].op \in {"end", "record", "index"} => Finishing(r)
  BY DEF Local, PutInPhase
<1>b. /\ Headers(r)' = Headers(r) /\ EndMarks(r)' = EndMarks(r) /\ Records(r)' = Records(r)
      /\ HeaderFormat(r)' = HeaderFormat(r) /\ Longest(r)' = Longest(r)
      /\ Rebuilt(r, FALSE)' = Rebuilt(r, FALSE)
  BY <1>s, SameBlobs
<1>p. cap[r].fin # "open" => Pending \in store[r]
  BY DEF Local, IntentDurable
<1>1. CASE FinishStart(r) \/ EndAck(r) \/ RecordAck(r)
  <2>1. /\ cap'[r].fin = cap[r].fin /\ cap'[r].info = cap[r].info /\ cap'[r].frames = cap[r].frames
        /\ cap'[r].truncated = cap[r].truncated /\ cap'[r].uncertain = cap[r].uncertain
        /\ cap'[r].phase = cap[r].phase /\ cap'[r].op \in {"end", "record", "index"}
        /\ cap[r].op \in {"idle", "end", "record"}
    BY <1>1 DEF FinishStart, EndAck, RecordAck, Caps
  <2>2. Finishing(r) /\ cap[r].fin # "open" /\ Pending \in store[r]
    BY <1>1, <1>f, <1>p DEF FinishStart, EndAck, RecordAck, Finishing
  <2>3. MyEnd(cap'[r]) = MyEnd(cap[r]) /\ MyRecord(cap'[r]) = MyRecord(cap[r])
    BY <2>1, SaysSame
  <2>4. ~Unfinished(r)'
    BY <2>1 DEF Unfinished
  <2>5. Headed(r)'
    BY <1>s, <1>b, <2>1, <2>4 DEF Writing, Headed, Uncertain
  <2>6. CASE FinishStart(r)
    <3>1. /\ wire'[r] = {MyEnd(cap[r])} /\ cap'[r].op = "end" /\ cap[r].op = "idle" /\ ~cap[r].uncertain
      BY <2>6, <1>f DEF FinishStart, Caps
    <3>2. ~Uncertain(r) /\ Unfinished(r) /\ cap[r].phase \notin {"refused", "done"}
      BY <2>2, <3>1 DEF Uncertain, Unfinished, Finishing
    <3>3. cap[r].frames = Longest(r)
      BY <2>2, <3>1, <3>2 DEF Entry, WriterKnows, Known, Finishing
    <3>4. HeaderFormat(r) = cap[r].info
      BY <3>1, <3>2, HeaderKnown DEF Writing
    <3>5. Records(r) = {}
      BY <3>2 DEF Writing, Headed
    <3>6. ASSUME NEW o, o = MyEnd(cap[r]) PROVE Due(r, o)'
      BY <1>s, <1>b, <2>1, <2>2, <2>4, <3>3, <3>4, <3>5, <3>6, EndFields DEF Due
    <3>7. Puts(r)'
      BY <2>3, <3>1 DEF Puts
    <3>. QED  BY <2>5, <3>1, <3>6, <3>7 DEF Writing
  <2>7. CASE EndAck(r)
    <3>1. /\ wire'[r] = {MyRecord(cap[r])} /\ cap'[r].op = "record" /\ cap[r].op = "end"
      BY <2>7 DEF EndAck, Caps
    <3>2. MyEnd(cap[r]) \in store[r]
      BY <2>7, <3>1 DEF EndAck, Acked, Writing, Puts
    <3>3. MyRecord(cap[r]) = Rebuilt(r, FALSE)
      BY <3>2, WriterRebuilds
    <3>4. ASSUME NEW o, o = MyRecord(cap[r]) PROVE Due(r, o)'
      BY <1>s, <1>b, <2>2, <2>4, <3>3, <3>4, EndFields DEF Due
    <3>5. Puts(r)'
      BY <1>s, <2>3, <3>1, <3>2 DEF Puts
    <3>. QED  BY <2>5, <3>1, <3>4, <3>5 DEF Writing
  <2>8. CASE RecordAck(r)
    <3>1. /\ wire'[r] = {Index(MyRecord(cap[r]))} /\ cap'[r].op = "index" /\ cap[r].op = "record"
      BY <2>8 DEF RecordAck, Caps
    <3>2. MyRecord(cap[r]) \in store[r] /\ MyRecord(cap[r]) \in Records(r)
      BY <2>8, <3>1, EndFields DEF RecordAck, Acked, Writing, Puts, Records, OfKind
    <3>4. ASSUME NEW o, o = Index(MyRecord(cap[r])) PROVE Due(r, o)'
      BY <1>s, <1>b, <2>2, <2>4, <3>2, <3>4, EndFields DEF Due
    <3>5. Puts(r)'
      BY <1>s, <2>3, <3>1, <3>2 DEF Puts
    <3>. QED  BY <2>5, <3>1, <3>4, <3>5 DEF Writing
  <2>. QED  BY <1>1, <2>6, <2>7, <2>8
<1>2. CASE FinishFalse(r) \/ IndexAck(r)
  <2>1. /\ cap'[r].fin = cap[r].fin /\ cap'[r].info = cap[r].info /\ cap'[r].uncertain = cap[r].uncertain
        /\ cap'[r].phase = cap[r].phase /\ cap'[r].op = "idle" /\ wire'[r] \subseteq wire[r]
        /\ cap'[r].res # "pending" /\ cap[r].op # "header"
    <3>1. CASE FinishFalse(r)
      BY <3>1 DEF FinishFalse, Caps
    <3>2. CASE IndexAck(r)
      BY <3>2 DEF IndexAck, Caps
    <3>. QED  BY <1>2, <3>1, <3>2
  <2>2. (Uncertain(r) => Uncertain(r)') /\ ~Unfinished(r)'
    BY <2>1 DEF Uncertain, Unfinished
  <2>. QED  BY <1>s, <2>1, <2>2, WritingKept
<1>3. CASE Disconnect(r)
  <2>1. /\ cap'[r].info = cap[r].info /\ cap'[r].uncertain = cap[r].uncertain
        /\ cap[r].fin # "open" => cap'[r].fin = cap[r].fin
        /\ cap'[r].phase = cap[r].phase /\ cap'[r].res = cap[r].res
        /\ cap'[r].op = cap[r].op /\ wire'[r] = wire[r]
        /\ cap'[r].frames = cap[r].frames /\ cap'[r].truncated = cap[r].truncated
    BY <1>3 DEF Disconnect, Finish, Caps
  <2>2. (Uncertain(r) => Uncertain(r)') /\ (Unfinished(r)' => Unfinished(r))
    BY <2>1 DEF Uncertain, Unfinished
  <2>3. cap[r].op \in {"end", "record", "index"} => cap[r].fin # "open"
    BY <1>f DEF Finishing
  <2>. QED  BY <1>s, <2>1, <2>2, <2>3, WritingKept
<1>. QED  BY <1>1, <1>2, <1>3 DEF Complete

-----------------------------------------------------------------------------
(* What they leave true of the journal and of its index. *)

\* A capture's outcome is decided once, and a clean end follows the commit.
LEMMA Decided ==
    ASSUME TypeOK, NEW r \in Requests, PutInPhase(r),
           Handle(r) \/ Deliver(r) \/ Complete(r) \/ Disconnect(r)
    PROVE  /\ cap[r].fin # "open" => cap'[r].fin = cap[r].fin
           /\ client'[r].reply = "ended" /\ client[r].reply # "ended" =>
                cap[r].res = "true" /\ cap[r].phase = "committing" /\ Writable(r) /\ cap'[r].fin = cap[r].fin
           /\ cap'[r].phase = "new" => cap[r].phase = "new"
           /\ store'[r] = store[r]
<1>. /\ cap[r] \in Caps /\ cap \in [Requests -> Caps]
     /\ client[r] \in Clients /\ client \in [Requests -> Clients] /\ client[r].gone \in BOOLEAN
  BY DEF TypeOK, Clients
<1>s. store'[r] = store[r]
  BY DEF Handle, BeginRefused, Begin, IntentAck, RequestAck, BeginFail, Forward, Reject, ProxyError,
         Deliver, Respond, RespondRejected, HeaderAck, JournalWriteFail, SendFrame,
         FrameRejected, StreamFault, FrameAck, StreamEnd, CommitDone, FailDone,
         Complete, FinishStart, FinishFalse, EndAck, RecordAck, IndexAck, Disconnect
<1>1. CASE Handle(r)
  <2>1. CASE BeginRefused(r) \/ Begin(r) \/ IntentAck(r)
    BY <1>s, <2>1 DEF BeginRefused, Begin, IntentAck, ErrorReply, Caps, Clients
  <2>2. CASE RequestAck(r)
    BY <1>s, <2>2 DEF RequestAck, Finish, Caps
  <2>3. CASE BeginFail(r)
    BY <1>s, <2>3 DEF BeginFail, ErrorReply, Caps, Clients
  <2>6. CASE Forward(r)
    BY <1>s, <2>6 DEF Forward, Caps
  <2>4. CASE \E o \in Denials : Reject(r, o)
    BY <1>s, <2>4 DEF Reject, Finish, ErrorReply, Caps, Clients
  <2>5. CASE ProxyError(r)
    BY <1>s, <2>5 DEF ProxyError, Finish, ErrorReply, ErrorOrDestroy, Caps, Clients
  <2>. QED  BY <1>1, <2>1, <2>2, <2>3, <2>4, <2>5, <2>6 DEF Handle
<1>2. CASE Deliver(r)
  <2>1. CASE (\E f \in Formats : Respond(r, f)) \/ HeaderAck(r) \/ (\E t \in Texts : SendFrame(r, t))
    BY <1>s, <2>1 DEF Respond, HeaderAck, SendFrame, Reading, Caps
  <2>2. CASE RespondRejected(r)
    BY <1>s, <2>2 DEF RespondRejected, Abort, Finish, Caps
  <2>3. CASE JournalWriteFail(r)
    BY <1>s, <2>3 DEF JournalWriteFail, Abort, Finish, Caps
  <2>4. CASE FrameRejected(r)
    BY <1>s, <2>4 DEF FrameRejected, Reading, Abort, Finish, Caps
  <2>5. CASE \E o \in Faults : StreamFault(r, o)
    BY <1>s, <2>5 DEF StreamFault, Reading, Abort, Finish, Caps
  <2>6. CASE FrameAck(r)
    BY <1>s, <2>6, FrameAckKeeps
  <2>7. CASE StreamEnd(r)
    BY <1>s, <2>7 DEF StreamEnd, Reading, Finish, Caps
  <2>8. CASE CommitDone(r)
    BY <1>s, <2>8 DEF CommitDone, Writable, Caps, Clients
  <2>9. CASE FailDone(r)
    BY <1>s, <2>9 DEF FailDone, ErrorReply, ErrorOrDestroy, Caps, Clients
  <2>. QED  BY <1>2, <2>1, <2>2, <2>3, <2>4, <2>5, <2>6, <2>7, <2>8, <2>9 DEF Deliver
<1>3. CASE Complete(r)
  <2>1. UNCHANGED client /\ cap'[r].fin = cap[r].fin /\ cap'[r].phase = cap[r].phase
    <3>1. CASE FinishStart(r) \/ EndAck(r) \/ RecordAck(r)
      BY <3>1 DEF FinishStart, EndAck, RecordAck, Caps
    <3>2. CASE FinishFalse(r)
      BY <3>2 DEF FinishFalse, Caps
    <3>3. CASE IndexAck(r)
      BY <3>3 DEF IndexAck, Caps
    <3>. QED  BY <1>3, <3>1, <3>2, <3>3 DEF Complete
  <2>. QED  BY <1>s, <2>1
<1>4. CASE Disconnect(r)
  BY <1>s, <1>4 DEF Disconnect, Finish, Caps, Clients
<1>. QED  BY <1>1, <1>2, <1>3, <1>4

\* The step of a request is one of an active one.
LEMMA StepsAreActive ==
    ASSUME TypeOK, NEW r \in Requests, Handle(r) \/ Deliver(r) \/ Complete(r) \/ Disconnect(r)
    PROVE  ~Quiet(r) /\ (cap[r].phase = "new" /\ PutInPhase(r) => proc.up) /\ proc'.up = proc.up
<1>. /\ cap[r] \in Caps /\ proc \in [up : BOOLEAN, active : Nat, cooling : BOOLEAN]
  BY DEF TypeOK
<1>1. CASE Handle(r)
  BY <1>1 DEF Handle, BeginRefused, Begin, IntentAck, RequestAck, BeginFail, Forward, Reject, ProxyError,
              Quiet, PutInPhase, Release
<1>2. CASE Deliver(r)
  BY <1>2 DEF Deliver, Respond, RespondRejected, HeaderAck, JournalWriteFail, SendFrame, Reading,
              FrameRejected, StreamFault, FrameAck, StreamEnd, CommitDone, FailDone, Quiet, PutInPhase
<1>3. CASE Complete(r)
  BY <1>3 DEF Complete, FinishStart, FinishFalse, EndAck, RecordAck, IndexAck, Finishing,
              Quiet, PutInPhase, Release
<1>4. CASE Disconnect(r)
  BY <1>4 DEF Disconnect, Quiet
<1>. QED  BY <1>1, <1>2, <1>3, <1>4

\* Whether a journal is whole depends on its blobs alone.
LEMMA WholeKept ==
    ASSUME NEW r \in Requests, Whole(r), store'[r] = store[r]
    PROVE  Whole(r)'
  BY SameBlobs DEF Whole, OneText, Durable

\* The index of a journal that the writer may still touch is true.
LEMMA ToldByWriter ==
    ASSUME TypeOK, NEW r \in Requests, Local(r), Entry(r), Told(r), Local(r)', Entry(r)', TypeOK',
           Handle(r) \/ Deliver(r) \/ Complete(r) \/ Disconnect(r), age'[r] = age[r]
    PROVE  Told(r)'
<1>1. /\ cap[r].fin # "open" => cap'[r].fin = cap[r].fin
      /\ client'[r].reply = "ended" /\ client[r].reply # "ended" =>
           cap[r].res = "true" /\ cap[r].phase = "committing" /\ Writable(r) /\ cap'[r].fin = cap[r].fin
      /\ store'[r] = store[r]
  BY Decided DEF Local
<1>2. /\ Indexed(r)' = Indexed(r) /\ Longest(r)' = Longest(r)
      /\ OfKind(r, "index")' = OfKind(r, "index") /\ OfKind(r, "index") = Indexed(r)
  BY <1>1, SameBlobs DEF OfKind, Indexed
<1>3. ASSUME NEW i \in Indexed(r)
      PROVE  LET b == i.contentHash
             IN /\ Len(client'[r].sent) <= Len(b.chain)
                /\ client'[r].sent = SubSeq(b.chain, 1, Len(client'[r].sent))
                /\ b.outcome \in {cap'[r].fin, "process_interrupted"}
                /\ client'[r].reply = "ended" => b.outcome = "upstream_end"
                /\ b.recovered => age'[r] # "fresh"
  <2>. DEFINE b == i.contentHash
  <2>1. b.chain = Longest(r) /\ cap[r].fin # "open" /\ OneText(r)
    BY DEF Entry, SealedOnce
  <2>2. Durable(r, client'[r].sent) /\ client'[r].sent \in Seq(Texts)
    BY <1>1 DEF Local, Durable, TypeOK, Clients
  <2>3. Len(client'[r].sent) <= Len(Longest(r)) /\ client'[r].sent = SubSeq(Longest(r), 1, Len(client'[r].sent))
    BY <2>1, <2>2, PrefixOfText
  <2>4. b.outcome \in {cap[r].fin, "process_interrupted"} /\ (b.recovered => age[r] # "fresh")
    BY DEF Told, OfKind, Indexed
  <2>5. ASSUME client'[r].reply = "ended" PROVE b.outcome = "upstream_end"
    <3>1. CASE client[r].reply = "ended"
      BY <3>1 DEF Told, OfKind, Indexed
    <3>2. CASE client[r].reply # "ended"
      <4>1. cap[r].fin = "upstream_end" /\ cap[r].res = "true"
        BY <1>1, <2>5, <3>2 DEF Entry, ClientFollows
      <4>2. \E x \in Indexed(r) : x.contentHash.outcome = cap[r].fin
        BY <4>1 DEF Entry, SealedOnce
      <4>. QED  BY <4>1, <4>2 DEF Entry, SealedOnce
    <3>. QED  BY <3>1, <3>2
  <2>. QED  BY <1>1, <2>1, <2>3, <2>4, <2>5
<1>. QED  BY <1>2, <1>3 DEF Told

\* What the client saw and the gateway decided stays in the journal.
LEMMA ServedByWriter ==
    ASSUME TypeOK, NEW r \in Requests, Local(r), Served(r), Local(r)', Entry(r)',
           Handle(r) \/ Deliver(r) \/ Complete(r) \/ Disconnect(r)
    PROVE  Served(r)'
<1>1. /\ cap[r].fin # "open" => cap'[r].fin = cap[r].fin
      /\ store'[r] = store[r]
  BY Decided DEF Local
<1>2. EndMarks(r)' = EndMarks(r) /\ Indexed(r)' = Indexed(r)
  BY <1>1, SameBlobs
<1>3. Durable(r, client[r].sent)' /\ (client'[r].reply = "ended" => Indexed(r)' # {})
  BY DEF Local, Entry, ClientFollows
<1>. QED  BY <1>1, <1>2, <1>3 DEF Served

\* A step of the writer on one request keeps its invariant.
LEMMA WriterLife ==
    ASSUME TypeOK, TypeOK', NEW r \in Requests, Life(r), Exclusive, UNCHANGED lifeVars,
           Handle(r) \/ Deliver(r) \/ Complete(r) \/ Disconnect(r)
    PROVE  Life(r)'
<1>0. age' = age /\ window' = window /\ retain' = retain /\ purge' = purge /\ rwire' = rwire
  BY DEF lifeVars
<1>1. Active(r) /\ age[r] # "expired"
  BY StepsAreActive DEF Active, Life, Aging
<1>2. Local(r) /\ Entry(r) /\ Writing(r) /\ rwire[r] = {} /\ Whole(r) /\ Served(r) /\ NamedOnce(r)
  BY <1>1 DEF Life, Written, Kept
<1>3. Local(r)' /\ Entry(r)'
  BY <1>2, HandleLocal, DeliverLocal, CompleteLocal, HandleEntry, DeliverEntry, CompleteEntry
<1>4. Writing(r)'
  BY <1>2, HandleWriting, DeliverWriting, CompleteWriting
<1>5. store'[r] = store[r] /\ (cap[r].phase # "new" => cap'[r].phase # "new")
  BY <1>2, Decided DEF Local
<1>6. Whole(r)' /\ Served(r)' /\ Told(r)'
  BY <1>0, <1>2, <1>3, <1>5, WholeKept, ServedByWriter, ToldByWriter DEF Life
<1>7. NamedOnce(r)' /\ Found(r)'
  BY <1>5 DEF Life, NamedOnce, Found
<1>8. purge[r] = "idle"
  BY <1>1 DEF Life, Cleared
<1>9. Aging(r)' /\ Cleared(r)'
  BY <1>0, <1>1, <1>5, <1>8 DEF Life, Aging, Cleared
<1>. QED  BY <1>0, <1>2, <1>3, <1>4, <1>6, <1>7, <1>9 DEF Life, Written, Kept

-----------------------------------------------------------------------------
(* What lands. *)

\* A blob of a kind that the journal has none of.
Adds(r, o) == (\A b \in store[r] : ~SameName(b, o)) /\ store'[r] = store[r] \cup {o}

\* Which of the sets that recovery reads grows.
LEMMA AddsTo ==
    ASSUME NEW r \in Requests, NEW o, Adds(r, o)
    PROVE  /\ o.kind # "frame" => Framed(r)' = Framed(r) /\ Longest(r)' = Longest(r)
           /\ Headers(r)' = IF o.kind = "header" THEN {o} ELSE Headers(r)
           /\ EndMarks(r)' = IF o.kind = "end" THEN {o} ELSE EndMarks(r)
           /\ Records(r)' = IF o.kind = "record" THEN {o} ELSE Records(r)
           /\ Indexed(r)' = IF o.kind = "index" THEN {o} ELSE Indexed(r)
           /\ o.kind = "end" => EndMarks(r) = {}
           /\ o.kind = "record" => Records(r) = {}
           /\ o.kind = "index" => Indexed(r) = {}
           /\ o.kind = "header" => Headers(r) = {}
           /\ o.kind \notin {"frame", "header", "end"} => \A x : Rebuilt(r, x)' = Rebuilt(r, x)
           /\ o.kind # "header" => HeaderFormat(r)' = HeaderFormat(r)
           /\ store[r] \subseteq store'[r]
<1>1. o.kind # "frame" => Framed(r)' = Framed(r) /\ Longest(r)' = Longest(r)
  <2>1. o.kind # "frame" => Framed(r)' = Framed(r)
    BY DEF Adds, Framed
  <2>. QED  BY <2>1 DEF Longest
<1>2. \A k : k # "frame" =>
        /\ OfKind(r, k)' = IF o.kind = k THEN {o} ELSE OfKind(r, k)
        /\ o.kind = k => OfKind(r, k) = {}
  BY DEF Adds, OfKind, SameName
<1>3. /\ Headers(r)' = IF o.kind = "header" THEN {o} ELSE Headers(r)
      /\ EndMarks(r)' = IF o.kind = "end" THEN {o} ELSE EndMarks(r)
      /\ Records(r)' = IF o.kind = "record" THEN {o} ELSE Records(r)
  BY <1>2 DEF Headers, EndMarks, Records
<1>4. Indexed(r) = OfKind(r, "index") /\ Indexed(r)' = OfKind(r, "index")'
  BY DEF Indexed, OfKind
<1>5. o.kind \notin {"frame", "header", "end"} => \A x : Rebuilt(r, x)' = Rebuilt(r, x)
  BY <1>1, <1>3, RebuiltFrom
<1>6. o.kind # "header" => HeaderFormat(r)' = HeaderFormat(r)
  <2>1. HeaderFormat(r) = FormatOf(Headers(r)) /\ HeaderFormat(r)' = FormatOf(Headers(r)')
    BY DEF HeaderFormat, Headers, FormatOf
  <2>. QED  BY <1>3, <2>1
<1>7. store[r] \subseteq store'[r]
  BY DEF Adds
<1>8. /\ o.kind = "end" => EndMarks(r) = {}
      /\ o.kind = "record" => Records(r) = {}
      /\ o.kind = "index" => Indexed(r) = {}
      /\ o.kind = "header" => Headers(r) = {}
  BY <1>2, <1>4 DEF Headers, EndMarks, Records
<1>9. Indexed(r)' = IF o.kind = "index" THEN {o} ELSE Indexed(r)
  BY <1>2, <1>4
<1>. QED  BY <1>1, <1>3, <1>5, <1>6, <1>7, <1>8, <1>9

\* The names stay distinct.
LEMMA NamesStay ==
    ASSUME NEW r \in Requests, NamedOnce(r), NEW o, Adds(r, o)
    PROVE  NamedOnce(r)'
  BY DEF NamedOnce, Adds, SameName

\* The next frame makes the text one longer, and keeps it whole.
LEMMA FrameKeepsWhole ==
    ASSUME TypeOK, NEW r \in Requests, Entry(r), Whole(r), NEW o, Lands(r, o), o.kind = "frame",
           Headers(r) # {}, EndMarks(r) = {}, Records(r) = {}
    PROVE  Whole(r)' /\ Indexed(r)' = {}
<1>1. Adds(r, o)
  BY DEF Lands, Adds
<1>2. FrameLands(r)
  BY LandFrame
<1>3. PICK t \in Texts : /\ Longest(r)' = Append(Longest(r), t) /\ OneText(r)'
                        /\ Frame(Longest(r)') \in wire[r] /\ Indexed(r)' = {}
  BY <1>2 DEF FrameLands
<1>4. o = Frame(Longest(r)')
  BY <1>3 DEF Entry, NextInLine, Lands
<1>5. Headers(r)' = Headers(r) /\ EndMarks(r)' = {} /\ Records(r)' = {}
  BY <1>1, AddsTo
<1>6. Durable(r, Longest(r))'
  <2>. DEFINE L == Longest(r)
              S == store'[r]
  <2>1. L \in Seq(Texts) /\ Longest(r)' = Append(L, t) /\ Frame(Append(L, t)) \in S
    BY <1>3, <1>4 DEF Lands, Whole, OneText, IsText
  <2>2. \A k \in 1..Len(L) : Frame(SubSeq(L, 1, k)) \in S
    BY <1>1, AddsTo DEF Whole, Durable
  <2>. HIDE DEF L, S
  <2>3. \A k \in 1..Len(Append(L, t)) : Frame(SubSeq(Append(L, t), 1, k)) \in S
    <3>. SUFFICES ASSUME NEW k \in 1..Len(Append(L, t)) PROVE Frame(SubSeq(Append(L, t), 1, k)) \in S
      OBVIOUS
    <3>1. Len(Append(L, t)) = Len(L) + 1 /\ Len(L) \in Nat /\ Append(L, t) \in Seq(Texts)
      BY <2>1
    <3>2. CASE k = Len(L) + 1
      <4>1. SubSeq(Append(L, t), 1, k) = Append(L, t)  BY <3>1, <3>2
      <4>. QED  BY <2>1, <4>1
    <3>3. CASE k # Len(L) + 1
      <4>1. k \in 1..Len(L)  BY <3>1, <3>3
      <4>2. SubSeq(Append(L, t), 1, k) = SubSeq(L, 1, k)  BY <2>1, <4>1
      <4>. QED  BY <2>2, <4>1, <4>2
    <3>. QED  BY <3>2, <3>3
  <2>. QED  BY <2>1, <2>3 DEF Durable, S
<1>. QED  BY <1>3, <1>5, <1>6 DEF Whole

\* Every other blob that is due keeps it whole.
LEMMA OtherKeepsWhole ==
    ASSUME NEW r \in Requests, Whole(r), NEW o, Adds(r, o), o.kind \in Kinds \ {"frame"},
           o.kind = "header" => Framed(r) = {} /\ EndMarks(r) = {} /\ Records(r) = {},
           o.kind = "end" => o.chain = Longest(r) /\ o.format = HeaderFormat(r) /\ Records(r) = {},
           o.kind = "record" => o = Rebuilt(r, o.recovered),
           o.kind = "index" => o.contentHash \in Records(r)
    PROVE  Whole(r)'
<1>0. Framed(r)' = Framed(r) /\ Longest(r)' = Longest(r) /\ store[r] \subseteq store'[r]
  BY AddsTo
<1>1. OneText(r)' /\ Durable(r, Longest(r))'
  BY <1>0 DEF Whole, OneText, Durable
<1>2. Framed(r)' # {} => Headers(r)' # {}
  BY <1>0, AddsTo DEF Whole
<1>3. \A e \in EndMarks(r)' : e.chain = Longest(r)' /\ e.format = HeaderFormat(r)'
  BY <1>0, AddsTo DEF Whole
<1>4. \A b \in Records(r)' : b = Rebuilt(r, b.recovered)'
  BY AddsTo DEF Whole
<1>5. \A i \in Indexed(r)' : i.contentHash \in Records(r)'
  BY AddsTo DEF Whole
<1>. QED  BY <1>1, <1>2, <1>3, <1>4, <1>5 DEF Whole

\* The index of a whole journal tells what the client saw and what was decided.
LEMMA RecordTells ==
    ASSUME TypeOK, NEW r \in Requests, Whole(r), Served(r), NEW b \in Records(r)
    PROVE  /\ Len(client[r].sent) <= Len(b.chain)
           /\ client[r].sent = SubSeq(b.chain, 1, Len(client[r].sent))
           /\ b.outcome \in {cap[r].fin, "process_interrupted"}
           /\ b.chain = Longest(r)
<1>1. b = Rebuilt(r, b.recovered) /\ LastChain(r) = Longest(r)
  BY LastIsLongest DEF Whole
<1>2. Rebuilt(r, b.recovered) = RecordOf(EndMarks(r), HeaderFormat(r), LastChain(r), b.recovered)
  BY DEF Rebuilt, RecordOf, EndMarks
<1>r. \A o, f, chain, t, x : Record(o, f, chain, t, x).chain = chain /\ Record(o, f, chain, t, x).outcome = o
  BY DEF Record
<1>3. b.chain = Longest(r)
  <2>1. \E o, t : RecordOf(EndMarks(r), HeaderFormat(r), LastChain(r), b.recovered)
                    = Record(o, HeaderFormat(r), LastChain(r), t, b.recovered)
    BY DEF RecordOf
  <2>. QED  BY <1>1, <1>2, <1>r, <2>1
<1>4. b.outcome \in {cap[r].fin, "process_interrupted"}
  <2>1. CASE EndMarks(r) = {}
    <3>1. RecordOf(EndMarks(r), HeaderFormat(r), LastChain(r), b.recovered)
            = Record("process_interrupted", HeaderFormat(r), LastChain(r), FALSE, b.recovered)
      BY <2>1 DEF RecordOf
    <3>2. b = Record("process_interrupted", HeaderFormat(r), LastChain(r), FALSE, b.recovered)
      BY <1>1, <1>2, <3>1
    <3>3. b.outcome = "process_interrupted"
      BY <3>2 DEF Record
    <3>. QED  BY <3>3
  <2>2. CASE EndMarks(r) # {}
    <3>. DEFINE e == CHOOSE x \in EndMarks(r) : TRUE
    <3>1. e \in EndMarks(r)
      BY <2>2
    <3>2. e.outcome = cap[r].fin
      BY <3>1 DEF Served
    <3>3. RecordOf(EndMarks(r), HeaderFormat(r), LastChain(r), b.recovered)
            = Record(e.outcome, HeaderFormat(r), LastChain(r), e.truncated, b.recovered)
      BY <2>2 DEF RecordOf
    <3>. HIDE DEF e
    <3>. QED  BY <1>1, <1>2, <1>r, <3>2, <3>3
  <2>. QED  BY <2>1, <2>2
<1>5. client[r].sent \in Seq(Texts) /\ Durable(r, client[r].sent)
  BY DEF TypeOK, Clients, Served
<1>6. Len(client[r].sent) <= Len(Longest(r)) /\ client[r].sent = SubSeq(Longest(r), 1, Len(client[r].sent))
  BY <1>5, PrefixOfText DEF Whole
<1>. QED  BY <1>3, <1>4, <1>6

\* A rebuilt record says whether recovery made it.
LEMMA RebuiltRecovered ==
    ASSUME NEW r, NEW x
    PROVE  Rebuilt(r, x).recovered = x /\ Rebuilt(r, x).kind = "record"
<1>1. \E o, t : Rebuilt(r, x) = Record(o, HeaderFormat(r), LastChain(r), t, x)
  BY DEF Rebuilt
<1>. QED  BY <1>1 DEF Record

\* What landed was due, and stays what the writer knows of.
LEMMA LandWriting ==
    ASSUME NEW r \in Requests, Writing(r), NEW o \in wire[r], Adds(r, o), \A p \in wire[r] : p = o,
           o.kind \in Kinds, cap'[r] = cap[r], wire'[r] = wire[r],
           o.kind = "frame" => Headers(r) # {}
    PROVE  Writing(r)'
<1>0. /\ Due(r, o) /\ store[r] \subseteq store'[r] /\ (Unfinished(r)' <=> Unfinished(r))
      /\ (Uncertain(r)' <=> Uncertain(r))
  BY AddsTo DEF Writing, Unfinished, Uncertain
<1>1. Due(r, o)'
  <2>1. CASE o.kind \in {"pending", "request"}
    BY <1>0, <2>1 DEF Due
  <2>2. CASE o.kind = "header"
    BY <1>0, <2>2, AddsTo DEF Due
  <2>3. CASE o.kind = "frame"
    BY <1>0, <2>3, AddsTo DEF Due
  <2>4. CASE o.kind = "end"
    BY <1>0, <2>4, AddsTo DEF Due
  <2>5. CASE o.kind = "record"
    BY <1>0, <2>5, AddsTo DEF Due
  <2>6. CASE o.kind = "index"
    BY <1>0, <2>6, AddsTo DEF Due
  <2>. QED  BY <2>1, <2>2, <2>3, <2>4, <2>5, <2>6 DEF Kinds
<1>2. Puts(r)'
  BY <1>0 DEF Writing, Puts
<1>3. Headed(r)'
  <2>1. \A h \in Headers(r)' : cap[r].info # "none" /\ h = Header(cap[r].info)
    BY <1>0, AddsTo DEF Writing, Headed, Due
  <2>2. Unfinished(r) => EndMarks(r)' = {} /\ Records(r)' = {}
    BY <1>0, AddsTo DEF Writing, Headed, Due
  <2>. QED  BY <1>0, <2>1, <2>2 DEF Writing, Headed
<1>4. \A p \in wire'[r] : Due(r, p)'
  BY <1>1
<1>. QED  BY <1>2, <1>3, <1>4 DEF Writing

\* An upload that lands keeps the invariant of its request.
LEMMA LandLife ==
    ASSUME TypeOK, NEW r \in Requests, Life(r), Active(r), Land(r), UNCHANGED lifeVars
    PROVE  Life(r)'
<1>0. age' = age /\ window' = window /\ retain' = retain /\ purge' = purge /\ rwire' = rwire
  BY DEF lifeVars
<1>1. Local(r) /\ Entry(r) /\ Writing(r) /\ rwire[r] = {} /\ NamedOnce(r) /\ Told(r) /\ Found(r)
  BY DEF Life, Written
<1>2. Local(r)' /\ Entry(r)'
  BY <1>1, CompleteLocal, LandEntry
<1>3. PICK o \in wire[r] : Lands(r, o) /\ UNCHANGED <<wire, cap, client>>
  BY DEF Land, Lands, TypeOK
<1>4. o \in Blobs /\ o.kind \in Kinds /\ (o.kind = "pending" => o = Pending)
  <2>1. o \in Blobs  BY DEF TypeOK
  <2>. QED  BY <2>1, BlobShapes
<1>5. Adds(r, o) /\ Due(r, o) /\ store'[r] = store[r] \cup {o} /\ \A p \in wire[r] : p = o
  BY <1>1, <1>3 DEF Lands, Adds, Writing, Entry, NextInLine
<1>6. Writing(r)'
  BY <1>1, <1>3, <1>4, <1>5, LandWriting DEF Due
<1>7. NamedOnce(r)' /\ Found(r)'
  BY <1>1, <1>4, <1>5, NamesStay DEF Found, Due
<1>8. ASSUME Whole(r), Served(r) PROVE Whole(r)' /\ Served(r)'
  <2>1. Whole(r)'
    <3>1. CASE o.kind = "frame"
      BY <1>1, <1>3, <1>5, <1>8, <3>1, FrameKeepsWhole DEF Due
    <3>2. CASE o.kind # "frame"
      <4>1. o.kind = "record" => o = Rebuilt(r, o.recovered)
        <5>1. o.kind = "record" => o = Rebuilt(r, FALSE)
          BY <1>5 DEF Due
        <5>2. Rebuilt(r, FALSE).recovered = FALSE
          BY RebuiltRecovered
        <5>. QED  BY <5>1, <5>2
      <4>. QED  BY <1>4, <1>5, <1>8, <3>2, <4>1, OtherKeepsWhole DEF Due
    <3>. QED  BY <3>1, <3>2
  <2>2. Durable(r, client[r].sent)'
    BY <1>2 DEF Local
  <2>3. \A e \in EndMarks(r)' : cap[r].fin # "open" /\ e.outcome = cap[r].fin
    BY <1>5, <1>8, AddsTo DEF Served, Due
  <2>4. client[r].reply = "ended" => Indexed(r)' # {}
    BY <1>5, <1>8, AddsTo DEF Served
  <2>. QED  BY <1>3, <2>1, <2>2, <2>3, <2>4 DEF Served
<1>9. age[r] # "expired" => Whole(r) /\ Served(r)
  BY DEF Life, Kept
<1>10. age[r] # "expired"
  BY DEF Active, Life, Aging
<1>11. Told(r)'
  <2>1. OfKind(r, "index") = Indexed(r) /\ OfKind(r, "index")' = Indexed(r)'
    BY DEF OfKind, Indexed
  <2>2. CASE o.kind = "index"
    <3>1. Indexed(r) = {} /\ Indexed(r)' = {o} /\ o.contentHash \in Records(r) /\ ~o.contentHash.recovered
      BY <1>5, <2>2, AddsTo DEF Due
    <3>2. client[r].reply # "ended"
      BY <1>1, <3>1 DEF Entry, ClientFollows
    <3>3. LET b == o.contentHash
          IN /\ Len(client[r].sent) <= Len(b.chain)
             /\ client[r].sent = SubSeq(b.chain, 1, Len(client[r].sent))
             /\ b.outcome \in {cap[r].fin, "process_interrupted"}
      BY <1>9, <1>10, <3>1, RecordTells
    <3>. QED  BY <1>3, <2>1, <3>1, <3>2, <3>3 DEF Told
  <2>3. CASE o.kind # "index"
    <3>1. Indexed(r)' = Indexed(r)
      BY <1>5, <2>3, AddsTo
    <3>. QED  BY <1>0, <1>1, <1>3, <2>1, <3>1 DEF Told
  <2>. QED  BY <2>2, <2>3
<1>12. purge[r] = "idle"
  BY <1>10 DEF Life, Cleared
<1>13. Aging(r)' /\ Cleared(r)'
  BY <1>0, <1>3, <1>10, <1>12 DEF Life, Aging, Cleared
<1>. QED  BY <1>0, <1>1, <1>2, <1>6, <1>7, <1>8, <1>9, <1>10, <1>11, <1>13 DEF Life, Written, Kept

-----------------------------------------------------------------------------
(* The writer's steps on the invariant of all. *)

\* What is known of the journal stays known while nothing of it changes.
LEMMA WriterUndisturbed ==
    ASSUME NEW q \in Requests, cap'[q] = cap[q], client'[q] = client[q], wire'[q] = wire[q], store'[q] = store[q]
    PROVE  /\ Local(q) /\ Entry(q) /\ Writing(q) => Local(q)' /\ Entry(q)' /\ Writing(q)'
           /\ Whole(q) /\ Served(q) => Whole(q)' /\ Served(q)'
<1>1. /\ Headers(q)' = Headers(q) /\ EndMarks(q)' = EndMarks(q) /\ Records(q)' = Records(q)
      /\ Framed(q)' = Framed(q) /\ Indexed(q)' = Indexed(q)
  BY SameBlobs
<1>2. ASSUME Local(q), Entry(q), Writing(q) PROVE Local(q)' /\ Entry(q)' /\ Writing(q)'
  <2>1. Local(q)' /\ Entry(q)'
    BY <1>2, Undisturbed, EntryUndisturbed
  <2>2. (Unfinished(q)' <=> Unfinished(q)) /\ (Uncertain(q)' <=> Uncertain(q))
    BY DEF Unfinished, Uncertain
  <2>3. \A o \in wire'[q] : Due(q, o)'
    BY <1>2, <2>2, DueKept DEF Writing
  <2>4. Puts(q)' /\ Headed(q)'
    BY <1>1, <1>2, <2>2 DEF Writing, Puts, Headed
  <2>. QED  BY <2>1, <2>3, <2>4 DEF Writing
<1>3. Whole(q) /\ Served(q) => Whole(q)' /\ Served(q)'
  BY <1>1, WholeKept DEF Served, Durable
<1>. QED  BY <1>2, <1>3

\* What holds of the writer and of the journal holds while they stay the same.
LEMMA JournalUndisturbed ==
    ASSUME NEW q \in Requests, Life(q), cap'[q] = cap[q], client'[q] = client[q],
           wire'[q] = wire[q], store'[q] = store[q], age'[q] = age[q]
    PROVE  /\ Aging(q)' /\ NamedOnce(q)' /\ Found(q)' /\ Told(q)'
           /\ Active(q)' <=> Active(q)
           /\ Active(q) => Local(q)' /\ Entry(q)' /\ Writing(q)'
           /\ Whole(q) /\ Served(q) => Whole(q)' /\ Served(q)'
<1>1. Framed(q)' = Framed(q) /\ Indexed(q)' = Indexed(q)
  BY SameBlobs
<1>2. (Active(q)' <=> Active(q)) /\ (Quiet(q)' <=> Quiet(q))
  BY DEF Active, Quiet
<1>3. Aging(q)' /\ NamedOnce(q)' /\ Found(q)' /\ Told(q)'
  BY <1>1, <1>2 DEF Life, Aging, Line, NamedOnce, Found, Told
<1>4. Active(q) => Local(q)' /\ Entry(q)' /\ Writing(q)'
  BY WriterUndisturbed DEF Life, Written
<1>5. Whole(q) /\ Served(q) => Whole(q)' /\ Served(q)'
  BY WriterUndisturbed
<1>. QED  BY <1>2, <1>3, <1>4, <1>5

\* A request that nothing touches keeps its invariant.
LEMMA LifeUndisturbed ==
    ASSUME NEW q \in Requests, Life(q),
           cap'[q] = cap[q], client'[q] = client[q], wire'[q] = wire[q], store'[q] = store[q],
           age'[q] = age[q], purge'[q] = purge[q], rwire'[q] = rwire[q],
           rwire[q] # {} => window' = window,
           purge[q] # "idle" => retain'.on /\ q \notin retain'.holds
    PROVE  Life(q)'
<1>1. Written(q)' /\ Kept(q)'
  BY JournalUndisturbed DEF Life, Written, Kept
<1>2. Cleared(q)' /\ \A o \in rwire'[q] : Repair(q, o)'
  BY SameBlobs, JournalUndisturbed DEF Life, Cleared, Repair
<1>. QED  BY <1>1, <1>2, JournalUndisturbed DEF Life

\* A crash ends what is under way.
LEMMA CrashLife ==
    ASSUME TypeOK, NEW r \in Requests, Life(r), Crash, UNCHANGED lifeVars
    PROVE  Life(r)'
<1>0. /\ age' = age /\ window' = window /\ retain' = retain /\ purge' = purge /\ rwire' = rwire
      /\ store' = store /\ wire' = wire
  BY DEF lifeVars, Crash
<1>1. CASE cap'[r] = cap[r] /\ client'[r] = client[r]
  BY <1>0, <1>1, LifeUndisturbed DEF Life, Cleared
<1>2. CASE ~(cap'[r] = cap[r] /\ client'[r] = client[r])
  <2>1. /\ cap'[r].op = "idle" /\ cap'[r].phase = "lost" /\ cap'[r].fin = cap[r].fin
        /\ cap'[r].info = cap[r].info /\ cap'[r].uncertain = cap[r].uncertain
        /\ client'[r].sent = client[r].sent /\ client'[r].reply = client[r].reply
    BY <1>2, CrashEffect
  <2>2. /\ \A k : OfKind(r, k)' = OfKind(r, k)
        /\ Headers(r)' = Headers(r) /\ EndMarks(r)' = EndMarks(r) /\ Records(r)' = Records(r)
        /\ \A x : Rebuilt(r, x)' = Rebuilt(r, x)
        /\ Framed(r)' = Framed(r) /\ Indexed(r)' = Indexed(r)
    BY <1>0, SameBlobs
  <2>3. Quiet(r)'
    BY <2>1 DEF Quiet
  <2>4. Aging(r)' /\ NamedOnce(r)' /\ Found(r)'
    BY <1>0, <2>1, <2>2, <2>3 DEF Life, Aging, Line, NamedOnce, Found
  <2>5. Written(r)'
    <3>. SUFFICES ASSUME Active(r)' PROVE Local(r)' /\ Entry(r)' /\ Writing(r)' /\ rwire'[r] = {}
      BY DEF Written
    <3>1. Active(r)
      BY <1>0, <2>3 DEF Active
    <3>2. Local(r) /\ Entry(r) /\ Writing(r) /\ rwire[r] = {}
      BY <3>1 DEF Life, Written
    <3>3. Local(r)' /\ Entry(r)'
      BY <3>2, CrashLocal, CrashEntry
    <3>4. Writing(r)'
      <4>1. Uncertain(r)' /\ ~Unfinished(r)'
        BY <2>1 DEF Uncertain, Unfinished
      <4>. QED  BY <1>0, <2>1, <3>2, <4>1, WritingKept
    <3>. QED  BY <1>0, <3>2, <3>3, <3>4
  <2>6. Kept(r)'
    <3>1. Whole(r) => Whole(r)'
      BY <1>0, WholeKept
    <3>2. Served(r) => Served(r)'
      BY <1>0, <2>1, <2>2 DEF Served, Durable
    <3>. QED  BY <1>0, <3>1, <3>2 DEF Life, Kept
  <2>7. Told(r)' /\ Cleared(r)'
    BY <1>0, <2>1, <2>2 DEF Life, Told, Cleared
  <2>8. \A o \in rwire'[r] : Repair(r, o)'
    BY <1>0, <2>1, <2>2, <2>3 DEF Life, Repair, Active
  <2>. QED  BY <2>4, <2>5, <2>6, <2>7, <2>8 DEF Life
<1>. QED  BY <1>1, <1>2

\* The variables that the steps of the writer leave alone keep their types.
LEMMA LifeTypesKept ==
    ASSUME LifeTypes, UNCHANGED lifeVars
    PROVE  LifeTypes'
  BY DEF LifeTypes, lifeVars

\* The writer, its delivery, the store and the process keep the invariant.
LEMMA WriterStepLife ==
    ASSUME LifeInv, WriterStep
    PROVE  LifeInv'
<1>. TypeOK /\ Counted /\ LifeTypes /\ Exclusive /\ \A r \in Requests : Life(r)
  BY DEF LifeInv
<1>0. UNCHANGED lifeVars /\ LifeTypes'
  BY LifeTypesKept DEF WriterStep
<1>l. /\ age' = age /\ window' = window /\ retain' = retain /\ purge' = purge /\ rwire' = rwire
      /\ held' = held
  BY <1>0 DEF lifeVars
<1>c. \A q \in Requests : purge[q] # "idle" => retain'.on /\ q \notin retain'.holds
  BY <1>l DEF Life, Cleared
<1>1. ASSUME NEW r \in Requests, Step(r), Active(r)
      PROVE  /\ Local(r) /\ TypeOK' /\ Counted'
             /\ \A q \in Requests \ {r} : Life(q)'
  <2>1. Local(r)
    BY <1>1 DEF Life, Written
  <2>2. TypeOK' /\ Counted'
    BY <1>1, <2>1, StepTypes
  <2>3. ASSUME NEW q \in Requests \ {r} PROVE Life(q)'
    BY <1>1, <1>c, <1>l, StepFrame, LifeUndisturbed
  <2>. QED  BY <2>1, <2>2, <2>3
<1>2. ASSUME NEW r \in Requests, age[r] = "fresh" \/ cap[r].op # "idle", Land(r) PROVE LifeInv'
  <2>1. Active(r) /\ Step(r)
    BY <1>2 DEF Active, Quiet, Step
  <2>2. TypeOK' /\ Counted' /\ \A q \in Requests \ {r} : Life(q)'
    BY <1>1, <2>1
  <2>3. Life(r)'
    BY <1>0, <1>2, <2>1, LandLife
  <2>4. Exclusive'
    BY <1>2, <1>l DEF Land, Exclusive
  <2>. QED  BY <1>0, <2>2, <2>3, <2>4 DEF LifeInv
<1>3. ASSUME NEW r \in Requests, Handle(r) \/ Deliver(r) \/ Complete(r) \/ Disconnect(r) PROVE LifeInv'
  <2>1. Active(r) /\ Step(r) /\ proc'.up = proc.up
    BY <1>3, StepsAreActive DEF Active, Step
  <2>2. Local(r) /\ TypeOK' /\ Counted' /\ \A q \in Requests \ {r} : Life(q)'
    BY <1>1, <2>1
  <2>3. Life(r)'
    BY <1>0, <1>3, <2>2, WriterLife
  <2>4. Exclusive'
    <3>1. proc.up
      <4>. SUFFICES ASSUME ~proc.up PROVE FALSE  OBVIOUS
      <4>1. cap[r].phase \in Over
        BY DEF Exclusive
      <4>2. cap[r].op \notin Ops \ {"idle"}
        BY <2>2, <4>1 DEF Local, PutInPhase, Finishing, Over, Ops
      <4>3. cap[r].op = "idle"
        BY <4>2, OpIsKnown DEF Ops
      <4>. QED  BY <1>3, <2>2, <4>1, <4>3, StepsAreActive DEF Quiet, Over, Local
    <3>. QED  BY <1>l, <2>1, <3>1 DEF Exclusive
  <2>. QED  BY <1>0, <2>2, <2>3, <2>4 DEF LifeInv
<1>4. CASE CoolDown \/ (window = "open" /\ Restart)
  <2>1. TypeOK' /\ Counted'
    BY <1>4, ProcessTypes
  <2>2. UNCHANGED <<store, wire, cap, client>>
    BY <1>4 DEF CoolDown, Restart
  <2>3. \A q \in Requests : Life(q)'
    BY <1>c, <1>l, <2>2, LifeUndisturbed
  <2>4. Exclusive'
    BY <1>4, <1>l, <2>2 DEF CoolDown, Restart, Exclusive, TypeOK
  <2>. QED  BY <1>0, <2>1, <2>3, <2>4 DEF LifeInv
<1>5. CASE Crash
  <2>1. TypeOK' /\ Counted'
    BY <1>5, ProcessTypes
  <2>2. \A q \in Requests : Life(q)'
    BY <1>0, <1>5, CrashLife
  <2>3. Exclusive'
    <3>1. proc' = [up |-> FALSE, active |-> 0, cooling |-> FALSE]
      BY <1>5 DEF Crash
    <3>. QED  BY <1>5, <1>l, <3>1, CrashEffect DEF Exclusive
  <2>. QED  BY <1>0, <2>1, <2>2, <2>3 DEF LifeInv
<1>. QED  BY <1>2, <1>3, <1>4, <1>5 DEF WriterStep

-----------------------------------------------------------------------------
(* Recovery. *)

\* Steps of the Jobs and of the operator that leave the writer alone.
LEMMA WriterAlone ==
    ASSUME TypeOK, Counted, UNCHANGED <<wire, cap, client, proc>>, store' \in [Requests -> SUBSET Blobs]
    PROVE  TypeOK' /\ Counted'
  BY DEF TypeOK, Counted, SlotsExact, Holding

\* A request that retention is purging is one of its Job's, and not held.
LEMMA PurgeIsAlive ==
    ASSUME NEW q \in Requests, Life(q), retain' = retain
    PROVE  purge[q] # "idle" => retain'.on /\ q \notin retain'.holds
  BY DEF Life, Cleared

\* What recovery rebuilds from a whole journal is a record.
LEMMA RebuiltType ==
    ASSUME TypeOK, NEW r \in Requests, Whole(r), NEW x \in BOOLEAN
    PROVE  Rebuilt(r, x) \in RecordBlobs
<1>1. \A b \in store[r] : b \in Blobs
  BY DEF TypeOK
<1>2. LastChain(r) \in Seq(Texts)
  BY LastIsLongest DEF Whole, OneText, IsText
<1>3. HeaderFormat(r) \in Formats \cup {"none"}
  <2>1. \A h \in Headers(r) : h.format \in Formats
    BY <1>1, BlobShapes DEF Headers, OfKind
  <2>2. CASE Headers(r) = {}
    BY <2>2 DEF HeaderFormat, Headers
  <2>3. CASE Headers(r) # {}
    <3>1. (CHOOSE b \in Headers(r) : TRUE) \in Headers(r)
      BY <2>3
    <3>2. HeaderFormat(r) = (CHOOSE b \in Headers(r) : TRUE).format
      BY <2>3 DEF HeaderFormat, Headers
    <3>. QED  BY <2>1, <3>1, <3>2
  <2>. QED  BY <2>2, <2>3
<1>4. CASE EndMarks(r) = {}
  <2>1. Rebuilt(r, x) = Record("process_interrupted", HeaderFormat(r), LastChain(r), FALSE, x)
    BY <1>4 DEF Rebuilt, EndMarks
  <2>2. \A t \in BOOLEAN : Record("process_interrupted", HeaderFormat(r), LastChain(r), t, x) \in RecordBlobs
    BY <1>2, <1>3, RecordFields
  <2>. QED  BY <2>1, <2>2
<1>5. CASE EndMarks(r) # {}
  <2>. DEFINE e == CHOOSE b \in EndMarks(r) : TRUE
  <2>1. e \in EndMarks(r)
    BY <1>5
  <2>2. e.outcome \in Outcomes /\ e.truncated \in BOOLEAN
    BY <1>1, <2>1, BlobShapes DEF EndMarks, OfKind
  <2>3. Rebuilt(r, x) = Record(e.outcome, HeaderFormat(r), LastChain(r), e.truncated, x)
    BY <1>5 DEF Rebuilt, EndMarks
  <2>. HIDE DEF e
  <2>. QED  BY <1>2, <1>3, <2>2, <2>3, RecordFields
<1>. QED  BY <1>4, <1>5

\* While the window is paused no request that is old enough is active.
LEMMA PausedIsQuiet ==
    ASSUME TypeOK, Exclusive, window = "paused", NEW r \in Requests, Life(r), age[r] # "fresh"
    PROVE  ~Active(r)
<1>1. cap[r].phase \in Over /\ cap[r].phase # "new"
  BY DEF Exclusive, Life, Aging
<1>2. ASSUME Local(r) PROVE cap[r].op = "idle"
  BY <1>1, <1>2, OpIsKnown DEF Local, PutInPhase, Finishing, Over, Ops
<1>. QED  BY <1>1, <1>2 DEF Active, Quiet, Over, Life, Written

\* Only the put that is under way for one request changes.
LEMMA RepairLife ==
    ASSUME NEW r \in Requests, Life(r), UNCHANGED <<store, wire, cap, client, age, window, retain, purge>>,
           rwire'[r] # {} => ~Active(r) /\ Whole(r) /\ Served(r), \A o \in rwire'[r] : Repair(r, o)
    PROVE  Life(r)'
<1>1. Written(r)' /\ Kept(r)'
  BY JournalUndisturbed DEF Life, Written, Kept
<1>2. Cleared(r)' /\ \A o \in rwire'[r] : Repair(r, o)'
  BY SameBlobs, JournalUndisturbed DEF Life, Cleared, Repair
<1>. QED  BY <1>1, <1>2, JournalUndisturbed DEF Life

\* The Job issues the put of one request, or learns of its success.
LEMMA RecoverPuts ==
    ASSUME LifeInv, NEW r \in Requests, RecoverRequest(r) \/ RecoverRecordAck(r) \/ RecoverIndexAck(r)
    PROVE  LifeInv'
<1>. TypeOK /\ Counted /\ LifeTypes /\ Exclusive /\ \A q \in Requests : Life(q)
  BY DEF LifeInv
<1>0. /\ UNCHANGED <<store, wire, cap, client, proc, age, window, held, retain, purge>>
      /\ \A q \in Requests \ {r} : rwire'[q] = rwire[q]
      /\ rwire' = [rwire EXCEPT ![r] = rwire'[r]]
  BY DEF RecoverRequest, RecoverRecordAck, RecoverIndexAck, vars, LifeTypes
<1>1. ASSUME rwire'[r] # {}
      PROVE  /\ ~Active(r) /\ Whole(r) /\ Served(r)
             /\ \A o \in rwire'[r] : Repair(r, o) /\ o \in Blobs
  <2>1. CASE RecoverRequest(r)
    <3>1. window = "paused" /\ RecoveryStatus(r) \in Repairs
      BY <2>1 DEF RecoverRequest
    <3>2. Pending \in store[r] /\ age[r] = "aged" /\ Indexed(r) = {}
      <4>1. age[r] \in {"fresh", "aged", "expired"}
        BY DEF LifeTypes
      <4>2. OfKind(r, "index") = Indexed(r)
        BY DEF OfKind, Indexed
      <4>. QED  BY <3>1, <4>1, <4>2 DEF RecoveryStatus, Repairs
    <3>3. ~Active(r)
      BY <3>1, <3>2, PausedIsQuiet
    <3>4. Whole(r) /\ Served(r) /\ client[r].reply # "ended"
      BY <3>2 DEF Life, Kept, Served
    <3>5. CASE Records(r) = {}
      <4>1. rwire'[r] = {Rebuilt(r, TRUE)}
        BY <2>1, <3>5 DEF RecoverRequest, Records, LifeTypes
      <4>2. Rebuilt(r, TRUE) \in Blobs
        BY <3>4, RebuiltType DEF Blobs
      <4>. QED  BY <3>1, <3>2, <3>3, <3>4, <4>1, <4>2 DEF Repair
    <3>6. CASE Records(r) # {}
      <4>1. rwire'[r] = {Index(b) : b \in Records(r)}
        BY <2>1, <3>6 DEF RecoverRequest, Records, LifeTypes
      <4>2. ASSUME NEW b \in Records(r)
            PROVE  Index(b).kind = "index" /\ Index(b).contentHash = b /\ Index(b) \in Blobs
        <5>1. b \in RecordBlobs
          BY BlobShapes DEF Records, OfKind, TypeOK
        <5>. QED  BY <5>1 DEF Index, Blobs
      <4>3. \A o \in rwire'[r] : o.kind = "index" /\ o.contentHash \in Records(r) /\ o \in Blobs
        BY <4>1, <4>2
      <4>. QED  BY <3>1, <3>2, <3>3, <3>4, <4>3 DEF Repair
    <3>. QED  BY <3>5, <3>6
  <2>2. CASE RecoverRecordAck(r)
    <3>1. PICK b \in rwire[r] : b.kind = "record" /\ b \in store[r] /\ rwire' = [rwire EXCEPT ![r] = {Index(b)}]
      BY <2>2 DEF RecoverRecordAck
    <3>2. rwire'[r] = {Index(b)} /\ b \in Records(r) /\ b \in RecordBlobs
      BY <3>1, BlobShapes DEF LifeTypes, Records, OfKind, TypeOK
    <3>3. Index(b).kind = "index" /\ Index(b).contentHash = b /\ Index(b) \in Blobs
      BY <3>2 DEF Index, Blobs
    <3>4. Repair(r, b) /\ Whole(r) /\ Served(r)
      BY <3>1 DEF Life, Kept
    <3>. QED  BY <3>2, <3>3, <3>4 DEF Repair
  <2>3. CASE RecoverIndexAck(r)
    BY <1>1, <2>3 DEF RecoverIndexAck, LifeTypes
  <2>. QED  BY <2>1, <2>2, <2>3
<1>2. Life(r)'
  <2>1. \A o \in rwire'[r] : Repair(r, o)
    BY <1>1
  <2>. QED  BY <1>0, <1>1, <2>1, RepairLife
<1>3. \A q \in Requests \ {r} : Life(q)'
  BY <1>0, PurgeIsAlive, LifeUndisturbed
<1>4. TypeOK' /\ Counted'
  BY <1>0, WriterAlone DEF TypeOK
<1>5. LifeTypes'
  <2>1. rwire'[r] \in SUBSET Blobs
    BY <1>1
  <2>. QED  BY <1>0, <2>1 DEF LifeTypes
<1>6. Exclusive'
  BY <1>0 DEF Exclusive
<1>. QED  BY <1>2, <1>3, <1>4, <1>5, <1>6 DEF LifeInv

\* The Job's put lands: the journal it completes stays whole.
LEMMA RecoverLands ==
    ASSUME LifeInv, NEW r \in Requests, RecoverLand(r)
    PROVE  LifeInv'
<1>. TypeOK /\ Counted /\ LifeTypes /\ Exclusive /\ \A q \in Requests : Life(q)
  BY DEF LifeInv
<1>1. PICK o \in rwire[r] : /\ \A b \in store[r] : ~SameName(b, o)
                           /\ store' = [store EXCEPT ![r] = @ \cup {o}]
                           /\ UNCHANGED <<wire, cap, client, proc, lifeVars>>
  BY DEF RecoverLand
<1>l. /\ age' = age /\ window' = window /\ retain' = retain /\ purge' = purge /\ rwire' = rwire
      /\ held' = held /\ UNCHANGED <<wire, cap, client, proc>>
  BY <1>1 DEF lifeVars
<1>2. /\ Adds(r, o) /\ o \in Blobs
      /\ \A q \in Requests \ {r} : store'[q] = store[q]
  BY <1>1 DEF Adds, TypeOK, LifeTypes
<1>3. /\ window = "paused" /\ ~Active(r) /\ client[r].reply # "ended" /\ Pending \in store[r]
      /\ o = Rebuilt(r, TRUE) \/ (o.kind = "index" /\ o.contentHash \in Records(r))
      /\ Whole(r) /\ Served(r) /\ NamedOnce(r) /\ Told(r)
  BY DEF Life, Kept, Repair
<1>4. /\ o.kind \in {"record", "index"}
      /\ o.kind = "record" => o = Rebuilt(r, TRUE) /\ o.recovered = TRUE
      /\ o.kind = "index" => o.contentHash \in Records(r)
  BY <1>3, RebuiltRecovered
<1>5. ~retain.on /\ purge[r] = "idle"
  BY <1>3 DEF Exclusive, Life, Cleared
<1>6. Whole(r)'
  BY <1>2, <1>3, <1>4, OtherKeepsWhole DEF Kinds
<1>7. Served(r)'
  <2>1. Durable(r, client[r].sent)'
    BY <1>2, <1>3, <1>l, AddsTo DEF Served, Durable
  <2>2. EndMarks(r)' = EndMarks(r)
    BY <1>2, <1>4, AddsTo
  <2>. QED  BY <1>3, <1>l, <2>1, <2>2 DEF Served
<1>8. NamedOnce(r)' /\ Found(r)'
  BY <1>2, <1>3, NamesStay, AddsTo DEF Found
<1>9. Told(r)'
  <2>1. OfKind(r, "index") = Indexed(r) /\ OfKind(r, "index")' = Indexed(r)'
    BY DEF OfKind, Indexed
  <2>2. CASE o.kind = "index"
    <3>1. Indexed(r)' = {o} /\ o.contentHash \in Records(r)
      BY <1>2, <1>4, <2>2, AddsTo
    <3>2. LET b == o.contentHash
          IN /\ Len(client[r].sent) <= Len(b.chain)
             /\ client[r].sent = SubSeq(b.chain, 1, Len(client[r].sent))
             /\ b.outcome \in {cap[r].fin, "process_interrupted"}
      BY <1>3, <3>1, RecordTells
    <3>3. age[r] # "fresh"
      BY <1>3 DEF Active
    <3>. QED  BY <1>3, <1>l, <2>1, <3>1, <3>2, <3>3 DEF Told
  <2>3. CASE o.kind # "index"
    <3>1. Indexed(r)' = Indexed(r)
      BY <1>2, <2>3, AddsTo
    <3>. QED  BY <1>3, <1>l, <2>1, <3>1 DEF Told
  <2>. QED  BY <2>2, <2>3
<1>10. (Active(r)' <=> Active(r)) /\ (Quiet(r)' <=> Quiet(r))
  BY <1>l DEF Active, Quiet
<1>11. \A p \in rwire'[r] : Repair(r, p)'
  <2>1. \A x : Rebuilt(r, x)' = Rebuilt(r, x)
    BY <1>2, <1>4, AddsTo
  <2>2. Records(r) \subseteq Records(r)' /\ Pending \in store'[r]
    BY <1>2, <1>3, AddsTo
  <2>. QED  BY <1>l, <1>10, <2>1, <2>2 DEF Life, Repair
<1>12. Aging(r)' /\ Cleared(r)'
  <2>1. Framed(r)' = Framed(r)
    BY <1>2, <1>4, AddsTo
  <2>. QED  BY <1>l, <1>5, <1>10, <2>1 DEF Life, Aging, Line, Cleared
<1>13. Life(r)'
  BY <1>3, <1>6, <1>7, <1>8, <1>9, <1>10, <1>11, <1>12 DEF Life, Written, Kept
<1>14. \A q \in Requests \ {r} : Life(q)'
  BY <1>2, <1>l, PurgeIsAlive, LifeUndisturbed
<1>15. TypeOK' /\ Counted'
  <2>1. store' \in [Requests -> SUBSET Blobs]
    BY <1>1, <1>2 DEF TypeOK
  <2>. QED  BY <1>l, <2>1, WriterAlone
<1>16. LifeTypes' /\ Exclusive'
  BY <1>l DEF LifeTypes, Exclusive
<1>. QED  BY <1>13, <1>14, <1>15, <1>16 DEF LifeInv

-----------------------------------------------------------------------------
(* Retention. *)

\* What a removal leaves to be shown: that the frames stay a line, that the next
\* removal may follow, and that the intent outlives everything else.
LEMMA RemovalLife ==
    ASSUME LifeInv, NEW r \in Requests, purge[r] # "idle", NEW blobs, NEW next, Remove(r, blobs, next),
           next \in {"idle", "content", "request", "journal", "index", "pending"},
           Line(r)', Found(r)', next # "idle" => Cleared(r)'
    PROVE  LifeInv'
<1>. TypeOK /\ Counted /\ LifeTypes /\ Exclusive /\ \A q \in Requests : Life(q)
  BY DEF LifeInv
<1>l. /\ age' = age /\ window' = window /\ retain' = retain /\ rwire' = rwire
      /\ held' = held /\ UNCHANGED <<wire, cap, client, proc>>
  BY DEF Remove
<1>1. /\ store'[r] = store[r] \ blobs /\ purge'[r] = next
      /\ \A q \in Requests \ {r} : store'[q] = store[q] /\ purge'[q] = purge[q]
  BY DEF Remove, TypeOK, LifeTypes
<1>2. retain.on /\ window # "paused" /\ age[r] = "expired" /\ Quiet(r) /\ rwire[r] = {}
  BY DEF Life, Cleared, Aging, Exclusive, Repair
<1>3. Quiet(r)' /\ ~Active(r)'
  BY <1>l, <1>2 DEF Quiet, Active
<1>4. Aging(r)'
  BY <1>l, <1>3 DEF Life, Aging
<1>5. NamedOnce(r)'
  BY <1>1 DEF Life, NamedOnce
<1>6. Told(r)'
  <2>1. \A i \in Indexed(r)' : i \in Indexed(r)
    BY <1>1 DEF Indexed
  <2>2. Told(r) /\ cap'[r] = cap[r] /\ client'[r] = client[r] /\ age'[r] = age[r]
    BY <1>l DEF Life
  <2>. QED  BY <2>1, <2>2 DEF Told
<1>7. Cleared(r)'
  BY <1>1 DEF Cleared
<1>8. Life(r)'
  BY <1>l, <1>2, <1>3, <1>4, <1>5, <1>6, <1>7 DEF Life, Written, Kept
<1>9. \A q \in Requests \ {r} : Life(q)'
  BY <1>1, <1>l, PurgeIsAlive, LifeUndisturbed
<1>10. TypeOK' /\ Counted'
  <2>1. store' = [store EXCEPT ![r] = store[r] \ blobs]
    BY DEF Remove
  <2>2. store' \in [Requests -> SUBSET Blobs]
    BY <2>1 DEF TypeOK
  <2>. QED  BY <1>l, <2>2, WriterAlone
<1>11. LifeTypes' /\ Exclusive'
  BY <1>l DEF LifeTypes, Exclusive, Remove
<1>. QED  BY <1>8, <1>9, <1>10, <1>11 DEF LifeInv

\* What is left after a removal, by kind.
LEMMA RemovalLeaves ==
    ASSUME NEW r \in Requests, NEW blobs, store'[r] = store[r] \ blobs
    PROVE  /\ Records(r)' = Records(r) \ blobs /\ Indexed(r)' = Indexed(r) \ blobs
           /\ EndMarks(r)' = EndMarks(r) \ blobs /\ Headers(r)' = Headers(r) \ blobs
           /\ (\A b \in blobs : b.kind # "frame") => Framed(r)' = Framed(r)
           /\ Framed(r)' \subseteq Framed(r)
<1>1. \A k : OfKind(r, k)' = OfKind(r, k) \ blobs
  BY DEF OfKind
<1>2. Records(r)' = Records(r) \ blobs /\ EndMarks(r)' = EndMarks(r) \ blobs /\ Headers(r)' = Headers(r) \ blobs
  BY <1>1 DEF Records, EndMarks, Headers
<1>3. Indexed(r)' = Indexed(r) \ blobs
  BY DEF Indexed
<1>4. Framed(r)' \subseteq Framed(r)
  BY DEF Framed
<1>5. ASSUME \A b \in blobs : b.kind # "frame" PROVE Framed(r)' = Framed(r)
  BY <1>5 DEF Framed
<1>. QED  BY <1>2, <1>3, <1>4, <1>5

\* A removal that takes no frame leaves the line.
LEMMA FramesStay ==
    ASSUME NEW r \in Requests, NEW blobs, store'[r] = store[r] \ blobs, \A b \in blobs : b.kind # "frame"
    PROVE  Framed(r)' = Framed(r) /\ (Line(r) => Line(r)')
<1>1. Framed(r)' = Framed(r)
  BY DEF Framed
<1>. QED  BY <1>1 DEF Line

\* The journal is removed from its first frame on, then its end, then its header.
LEMMA PurgeJournalLife ==
    ASSUME LifeInv, NEW r \in Requests, PurgeJournal(r)
    PROVE  LifeInv'
<1>. TypeOK /\ Counted /\ LifeTypes /\ Exclusive /\ Life(r)
  BY DEF LifeInv
<1>. DEFINE blobs == NextInJournal(r)
            next == IF blobs = {} THEN "index" ELSE "journal"
<1>1. Remove(r, blobs, next) /\ purge[r] = "journal"
  BY DEF PurgeJournal
<1>2. store'[r] = store[r] \ blobs /\ purge'[r] = next /\ retain' = retain /\ age' = age
  BY <1>1 DEF Remove, TypeOK, LifeTypes
<1>3. PICK text \in Seq(Texts), m \in Nat \ {0} : Framed(r) = {SubSeq(text, 1, k) : k \in m..Len(text)}
  BY <1>1 DEF Life, Cleared, Aging, Line
<1>4. Len(text) \in Nat /\ \A k \in m..Len(text) : Len(SubSeq(text, 1, k)) = k
  <2>1. text \in Seq(Texts) /\ Len(text) \in Nat
    BY <1>3
  <2>. QED  BY <1>3, <2>1
<1>5. \A b \in store[r] : b \in Blobs
  BY DEF TypeOK
<1>6. CASE Framed(r) = {}
  <2>1. /\ blobs = IF EndMarks(r) # {} THEN EndMarks(r) ELSE Headers(r)
        /\ \A b \in blobs : b.kind \in {"end", "header"}
    BY <1>6 DEF NextInJournal, EndMarks, Headers, OfKind
  <2>. HIDE DEF blobs
  <2>2. Framed(r)' = {} /\ Line(r)'
    <3>1. Framed(r)' = Framed(r)
      BY <1>2, <2>1, FramesStay
    <3>. QED  BY <1>3, <1>6, <3>1 DEF Line
  <2>3. Found(r)'
    BY <1>2, <2>1 DEF Life, Found, Pending
  <2>4. Records(r)' = {} /\ Request \notin store'[r]
    BY <1>1, <1>2, RemovalLeaves DEF Life, Cleared
  <2>5. blobs = {} => EndMarks(r)' = {} /\ Headers(r)' = {}
    <3>1. blobs = {} => EndMarks(r) = {} /\ Headers(r) = {}
      BY <2>1
    <3>2. EndMarks(r)' \subseteq EndMarks(r) /\ Headers(r)' \subseteq Headers(r)
      <4>1. EndMarks(r)' = EndMarks(r) \ blobs /\ Headers(r)' = Headers(r) \ blobs
        BY <1>2, RemovalLeaves
      <4>. QED  BY <4>1
    <3>. QED  BY <3>1, <3>2
  <2>6. Cleared(r)'
    BY <1>1, <1>2, <2>2, <2>4, <2>5 DEF Life, Cleared
  <2>. QED  BY <1>1, <2>2, <2>3, <2>6, RemovalLife
<1>7. CASE Framed(r) # {}
  <2>1. m <= Len(text)
    BY <1>3, <1>4, <1>7
  <2>. DEFINE first == SubSeq(text, 1, m)
  <2>2. first \in Framed(r) /\ Len(first) = m /\ \A d \in Framed(r) : m <= Len(d)
    BY <1>3, <1>4, <2>1
  <2>3. \A x \in Framed(r) : (\A d \in Framed(r) : Len(x) <= Len(d)) <=> x = first
    <3>1. ASSUME NEW x \in Framed(r), \A d \in Framed(r) : Len(x) <= Len(d) PROVE x = first
      <4>1. PICK k \in m..Len(text) : x = SubSeq(text, 1, k) /\ Len(x) = k
        BY <1>3, <1>4
      <4>2. k = m
        <5>1. k \in Nat /\ m \in Nat /\ m <= k
          BY <1>3, <1>4, <4>1
        <5>2. Len(x) <= Len(first) /\ Len(x) = k /\ Len(first) = m
          BY <2>2, <3>1, <4>1
        <5>. HIDE DEF first
        <5>. QED  BY <5>1, <5>2
      <4>. QED  BY <4>1, <4>2
    <3>. QED  BY <2>2, <3>1
  <2>4. blobs = {Frame(first)}
    <3>1. blobs = {Frame(c) : c \in {x \in Framed(r) : \A d \in Framed(r) : Len(x) <= Len(d)}}
      BY <1>7 DEF NextInJournal
    <3>2. {x \in Framed(r) : \A d \in Framed(r) : Len(x) <= Len(d)} = {first}
      BY <2>2, <2>3
    <3>. HIDE DEF blobs, first
    <3>. QED  BY <3>1, <3>2
  <2>. HIDE DEF blobs, first
  <2>5. next = "journal"
    BY <2>4
  <2>6. Framed(r)' = Framed(r) \ {first}
    <3>1. Frame(first).kind = "frame" /\ Frame(first).chain = first
      BY DEF Frame
    <3>2. \A b \in store[r] : b.kind = "frame" /\ b.chain = first => b = Frame(first)
      BY <1>5, BlobShapes
    <3>. QED  BY <1>2, <2>4, <3>1, <3>2 DEF Framed
  <2>7. Line(r)'
    <3>1. Framed(r)' = {SubSeq(text, 1, k) : k \in (m + 1)..Len(text)}
      <4>1. ASSUME NEW k \in (m + 1)..Len(text) PROVE SubSeq(text, 1, k) \in Framed(r) \ {first}
        <5>1. k \in m..Len(text) /\ Len(SubSeq(text, 1, k)) = k /\ k # m
          BY <1>3, <1>4
        <5>. QED  BY <1>3, <2>2, <5>1
      <4>2. ASSUME NEW c \in Framed(r) \ {first} PROVE \E k \in (m + 1)..Len(text) : c = SubSeq(text, 1, k)
        <5>1. PICK k \in m..Len(text) : c = SubSeq(text, 1, k)
          BY <1>3
        <5>2. k # m
          BY <5>1 DEF first
        <5>3. k \in (m + 1)..Len(text)
          BY <1>3, <1>4, <5>2
        <5>. QED  BY <5>1, <5>3
      <4>. QED  BY <2>6, <4>1, <4>2
    <3>2. m + 1 \in Nat \ {0}
      BY <1>3
    <3>. QED  BY <1>3, <3>1, <3>2 DEF Line
  <2>8. Found(r)'
    BY <1>2, <2>4 DEF Life, Found, Pending, Frame
  <2>9. Cleared(r)'
    <3>1. Records(r)' = {} /\ Request \notin store'[r]
      BY <1>1, <1>2, RemovalLeaves DEF Life, Cleared
    <3>. QED  BY <1>1, <1>2, <2>5, <3>1 DEF Life, Cleared
  <2>. HIDE DEF next
  <2>. QED  BY <1>1, <2>5, <2>7, <2>8, <2>9, RemovalLife
<1>. QED  BY <1>6, <1>7

\* Every removal of the retention Job.
LEMMA PurgeLife ==
    ASSUME LifeInv, NEW r \in Requests, Purge(r)
    PROVE  LifeInv'
<1>. TypeOK /\ Counted /\ LifeTypes /\ Exclusive /\ Life(r)
  BY DEF LifeInv
<1>0. purge[r] # "idle" /\ Line(r)
  BY DEF Purge, PurgeContent, PurgeRequest, PurgeJournal, PurgeIndex, PurgePending, Life, Aging, Cleared
<1>1. CASE PurgeContent(r)
  <2>. DEFINE blobs == OfKind(r, "record")
  <2>1. Remove(r, blobs, "request") /\ \A b \in blobs : b.kind = "record"
    BY <1>1 DEF PurgeContent, OfKind
  <2>2. store'[r] = store[r] \ blobs /\ purge'[r] = "request" /\ retain' = retain /\ age' = age
    BY <2>1 DEF Remove, TypeOK, LifeTypes
  <2>3. Records(r)' = {}
    BY <2>2, RemovalLeaves DEF Records
  <2>. HIDE DEF blobs
  <2>4. Line(r)'
    BY <1>0, <2>1, <2>2, FramesStay
  <2>5. Found(r)'
    BY <2>1, <2>2 DEF Life, Found, Pending
  <2>6. Cleared(r)'
    BY <1>0, <2>2, <2>3 DEF Life, Cleared
  <2>. QED  BY <1>0, <2>1, <2>4, <2>5, <2>6, RemovalLife
<1>2. CASE PurgeRequest(r)
  <2>1. Remove(r, {Request}, "journal") /\ purge[r] = "request" /\ Request.kind = "request"
    BY <1>2 DEF PurgeRequest, Request
  <2>2. store'[r] = store[r] \ {Request} /\ purge'[r] = "journal" /\ retain' = retain /\ age' = age
    BY <2>1 DEF Remove, TypeOK, LifeTypes
  <2>3. Records(r)' = {}
    BY <2>1, <2>2, RemovalLeaves DEF Life, Cleared
  <2>4. Line(r)'
    BY <1>0, <2>1, <2>2, FramesStay
  <2>5. Found(r)'
    BY <2>1, <2>2 DEF Life, Found, Pending, Request
  <2>6. Cleared(r)'
    BY <1>0, <2>2, <2>3 DEF Life, Cleared
  <2>. QED  BY <1>0, <2>1, <2>4, <2>5, <2>6, RemovalLife
<1>3. CASE PurgeJournal(r)
  BY <1>3, PurgeJournalLife
<1>4. CASE PurgeIndex(r)
  <2>. DEFINE blobs == OfKind(r, "index")
  <2>1. Remove(r, blobs, "pending") /\ purge[r] = "index" /\ \A b \in blobs : b.kind = "index"
    BY <1>4 DEF PurgeIndex, OfKind
  <2>2. store'[r] = store[r] \ blobs /\ purge'[r] = "pending" /\ retain' = retain /\ age' = age
    BY <2>1 DEF Remove, TypeOK, LifeTypes
  <2>3. Indexed(r)' = {}
    BY <2>2, RemovalLeaves DEF Indexed, OfKind
  <2>. HIDE DEF blobs
  <2>4. Line(r)' /\ Framed(r)' = {}
    BY <1>0, <2>1, <2>2, FramesStay DEF Life, Cleared
  <2>5. Found(r)'
    BY <2>1, <2>2 DEF Life, Found, Pending
  <2>6. Records(r)' = {} /\ EndMarks(r)' = {} /\ Headers(r)' = {} /\ Request \notin store'[r]
    <3>1. Records(r) = {} /\ EndMarks(r) = {} /\ Headers(r) = {} /\ Request \notin store[r]
      BY <2>1 DEF Life, Cleared
    <3>2. /\ Records(r)' = Records(r) \ blobs /\ EndMarks(r)' = EndMarks(r) \ blobs
          /\ Headers(r)' = Headers(r) \ blobs
      BY <2>2, RemovalLeaves
    <3>. QED  BY <2>2, <3>1, <3>2
  <2>7. Cleared(r)'
    BY <1>0, <2>2, <2>3, <2>4, <2>6 DEF Life, Cleared
  <2>. QED  BY <1>0, <2>1, <2>4, <2>5, <2>7, RemovalLife
<1>5. CASE PurgePending(r)
  <2>1. Remove(r, {Pending}, "idle") /\ purge[r] = "pending" /\ Pending.kind = "pending"
    BY <1>5 DEF PurgePending, Pending
  <2>2. store'[r] = store[r] \ {Pending}
    BY <2>1 DEF Remove, TypeOK
  <2>3. Line(r)'
    BY <1>0, <2>1, <2>2, FramesStay
  <2>4. ASSUME NEW b \in store[r] PROVE b = Pending
    <3>1. b \in Blobs
      BY DEF TypeOK
    <3>2. b.kind \notin {"frame", "end", "header", "record", "index"} /\ b # Request
      BY <2>1, <2>4 DEF Life, Cleared, Framed, EndMarks, Headers, Records, OfKind, Indexed
    <3>. QED  BY <3>1, <3>2, BlobShapes DEF Kinds
  <2>5. Found(r)'
    BY <2>2, <2>4 DEF Found
  <2>. QED  BY <1>0, <2>1, <2>3, <2>5, RemovalLife
<1>. QED  BY <1>1, <1>2, <1>3, <1>4, <1>5 DEF Purge

-----------------------------------------------------------------------------
(* The Jobs, the window and the operator: what moves no blob. *)

\* A request of which only the Jobs' own bookkeeping changes.
LEMMA BookkeepingLife ==
    ASSUME NEW q \in Requests, Life(q),
           cap'[q] = cap[q], client'[q] = client[q], wire'[q] = wire[q], store'[q] = store[q], age'[q] = age[q],
           rwire'[q] = {} \/ (rwire'[q] = rwire[q] /\ window' = window), Cleared(q)'
    PROVE  Life(q)'
<1>1. Written(q)' /\ Kept(q)'
  BY JournalUndisturbed DEF Life, Written, Kept
<1>2. \A o \in rwire'[q] : Repair(q, o)'
  BY SameBlobs, JournalUndisturbed DEF Life, Repair
<1>. QED  BY <1>1, <1>2, JournalUndisturbed DEF Life

\* How far a removal has come depends on the blobs, the age and the retention Job.
LEMMA ClearedKept ==
    ASSUME NEW q \in Requests, Cleared(q), store'[q] = store[q], age'[q] = age[q], purge'[q] = purge[q],
           purge[q] # "idle" => retain'.on /\ q \notin retain'.holds
    PROVE  Cleared(q)'
  BY SameBlobs DEF Cleared

\* The plan, the approval and the end of recovery.
LEMMA PlanLife ==
    ASSUME LifeInv, PlanRecovery \/ ExecuteRecovery \/ RecoveryEnds
    PROVE  LifeInv'
<1>. TypeOK /\ Counted /\ LifeTypes /\ Exclusive /\ \A q \in Requests : Life(q)
  BY DEF LifeInv
<1>1. UNCHANGED <<store, wire, cap, client, proc, age, window, held, retain, purge, rwire>>
  BY DEF PlanRecovery, ExecuteRecovery, RecoveryEnds, vars
<1>2. \A q \in Requests : Life(q)'
  BY <1>1, PurgeIsAlive, LifeUndisturbed
<1>3. TypeOK' /\ Counted'
  BY <1>1, WriterAlone DEF TypeOK
<1>4. LifeTypes' /\ Exclusive'
  BY <1>1 DEF LifeTypes, Exclusive
<1>. QED  BY <1>2, <1>3, <1>4 DEF LifeInv

\* Retention starts while no request is being removed, and takes one at a time.
LEMMA RetentionLife ==
    ASSUME LifeInv,
           RetentionStart \/ RetentionEnds \/ \E r \in Requests : PurgeBegin(r)
    PROVE  LifeInv'
<1>. TypeOK /\ Counted /\ LifeTypes /\ Exclusive /\ \A q \in Requests : Life(q)
  BY DEF LifeInv
<1>1. /\ UNCHANGED <<store, wire, cap, client, proc, age, window, held, rwire>>
      /\ LifeTypes' /\ Exclusive' /\ \A q \in Requests : Cleared(q)'
  <2>1. CASE RetentionStart
    <3>1. /\ UNCHANGED <<store, wire, cap, client, proc, age, window, held, purge, rwire>>
          /\ window = "open" /\ ~retain.on /\ retain' = [on |-> TRUE, holds |-> held]
      BY <2>1 DEF RetentionStart, vars
    <3>2. \A q \in Requests : Cleared(q)'
      BY <3>1, ClearedKept DEF Life, Cleared
    <3>3. LifeTypes' /\ Exclusive'
      BY <3>1 DEF LifeTypes, Exclusive
    <3>. QED  BY <3>1, <3>2, <3>3
  <2>2. CASE RetentionEnds
    <3>1. /\ UNCHANGED <<store, wire, cap, client, proc, age, window, held, rwire>>
          /\ retain' = [on |-> FALSE, holds |-> {}] /\ purge' = [q \in Requests |-> "idle"]
      BY <2>2 DEF RetentionEnds, vars
    <3>2. \A q \in Requests : Cleared(q)'
      BY <3>1 DEF Cleared
    <3>3. LifeTypes' /\ Exclusive'
      BY <3>1 DEF LifeTypes, Exclusive
    <3>. QED  BY <3>1, <3>2, <3>3
  <2>3. ASSUME NEW r \in Requests, PurgeBegin(r)
        PROVE  /\ UNCHANGED <<store, wire, cap, client, proc, age, window, held, rwire>>
               /\ LifeTypes' /\ Exclusive' /\ \A q \in Requests : Cleared(q)'
    <3>1. /\ UNCHANGED <<store, wire, cap, client, proc, age, window, held, retain, rwire>>
          /\ retain.on /\ age[r] = "expired" /\ r \notin retain.holds
          /\ purge' = [purge EXCEPT ![r] = "content"]
      BY <2>3 DEF PurgeBegin, vars
    <3>2. ASSUME NEW q \in Requests PROVE Cleared(q)'
      <4>1. CASE q = r
        <5>1. purge'[r] = "content"
          BY <3>1 DEF LifeTypes
        <5>. QED  BY <3>1, <4>1, <5>1 DEF Cleared
      <4>2. CASE q # r
        <5>1. purge'[q] = purge[q]
          BY <3>1, <4>2 DEF LifeTypes
        <5>. QED  BY <3>1, <5>1, PurgeIsAlive, ClearedKept DEF Life
      <4>. QED  BY <4>1, <4>2
    <3>3. LifeTypes' /\ Exclusive'
      BY <3>1 DEF LifeTypes, Exclusive
    <3>. QED  BY <3>1, <3>2, <3>3
  <2>. QED  BY <2>1, <2>2, <2>3
<1>2. \A q \in Requests : Life(q)'
  BY <1>1, BookkeepingLife
<1>3. TypeOK' /\ Counted'
  BY <1>1, WriterAlone DEF TypeOK
<1>. QED  BY <1>1, <1>2, <1>3 DEF LifeInv

\* The window opens, closes, and is where holds change; a hold may lapse anywhere.
LEMMA WindowLife ==
    ASSUME LifeInv,
           \/ Pause \/ Paused \/ Resume
           \/ \E r \in Requests : ChangeHold(r) \/ HoldLapses(r)
    PROVE  LifeInv'
<1>. TypeOK /\ Counted /\ LifeTypes /\ Exclusive /\ \A q \in Requests : Life(q)
  BY DEF LifeInv
<1>1. /\ UNCHANGED <<store, wire, cap, client, proc, age, purge>>
      /\ retain' = [on |-> retain.on, holds |-> retain'.holds] /\ retain'.holds \subseteq retain.holds
      /\ rwire' = [q \in Requests |-> {}] \/ (rwire' = rwire /\ window' = window)
                                          \/ (rwire' = rwire /\ window # "paused")
      /\ Exclusive'
  <2>1. CASE Pause
    <3>1. /\ UNCHANGED <<store, wire, cap, client, proc, age, held, retain, purge, rwire>>
          /\ window = "open" /\ window' = "pausing"
      BY <2>1 DEF Pause, vars
    <3>. QED  BY <3>1 DEF Exclusive, LifeTypes
  <2>2. CASE Paused
    <3>1. /\ UNCHANGED <<store, wire, cap, client, proc, age, held, retain, purge, rwire>>
          /\ window = "pausing" /\ window' = "paused" /\ ~proc.up /\ ~retain.on
      BY <2>2 DEF Paused, vars
    <3>. QED  BY <3>1 DEF Exclusive, LifeTypes
  <2>3. CASE Resume
    <3>1. /\ UNCHANGED <<store, wire, cap, client, proc, age, held, retain, purge>>
          /\ window' = "open" /\ rwire' = [q \in Requests |-> {}]
      BY <2>3 DEF Resume, vars
    <3>. QED  BY <3>1 DEF Exclusive, LifeTypes
  <2>4. ASSUME NEW r \in Requests, ChangeHold(r)
        PROVE  /\ UNCHANGED <<store, wire, cap, client, proc, age, window, retain, purge, rwire>>
               /\ window = "paused" /\ Exclusive'
    <3>1. /\ UNCHANGED <<store, wire, cap, client, proc, age, window, retain, purge, rwire>>
          /\ window = "paused"
      BY <2>4 DEF ChangeHold, vars
    <3>. QED  BY <3>1 DEF Exclusive
  <2>5. ASSUME NEW r \in Requests, HoldLapses(r)
        PROVE  /\ UNCHANGED <<store, wire, cap, client, proc, age, window, purge, rwire>>
               /\ retain' = [on |-> retain.on, holds |-> retain.holds \ {r}] /\ Exclusive'
    <3>1. /\ UNCHANGED <<store, wire, cap, client, proc, age, window, purge, rwire>>
          /\ held' = held \ {r} /\ retain' = [retain EXCEPT !.holds = @ \ {r}]
      BY <2>5 DEF HoldLapses, vars
    <3>2. retain' = [on |-> retain.on, holds |-> retain.holds \ {r}]
      BY <3>1 DEF LifeTypes
    <3>. QED  BY <3>1, <3>2 DEF Exclusive
  <2>6. CASE \E r \in Requests : ChangeHold(r)
    <3>1. /\ UNCHANGED <<store, wire, cap, client, proc, age, window, retain, purge, rwire>> /\ Exclusive'
      BY <2>4, <2>6
    <3>. QED  BY <3>1 DEF LifeTypes
  <2>7. CASE \E r \in Requests : HoldLapses(r)
    <3>1. PICK r \in Requests : HoldLapses(r)
      BY <2>7
    <3>2. /\ UNCHANGED <<store, wire, cap, client, proc, age, window, purge, rwire>>
          /\ retain' = [on |-> retain.on, holds |-> retain.holds \ {r}] /\ Exclusive'
      BY <2>5, <3>1
    <3>. QED  BY <3>2
  <2>. QED  BY <2>1, <2>2, <2>3, <2>6, <2>7
<1>2. retain'.on = retain.on /\ retain'.on \in BOOLEAN
  BY <1>1 DEF LifeTypes
<1>3. ASSUME NEW q \in Requests PROVE Life(q)'
  <2>1. Cleared(q)'
    BY <1>1, <1>2, ClearedKept DEF Life, Cleared
  <2>2. window # "paused" => rwire[q] = {}
    BY DEF Life, Repair
  <2>3. rwire'[q] = {} \/ (rwire'[q] = rwire[q] /\ window' = window)
    BY <1>1, <2>2
  <2>. QED  BY <1>1, <2>1, <2>3, BookkeepingLife
<1>4. TypeOK' /\ Counted'
  BY <1>1, WriterAlone DEF TypeOK
<1>5. LifeTypes'
  BY <1>1, <1>2 DEF LifeTypes
<1>. QED  BY <1>1, <1>3, <1>4, <1>5 DEF LifeInv

\* A request gets older: an upload of it is over once the request is and 15
\* minutes passed, and a whole journal is a line.
LEMMA AgeLife ==
    ASSUME LifeInv, NEW r \in Requests, Age(r) \/ Expire(r)
    PROVE  LifeInv'
<1>. TypeOK /\ Counted /\ LifeTypes /\ Exclusive /\ \A q \in Requests : Life(q)
  BY DEF LifeInv
<1>1. UNCHANGED <<store, wire, cap, client, proc, window, held, retain, purge, rwire>>
  BY DEF Age, Expire, vars
<1>2. /\ \A q \in Requests \ {r} : age'[q] = age[q]
      /\ age[r] # "expired" /\ age'[r] # "fresh" /\ cap[r].phase # "new"
      /\ age' \in [Requests -> {"fresh", "aged", "expired"}]
      /\ age'[r] = "expired" =>
           age[r] = "aged" /\ (InFlight(r) => cap[r].phase = "abandoned" /\ cap[r].res # "pending")
  <2>1. CASE Age(r)
    BY <2>1 DEF Age, LifeTypes
  <2>2. CASE Expire(r)
    BY <2>2 DEF Expire, LifeTypes, Life, Aging
  <2>. QED  BY <2>1, <2>2
<1>3. Whole(r) /\ Served(r)
  BY <1>2 DEF Life, Kept
<1>4. age'[r] = "expired" => Quiet(r) /\ Line(r)
  <2>. SUFFICES ASSUME age'[r] = "expired" PROVE Quiet(r) /\ Line(r)  OBVIOUS
  <2>1. \/ cap[r].phase \in {"refused", "done", "lost"}
        \/ cap[r].phase = "abandoned" /\ cap[r].res # "pending"
    BY <1>2 DEF InFlight, Begun, TypeOK, Caps, Phases
  <2>2. Quiet(r)
    <3>1. ASSUME Local(r) PROVE cap[r].op = "idle"
      BY <2>1, <3>1, OpIsKnown DEF Local, PutInPhase, Finishing, Ops
    <3>. QED  BY <2>1, <3>1 DEF Life, Written, Active, Quiet
  <2>3. Line(r)
    <3>1. /\ Longest(r) \in Seq(Texts)
          /\ Framed(r) = {SubSeq(Longest(r), 1, k) : k \in 1..Len(Longest(r))}
      BY <1>3, ChainsOfText DEF Whole
    <3>2. 1 \in Nat \ {0}
      OBVIOUS
    <3>. QED  BY <3>1, <3>2 DEF Line
  <2>. QED  BY <2>2, <2>3
<1>5. Life(r)'
  <2>1. /\ Framed(r)' = Framed(r) /\ Indexed(r)' = Indexed(r) /\ Records(r)' = Records(r)
        /\ \A x : Rebuilt(r, x)' = Rebuilt(r, x)
    BY <1>1, SameBlobs
  <2>2. (Quiet(r)' <=> Quiet(r)) /\ (Active(r)' => Active(r))
    BY <1>1, <1>2 DEF Quiet, Active
  <2>3. Aging(r)'
    BY <1>1, <1>2, <1>4, <2>1, <2>2 DEF Aging, Line
  <2>4. Written(r)' /\ Kept(r)'
    BY <1>1, <1>3, <2>2, WriterUndisturbed DEF Life, Written, Kept
  <2>5. Told(r)'
    BY <1>1, <1>2, <2>1 DEF Life, Told
  <2>6. NamedOnce(r)' /\ Found(r)'
    BY <1>1 DEF Life, NamedOnce, Found
  <2>7. Cleared(r)'
    BY <1>1, <1>2 DEF Life, Cleared
  <2>8. \A o \in rwire'[r] : Repair(r, o)'
    BY <1>1, <2>1, <2>2 DEF Life, Repair
  <2>. QED  BY <2>3, <2>4, <2>5, <2>6, <2>7, <2>8 DEF Life
<1>6. \A q \in Requests \ {r} : Life(q)'
  BY <1>1, <1>2, PurgeIsAlive, LifeUndisturbed
<1>7. TypeOK' /\ Counted'
  BY <1>1, WriterAlone DEF TypeOK
<1>8. LifeTypes' /\ Exclusive'
  BY <1>1, <1>2 DEF LifeTypes, Exclusive
<1>. QED  BY <1>5, <1>6, <1>7, <1>8 DEF LifeInv

-----------------------------------------------------------------------------
(* The invariant holds. *)

LEMMA InitLife == LifeInit => LifeInv
<1>. SUFFICES ASSUME LifeInit PROVE LifeInv  OBVIOUS
<1>1. TypeOK /\ Counted /\ \A r \in Requests : Local(r) /\ Entry(r)
  BY InitEntry DEF LifeInit, LedgerInv, IInv
<1>2. /\ age = [r \in Requests |-> "fresh"] /\ window = "open" /\ held = {}
      /\ retain = [on |-> FALSE, holds |-> {}] /\ purge = [r \in Requests |-> "idle"]
      /\ rwire = [r \in Requests |-> {}] /\ proc.up
  BY DEF LifeInit, Init
<1>3. LifeTypes /\ Exclusive
  BY <1>2 DEF LifeTypes, Exclusive
<1>4. ASSUME NEW r \in Requests PROVE Life(r)
  <2>1. /\ store[r] = {} /\ wire[r] = {} /\ cap[r].op = "idle" /\ cap[r].info = "none"
        /\ client[r].reply # "ended"
    BY DEF LifeInit, Init, NewCap, NewClient
  <2>2. Framed(r) = {} /\ Indexed(r) = {} /\ Headers(r) = {} /\ EndMarks(r) = {} /\ Records(r) = {}
    BY <2>1 DEF Framed, Indexed, Headers, EndMarks, Records, OfKind
  <2>3. Writing(r)
    BY <2>1, <2>2 DEF Writing, Puts, Headed
  <2>4. Whole(r)
    <3>1. OneText(r)
      BY <1>1 DEF Entry
    <3>2. Longest(r) = << >>
      BY <2>2, <3>1 DEF OneText, IsText
    <3>3. Durable(r, Longest(r))
      BY <3>2 DEF Durable
    <3>. QED  BY <2>2, <3>1, <3>3 DEF Whole
  <2>5. Served(r)
    BY <1>1, <2>1, <2>2 DEF Served, Local
  <2>6. Aging(r) /\ Written(r) /\ Kept(r)
    BY <1>1, <1>2, <2>3, <2>4, <2>5 DEF Aging, Written, Kept
  <2>7. NamedOnce(r) /\ Told(r) /\ Cleared(r) /\ Found(r) /\ rwire[r] = {}
    BY <1>2, <2>1, <2>2 DEF NamedOnce, Told, Cleared, Found
  <2>. QED  BY <2>6, <2>7 DEF Life
<1>. QED  BY <1>1, <1>3, <1>4 DEF LifeInv

LEMMA NextLife == LifeInv /\ [LifeNext]_allVars => LifeInv'
<1>. SUFFICES ASSUME LifeInv, [LifeNext]_allVars PROVE LifeInv'  OBVIOUS
<1>1. CASE WriterStep
  BY <1>1, WriterStepLife
<1>2. ASSUME NEW r \in Requests, RecoverRequest(r) \/ RecoverRecordAck(r) \/ RecoverIndexAck(r) PROVE LifeInv'
  BY <1>2, RecoverPuts
<1>3. ASSUME NEW r \in Requests, RecoverLand(r) PROVE LifeInv'
  BY <1>3, RecoverLands
<1>4. ASSUME NEW r \in Requests, Purge(r) PROVE LifeInv'
  BY <1>4, PurgeLife
<1>5. ASSUME NEW r \in Requests, Age(r) \/ Expire(r) PROVE LifeInv'
  BY <1>5, AgeLife
<1>6. CASE PlanRecovery \/ ExecuteRecovery \/ RecoveryEnds
  BY <1>6, PlanLife
<1>7. CASE RetentionStart \/ RetentionEnds \/ \E r \in Requests : PurgeBegin(r)
  BY <1>7, RetentionLife
<1>8. CASE Pause \/ Paused \/ Resume \/ \E r \in Requests : ChangeHold(r) \/ HoldLapses(r)
  BY <1>8, WindowLife
<1>9. CASE UNCHANGED allVars
  <2>1. UNCHANGED <<store, wire, cap, client, proc, age, window, held, retain, purge, rwire>>
    BY <1>9 DEF allVars, vars, lifeVars
  <2>2. TypeOK /\ Counted /\ LifeTypes /\ Exclusive /\ \A q \in Requests : Life(q)
    BY DEF LifeInv
  <2>3. \A q \in Requests : Life(q)'
    BY <2>1, <2>2, PurgeIsAlive, LifeUndisturbed
  <2>4. TypeOK' /\ Counted'
    BY <2>1, <2>2, WriterAlone DEF TypeOK
  <2>5. LifeTypes' /\ Exclusive'
    BY <2>1, <2>2 DEF LifeTypes, Exclusive
  <2>. QED  BY <2>3, <2>4, <2>5 DEF LifeInv
<1>. QED  BY <1>1, <1>2, <1>3, <1>4, <1>5, <1>6, <1>7, <1>8, <1>9 DEF LifeNext

LEMMA LifeHolds == LifeSpec => []LifeInv
  BY InitLife, NextLife, PTL DEF LifeSpec

-----------------------------------------------------------------------------
(* What it shows. *)

\* maintainAudit() lists the intents: whatever is left of a request, by the
\* writer, a late upload, a recovery Job or an interrupted removal, its intent
\* is there to find it by.
THEOREM RetentionFindsAll == LifeSpec => []RetentionReachesAll
<1>1. LifeInv => RetentionReachesAll
  BY DEF LifeInv, Life, Found, RetentionReachesAll
<1>. QED  BY <1>1, LifeHolds, PTL

\* recoverRequest() throws no integrity error on a journal that this writer
\* left: the checks it makes of frames, end, record and index all succeed.
THEOREM RecoveryIsNeverBlocked == LifeSpec => []RecoveryNeverBlocked
<1>1. ASSUME LifeInv, NEW r \in Requests, RecoveryStatus(r) = "integrity_failure" PROVE FALSE
  <2>1. age[r] = "aged" /\ Pending \in store[r]
    BY <1>1 DEF RecoveryStatus, Repairs, LifeInv, LifeTypes
  <2>2. Whole(r)
    BY <1>1, <2>1 DEF LifeInv, Life, Kept
  <2>3. \A i \in OfKind(r, "index") : i.contentHash \in OfKind(r, "record")
    BY <2>2 DEF Whole, Indexed, OfKind, Records
  <2>4. ChainValid(r)
    BY <2>2, ChainIsValid DEF Whole
  <2>5. EndValid(r)
    BY <2>2, LastIsLongest DEF Whole, EndValid, EndMarks
  <2>6. \A b \in OfKind(r, "record") : b = Rebuilt(r, b.recovered)
    BY <2>2 DEF Whole, Records
  <2>. QED  BY <1>1, <2>1, <2>3, <2>4, <2>5, <2>6 DEF RecoveryStatus
<1>2. LifeInv => RecoveryNeverBlocked
  BY <1>1 DEF RecoveryNeverBlocked
<1>. QED  BY <1>2, LifeHolds, PTL

\* complete() and the recovery Job index only what is true: all that the client
\* was sent, and no clean end filed as an interruption.
THEOREM IndexIsTrue == LifeSpec => []IndexTellsTheTruth
<1>1. LifeInv => IndexTellsTheTruth
  BY DEF LifeInv, Life, Told, IndexTellsTheTruth, Indexed, OfKind
<1>. QED  BY <1>1, LifeHolds, PTL

\* Holds are of requests, and they change only in the registry.
LEMMA HeldAreRequests == LifeSpec => [](held \subseteq Requests)
<1>1. LifeInit => held \subseteq Requests
  BY DEF LifeInit
<1>2. held \subseteq Requests /\ [LifeNext]_allVars => (held \subseteq Requests)'
  <2>. SUFFICES ASSUME held \subseteq Requests, [LifeNext]_allVars PROVE held' \subseteq Requests  OBVIOUS
  <2>1. CASE held' = held
    BY <2>1
  <2>2. ASSUME NEW r \in Requests, ChangeHold(r) \/ HoldLapses(r) PROVE held' \subseteq Requests
    BY <2>2 DEF ChangeHold, HoldLapses
  <2>3. CASE WriterStep \/ UNCHANGED allVars
    BY <2>1, <2>3 DEF WriterStep, lifeVars, allVars
  <2>4. ASSUME NEW r \in Requests, RecoverRequest(r) \/ RecoverLand(r) \/ RecoverRecordAck(r) \/ RecoverIndexAck(r)
        PROVE  held' = held
    BY <2>4 DEF RecoverRequest, RecoverLand, RecoverRecordAck, RecoverIndexAck, lifeVars
  <2>5. ASSUME NEW r \in Requests, PurgeBegin(r) \/ Purge(r) \/ Age(r) \/ Expire(r) PROVE held' = held
    BY <2>5 DEF PurgeBegin, Purge, PurgeContent, PurgeRequest, PurgeJournal, PurgeIndex, PurgePending,
                Remove, Age, Expire
  <2>6. CASE \/ PlanRecovery \/ ExecuteRecovery \/ RecoveryEnds \/ RetentionStart \/ RetentionEnds
             \/ Pause \/ Paused \/ Resume
    <3>1. held' = held
      BY <2>6 DEF PlanRecovery, ExecuteRecovery, RecoveryEnds, RetentionStart, RetentionEnds, Pause, Paused, Resume
    <3>. QED  BY <2>1, <3>1
  <2>. QED  BY <2>1, <2>2, <2>3, <2>4, <2>5, <2>6 DEF LifeNext
<1>. QED  BY <1>1, <1>2, PTL DEF LifeSpec

\* Blobs are removed by retention alone.
LEMMA OnlyRetentionRemoves ==
    ASSUME LifeInv, [LifeNext]_allVars, \A r \in Requests : ~Purge(r), NEW q \in Requests
    PROVE  store[q] \subseteq store'[q]
<1>. TypeOK /\ \A r \in Requests : Life(r)
  BY DEF LifeInv
<1>1. CASE WriterStep
  <2>1. ASSUME NEW r \in Requests, Step(r), Active(r) PROVE store[q] \subseteq store'[q]
    BY <2>1, StepBlobs DEF Life, Written, Local
  <2>2. ASSUME NEW r \in Requests, age[r] = "fresh" \/ cap[r].op # "idle", Land(r)
        PROVE  store[q] \subseteq store'[q]
    BY <2>1, <2>2 DEF Active, Quiet, Step
  <2>3. ASSUME NEW r \in Requests, Handle(r) \/ Deliver(r) \/ Complete(r) \/ Disconnect(r)
        PROVE  store[q] \subseteq store'[q]
    BY <2>1, <2>3, StepsAreActive DEF Active, Step
  <2>4. CASE CoolDown \/ Crash \/ Restart
    BY <2>4 DEF CoolDown, Crash, Restart
  <2>. QED  BY <1>1, <2>2, <2>3, <2>4 DEF WriterStep
<1>2. ASSUME NEW r \in Requests, RecoverLand(r) PROVE store[q] \subseteq store'[q]
  BY <1>2 DEF RecoverLand, TypeOK
<1>3. ASSUME NEW r \in Requests,
             \/ RecoverRequest(r) \/ RecoverRecordAck(r) \/ RecoverIndexAck(r)
             \/ PurgeBegin(r) \/ ChangeHold(r) \/ HoldLapses(r) \/ Age(r) \/ Expire(r)
      PROVE  store' = store
  BY <1>3 DEF RecoverRequest, RecoverRecordAck, RecoverIndexAck, PurgeBegin, ChangeHold, HoldLapses,
              Age, Expire, vars
<1>4. CASE \/ PlanRecovery \/ ExecuteRecovery \/ RecoveryEnds \/ RetentionStart \/ RetentionEnds
           \/ Pause \/ Paused \/ Resume \/ UNCHANGED allVars
  BY <1>4 DEF PlanRecovery, ExecuteRecovery, RecoveryEnds, RetentionStart, RetentionEnds, Pause, Paused, Resume,
              allVars, vars
<1>. QED  BY <1>1, <1>2, <1>3, <1>4 DEF LifeNext

\* A retention Job deletes by the registry it read when it started, and holds
\* change only while no such Job runs: no step takes a blob of a held request.
THEOREM HoldIsRespected == LifeSpec => HoldRespected
<1>1. ASSUME LifeInv, [LifeNext]_allVars, held \subseteq Requests, NEW q \in held
      PROVE  store[q] \subseteq store'[q]
  <2>1. ASSUME NEW r \in Requests, Purge(r) PROVE store[q] \subseteq store'[q]
    <3>1. \E blobs, next : Remove(r, blobs, next)
      BY <2>1 DEF Purge, PurgeContent, PurgeRequest, PurgeJournal, PurgeIndex, PurgePending
    <3>2. purge[r] # "idle"
      BY <2>1 DEF Purge, PurgeContent, PurgeRequest, PurgeJournal, PurgeIndex, PurgePending
    <3>3. retain.on /\ r \notin retain.holds /\ held \subseteq retain.holds
      BY <1>1, <3>2 DEF LifeInv, Exclusive, Life, Cleared
    <3>4. q # r
      BY <3>3
    <3>. QED  BY <1>1, <3>1, <3>4 DEF Remove, LifeInv, TypeOK
  <2>. QED  BY <1>1, <2>1, OnlyRetentionRemoves
<1>2. LifeInv /\ held \subseteq Requests /\ [LifeNext]_allVars
        => [\A r \in held : store[r] \subseteq store'[r]]_allVars
  BY <1>1
<1>. QED  BY <1>2, LifeHolds, HeldAreRequests, PTL DEF LifeSpec, HoldRespected
=============================================================================
