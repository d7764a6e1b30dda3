-------------------------- MODULE AuditLedgerProofs --------------------------
(***************************************************************************)
(* The durable audit path implements AuditLedger, for every set of requests *)
(* and all limits: what the blobs of the journal say is at every moment a   *)
(* ledger, and every step of the writer, the delivery, the client and the   *)
(* store is a step of the ledger or changes nothing in it.                  *)
(***************************************************************************)
EXTENDS AuditJournalProofs

Opened(r)  == {Pending, Request} \subseteq store[r]
Indexed(r) == {b \in store[r] : b.kind = "index"}

-----------------------------------------------------------------------------
(* The text of an entry: the longest chain, of which all others are prefixes. *)

IsText(chains, text) ==
    /\ text \in Seq(Texts) /\ text \in chains \cup {<< >>}
    /\ \A c \in chains : /\ c \in Seq(Texts) /\ Len(c) \in 1..Len(text)
                         /\ c = SubSeq(text, 1, Len(c))

LongestOf(chains) == CHOOSE c \in chains \cup {<< >>} : \A d \in chains : Len(d) <= Len(c)

\* There is one such chain.
LEMMA LongestIsText ==
    ASSUME NEW chains, NEW text, IsText(chains, text)
    PROVE  LongestOf(chains) = text
<1>. DEFINE Best(c) == c \in chains \cup {<< >>} /\ \A d \in chains : Len(d) <= Len(c)
<1>1. text \in Seq(Texts) /\ Len(text) \in Nat
  BY DEF IsText
<1>2. Best(text)
  BY <1>1 DEF IsText
<1>3. ASSUME NEW c, Best(c) PROVE c = text
  <2>1. CASE c = << >>
    <3>1. Len(c) = 0  BY <2>1
    <3>2. chains = {}  BY <1>1, <1>3, <3>1 DEF IsText
    <3>. QED  BY <2>1, <3>2 DEF IsText
  <2>2. CASE c # << >>
    <3>1. c \in chains /\ c \in Seq(Texts) /\ Len(c) \in 1..Len(text) /\ c = SubSeq(text, 1, Len(c))
      BY <1>3, <2>2 DEF IsText
    <3>2. text \in chains
      <4>1. text # << >>  BY <1>1, <3>1
      <4>. QED  BY <4>1 DEF IsText
    <3>3. Len(text) = Len(c)  BY <1>1, <1>3, <3>1, <3>2
    <3>. QED  BY <1>1, <3>1, <3>3
  <2>. QED  BY <2>1, <2>2
<1>. QED  BY <1>2, <1>3 DEF LongestOf

\* The next frame makes it one text longer.
LEMMA TextGrows ==
    ASSUME NEW chains, NEW text, NEW t \in Texts, IsText(chains, text)
    PROVE  IsText(chains \cup {Append(text, t)}, Append(text, t))
<1>. DEFINE longer == Append(text, t)
<1>1. text \in Seq(Texts) /\ longer \in Seq(Texts) /\ Len(longer) = Len(text) + 1 /\ Len(text) \in Nat
  BY DEF IsText
<1>2. longer = SubSeq(longer, 1, Len(longer))
  BY <1>1
<1>3. ASSUME NEW c \in chains
      PROVE  c \in Seq(Texts) /\ Len(c) \in 1..Len(longer) /\ c = SubSeq(longer, 1, Len(c))
  <2>1. c \in Seq(Texts) /\ Len(c) \in 1..Len(text) /\ c = SubSeq(text, 1, Len(c))
    BY DEF IsText
  <2>2. SubSeq(text, 1, Len(c)) = SubSeq(longer, 1, Len(c))
    BY <1>1, <2>1
  <2>. QED  BY <1>1, <2>1, <2>2
<1>. QED  BY <1>1, <1>2, <1>3 DEF IsText

-----------------------------------------------------------------------------
(* The invariant of one request, beyond that of AuditJournalProofs.          *)

\* Frames are a line.
OneText(r) == IsText(Framed(r), Longest(r))

Uncertain(r) == cap[r].uncertain \/ cap[r].phase = "lost"

\* What may still land continues the entry where it ends, and not past its seal.
NextInLine(r) ==
    /\ \A o, p \in wire[r] : o = p
    /\ \A o \in wire[r] : o.kind = "frame" =>
         /\ o = Frame(o.chain) /\ o.chain # << >>
         /\ o.chain = Longest(r) \/ \E t \in Texts : o.chain = Append(Longest(r), t)
         /\ Indexed(r) = {} /\ cap[r].info # "none"
         /\ cap[r].op = "frame" \/ Uncertain(r)
    /\ \A o \in wire[r] : o.kind = "index" =>
         /\ o.contentHash.chain = Longest(r) /\ o.contentHash.outcome \in Outcomes
         /\ cap[r].fin # "open" /\ Opened(r)

\* An entry is sealed once, over all of its text, and only by finish().
SealedOnce(r) ==
    /\ \A x, y \in Indexed(r) : x = y
    /\ \A x \in Indexed(r) : x.contentHash.chain = Longest(r) /\ cap[r].fin # "open"
    /\ cap[r].op = "index" => \E o \in wire[r] : o.kind = "index" /\ o.contentHash.outcome = cap[r].fin
    /\ cap[r].res = "true" => \E x \in Indexed(r) : x.contentHash.outcome = cap[r].fin

\* While nothing is uncertain the writer knows the text of the entry.
Known(r) == ~Uncertain(r) /\ cap[r].res = "pending" /\ cap[r].phase \notin {"refused", "done"}

WriterKnows(r) ==
    /\ Known(r) => \/ cap[r].frames = Longest(r)
                   \/ cap[r].op = "frame" /\ Frame(Longest(r)) \in wire[r]
    /\ cap[r].uncertain => cap[r].phase \in {"failing", "done", "lost"}
    /\ cap[r].op \in {"end", "record", "index"} => ~cap[r].uncertain
    /\ cap[r].op \in {"header", "frame"} => cap[r].res = "pending"
    /\ cap[r].res # "pending" => cap[r].fin # "open"

Early == {"new", "intent", "admitted", "forwarded"}

\* The response can still be written to.
Writable(r) == ~client[r].gone /\ client[r].reply \in {"none", "streaming"}

\* The client of a stream has what is written, or all but the frame under way.
ClientFollows(r) ==
    /\ cap[r].phase \in Early => cap[r].info = "none"
    /\ cap[r].phase \in {"delivering", "committing"} => cap[r].info # "none"
    /\ cap[r].info # "sse" => client[r].sent = << >>
    /\ cap[r].phase \in Early \cup {"delivering", "committing"} /\ Writable(r) /\ cap[r].info # "json"
         => client[r].sent = IF cap[r].op = "frame" THEN cap[r].frames ELSE Longest(r)
    /\ cap[r].phase \in {"admitted", "forwarded", "delivering"} /\ cap[r].fin # "open" => ~Writable(r)
    /\ cap[r].phase = "committing" => cap[r].fin = "upstream_end" \/ ~Writable(r)
    /\ client[r].reply = "ended" => cap[r].phase = "done" /\ Indexed(r) # {}

Entry(r) == OneText(r) /\ NextInLine(r) /\ SealedOnce(r) /\ WriterKnows(r) /\ ClientFollows(r)

LedgerInv == IInv /\ \A r \in Requests : Entry(r)

-----------------------------------------------------------------------------
(* Steps keep the invariant. *)

\* What the entry says depends on its blobs alone.
LEMMA SameStore ==
    ASSUME NEW r \in Requests, store'[r] = store[r]
    PROVE  /\ Framed(r)' = Framed(r) /\ Longest(r)' = Longest(r) /\ Indexed(r)' = Indexed(r)
           /\ Verdicts(r)' = Verdicts(r) /\ Opened(r)' = Opened(r)
<1>1. Framed(r)' = Framed(r) /\ Indexed(r)' = Indexed(r) /\ Verdicts(r)' = Verdicts(r) /\ Opened(r)' = Opened(r)
  BY DEF Framed, Indexed, Verdicts, Opened
<1>2. Longest(r)' = Longest(r)
  BY <1>1 DEF Longest
<1>. QED  BY <1>1, <1>2

\* A step of one request does not disturb the entry of another.
LEMMA EntryUndisturbed ==
    ASSUME NEW q \in Requests, Entry(q),
           cap'[q] = cap[q], client'[q] = client[q], wire'[q] = wire[q], store'[q] = store[q]
    PROVE  Entry(q)'
  BY SameStore, SMTT(60) DEF Entry, OneText, NextInLine, SealedOnce, WriterKnows, Known, Uncertain, ClientFollows, Writable

\* The handler's own steps.
LEMMA HandleEntry ==
    ASSUME TypeOK, NEW r \in Requests, Local(r), Entry(r), Handle(r)
    PROVE  Entry(r)'
<1>. /\ cap[r] \in Caps /\ client[r] \in Clients
     /\ cap \in [Requests -> Caps] /\ client \in [Requests -> Clients]
     /\ wire \in [Requests -> SUBSET Blobs]
  BY DEF TypeOK
<1>. /\ store'[r] = store[r] /\ Framed(r)' = Framed(r) /\ Longest(r)' = Longest(r)
     /\ Indexed(r)' = Indexed(r) /\ Opened(r)' = Opened(r)
  <2>1. store'[r] = store[r]
    BY DEF Handle, BeginRefused, Begin, IntentAck, RequestAck, BeginFail, Forward, Reject, ProxyError
  <2>. QED  BY <2>1, SameStore
<1>. USE DEF Local, PutInPhase, IntentDurable, Finishing, Begun, Acked,
             Entry, OneText, NextInLine, SealedOnce, WriterKnows, Known, Uncertain, ClientFollows, Writable, Early
<1>1. CASE BeginRefused(r)
  BY <1>1 DEF BeginRefused, ErrorReply, Caps, Clients
<1>2. CASE Begin(r)
  BY <1>2 DEF Begin, Caps, Pending
<1>3. CASE IntentAck(r)
  BY <1>3 DEF IntentAck, Caps, Request
<1>4. CASE RequestAck(r)
  BY <1>4 DEF RequestAck, Finish, Caps
<1>5. CASE BeginFail(r)
  BY <1>5 DEF BeginFail, ErrorReply, Caps, Clients
<1>6. CASE Forward(r)
  BY <1>6 DEF Forward, Caps
<1>7. CASE \E o \in Denials : Reject(r, o)
  BY <1>7 DEF Reject, Finish, ErrorReply, Caps, Clients
<1>8. CASE ProxyError(r)
  BY <1>8 DEF ProxyError, Finish, ErrorReply, ErrorOrDestroy, Caps, Clients
<1>. QED  BY <1>1, <1>2, <1>3, <1>4, <1>5, <1>6, <1>7, <1>8 DEF Handle

\* What finish() and the catch of the delivery do to a capture.
LEMMA FinishFacts ==
    ASSUME NEW c \in Caps, NEW o \in Outcomes, NEW p, NEW g \in BOOLEAN
    PROVE  LET d == [Finish(c, o) EXCEPT !.phase = p]
               e == Abort(c, o, g)
           IN /\ d.phase = p /\ d.op = c.op /\ d.frames = c.frames /\ d.res = c.res /\ d.info = c.info
              /\ d.uncertain = c.uncertain /\ d.fin = IF c.fin = "open" THEN o ELSE c.fin
              /\ e.phase = "failing" /\ e.op = c.op /\ e.frames = c.frames /\ e.res = c.res /\ e.info = c.info
              /\ e.uncertain = c.uncertain
              /\ e.fin = IF c.fin # "open" THEN c.fin ELSE IF g THEN "client_disconnect" ELSE o
  BY DEF Finish, Abort, Caps

\* The frame that is acknowledged is the end of the text.
LEMMA FrameAckText ==
    ASSUME TypeOK, NEW r \in Requests, Local(r), Entry(r), FrameAck(r)
    PROVE  \E t \in Texts :
             /\ Append(cap[r].frames, t) = Longest(r) /\ cap[r].frames \in Seq(Texts)
             /\ \A o \in wire[r] : o.chain = Longest(r)
<1>1. /\ cap[r] \in Caps /\ cap[r].op = "frame" /\ cap[r].phase = "delivering" /\ wire[r] \subseteq store[r]
  BY DEF TypeOK, FrameAck, Acked, Local, PutInPhase
<1>2. PICK t \in Texts : wire[r] = {Frame(Append(cap[r].frames, t))}
  BY <1>1 DEF Local, PutInPhase
<1>. DEFINE chain == Append(cap[r].frames, t)
<1>3. /\ cap[r].frames \in Seq(Texts) /\ Len(cap[r].frames) \in Nat
      /\ chain \in Seq(Texts) /\ Len(chain) = Len(cap[r].frames) + 1
  BY <1>1 DEF Caps
<1>4. chain \in Framed(r)
  <2>1. Frame(chain) \in store[r] /\ Frame(chain).kind = "frame" /\ Frame(chain).chain = chain
    BY <1>1, <1>2 DEF Frame
  <2>. QED  BY <2>1 DEF Framed
<1>5. Len(chain) \in 1..Len(Longest(r)) /\ Longest(r) \in Seq(Texts) /\ Len(Longest(r)) \in Nat
  <2>1. \A c \in Framed(r) : Len(c) \in 1..Len(Longest(r))
    BY DEF Entry, OneText, IsText
  <2>2. Longest(r) \in Seq(Texts) /\ Len(Longest(r)) \in Nat
    BY DEF Entry, OneText, IsText
  <2>. QED  BY <1>4, <2>1, <2>2
<1>6. cap[r].frames = Longest(r) \/ Frame(Longest(r)) \in wire[r]
  <2>1. Known(r)
    BY <1>1 DEF Known, Uncertain, Entry, WriterKnows
  <2>. QED  BY <2>1 DEF Entry, WriterKnows
<1>7. Frame(Longest(r)) = Frame(chain)
  BY <1>2, <1>3, <1>5, <1>6
<1>8. Longest(r) = chain
  BY <1>7 DEF Frame
<1>9. \A o \in wire[r] : o.chain = chain
  BY <1>2, SMTT(60) DEF Frame
<1>. QED  BY <1>3, <1>8, <1>9

\* The delivery's steps.
LEMMA DeliverEntry ==
    ASSUME TypeOK, NEW r \in Requests, Local(r), Entry(r), Deliver(r)
    PROVE  Entry(r)'
<1>. /\ cap[r] \in Caps /\ client[r] \in Clients
     /\ cap \in [Requests -> Caps] /\ client \in [Requests -> Clients]
     /\ wire \in [Requests -> SUBSET Blobs]
  BY DEF TypeOK
<1>. /\ store'[r] = store[r] /\ Framed(r)' = Framed(r) /\ Longest(r)' = Longest(r)
     /\ Indexed(r)' = Indexed(r) /\ Opened(r)' = Opened(r)
  <2>1. store'[r] = store[r]
    BY DEF Deliver, Respond, RespondRejected, HeaderAck, JournalWriteFail, SendFrame,
           FrameRejected, StreamFault, FrameAck, StreamEnd, CommitDone, FailDone
  <2>. QED  BY <2>1, SameStore
<1>. USE DEF Local, PutInPhase, IntentDurable, Finishing, Begun, Reading,
             Entry, OneText, NextInLine, SealedOnce, WriterKnows, Known, Uncertain, ClientFollows, Writable, Early
<1>1. CASE \E f \in Formats : Respond(r, f)
  BY <1>1 DEF Respond, Caps, Header, Formats
<1>2. CASE RespondRejected(r)
  BY <1>2 DEF RespondRejected, Abort, Finish, Caps
<1>3. CASE HeaderAck(r)
  BY <1>3 DEF HeaderAck, Caps
<1>4. CASE JournalWriteFail(r)
  BY <1>4, SMTT(60) DEF JournalWriteFail, Abort, Finish, Caps
<1>5. CASE \E t \in Texts : SendFrame(r, t)
  <2>1. PICK t \in Texts : SendFrame(r, t)  BY <1>5
  <2>. DEFINE chain == Append(cap[r].frames, t)
  <2>2. /\ cap[r].phase = "delivering" /\ cap[r].op = "idle" /\ cap[r].fin = "open"
        /\ cap'[r] = [cap[r] EXCEPT !.op = "frame"] /\ wire'[r] = {Frame(chain)}
        /\ client'[r] = client[r]
    BY <2>1 DEF SendFrame
  <2>3. cap[r].frames \in Seq(Texts)  BY DEF Caps
  <2>4. cap[r].res = "pending" /\ ~cap[r].uncertain /\ cap[r].frames = Longest(r) /\ Indexed(r) = {}
    BY <2>2
  <2>5. NextInLine(r)'
    <3>1. ASSUME NEW o \in wire'[r]
          PROVE  /\ o.kind = "frame" /\ o = Frame(o.chain) /\ o.chain # << >>
                 /\ o.chain = Append(Longest(r), t)
      <4>1. o = Frame(chain)  BY <2>2
      <4>2. o.chain = chain /\ o.kind = "frame"  BY <4>1 DEF Frame
      <4>3. chain # << >>  BY <2>3, SMTT(60)
      <4>. QED  BY <2>4, <4>1, <4>2, <4>3
    <3>2. \A o, q \in wire'[r] : o = q
      BY <2>2
    <3>3. cap'[r].op = "frame" /\ cap'[r].info # "none" /\ Indexed(r)' = {}
      BY <2>2, <2>4 DEF Caps
    <3>. QED  BY <3>1, <3>2, <3>3
  <2>. HIDE DEF chain
  <2>6. SealedOnce(r)' /\ WriterKnows(r)' /\ ClientFollows(r)'
    BY <2>2, <2>4 DEF Caps
  <2>. QED  BY <2>5, <2>6
<1>6. CASE FrameRejected(r)
  BY <1>6 DEF FrameRejected, Abort, Finish, Caps
<1>7. CASE \E o \in Faults : StreamFault(r, o)
  BY <1>7 DEF StreamFault, Abort, Finish, Caps
<1>8. CASE FrameAck(r)
  <2>1. PICK t \in Texts : /\ Append(cap[r].frames, t) = Longest(r) /\ cap[r].frames \in Seq(Texts)
                          /\ \A o \in wire[r] : o.chain = Longest(r)
    BY <1>8, FrameAckText
  <2>. DEFINE c == [cap[r] EXCEPT !.op = "idle", !.frames = Longest(r)]
  <2>2. PICK o \in wire[r] :
          \/ /\ c.info = "json" /\ UNCHANGED client
             /\ cap' = [cap EXCEPT ![r] = [Finish(c, "upstream_end") EXCEPT !.phase = "committing"]]
          \/ /\ c.info = "sse" /\ Writable(r)
             /\ cap' = [cap EXCEPT ![r] = c]
             /\ client' = [client EXCEPT ![r].reply = "streaming", ![r].sent = Longest(r)]
          \/ /\ c.info = "sse" /\ ~Writable(r) /\ UNCHANGED client
             /\ cap' = [cap EXCEPT ![r] = Abort(c, "upstream_error", client[r].gone)]
    BY <1>8, <2>1 DEF FrameAck
  <2>3. wire'[r] = {} /\ cap[r].phase = "delivering" /\ cap[r].res = "pending" /\ ~cap[r].uncertain
    BY <1>8 DEF FrameAck
  <2>4. /\ c \in Caps /\ c.op = "idle" /\ c.frames = Longest(r) /\ c.phase = "delivering"
        /\ c.res = "pending" /\ ~c.uncertain /\ c.info = cap[r].info /\ c.fin = cap[r].fin
    <3>1. Longest(r) \in Seq(Texts)  BY DEF IsText
    <3>. QED  BY <2>3, <3>1 DEF Caps, Ops
  <2>. HIDE DEF c
  <2>f. /\ LET d == [Finish(c, "upstream_end") EXCEPT !.phase = "committing"]
           IN /\ d.phase = "committing" /\ d.op = "idle" /\ d.frames = Longest(r) /\ d.res = "pending"
              /\ d.info = cap[r].info /\ ~d.uncertain
              /\ d.fin = IF cap[r].fin = "open" THEN "upstream_end" ELSE cap[r].fin
        /\ LET e == Abort(c, "upstream_error", client[r].gone)
           IN /\ e.phase = "failing" /\ e.op = "idle" /\ e.frames = Longest(r) /\ e.res = "pending"
              /\ e.info = cap[r].info /\ ~e.uncertain
              /\ e.fin = IF cap[r].fin # "open" THEN cap[r].fin
                         ELSE IF client[r].gone THEN "client_disconnect" ELSE "upstream_error"
    <3>1. client[r].gone \in BOOLEAN /\ "upstream_end" \in Outcomes /\ "upstream_error" \in Outcomes
      BY DEF Clients, Outcomes
    <3>. QED  BY <2>4, <3>1, FinishFacts
  <2>5. \/ /\ c.info = "json" /\ client'[r] = client[r]
           /\ cap'[r] = [Finish(c, "upstream_end") EXCEPT !.phase = "committing"]
        \/ /\ c.info = "sse" /\ Writable(r) /\ cap'[r] = c
           /\ client'[r] = [client[r] EXCEPT !.reply = "streaming", !.sent = Longest(r)]
        \/ /\ c.info = "sse" /\ client'[r] = client[r]
           /\ cap'[r] = Abort(c, "upstream_error", client[r].gone)
    BY <2>2
  <2>6. /\ cap'[r].op = "idle" /\ cap'[r].frames = Longest(r) /\ cap'[r].res = "pending"
        /\ ~cap'[r].uncertain /\ cap'[r].info = cap[r].info
        /\ cap[r].fin # "open" => cap'[r].fin = cap[r].fin
        /\ \/ /\ cap'[r].phase = "committing" /\ cap'[r].info = "json" /\ client'[r] = client[r]
              /\ cap'[r].fin = IF cap[r].fin = "open" THEN "upstream_end" ELSE cap[r].fin
           \/ /\ cap'[r].phase = "delivering" /\ cap'[r].info = "sse" /\ Writable(r)
              /\ client'[r] = [client[r] EXCEPT !.reply = "streaming", !.sent = Longest(r)]
              /\ cap'[r].fin = cap[r].fin
           \/ /\ cap'[r].phase = "failing" /\ cap'[r].info = "sse" /\ client'[r] = client[r]
    BY ONLY <2>4, <2>5, <2>f, ZenonT(60)
  <2>7. NextInLine(r)' /\ SealedOnce(r)' /\ WriterKnows(r)'
    BY <2>3, <2>6
  <2>8. ClientFollows(r)'
    BY <2>3, <2>6 DEF Clients
  <2>. QED  BY <2>7, <2>8
<1>9. CASE StreamEnd(r)
  BY <1>9 DEF StreamEnd, Finish, Caps
<1>10. CASE CommitDone(r)
  BY <1>10 DEF CommitDone, Caps, Clients
<1>11. CASE FailDone(r)
  BY <1>11 DEF FailDone, ErrorReply, ErrorOrDestroy, Caps, Clients
<1>. QED  BY <1>1, <1>2, <1>3, <1>4, <1>5, <1>6, <1>7, <1>8, <1>9, <1>10, <1>11 DEF Deliver

\* What a record and its index say.
LEMMA RecordSays ==
    ASSUME NEW c
    PROVE  /\ MyRecord(c).kind = "record" /\ MyRecord(c).outcome = c.fin /\ MyRecord(c).chain = c.frames
           /\ Index(MyRecord(c)).kind = "index" /\ Index(MyRecord(c)).contentHash = MyRecord(c)
<1>. DEFINE done == c.fin = "upstream_end" /\ Terminal(c.info, c.frames) /\ ~c.truncated
<1>1. MyRecord(c) = [kind |-> "record", outcome |-> c.fin, format |-> c.info, chain |-> c.frames,
                    truncated |-> c.truncated, recovered |-> FALSE, complete |-> done]
  BY SMTT(60) DEF MyRecord, Record
<1>. HIDE DEF done
<1>. QED  BY <1>1 DEF Index

\* The steps of finish(), and a disconnect.
LEMMA CompleteEntry ==
    ASSUME TypeOK, NEW r \in Requests, Local(r), Entry(r), Complete(r) \/ Disconnect(r)
    PROVE  Entry(r)'
<1>. /\ cap[r] \in Caps /\ client[r] \in Clients
     /\ cap \in [Requests -> Caps] /\ client \in [Requests -> Clients]
     /\ wire \in [Requests -> SUBSET Blobs]
  BY DEF TypeOK
<1>. /\ store'[r] = store[r] /\ Framed(r)' = Framed(r) /\ Longest(r)' = Longest(r)
     /\ Indexed(r)' = Indexed(r) /\ Opened(r)' = Opened(r)
  <2>1. store'[r] = store[r]
    BY DEF Complete, FinishStart, FinishFalse, EndAck, RecordAck, IndexAck, Disconnect
  <2>. QED  BY <2>1, SameStore
<1>. USE DEF Local, PutInPhase, IntentDurable, Finishing, Begun,
             Entry, OneText, NextInLine, SealedOnce, WriterKnows, Known, Uncertain, ClientFollows, Writable, Early
<1>1. CASE FinishStart(r)
  BY <1>1 DEF FinishStart, Caps, MyEnd, End
<1>2. CASE FinishFalse(r)
  BY <1>2 DEF FinishFalse, Caps
<1>3. CASE EndAck(r)
  <2>1. /\ cap'[r] = [cap[r] EXCEPT !.op = "record"] /\ cap[r].op = "end" /\ client'[r] = client[r]
        /\ wire'[r] = {MyRecord(cap[r])}
    BY <1>3 DEF EndAck
  <2>2. \A o \in wire'[r] : o.kind = "record"
    BY ONLY <2>1, RecordSays, ZenonT(60)
  <2>3. NextInLine(r)'
    BY <2>1, <2>2
  <2>4. SealedOnce(r)' /\ WriterKnows(r)' /\ ClientFollows(r)'
    BY <2>1 DEF Caps
  <2>. QED  BY <2>3, <2>4
<1>4. CASE RecordAck(r)
  <2>1. /\ cap'[r] = [cap[r] EXCEPT !.op = "index"] /\ cap[r].op = "record" /\ client'[r] = client[r]
        /\ wire'[r] = {Index(MyRecord(cap[r]))}
    BY <1>4 DEF RecordAck
  <2>2. /\ cap[r].frames = Longest(r) /\ cap[r].fin # "open" /\ cap[r].fin \in Outcomes /\ Opened(r)
    BY <2>1 DEF Caps, Opened
  <2>3. \A o \in wire'[r] : /\ o.kind = "index" /\ o.contentHash.chain = cap[r].frames
                            /\ o.contentHash.outcome = cap[r].fin
    <3>. DEFINE x == MyRecord(cap[r])
    <3>1. x.chain = cap[r].frames /\ x.outcome = cap[r].fin /\ Index(x).kind = "index" /\ Index(x).contentHash = x
      BY RecordSays
    <3>2. \A o \in wire'[r] : o = Index(x)
      BY <2>1
    <3>. HIDE DEF x
    <3>. QED  BY ONLY <3>1, <3>2
  <2>4. NextInLine(r)' /\ SealedOnce(r)'
    BY <2>1, <2>2, <2>3 DEF Caps
  <2>5. WriterKnows(r)' /\ ClientFollows(r)'
    BY <2>1 DEF Caps
  <2>. QED  BY <2>4, <2>5
<1>5. CASE IndexAck(r)
  BY <1>5 DEF IndexAck, Caps, Acked, Indexed
<1>6. CASE Disconnect(r)
  BY <1>6 DEF Disconnect, Finish, Caps, Clients
<1>. QED  BY <1>1, <1>2, <1>3, <1>4, <1>5, <1>6 DEF Complete

\* A crash loses memory and connections, never what is stored or under way.
LEMMA CrashEntry ==
    ASSUME TypeOK, NEW r \in Requests, Local(r), Entry(r), Crash
    PROVE  Entry(r)'
<1>. /\ cap[r] \in Caps /\ client[r] \in Clients
     /\ cap \in [Requests -> Caps] /\ client \in [Requests -> Clients]
  BY DEF TypeOK
<1>1. store'[r] = store[r] /\ wire'[r] = wire[r]
  BY DEF Crash
<1>2. CASE cap[r].phase \in Over
  <2>1. cap'[r] = cap[r] /\ client'[r] = client[r]  BY <1>2 DEF Crash
  <2>. QED  BY <1>1, <2>1, EntryUndisturbed
<1>3. CASE cap[r].phase \notin Over
  <2>1. /\ Framed(r)' = Framed(r) /\ Longest(r)' = Longest(r)
        /\ Indexed(r)' = Indexed(r) /\ Opened(r)' = Opened(r)
    BY <1>1, SameStore
  <2>2. /\ cap'[r].phase = "lost" /\ cap'[r].op = "idle" /\ cap'[r].fin = cap[r].fin /\ cap'[r].res = cap[r].res
        /\ cap'[r].info = cap[r].info /\ cap'[r].uncertain = cap[r].uncertain
        /\ client'[r].sent = client[r].sent /\ client'[r].reply = client[r].reply
    BY <1>3 DEF Crash, Caps, Clients
  <2>. QED  BY <1>1, <1>3, <2>1, <2>2
            DEF Entry, OneText, NextInLine, SealedOnce, WriterKnows, Known, Uncertain, ClientFollows, Early, Over
<1>. QED  BY <1>2, <1>3

-----------------------------------------------------------------------------
(* What lands in the store: the next frame, the seal, or nothing of the ledger. *)

Lands(r, o) == o \in wire[r] /\ (\A b \in store[r] : ~SameName(b, o)) /\ store'[r] = store[r] \cup {o}

FrameLands(r) == \E t \in Texts :
    /\ Longest(r)' = Append(Longest(r), t) /\ OneText(r)' /\ Frame(Longest(r)') \in wire[r]
    /\ Indexed(r)' = Indexed(r) /\ Indexed(r) = {} /\ cap[r].info # "none"
    /\ cap[r].op = "frame" \/ Uncertain(r)
    /\ Opened(r)' <=> Opened(r)

IndexLands(r) == \E o \in wire[r] :
    /\ o.kind = "index" /\ Indexed(r) = {} /\ Indexed(r)' = {o}
    /\ Framed(r)' = Framed(r) /\ Longest(r)' = Longest(r)

OtherLands(r) == Framed(r)' = Framed(r) /\ Longest(r)' = Longest(r) /\ Indexed(r)' = Indexed(r)

LEMMA LandFrame ==
    ASSUME TypeOK, NEW r \in Requests, Entry(r), NEW o, Lands(r, o), o.kind = "frame"
    PROVE  FrameLands(r)
<1>1. /\ o = Frame(o.chain) /\ o.chain # << >> /\ Indexed(r) = {} /\ cap[r].info # "none"
      /\ o.chain = Longest(r) \/ \E t \in Texts : o.chain = Append(Longest(r), t)
      /\ cap[r].op = "frame" \/ Uncertain(r)
  BY DEF Lands, Entry, NextInLine
<1>2. o.chain # Longest(r)
  <2>. SUFFICES ASSUME o.chain = Longest(r) PROVE FALSE  OBVIOUS
  <2>1. o.chain \in Framed(r)
    BY <1>1 DEF Entry, OneText, IsText
  <2>2. PICK b \in store[r] : b.kind = "frame" /\ b.chain = o.chain
    BY <2>1 DEF Framed
  <2>. QED  BY <2>2 DEF Lands, SameName
<1>3. PICK t \in Texts : o.chain = Append(Longest(r), t)
  BY <1>1, <1>2
<1>4. Framed(r)' = Framed(r) \cup {o.chain}
  BY DEF Lands, Framed
<1>5. IsText(Framed(r)', o.chain)
  BY <1>3, <1>4, TextGrows DEF Entry, OneText
<1>6. Longest(r)' = o.chain
  <2>1. LongestOf(Framed(r)') = o.chain
    BY <1>5, LongestIsText
  <2>. QED  BY <2>1 DEF LongestOf, Longest
<1>7. Indexed(r)' = Indexed(r)
  BY DEF Lands, Indexed
<1>8. Opened(r)' <=> Opened(r)
  BY DEF Lands, Opened, Pending, Request
<1>. QED  BY <1>1, <1>3, <1>5, <1>6, <1>7, <1>8 DEF FrameLands, OneText, Lands

LEMMA LandIndex ==
    ASSUME TypeOK, NEW r \in Requests, Entry(r), NEW o, Lands(r, o), o.kind = "index"
    PROVE  IndexLands(r)
<1>1. Indexed(r) = {}
  BY DEF Indexed, Lands, SameName
<1>2. Indexed(r)' = {o}
  BY <1>1 DEF Indexed, Lands
<1>3. Framed(r)' = Framed(r)
  BY DEF Framed, Lands
<1>4. Longest(r)' = Longest(r)
  BY <1>3 DEF Longest
<1>. QED  BY <1>1, <1>2, <1>3, <1>4 DEF IndexLands, Lands

LEMMA LandOther ==
    ASSUME TypeOK, NEW r \in Requests, Entry(r), NEW o, Lands(r, o), o.kind \notin {"frame", "index"}
    PROVE  OtherLands(r)
<1>1. Framed(r)' = Framed(r) /\ Indexed(r)' = Indexed(r)
  BY DEF Framed, Indexed, Lands
<1>2. Longest(r)' = Longest(r)
  BY <1>1 DEF Longest
<1>. QED  BY <1>1, <1>2 DEF OtherLands

LEMMA LandCases ==
    ASSUME TypeOK, NEW r \in Requests, Entry(r), Land(r)
    PROVE  /\ FrameLands(r) \/ IndexLands(r) \/ OtherLands(r)
           /\ store[r] \subseteq store'[r] /\ UNCHANGED <<wire, cap, client>>
<1>1. PICK o \in wire[r] : /\ \A b \in store[r] : ~SameName(b, o)
                           /\ store' = [store EXCEPT ![r] = @ \cup {o}]
                           /\ UNCHANGED <<wire, cap, client>>
  BY DEF Land
<1>2. Lands(r, o) /\ store[r] \subseteq store'[r]
  BY <1>1 DEF Lands, TypeOK
<1>. QED  BY <1>1, <1>2, LandFrame, LandIndex, LandOther

\* A put that lands keeps the invariant, however late.
LEMMA LandEntry ==
    ASSUME TypeOK, NEW r \in Requests, Local(r), Entry(r), Land(r)
    PROVE  Entry(r)'
<1>1. store[r] \subseteq store'[r] /\ UNCHANGED <<wire, cap, client>>
  BY LandCases
<1>2. Opened(r) => Opened(r)'
  BY <1>1 DEF Opened
<1>. USE DEF Entry, OneText, NextInLine, SealedOnce, WriterKnows, Known, Uncertain, ClientFollows, Writable, Early
<1>3. CASE FrameLands(r)
  <2>1. PICK t \in Texts :
          /\ Longest(r)' = Append(Longest(r), t) /\ IsText(Framed(r)', Longest(r)')
          /\ Frame(Longest(r)') \in wire[r] /\ Indexed(r)' = {} /\ cap[r].info # "none" /\ Indexed(r) = {}
          /\ cap[r].op = "frame" \/ Uncertain(r)
    BY <1>3 DEF FrameLands
  <2>2. \A o \in wire[r] : o = Frame(Longest(r)') /\ o.chain = Longest(r)' /\ o.kind = "frame"
    BY <2>1 DEF Frame
  <2>3. NextInLine(r)'
    BY <1>1, <2>1, <2>2
  <2>4. SealedOnce(r)' /\ WriterKnows(r)'
    BY <1>1, <2>1, <2>2
  <2>5. ClientFollows(r)'
    BY <1>1, <2>1, <2>2
  <2>. QED  BY <2>1, <2>3, <2>4, <2>5
<1>4. CASE IndexLands(r)
  <2>1. PICK o \in wire[r] :
          /\ o.kind = "index" /\ Indexed(r) = {} /\ Indexed(r)' = {o}
          /\ Framed(r)' = Framed(r) /\ Longest(r)' = Longest(r)
    BY <1>4 DEF IndexLands
  <2>2. \A p \in wire[r] : p = o /\ p.kind # "frame"
    BY <2>1
  <2>3. NextInLine(r)' /\ SealedOnce(r)'
    BY <1>1, <1>2, <2>1, <2>2
  <2>4. WriterKnows(r)' /\ ClientFollows(r)'
    BY <1>1, <2>1
  <2>. QED  BY <2>1, <2>3, <2>4
<1>5. CASE OtherLands(r)
  BY <1>1, <1>2, <1>5 DEF OtherLands
<1>. QED  BY <1>3, <1>4, <1>5, LandCases

-----------------------------------------------------------------------------
(* The invariant holds throughout. *)

LEMMA InitEntry == Init => LedgerInv
<1>. SUFFICES ASSUME Init PROVE LedgerInv  OBVIOUS
<1>1. ASSUME NEW r \in Requests PROVE Entry(r)
  <2>1. /\ cap[r] = NewCap /\ client[r] = NewClient /\ wire[r] = {} /\ store[r] = {}
    BY DEF Init
  <2>2. Framed(r) = {} /\ Indexed(r) = {}
    BY <2>1 DEF Framed, Indexed
  <2>3. IsText({}, << >>)
    BY DEF IsText
  <2>4. Longest(r) = << >>
    <3>1. LongestOf(Framed(r)) = << >>  BY <2>2, <2>3, LongestIsText
    <3>. QED  BY <3>1 DEF LongestOf, Longest
  <2>. QED  BY <2>1, <2>2, <2>3, <2>4
            DEF Entry, OneText, NextInLine, SealedOnce, WriterKnows, Known, Uncertain, ClientFollows, Early,
                NewCap, NewClient
<1>. QED  BY <1>1, InitIInv DEF LedgerInv

LEMMA NextEntry == LedgerInv /\ [Next]_vars => LedgerInv'
<1>. SUFFICES ASSUME LedgerInv, [Next]_vars PROVE LedgerInv'  OBVIOUS
<1>0. IInv' /\ TypeOK /\ \A q \in Requests : Local(q) /\ Entry(q)
  BY NextIInv DEF LedgerInv, IInv
<1>1. ASSUME NEW r \in Requests, Step(r), NEW q \in Requests PROVE Entry(q)'
  <2>1. CASE q = r
    BY <1>0, <1>1, <2>1, HandleEntry, DeliverEntry, CompleteEntry, LandEntry DEF Step
  <2>2. CASE q # r
    BY <1>0, <1>1, <2>2, StepFrame, EntryUndisturbed
  <2>. QED  BY <2>1, <2>2
<1>2. ASSUME Crash, NEW q \in Requests PROVE Entry(q)'
  BY <1>0, <1>2, CrashEntry
<1>3. ASSUME CoolDown \/ Restart \/ UNCHANGED vars, NEW q \in Requests PROVE Entry(q)'
  <2>1. UNCHANGED <<store, wire, cap, client>>  BY <1>3 DEF CoolDown, Restart, vars
  <2>. QED  BY <1>0, <2>1, EntryUndisturbed
<1>. QED  BY <1>0, <1>1, <1>2, <1>3 DEF LedgerInv, Next, Step

-----------------------------------------------------------------------------
(* Every step is one of the ledger. *)

Ended(r)    == client[r].reply = "ended"
Answered(r) == cap[r].info # "none"

\* What the ledger says of a request, piece by piece.
SameOpened(q)  == Opened(q)' <=> Opened(q)
SameAnswer(q)  == Answered(q)' <=> Answered(q)
SameWritten(q) == Longest(q)' = Longest(q)
SameShown(q)   == Shown(q)' = Shown(q)
SameSeal(q)    == Verdicts(q)' = Verdicts(q)
SameEnd(q)     == Ended(q)' <=> Ended(q)

Same(q) == SameOpened(q) /\ SameAnswer(q) /\ SameWritten(q) /\ SameShown(q) /\ SameSeal(q) /\ SameEnd(q)

LEMMA Stutters ==
    ASSUME \A q \in Requests : Same(q)
    PROVE  UNCHANGED Ledger!ledger
  BY DEF Ledger!ledger, Same, SameOpened, SameAnswer, SameWritten, SameShown, SameSeal, SameEnd,
         Opened, Answered, Ended

LEMMA Opens ==
    ASSUME NEW r \in Requests, \A q \in Requests \ {r} : Same(q), Opened(r)',
           SameAnswer(r), SameWritten(r), SameShown(r), SameSeal(r), SameEnd(r)
    PROVE  Ledger!Next
<1>1. Ledger!Open(r)
  BY DEF Ledger!Open, Same, SameOpened, SameAnswer, SameWritten, SameShown, SameSeal, SameEnd,
         Opened, Answered, Ended
<1>. QED  BY <1>1 DEF Ledger!Next

LEMMA Answers ==
    ASSUME NEW r \in Requests, \A q \in Requests \ {r} : Same(q), Opened(r), Answered(r)',
           SameOpened(r), SameWritten(r), SameShown(r), SameSeal(r), SameEnd(r)
    PROVE  Ledger!Next
<1>1. Ledger!Answer(r)
  BY DEF Ledger!Answer, Same, SameOpened, SameAnswer, SameWritten, SameShown, SameSeal, SameEnd,
         Opened, Answered, Ended
<1>. QED  BY <1>1 DEF Ledger!Next

LEMMA Writes ==
    ASSUME NEW r \in Requests, \A q \in Requests \ {r} : Same(q), NEW t \in Texts,
           Answered(r), Verdicts(r) = {}, Longest(r)' = Append(Longest(r), t),
           SameOpened(r), SameAnswer(r), SameShown(r), SameSeal(r), SameEnd(r)
    PROVE  Ledger!Next
<1>1. Ledger!Write(r, t)
  BY DEF Ledger!Write, Same, SameOpened, SameAnswer, SameWritten, SameShown, SameSeal, SameEnd,
         Opened, Answered, Ended
<1>. QED  BY <1>1 DEF Ledger!Next

LEMMA Shows ==
    ASSUME NEW r \in Requests, \A q \in Requests \ {r} : Same(q), ~Ended(r),
           Len(Shown(r)) < Len(Longest(r)), Shown(r)' = SubSeq(Longest(r), 1, Len(Shown(r)) + 1),
           SameOpened(r), SameAnswer(r), SameWritten(r), SameSeal(r), SameEnd(r)
    PROVE  Ledger!Next
<1>1. Ledger!Show(r)
  BY DEF Ledger!Show, Same, SameOpened, SameAnswer, SameWritten, SameShown, SameSeal, SameEnd,
         Opened, Answered, Ended
<1>. QED  BY <1>1 DEF Ledger!Next

LEMMA Seals ==
    ASSUME NEW r \in Requests, \A q \in Requests \ {r} : Same(q), NEW o \in Outcomes,
           Opened(r), Verdicts(r) = {}, Verdicts(r)' = {[outcome |-> o, chain |-> Longest(r)]},
           SameOpened(r), SameAnswer(r), SameWritten(r), SameShown(r), SameEnd(r)
    PROVE  Ledger!Next
<1>1. Ledger!Seal(r, o)
  BY DEF Ledger!Seal, Same, SameOpened, SameAnswer, SameWritten, SameShown, SameSeal, SameEnd,
         Opened, Answered, Ended
<1>. QED  BY <1>1 DEF Ledger!Next

LEMMA Ends ==
    ASSUME NEW r \in Requests, \A q \in Requests \ {r} : Same(q), ~Ended(r), Ended(r)',
           NEW v \in Verdicts(r), v.outcome = "upstream_end", Shown(r)' = v.chain,
           SameOpened(r), SameAnswer(r), SameWritten(r), SameSeal(r)
    PROVE  Ledger!Next
<1>1. Ledger!CleanEnd(r)
  BY DEF Ledger!CleanEnd, Same, SameOpened, SameAnswer, SameWritten, SameShown, SameSeal, SameEnd,
         Opened, Answered, Ended
<1>. QED  BY <1>1 DEF Ledger!Next

\* Nothing changes for a request whose blobs, format, client's text and end stay.
LEMMA SameUnlessTouched ==
    ASSUME NEW q \in Requests, store'[q] = store[q], cap'[q].info = cap[q].info,
           client'[q].sent = client[q].sent, Ended(q)' <=> Ended(q)
    PROVE  Same(q)
<1>1. Shown(q)' = Shown(q)
  BY SameStore DEF Shown, Ended
<1>. QED  BY <1>1, SameStore DEF Same, SameOpened, SameAnswer, SameWritten, SameShown, SameSeal, SameEnd, Answered

\* finish() leaves the format of a response alone.
LEMMA FinishInfo ==
    ASSUME NEW c \in Caps, NEW o, NEW g, NEW p, NEW x
    PROVE  /\ Finish(c, o).info = c.info /\ Abort(c, o, g).info = c.info
           /\ [Finish(c, o) EXCEPT !.phase = p].info = c.info
           /\ [Finish(c, o) EXCEPT !.phase = p, !.op = x].info = c.info
           /\ [Abort(c, o, g) EXCEPT !.op = p, !.uncertain = x].info = c.info
           /\ [Abort(c, o, g) EXCEPT !.truncated = x].info = c.info
  BY DEF Finish, Abort, Caps

LEMMA HandleMaps ==
    ASSUME TypeOK, NEW r \in Requests, Local(r), Entry(r), Handle(r)
    PROVE  Same(r)
<1>. /\ cap[r] \in Caps /\ client[r] \in Clients
     /\ cap \in [Requests -> Caps] /\ client \in [Requests -> Clients]
  BY DEF TypeOK
<1>1. /\ store'[r] = store[r] /\ cap'[r].info = cap[r].info
      /\ client'[r] \in {client[r], ErrorReply(client[r]), ErrorOrDestroy(client[r])}
  <2>1. CASE BeginRefused(r)  BY <2>1 DEF BeginRefused, Caps
  <2>2. CASE Begin(r)  BY <2>2 DEF Begin, Caps
  <2>3. CASE IntentAck(r)  BY <2>3 DEF IntentAck, Caps
  <2>4. CASE RequestAck(r)
    <3>1. /\ UNCHANGED <<store, client>>
          /\ \/ cap'[r] = [Finish(cap[r], "client_disconnect") EXCEPT !.phase = "abandoned", !.op = "idle"]
             \/ cap'[r] = [cap[r] EXCEPT !.phase = "admitted", !.op = "idle"]
      BY <2>4 DEF RequestAck
    <3>2. [Finish(cap[r], "client_disconnect") EXCEPT !.phase = "abandoned", !.op = "idle"].info = cap[r].info
      BY FinishInfo
    <3>3. [cap[r] EXCEPT !.phase = "admitted", !.op = "idle"].info = cap[r].info
      BY DEF Caps
    <3>. QED  BY ONLY <3>1, <3>2, <3>3
  <2>5. CASE BeginFail(r)  BY <2>5 DEF BeginFail, Caps
  <2>6. CASE Forward(r)  BY <2>6 DEF Forward, Caps
  <2>7. CASE \E o \in Denials : Reject(r, o)  BY <2>7, FinishInfo DEF Reject
  <2>8. CASE ProxyError(r)  BY <2>8, FinishInfo DEF ProxyError
  <2>. QED  BY <2>1, <2>2, <2>3, <2>4, <2>5, <2>6, <2>7, <2>8 DEF Handle
<1>2. client'[r].sent = client[r].sent /\ (Ended(r)' <=> Ended(r))
  BY <1>1 DEF ErrorReply, ErrorOrDestroy, Ended, Clients
<1>. QED  BY <1>1, <1>2, SameUnlessTouched

LEMMA CompleteMaps ==
    ASSUME TypeOK, NEW r \in Requests, Complete(r) \/ Disconnect(r)
    PROVE  Same(r)
<1>. /\ cap[r] \in Caps /\ client[r] \in Clients
     /\ cap \in [Requests -> Caps] /\ client \in [Requests -> Clients]
  BY DEF TypeOK
<1>1. /\ store'[r] = store[r] /\ cap'[r].info = cap[r].info
      /\ client'[r].sent = client[r].sent /\ client'[r].reply = client[r].reply
  <2>1. CASE Disconnect(r)  BY <2>1, FinishInfo DEF Disconnect, Clients
  <2>2. CASE FinishStart(r)  BY <2>2 DEF FinishStart, Caps
  <2>3. CASE FinishFalse(r)  BY <2>3 DEF FinishFalse, Caps
  <2>4. CASE EndAck(r)  BY <2>4 DEF EndAck, Caps
  <2>5. CASE RecordAck(r)  BY <2>5 DEF RecordAck, Caps
  <2>6. CASE IndexAck(r)  BY <2>6 DEF IndexAck, Caps
  <2>. QED  BY <2>1, <2>2, <2>3, <2>4, <2>5, <2>6 DEF Complete
<1>. QED  BY <1>1, SameUnlessTouched DEF Ended

\* A stream's frame is shown when it is acknowledged, and only then.
LEMMA FrameAckMaps ==
    ASSUME TypeOK, NEW r \in Requests, Local(r), Entry(r), FrameAck(r), \A q \in Requests \ {r} : Same(q)
    PROVE  Ledger!Next \/ Same(r)
<1>. /\ cap[r] \in Caps /\ client[r] \in Clients
     /\ cap \in [Requests -> Caps] /\ client \in [Requests -> Clients]
  BY DEF TypeOK
<1>1. PICK t \in Texts : /\ Append(cap[r].frames, t) = Longest(r) /\ cap[r].frames \in Seq(Texts)
                        /\ \A o \in wire[r] : o.chain = Longest(r)
  BY FrameAckText
<1>2. /\ cap[r].phase = "delivering" /\ cap[r].op = "frame" /\ store' = store
      /\ cap'[r].info = cap[r].info
      /\ \/ client'[r] = client[r]
         \/ /\ cap[r].info = "sse" /\ Writable(r)
            /\ client'[r] = [client[r] EXCEPT !.reply = "streaming", !.sent = Longest(r)]
  <2>. DEFINE c == [cap[r] EXCEPT !.op = "idle", !.frames = Longest(r)]
  <2>1. c \in Caps /\ c.info = cap[r].info
    BY DEF Entry, OneText, IsText, Caps, Ops
  <2>. HIDE DEF c
  <2>2. \/ /\ client'[r] = client[r]
           /\ cap'[r] = [Finish(c, "upstream_end") EXCEPT !.phase = "committing"]
        \/ /\ c.info = "sse" /\ Writable(r) /\ cap'[r] = c
           /\ client'[r] = [client[r] EXCEPT !.reply = "streaming", !.sent = Longest(r)]
        \/ /\ client'[r] = client[r]
           /\ cap'[r] = Abort(c, "upstream_error", client[r].gone)
    BY <1>1 DEF FrameAck, Writable, c
  <2>3. cap'[r].info = cap[r].info
    <3>1. /\ [Finish(c, "upstream_end") EXCEPT !.phase = "committing"].info = c.info
          /\ Abort(c, "upstream_error", client[r].gone).info = c.info
      BY <2>1, FinishInfo
    <3>. QED  BY ONLY <2>1, <2>2, <3>1
  <2>4. cap[r].phase = "delivering" /\ cap[r].op = "frame" /\ store' = store
    BY DEF FrameAck, Local, PutInPhase
  <2>. QED  BY <2>1, <2>2, <2>3, <2>4
<1>3. ~Ended(r)
  BY <1>2 DEF Ended, Entry, ClientFollows
<1>4. CASE client'[r] = client[r]
  BY <1>2, <1>4, SameUnlessTouched DEF Ended
<1>5. CASE /\ cap[r].info = "sse" /\ Writable(r)
           /\ client'[r] = [client[r] EXCEPT !.reply = "streaming", !.sent = Longest(r)]
  <2>1. client[r].sent = cap[r].frames
    BY <1>2, <1>5 DEF Entry, ClientFollows
  <2>2. Shown(r) = cap[r].frames /\ Shown(r)' = Longest(r) /\ ~Ended(r)'
    BY <1>2, <1>3, <1>5, <2>1 DEF Shown, Ended, Clients
  <2>3. /\ Len(cap[r].frames) < Len(Longest(r))
        /\ Longest(r) = SubSeq(Longest(r), 1, Len(cap[r].frames) + 1)
    BY <1>1
  <2>4. SameOpened(r) /\ SameAnswer(r) /\ SameWritten(r) /\ SameSeal(r) /\ SameEnd(r)
    BY <1>2, <1>3, <2>2, SameStore DEF SameOpened, SameAnswer, SameWritten, SameSeal, SameEnd, Answered
  <2>. QED  BY <1>3, <2>2, <2>3, <2>4, Shows
<1>. QED  BY <1>2, <1>4, <1>5

\* The end is clean only over a sealed entry whose text the client has.
LEMMA CommitMaps ==
    ASSUME TypeOK, NEW r \in Requests, Local(r), Entry(r), CommitDone(r), \A q \in Requests \ {r} : Same(q)
    PROVE  Ledger!Next \/ Same(r)
<1>. /\ cap[r] \in Caps /\ client[r] \in Clients
     /\ cap \in [Requests -> Caps] /\ client \in [Requests -> Clients]
  BY DEF TypeOK
<1>1. /\ cap[r].phase = "committing" /\ cap[r].res = "true" /\ store' = store /\ cap'[r].info = cap[r].info
      /\ client'[r] = IF client[r].gone \/ client[r].reply = "error" THEN client[r]
                      ELSE [client[r] EXCEPT !.reply = "ended"]
  BY DEF CommitDone, Caps
<1>2. ~Ended(r)
  BY <1>1 DEF Ended, Entry, ClientFollows
<1>3. CASE client[r].gone \/ client[r].reply = "error"
  BY <1>1, <1>3, SameUnlessTouched DEF Ended
<1>4. CASE ~client[r].gone /\ client[r].reply # "error"
  <2>1. Writable(r) /\ cap[r].fin = "upstream_end" /\ cap[r].op # "frame"
    BY <1>1, <1>2, <1>4 DEF Writable, Clients, Ended, Entry, ClientFollows, Local, PutInPhase
  <2>2. PICK x \in Indexed(r) : x.contentHash.outcome = "upstream_end" /\ x.contentHash.chain = Longest(r)
    BY <1>1, <2>1 DEF Entry, SealedOnce
  <2>. DEFINE v == [outcome |-> x.contentHash.outcome, chain |-> x.contentHash.chain]
  <2>3. v \in Verdicts(r) /\ v.outcome = "upstream_end" /\ v.chain = Longest(r)
    BY <2>2 DEF Verdicts, Indexed
  <2>4. Ended(r)' /\ client'[r].sent = client[r].sent
    BY <1>1, <1>4 DEF Ended, Clients
  <2>5. Shown(r)' = Longest(r)
    <3>1. Longest(r)' = Longest(r)  BY <1>1, SameStore
    <3>2. cap[r].info # "json" => client[r].sent = Longest(r)
      BY <1>1, <2>1 DEF Entry, ClientFollows
    <3>. QED  BY <1>1, <2>4, <3>1, <3>2 DEF Shown, Ended
  <2>6. SameOpened(r) /\ SameAnswer(r) /\ SameWritten(r) /\ SameSeal(r)
    BY <1>1, SameStore DEF SameOpened, SameAnswer, SameWritten, SameSeal, Answered
  <2>. QED  BY <1>2, <2>3, <2>4, <2>5, <2>6, Ends
<1>. QED  BY <1>3, <1>4

LEMMA DeliverMaps ==
    ASSUME TypeOK, NEW r \in Requests, Local(r), Entry(r), Deliver(r), \A q \in Requests \ {r} : Same(q)
    PROVE  Ledger!Next \/ Same(r)
<1>. /\ cap[r] \in Caps /\ client[r] \in Clients
     /\ cap \in [Requests -> Caps] /\ client \in [Requests -> Clients]
  BY DEF TypeOK
<1>1. CASE \E f \in Formats : Respond(r, f)
  <2>1. PICK f \in Formats : cap'[r].info = f /\ cap[r].phase = "forwarded" /\ UNCHANGED <<store, client>>
    BY <1>1 DEF Respond, Caps
  <2>2. Opened(r) /\ ~Ended(r)
    BY <2>1 DEF Opened, Ended, Local, IntentDurable, Begun, Entry, ClientFollows
  <2>3. Answered(r)' /\ Shown(r)' = Shown(r)
    BY <2>1, <2>2 DEF Answered, Shown, Ended, Formats
  <2>4. SameOpened(r) /\ SameWritten(r) /\ SameShown(r) /\ SameSeal(r) /\ SameEnd(r)
    BY <2>1, <2>3, SameStore DEF SameOpened, SameWritten, SameShown, SameSeal, SameEnd, Ended
  <2>. QED  BY <2>2, <2>3, <2>4, Answers
<1>2. CASE FrameAck(r)
  BY <1>2, FrameAckMaps
<1>3. CASE CommitDone(r)
  BY <1>3, CommitMaps
<1>4. CASE \/ RespondRejected(r) \/ HeaderAck(r) \/ JournalWriteFail(r) \/ FrameRejected(r) \/ StreamEnd(r)
           \/ FailDone(r) \/ (\E t \in Texts : SendFrame(r, t)) \/ \E o \in Faults : StreamFault(r, o)
  <2>1. /\ store'[r] = store[r] /\ cap'[r].info = cap[r].info
        /\ client'[r] = client[r] \/ client'[r] = ErrorOrDestroy(client[r])
    <3>1. CASE RespondRejected(r) \/ HeaderAck(r)  BY <3>1, FinishInfo DEF RespondRejected, HeaderAck, Caps
    <3>2. CASE JournalWriteFail(r)  BY <3>2, FinishInfo DEF JournalWriteFail
    <3>3. CASE FrameRejected(r)
      <4>. DEFINE a == Abort(cap[r], "upstream_error", client[r].gone)
      <4>1. PICK x : cap'[r] = [a EXCEPT !.truncated = x] /\ UNCHANGED <<store, client>>
        BY <3>3 DEF FrameRejected
      <4>2. [a EXCEPT !.truncated = x].info = cap[r].info
        BY FinishInfo
      <4>. QED  BY ONLY <4>1, <4>2
    <3>4. CASE FailDone(r)  BY <3>4 DEF FailDone, Caps
    <3>5. CASE \E t \in Texts : SendFrame(r, t)  BY <3>5 DEF SendFrame, Caps
    <3>6. CASE \E o \in Faults : StreamFault(r, o)  BY <3>6, FinishInfo DEF StreamFault
    <3>7. CASE StreamEnd(r)  BY <3>7, FinishInfo DEF StreamEnd
    <3>. QED  BY <1>4, <3>1, <3>2, <3>3, <3>4, <3>5, <3>6, <3>7
  <2>2. client'[r].sent = client[r].sent /\ (Ended(r)' <=> Ended(r))
    BY <2>1 DEF ErrorReply, ErrorOrDestroy, Ended, Clients
  <2>. QED  BY <2>1, <2>2, SameUnlessTouched
<1>. QED  BY <1>1, <1>2, <1>3, <1>4 DEF Deliver

\* A put that lands, however late, writes the next text, seals, or opens.
LEMMA LandMaps ==
    ASSUME TypeOK, NEW r \in Requests, Local(r), Entry(r), Land(r), \A q \in Requests \ {r} : Same(q)
    PROVE  Ledger!Next \/ Same(r)
<1>1. store[r] \subseteq store'[r] /\ UNCHANGED <<wire, cap, client>>
  BY LandCases
<1>2. SameAnswer(r) /\ SameEnd(r) /\ (Opened(r) => Opened(r)')
  BY <1>1 DEF SameAnswer, SameEnd, Answered, Ended, Opened
<1>3. CASE FrameLands(r)
  <2>1. PICK t \in Texts : /\ Longest(r)' = Append(Longest(r), t) /\ Frame(Longest(r)') \in wire[r]
                          /\ Indexed(r)' = Indexed(r) /\ Indexed(r) = {} /\ Answered(r)
    BY <1>3 DEF FrameLands, Answered
  <2>2. Verdicts(r) = {} /\ SameSeal(r)
    BY <2>1 DEF SameSeal, Verdicts, Indexed
  <2>3. ~Ended(r) /\ SameShown(r)
    BY <1>1, <2>1 DEF SameShown, Shown, Ended, Entry, ClientFollows
  <2>4. SameOpened(r)
    BY <1>3 DEF FrameLands, SameOpened
  <2>. QED  BY <1>2, <2>1, <2>2, <2>3, <2>4, Writes
<1>4. CASE IndexLands(r)
  <2>1. PICK x \in wire[r] : /\ x.kind = "index" /\ Indexed(r) = {} /\ Indexed(r)' = {x}
                            /\ Longest(r)' = Longest(r)
    BY <1>4 DEF IndexLands
  <2>2. x.contentHash.chain = Longest(r) /\ x.contentHash.outcome \in Outcomes /\ Opened(r)
    BY <2>1 DEF Entry, NextInLine
  <2>3. Verdicts(r) = {} /\ Verdicts(r)' = {[outcome |-> x.contentHash.outcome, chain |-> Longest(r)]}
    BY <2>1, <2>2 DEF Verdicts, Indexed
  <2>4. SameOpened(r) /\ SameWritten(r) /\ SameShown(r)
    BY <1>1, <1>2, <2>1, <2>2 DEF SameOpened, SameWritten, SameShown, Shown
  <2>. QED  BY <1>2, <2>2, <2>3, <2>4, Seals
<1>5. CASE OtherLands(r)
  <2>1. SameWritten(r) /\ SameShown(r) /\ SameSeal(r)
    BY <1>1, <1>5 DEF OtherLands, SameWritten, SameShown, SameSeal, Shown, Verdicts, Indexed
  <2>2. CASE SameOpened(r)
    BY <1>2, <2>1, <2>2 DEF Same
  <2>3. CASE ~SameOpened(r)
    BY <1>2, <2>1, <2>3, Opens DEF SameOpened
  <2>. QED  BY <2>2, <2>3
<1>. QED  BY <1>3, <1>4, <1>5, LandCases

\* Each step of the implementation is a step of the ledger or leaves it alone.
LEMMA NextMaps == LedgerInv /\ [Next]_vars => [Ledger!Next]_(Ledger!ledger)
<1>. SUFFICES ASSUME LedgerInv, [Next]_vars PROVE Ledger!Next \/ UNCHANGED Ledger!ledger
  OBVIOUS
<1>0. TypeOK /\ \A q \in Requests : Local(q) /\ Entry(q)
  BY DEF LedgerInv, IInv
<1>1. ASSUME NEW r \in Requests, Step(r) PROVE Ledger!Next \/ UNCHANGED Ledger!ledger
  <2>1. ASSUME NEW q \in Requests \ {r} PROVE Same(q)
    BY <1>0, <1>1, StepFrame, SameUnlessTouched DEF Ended
  <2>2. Ledger!Next \/ Same(r)
    BY <1>0, <1>1, <2>1, HandleMaps, DeliverMaps, CompleteMaps, LandMaps DEF Step
  <2>. QED  BY <2>1, <2>2, Stutters
<1>2. ASSUME Crash, NEW q \in Requests PROVE Same(q)
  <2>1. cap[q] \in Caps /\ client[q] \in Clients  BY <1>0 DEF TypeOK
  <2>2. /\ store'[q] = store[q] /\ cap'[q].info = cap[q].info
        /\ client'[q].sent = client[q].sent /\ client'[q].reply = client[q].reply
    BY <1>2, <2>1 DEF Crash, Caps, Clients
  <2>. QED  BY <2>2, SameUnlessTouched DEF Ended
<1>3. ASSUME CoolDown \/ Restart \/ UNCHANGED vars, NEW q \in Requests PROVE Same(q)
  <2>1. UNCHANGED <<store, wire, cap, client>>  BY <1>3 DEF CoolDown, Restart, vars
  <2>. QED  BY <2>1, SameUnlessTouched DEF Ended
<1>. QED  BY <1>1, <1>2, <1>3, Stutters DEF Next, Step

LEMMA InitMaps == Init => Ledger!Init
<1>. SUFFICES ASSUME Init PROVE Ledger!Init  OBVIOUS
<1>1. ASSUME NEW r \in Requests
      PROVE  /\ Longest(r) = << >> /\ Shown(r) = << >> /\ Verdicts(r) = {}
             /\ ~Opened(r) /\ ~Answered(r) /\ ~Ended(r)
  <2>1. cap[r] = NewCap /\ client[r] = NewClient /\ store[r] = {}
    BY DEF Init
  <2>2. Framed(r) = {} /\ Verdicts(r) = {}
    BY <2>1 DEF Framed, Verdicts
  <2>3. Longest(r) = << >>
    <3>1. IsText({}, << >>)  BY DEF IsText
    <3>2. LongestOf(Framed(r)) = << >>  BY <2>2, <3>1, LongestIsText
    <3>. QED  BY <3>2 DEF LongestOf, Longest
  <2>. QED  BY <2>1, <2>2, <2>3 DEF Shown, Opened, Answered, Ended, NewCap, NewClient
<1>. QED  BY <1>1 DEF Ledger!Init, Opened, Answered, Ended

\* The durable path of proxy.mjs, audit-delivery.mjs and audit-journal.mjs
\* implements the ledger for any requests, limits and lengths of streams: text
\* is appended only, shown in order and never ahead of the store, and an entry
\* is sealed once, over all of its text, before its client sees a clean end.
THEOREM LedgerImplemented == Spec => ImplementsLedger
<1>1. Spec => []LedgerInv
  BY InitEntry, NextEntry, PTL DEF Spec
<1>. QED  BY <1>1, InitMaps, NextMaps, PTL DEF Spec, ImplementsLedger, Ledger!Spec
=============================================================================
