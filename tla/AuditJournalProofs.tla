------------------------- MODULE AuditJournalProofs -------------------------
(***************************************************************************)
(* Proofs about the durable writer, for every set of requests and all       *)
(* limits: its types, that its slot counter is exact, that nothing is       *)
(* forwarded upstream before the intent is durable, and that nothing is     *)
(* forwarded to the client before its journal frame is.                     *)
(***************************************************************************)
EXTENDS AuditJournal, FiniteSetTheorems, TLAPS

Step(r) == Land(r) \/ Handle(r) \/ Deliver(r) \/ Complete(r) \/ Disconnect(r)

-----------------------------------------------------------------------------
(* The values: records keep their type under the updates the actions make. *)

\* A capture stays a capture when one field is assigned.
LEMMA CapFields ==
    ASSUME NEW c \in Caps
    PROVE  /\ \A p \in Phases : [c EXCEPT !.phase = p] \in Caps
           /\ \A o \in Ops : [c EXCEPT !.op = o] \in Caps
           /\ \A f \in Outcomes : [c EXCEPT !.fin = f] \in Caps
           /\ \A x \in {"pending", "true", "false"} : [c EXCEPT !.res = x] \in Caps
           /\ \A f \in Formats : [c EXCEPT !.info = f] \in Caps
           /\ \A s \in Seq(Texts) : [c EXCEPT !.frames = s] \in Caps
           /\ \A b \in BOOLEAN : [c EXCEPT !.truncated = b] \in Caps
           /\ \A b \in BOOLEAN : [c EXCEPT !.uncertain = b] \in Caps
  BY DEF Caps

\* finish() and the catch of the delivery keep the type of the capture.
LEMMA FinishType ==
    ASSUME NEW c \in Caps, NEW o \in Outcomes, NEW g \in BOOLEAN
    PROVE  Finish(c, o) \in Caps /\ Abort(c, o, g) \in Caps
<1>1. Finish(c, o) \in Caps /\ Finish(c, "client_disconnect") \in Caps
  BY CapFields DEF Finish, Outcomes
<1>2. Abort(c, o, g) \in Caps
  BY <1>1, CapFields DEF Abort, Phases
<1>. QED  BY <1>1, <1>2

\* Ending a capture leaves its put and its frames alone.
LEMMA FinishFields ==
    ASSUME NEW c \in Caps, NEW o, NEW g, NEW p
    PROVE  /\ [Finish(c, o) EXCEPT !.phase = p].op = c.op
           /\ [Finish(c, o) EXCEPT !.phase = p].frames = c.frames
           /\ [Finish(c, o) EXCEPT !.phase = p].phase = p
           /\ [Finish(c, o) EXCEPT !.phase = p].res = c.res /\ Abort(c, o, g).res = c.res
           /\ Abort(c, o, g).op = c.op /\ Abort(c, o, g).frames = c.frames
           /\ Abort(c, o, g).phase = "failing"
  BY DEF Finish, Abort, Caps

\* Error replies keep the type of the response object.
LEMMA ReplyType ==
    ASSUME NEW cl \in Clients
    PROVE  ErrorReply(cl) \in Clients /\ ErrorOrDestroy(cl) \in Clients
  BY DEF ErrorReply, ErrorOrDestroy, Clients

\* Every object the writer puts is a blob.
LEMMA BlobTypes ==
    /\ Pending \in Blobs /\ Request \in Blobs
    /\ \A f \in Formats : Header(f) \in Blobs
    /\ \A s \in Seq(Texts) : Frame(s) \in Blobs
    /\ \A c \in Caps : c.fin # "open" =>
          MyEnd(c) \in Blobs /\ MyRecord(c) \in Blobs /\ Index(MyRecord(c)) \in Blobs
<1>1. Pending \in Blobs /\ Request \in Blobs
  BY DEF Pending, Request, Blobs
<1>2. \A f \in Formats : Header(f) \in Blobs
  BY DEF Header, Blobs
<1>3. \A s \in Seq(Texts) : Frame(s) \in Blobs
  BY DEF Frame, Blobs
<1>4. ASSUME NEW c \in Caps, c.fin # "open"
      PROVE  MyEnd(c) \in Blobs /\ MyRecord(c) \in Blobs /\ Index(MyRecord(c)) \in Blobs
  <2>1. /\ c.fin \in Outcomes /\ c.info \in Formats \cup {"none"}
        /\ c.frames \in Seq(Texts) /\ c.truncated \in BOOLEAN
    BY <1>4 DEF Caps
  <2>2. MyEnd(c) \in Blobs
    BY <2>1 DEF MyEnd, End, Blobs
  <2>3. MyRecord(c) \in RecordBlobs
    <3>. DEFINE done == c.fin = "upstream_end" /\ Terminal(c.info, c.frames) /\ ~c.truncated
    <3>1. done \in BOOLEAN  OBVIOUS
    <3>. HIDE DEF done
    <3>2. MyRecord(c) = [kind |-> "record", outcome |-> c.fin, format |-> c.info,
                         chain |-> c.frames, truncated |-> c.truncated,
                         recovered |-> FALSE, complete |-> done]
      BY DEF MyRecord, Record, done
    <3>. QED  BY <2>1, <3>1, <3>2 DEF RecordBlobs
  <2>4. Index(MyRecord(c)) \in Blobs
    BY <2>3 DEF Index, Blobs
  <2>. QED  BY <2>2, <2>3, <2>4 DEF Blobs
<1>. QED  BY <1>1, <1>2, <1>3, <1>4

-----------------------------------------------------------------------------
(* Types of cap and client. *)

\* The handler's steps keep the types of captures and responses.
LEMMA HandleCaps ==
    ASSUME TypeOK, NEW r \in Requests, Handle(r)
    PROVE  cap' \in [Requests -> Caps] /\ client' \in [Requests -> Clients]
<1>. /\ cap[r] \in Caps /\ client[r] \in Clients
     /\ cap \in [Requests -> Caps] /\ client \in [Requests -> Clients]
  BY DEF TypeOK
<1>1. CASE BeginRefused(r)
  BY <1>1, ReplyType, CapFields DEF BeginRefused, Phases
<1>2. CASE Begin(r)
  BY <1>2, CapFields DEF Begin, Phases, Ops
<1>3. CASE IntentAck(r)
  BY <1>3, CapFields DEF IntentAck, Ops
<1>4. CASE RequestAck(r)
  BY <1>4, CapFields, FinishType DEF RequestAck, Phases, Ops, Outcomes
<1>5. CASE BeginFail(r)
  BY <1>5, ReplyType, CapFields DEF BeginFail, Phases, Ops
<1>6. CASE Forward(r)
  BY <1>6, CapFields DEF Forward, Phases
<1>7. CASE \E o \in Denials : Reject(r, o)
  <2>1. PICK o \in Denials : Reject(r, o)  BY <1>7
  <2>2. o \in Outcomes  BY OutcomeAssumption DEF Outcomes
  <2>3. [Finish(cap[r], o) EXCEPT !.phase = "abandoned"] \in Caps
    BY <2>2, FinishType, CapFields DEF Phases
  <2>. QED  BY <2>1, <2>3, ReplyType DEF Reject
<1>8. CASE ProxyError(r)
  <2>. DEFINE f == Finish(cap[r], "upstream_error")
              p == IF cap[r].phase = "forwarded" THEN "abandoned" ELSE cap[r].phase
  <2>1. f \in Caps  BY FinishType DEF Outcomes
  <2>2. p \in Phases  BY DEF Caps, Phases
  <2>3. [f EXCEPT !.phase = p] \in Caps  BY <2>1, <2>2, CapFields
  <2>4. cap' = [cap EXCEPT ![r] = [f EXCEPT !.phase = p]]  BY <1>8 DEF ProxyError
  <2>. QED  BY <1>8, <2>3, <2>4, ReplyType DEF ProxyError
<1>. QED  BY <1>1, <1>2, <1>3, <1>4, <1>5, <1>6, <1>7, <1>8 DEF Handle

AckedCap(r, chain) == [[cap[r] EXCEPT !.op = "idle"] EXCEPT !.frames = chain]

\* An acknowledged frame extends the chain by one text, and nothing else.
LEMMA FrameAckEffect ==
    ASSUME TypeOK, NEW r \in Requests, PutInPhase(r), FrameAck(r)
    PROVE  \E t \in Texts : LET chain == Append(cap[r].frames, t) IN
           /\ chain \in Seq(Texts) /\ Frame(chain) \in store[r]
           /\ AckedCap(r, chain) \in Caps
           /\ AckedCap(r, chain).op = "idle" /\ AckedCap(r, chain).frames = chain
           /\ AckedCap(r, chain).phase = "delivering" /\ AckedCap(r, chain).res = cap[r].res
           /\ \/ /\ cap' = [cap EXCEPT ![r] =
                           [Finish(AckedCap(r, chain), "upstream_end") EXCEPT !.phase = "committing"]]
                 /\ UNCHANGED client
              \/ /\ cap' = [cap EXCEPT ![r] = AckedCap(r, chain)]
                 /\ client' = [client EXCEPT ![r] = [client[r] EXCEPT !.reply = "streaming", !.sent = chain]]
              \/ /\ cap' = [cap EXCEPT ![r] = Abort(AckedCap(r, chain), "upstream_error", client[r].gone)]
                 /\ UNCHANGED client
<1>1. cap[r] \in Caps /\ cap[r].op = "frame" /\ cap[r].phase = "delivering" /\ wire[r] \subseteq store[r]
  BY DEF TypeOK, FrameAck, Acked, PutInPhase
<1>2. PICK t \in Texts : wire[r] = {Frame(Append(cap[r].frames, t))}
  BY <1>1 DEF PutInPhase
<1>. DEFINE chain == Append(cap[r].frames, t)
<1>3. chain \in Seq(Texts) /\ Frame(chain) \in store[r]
  BY <1>1, <1>2 DEF Caps
<1>4. AckedCap(r, chain) \in Caps
  BY <1>1, <1>3, CapFields DEF AckedCap, Ops
<1>5. /\ AckedCap(r, chain).op = "idle" /\ AckedCap(r, chain).frames = chain
      /\ AckedCap(r, chain).phase = "delivering" /\ AckedCap(r, chain).res = cap[r].res
  BY <1>1 DEF AckedCap, Caps
<1>6. \A o \in wire[r] : o.chain = chain  BY <1>2 DEF Frame
<1>7. \/ /\ cap' = [cap EXCEPT ![r] =
                    [Finish(AckedCap(r, chain), "upstream_end") EXCEPT !.phase = "committing"]]
         /\ UNCHANGED client
      \/ /\ cap' = [cap EXCEPT ![r] = AckedCap(r, chain)]
         /\ client' = [client EXCEPT ![r] = [client[r] EXCEPT !.reply = "streaming", !.sent = chain]]
      \/ /\ cap' = [cap EXCEPT ![r] = Abort(AckedCap(r, chain), "upstream_error", client[r].gone)]
         /\ UNCHANGED client
  BY <1>6 DEF FrameAck, AckedCap
<1>. QED  BY <1>3, <1>4, <1>5, <1>7

\* The delivery's steps keep the types of captures and responses.
LEMMA DeliverCaps ==
    ASSUME TypeOK, NEW r \in Requests, PutInPhase(r), Deliver(r)
    PROVE  cap' \in [Requests -> Caps] /\ client' \in [Requests -> Clients]
<1>. /\ cap[r] \in Caps /\ client[r] \in Clients /\ client[r].gone \in BOOLEAN
     /\ cap \in [Requests -> Caps] /\ client \in [Requests -> Clients]
  BY DEF TypeOK, Clients
<1>1. CASE \E f \in Formats : Respond(r, f)
  <2>1. PICK f \in Formats : Respond(r, f)  BY <1>1
  <2>2. [[[cap[r] EXCEPT !.phase = "delivering"] EXCEPT !.op = "header"] EXCEPT !.info = f] \in Caps
    BY CapFields DEF Phases, Ops
  <2>3. cap' = [cap EXCEPT ![r] =
          [[[cap[r] EXCEPT !.phase = "delivering"] EXCEPT !.op = "header"] EXCEPT !.info = f]]
    BY <2>1 DEF Respond
  <2>. QED  BY <2>1, <2>2, <2>3 DEF Respond
<1>2. CASE RespondRejected(r)
  BY <1>2, FinishType DEF RespondRejected, Outcomes
<1>3. CASE HeaderAck(r)
  BY <1>3, CapFields DEF HeaderAck, Ops
<1>4. CASE JournalWriteFail(r)
  <2>1. Abort(cap[r], "upstream_error", client[r].gone) \in Caps
    BY FinishType DEF Outcomes
  <2>. QED  BY <1>4, <2>1, CapFields DEF JournalWriteFail, Ops
<1>5. CASE \E t \in Texts : SendFrame(r, t)
  BY <1>5, CapFields DEF SendFrame, Ops
<1>6. CASE FrameRejected(r)
  <2>. DEFINE a == Abort(cap[r], "upstream_error", client[r].gone)
              b == cap[r].truncated \/ cap[r].fin = "open"
  <2>1. a \in Caps  BY FinishType DEF Outcomes
  <2>2. b \in BOOLEAN  OBVIOUS
  <2>3. cap' = [cap EXCEPT ![r] = [a EXCEPT !.truncated = b]]  BY <1>6 DEF FrameRejected
  <2>. HIDE DEF a, b
  <2>4. [a EXCEPT !.truncated = b] \in Caps  BY <2>1, <2>2, CapFields
  <2>. QED  BY <1>6, <2>3, <2>4 DEF FrameRejected
<1>7. CASE \E o \in Faults : StreamFault(r, o)
  BY <1>7, FinishType, OutcomeAssumption DEF StreamFault, Outcomes
<1>8. CASE FrameAck(r)
  <2>1. PICK t \in Texts : LET chain == Append(cap[r].frames, t) IN
          /\ chain \in Seq(Texts) /\ AckedCap(r, chain) \in Caps
          /\ \/ /\ cap' = [cap EXCEPT ![r] =
                          [Finish(AckedCap(r, chain), "upstream_end") EXCEPT !.phase = "committing"]]
                /\ UNCHANGED client
             \/ /\ cap' = [cap EXCEPT ![r] = AckedCap(r, chain)]
                /\ client' = [client EXCEPT ![r] = [client[r] EXCEPT !.reply = "streaming", !.sent = chain]]
             \/ /\ cap' = [cap EXCEPT ![r] = Abort(AckedCap(r, chain), "upstream_error", client[r].gone)]
                /\ UNCHANGED client
    BY <1>8, FrameAckEffect
  <2>. DEFINE c == AckedCap(r, Append(cap[r].frames, t))
  <2>2. [client[r] EXCEPT !.reply = "streaming", !.sent = Append(cap[r].frames, t)] \in Clients
    BY <2>1 DEF Clients
  <2>3. [Finish(c, "upstream_end") EXCEPT !.phase = "committing"] \in Caps
    BY <2>1, FinishType, CapFields DEF Outcomes, Phases
  <2>4. Abort(c, "upstream_error", client[r].gone) \in Caps
    BY <2>1, FinishType DEF Outcomes
  <2>. QED  BY <2>1, <2>2, <2>3, <2>4, SMTT(60)
<1>9. CASE StreamEnd(r)
  BY <1>9, FinishType, CapFields DEF StreamEnd, Outcomes, Phases
<1>10. CASE CommitDone(r)
  <2>1. [client[r] EXCEPT !.reply = "ended"] \in Clients  BY DEF Clients
  <2>. QED  BY <1>10, <2>1, CapFields DEF CommitDone, Phases
<1>11. CASE FailDone(r)
  BY <1>11, ReplyType, CapFields DEF FailDone, Phases
<1>. QED  BY <1>1, <1>2, <1>3, <1>4, <1>5, <1>6, <1>7, <1>8, <1>9, <1>10, <1>11 DEF Deliver

\* So do the steps of finish(), a disconnect, and the store.
LEMMA CompleteCaps ==
    ASSUME TypeOK, NEW r \in Requests, Complete(r) \/ Disconnect(r) \/ Land(r)
    PROVE  cap' \in [Requests -> Caps] /\ client' \in [Requests -> Clients]
<1>. /\ cap[r] \in Caps /\ client[r] \in Clients
     /\ cap \in [Requests -> Caps] /\ client \in [Requests -> Clients]
  BY DEF TypeOK
<1>1. CASE FinishStart(r)
  BY <1>1, CapFields DEF FinishStart, Ops
<1>2. CASE FinishFalse(r)
  <2>1. << >> \in Seq(Texts)  OBVIOUS
  <2>. QED  BY <1>2, <2>1, CapFields DEF FinishFalse, Ops
<1>3. CASE EndAck(r)
  BY <1>3, CapFields DEF EndAck, Ops
<1>4. CASE RecordAck(r)
  BY <1>4, CapFields DEF RecordAck, Ops
<1>5. CASE IndexAck(r)
  <2>1. << >> \in Seq(Texts)  OBVIOUS
  <2>. QED  BY <1>5, <2>1, CapFields DEF IndexAck, Ops
<1>6. CASE Disconnect(r)
  <2>1. [client[r] EXCEPT !.gone = TRUE] \in Clients  BY DEF Clients
  <2>. QED  BY <1>6, <2>1, FinishType DEF Disconnect, Outcomes
<1>7. CASE Land(r)
  BY <1>7 DEF Land
<1>. QED  BY <1>1, <1>2, <1>3, <1>4, <1>5, <1>6, <1>7 DEF Complete

-----------------------------------------------------------------------------
(* Types of the store and of what is on the wire; the store only grows. *)

\* Nothing but blobs is put, and no step of the writer removes one.
LEMMA StepBlobs ==
    ASSUME TypeOK, NEW r \in Requests, PutInPhase(r), Step(r)
    PROVE  /\ store' \in [Requests -> SUBSET Blobs] /\ wire' \in [Requests -> SUBSET Blobs]
           /\ \A q \in Requests : store[q] \subseteq store'[q]
<1>. /\ store \in [Requests -> SUBSET Blobs] /\ wire \in [Requests -> SUBSET Blobs]
     /\ cap[r] \in Caps
  BY DEF TypeOK
<1>1. CASE Land(r)
  BY <1>1 DEF Land
<1>2. CASE Handle(r)
  <2>1. UNCHANGED store
    BY <1>2 DEF Handle, BeginRefused, Begin, IntentAck, RequestAck, BeginFail, Forward, Reject, ProxyError
  <2>2. wire' = wire \/ (\E w \in {{}, {Pending}, {Request}} : wire' = [wire EXCEPT ![r] = w])
    BY <1>2 DEF Handle, BeginRefused, Begin, IntentAck, RequestAck, BeginFail, Forward, Reject, ProxyError
  <2>. QED  BY <2>1, <2>2, BlobTypes
<1>3. CASE Deliver(r)
  <2>1. UNCHANGED store
    BY <1>3 DEF Deliver, Respond, RespondRejected, HeaderAck, JournalWriteFail, SendFrame,
                FrameRejected, StreamFault, FrameAck, StreamEnd, CommitDone, FailDone
  <2>2. \/ wire' = wire
        \/ wire' = [wire EXCEPT ![r] = {}]
        \/ \E f \in Formats : wire' = [wire EXCEPT ![r] = {Header(f)}]
        \/ \E t \in Texts : wire' = [wire EXCEPT ![r] = {Frame(Append(cap[r].frames, t))}]
    BY <1>3 DEF Deliver, Respond, RespondRejected, HeaderAck, JournalWriteFail, SendFrame,
                FrameRejected, StreamFault, FrameAck, StreamEnd, CommitDone, FailDone
  <2>3. \A t \in Texts : Append(cap[r].frames, t) \in Seq(Texts)
    BY DEF Caps
  <2>. QED  BY <2>1, <2>2, <2>3, BlobTypes, ZenonT(60)
<1>4. CASE Complete(r)
  <2>1. UNCHANGED store
    BY <1>4 DEF Complete, FinishStart, FinishFalse, EndAck, RecordAck, IndexAck
  <2>2. \/ wire' = wire
        \/ wire' = [wire EXCEPT ![r] = {}]
        \/ /\ cap[r].fin # "open"
           /\ \E w \in {MyEnd(cap[r]), MyRecord(cap[r]), Index(MyRecord(cap[r]))} :
                wire' = [wire EXCEPT ![r] = {w}]
    BY <1>4 DEF Complete, FinishStart, FinishFalse, EndAck, RecordAck, IndexAck,
                Finishing, PutInPhase
  <2>. QED  BY <2>1, <2>2, BlobTypes
<1>5. CASE Disconnect(r)
  BY <1>5 DEF Disconnect
<1>. QED  BY <1>1, <1>2, <1>3, <1>4, <1>5 DEF Step

-----------------------------------------------------------------------------
(* What is durable when: the invariant of one request. *)

IntentDurable(r) ==
    cap[r].phase \in Begun \/ cap[r].fin # "open" => {Pending, Request} \subseteq store[r]

Local(r) == PutInPhase(r) /\ IntentDurable(r) /\ Durable(r, client[r].sent)

\* A step of one request does not disturb another.
LEMMA Undisturbed ==
    ASSUME NEW q \in Requests, Local(q),
           cap'[q] = cap[q], client'[q] = client[q], wire'[q] = wire[q], store[q] \subseteq store'[q]
    PROVE  Local(q)'
  BY DEF Local, PutInPhase, IntentDurable, Durable, Finishing

\* The handler's own steps keep the invariant of their request.
LEMMA HandleLocal ==
    ASSUME TypeOK, NEW r \in Requests, Local(r), Handle(r)
    PROVE  Local(r)'
<1>. /\ cap[r] \in Caps /\ client[r] \in Clients
     /\ cap \in [Requests -> Caps] /\ client \in [Requests -> Clients]
     /\ wire \in [Requests -> SUBSET Blobs]
  BY DEF TypeOK
<1>. USE DEF Local, PutInPhase, IntentDurable, Durable, Finishing, Begun, Acked
<1>1. CASE BeginRefused(r)
  BY <1>1 DEF BeginRefused, ErrorReply, Caps, Clients
<1>2. CASE Begin(r)
  BY <1>2 DEF Begin, Caps
<1>3. CASE IntentAck(r)
  BY <1>3 DEF IntentAck, Caps
<1>4. CASE RequestAck(r)
  BY <1>4 DEF RequestAck, Finish, Caps
<1>5. CASE BeginFail(r)
  BY <1>5 DEF BeginFail, ErrorReply, Caps, Clients
<1>6. CASE Forward(r)
  BY <1>6 DEF Forward, Caps
<1>7. CASE \E o \in Denials : Reject(r, o)
  BY <1>7 DEF Reject, Finish, ErrorReply, Caps, Clients
<1>8. CASE ProxyError(r)
  BY <1>8 DEF ProxyError, Finish, ErrorReply, ErrorOrDestroy, Caps, Clients
<1>. QED  BY <1>1, <1>2, <1>3, <1>4, <1>5, <1>6, <1>7, <1>8 DEF Handle

\* A chain is durable once its last frame and the chain before it are.
LEMMA DurableAppend ==
    ASSUME NEW r \in Requests, NEW s \in Seq(Texts), NEW t \in Texts,
           Durable(r, s), Frame(Append(s, t)) \in store[r]
    PROVE  Durable(r, Append(s, t))
<1>. DEFINE u == Append(s, t)
<1>. SUFFICES ASSUME NEW k \in 1..Len(u) PROVE Frame(SubSeq(u, 1, k)) \in store[r]
  BY DEF Durable
<1>1. u \in Seq(Texts) /\ Len(u) = Len(s) + 1 /\ Len(s) \in Nat
  OBVIOUS
<1>2. CASE k = Len(u)
  <2>1. SubSeq(u, 1, k) = u  BY <1>1, <1>2
  <2>. QED  BY <2>1
<1>3. CASE k # Len(u)
  <2>1. k \in 1..Len(s)  BY <1>1, <1>3
  <2>2. SubSeq(u, 1, k) = SubSeq(s, 1, k)  BY <2>1
  <2>. QED  BY <2>1, <2>2 DEF Durable
<1>. QED  BY <1>2, <1>3

\* The delivery's steps keep the invariant of their request.
LEMMA DeliverLocal ==
    ASSUME TypeOK, NEW r \in Requests, Local(r), Deliver(r)
    PROVE  Local(r)'
<1>. /\ cap[r] \in Caps /\ client[r] \in Clients
     /\ cap \in [Requests -> Caps] /\ client \in [Requests -> Clients]
     /\ wire \in [Requests -> SUBSET Blobs]
  BY DEF TypeOK
<1>. USE DEF Local, PutInPhase, IntentDurable, Finishing, Begun, Reading
<1>1. CASE \E f \in Formats : Respond(r, f)
  BY <1>1 DEF Respond, Durable, Caps
<1>2. CASE RespondRejected(r)
  BY <1>2 DEF RespondRejected, Abort, Finish, Durable, Caps
<1>3. CASE HeaderAck(r)
  BY <1>3 DEF HeaderAck, Durable, Caps
<1>4. CASE JournalWriteFail(r)
  BY <1>4 DEF JournalWriteFail, Abort, Finish, Durable, Caps
<1>5. CASE \E t \in Texts : SendFrame(r, t)
  BY <1>5 DEF SendFrame, Durable, Caps
<1>6. CASE FrameRejected(r)
  BY <1>6 DEF FrameRejected, Abort, Finish, Durable, Caps
<1>7. CASE \E o \in Faults : StreamFault(r, o)
  BY <1>7 DEF StreamFault, Abort, Finish, Durable, Caps
<1>8. CASE FrameAck(r)
  <2>1. PICK t \in Texts : LET chain == Append(cap[r].frames, t) IN
          /\ Frame(chain) \in store[r]
          /\ AckedCap(r, chain) \in Caps
          /\ AckedCap(r, chain).op = "idle" /\ AckedCap(r, chain).frames = chain
          /\ AckedCap(r, chain).phase = "delivering"
          /\ \/ /\ cap' = [cap EXCEPT ![r] =
                          [Finish(AckedCap(r, chain), "upstream_end") EXCEPT !.phase = "committing"]]
                /\ UNCHANGED client
             \/ /\ cap' = [cap EXCEPT ![r] = AckedCap(r, chain)]
                /\ client' = [client EXCEPT ![r] = [client[r] EXCEPT !.reply = "streaming", !.sent = chain]]
             \/ /\ cap' = [cap EXCEPT ![r] = Abort(AckedCap(r, chain), "upstream_error", client[r].gone)]
                /\ UNCHANGED client
    BY <1>8, FrameAckEffect
  <2>. DEFINE chain == Append(cap[r].frames, t)
  <2>2. Durable(r, chain)
    <3>1. cap[r].frames \in Seq(Texts)  BY DEF Caps
    <3>. QED  BY <2>1, <3>1, DurableAppend
  <2>3. UNCHANGED store /\ cap[r].phase = "delivering"  BY <1>8 DEF FrameAck
  <2>. HIDE DEF chain
  <2>4. /\ cap'[r].op = "idle" /\ cap'[r].frames = chain
        /\ cap'[r].phase \in {"delivering", "committing", "failing"}
    <3>. DEFINE c == AckedCap(r, chain)
    <3>1. c \in Caps /\ c.op = "idle" /\ c.frames = chain /\ c.phase = "delivering"
      BY <2>1 DEF chain
    <3>2. CASE cap' = [cap EXCEPT ![r] = [Finish(c, "upstream_end") EXCEPT !.phase = "committing"]]
      BY <3>1, <3>2, FinishFields
    <3>3. CASE cap' = [cap EXCEPT ![r] = c]
      BY <3>1, <3>3
    <3>4. CASE cap' = [cap EXCEPT ![r] = Abort(c, "upstream_error", client[r].gone)]
      BY <3>1, <3>4, FinishFields
    <3>. QED  BY <2>1, <3>2, <3>3, <3>4 DEF chain
  <2>5. client'[r].sent \in {client[r].sent, chain}
    BY <2>1, ZenonT(60) DEF Clients, chain
  <2>. QED  BY <2>2, <2>3, <2>4, <2>5, SMTT(60) DEF Durable
<1>9. CASE StreamEnd(r)
  BY <1>9 DEF StreamEnd, Finish, Durable, Caps
<1>10. CASE CommitDone(r)
  BY <1>10 DEF CommitDone, Durable, Caps, Clients
<1>11. CASE FailDone(r)
  BY <1>11 DEF FailDone, ErrorReply, ErrorOrDestroy, Durable, Caps, Clients
<1>. QED  BY <1>1, <1>2, <1>3, <1>4, <1>5, <1>6, <1>7, <1>8, <1>9, <1>10, <1>11 DEF Deliver

\* So do the steps of finish(), a disconnect, and the store.
LEMMA CompleteLocal ==
    ASSUME TypeOK, NEW r \in Requests, Local(r), Complete(r) \/ Disconnect(r) \/ Land(r)
    PROVE  Local(r)'
<1>. /\ cap[r] \in Caps /\ client[r] \in Clients
     /\ cap \in [Requests -> Caps] /\ client \in [Requests -> Clients]
     /\ wire \in [Requests -> SUBSET Blobs] /\ store \in [Requests -> SUBSET Blobs]
  BY DEF TypeOK
<1>. USE DEF Local, PutInPhase, IntentDurable, Durable, Finishing, Begun
<1>1. CASE FinishStart(r)
  BY <1>1 DEF FinishStart, Caps
<1>2. CASE FinishFalse(r)
  BY <1>2 DEF FinishFalse, Caps
<1>3. CASE EndAck(r)
  BY <1>3 DEF EndAck, Caps
<1>4. CASE RecordAck(r)
  BY <1>4 DEF RecordAck, Caps
<1>5. CASE IndexAck(r)
  BY <1>5 DEF IndexAck, Caps
<1>6. CASE Disconnect(r)
  BY <1>6 DEF Disconnect, Finish, Caps, Clients
<1>7. CASE Land(r)
  BY <1>7 DEF Land
<1>. QED  BY <1>1, <1>2, <1>3, <1>4, <1>5, <1>6, <1>7 DEF Complete

\* A step of r touches the state of r alone.
LEMMA StepFrame ==
    ASSUME TypeOK, NEW r \in Requests, Step(r), NEW q \in Requests, q # r
    PROVE  /\ cap'[q] = cap[q] /\ client'[q] = client[q]
           /\ wire'[q] = wire[q] /\ store'[q] = store[q]
<1>1. CASE Handle(r)
  BY <1>1 DEF Handle, BeginRefused, Begin, IntentAck, RequestAck, BeginFail, Forward, Reject,
              ProxyError, TypeOK
<1>2. CASE Deliver(r)
  BY <1>2 DEF Deliver, Respond, RespondRejected, HeaderAck, JournalWriteFail, SendFrame,
              FrameRejected, StreamFault, FrameAck, StreamEnd, CommitDone, FailDone, TypeOK
<1>3. CASE Complete(r)
  BY <1>3 DEF Complete, FinishStart, FinishFalse, EndAck, RecordAck, IndexAck, TypeOK
<1>4. CASE Disconnect(r) \/ Land(r)
  BY <1>4 DEF Disconnect, Land, TypeOK
<1>. QED  BY <1>1, <1>2, <1>3, <1>4 DEF Step

-----------------------------------------------------------------------------
(* The slots: three kinds of steps. *)

Counted == IsFiniteSet(Holding) /\ SlotsExact

ProcType == proc \in [up : BOOLEAN, active : Nat, cooling : BOOLEAN]

Takes(r)  == r \notin Holding /\ r \in Holding' /\ proc.active < MaxActive /\ proc'.active = proc.active + 1
Gives(r)  == r \in Holding /\ r \notin Holding' /\ proc'.active = proc.active - 1
Leaves(r) == (r \in Holding <=> r \in Holding') /\ proc'.active = proc.active

\* Every step of a request takes its slot, gives it back, or leaves it.
LEMMA StepSlot ==
    ASSUME TypeOK, NEW r \in Requests, Local(r), Step(r)
    PROVE  Takes(r) \/ Gives(r) \/ Leaves(r)
<1>. /\ cap[r] \in Caps /\ cap \in [Requests -> Caps] /\ ProcType
  BY DEF TypeOK, ProcType
<1>. USE DEF Holding, Local, PutInPhase, Finishing, Begun
<1>1. CASE Handle(r)
  <2>1. CASE Begin(r)
    <3>1. Takes(r)  BY <2>1, LimitsAssumption DEF Begin, Busy, Takes, Caps, ProcType
    <3>. QED  BY <3>1
  <2>2. CASE BeginFail(r)
    <3>1. Gives(r)  BY <2>2 DEF BeginFail, Release, Gives, Caps, ProcType
    <3>. QED  BY <3>1
  <2>3. CASE BeginRefused(r) \/ IntentAck(r) \/ Forward(r)
    BY <2>3 DEF BeginRefused, IntentAck, Forward, Leaves, Caps
  <2>4. CASE RequestAck(r)
    BY <2>4 DEF RequestAck, Finish, Leaves, Caps
  <2>5. CASE \E o \in Denials : Reject(r, o)
    BY <2>5 DEF Reject, Finish, Leaves, Caps
  <2>6. CASE ProxyError(r)
    BY <2>6 DEF ProxyError, Finish, Leaves, Caps
  <2>. QED  BY <1>1, <2>1, <2>2, <2>3, <2>4, <2>5, <2>6 DEF Handle
<1>2. CASE Deliver(r)
  <2>1. CASE JournalWriteFail(r)
    BY <2>1 DEF JournalWriteFail, Abort, Finish, Leaves, Caps, ProcType
  <2>2. CASE FrameAck(r)
    <3>1. \E c \in Caps :
            /\ c.phase = "delivering" /\ c.res = cap[r].res
            /\ \/ cap' = [cap EXCEPT ![r] = [Finish(c, "upstream_end") EXCEPT !.phase = "committing"]]
               \/ cap' = [cap EXCEPT ![r] = c]
               \/ cap' = [cap EXCEPT ![r] = Abort(c, "upstream_error", client[r].gone)]
      BY <2>2, FrameAckEffect
    <3>2. proc' = proc /\ cap[r].phase = "delivering"  BY <2>2 DEF FrameAck
    <3>3. cap'[r].res = cap[r].res /\ cap'[r].phase \in {"delivering", "committing", "failing"}
      <4>1. PICK c \in Caps :
              /\ c.phase = "delivering" /\ c.res = cap[r].res
              /\ \/ cap' = [cap EXCEPT ![r] = [Finish(c, "upstream_end") EXCEPT !.phase = "committing"]]
                 \/ cap' = [cap EXCEPT ![r] = c]
                 \/ cap' = [cap EXCEPT ![r] = Abort(c, "upstream_error", client[r].gone)]
        BY <3>1
      <4>2. CASE cap' = [cap EXCEPT ![r] = [Finish(c, "upstream_end") EXCEPT !.phase = "committing"]]
        BY <4>1, <4>2, FinishFields
      <4>3. CASE cap' = [cap EXCEPT ![r] = c]
        BY <4>1, <4>3
      <4>4. CASE cap' = [cap EXCEPT ![r] = Abort(c, "upstream_error", client[r].gone)]
        BY <4>1, <4>4, FinishFields
      <4>. QED  BY <4>1, <4>2, <4>3, <4>4
    <3>. QED  BY <3>2, <3>3, SMTT(60) DEF Leaves
  <2>3. CASE (\E f \in Formats : Respond(r, f)) \/ HeaderAck(r) \/ (\E t \in Texts : SendFrame(r, t))
    BY <2>3 DEF Respond, HeaderAck, SendFrame, Leaves, Caps
  <2>4. CASE RespondRejected(r) \/ FrameRejected(r) \/ (\E o \in Faults : StreamFault(r, o))
    <3>1. proc' = proc /\ cap[r].phase \in {"forwarded", "delivering"}
      BY <2>4 DEF RespondRejected, FrameRejected, StreamFault, Reading
    <3>2. cap'[r].phase = "failing" /\ cap'[r].res = cap[r].res
      <4>1. CASE RespondRejected(r) \/ (\E o \in Faults : StreamFault(r, o))
        BY <4>1, FinishFields DEF RespondRejected, StreamFault
      <4>2. CASE FrameRejected(r)
        BY <4>2 DEF FrameRejected, Abort, Finish, Caps
      <4>. QED  BY <2>4, <4>1, <4>2
    <3>. QED  BY <3>1, <3>2 DEF Leaves
  <2>5. CASE StreamEnd(r)
    BY <2>5 DEF StreamEnd, Reading, Finish, Leaves, Caps
  <2>6. CASE CommitDone(r) \/ FailDone(r)
    BY <2>6 DEF CommitDone, FailDone, Leaves, Caps
  <2>. QED  BY <1>2, <2>1, <2>2, <2>3, <2>4, <2>5, <2>6 DEF Deliver
<1>3. CASE Complete(r)
  <2>1. CASE FinishFalse(r)
    <3>1. Gives(r)  BY <2>1 DEF FinishFalse, Release, Gives, Caps, ProcType
    <3>. QED  BY <3>1
  <2>2. CASE IndexAck(r)
    <3>1. Gives(r)  BY <2>2 DEF IndexAck, Release, Gives, Caps, ProcType
    <3>. QED  BY <3>1
  <2>3. CASE FinishStart(r) \/ EndAck(r) \/ RecordAck(r)
    BY <2>3 DEF FinishStart, EndAck, RecordAck, Leaves, Caps
  <2>. QED  BY <1>3, <2>1, <2>2, <2>3 DEF Complete
<1>4. CASE Disconnect(r)
  BY <1>4 DEF Disconnect, Finish, Leaves, Caps
<1>5. CASE Land(r)
  BY <1>5 DEF Land, Leaves
<1>. QED  BY <1>1, <1>2, <1>3, <1>4, <1>5 DEF Step

\* Each kind of step keeps the counter equal to the number of slots held.
LEMMA StepCounted ==
    ASSUME TypeOK, NEW r \in Requests, Local(r), Step(r), Counted
    PROVE  Counted' /\ proc'.active \in Nat
<1>1. \A q \in Requests : q # r => (q \in Holding <=> q \in Holding')
  BY StepFrame DEF Holding
<1>2. /\ proc.active = Cardinality(Holding) /\ proc.active \in Nat /\ proc.active <= MaxActive
      /\ MaxActive \in Nat /\ IsFiniteSet(Holding)
  BY LimitsAssumption DEF Counted, SlotsExact, TypeOK
<1>3. Holding \subseteq Requests /\ Holding' \subseteq Requests
  BY DEF Holding
<1>4. CASE Takes(r)
  <2>1. Holding' = Holding \cup {r}  BY <1>1, <1>3, <1>4 DEF Takes
  <2>2. IsFiniteSet(Holding') /\ Cardinality(Holding') = Cardinality(Holding) + 1
    BY <1>2, <1>4, <2>1, FS_AddElement DEF Takes
  <2>. QED  BY <1>2, <1>4, <2>2 DEF Takes, Counted, SlotsExact
<1>5. CASE Gives(r)
  <2>1. Holding' = Holding \ {r}  BY <1>1, <1>3, <1>5 DEF Gives
  <2>2. IsFiniteSet(Holding') /\ Cardinality(Holding') = Cardinality(Holding) - 1
    BY <1>2, <1>5, <2>1, FS_RemoveElement DEF Gives
  <2>3. Cardinality(Holding') \in Nat  BY <2>2, FS_CardinalityType
  <2>. QED  BY <1>2, <1>5, <2>2, <2>3 DEF Gives, Counted, SlotsExact
<1>6. CASE Leaves(r)
  <2>1. Holding' = Holding  BY <1>1, <1>3, <1>6 DEF Leaves
  <2>. QED  BY <1>2, <1>6, <2>1 DEF Leaves, Counted, SlotsExact
<1>. QED  BY <1>4, <1>5, <1>6, StepSlot

-----------------------------------------------------------------------------
(* The inductive invariant and its consequences. *)

IInv == TypeOK /\ (\A r \in Requests : Local(r)) /\ Counted

\* Nothing is held, put or sent at the start.
LEMMA InitIInv == Init => IInv
<1>. SUFFICES ASSUME Init PROVE IInv  OBVIOUS
<1>. USE DEF Init, NewCap, NewClient
<1>1. TypeOK
  <2>1. NewCap \in Caps  BY DEF Caps, Phases, Ops
  <2>2. NewClient \in Clients  BY DEF Clients
  <2>3. proc \in [up : BOOLEAN, active : Nat, cooling : BOOLEAN]  OBVIOUS
  <2>. QED  BY <2>1, <2>2, <2>3 DEF TypeOK
<1>2. ASSUME NEW r \in Requests PROVE Local(r)
  BY DEF Local, PutInPhase, IntentDurable, Durable, Begun, Finishing
<1>3. Counted
  <2>1. Holding = {}  BY DEF Holding, Begun
  <2>. QED  BY <2>1, FS_EmptySet, LimitsAssumption DEF Counted, SlotsExact
<1>. QED  BY <1>1, <1>2, <1>3 DEF IInv

\* A step of a request keeps all types and the counter.
LEMMA StepTypes ==
    ASSUME TypeOK, Counted, NEW r \in Requests, Local(r), Step(r)
    PROVE  TypeOK' /\ Counted' /\ \A q \in Requests : store[q] \subseteq store'[q]
<1>1. PutInPhase(r)  BY DEF Local
<1>2. cap' \in [Requests -> Caps] /\ client' \in [Requests -> Clients]
  BY <1>1, HandleCaps, DeliverCaps, CompleteCaps DEF Step
<1>3. /\ store' \in [Requests -> SUBSET Blobs] /\ wire' \in [Requests -> SUBSET Blobs]
      /\ \A q \in Requests : store[q] \subseteq store'[q]
  BY <1>1, StepBlobs
<1>4. Counted' /\ proc'.active \in Nat
  BY StepCounted
<1>5. proc' \in [up : BOOLEAN, active : Nat, cooling : BOOLEAN]
  <2>1. \/ proc' = proc
        \/ proc' = [proc EXCEPT !.active = proc.active + 1]
        \/ proc' = [proc EXCEPT !.cooling = TRUE]
        \/ proc' = Release(proc, TRUE) \/ proc' = Release(proc, FALSE)
    BY DEF Step, Handle, BeginRefused, Begin, IntentAck, RequestAck, BeginFail, Forward, Reject, ProxyError,
           Deliver, Respond, RespondRejected, HeaderAck, JournalWriteFail, SendFrame,
           FrameRejected, StreamFault, FrameAck, StreamEnd, CommitDone, FailDone,
           Complete, FinishStart, FinishFalse, EndAck, RecordAck, IndexAck, Disconnect, Land
  <2>2. proc \in [up : BOOLEAN, active : Nat, cooling : BOOLEAN]  BY DEF TypeOK
  <2>. QED  BY <1>4, <2>1, <2>2 DEF Release
<1>. QED  BY <1>2, <1>3, <1>4, <1>5 DEF TypeOK

\* A step of one request keeps the invariant of all.
LEMMA StepIInv ==
    ASSUME IInv, NEW r \in Requests, Step(r)
    PROVE  IInv'
<1>1. TypeOK' /\ Counted' /\ \A q \in Requests : store[q] \subseteq store'[q]
  BY StepTypes DEF IInv
<1>2. ASSUME NEW q \in Requests PROVE Local(q)'
  <2>1. CASE q = r
    BY <2>1, HandleLocal, DeliverLocal, CompleteLocal DEF IInv, Step
  <2>2. CASE q # r
    BY <2>2, <1>1, StepFrame, Undisturbed DEF IInv
  <2>. QED  BY <2>1, <2>2
<1>. QED  BY <1>1, <1>2 DEF IInv

\* What a crash leaves of a request: its outcome, its record, and nothing under way.
LEMMA CrashEffect ==
    ASSUME TypeOK, NEW r \in Requests, Crash
    PROVE  /\ cap'[r] \in Caps /\ client'[r] \in Clients
           /\ cap'[r].phase \in Over
           /\ \/ cap'[r].phase = "lost" /\ cap'[r].op = "idle"
              \/ cap'[r] = cap[r] /\ client'[r] = client[r]
           /\ cap'[r].fin = cap[r].fin /\ cap'[r].info = cap[r].info
           /\ cap'[r].uncertain = cap[r].uncertain
           /\ cap'[r].frames \in {cap[r].frames, << >>}
           /\ client'[r].sent = client[r].sent /\ client'[r].reply = client[r].reply
<1>0. cap[r] \in Caps /\ client[r] \in Clients  BY DEF TypeOK
<1>1. CASE cap[r].phase \in Over
  BY <1>0, <1>1 DEF Crash
<1>2. CASE cap[r].phase \notin Over
  <2>1. /\ cap'[r] = [[[cap[r] EXCEPT !.phase = "lost"] EXCEPT !.op = "idle"] EXCEPT !.frames = << >>]
        /\ client'[r] = [client[r] EXCEPT !.gone = TRUE]
    BY <1>2 DEF Crash
  <2>2. << >> \in Seq(Texts)  OBVIOUS
  <2>3. [cap[r] EXCEPT !.phase = "lost"] \in Caps  BY <1>0, CapFields DEF Phases
  <2>4. [[cap[r] EXCEPT !.phase = "lost"] EXCEPT !.op = "idle"] \in Caps  BY <2>3, CapFields DEF Ops
  <2>5. [[[cap[r] EXCEPT !.phase = "lost"] EXCEPT !.op = "idle"] EXCEPT !.frames = << >>] \in Caps
    BY <2>4, <2>2, CapFields
  <2>6. cap'[r] \in Caps  BY <2>5, <2>1
  <2>7. /\ client'[r] \in Clients /\ client'[r].sent = client[r].sent
        /\ client'[r].reply = client[r].reply
    BY <1>0, <2>1 DEF Clients
  <2>. QED  BY <1>0, <2>1, <2>6, <2>7 DEF Over, Caps
<1>. QED  BY <1>1, <1>2

\* A crash disturbs no request.
LEMMA CrashLocal ==
    ASSUME TypeOK, NEW r \in Requests, Local(r), Crash
    PROVE  Local(r)'
<1>1. UNCHANGED <<store, wire>>
  BY DEF Crash
<1>. QED  BY <1>1, CrashEffect DEF Local, PutInPhase, IntentDurable, Durable, Finishing, Begun, Over

\* The types and the counter are kept by the steps of the process.
LEMMA ProcessTypes ==
    ASSUME TypeOK, Counted, CoolDown \/ Crash \/ Restart
    PROVE  TypeOK' /\ Counted'
<1>1. CASE CoolDown \/ Restart
  <2>1. UNCHANGED <<store, wire, cap, client>> /\ proc'.active = proc.active
        /\ proc' \in [up : BOOLEAN, active : Nat, cooling : BOOLEAN]
    BY <1>1 DEF CoolDown, Restart, TypeOK
  <2>. QED  BY <2>1 DEF TypeOK, Counted, SlotsExact, Holding
<1>2. CASE Crash
  <2>1. UNCHANGED <<store, wire>> /\ proc' = [up |-> FALSE, active |-> 0, cooling |-> FALSE]
    BY <1>2 DEF Crash
  <2>2. cap' \in [Requests -> Caps] /\ client' \in [Requests -> Clients]
    BY <1>2, CrashEffect DEF Crash
  <2>3. Holding' = {}
    BY <1>2, CrashEffect DEF Holding, Begun, Over
  <2>. QED  BY <2>1, <2>2, <2>3, FS_EmptySet, LimitsAssumption DEF TypeOK, Counted, SlotsExact
<1>. QED  BY <1>1, <1>2

\* So do the steps of the process: cool-down, crash and restart.
LEMMA ProcessIInv ==
    ASSUME IInv, CoolDown \/ Crash \/ Restart
    PROVE  IInv'
<1>1. TypeOK' /\ Counted'
  BY ProcessTypes DEF IInv
<1>2. ASSUME NEW r \in Requests PROVE Local(r)'
  <2>1. CASE CoolDown \/ Restart
    BY <2>1, Undisturbed DEF IInv, CoolDown, Restart
  <2>2. CASE Crash
    BY <2>2, CrashLocal DEF IInv
  <2>. QED  BY <2>1, <2>2
<1>. QED  BY <1>1, <1>2 DEF IInv

\* The invariant is inductive.
LEMMA NextIInv == IInv /\ [Next]_vars => IInv'
<1>. SUFFICES ASSUME IInv, [Next]_vars PROVE IInv'  OBVIOUS
<1>1. CASE \E r \in Requests : Step(r)
  BY <1>1, StepIInv
<1>2. CASE CoolDown \/ Crash \/ Restart
  BY <1>2, ProcessIInv
<1>3. CASE UNCHANGED vars
  <2>1. UNCHANGED <<store, wire, cap, client, proc>>  BY <1>3 DEF vars
  <2>2. TypeOK' /\ Counted'
    BY <2>1 DEF IInv, TypeOK, Counted, SlotsExact, Holding
  <2>3. \A r \in Requests : Local(r)'
    BY <2>1, Undisturbed DEF IInv
  <2>. QED  BY <2>2, <2>3 DEF IInv
<1>. QED  BY <1>1, <1>2, <1>3 DEF Next, Step

\* Every reachable state of the writer satisfies the inductive invariant.
LEMMA Invariance == Spec => []IInv
  BY InitIInv, NextIInv, PTL DEF Spec

\* Types of the state of the writer, the delivery and the store.
THEOREM TypeCorrect == Spec => []TypeOK
<1>1. IInv => TypeOK  BY DEF IInv
<1>. QED  BY <1>1, Invariance, PTL

\* The writer's slot counter is exact and within its limit, however many
\* requests there are and however each of them ends.
THEOREM SlotsCorrect == Spec => []SlotsExact
<1>1. IInv => SlotsExact  BY DEF IInv, Counted
<1>. QED  BY <1>1, Invariance, PTL

\* The upstream is never called for a request whose intent is not durable, and
\* nothing reaches the client before it is durable in the journal, for streams
\* of any length, through lost answers, late uploads and crashes.
THEOREM PersistCorrect == Spec => []PersistBeforeForward
<1>1. IInv => NoForwardWithoutIntent
  BY DEF IInv, Local, IntentDurable, NoForwardWithoutIntent
<1>2. IInv => FramesDurable
  BY DEF IInv, Local, FramesDurable
<1>. QED  BY <1>1, <1>2, Invariance, PTL DEF PersistBeforeForward

\* At every moment the one put that is under way is the one the phase of its
\* request calls for: what lands late can only be a blob that was due.
THEOREM PhaseCorrect == Spec => []PutsInPhase
<1>1. IInv => PutsInPhase
  BY DEF IInv, Local, PutsInPhase
<1>. QED  BY <1>1, Invariance, PTL
=============================================================================
