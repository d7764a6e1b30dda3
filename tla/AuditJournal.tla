---------------------------- MODULE AuditJournal ----------------------------
(***************************************************************************)
(* The durable ("persist before forward") audit path of the API gateway:   *)
(* JournalAuditWriter (auth-proxy/audit-journal.mjs), the response          *)
(* delivery that drives it (audit-delivery.mjs), the request handler that   *)
(* wires both together (proxy.mjs) and the immutable blob store they write  *)
(* to (audit-store.mjs).                                                    *)
(*                                                                          *)
(* A put is split into what the code cannot see and what it can: the object *)
(* is on the wire, it lands in the store or it does not, and the caller     *)
(* learns of success only after it landed, but may be told of a failure     *)
(* (timeout, lost answer) in either case.  An object whose put failed stays *)
(* on the wire and may land later, also after the process died.             *)
(***************************************************************************)
EXTENDS Naturals, Sequences, FiniteSets

CONSTANTS
    Requests,   \* request ids (a fresh uuid per HTTP request, proxy.mjs:90)
    MaxActive,  \* the writer's limit on requests in flight (maxActive)
    MaxFrames,  \* the writer's limit on journal frames per request (maxFrames)
    Denials,    \* why a request may fail between begin() and proxy()
    Faults      \* why the read loop of the delivery may throw

Outcomes == {"upstream_end", "upstream_error", "audit_limit", "invalid_response",
             "client_disconnect", "policy_denied", "gateway_error"}

ASSUME LimitsAssumption  == MaxActive \in Nat \ {0} /\ MaxFrames \in Nat \ {0}
ASSUME OutcomeAssumption ==
    /\ Denials \subseteq {"policy_denied", "gateway_error"}
    /\ {"upstream_error"} \subseteq Faults
    /\ Faults \subseteq {"audit_limit", "invalid_response", "upstream_error"}

VARIABLES
    store,   \* store[r]: the blobs that exist for request r
    wire,    \* wire[r]: the last put issued for r (at most one), not yet acknowledged
    cap,     \* cap[r]: the handler and the capture closure of request r
    client,  \* client[r]: the HTTP response object of request r
    proc     \* the writer process: up, active, cooling

vars == <<store, wire, cap, client, proc>>

-----------------------------------------------------------------------------
(* Values.  A frame's text is told apart only by whether it ends the stream. *)

Texts    == {"event", "terminal"}
Formats  == {"sse", "json"}
(* Blobs.  Through previousHash a frame commits to all text before it, so a *)
(* frame is the sequence of texts it ends: its own hash is that sequence and *)
(* its sequence number is Len(chain) - 1.  contentHash is the record itself. *)
Pending == [kind |-> "pending"]
Request == [kind |-> "request"]
Header(f) == [kind |-> "header", format |-> f]
Frame(chain) == [kind |-> "frame", chain |-> chain]
End(o, f, chain, t) ==
    [kind |-> "end", outcome |-> o, format |-> f, chain |-> chain, truncated |-> t]

\* responseState(): did the stream reach a terminal event in a valid format?
Terminal(f, chain) ==
    \/ f = "sse" /\ \E i \in 1..Len(chain) : chain[i] = "terminal"
    \/ f = "json" /\ chain # << >>

\* journalRecord(): the audit record that index and readers use.
Record(o, f, chain, t, rec) ==
    [kind |-> "record", outcome |-> o, format |-> f, chain |-> chain,
     truncated |-> t, recovered |-> rec,
     complete |-> o = "upstream_end" /\ Terminal(f, chain) /\ ~t]

Index(record) == [kind |-> "index", contentHash |-> record]

\* Two blobs have the same name; frames are named by their sequence number.
SameName(a, b) ==
    /\ a.kind = b.kind
    /\ a.kind = "frame" => Len(a.chain) = Len(b.chain)

-----------------------------------------------------------------------------
(* The immutable store: If-None-Match creation, idempotent for equal bytes. *)

\* The upload reaches the service.  It creates the blob only where none is.
Land(r) ==
    \E o \in wire[r] :
        /\ \A b \in store[r] : ~SameName(b, o)
        /\ store' = [store EXCEPT ![r] = @ \cup {o}]
        /\ UNCHANGED <<wire, cap, client, proc>>

\* put() resolves: the blob was created, or an equal one was there already.
Acked(r) == wire[r] \subseteq store[r]

-----------------------------------------------------------------------------
(* The capture closure.  finish() is idempotent: only the first caller's     *)
(* outcome counts (audit-journal.mjs:157).                                   *)

Finish(c, o) == IF c.fin = "open" THEN [c EXCEPT !.fin = o] ELSE c

\* deliverAuditedResponse()'s catch: finish with the reason, or with the
\* disconnect that explains it, and wait for the commit.
Abort(c, o, gone) ==
    [Finish(c, IF gone THEN "client_disconnect" ELSE o) EXCEPT !.phase = "failing"]

\* The error reply of a handler: only while no header has been sent.
ErrorReply(cl) ==
    IF cl.gone \/ cl.reply # "none" THEN cl ELSE [cl EXCEPT !.reply = "error"]

\* As above, but a response whose headers are out is destroyed instead.
ErrorOrDestroy(cl) ==
    IF cl.reply = "none" THEN ErrorReply(cl) ELSE [cl EXCEPT !.gone = TRUE]

Release(p, failed) ==
    [p EXCEPT !.active = @ - 1, !.cooling = @ \/ failed]

NewCap ==
    [phase |-> "new", op |-> "idle", fin |-> "open", res |-> "pending",
     info |-> "none", frames |-> << >>, truncated |-> FALSE, uncertain |-> FALSE]

NewClient == [reply |-> "none", gone |-> FALSE, sent |-> << >>]

Init ==
    /\ store  = [r \in Requests |-> {}]
    /\ wire   = [r \in Requests |-> {}]
    /\ cap    = [r \in Requests |-> NewCap]
    /\ client = [r \in Requests |-> NewClient]
    /\ proc   = [up |-> TRUE, active |-> 0, cooling |-> FALSE]

-----------------------------------------------------------------------------
(* begin(): capacity, then the intent, then the request, each acknowledged. *)

Busy == proc.active >= MaxActive \/ proc.cooling

BeginRefused(r) ==
    /\ proc.up /\ cap[r].phase = "new" /\ Busy
    /\ cap' = [cap EXCEPT ![r].phase = "refused"]
    /\ client' = [client EXCEPT ![r] = ErrorReply(@)]
    /\ UNCHANGED <<store, wire, proc>>

Begin(r) ==
    /\ proc.up /\ cap[r].phase = "new" /\ ~Busy
    /\ proc' = [proc EXCEPT !.active = @ + 1]
    /\ cap' = [cap EXCEPT ![r].phase = "intent", ![r].op = "pending"]
    /\ wire' = [wire EXCEPT ![r] = {Pending}]
    /\ UNCHANGED <<store, client>>

IntentAck(r) ==
    /\ cap[r].phase = "intent" /\ cap[r].op = "pending" /\ Acked(r)
    /\ cap' = [cap EXCEPT ![r].op = "request"]
    /\ wire' = [wire EXCEPT ![r] = {Request}]
    /\ UNCHANGED <<store, client, proc>>

\* begin() returns the capture; a client that left meanwhile ends it at once.
RequestAck(r) ==
    /\ cap[r].phase = "intent" /\ cap[r].op = "request" /\ Acked(r)
    /\ cap' = [cap EXCEPT ![r] =
                 IF client[r].gone
                 THEN [Finish(@, "client_disconnect") EXCEPT !.phase = "abandoned", !.op = "idle"]
                 ELSE [@ EXCEPT !.phase = "admitted", !.op = "idle"]]
    /\ wire' = [wire EXCEPT ![r] = {}]
    /\ UNCHANGED <<store, client, proc>>

\* Mutant: begin()'s catch does not give the slot back.
BeginFailLeaks(r) ==
    /\ cap[r].phase = "intent"
    /\ cap' = [cap EXCEPT ![r].phase = "refused", ![r].op = "idle"]
    /\ client' = [client EXCEPT ![r] = ErrorReply(@)]
    /\ proc' = [proc EXCEPT !.cooling = TRUE]
    /\ UNCHANGED <<store, wire>>

BeginFail(r) ==
    /\ cap[r].phase = "intent"
    /\ cap' = [cap EXCEPT ![r].phase = "refused", ![r].op = "idle"]
    /\ client' = [client EXCEPT ![r] = ErrorReply(@)]
    /\ proc' = Release(proc, TRUE)
    /\ UNCHANGED <<store, wire>>

-----------------------------------------------------------------------------
(* Between begin() and the upstream's answer. *)

Forward(r) ==
    /\ cap[r].phase = "admitted"
    /\ cap' = [cap EXCEPT ![r].phase = "forwarded"]
    /\ UNCHANGED <<store, wire, client, proc>>

\* The guardrail denies, or the handler fails, after begin().
Reject(r, o) ==
    /\ cap[r].phase = "admitted"
    /\ cap' = [cap EXCEPT ![r] = [Finish(@, o) EXCEPT !.phase = "abandoned"]]
    /\ client' = [client EXCEPT ![r] = ErrorReply(@)]
    /\ UNCHANGED <<store, wire, proc>>

\* Mutant: the error callback answers 502 and forgets the capture.
ProxyErrorForgets(r) ==
    /\ cap[r].phase \in {"forwarded", "delivering", "committing", "failing"}
    /\ cap' = [cap EXCEPT ![r].phase = IF @ = "forwarded" THEN "abandoned" ELSE @]
    /\ client' = [client EXCEPT ![r] = ErrorOrDestroy(@)]
    /\ UNCHANGED <<store, wire, proc>>

\* The proxy's error callback; it may also fire while a delivery is running,
\* which it does not stop: only the outcome and the response are affected.
ProxyError(r) ==
    /\ cap[r].phase \in {"forwarded", "delivering", "committing", "failing"}
    /\ cap' = [cap EXCEPT ![r] =
                 [Finish(@, "upstream_error") EXCEPT
                    !.phase = IF cap[r].phase = "forwarded" THEN "abandoned" ELSE cap[r].phase]]
    /\ client' = [client EXCEPT ![r] = ErrorOrDestroy(@)]
    /\ UNCHANGED <<store, wire, proc>>

\* The client closes, or the 570 s deadline destroys the response.
Disconnect(r) ==
    /\ cap[r].phase \in {"intent", "admitted", "forwarded", "delivering", "committing", "failing"}
    /\ ~client[r].gone
    /\ client' = [client EXCEPT ![r].gone = TRUE]
    /\ cap' = [cap EXCEPT ![r] =
                 IF @.phase \in {"admitted", "forwarded"}
                 THEN Finish(@, "client_disconnect") ELSE @]
    /\ UNCHANGED <<store, wire, proc>>

-----------------------------------------------------------------------------
(* deliverAuditedResponse(). *)

\* Headers of the upstream answer: capture.response() writes the header blob.
Respond(r, f) ==
    /\ cap[r].phase = "forwarded" /\ cap[r].fin = "open"
    /\ cap' = [cap EXCEPT ![r].phase = "delivering", ![r].op = "header", ![r].info = f]
    /\ wire' = [wire EXCEPT ![r] = {Header(f)}]
    /\ UNCHANGED <<store, client, proc>>

\* An unsupported or compressed answer, or a capture that is finished already.
RespondRejected(r) ==
    /\ cap[r].phase = "forwarded"
    /\ cap' = [cap EXCEPT ![r] = Abort(@, "upstream_error", client[r].gone)]
    /\ UNCHANGED <<store, wire, client, proc>>

HeaderAck(r) ==
    /\ cap[r].op = "header" /\ Acked(r)
    /\ cap' = [cap EXCEPT ![r].op = "idle"]
    /\ wire' = [wire EXCEPT ![r] = {}]
    /\ UNCHANGED <<store, client, proc>>

\* write() failed: nothing more is written for this request, whatever landed.
JournalWriteFail(r) ==
    /\ cap[r].op \in {"header", "frame"}
    /\ cap' = [cap EXCEPT ![r] =
                 [Abort(@, "upstream_error", client[r].gone) EXCEPT !.op = "idle", !.uncertain = TRUE]]
    /\ proc' = [proc EXCEPT !.cooling = TRUE]
    /\ UNCHANGED <<store, wire, client>>

Reading(r) == cap[r].phase = "delivering" /\ cap[r].op = "idle"

\* capture.frame(text): complete SSE events, or the whole JSON body.
SendFrame(r, t) ==
    /\ Reading(r) /\ cap[r].fin = "open"
    /\ cap[r].info = "json" => t = "terminal"
    /\ Len(cap[r].frames) < MaxFrames
    /\ cap' = [cap EXCEPT ![r].op = "frame"]
    /\ wire' = [wire EXCEPT ![r] = {Frame(Append(cap[r].frames, t))}]
    /\ UNCHANGED <<store, client, proc>>

\* capture.frame() throws: finished already, or over the byte or frame limit
\* (normalised SSE text can be longer than the bytes the read loop counted).
FrameRejected(r) ==
    /\ Reading(r) /\ (cap[r].fin = "open" => cap[r].info = "sse")
    /\ cap' = [cap EXCEPT ![r] =
                 [Abort(@, "upstream_error", client[r].gone) EXCEPT
                    !.truncated = cap[r].truncated \/ cap[r].fin = "open"]]
    /\ UNCHANGED <<store, wire, client, proc>>

\* The read loop throws: limit, framing, or an upstream that broke off.
StreamFault(r, o) ==
    /\ Reading(r)
    /\ cap' = [cap EXCEPT ![r] = Abort(@, o, client[r].gone)]
    /\ UNCHANGED <<store, wire, client, proc>>

\* Mutant: the frame is forwarded while its put is still in flight.
FrameAckUnawaited(r) ==
    /\ cap[r].op = "frame" /\ ~client[r].gone
    /\ \E o \in wire[r] :
        /\ cap' = [cap EXCEPT ![r].op = "idle", ![r].frames = o.chain]
        /\ client' = [client EXCEPT ![r].reply = "streaming", ![r].sent = o.chain]
    /\ UNCHANGED <<store, wire, proc>>

\* The frame is durable.  SSE forwards it now, unless the response is over;
\* a JSON body is held back until the commit.
FrameAck(r) ==
    /\ cap[r].op = "frame" /\ Acked(r)
    /\ \E o \in wire[r] :
        LET c    == [cap[r] EXCEPT !.op = "idle", !.frames = o.chain]
            open == ~client[r].gone /\ client[r].reply \in {"none", "streaming"}
        IN \/ /\ c.info = "json"
              /\ cap' = [cap EXCEPT ![r] = [Finish(c, "upstream_end") EXCEPT !.phase = "committing"]]
              /\ UNCHANGED client
           \/ /\ c.info = "sse" /\ open
              /\ cap' = [cap EXCEPT ![r] = c]
              /\ client' = [client EXCEPT ![r].reply = "streaming", ![r].sent = o.chain]
           \/ /\ c.info = "sse" /\ ~open
              /\ cap' = [cap EXCEPT ![r] = Abort(c, "upstream_error", client[r].gone)]
              /\ UNCHANGED client
    /\ wire' = [wire EXCEPT ![r] = {}]
    /\ UNCHANGED <<store, proc>>

StreamEnd(r) ==
    /\ Reading(r) /\ cap[r].info = "sse"
    /\ cap' = [cap EXCEPT ![r] = [Finish(@, "upstream_end") EXCEPT !.phase = "committing"]]
    /\ UNCHANGED <<store, wire, client, proc>>

\* The commit is known: only now does the client see a clean end.
CommitDone(r) ==
    /\ cap[r].phase = "committing" /\ cap[r].res = "true"
    /\ cap' = [cap EXCEPT ![r].phase = "done"]
    /\ client' = [client EXCEPT ![r] =
                    IF @.gone \/ @.reply = "error" THEN @ ELSE [@ EXCEPT !.reply = "ended"]]
    /\ UNCHANGED <<store, wire, proc>>

FailDone(r) ==
    /\ \/ cap[r].phase = "committing" /\ cap[r].res = "false"
       \/ cap[r].phase = "failing" /\ cap[r].res # "pending"
    /\ cap' = [cap EXCEPT ![r].phase = "done"]
    /\ client' = [client EXCEPT ![r] = ErrorOrDestroy(@)]
    /\ UNCHANGED <<store, wire, proc>>

-----------------------------------------------------------------------------
(* finish(): queued behind the write in flight, then end, record, index. *)

MyEnd(c)    == End(c.fin, c.info, c.frames, c.truncated)
MyRecord(c) == Record(c.fin, c.info, c.frames, c.truncated, FALSE)

Finishing(r) ==
    /\ cap[r].phase \in {"delivering", "committing", "failing", "admitted", "forwarded", "abandoned"}
    /\ cap[r].fin # "open" /\ cap[r].res = "pending"

\* Mutant: an end marker is written although an earlier put may have landed.
FinishStartUncertain(r) ==
    /\ Finishing(r) /\ cap[r].op = "idle"
    /\ cap' = [cap EXCEPT ![r].op = "end"]
    /\ wire' = [wire EXCEPT ![r] = {MyEnd(cap[r])}]
    /\ UNCHANGED <<store, client, proc>>

FinishStart(r) ==
    /\ Finishing(r) /\ cap[r].op = "idle" /\ ~cap[r].uncertain
    /\ cap' = [cap EXCEPT ![r].op = "end"]
    /\ wire' = [wire EXCEPT ![r] = {MyEnd(cap[r])}]
    /\ UNCHANGED <<store, client, proc>>

\* finish()'s catch and finally: the slot is freed, the writer cools down.
FinishFalse(r) ==
    /\ Finishing(r)
    /\ \/ cap[r].op = "idle" /\ cap[r].uncertain
       \/ cap[r].op \in {"end", "record", "index"}
    /\ cap' = [cap EXCEPT ![r].op = "idle", ![r].res = "false", ![r].frames = << >>]
    /\ proc' = Release(proc, TRUE)
    /\ UNCHANGED <<store, wire, client>>

EndAck(r) ==
    /\ cap[r].op = "end" /\ Acked(r)
    /\ cap' = [cap EXCEPT ![r].op = "record"]
    /\ wire' = [wire EXCEPT ![r] = {MyRecord(cap[r])}]
    /\ UNCHANGED <<store, client, proc>>

RecordAck(r) ==
    /\ cap[r].op = "record" /\ Acked(r)
    /\ cap' = [cap EXCEPT ![r].op = "index"]
    /\ wire' = [wire EXCEPT ![r] = {Index(MyRecord(cap[r]))}]
    /\ UNCHANGED <<store, client, proc>>

IndexAck(r) ==
    /\ cap[r].op = "index" /\ Acked(r)
    /\ cap' = [cap EXCEPT ![r].op = "idle", ![r].res = "true", ![r].frames = << >>]
    /\ wire' = [wire EXCEPT ![r] = {}]
    /\ proc' = Release(proc, FALSE)
    /\ UNCHANGED <<store, client>>

-----------------------------------------------------------------------------
(* The process. *)

\* 30 s after the last failure begin() admits requests again.
CoolDown ==
    /\ proc.cooling
    /\ proc' = [proc EXCEPT !.cooling = FALSE]
    /\ UNCHANGED <<store, wire, cap, client>>

Over == {"new", "refused", "done", "lost"}

\* The process dies (crash, kill, exit after the drain deadline): all memory
\* and all connections are lost, blobs on the wire are not.
Crash ==
    /\ proc.up
    /\ proc' = [up |-> FALSE, active |-> 0, cooling |-> FALSE]
    /\ cap' = [r \in Requests |->
                 IF cap[r].phase \in Over THEN cap[r]
                 ELSE [cap[r] EXCEPT !.phase = "lost", !.op = "idle", !.frames = << >>]]
    /\ client' = [r \in Requests |->
                    IF cap[r].phase \in Over THEN client[r]
                    ELSE [client[r] EXCEPT !.gone = TRUE]]
    /\ UNCHANGED <<store, wire>>

Restart ==
    /\ ~proc.up
    /\ proc' = [proc EXCEPT !.up = TRUE]
    /\ UNCHANGED <<store, wire, cap, client>>

-----------------------------------------------------------------------------
Deliver(r) ==
    \/ \E f \in Formats : Respond(r, f)
    \/ RespondRejected(r)
    \/ HeaderAck(r)
    \/ JournalWriteFail(r)
    \/ \E t \in Texts : SendFrame(r, t)
    \/ FrameRejected(r)
    \/ \E o \in Faults : StreamFault(r, o)
    \/ FrameAck(r)
    \/ StreamEnd(r)
    \/ CommitDone(r)
    \/ FailDone(r)

Complete(r) ==
    FinishStart(r) \/ FinishFalse(r) \/ EndAck(r) \/ RecordAck(r) \/ IndexAck(r)

Handle(r) ==
    \/ BeginRefused(r) \/ Begin(r) \/ IntentAck(r) \/ RequestAck(r) \/ BeginFail(r)
    \/ Forward(r)
    \/ \E o \in Denials : Reject(r, o)
    \/ ProxyError(r)

Next ==
    \/ \E r \in Requests :
         Land(r) \/ Handle(r) \/ Deliver(r) \/ Complete(r) \/ Disconnect(r)
    \/ CoolDown
    \/ Crash
    \/ Restart

Spec == Init /\ [][Next]_vars

-----------------------------------------------------------------------------
(* Fairness.  Every put resolves within its 15 s abort signal, the guardrail *)
(* within 5 s, and promise continuations run; the 570 s deadline destroys a  *)
(* response that is still open; a closed response destroys the upstream      *)
(* request.  Nothing is assumed of the upstream, of the client or of which   *)
(* way a put resolves.                                                       *)

Proceed(r) ==
    \/ IntentAck(r) \/ RequestAck(r) \/ BeginFail(r)
    \/ Forward(r) \/ (\E o \in Denials : Reject(r, o))
    \/ HeaderAck(r) \/ FrameAck(r) \/ JournalWriteFail(r)
    \/ Complete(r) \/ CommitDone(r) \/ FailDone(r)

HangUp(r) ==
    /\ client[r].gone
    /\ \/ cap[r].phase = "forwarded" /\ ProxyError(r)
       \/ StreamFault(r, "upstream_error")

FairSpec ==
    /\ Spec
    /\ \A r \in Requests :
          /\ WF_vars(Proceed(r))
          /\ WF_vars(Disconnect(r))
          /\ WF_vars(HangUp(r))

-----------------------------------------------------------------------------
(* Properties. *)

Phases == {"new", "intent", "refused", "admitted", "forwarded", "delivering",
           "committing", "failing", "abandoned", "done", "lost"}
Ops    == {"idle", "pending", "request", "header", "frame", "end", "record", "index"}

Caps == [phase : Phases, op : Ops, fin : Outcomes \cup {"open"},
         res : {"pending", "true", "false"}, info : Formats \cup {"none"},
         frames : Seq(Texts), truncated : BOOLEAN, uncertain : BOOLEAN]

Clients == [reply : {"none", "streaming", "ended", "error"}, gone : BOOLEAN, sent : Seq(Texts)]

RecordBlobs ==
    [kind : {"record"}, outcome : Outcomes \cup {"process_interrupted"},
     format : Formats \cup {"none"}, chain : Seq(Texts), truncated : BOOLEAN,
     recovered : BOOLEAN, complete : BOOLEAN]

Blobs ==
    [kind : {"pending", "request"}]
    \cup [kind : {"header"}, format : Formats]
    \cup [kind : {"frame"}, chain : Seq(Texts)]
    \cup [kind : {"end"}, outcome : Outcomes, format : Formats \cup {"none"},
          chain : Seq(Texts), truncated : BOOLEAN]
    \cup RecordBlobs
    \cup [kind : {"index"}, contentHash : RecordBlobs]

\* Types of the state the durable writer, the delivery and the store keep.
TypeOK ==
    /\ store \in [Requests -> SUBSET Blobs]
    /\ wire \in [Requests -> SUBSET Blobs]
    /\ cap \in [Requests -> Caps]
    /\ client \in [Requests -> Clients]
    /\ proc \in [up : BOOLEAN, active : Nat, cooling : BOOLEAN]

Begun == {"admitted", "forwarded", "delivering", "committing", "failing", "abandoned"}

\* Requests that hold one of the writer's maxActive slots.
Holding == {r \in Requests : \/ cap[r].phase = "intent"
                             \/ cap[r].phase \in Begun /\ cap[r].res = "pending"}

\* Fail closed: the upstream model is called only for a request whose intent
\* and redacted body are durable, whatever put() reported (begin() before
\* proxy() in proxy.mjs).
NoForwardWithoutIntent ==
    \A r \in Requests :
        cap[r].phase \in Begun \/ cap[r].fin # "open" => {Pending, Request} \subseteq store[r]

Durable(r, chain) == \A k \in 1..Len(chain) : Frame(SubSeq(chain, 1, k)) \in store[r]

\* Every event frame the client has received is a durable journal frame, chained
\* to all frames before it, also after a crash (the delivery loop of
\* audit-delivery.mjs).
FramesDurable ==
    \A r \in Requests : Durable(r, client[r].sent)

\* Persist before forward: neither does a request reach the model, nor a frame
\* the client, before what it rests on is durable.
PersistBeforeForward == NoForwardWithoutIntent /\ FramesDurable

Framed(r) == {b.chain : b \in {x \in store[r] : x.kind = "frame"}}

\* The writer's counter is exact: every way a request can end gives its slot
\* back once and only once, so the limit neither leaks nor is exceeded.
SlotsExact ==
    /\ proc.active = Cardinality(Holding)
    /\ proc.active <= MaxActive

\* Why the invariants above are inductive: which put can be under way in which
\* phase of the handler, what it carries, and what is durable by then.
PutInPhase(r) ==
    /\ cap[r].phase \in {"new", "intent"} => cap[r].res = "pending" /\ cap[r].fin = "open"
    /\ cap[r].op \in {"pending", "request"} => cap[r].phase = "intent"
    /\ cap[r].op \in {"header", "frame"} => cap[r].phase = "delivering"
    /\ cap[r].op \in {"end", "record", "index"} => Finishing(r)
    /\ cap[r].op = "pending" => wire[r] = {Pending}
    /\ cap[r].op = "request" => wire[r] = {Request} /\ Pending \in store[r]
    /\ cap[r].op = "frame" => \E t \in Texts : wire[r] = {Frame(Append(cap[r].frames, t))}
    /\ Durable(r, cap[r].frames)

PutsInPhase == \A r \in Requests : PutInPhase(r)

\* Every admitted request ends: its slot is freed and its handler is over.
EveryCaptureEnds ==
    \A r \in Requests : r \in Holding ~>
        \/ cap[r].phase \in {"refused", "done", "lost"}
        \/ cap[r].phase = "abandoned" /\ cap[r].res # "pending"
-----------------------------------------------------------------------------
(* The abstract specification: what the journal's blobs say is a ledger.     *)

Longest(r) == CHOOSE c \in Framed(r) \cup {<< >>} : \A d \in Framed(r) : Len(d) <= Len(c)

\* A JSON client has its whole body the moment it sees the end.
Shown(r) == IF client[r].reply = "ended" /\ cap[r].info = "json" THEN Longest(r) ELSE client[r].sent

Verdicts(r) == {[outcome |-> b.contentHash.outcome, chain |-> b.contentHash.chain] :
                  b \in {x \in store[r] : x.kind = "index"}}

Ledger == INSTANCE AuditLedger WITH
    intent   <- {r \in Requests : {Pending, Request} \subseteq store[r]},
    answered <- {r \in Requests : cap[r].info # "none"},
    written  <- [r \in Requests |-> Longest(r)],
    shown    <- [r \in Requests |-> Shown(r)],
    seal     <- [r \in Requests |-> Verdicts(r)],
    ended    <- {r \in Requests : client[r].reply = "ended"}

\* The durable path implements the ledger: every put that lands late or twice,
\* every lost answer, error and crash is a step of it or changes nothing, so
\* text is only appended, shown in order and never ahead of the store, and an
\* entry is sealed once, over all that was written.
ImplementsLedger == Ledger!Spec
=============================================================================
