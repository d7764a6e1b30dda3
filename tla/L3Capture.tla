------------------------------ MODULE L3Capture ------------------------------
(***************************************************************************)
(* The passive capture of the L3 sidecar (l3-audit/src/record.ts, proxy.ts, *)
(* websocket.ts): one HTTP exchange and one websocket session share a       *)
(* memory budget.  The session parses both directions without delaying      *)
(* them and attributes what the server sends to the turn it guesses.        *)
(*                                                                          *)
(* A frame is one unit of the budget from its first piece on and ends with  *)
(* its last.  The server answers turns in the order it received them;       *)
(* `created' and `done' carry the response id, `delta' and `error' do not.  *)
(***************************************************************************)
EXTENDS Integers, Sequences, FiniteSets, Functions

CONSTANTS
    MaxTurns,     \* bound on the turns of the session
    Overlap,      \* the client sends a turn before the one before has ended
    TurnLimit,    \* captures a session holds (32)
    MemoryLimit,  \* MEMORY_LIMIT, in units
    ContentLimit  \* CONTENT_LIMIT, in units

ASSUME CaptureAssumption ==
    /\ MaxTurns \in Nat /\ TurnLimit \in Nat \ {0} /\ Overlap \in BOOLEAN
    /\ MemoryLimit \in Nat /\ ContentLimit \in Nat

VARIABLES
    memory,     \* budget.bytes
    captures,   \* captures[t]: the capture of turn t; captures[0]: of the exchange
    waiting,    \* Session.pending
    active,     \* Session.active: response ids and the turn whose capture has them
    all,        \* Session.all
    taps,       \* the frame parsers of the two directions
    turns,      \* turns[t]: how far the conversation itself is with turn t
    open,       \* the session is open
    exchange    \* the HTTP exchange: [phase, complete]

l3Vars == <<memory, captures, waiting, active, all, taps, turns, open, exchange>>

Turns == 1..MaxTurns
Sides == {"client", "server"}
NoEvent == [type |-> "none", turn |-> 0]
NewTap == [size |-> 0, discarding |-> FALSE, stopped |-> FALSE, event |-> NoEvent]
NoCapture == [state |-> "none", gap |-> FALSE, held |-> 0, got |-> {}]
NewCapture == [NoCapture EXCEPT !.state = "live"]

L3Init ==
    /\ memory = 0 /\ waiting = << >> /\ active = << >> /\ all = {} /\ open = TRUE
    /\ captures = [t \in {0} \cup Turns |-> NoCapture]
    /\ taps = [s \in Sides |-> NewTap]
    /\ turns = [t \in Turns |-> "none"]
    /\ exchange = [phase |-> "none", complete |-> FALSE]

-----------------------------------------------------------------------------
(* Capture: what it keeps is charged to the budget and returned once. *)

Gap(cap) == [cap EXCEPT !.gap = TRUE]

\* The capture with n more units that belong to the turns `from', if there is
\* room for them beside the bytes in use.
Add(cap, n, from, used) ==
    IF cap.state # "live" \/ cap.gap THEN cap
    ELSE IF cap.held + n <= ContentLimit /\ used + n <= MemoryLimit
    THEN [cap EXCEPT !.held = @ + n, !.got = @ \cup from] ELSE Gap(cap)

Finish(cap) == IF cap.state = "live" THEN [cap EXCEPT !.state = "finished"] ELSE cap

\* Mutant: finish() without its guard; capturedBytes is never reset.
ReturnedTwice(cap) == cap.held

Returned(cap) == IF cap.state = "live" THEN cap.held ELSE 0

-----------------------------------------------------------------------------
(* The HTTP exchange. *)

\* What a callback of the exchange does: the new capture, the bytes it returns.
Handle(cap, back, phase) ==
    /\ captures' = [captures EXCEPT ![0] = cap]
    /\ memory' = memory + (cap.held - captures[0].held) - back
    /\ exchange' = [exchange EXCEPT !.phase = phase]
    /\ UNCHANGED <<waiting, active, all, taps, turns, open>>

Request == exchange.phase = "none" /\ Handle(NewCapture, 0, "asked")

Chunk == exchange.phase \in {"asked", "answered"}
         /\ Handle(Add(captures[0], 1, {}, memory), 0, exchange.phase)

RequestEnd ==
    /\ exchange.phase \in {"asked", "answered"} /\ ~exchange.complete
    /\ exchange' = [exchange EXCEPT !.complete = TRUE]
    /\ UNCHANGED <<memory, captures, waiting, active, all, taps, turns, open>>

Response == exchange.phase = "asked" /\ Handle(captures[0], 0, "answered")

\* The response may end before the request has.
ResponseEnd ==
    /\ exchange.phase = "answered"
    /\ Handle(Finish(IF exchange.complete THEN captures[0] ELSE Gap(captures[0])),
              Returned(captures[0]), "ended")

\* Errors of either side, an aborted request, a response closed too early:
\* several may fire, and after the end as well.
Disconnected ==
    /\ exchange.phase \in {"asked", "answered", "ended"}
    /\ Handle(Finish(captures[0]), Returned(captures[0]), "ended")

-----------------------------------------------------------------------------
(* The two frame parsers. *)

\* A gap on every turn that is held: mark().
Marked(caps) == [t \in DOMAIN caps |-> IF t \in all THEN Gap(caps[t]) ELSE caps[t]]

\* The bytes of unfinished frames.
Buffered == taps["client"].size + taps["server"].size

\* One unit of a frame: it is kept if the budget allows, else the frame is discarded.
Piece(tap) ==
    LET keeps == ~tap.stopped /\ ~tap.discarding
        fits == memory + 1 <= MemoryLimit
        next == IF ~keeps THEN tap
                ELSE IF fits THEN [tap EXCEPT !.size = @ + 1]
                ELSE [tap EXCEPT !.size = 0, !.discarding = TRUE]
    IN [tap |-> next, bytes |-> memory + (next.size - tap.size), gap |-> keeps /\ ~fits]

\* What may come next: a turn in order, something else, an answer to a turn.
Sendable == {[type |-> "create", turn |-> t] :
                t \in {u \in Turns : /\ turns[u] = "none"
                                    /\ \A v \in Turns : v < u => turns[v] \in
                                         {"ended"} \cup (IF Overlap THEN {"sent", "created"} ELSE {})}}
            \cup {[type |-> "other", turn |-> 0]}

Answerable ==
    {[type |-> "created", turn |-> t] :
        t \in {u \in Turns : turns[u] = "sent" /\ \A v \in Turns : v < u => turns[v] # "sent"}}
    \cup {[type |-> k, turn |-> t] : k \in {"delta", "done"}, t \in {u \in Turns : turns[u] = "created"}}
    \cup {[type |-> "error", turn |-> t] : t \in {u \in Turns : turns[u] \in {"sent", "created"}}}

Begun(s) == IF s = "client" THEN Sendable ELSE Answerable

Shapes == {"text", "discarded", "broken"}

\* The first piece of a frame: a text, one that is discarded (binary or too
\* large), or one the parser cannot read and stops at.
FrameBegins(s) ==
    /\ open /\ taps[s].event = NoEvent
    /\ \E e \in Begun(s), shape \in Shapes :
          LET seen == ~taps[s].stopped
              tap == [taps[s] EXCEPT !.event = e,
                                     !.discarding = seen /\ shape = "discarded",
                                     !.stopped = @ \/ shape = "broken"]
              piece == Piece(tap)
          IN /\ e.type = "other" => shape = "text"
             /\ taps' = [taps EXCEPT ![s] = piece.tap]
             /\ memory' = piece.bytes
             /\ captures' = IF piece.gap \/ (seen /\ shape # "text") THEN Marked(captures) ELSE captures
    /\ UNCHANGED <<waiting, active, all, turns, open, exchange>>

-----------------------------------------------------------------------------
(* Session: what a complete message does.                                   *)
(* A handler gives the captures, pending, active, all and the budget after  *)
(* it from the captures and the bytes in use before it.                     *)

State(caps, w, a, h, bytes) == [captures |-> caps, waiting |-> w, active |-> a, all |-> h, bytes |-> bytes]

ClientMessage(caps, used, e) ==
    IF e.type # "create" \/ Cardinality(all) >= TurnLimit
    THEN State(Marked(caps), waiting, active, all, used)
    ELSE LET cap == Add(NewCapture, 1, {}, used)
         IN State([caps EXCEPT ![e.turn] = cap], Append(waiting, e.turn), active, all \cup {e.turn},
                  used + cap.held)

\* The capture a server event is attributed to, if any.
Named(e) == IF e.type \in {"created", "done"} /\ e.turn \in DOMAIN active THEN {active[e.turn]} ELSE {}

Shifts(e) == Named(e) = {} /\ e.type \in {"created", "error"}

\* Mutant: overlapping turns are not marked.
NeverAmbiguous(e) == FALSE

Ambiguous(e) == Shifts(e) /\ Len(waiting) > 1

Attributed(e) ==
    IF Named(e) # {} THEN Named(e)
    ELSE IF Shifts(e) /\ waiting # << >> THEN {Head(waiting)}
    ELSE IF Cardinality(all) = 1 THEN all ELSE {}

Without(f, t) == [i \in {j \in DOMAIN f : f[j] # t} |-> f[i]]

\* pending without a turn: every turn is pushed once.
Withdrawn(s, t) ==
    IF \A i \in 1..Len(s) : s[i] # t THEN s
    ELSE LET i == CHOOSE j \in 1..Len(s) : s[j] = t
         IN SubSeq(s, 1, i - 1) \o SubSeq(s, i + 1, Len(s))

ServerMessage(caps, used, e) ==
    LET marked == IF Ambiguous(e) THEN Marked(caps) ELSE caps
        left == IF Shifts(e) /\ waiting # << >> THEN Tail(waiting) ELSE waiting
        known == IF Shifts(e) /\ waiting # << >> /\ e.type = "created"
                 THEN [i \in DOMAIN active \cup {e.turn} |->
                           IF i = e.turn THEN Head(waiting) ELSE active[i]]
                 ELSE active
    IN IF Attributed(e) = {} THEN State(Marked(marked), left, known, all, used)
       ELSE LET t == CHOOSE u \in Attributed(e) : TRUE
                cap == Add(marked[t], 1, {e.turn}, used)
                bytes == used + (cap.held - marked[t].held)
            IN IF e.type \notin {"done", "error"}
               THEN State([marked EXCEPT ![t] = cap], left, known, all, bytes)
               ELSE State([marked EXCEPT ![t] = Finish(cap)], Withdrawn(left, t),
                          Without(known, t), all \ {t}, bytes - Returned(cap))

\* The turn itself, whatever the parser sees of it.
Reached(e) ==
    IF e.turn = 0 \/ e.type = "delta" THEN turns
    ELSE [turns EXCEPT ![e.turn] = CASE e.type = "create" -> "sent" [] e.type = "created" -> "created"
                                     [] OTHER -> "ended"]

\* The last piece: the frame is complete, its bytes are released and, unless
\* it was discarded, its message is handled.
FrameEnds(s) ==
    /\ open /\ taps[s].event # NoEvent
    /\ LET e == taps[s].event
           used == memory - taps[s].size
           next == IF taps[s].stopped \/ taps[s].discarding
                   THEN State(captures, waiting, active, all, used)
                   ELSE IF s = "client" THEN ClientMessage(captures, used, e)
                   ELSE ServerMessage(captures, used, e)
       IN /\ captures' = next.captures /\ waiting' = next.waiting
          /\ active' = next.active /\ all' = next.all
          /\ memory' = next.bytes
          /\ turns' = Reached(e)
    /\ taps' = [taps EXCEPT ![s] = [NewTap EXCEPT !.stopped = taps[s].stopped]]
    /\ UNCHANGED <<open, exchange>>

\* close(): either socket closes or fails.
SessionCloses ==
    /\ open /\ open' = FALSE
    /\ LET partial == \E s \in Sides : taps[s].event # NoEvent /\ ~taps[s].stopped
           caps == IF partial THEN Marked(captures) ELSE captures
       IN captures' = [t \in DOMAIN caps |-> IF t \in all THEN Finish(caps[t]) ELSE caps[t]]
    /\ memory' = memory - Buffered
                 - SumFunctionOnSet([t \in DOMAIN captures |-> Returned(captures[t])], all)
    /\ taps' = [s \in Sides |-> NewTap]
    /\ waiting' = << >> /\ active' = << >> /\ all' = {}
    /\ UNCHANGED <<turns, exchange>>

L3Next ==
    \/ Request \/ Chunk \/ RequestEnd \/ Response \/ ResponseEnd \/ Disconnected
    \/ \E s \in Sides : FrameBegins(s) \/ FrameEnds(s)
    \/ SessionCloses

L3Spec == L3Init /\ [][L3Next]_l3Vars

-----------------------------------------------------------------------------
(* What the capture promises. *)

\* What the captures hold that are not finished.
HeldBy(cap) == IF cap.state = "live" THEN cap.held ELSE 0
Charged == SumFunction([t \in DOMAIN captures |-> HeldBy(captures[t])])

\* record.ts add/finish, websocket.ts feed/release/close: the shared budget is
\* exactly what the live captures and the unfinished frames hold and never more
\* than its limit, however an exchange ends and however often: bytes that leak
\* would turn off the capture for good, bytes returned twice would lift the limit.
BudgetExact ==
    /\ memory = Buffered + Charged
    /\ memory <= MemoryLimit

\* A record of a turn that is not marked as a gap has nothing of another turn.
OwnAnswers ==
    \A t \in Turns : captures[t].state = "finished" /\ ~captures[t].gap => captures[t].got \subseteq {t}

\* websocket.ts Session: as long as the client waits for the end of a turn
\* before it sends the next, frames that are dropped, refused or unreadable on
\* either side never make a record pass for complete with another turn's answer.
SerialAnswers == ~Overlap => OwnAnswers

\* docs/litellm-optional-l3-runbook-zh.md:47: turns that run at once and events
\* that cannot be associated are marked as gaps and never pass for complete.
OverlappingMarked == OwnAnswers
=============================================================================
