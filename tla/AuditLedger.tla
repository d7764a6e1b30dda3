----------------------------- MODULE AuditLedger -----------------------------
(***************************************************************************)
(* What the durable audit path promises, without saying how: a ledger with  *)
(* one entry per request.  An entry is opened before the model answers; the *)
(* answer is written piece by piece and shown to the client only as far as  *)
(* it is written; the entry is sealed once, over exactly what was written;  *)
(* a client sees a clean end only of a sealed entry whose text it has.      *)
(* AuditJournal implements it (property ImplementsLedger).                  *)
(***************************************************************************)
EXTENDS Naturals, Sequences

CONSTANTS Requests, Texts, Outcomes

VARIABLES
    intent,    \* requests with an opened entry
    answered,  \* requests that the model has answered
    written,   \* written[r]: the text in r's entry
    shown,     \* shown[r]: the text that r's client has
    seal,      \* seal[r]: at most one verdict [outcome, chain]
    ended      \* requests whose client saw a clean end

ledger == <<intent, answered, written, shown, seal, ended>>

Init ==
    /\ intent = {} /\ answered = {} /\ ended = {}
    /\ written = [r \in Requests |-> << >>] /\ shown = written
    /\ seal = [r \in Requests |-> {}]

Open(r) ==
    /\ intent' = intent \cup {r}
    /\ UNCHANGED <<answered, written, shown, seal, ended>>

Answer(r) ==
    /\ r \in intent
    /\ answered' = answered \cup {r}
    /\ UNCHANGED <<intent, written, shown, seal, ended>>

Write(r, t) ==
    /\ r \in answered /\ seal[r] = {}
    /\ written' = [written EXCEPT ![r] = Append(@, t)]
    /\ UNCHANGED <<intent, answered, shown, seal, ended>>

\* The next piece, in order, and only if it is written.
Show(r) ==
    /\ Len(shown[r]) < Len(written[r]) /\ r \notin ended
    /\ shown' = [shown EXCEPT ![r] = SubSeq(written[r], 1, Len(@) + 1)]
    /\ UNCHANGED <<intent, answered, written, seal, ended>>

Seal(r, o) ==
    /\ r \in intent /\ seal[r] = {}
    /\ seal' = [seal EXCEPT ![r] = {[outcome |-> o, chain |-> written[r]]}]
    /\ UNCHANGED <<intent, answered, written, shown, ended>>

\* What was held back until the seal (a JSON body) is shown with the end.
CleanEnd(r) ==
    /\ r \notin ended
    /\ \E v \in seal[r] : v.outcome = "upstream_end" /\ shown' = [shown EXCEPT ![r] = v.chain]
    /\ ended' = ended \cup {r}
    /\ UNCHANGED <<intent, answered, written, seal>>

Next ==
    \E r \in Requests :
        \/ Open(r) \/ Answer(r) \/ Show(r) \/ CleanEnd(r)
        \/ \E t \in Texts : Write(r, t)
        \/ \E o \in Outcomes : Seal(r, o)

Spec == Init /\ [][Next]_ledger
=============================================================================
