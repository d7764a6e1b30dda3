----------------------------- MODULE LegacyEntry -----------------------------
(***************************************************************************)
(* The source restriction of the legacy gateway (scripts/legacy_access.py): *)
(* one Service or Ingress, whose allowed sources are narrowed and given     *)
(* back, and the ConfigMap llmgw-legacy-access that says how.               *)
(*                                                                          *)
(* One operation runs at a time; whoever else manages the legacy cluster is *)
(* not excluded.                                                            *)
(***************************************************************************)
EXTENDS Integers, FiniteSets

CONSTANTS
    Clients,       \* sources that may be allowed
    MaxEntryEdits  \* bound on edits by somebody else

ASSUME EntryAssumption == Clients # {} /\ MaxEntryEdits \in Nat

VARIABLES
    entry,      \* what access_view shows: [rest, sources]
    cycle,      \* the checkpoint: the state in the ConfigMap, if there is one
    allowed,    \* legacyAccess.allowedCidrs
    offered,    \* the plan that was put up for approval last, if any
    operation,  \* the execution under way, if any
    before,     \* history: the entry as it is without this operation
    entryEdits  \* edits by somebody else so far

entryVars == <<entry, cycle, allowed, offered, operation, before, entryEdits>>

Ranges == (SUBSET Clients) \ {{}}
Unset == {}                                \* no source is named, so every source is admitted
Admitted(sources) == IF sources = Unset THEN Clients \cup {"anyone"} ELSE sources

EntryInit ==
    /\ entry \in [rest: {0}, sources: Ranges \cup {Unset}]
    /\ cycle = {} /\ allowed \in Ranges
    /\ offered = {} /\ operation = {}
    /\ before = entry /\ entryEdits = 0

\* Whoever sets the restricted ranges by hand has done what the operation does:
\* they are the operation's to take back.
Unrestricted(e, cycles, otherwise) ==
    IF \E c \in cycles : e = c.restricted
    THEN (CHOOSE c \in cycles : TRUE).original ELSE otherwise

-----------------------------------------------------------------------------
(* access_plan *)

\* access_target, and the checkpoint: the entry is the one that was reviewed and
\* as this operation found or left it.
Recognized == \A c \in cycle : entry \in {c.original, c.restricted}

\* restricted_value: the new ranges lie in the ranges there are.
Narrower == entry.sources # Unset => allowed \subseteq entry.sources

\* Mutant: a restriction of a restricted entry starts another cycle.
StartsCycleAgain == \A c \in cycle : c.phase \in {"restored", "restricted"}

StartsCycle == \A c \in cycle : c.phase = "restored" /\ entry = c.original

\* The states a restriction may work from: a cycle that begins here, or the one
\* that was begun, if the policy is still its policy.
Restriction ==
    {c \in IF StartsCycle
           THEN IF Narrower
                THEN {[phase |-> "restricting", original |-> entry,
                       restricted |-> [entry EXCEPT !.sources = allowed]]}
                ELSE {}
           ELSE {c \in cycle : c.phase \notin {"restoring", "restored"}} :
        c.restricted.sources = allowed}

\* access_plan and the phase that the execution will save first.
EntryPlans(action) ==
    IF ~Recognized THEN {}
    ELSE {[action |-> action, from |-> entry, found |-> cycle,
           state |-> [c EXCEPT !.phase = IF action = "restrict" THEN "restricting" ELSE "restoring"],
           desired |-> IF action = "restrict" THEN c.restricted ELSE c.original] :
              c \in IF action = "restrict" THEN Restriction ELSE cycle}

\* operation plan
Offer(action) ==
    /\ operation = {}
    /\ EntryPlans(action) # {} /\ offered' = EntryPlans(action)
    /\ UNCHANGED <<entry, cycle, allowed, operation, before, entryEdits>>

-----------------------------------------------------------------------------
(* access_operation, operation execute *)

\* The plan is made again and must be the approved one.
StartExecute ==
    \E p \in offered :
        /\ operation = {} /\ p \in EntryPlans(p.action)
        /\ operation' = {[plan |-> p, step |-> "checkpoint", same |-> TRUE]}
        /\ UNCHANGED <<entry, cycle, allowed, offered, before, entryEdits>>

Proceeds(o, step) == operation' = {[o EXCEPT !.step = step]}

SaveIntent ==
    \E o \in operation :
        /\ o.step = "checkpoint"
        /\ cycle' = {o.plan.state}
        /\ Proceeds(o, IF o.plan.from = o.plan.desired THEN "confirm" ELSE "patch")
        /\ before' = Unrestricted(entry, cycle', before)
        /\ UNCHANGED <<entry, allowed, offered, entryEdits>>

\* access_patch tests uid and resourceVersion: the patch lands only on the object
\* that was read.
Unedited(o) == o.same

PatchEntry ==
    \E o \in operation :
        /\ o.step = "patch" /\ Unedited(o)
        /\ entry' = [entry EXCEPT !.sources = o.plan.desired.sources]
        /\ Proceeds(o, "confirm")
        /\ UNCHANGED <<cycle, allowed, offered, before, entryEdits>>

Confirm ==
    \E o \in operation :
        /\ o.step = "confirm" /\ entry = o.plan.desired
        /\ Proceeds(o, "done")
        /\ UNCHANGED <<entry, cycle, allowed, offered, before, entryEdits>>

SaveDone ==
    \E o \in operation :
        /\ o.step = "done"
        /\ cycle' = {[o.plan.state EXCEPT
                             !.phase = IF o.plan.action = "restrict" THEN "restricted" ELSE "restored"]}
        /\ operation' = {}
        /\ UNCHANGED <<entry, allowed, offered, before, entryEdits>>

\* Any call fails or its answer is lost, or the runner dies.
ExecuteDies ==
    /\ operation # {} /\ operation' = {}
    /\ UNCHANGED <<entry, cycle, allowed, offered, before, entryEdits>>

-----------------------------------------------------------------------------
(* Somebody else. *)

\* The customer edits the policy; the execution has its own copy.
EditPolicy ==
    /\ allowed' \in Ranges \ {allowed}
    /\ UNCHANGED <<entry, cycle, offered, operation, before, entryEdits>>

\* The entry is edited, or replaced, by hand.
EditEntry ==
    /\ entryEdits < MaxEntryEdits /\ entryEdits' = entryEdits + 1
    /\ entry' \in [rest: {entry.rest, entry.rest + 1}, sources: Ranges \cup {Unset}] \ {entry}
    /\ before' = Unrestricted(entry', cycle, entry')
    /\ operation' = {[o EXCEPT !.same = FALSE] : o \in operation}
    /\ UNCHANGED <<cycle, allowed, offered>>

EntryNext ==
    \/ \E action \in {"restrict", "restore"} : Offer(action)
    \/ StartExecute \/ SaveIntent \/ PatchEntry \/ Confirm \/ SaveDone \/ ExecuteDies
    \/ EditPolicy \/ EditEntry

EntrySpec == EntryInit /\ [][EntryNext]_entryVars

-----------------------------------------------------------------------------
(* Properties. *)

\* legacy_access.py:116-128: whatever cycles were begun, cut off and taken up
\* again, an entry this operation changed either has its original sources back or
\* admits no source it did not admit before, and the checkpoint says what those
\* were; an edit by somebody else is never lost.
AccessReversible ==
    entry # before =>
        \E c \in cycle :
            \/ entry = c.original
            \/ c.original = before /\ Admitted(entry.sources) \subseteq Admitted(before.sources)
=============================================================================
