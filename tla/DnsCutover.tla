----------------------------- MODULE DnsCutover -----------------------------
(***************************************************************************)
(* dns-publish and dns-rollback (scripts/dns_runtime.py) on top of the edge:  *)
(* two CNAME records, conditional writes, and a checkpoint that is saved      *)
(* before the first write.  Operations exclude those of EdgeRelease; the      *)
(* owner of the zone edits records at any moment.                             *)
(***************************************************************************)
EXTENDS EdgeRelease

CONSTANT MaxZoneEdits   \* bound on edits by the owner of the zone

ASSUME ZoneAssumption == MaxZoneEdits \in Nat

VARIABLES
    dns,        \* dns[p]: value of the record
    checkpoint, \* the saved checkpoint, if any: [conf, before, after, phase]
    change,     \* the change of records under way, if any
    zoneEdits   \* edits by the owner so far

dnsVars == <<dns, checkpoint, change, zoneEdits>>
cutoverVars == <<edgeVars, dnsVars>>

\* Values of a record: absent, what it was, something else; the endpoint of
\* Front Door 1 or 2 is 1 or 2.  Equal values stand for equal etags.
Absent == 0
Legacy == 10
Elsewhere == 11
Endpoints == [p \in Planes |-> edge.id]

CutoverInit ==
    /\ EdgeInit
    /\ dns \in [Planes -> {Absent, Legacy}]
    /\ checkpoint = {} /\ change = {} /\ zoneEdits = 0

-----------------------------------------------------------------------------
\* The checkpoint is of this configuration, and every record holds what it was
\* before or what it is to become.
Known(c) == c.conf = conf /\ \A p \in Planes : dns[p] \in {c.before[p], c.after[p]}

\* Mutant: a rolled back checkpoint is published again.
ContinuableAlways(c) == Known(c) /\ c.after = Endpoints

\* publish continues the checkpoint it finds, unless it was rolled back.
Continuable(c) == Known(c) /\ c.after = Endpoints /\ c.phase # "rolled-back"

New == [conf |-> conf, before |-> dns, after |-> Endpoints, phase |-> "prepared"]

\* The checkpoint of a publication: the one that exists, or the records as they are.
Taken == IF checkpoint # {} THEN checkpoint ELSE {New}

PublishStart ==
    /\ work = {} /\ change = {}
    /\ edge.id # 0 /\ edge.on
    /\ \A c \in checkpoint : Continuable(c)
    /\ change' = {[phase |-> "published", cp |-> Taken, want |-> Endpoints, seen |-> dns,
                   todo |-> Order, saved |-> FALSE]}
    /\ UNCHANGED <<edgeVars, dns, checkpoint, zoneEdits>>

RollbackStart ==
    /\ work = {} /\ change = {} /\ edge.id # 0
    /\ \E c \in checkpoint :
          /\ Known(c)
          /\ change' = {[phase |-> "rolled-back", cp |-> {c}, want |-> c.before, seen |-> dns,
                         todo |-> Order, saved |-> FALSE]}
    /\ UNCHANGED <<edgeVars, dns, checkpoint, zoneEdits>>

\* The records are as planned, and the checkpoint is saved before they change.
SaveCheckpoint ==
    \E g \in change :
        /\ ~g.saved /\ dns = g.seen
        /\ checkpoint' = g.cp
        /\ change' = {[g EXCEPT !.saved = TRUE]}
        /\ UNCHANGED <<edgeVars, dns, zoneEdits>>

\* If-Match, and then all records are read again.
WriteRecord ==
    \E g \in change :
        /\ g.saved /\ g.todo # << >>
        /\ LET p == Head(g.todo) IN
              IF g.seen[p] = g.want[p]
              THEN /\ change' = {[g EXCEPT !.todo = Tail(@)]}
                   /\ dns' = dns
              ELSE /\ dns[p] = g.seen[p]
                   /\ dns' = [dns EXCEPT ![p] = g.want[p]]
                   /\ change' = {[g EXCEPT !.todo = Tail(@), !.seen = dns']}
        /\ UNCHANGED <<edgeVars, checkpoint, zoneEdits>>

\* All records are as wanted; the checkpoint says so.
SavePhase ==
    \E g \in change :
        /\ g.todo = << >> /\ dns = g.want
        /\ checkpoint' = {[c EXCEPT !.phase = g.phase] : c \in g.cp}
        /\ change' = {}
        /\ UNCHANGED <<edgeVars, dns, zoneEdits>>

ChangeDies ==
    /\ change # {} /\ change' = {}
    /\ UNCHANGED <<edgeVars, dns, checkpoint, zoneEdits>>

\* The owner of the zone edits or restores a record.
ZoneEdit(p, v) ==
    /\ zoneEdits < MaxZoneEdits /\ zoneEdits' = zoneEdits + 1
    /\ v # dns[p]
    /\ dns' = [dns EXCEPT ![p] = v]
    /\ UNCHANGED <<edgeVars, checkpoint, change>>

CutoverNext ==
    \/ change = {} /\ EdgeNext /\ UNCHANGED dnsVars
    \/ PublishStart \/ RollbackStart \/ SaveCheckpoint \/ WriteRecord \/ SavePhase \/ ChangeDies
    \/ \E p \in Planes, v \in {Absent, Legacy, Elsewhere} : ZoneEdit(p, v)

CutoverSpec == CutoverInit /\ [][CutoverNext]_cutoverVars

-----------------------------------------------------------------------------
(* Properties. *)

\* A record that leads to an endpoint was written under a checkpoint that still
\* knows the way back, and that nobody has rolled back since.
WayBackKept ==
    \A p \in Planes : dns[p] \in {1, 2} =>
        \E c \in checkpoint :
            /\ c.phase # "rolled-back"
            /\ dns[p] = c.after[p] /\ c.before[p] \notin {1, 2}

\* docs/customer-deployment-workflows-zh.md:660: a record that was modified
\* externally is refused, not overwritten.  The read after the first write also
\* refreshes what the second write is conditional on.
ForeignRecordKept ==
    [][zoneEdits' = zoneEdits =>
        \A p \in Planes : dns'[p] # dns[p] =>
            \E c \in checkpoint : dns[p] \in {c.before[p], c.after[p]}]_cutoverVars
=============================================================================
