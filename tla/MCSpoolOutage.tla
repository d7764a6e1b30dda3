--------------------------- MODULE MCSpoolOutage ---------------------------
(***************************************************************************)
(* The spool during a long outage of its sinks: the behaviours of SpoolQueue *)
(* in which no upload and no index is ever accepted, while records arrive    *)
(* and expire.  They are among the fair behaviours of SpoolQueue, which      *)
(* assumes nothing of the sinks.                                             *)
(***************************************************************************)
EXTENDS SpoolQueue

SinksDown == UNCHANGED sink

\* Nothing is wrong with the spool's own disk.
DiskWorks == mem'.write # "stat" /\ \A r \in Records : file'[r] # "bad"

\* A retry period of 24 h is over between two ticks, not during one.
TicksAreShort == old' \subseteq old \/ tick.step = "idle"

OutageNext == Next /\ SinksDown /\ DiskWorks /\ TicksAreShort

OutageSpec == Init /\ [][OutageNext]_vars /\ Fairness
=============================================================================
