-------------------------- MODULE MCAuditLifecycle --------------------------
(***************************************************************************)
(* AuditLifecycle for TLC, in two parts that share nothing: the whole of it, *)
(* and, from every journal an interrupted writer leaves behind, retention    *)
(* on its own, where fairness is assumed.                                    *)
(***************************************************************************)
EXTENDS AuditLifecycle

VARIABLE part   \* "life" or "retention"

partVars == <<part, allVars>>

PartInit ==
    \/ part = "life" /\ LifeInit
    \/ part = "retention" /\ RetentionInit

InRetention(A) == part = "retention" /\ part' = part /\ A

PartNext ==
    \/ part = "life" /\ part' = part /\ LifeNext
    \/ InRetention(RetentionNext)

(* Fairness: the CronJob starts a retention Job every 15 minutes while the   *)
(* window is open, a Job is over within its activeDeadlineSeconds, and a     *)
(* removal that is attempted again and again succeeds at some time.          *)
PartSpec ==
    /\ PartInit /\ [][PartNext]_partVars
    /\ WF_partVars(InRetention(RetentionEnds))
    /\ SF_partVars(InRetention(RetentionStart))
    /\ \A r \in Requests :
          /\ SF_partVars(InRetention(PurgeBegin(r)))
          /\ SF_partVars(InRetention(PurgeContent(r)))
          /\ SF_partVars(InRetention(PurgeRequest(r)))
          /\ SF_partVars(InRetention(PurgeJournal(r)))
          /\ SF_partVars(InRetention(PurgeIndex(r)))
          /\ SF_partVars(InRetention(PurgePending(r)))

\* maintainAudit(): every expired record that is not held is deleted
\* completely, through any number of failed retention runs, unless maintenance
\* is never ended.
RetentionCompletes ==
    part = "retention" =>
        ([]<>(window = "open") =>
            \A r \in Requests : (age[r] = "expired" /\ r \notin held) ~> (store[r] = {} \/ r \in held))
=============================================================================
