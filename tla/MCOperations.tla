---------------------------- MODULE MCOperations ----------------------------
(***************************************************************************)
(* The migration operations and the L3 sidecar, one part at a time.  The    *)
(* parts share no state within an operation: a behaviour is about the part  *)
(* in focus, and the others rest in one of their initial states.  The edge  *)
(* is in focus alone and, with the edge as the release left it, below the   *)
(* DNS cutover.                                                             *)
(***************************************************************************)
EXTENDS StageGates, DnsCutover, DatabaseStage, AdminCredentials, SubjectAccess, CertificateIssue,
        RunnerLease, LegacyEntry, LegacyDeployment, L3Capture, SpoolQueue

VARIABLE focus

\* of SpoolQueue
spoolVars == <<name, file, durable, tmp, mem, tick, blob, law, dropped, seen, old, crashes, lost>>

operationsVars ==
    <<focus, gates, cutoverVars, stageFive, credentialVars, accessVars, certificateVars, runnerVars,
      entryVars, deploymentVars, l3Vars, spoolVars>>

Parts == {"gates", "edge", "dns", "database", "credentials", "access", "certificate", "runner", "entry",
          "deployment", "capture", "spool"}

\* A part that is not in focus rests in this one of its initial states.
Resting ==
    /\ focus = "gates" \/ mode = "dual"
    /\ focus \in {"edge", "dns"} \/ auth = "native"
    /\ focus = "dns" \/ dns = [p \in Planes |-> Absent]
    /\ focus = "database" \/ origin = "greenfield"
    /\ focus = "access" \/ bindings = [s \in Subjects |-> "active"]
    /\ focus = "entry" \/ (entry.sources = Unset /\ allowed = Clients)
    /\ focus = "deployment" \/ NotDeployed

OperationsInit ==
    /\ focus \in Parts
    /\ GateInit /\ CutoverInit /\ DatabaseInit /\ CredentialInit /\ AccessInit /\ CertificateInit
    /\ RunnerInit /\ EntryInit /\ DeploymentInit /\ L3Init /\ Init
    /\ Resting

Rest(f, v) == IF focus \in f THEN TRUE ELSE UNCHANGED v

OperationsNext ==
    /\ focus' = focus
    /\ Rest({"gates"}, gates) /\ Rest({"database"}, stageFive) /\ Rest({"credentials"}, credentialVars)
    /\ Rest({"access"}, accessVars) /\ Rest({"certificate"}, certificateVars) /\ Rest({"runner"}, runnerVars)
    /\ Rest({"entry"}, entryVars) /\ Rest({"deployment"}, deploymentVars)
    /\ Rest({"capture"}, l3Vars) /\ Rest({"spool"}, spoolVars) /\ Rest({"dns"}, dnsVars) /\ Rest({"edge", "dns"}, edgeVars)
    /\ \/ focus = "gates" /\ GateNext
       \/ focus = "edge" /\ EdgeNext
       \* what changes the edge from outside is left to the part "edge"
       \/ focus = "dns" /\ CutoverNext /\ outside' = outside
       \/ focus = "database" /\ DatabaseNext
       \/ focus = "credentials" /\ CredentialNext
       \/ focus = "access" /\ AccessNext
       \/ focus = "certificate" /\ CertificateNext
       \/ focus = "runner" /\ RunnerNext
       \/ focus = "entry" /\ EntryNext
       \/ focus = "deployment" /\ DeploymentNext
       \/ focus = "capture" /\ L3Next
       \/ focus = "spool" /\ Next

OperationsSpec == OperationsInit /\ [][OperationsNext]_operationsVars
=============================================================================
