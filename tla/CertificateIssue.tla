-------------------------- MODULE CertificateIssue --------------------------
(***************************************************************************)
(* certificate-renew (scripts/certificate_runtime.py): a certificate for the  *)
(* API host by ACME with a DNS-01 challenge.  Four parties keep state: the CA *)
(* (orders), the DNS zone (TXT values), the pending state and the certificate *)
(* in the Vault.  The pending state is saved before each step of the others.  *)
(*                                                                          *)
(* Runs do not overlap; each may fail, or be killed, between any two requests.*)
(***************************************************************************)
EXTENDS Integers, Sequences, FiniteSets

CONSTANTS
    MaxOrders, \* bound on orders placed
    MaxImports \* bound on certificates imported by hand

ASSUME CertificateAssumption == MaxOrders \in Nat /\ MaxImports \in Nat

VARIABLES
    orders,  \* orders[o] at the CA: "open" or "final"
    certs,   \* certs[c]: time left of each certificate there is
    txt,     \* orders whose validation is in the zone
    pending, \* the pending state in the Vault, if any: [phase, order, txt, cert]
    tls,     \* the certificate secret: [cert (0: none), managed]
    run,     \* the run under way, if any: [step, state, saved, seen]
    settled, \* orders whose certificate was installed, or that people dealt with
    imports  \* certificates imported so far

certificateVars == <<orders, certs, txt, pending, tls, run, settled, imports>>

\* More than 30 days left; more than 7; less.
Lives == <<"fresh", "due", "stale">>

CertificateInit ==
    /\ orders = << >> /\ certs = << >> /\ txt = {} /\ pending = {}
    /\ tls = [cert |-> 0, managed |-> FALSE]
    /\ run = {} /\ settled = {} /\ imports = 0

-----------------------------------------------------------------------------
\* A certificate with more than 30 days left is kept; one that is no longer
\* valid is replaced only when this workflow wrote it.
Renewable ==
    tls.cert # 0 => \/ certs[tls.cert] = "due"
                    \/ certs[tls.cert] = "stale" /\ tls.managed

\* The pending state is done with when its certificate is the current one.
Resumed == {p \in pending : ~(p.phase = "issued" /\ p.cert = tls.cert)}

Fresh == [phase |-> "prepared", order |-> 0, txt |-> FALSE, cert |-> 0]

\* Mutant: an issued certificate is taken from the state and that is all.
ResumeAtIssued(phase) ==
    CASE phase = "prepared" -> "ordering" [] phase = "ordered" -> "remember" [] OTHER -> "check"

\* Where a run continues; a validation the state knows of is removed in any case.
ResumeAt(phase) ==
    CASE phase = "prepared" -> "ordering" [] phase = "ordered" -> "remember" [] OTHER -> "clean"

\* An order that may or may not have been placed stops every run.
BeginRun ==
    /\ run = {} /\ Renewable
    /\ IF Resumed = {}
       THEN run' = {[state |-> Fresh, step |-> "prepare", saved |-> pending, seen |-> tls]}
       ELSE \E p \in Resumed :
               /\ p.phase # "ordering"
               /\ run' = {[state |-> p, step |-> ResumeAt(p.phase), saved |-> pending, seen |-> tls]}
    /\ UNCHANGED <<orders, certs, txt, pending, tls, settled, imports>>

\* save(): refused when the state is not the one this run saved last.
Save(r, state, next) ==
    /\ pending = r.saved
    /\ pending' = {state}
    /\ run' = {[r EXCEPT !.state = state, !.saved = {state}, !.step = next]}

SavePrepared ==
    \E r \in run :
        /\ r.step = "prepare" /\ Save(r, r.state, "ordering")
        /\ UNCHANGED <<orders, certs, txt, tls, settled, imports>>

SaveOrdering ==
    \E r \in run :
        /\ r.step = "ordering" /\ Save(r, [r.state EXCEPT !.phase = "ordering"], "order")
        /\ UNCHANGED <<orders, certs, txt, tls, settled, imports>>

NewOrder ==
    \E r \in run :
        /\ r.step = "order" /\ Len(orders) < MaxOrders
        /\ orders' = Append(orders, "open")
        /\ run' = {[r EXCEPT !.state.order = Len(orders'), !.step = "ordered"]}
        /\ UNCHANGED <<certs, txt, pending, tls, settled, imports>>

SaveOrdered ==
    \E r \in run :
        /\ r.step = "ordered" /\ Save(r, [r.state EXCEPT !.phase = "ordered"], "remember")
        /\ UNCHANGED <<orders, certs, txt, tls, settled, imports>>

\* The validation is saved before it is published; an authorization that is
\* valid already needs none.
SaveValidation ==
    \E r \in run :
        /\ r.step = "remember"
        /\ \/ Save(r, [r.state EXCEPT !.txt = TRUE], "publish")
           \/ run' = {[r EXCEPT !.step = "finalize"]} /\ pending' = pending
        /\ UNCHANGED <<orders, certs, txt, tls, settled, imports>>

PublishTxt ==
    \E r \in run :
        /\ r.step = "publish"
        /\ txt' = txt \cup {r.state.order}
        /\ run' = {[r EXCEPT !.step = "finalize"]}
        /\ UNCHANGED <<orders, certs, pending, tls, settled, imports>>

\* The CA finalizes an order once.
FinalizeOrder ==
    \E r \in run :
        /\ r.step = "finalize" /\ orders[r.state.order] = "open"
        /\ orders' = [orders EXCEPT ![r.state.order] = "final"]
        /\ certs' = Append(certs, "fresh")
        /\ run' = {[r EXCEPT !.state.cert = Len(certs'), !.step = "issued"]}
        /\ UNCHANGED <<txt, pending, tls, settled, imports>>

SaveIssued ==
    \E r \in run :
        /\ r.step = "issued" /\ Save(r, [r.state EXCEPT !.phase = "issued"], "clean")
        /\ UNCHANGED <<orders, certs, txt, tls, settled, imports>>

RemoveTxt ==
    \E r \in run :
        /\ r.step = "clean"
        /\ txt' = IF r.state.txt THEN txt \ {r.state.order} ELSE txt
        /\ run' = {[r EXCEPT !.step = "check"]}
        /\ UNCHANGED <<orders, certs, pending, tls, settled, imports>>

\* The certificate is valid, and the secret is the one the plan saw.
CheckSecret ==
    \E r \in run :
        /\ r.step = "check" /\ certs[r.state.cert] # "stale" /\ tls = r.seen
        /\ run' = {[r EXCEPT !.step = "install"]}
        /\ UNCHANGED <<orders, certs, txt, pending, tls, settled, imports>>

Install ==
    \E r \in run :
        /\ r.step = "install"
        /\ tls' = [cert |-> r.state.cert, managed |-> TRUE]
        /\ settled' = settled \cup {r.state.order}
        /\ run' = {}
        /\ UNCHANGED <<orders, certs, txt, pending, imports>>

\* A step fails: once the order is known a validation is removed on the way out.
RunFails ==
    \E r \in run :
        /\ txt' = IF r.step \in {"publish", "finalize", "issued"} /\ r.state.txt
                  THEN txt \ {r.state.order} ELSE txt
        /\ run' = {}
        /\ UNCHANGED <<orders, certs, pending, tls, settled, imports>>

\* The run is killed, or the removal fails as well.
RunDies ==
    /\ run # {} /\ run' = {}
    /\ UNCHANGED <<orders, certs, txt, pending, tls, settled, imports>>

-----------------------------------------------------------------------------
\* People inspect the CA account and the zone and clear the pending state.
ClearPending ==
    /\ run = {} /\ pending # {}
    /\ pending' = {} /\ txt' = {} /\ settled' = DOMAIN orders
    /\ UNCHANGED <<orders, certs, tls, run, imports>>

Import ==
    /\ imports < MaxImports /\ imports' = imports + 1
    /\ certs' = Append(certs, "fresh")
    /\ tls' = [cert |-> Len(certs'), managed |-> FALSE]
    /\ UNCHANGED <<orders, txt, pending, run, settled>>

MonthPasses ==
    /\ run = {}
    /\ \E c \in DOMAIN certs, i \in 1..2 : certs[c] = Lives[i] /\ certs' = [certs EXCEPT ![c] = Lives[i + 1]]
    /\ UNCHANGED <<orders, txt, pending, tls, run, settled, imports>>

CertificateNext ==
    \/ BeginRun \/ SavePrepared \/ SaveOrdering \/ NewOrder \/ SaveOrdered
    \/ SaveValidation \/ PublishTxt \/ FinalizeOrder \/ SaveIssued \/ RemoveTxt
    \/ CheckSecret \/ Install \/ RunFails \/ RunDies
    \/ ClearPending \/ Import \/ MonthPasses

CertificateSpec == CertificateInit /\ [][CertificateNext]_certificateVars

-----------------------------------------------------------------------------
(* Properties. *)

\* Wherever runs break off, the pending state accounts for what they left: for
\* each validation in the zone, and for each order, but for the one order that
\* may have been placed while the state says "ordering".
LeftoversKnown ==
    /\ \A t \in txt : \E p \in pending : p.order = t /\ p.txt
    /\ \A o \in DOMAIN orders \ settled :
          \E p \in pending : p.order = o \/ (p.phase = "ordering" /\ o = Len(orders))
=============================================================================
