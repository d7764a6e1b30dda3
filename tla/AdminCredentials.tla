-------------------------- MODULE AdminCredentials --------------------------
(***************************************************************************)
(* The OIDC client secret and the session key of the admin plane             *)
(* (scripts/admin_credentials.py) and what the published proxies pin of them  *)
(* (scripts/proxy_manifest.py).  A secret exists in two places: as a password *)
(* credential of the Entra application and as a version of the Vault secret.  *)
(* No step covers both.                                                       *)
(*                                                                          *)
(* Operations run one at a time and may die between any two requests.  One    *)
(* reads the clock when it starts.                                            *)
(***************************************************************************)
EXTENDS Integers, Sequences, FiniteSets

CONSTANTS
    MaxKeys,     \* bound on credentials ever created
    MaxSessions, \* bound on versions of the session key
    MaxRetained  \* with this many credentials rotation is refused (5)

ASSUME CredentialAssumption ==
    MaxKeys \in Nat /\ MaxSessions \in Nat \ {0} /\ MaxRetained \in Nat \ {0}

VARIABLES
    entra,   \* managed credentials of the application (key ids, 1.. in order)
    age,     \* age[k] of the credentials created so far
    versions, \* versions of the OIDC secret: the key each one holds
    session, \* version of the session key in the Vault (0: none)
    receipt, \* the saved receipt, if any: [key, session]
    pinned,  \* what the proxies were published with, if they were: [key, session]
    task,    \* the operation under way, if any
    taken    \* credentials removed from Entra by somebody else

credentialVars == <<entra, age, versions, session, receipt, pinned, task, taken>>

\* More than seven days left; less; expired; expired for a day or more.
Ages == <<"fresh", "ending", "expired", "old">>

CredentialInit ==
    /\ entra = {} /\ age = << >> /\ versions = << >> /\ session = 0
    /\ receipt = {} /\ pinned = {} /\ task = {} /\ taken = {}

Stored == {versions[v] : v \in DOMAIN versions}
Current == versions[Len(versions)]

\* Mutant: only the current version counts as a reference.
OrphanedCurrent == entra \ {versions[v] : v \in {Len(versions)} \cap DOMAIN versions}

\* Credentials in Entra that no Vault version knows.
Orphaned == entra \ Stored

\* lifecycle_state(): refused when the current version has no credential.
Coherent == versions # << >> => Current \in entra

\* inspect_credentials(), in the state a request finds.
Inspected(v, en) == IF v = << >> THEN en = {} ELSE v[Len(v)] \in en /\ age[v[Len(v)]] = "fresh"

Observed == <<entra, versions, session>>

-----------------------------------------------------------------------------
\* admin-credentials, execute: state and approval agree.
StartInitialize ==
    /\ task = {} /\ Inspected(versions, entra)
    /\ task' = {[kind |-> "initialize", step |-> IF versions = << >> THEN "key" ELSE "session", was |-> Observed]}
    /\ UNCHANGED <<entra, age, versions, session, receipt, pinned, taken>>

StartRotate ==
    /\ task = {} /\ Coherent
    /\ versions # << >> /\ session # 0 /\ Orphaned = {}
    /\ Cardinality(entra) < MaxRetained
    /\ task' = {[kind |-> "rotate", step |-> "key", was |-> Observed]}
    /\ UNCHANGED <<entra, age, versions, session, receipt, pinned, taken>>

StartSession ==
    /\ task = {} /\ Coherent
    /\ versions # << >> /\ session # 0 /\ Orphaned = {} /\ Inspected(versions, entra)
    /\ task' = {[kind |-> "session", step |-> "session", was |-> Observed]}
    /\ UNCHANGED <<entra, age, versions, session, receipt, pinned, taken>>

\* addPassword, then set_secret with what it returned.
AddKey ==
    \E t \in task :
        /\ t.step = "key" /\ Len(age) < MaxKeys
        /\ age' = Append(age, "fresh")
        /\ entra' = entra \cup {Len(age')}
        /\ task' = {[t EXCEPT !.step = "store"]}
        /\ UNCHANGED <<versions, session, receipt, pinned, taken>>

StoreKey ==
    \E t \in task :
        /\ t.step = "store"
        /\ versions' = Append(versions, Len(age))
        /\ task' = {[t EXCEPT !.step = IF t.kind = "initialize" THEN "session" ELSE "receipt"]}
        /\ UNCHANGED <<entra, age, session, receipt, pinned, taken>>

\* Initialization keeps a session key that exists.
StoreSession ==
    \E t \in task :
        /\ t.step = "session"
        /\ IF t.kind = "initialize" /\ session # 0 THEN session' = session
           ELSE session < MaxSessions /\ session' = session + 1
        /\ task' = {[t EXCEPT !.step = "receipt"]}
        /\ UNCHANGED <<entra, age, versions, receipt, pinned, taken>>

\* Everything is inspected again; what the operation does not own is as before.
SaveReceipt ==
    \E t \in task :
        /\ t.step = "receipt"
        /\ Inspected(versions, entra) /\ versions # << >> /\ session # 0
        /\ t.kind = "rotate" => session = t.was[3]
        /\ t.kind = "session" => versions = t.was[2]
        /\ receipt' = {[key |-> Current, session |-> session]}
        /\ task' = {}
        /\ UNCHANGED <<entra, age, versions, session, pinned, taken>>

-----------------------------------------------------------------------------
Expired == {k \in entra \ {Current} : age[k] = "old"}

StartRemoval(kind) ==
    /\ task = {} /\ Coherent
    /\ kind = "retire" => /\ versions # << >> /\ session # 0 /\ Orphaned = {}
                          /\ Inspected(versions, entra)
    /\ task' = {[kind |-> kind, step |-> "remove", was |-> Observed,
                 todo |-> IF kind = "retire" THEN Expired ELSE Orphaned]}
    /\ UNCHANGED <<entra, age, versions, session, receipt, pinned, taken>>

\* removePassword: the references are read again before each credential.
RemoveKey ==
    \E t \in task :
        /\ t.step = "remove"
        /\ \E k \in t.todo :
              /\ Coherent
              /\ IF t.kind = "retire"
                 THEN <<versions, session>> = <<t.was[2], t.was[3]>> /\ k \in Expired
                 ELSE k \in Orphaned
              /\ entra' = entra \ {k}
              /\ task' = {[t EXCEPT !.todo = @ \ {k}]}
        /\ UNCHANGED <<age, versions, session, receipt, pinned, taken>>

\* The removals are confirmed; a receipt is not written.
FinishRemoval ==
    \E t \in task :
        /\ t.step = "remove" /\ t.todo = {} /\ Coherent
        /\ <<versions, session>> = <<t.was[2], t.was[3]>>
        /\ t.kind = "recover" => Orphaned = {}
        /\ task' = {}
        /\ UNCHANGED <<entra, age, versions, session, receipt, pinned, taken>>

\* The proxies are published with the versions of the receipt.
PublishProxies ==
    /\ task = {}
    /\ \E r \in receipt : age[r.key] = "fresh" /\ pinned' = {r}
    /\ UNCHANGED <<entra, age, versions, session, receipt, task, taken>>

TaskDies ==
    /\ task # {} /\ task' = {}
    /\ UNCHANGED <<entra, age, versions, session, receipt, pinned, taken>>

-----------------------------------------------------------------------------
\* Weeks pass between operations.  Lifetimes are configured, so that a later
\* credential may end first.
Weeks ==
    /\ task = {}
    /\ \E k \in DOMAIN age, i \in 1..3 : age[k] = Ages[i] /\ age' = [age EXCEPT ![k] = Ages[i + 1]]
    /\ UNCHANGED <<entra, versions, session, receipt, pinned, task, taken>>

\* Somebody removes a credential.
TakeAway ==
    /\ \E k \in entra : taken' = taken \cup {k} /\ entra' = entra \ {k}
    /\ UNCHANGED <<age, versions, session, receipt, pinned, task>>

CredentialNext ==
    \/ StartInitialize \/ StartRotate \/ StartSession
    \/ AddKey \/ StoreKey \/ StoreSession \/ SaveReceipt
    \/ (\E kind \in {"recover", "retire"} : StartRemoval(kind))
    \/ RemoveKey \/ FinishRemoval \/ PublishProxies \/ TaskDies
    \/ Weeks \/ TakeAway

CredentialSpec == CredentialInit /\ [][CredentialNext]_credentialVars

-----------------------------------------------------------------------------
(* Properties. *)

\* The credential the Vault hands out, and the one the proxies were published
\* with until it has expired, are never removed by an operation, however
\* rotations, recoveries of a half-done rotation and retirements follow.
UsedKeysWork ==
    /\ versions # << >> => Current \in entra \cup taken
    /\ \A p \in pinned : age[p.key] # "old" => p.key \in entra \cup taken
=============================================================================
