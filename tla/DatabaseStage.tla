---------------------------- MODULE DatabaseStage ----------------------------
(***************************************************************************)
(* Stage 5 on one database, and the application that uses it: roles          *)
(* (scripts/database_roles.py), encryption keys (runtime_secrets.py), restore *)
(* (migration_runtime.py), schema migration (schema_runtime.py,              *)
(* LiteLLM/runtime/schema_migration.py), publication (backend_manifest.py)   *)
(* and the checks an application Pod makes when it starts                    *)
(* (LiteLLM/runtime/application.py).                                         *)
(*                                                                          *)
(* A workflow and the local runner may both be at work.  They are kept apart *)
(* only by advisory locks of the database, which end with their session, and *)
(* by comparing what is there with what was approved.                        *)
(***************************************************************************)
EXTENDS Integers, Sequences

CONSTANTS
    Operators,  \* a workflow job, the local runner
    LastRev,    \* revisions of the code are 1..LastRev
    MaxBreaks   \* bound on broken runs, lost keys and resolved migrations

ASSUME DatabaseAssumption == LastRev \in Nat \ {0} /\ MaxBreaks \in Nat

VARIABLES
    origin,    \* deployment mode: "greenfield" or "migration"
    head,      \* revision of the code in use
    db,        \* [n: finished migrations, failed: one is unfinished, views]
    rights,    \* [grants: given, history: llmgw_app may write the history]
    vault,     \* vault[k]: versions of the master or salt key, the latest one last
    data,      \* salt under which the stored data are encrypted (0: no data)
    receipts,  \* [schema: revision, keys: revision, salt: the version pinned]
    approved,  \* the schema plan approved last, if any: [rev, db]
    ops,       \* ops[w]: the operation w performs, if any
    app,       \* the application published last, if any: [rev, salt]
    pods,      \* running application Pods: [rev, salt]
    unlocked,  \* did an operation on keys ever lose its lock?
    breaks     \* broken runs, lost keys and resolved migrations so far

stageFive ==
    <<origin, head, db, rights, vault, data, receipts, approved, ops, app, pods, unlocked, breaks>>

Idle == {}
LegacyKey == 9     \* the key of the source system
Keys == {"master", "salt"}

\* Number of migrations in a revision; the source system has one of them.
Last(r) == r + 1
Restored == 1
Tables == db.n > 0 \/ db.failed

DatabaseInit ==
    /\ origin \in {"greenfield", "migration"} /\ head = 1
    /\ db = [n |-> 0, failed |-> FALSE, views |-> FALSE]
    /\ rights = [grants |-> FALSE, history |-> FALSE]
    /\ vault = [master |-> << >>, salt |-> << >>] /\ data = 0
    /\ receipts = [schema |-> 0, keys |-> 0, salt |-> 0]
    /\ approved = {} /\ ops = [w \in Operators |-> Idle] 
    /\ app = {} /\ pods = {} /\ unlocked = FALSE /\ breaks = 0

\* Advisory locks: one session at a time per kind of operation.
Locked(kind) == \E w \in Operators : \E o \in ops[w] : o.kind = kind /\ o.locked

Start(w, o) == ops[w] = Idle /\ ~Locked(o.kind) /\ ops' = [ops EXCEPT ![w] = {o}]
OpsAt(w, kind, pc) == {o \in ops[w] : o.kind = kind /\ o.pc = pc}
Move(w, o) == ops' = [ops EXCEPT ![w] = {o}]
Done(w) == ops' = [ops EXCEPT ![w] = Idle]

-----------------------------------------------------------------------------
(* database-roles: two transactions; roles that are mapped by the first stay.  *)

CreateRoles(w) ==
    /\ Start(w, [kind |-> "roles", pc |-> "grant", locked |-> TRUE])
    /\ UNCHANGED <<origin, head, db, rights, vault, data, receipts, approved, app, pods, unlocked, breaks>>

\* Grants on all tables, the history revoked again if it exists.
Granted == [rights EXCEPT !.grants = TRUE, !.history = FALSE]

GrantRoles(w) ==
    \E o \in OpsAt(w, "roles", "grant") :
        /\ rights' = Granted
        /\ Done(w)
        /\ UNCHANGED <<origin, head, db, vault, data, receipts, approved, app, pods, unlocked, breaks>>

-----------------------------------------------------------------------------
(* backend-secrets: missing keys are created or imported, existing ones kept. *)

Missing(v) == {k \in Keys : v[k] = << >>}

\* The key of the source, or a random one: another one after whatever broke.
Value == IF origin = "migration" THEN LegacyKey ELSE breaks + 1

\* Mutant: keys are created whenever they are missing.
SafeToCreateAlways(v) == TRUE

\* ensure_key_creation_is_safe(): never a new key for an existing database.
SafeToCreate(v) == origin = "greenfield" /\ Missing(v) # {} => ~Tables

StartKeys(w) ==
    /\ rights.grants
    /\ SafeToCreate(vault)
    /\ Start(w, [kind |-> "keys", pc |-> "read", locked |-> TRUE, rev |-> head, seen |-> vault, new |-> Value])
    /\ UNCHANGED <<origin, head, db, rights, vault, data, receipts, approved, app, pods, unlocked, breaks>>

\* The latest versions are read again, before every creation and at the end:
\* they must be those this operation has seen or made.
ReadKeys(w) ==
    \E o \in OpsAt(w, "keys", "read") :
        /\ vault = o.seen
        /\ Move(w, [o EXCEPT !.pc = IF Missing(o.seen) = {} THEN "save" ELSE "write"])
        /\ UNCHANGED <<origin, head, db, rights, vault, data, receipts, approved, app, pods, unlocked, breaks>>

\* set_secret() makes a version, whatever is there by now; the master key is the
\* first.
SetKey(w) ==
    \E o \in OpsAt(w, "keys", "write") : \E k \in Missing(o.seen) :
        /\ k = "salt" => "master" \notin Missing(o.seen)
        /\ vault' = [vault EXCEPT ![k] = Append(@, o.new)]
        /\ Move(w, [o EXCEPT !.pc = "read", !.seen = [o.seen EXCEPT ![k] = vault'[k]]])
        /\ UNCHANGED <<origin, head, db, rights, data, receipts, approved, app, pods, unlocked, breaks>>

\* The receipt, an ARM deployment, names the versions.
SaveKeys(w) ==
    \E o \in OpsAt(w, "keys", "save") :
        /\ receipts' = [receipts EXCEPT !.keys = o.rev, !.salt = o.seen.salt[Len(o.seen.salt)]]
        /\ Done(w)
        /\ UNCHANGED <<origin, head, db, rights, vault, data, approved, app, pods, unlocked, breaks>>

-----------------------------------------------------------------------------
(* restore-target: one transaction, into an empty database only; what the     *)
(* migration role creates is open to the application by default.              *)

Restore ==
    /\ origin = "migration" /\ rights.grants /\ ~Tables
    /\ db' = [n |-> Restored, failed |-> FALSE, views |-> TRUE]
    /\ rights' = [rights EXCEPT !.history = TRUE]
    /\ data' = LegacyKey
    /\ UNCHANGED <<origin, head, vault, receipts, approved, ops, app, pods, unlocked, breaks>>

-----------------------------------------------------------------------------
(* schema-migrate. *)

\* check_history(): nothing unfinished, a prefix of what the revision contains;
\* a migration starts from a restored database.
HistoryFits(r) ==
    /\ ~db.failed /\ db.n <= Last(r)
    /\ origin = "migration" => Tables

\* The plan: assets and state, inspected under the lock.
PlanSchema ==
    /\ rights.grants /\ ~Locked("schema") /\ HistoryFits(head)
    /\ approved' = {[rev |-> head, db |-> db]} /\ approved' # approved
    /\ UNCHANGED <<origin, head, db, rights, vault, data, receipts, ops, app, pods, unlocked, breaks>>

\* The lock is taken, then the state must be the approved one.
StartSchema(w) ==
    /\ HistoryFits(head)
    /\ [rev |-> head, db |-> db] \in approved
    /\ Start(w, [kind |-> "schema", pc |-> "deploy", locked |-> TRUE, rev |-> head])
    /\ UNCHANGED <<origin, head, db, rights, vault, data, receipts, approved, app, pods, unlocked, breaks>>

\* prisma migrate deploy: one migration is finished or left unfinished; after
\* that it goes no further.  The first one creates the history.
Migrate(w) ==
    \E o \in OpsAt(w, "schema", "deploy") :
        /\ ~db.failed /\ db.n < Last(o.rev)
        /\ db' \in {[db EXCEPT !.n = @ + 1], [db EXCEPT !.failed = TRUE]}
        /\ rights' = [rights EXCEPT !.history = @ \/ ~Tables]
        /\ UNCHANGED <<origin, head, vault, data, receipts, approved, ops, app, pods, unlocked, breaks>>

\* Views, then the history is closed to the application.
CreateViews(w) ==
    \E o \in OpsAt(w, "schema", "deploy") :
        /\ ~db.failed /\ db.n >= Last(o.rev)
        /\ db' = [db EXCEPT !.views = TRUE]
        /\ Move(w, [o EXCEPT !.pc = "revoke"])
        /\ UNCHANGED <<origin, head, rights, vault, data, receipts, approved, app, pods, unlocked, breaks>>

Revoke(w) ==
    \E o \in OpsAt(w, "schema", "revoke") :
        /\ rights' = [rights EXCEPT !.history = FALSE]
        /\ Move(w, [o EXCEPT !.pc = "verify"])
        /\ UNCHANGED <<origin, head, db, vault, data, receipts, approved, app, pods, unlocked, breaks>>

\* migrate diff is empty, check_schema(), nothing pending.
Verified(o) == ~db.failed /\ db.views /\ db.n = Last(o.rev)

VerifySchema(w) ==
    \E o \in OpsAt(w, "schema", "verify") :
        /\ Verified(o)
        /\ Move(w, [o EXCEPT !.pc = "save", !.locked = FALSE])
        /\ UNCHANGED <<origin, head, db, rights, vault, data, receipts, approved, app, pods, unlocked, breaks>>

\* The lock is gone with the session; the receipt is an ARM deployment.
SaveSchema(w) ==
    \E o \in OpsAt(w, "schema", "save") :
        /\ receipts' = [receipts EXCEPT !.schema = o.rev]
        /\ Done(w)
        /\ UNCHANGED <<origin, head, db, rights, vault, data, approved, app, pods, unlocked, breaks>>

-----------------------------------------------------------------------------
(* The application. *)

\* Mutant: the receipt of the schema is not asked for.
PublishableUnmigrated == receipts.keys = head

\* Stage 6: both receipts are of this revision.
Publishable == receipts.schema = head /\ receipts.keys = head

\* The Deployment pins the version of the keys that the receipt names.
Publish ==
    /\ Publishable
    /\ app' = {[rev |-> head, salt |-> receipts.salt]} /\ app' # app
    /\ UNCHANGED <<origin, head, db, rights, vault, data, receipts, approved, ops, pods, unlocked, breaks>>

Versions(k) == {vault[k][i] : i \in 1..Len(vault[k])}

\* A Pod mounts the pinned keys, checks the schema and its own role, and serves.
\* Pods that run are replaced or restarted at any time.
PodStarts ==
    \E p \in app \ pods :
        /\ p.salt \in Versions("salt") /\ Versions("master") # {}
        /\ Tables /\ ~db.failed /\ db.views
        /\ rights.grants /\ ~rights.history
        /\ pods' = pods \cup {p}
        /\ data' = IF data = 0 THEN p.salt ELSE data
        /\ UNCHANGED <<origin, head, db, rights, vault, receipts, approved, ops, app, unlocked, breaks>>

PodStops ==
    /\ \E p \in pods : pods' = pods \ {p}
    /\ UNCHANGED <<origin, head, db, rights, vault, data, receipts, approved, ops, app, unlocked, breaks>>

-----------------------------------------------------------------------------
(* The world. *)

NewRevision ==
    /\ head < LastRev /\ head' = head + 1
    /\ UNCHANGED <<origin, db, rights, vault, data, receipts, approved, ops, app, pods, unlocked, breaks>>

Break == breaks < MaxBreaks /\ breaks' = breaks + 1

\* A step fails or the operator's process is killed; its session ends.
OperatorDies(w) ==
    /\ Break /\ ops[w] # Idle /\ Done(w)
    /\ UNCHANGED <<origin, head, db, rights, vault, data, receipts, approved, app, pods, unlocked>>

\* The connection that holds a lock breaks, while prisma runs on its own or the
\* Vault is written; the operation goes on.
SessionLost(w) ==
    /\ Break
    /\ \E o \in ops[w] :
          /\ o.locked /\ (o.kind = "keys" \/ (o.kind = "schema" /\ o.pc = "deploy"))
          /\ Move(w, [o EXCEPT !.locked = FALSE])
          /\ unlocked' = (unlocked \/ o.kind = "keys")
    /\ UNCHANGED <<origin, head, db, rights, vault, data, receipts, approved, app, pods>>

\* A key is deleted with its versions, and gone after the retention of the Vault.
KeyLost(k) ==
    /\ Break /\ vault[k] # << >>
    /\ vault' = [vault EXCEPT ![k] = << >>]
    /\ UNCHANGED <<origin, head, db, rights, data, receipts, approved, ops, app, pods, unlocked>>

\* The database administrator investigated and resolved an unfinished migration.
Resolved ==
    /\ Break /\ db.failed
    /\ db' = [db EXCEPT !.failed = FALSE]
    /\ UNCHANGED <<origin, head, rights, vault, data, receipts, approved, ops, app, pods, unlocked>>

DatabaseNext ==
    \/ \E w \in Operators :
         \/ CreateRoles(w) \/ GrantRoles(w)
         \/ StartKeys(w) \/ ReadKeys(w) \/ SetKey(w) \/ SaveKeys(w)
         \/ StartSchema(w) \/ Migrate(w) \/ CreateViews(w) \/ Revoke(w)
         \/ VerifySchema(w) \/ SaveSchema(w)
         \/ OperatorDies(w) \/ SessionLost(w)
    \/ Restore \/ PlanSchema \/ Publish \/ PodStarts \/ PodStops \/ NewRevision
    \/ (\E k \in Keys : KeyLost(k)) \/ Resolved

DatabaseSpec == DatabaseInit /\ [][DatabaseNext]_stageFive

-----------------------------------------------------------------------------
(* Properties. *)

\* A Pod serves only on a database that has every migration of its revision, and
\* as a role that cannot write the migration history, whatever is migrated,
\* granted, restored or broken off at the same time.
PodsServe ==
    \A p \in pods : db.n >= Last(p.rev) /\ ~rights.history

KeyFits == Versions("salt") \subseteq {data} /\ \A p \in pods : p.salt = data

\* Whatever operations are broken off, repeated or lose their session, the key of
\* stored data is never replaced and every Pod uses it; where keys are generated,
\* as long as no operation on keys lost the lock it had taken.
KeysFitData == data # 0 /\ (origin = "greenfield" => ~unlocked) => KeyFits
=============================================================================
