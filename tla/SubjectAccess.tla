--------------------------- MODULE SubjectAccess ---------------------------
(***************************************************************************)
(* Who may use the admin plane in the Entra mode: the two applications        *)
(* (scripts/entra_apps.py), role assignments (entra_access.py) and their      *)
(* revocation (entra_revoke.py), the backend key of each subject              *)
(* (proxy_credentials.py, proxy_credentials_runtime.py), and the policy that  *)
(* is published from their receipts (proxy_manifest.py).                      *)
(*                                                                          *)
(* Operations run one at a time, with the configuration they were started     *)
(* with, and may die between any two requests.  The configuration is edited,  *)
(* roles are taken away and keys are revoked at any moment.                   *)
(***************************************************************************)
EXTENDS Integers, Sequences, FiniteSets

CONSTANTS
    Subjects,   \* the subjects that bindings name
    MaxEvents   \* bound on edits of the configuration and changes by others

ASSUME SubjectAssumption == MaxEvents \in Nat

VARIABLES
    bindings, \* bindings[s]: "absent", "active" or "disabled" in the configuration
    apps,     \* apps[p]: how far an application is set up
    roles,    \* subjects that hold their role
    secret,   \* secret[s]: tag of the key in the Vault: "none", "pending", "ready"
    users,    \* subjects with a backend user
    keys,     \* subjects with a backend key
    revoked,  \* subjects whose ready key was revoked and not issued anew
    withdrawn, \* subjects whose role was taken away since it was granted
    access,   \* receipt of entra-access, if any: the bindings it was written for
    issued,   \* receipt of proxy-credentials, likewise
    policy,   \* the published policy, if any: subjects that it admits
    duty,     \* the operation under way, if any
    events    \* edits and changes by others so far

accessVars == <<bindings, apps, roles, secret, users, keys, revoked, withdrawn, access, issued,
                policy, duty, events>>

Active(b) == {s \in Subjects : b[s] = "active"}
Disabled(b) == {s \in Subjects : b[s] = "disabled"}

\* Registered; API: identifier URI set; service principal created.
Steps == [api |-> 3, admin |-> 2]
Ready == \A p \in DOMAIN Steps : apps[p] = Steps[p]

AccessInit ==
    /\ bindings \in [Subjects -> {"active", "disabled"}] /\ Active(bindings) # {}
    /\ apps = [p \in DOMAIN Steps |-> 0]
    /\ roles = {} /\ secret = [s \in Subjects |-> "none"] /\ users = {} /\ keys = {}
    /\ revoked = {} /\ withdrawn = {} /\ access = {} /\ issued = {} /\ policy = {}
    /\ duty = {} /\ events = 0

backendVars == <<secret, users, keys, revoked>>
directoryVars == <<apps, roles, withdrawn>>
receiptVars == <<access, issued, policy>>

-----------------------------------------------------------------------------
(* entra-apps: what exists already is kept, the rest is created in order. *)

StartApps ==
    /\ duty = {}
    /\ duty' = {[kind |-> "apps", conf |-> bindings]}
    /\ UNCHANGED <<bindings, directoryVars, backendVars, receiptVars, events>>

SetUp ==
    \E d \in duty :
        /\ d.kind = "apps"
        /\ IF Ready THEN duty' = {} /\ apps' = apps
           ELSE LET p == IF apps["api"] < Steps["api"] THEN "api" ELSE "admin"
                IN apps' = [apps EXCEPT ![p] = @ + 1] /\ duty' = duty
        /\ UNCHANGED <<bindings, roles, withdrawn, backendVars, receiptVars, events>>

-----------------------------------------------------------------------------
(* entra-access and entra-revoke. *)

\* missing_access(): nobody holds a role but the active subjects.
Covered(b) == roles \subseteq Active(b)

StartGrant ==
    /\ duty = {} /\ Ready /\ Covered(bindings)
    /\ duty' = {[kind |-> "grant", conf |-> bindings, todo |-> Active(bindings) \ roles]}
    /\ UNCHANGED <<bindings, directoryVars, backendVars, receiptVars, events>>

AssignRole ==
    \E d \in duty :
        /\ d.kind = "grant"
        /\ \E s \in d.todo :
              /\ roles' = roles \cup {s} /\ withdrawn' = withdrawn \ {s}
              /\ duty' = {[d EXCEPT !.todo = @ \ {s}]}
        /\ UNCHANGED <<bindings, apps, backendVars, receiptVars, events>>

\* Read again: all are there, and no other.
GrantEnd ==
    \E d \in duty :
        /\ d.kind = "grant" /\ d.todo = {} /\ roles = Active(d.conf)
        /\ access' = {d.conf} /\ duty' = {}
        /\ UNCHANGED <<bindings, directoryVars, backendVars, issued, policy, events>>

StartRevoke ==
    /\ duty = {} /\ Ready /\ Disabled(bindings) # {}
    /\ duty' = {[kind |-> "revoke", conf |-> bindings, todo |-> roles \cap Disabled(bindings)]}
    /\ UNCHANGED <<bindings, directoryVars, backendVars, receiptVars, events>>

\* Each assignment is looked up again before it is deleted.
DeleteRole ==
    \E d \in duty :
        /\ d.kind = "revoke"
        /\ \E s \in d.todo \cap roles :
              /\ roles' = roles \ {s} /\ withdrawn' = withdrawn \cup {s}
              /\ duty' = {[d EXCEPT !.todo = @ \ {s}]}
        /\ UNCHANGED <<bindings, apps, backendVars, receiptVars, events>>

RevokeEnd ==
    \E d \in duty :
        /\ d.kind = "revoke" /\ d.todo = {} /\ roles \cap Disabled(d.conf) = {}
        /\ duty' = {}
        /\ UNCHANGED <<bindings, directoryVars, backendVars, receiptVars, events>>

-----------------------------------------------------------------------------
(* proxy-credentials: one subject after the other; before approval and before *)
(* each subject its state is inspected.                                       *)

\* Mutant: a ready key that is missing passes.
SoundAnyway(s) == s \in keys => s \in users

\* inspect_binding(): refused for a ready key that is missing, or a key without user.
Sound(s) == /\ secret[s] = "ready" => s \in keys
            /\ s \in keys => secret[s] # "none" /\ s \in users

Seen(s) == <<secret[s], users \cap {s}, keys \cap {s}>>

StartIssue ==
    /\ duty = {}
    /\ \A s \in Active(bindings) : Sound(s)
    /\ duty' = {[kind |-> "issue", conf |-> bindings, todo |-> Active(bindings), on |-> {},
                 step |-> "secret", seen |-> [s \in Active(bindings) |-> Seen(s)]]}
    /\ UNCHANGED <<bindings, directoryVars, backendVars, receiptVars, events>>

TakeSubject ==
    \E d \in duty :
        /\ d.kind = "issue" /\ d.on = {}
        /\ \E s \in d.todo :
              /\ Sound(s) /\ Seen(s) = d.seen[s]
              /\ duty' = {[kind |-> "issue", conf |-> d.conf, todo |-> d.todo \ {s}, on |-> {s},
                           step |-> "secret", seen |-> d.seen]}
        /\ UNCHANGED <<bindings, directoryVars, backendVars, receiptVars, events>>

\* The value is in the Vault, pending, before the backend learns its hash.
StoreSecret ==
    \E d \in duty :
        /\ d.kind = "issue" /\ d.step = "secret"
        /\ \E s \in d.on :
              /\ secret' = IF secret[s] = "none" THEN [secret EXCEPT ![s] = "pending"] ELSE secret
              /\ duty' = {[d EXCEPT !.step = "user"]}
        /\ UNCHANGED <<bindings, directoryVars, users, keys, revoked, receiptVars, events>>

CreateUser ==
    \E d \in duty :
        /\ d.kind = "issue" /\ d.step = "user"
        /\ users' = users \cup d.on
        /\ duty' = {[d EXCEPT !.step = "key"]}
        /\ UNCHANGED <<bindings, directoryVars, secret, keys, revoked, receiptVars, events>>

\* The key is looked up by its hash and created when it is missing.
CreateKey ==
    \E d \in duty :
        /\ d.kind = "issue" /\ d.step = "key"
        /\ keys' = keys \cup d.on /\ revoked' = revoked \ d.on
        /\ duty' = {[d EXCEPT !.step = "ready"]}
        /\ UNCHANGED <<bindings, directoryVars, secret, users, receiptVars, events>>

\* The backend confirms the key; the tag follows, and all is inspected again.
MarkReady ==
    \E d \in duty :
        /\ d.kind = "issue" /\ d.step = "ready"
        /\ \E s \in d.on :
              /\ s \in keys
              /\ secret' = [secret EXCEPT ![s] = "ready"]
              /\ duty' = {[d EXCEPT !.on = {}]}
        /\ UNCHANGED <<bindings, directoryVars, users, keys, revoked, receiptVars, events>>

IssueEnd ==
    \E d \in duty :
        /\ d.kind = "issue" /\ d.on = {} /\ d.todo = {}
        /\ issued' = {d.conf} /\ duty' = {}
        /\ UNCHANGED <<bindings, directoryVars, backendVars, access, policy, events>>

-----------------------------------------------------------------------------
\* Mutant: receipts of an earlier configuration are accepted.
ReceiptsExist == access # {} /\ issued # {}

\* prepare_proxy_documents(): both receipts are of this configuration.
ReceiptsCurrent == bindings \in access /\ bindings \in issued

PublishPolicy ==
    /\ duty = {} /\ Ready /\ ReceiptsCurrent
    /\ policy' = {Active(bindings)}
    /\ UNCHANGED <<bindings, directoryVars, backendVars, access, issued, duty, events>>

DutyDies ==
    /\ duty # {} /\ duty' = {}
    /\ UNCHANGED <<bindings, directoryVars, backendVars, receiptVars, events>>

Event == events < MaxEvents /\ events' = events + 1

EditBinding(s, state) ==
    /\ Event /\ bindings[s] # state
    /\ bindings' = [bindings EXCEPT ![s] = state] /\ Active(bindings') # {}
    /\ UNCHANGED <<directoryVars, backendVars, receiptVars, duty>>

\* An administrator revokes a key that was ready, or takes a role away.
RevokeKey(s) ==
    /\ Event /\ s \in keys /\ secret[s] = "ready"
    /\ keys' = keys \ {s} /\ revoked' = revoked \cup {s}
    /\ UNCHANGED <<bindings, directoryVars, secret, users, receiptVars, duty>>

WithdrawRole(s) ==
    /\ Event /\ s \in roles
    /\ roles' = roles \ {s} /\ withdrawn' = withdrawn \cup {s}
    /\ UNCHANGED <<bindings, apps, backendVars, receiptVars, duty>>

AccessNext ==
    \/ StartApps \/ SetUp
    \/ StartGrant \/ AssignRole \/ GrantEnd \/ StartRevoke \/ DeleteRole \/ RevokeEnd
    \/ StartIssue \/ TakeSubject \/ StoreSecret \/ CreateUser \/ CreateKey \/ MarkReady \/ IssueEnd
    \/ PublishPolicy \/ DutyDies
    \/ (\E s \in Subjects, state \in {"absent", "active", "disabled"} : EditBinding(s, state))
    \/ (\E s \in Subjects : RevokeKey(s) \/ WithdrawRole(s))

AccessSpec == AccessInit /\ [][AccessNext]_accessVars

-----------------------------------------------------------------------------
(* Properties. *)

\* Whoever the policy admits holds the role and a usable key, unless somebody
\* took one of them away.
AdmittedCanWork ==
    \A admitted \in policy : \A s \in admitted :
        /\ s \in roles \cup withdrawn
        /\ secret[s] = "ready" /\ s \in keys \cup revoked

\* A key that was ready and that an administrator revoked is created again only by
\* an issue that was working on this subject and had found the key in place when
\* it looked (proxy_credentials.py:80), before the revocation: no repeated and no
\* later issue brings it back.
RevokedStaysRevoked ==
    [][\A s \in revoked \cap keys' :
          \E d \in duty : d.kind = "issue" /\ s \in d.on /\ s \in d.seen[s][3]]_accessVars
=============================================================================
