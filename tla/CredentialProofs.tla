-------------------------- MODULE CredentialProofs --------------------------
(***************************************************************************)
(* Theorems about the secrets the operations manage, for any number of     *)
(* credentials, subjects, orders, certificates and interrupted runs: the   *)
(* administrator's credential (AdminCredentials), the subjects' keys       *)
(* (SubjectAccess) and the TLS certificate (CertificateIssue).             *)
(***************************************************************************)
EXTENDS AdminCredentials, SubjectAccess, CertificateIssue, TLAPS

-----------------------------------------------------------------------------
(***************************************************************************)
(* AdminCredentials: what is in use works. Whatever an operation removes   *)
(* is either unknown to the Vault or out of date, and what it puts into    *)
(* the Vault is there.                                                     *)
(***************************************************************************)

Lifetimes == {"fresh", "ending", "expired", "old"}

\* An operation is a record; a removal also has the list of what it removes.
IsTask(t) ==
    \/ t = [kind |-> t.kind, step |-> t.step, was |-> t.was]
    \/ t = [kind |-> t.kind, step |-> t.step, was |-> t.was, todo |-> t.todo]

CredentialsTyped ==
    /\ age \in Seq(Lifetimes) /\ versions \in Seq(1..Len(age)) /\ entra \subseteq 1..Len(age)
    /\ \A t \in task : IsTask(t)

Works(k) == k \in entra \cup taken

\* Between addPassword and set_secret the new credential is there.
NewWorks == \A t \in task : t.step = "store" => Len(age) \in 1..Len(age) /\ Works(Len(age))

StoredWork ==
    /\ versions # << >> => Works(Current)
    /\ \A v \in DOMAIN versions : Works(versions[v]) \/ age[versions[v]] = "old"

\* The receipt, and hence what is published, names a credential of the Vault.
PinnedStored ==
    /\ \A r \in receipt : r.key \in Stored
    /\ \A p \in pinned : p.key \in Stored

CredentialsInvariant == CredentialsTyped /\ NewWorks /\ StoredWork /\ PinnedStored

-----------------------------------------------------------------------------
LEMMA LifetimesAre == Ages \in [1..4 -> Lifetimes] /\ \A i \in 1..3 : Ages[i] # "old"
  BY DEF Ages, Lifetimes

LEMMA CurrentStored ==
    ASSUME CredentialsTyped, versions # << >>
    PROVE  Current \in Stored /\ Len(versions) \in DOMAIN versions /\ Current \in 1..Len(age)
  BY DEF CredentialsTyped, Current, Stored

\* A field of an operation is replaced.
LEMMA TaskSteps ==
    ASSUME NEW t, IsTask(t), NEW x, NEW u
    PROVE  /\ u = [t EXCEPT !.step = x] => IsTask(u) /\ u.step = x
           /\ u = [t EXCEPT !.todo = x] => IsTask(u) /\ u.step = t.step
<1>1. CASE t = [kind |-> t.kind, step |-> t.step, was |-> t.was]
  <2>1. [t EXCEPT !.step = x] = [kind |-> t.kind, step |-> x, was |-> t.was]
    BY <1>1
  <2>2. [t EXCEPT !.todo = x] = t
    BY <1>1
  <2> QED BY <1>1, <2>1, <2>2 DEF IsTask
<1>2. CASE t = [kind |-> t.kind, step |-> t.step, was |-> t.was, todo |-> t.todo]
  <2>1. [t EXCEPT !.step = x] = [kind |-> t.kind, step |-> x, was |-> t.was, todo |-> t.todo]
    BY <1>2
  <2>2. [t EXCEPT !.todo = x] = [kind |-> t.kind, step |-> t.step, was |-> t.was, todo |-> x]
    BY <1>2
  <2> QED BY <1>2, <2>1, <2>2 DEF IsTask
<1> QED BY <1>1, <1>2 DEF IsTask

LEMMA CredentialsBegin == CredentialInit => CredentialsInvariant
  BY DEF CredentialInit, CredentialsInvariant, CredentialsTyped, NewWorks, StoredWork, PinnedStored

-----------------------------------------------------------------------------
(* Steps that touch neither credentials nor versions. *)

LEMMA NothingTouched ==
    ASSUME CredentialsInvariant, UNCHANGED <<entra, age, versions, taken>>,
           \A t \in task' : IsTask(t) /\ t.step # "store",
           \A r \in receipt' : r.key \in Stored,
           \A p \in pinned' : p.key \in Stored
    PROVE  CredentialsInvariant'
  BY DEF CredentialsInvariant, CredentialsTyped, NewWorks, StoredWork, PinnedStored, Works, Current, Stored

\* An operation starts, or ends.
LEMMA StartKeeps ==
    ASSUME CredentialsInvariant,
           StartInitialize \/ StartRotate \/ StartSession \/ TaskDies \/ FinishRemoval
             \/ \E kind \in {"recover", "retire"} : StartRemoval(kind)
    PROVE  CredentialsInvariant'
<1>1. UNCHANGED <<entra, age, versions, taken, receipt, pinned>>
  BY DEF StartInitialize, StartRotate, StartSession, TaskDies, FinishRemoval, StartRemoval
<1>2. ASSUME NEW t \in task' PROVE IsTask(t) /\ t.step # "store"
  <2>1. CASE StartInitialize
    BY <1>2, <2>1 DEF StartInitialize, IsTask
  <2>2. CASE StartRotate \/ StartSession
    BY <1>2, <2>2 DEF StartRotate, StartSession, IsTask
  <2>3. CASE TaskDies \/ FinishRemoval
    BY <1>2, <2>3 DEF TaskDies, FinishRemoval
  <2>4. ASSUME NEW kind \in {"recover", "retire"}, StartRemoval(kind) PROVE IsTask(t) /\ t.step # "store"
    BY <1>2, <2>4 DEF StartRemoval, IsTask
  <2> QED BY <2>1, <2>2, <2>3, <2>4
<1> QED BY <1>1, <1>2, NothingTouched DEF CredentialsInvariant, PinnedStored

LEMMA SessionKeeps ==
    ASSUME CredentialsInvariant, StoreSession PROVE CredentialsInvariant'
<1>1. PICK t \in task : task' = {[t EXCEPT !.step = "receipt"]}
         /\ UNCHANGED <<entra, age, versions, taken, receipt, pinned>>
  BY DEF StoreSession
<1>2. IsTask(t)
  BY DEF CredentialsInvariant, CredentialsTyped
<1>3. ASSUME NEW u \in task' PROVE IsTask(u) /\ u.step # "store"
  <2>1. u = [t EXCEPT !.step = "receipt"]
    BY <1>1
  <2> QED BY <1>2, <2>1, TaskSteps
<1> QED BY <1>1, <1>3, NothingTouched DEF CredentialsInvariant, PinnedStored

LEMMA ReceiptKeeps ==
    ASSUME CredentialsInvariant, SaveReceipt PROVE CredentialsInvariant'
<1>1. versions # << >> /\ receipt' = {[key |-> Current, session |-> session]} /\ task' = {}
      /\ UNCHANGED <<entra, age, versions, taken, pinned>>
  BY DEF SaveReceipt
<1>2. Current \in Stored
  BY <1>1, CurrentStored DEF CredentialsInvariant
<1> QED BY <1>1, <1>2, NothingTouched DEF CredentialsInvariant, PinnedStored

LEMMA PublishKeeps ==
    ASSUME CredentialsInvariant, PublishProxies PROVE CredentialsInvariant'
<1>1. PICK r \in receipt : pinned' = {r}
  BY DEF PublishProxies
<1>2. UNCHANGED <<entra, age, versions, taken, receipt, task>> /\ task' = {}
  BY DEF PublishProxies
<1> QED BY <1>1, <1>2, NothingTouched DEF CredentialsInvariant, PinnedStored

-----------------------------------------------------------------------------
(* Steps that touch them. *)

LEMMA AddKeeps ==
    ASSUME CredentialsInvariant, AddKey PROVE CredentialsInvariant'
<1>1. PICK t \in task : task' = {[t EXCEPT !.step = "store"]}
  BY DEF AddKey
<1>2. /\ age' = Append(age, "fresh") /\ entra' = entra \cup {Len(age')}
      /\ UNCHANGED <<versions, receipt, pinned, taken>>
  BY DEF AddKey
<1>3. /\ age \in Seq(Lifetimes) /\ versions \in Seq(1..Len(age)) /\ entra \subseteq 1..Len(age) /\ IsTask(t)
  BY DEF CredentialsInvariant, CredentialsTyped
<1>4. /\ age' \in Seq(Lifetimes) /\ Len(age') = Len(age) + 1 /\ Len(age) \in Nat
      /\ \A k \in 1..Len(age) : age'[k] = age[k]
  BY <1>2, <1>3 DEF Lifetimes
<1>5. CredentialsTyped'
  <2>1. 1..Len(age) \subseteq 1..Len(age')
    BY <1>4
  <2>2. versions' \in Seq(1..Len(age'))
    BY <1>2, <1>3, <2>1
  <2>3. ASSUME NEW u \in task' PROVE IsTask(u)
    <3>1. u = [t EXCEPT !.step = "store"]
      BY <1>1
    <3> QED BY <1>3, <3>1, TaskSteps
  <2>4. entra' \subseteq 1..Len(age')
    <3>1. entra' = entra \cup {Len(age')} /\ entra \subseteq 1..Len(age)
      BY <1>2, <1>3
    <3>2. Len(age') \in 1..Len(age')
      BY <1>4
    <3> QED BY ONLY <2>1, <3>1, <3>2, Zenon
  <2> QED BY <1>4, <2>2, <2>3, <2>4 DEF CredentialsTyped
<1>6. NewWorks'
  BY <1>2, <1>4 DEF NewWorks, Works
<1>7. \A v \in DOMAIN versions : versions[v] \in 1..Len(age)
  BY <1>3
<1>8. StoredWork'
  BY <1>2, <1>4, <1>7 DEF CredentialsInvariant, StoredWork, Works, Current
<1>9. PinnedStored'
  BY <1>2 DEF CredentialsInvariant, PinnedStored, Stored
<1> QED BY <1>5, <1>6, <1>8, <1>9 DEF CredentialsInvariant

LEMMA StoreKeeps ==
    ASSUME CredentialsInvariant, StoreKey PROVE CredentialsInvariant'
<1>1. PICK t \in task : t.step = "store"
          /\ task' = {[t EXCEPT !.step = IF t.kind = "initialize" THEN "session" ELSE "receipt"]}
  BY DEF StoreKey
<1>2. versions' = Append(versions, Len(age)) /\ UNCHANGED <<entra, age, receipt, pinned, taken>>
  BY DEF StoreKey
<1>3. versions \in Seq(1..Len(age)) /\ Len(age) \in 1..Len(age) /\ Works(Len(age)) /\ IsTask(t)
  BY <1>1 DEF CredentialsInvariant, CredentialsTyped, NewWorks
<1>4. /\ versions' \in Seq(1..Len(age)) /\ Len(versions') = Len(versions) + 1
      /\ versions'[Len(versions')] = Len(age)
      /\ \A v \in DOMAIN versions' : (v \in DOMAIN versions /\ versions'[v] = versions[v])
                                      \/ versions'[v] = Len(age)
      /\ \A v \in DOMAIN versions : v \in DOMAIN versions' /\ versions'[v] = versions[v]
  BY <1>2, <1>3
<1>5. CredentialsTyped'
  <2>1. ASSUME NEW u \in task' PROVE IsTask(u)
    <3>1. u = [t EXCEPT !.step = IF t.kind = "initialize" THEN "session" ELSE "receipt"]
      BY <1>1
    <3> QED BY <1>3, <3>1, TaskSteps
  <2> QED BY <1>2, <1>4, <2>1 DEF CredentialsInvariant, CredentialsTyped
<1>6. NewWorks'
  BY <1>2, <1>3 DEF NewWorks, Works
<1>7. StoredWork'
  BY <1>2, <1>3, <1>4 DEF CredentialsInvariant, StoredWork, Works, Current
<1>8. PinnedStored'
  BY <1>2, <1>4 DEF CredentialsInvariant, PinnedStored, Stored
<1> QED BY <1>5, <1>6, <1>7, <1>8 DEF CredentialsInvariant

\* What is removed is out of date, or no version of the Vault.
LEMMA RemoveKeeps ==
    ASSUME CredentialsInvariant, RemoveKey PROVE CredentialsInvariant'
<1>1. PICK t \in task : t.step = "remove" /\ \E k \in t.todo :
          /\ (k \in Expired \/ k \in Orphaned)
          /\ entra' = entra \ {k} /\ task' = {[t EXCEPT !.todo = @ \ {k}]}
  BY DEF RemoveKey
<1>2. PICK k \in t.todo :
          /\ (k \in Expired \/ k \in Orphaned)
          /\ entra' = entra \ {k} /\ task' = {[t EXCEPT !.todo = t.todo \ {k}]}
  BY <1>1
<1>3. UNCHANGED <<age, versions, receipt, pinned, taken>>
  BY DEF RemoveKey
<1>4. IsTask(t)
  BY DEF CredentialsInvariant, CredentialsTyped
<1>5. ASSUME NEW u \in task' PROVE IsTask(u) /\ u.step = "remove"
  <2>1. u = [t EXCEPT !.todo = t.todo \ {k}]
    BY <1>2
  <2> QED BY <1>1, <1>4, <2>1, TaskSteps
<1>6. CredentialsTyped' /\ NewWorks'
  BY <1>2, <1>3, <1>5 DEF CredentialsInvariant, CredentialsTyped, NewWorks
<1>7. \A v \in DOMAIN versions : versions[v] # k \/ age[k] = "old"
  BY <1>2 DEF Expired, Orphaned, Stored
<1>8. versions # << >> => Current # k
  BY <1>2, CurrentStored DEF CredentialsInvariant, Expired, Orphaned
<1>9. StoredWork'
  <2>1. ASSUME NEW v \in DOMAIN versions PROVE (Works(versions[v]) \/ age[versions[v]] = "old")'
    BY <2>1, <1>2, <1>3, <1>7 DEF CredentialsInvariant, StoredWork, Works
  <2>2. versions # << >> => Works(Current)'
    BY <1>2, <1>3, <1>8 DEF CredentialsInvariant, StoredWork, Works, Current
  <2> QED BY <2>1, <2>2, <1>3 DEF StoredWork
<1>10. PinnedStored'
  BY <1>3 DEF CredentialsInvariant, PinnedStored, Stored
<1> QED BY <1>6, <1>9, <1>10 DEF CredentialsInvariant

\* Nothing gets younger, and what is old stays old.
LEMMA WeeksKeep ==
    ASSUME CredentialsInvariant, Weeks PROVE CredentialsInvariant'
<1>1. PICK k \in DOMAIN age, i \in 1..3 : age[k] = Ages[i] /\ age' = [age EXCEPT ![k] = Ages[i + 1]]
  BY DEF Weeks
<1>2. task = {} /\ UNCHANGED <<entra, versions, receipt, pinned, task, taken>>
  BY DEF Weeks
<1>3. age \in Seq(Lifetimes) /\ versions \in Seq(1..Len(age))
  BY DEF CredentialsInvariant, CredentialsTyped
<1>4. Ages[i + 1] \in Lifetimes /\ Ages[i] # "old"
  BY LifetimesAre
<1>5. age' \in Seq(Lifetimes) /\ Len(age') = Len(age)
  BY <1>1, <1>3, <1>4
<1>6. \A n \in DOMAIN age : age[n] = "old" => age'[n] = "old"
  BY <1>1, <1>3, <1>4
<1>7. \A v \in DOMAIN versions : versions[v] \in DOMAIN age
  BY <1>3
<1>8. CredentialsTyped' /\ NewWorks'
  BY <1>2, <1>5 DEF CredentialsInvariant, CredentialsTyped, NewWorks
<1>9. StoredWork' /\ PinnedStored'
  BY <1>2, <1>6, <1>7 DEF CredentialsInvariant, StoredWork, PinnedStored, Stored, Works, Current
<1> QED BY <1>8, <1>9 DEF CredentialsInvariant

LEMMA TakenKeeps ==
    ASSUME CredentialsInvariant, TakeAway PROVE CredentialsInvariant'
<1>1. PICK k \in entra : taken' = taken \cup {k} /\ entra' = entra \ {k}
  BY DEF TakeAway
<1>2. UNCHANGED <<age, versions, receipt, pinned, task>>
  BY DEF TakeAway
<1>3. \A n : Works(n)' <=> Works(n)
  BY <1>1 DEF Works
<1>4. StoredWork' /\ NewWorks'
  BY <1>2, <1>3 DEF CredentialsInvariant, StoredWork, NewWorks, Current
<1> QED BY <1>1, <1>2, <1>4 DEF CredentialsInvariant, CredentialsTyped, PinnedStored, Stored

-----------------------------------------------------------------------------
LEMMA CredentialsStep ==
    ASSUME CredentialsInvariant, [CredentialNext]_credentialVars
    PROVE  CredentialsInvariant'
<1>1. CASE CredentialNext
  BY <1>1, StartKeeps, SessionKeeps, ReceiptKeeps, PublishKeeps, AddKeeps, StoreKeeps, RemoveKeeps,
     WeeksKeep, TakenKeeps DEF CredentialNext
<1>2. CASE UNCHANGED credentialVars
  BY <1>2 DEF credentialVars, CredentialsInvariant, CredentialsTyped, NewWorks, StoredWork, PinnedStored,
              Works, Current, Stored
<1> QED BY <1>1, <1>2

\* No operation removes the credential the Vault hands out, or the one that
\* published proxies use (admin_credentials.py:159-219), through any sequence of
\* initializations, rotations, recoveries and retirements that die anywhere.
THEOREM UsedKeysStay == CredentialSpec => []UsedKeysWork
<1>1. CredentialInit => CredentialsInvariant
  BY CredentialsBegin
<1>2. CredentialsInvariant /\ [CredentialNext]_credentialVars => CredentialsInvariant'
  BY CredentialsStep
<1>3. CredentialsInvariant => UsedKeysWork
  BY DEF CredentialsInvariant, StoredWork, PinnedStored, Stored, UsedKeysWork, Works
<1> QED BY <1>1, <1>2, <1>3, PTL DEF CredentialSpec

-----------------------------------------------------------------------------
(***************************************************************************)
(* SubjectAccess: a revoked key comes back only by an operation that had   *)
(* seen it in place.                                                       *)
(*                                                                         *)
(* AccessInvariant: a revoked key is ready in the Vault and missing in the *)
(* backend, and an operation that works on a ready subject saw its key,    *)
(* because inspect_binding() refuses a ready key that is missing.          *)
(***************************************************************************)

AccessType ==
    /\ secret \in [Subjects -> {"none", "pending", "ready"}]
    /\ keys \subseteq Subjects /\ revoked \subseteq Subjects

RevokedIsMissing == \A s \in revoked : secret[s] = "ready" /\ s \notin keys

Fields(d) == d = [kind |-> d.kind, conf |-> d.conf, todo |-> d.todo]

OtherDuty(d) == d.kind = "apps" \/ (d.kind \in {"grant", "revoke"} /\ Fields(d))

IssueDuty(d) ==
    /\ d = [kind |-> "issue", conf |-> d.conf, todo |-> d.todo, on |-> d.on, step |-> d.step,
            seen |-> d.seen]
    /\ d.todo \subseteq Subjects /\ d.on \subseteq Subjects
    /\ \A s \in d.on : secret[s] = "ready" => s \in d.seen[s][3]

Duties == \A d \in duty : OtherDuty(d) \/ IssueDuty(d)

AccessInvariant == AccessType /\ RevokedIsMissing /\ Duties

\* If the revoked key of s comes back in this step, then by an operation that saw it in place.
Returns(s) == s \in revoked \cap keys' => \E d \in duty : d.kind = "issue" /\ s \in d.on /\ s \in d.seen[s][3]

-----------------------------------------------------------------------------
\* The invariant holds at first.
LEMMA AccessStarts == AccessInit => AccessInvariant
BY DEF AccessInit, AccessInvariant, AccessType, RevokedIsMissing, Duties

\* A step that leaves the keys and the Vault alone, with the duties it leaves.
LEMMA KeysLeftAlone ==
    ASSUME AccessInvariant, UNCHANGED backendVars,
           \A d \in duty' : OtherDuty(d) \/ IssueDuty(d)'
    PROVE  AccessInvariant' /\ \A s \in Subjects : Returns(s)
<1>1. AccessType' /\ RevokedIsMissing'
  BY DEF AccessInvariant, AccessType, RevokedIsMissing, backendVars
<1>2. Duties'
  BY DEF Duties, OtherDuty, Fields
<1>3. \A s \in Subjects : Returns(s)
  BY DEF Returns, AccessInvariant, RevokedIsMissing, backendVars
<1>4. QED
  BY <1>1, <1>2, <1>3 DEF AccessInvariant

\* In particular one that keeps or drops the operation under way.
LEMMA DutyKept ==
    ASSUME AccessInvariant, UNCHANGED backendVars, duty' \subseteq duty
    PROVE  AccessInvariant' /\ \A s \in Subjects : Returns(s)
<1>1. \A d \in duty' : OtherDuty(d) \/ IssueDuty(d)'
  BY DEF AccessInvariant, Duties, IssueDuty, backendVars
<1>2. QED
  BY <1>1, KeysLeftAlone

\* Whoever works on a ready subject saw its key: Sound() refuses the others.
LEMMA TakenIsSeen ==
    ASSUME AccessInvariant, TakeSubject
    PROVE  AccessInvariant' /\ \A s \in Subjects : Returns(s)
<1>1. PICK d \in duty :
        /\ d.kind = "issue"
        /\ \E s \in d.todo :
              /\ Sound(s) /\ Seen(s) = d.seen[s]
              /\ duty' = {[kind |-> "issue", conf |-> d.conf, todo |-> d.todo \ {s}, on |-> {s},
                           step |-> "secret", seen |-> d.seen]}
        /\ UNCHANGED backendVars
  BY DEF TakeSubject
<1>2. PICK s \in d.todo :
        /\ Sound(s) /\ Seen(s) = d.seen[s]
        /\ duty' = {[kind |-> "issue", conf |-> d.conf, todo |-> d.todo \ {s}, on |-> {s},
                     step |-> "secret", seen |-> d.seen]}
  BY <1>1
<1>3. IssueDuty(d)
  BY <1>1 DEF AccessInvariant, Duties, OtherDuty
<1>4. secret[s] = "ready" => s \in d.seen[s][3]
  BY <1>2 DEF Sound, Seen
<1> DEFINE e == [kind |-> "issue", conf |-> d.conf, todo |-> d.todo \ {s}, on |-> {s},
                 step |-> "secret", seen |-> d.seen]
<1>5. IssueDuty(e)'
  BY <1>1, <1>3, <1>4 DEF IssueDuty, backendVars
<1>6. QED
  BY <1>1, <1>2, <1>5, KeysLeftAlone

\* The backend user is created; the next step may create the key.
LEMMA UserKeepsKeys ==
    ASSUME AccessInvariant, CreateUser
    PROVE  AccessInvariant' /\ \A s \in Subjects : Returns(s)
<1>1. PICK d \in duty :
        d.kind = "issue" /\ duty' = {[d EXCEPT !.step = "key"]} /\ UNCHANGED <<secret, keys, revoked>>
  BY DEF CreateUser
<1>2. IssueDuty(d)
  BY <1>1 DEF AccessInvariant, Duties, OtherDuty
<1> DEFINE e == [d EXCEPT !.step = "key"]
<1>3. e = [kind |-> "issue", conf |-> d.conf, todo |-> d.todo, on |-> d.on, step |-> "key",
           seen |-> d.seen]
  BY <1>2 DEF IssueDuty
<1>4. IssueDuty(e)'
  BY <1>1, <1>2, <1>3 DEF IssueDuty
<1>5. AccessType' /\ RevokedIsMissing' /\ Duties'
  BY <1>1, <1>4 DEF AccessInvariant, AccessType, RevokedIsMissing, Duties
<1>6. QED
  BY <1>1, <1>5 DEF AccessInvariant, RevokedIsMissing, Returns

\* A new value in the Vault is pending, and the Vault is else left alone.
LEMMA StoredIsPending ==
    ASSUME AccessInvariant, StoreSecret
    PROVE  AccessInvariant' /\ \A s \in Subjects : Returns(s)
<1>1. PICK d \in duty :
        /\ d.kind = "issue"
        /\ \E s \in d.on :
              /\ secret' = IF secret[s] = "none" THEN [secret EXCEPT ![s] = "pending"] ELSE secret
              /\ duty' = {[d EXCEPT !.step = "user"]}
        /\ UNCHANGED <<keys, revoked>>
  BY DEF StoreSecret
<1>2. PICK s \in d.on :
        /\ secret' = IF secret[s] = "none" THEN [secret EXCEPT ![s] = "pending"] ELSE secret
        /\ duty' = {[d EXCEPT !.step = "user"]}
  BY <1>1
<1>3. IssueDuty(d) /\ s \in Subjects
  BY <1>1 DEF AccessInvariant, Duties, OtherDuty, IssueDuty
<1>4. /\ secret' \in [Subjects -> {"none", "pending", "ready"}]
      /\ \A t \in Subjects : secret'[t] = "ready" <=> secret[t] = "ready"
  BY <1>2, <1>3 DEF AccessInvariant, AccessType
<1> DEFINE e == [d EXCEPT !.step = "user"]
<1>5. e = [kind |-> "issue", conf |-> d.conf, todo |-> d.todo, on |-> d.on, step |-> "user",
           seen |-> d.seen]
  BY <1>3 DEF IssueDuty
<1>6. IssueDuty(e)'
  BY <1>3, <1>4, <1>5 DEF IssueDuty
<1>7. AccessType' /\ RevokedIsMissing' /\ Duties'
  BY <1>1, <1>2, <1>4, <1>6 DEF AccessInvariant, AccessType, RevokedIsMissing, Duties
<1>8. QED
  BY <1>1, <1>7 DEF AccessInvariant, RevokedIsMissing, Returns

\* The key that is created is new, or was seen in place.
LEMMA CreatedWasSeen ==
    ASSUME AccessInvariant, CreateKey
    PROVE  AccessInvariant' /\ \A s \in Subjects : Returns(s)
<1>1. PICK d \in duty :
        /\ d.kind = "issue"
        /\ keys' = keys \cup d.on /\ revoked' = revoked \ d.on
        /\ duty' = {[d EXCEPT !.step = "ready"]} /\ secret' = secret
  BY DEF CreateKey
<1>2. IssueDuty(d)
  BY <1>1 DEF AccessInvariant, Duties, OtherDuty
<1> DEFINE e == [d EXCEPT !.step = "ready"]
<1>3. e = [kind |-> "issue", conf |-> d.conf, todo |-> d.todo, on |-> d.on, step |-> "ready",
           seen |-> d.seen]
  BY <1>2 DEF IssueDuty
<1>4. IssueDuty(e)'
  BY <1>1, <1>2, <1>3 DEF IssueDuty
<1>5. AccessType' /\ RevokedIsMissing' /\ Duties'
  BY <1>1, <1>2, <1>4 DEF AccessInvariant, AccessType, RevokedIsMissing, Duties, IssueDuty
<1>6. \A s \in Subjects : Returns(s)
  BY <1>1, <1>2 DEF AccessInvariant, RevokedIsMissing, Returns, IssueDuty
<1>7. QED
  BY <1>5, <1>6 DEF AccessInvariant

\* What becomes ready has its key, and nobody works on it afterwards.
LEMMA ReadyIsPresent ==
    ASSUME AccessInvariant, MarkReady
    PROVE  AccessInvariant' /\ \A s \in Subjects : Returns(s)
<1>1. PICK d \in duty :
        /\ d.kind = "issue"
        /\ \E s \in d.on :
              /\ s \in keys /\ secret' = [secret EXCEPT ![s] = "ready"]
              /\ duty' = {[d EXCEPT !.on = {}]}
        /\ UNCHANGED <<keys, revoked>>
  BY DEF MarkReady
<1>2. IssueDuty(d)
  BY <1>1 DEF AccessInvariant, Duties, OtherDuty
<1> DEFINE e == [d EXCEPT !.on = {}]
<1>3. e = [kind |-> "issue", conf |-> d.conf, todo |-> d.todo, on |-> {}, step |-> d.step,
           seen |-> d.seen]
  BY <1>2 DEF IssueDuty
<1>4. IssueDuty(e)'
  BY <1>2, <1>3 DEF IssueDuty
<1>5. AccessType' /\ RevokedIsMissing'
  BY <1>1 DEF AccessInvariant, AccessType, RevokedIsMissing
<1>6. QED
  BY <1>1, <1>4, <1>5 DEF AccessInvariant, RevokedIsMissing, Duties, Returns

\* An administrator revokes a key that was ready.
LEMMA RevokedIsReady ==
    ASSUME AccessInvariant, NEW s \in Subjects, RevokeKey(s)
    PROVE  AccessInvariant' /\ \A t \in Subjects : Returns(t)
<1>1. /\ s \in keys /\ secret[s] = "ready" /\ keys' = keys \ {s} /\ revoked' = revoked \cup {s}
      /\ UNCHANGED <<secret, duty>>
  BY DEF RevokeKey
<1>2. AccessType' /\ RevokedIsMissing'
  BY <1>1 DEF AccessInvariant, AccessType, RevokedIsMissing
<1>3. Duties'
  BY <1>1 DEF AccessInvariant, Duties, OtherDuty, IssueDuty, Fields
<1>4. QED
  BY <1>1, <1>2, <1>3 DEF AccessInvariant, RevokedIsMissing, Returns

\* Grants and revocations of roles keep their kind.
LEMMA RolesKeepKeys ==
    ASSUME AccessInvariant, AssignRole \/ DeleteRole
    PROVE  AccessInvariant' /\ \A s \in Subjects : Returns(s)
<1>1. PICK d \in duty :
        /\ d.kind \in {"grant", "revoke"}
        /\ \E s \in d.todo : duty' = {[d EXCEPT !.todo = @ \ {s}]}
        /\ UNCHANGED backendVars
  <2>1. CASE AssignRole
    BY <2>1 DEF AssignRole
  <2>2. CASE DeleteRole
    BY <2>2 DEF DeleteRole
  <2>3. QED
    BY <2>1, <2>2
<1>2. PICK s \in d.todo : duty' = {[d EXCEPT !.todo = @ \ {s}]}
  BY <1>1
<1>3. Fields(d)
  BY <1>1 DEF AccessInvariant, Duties, OtherDuty, IssueDuty
<1> DEFINE e == [d EXCEPT !.todo = @ \ {s}]
<1>4. e = [kind |-> d.kind, conf |-> d.conf, todo |-> d.todo \ {s}]
  BY <1>3 DEF Fields
<1>5. OtherDuty(e)
  BY <1>1, <1>4 DEF OtherDuty, Fields
<1>6. QED
  BY <1>1, <1>2, <1>5, KeysLeftAlone

\* Every step keeps the invariant and returns a revoked key as stated only.
LEMMA AccessSteps ==
    ASSUME AccessInvariant, AccessNext
    PROVE  AccessInvariant' /\ \A s \in Subjects : Returns(s)
<1>1. CASE StartApps \/ StartGrant \/ StartRevoke
  <2>1. PICK d : duty' = {d} /\ OtherDuty(d) /\ UNCHANGED backendVars
    BY <1>1 DEF StartApps, StartGrant, StartRevoke, OtherDuty, Fields
  <2>2. QED
    BY <2>1, KeysLeftAlone
<1>2. CASE SetUp \/ GrantEnd \/ RevokeEnd \/ IssueEnd \/ PublishPolicy \/ DutyDies
  <2>1. duty' \subseteq duty /\ UNCHANGED backendVars
    BY <1>2 DEF SetUp, GrantEnd, RevokeEnd, IssueEnd, PublishPolicy, DutyDies
  <2>2. QED
    BY <2>1, DutyKept
<1>3. CASE AssignRole \/ DeleteRole
  BY <1>3, RolesKeepKeys
<1>4. CASE StartIssue
  <2>1. PICK d :
          /\ d = [kind |-> "issue", conf |-> bindings, todo |-> Active(bindings), on |-> {},
                  step |-> "secret", seen |-> [s \in Active(bindings) |-> Seen(s)]]
          /\ duty' = {d} /\ UNCHANGED backendVars
    BY <1>4 DEF StartIssue
  <2>2. Active(bindings) \subseteq Subjects
    BY DEF Active
  <2>3. IssueDuty(d)'
    BY <2>1, <2>2 DEF IssueDuty
  <2>4. QED
    BY <2>1, <2>3, KeysLeftAlone
<1>5. CASE TakeSubject
  BY <1>5, TakenIsSeen
<1>6. CASE StoreSecret
  BY <1>6, StoredIsPending
<1>7. CASE CreateUser
  BY <1>7, UserKeepsKeys
<1>8. CASE CreateKey
  BY <1>8, CreatedWasSeen
<1>9. CASE MarkReady
  BY <1>9, ReadyIsPresent
<1>10. CASE \E s \in Subjects, state \in {"absent", "active", "disabled"} : EditBinding(s, state)
  <2>1. duty' \subseteq duty /\ UNCHANGED backendVars
    BY <1>10 DEF EditBinding
  <2>2. QED
    BY <2>1, DutyKept
<1>11. CASE \E s \in Subjects : RevokeKey(s)
  BY <1>11, RevokedIsReady
<1>12. CASE \E s \in Subjects : WithdrawRole(s)
  <2>1. duty' \subseteq duty /\ UNCHANGED backendVars
    BY <1>12 DEF WithdrawRole
  <2>2. QED
    BY <2>1, DutyKept
<1>13. QED
  BY <1>1, <1>2, <1>3, <1>4, <1>5, <1>6, <1>7, <1>8, <1>9, <1>10, <1>11, <1>12 DEF AccessNext

\* The invariant holds in every behaviour.
LEMMA AccessInvariantHolds == AccessSpec => []AccessInvariant
<1>1. AccessInvariant /\ UNCHANGED accessVars => AccessInvariant'
  BY DutyKept DEF accessVars, backendVars
<1>2. AccessInvariant /\ [AccessNext]_accessVars => AccessInvariant'
  BY <1>1, AccessSteps
<1>3. QED
  BY <1>2, AccessStarts, PTL DEF AccessSpec

\* proxy_credentials.py inspect_binding(), ensure_binding(): of the keys that were
\* ready and then revoked by an administrator, only one whose subject an issue was
\* working on, and which that issue had found in place before the revocation, is
\* created again.  So no issue that looks after the revocation brings a key back;
\* the one that looked before does (lines 89-91), and nothing
\* is said of a key that is revoked while it is still pending.
THEOREM OnlyARacingIssueRestores == AccessSpec => RevokedStaysRevoked
<1>1. AccessInvariant /\ [AccessNext]_accessVars =>
        [\A s \in revoked \cap keys' :
            \E d \in duty : d.kind = "issue" /\ s \in d.on /\ s \in d.seen[s][3]]_accessVars
  <2>1. AccessInvariant => revoked \subseteq Subjects
    BY DEF AccessInvariant, AccessType
  <2>2. QED
    BY <2>1, AccessSteps DEF Returns
<1>2. QED
  BY <1>1, AccessInvariantHolds, PTL DEF AccessSpec, RevokedStaysRevoked

(* Whoever is admitted can work: a role that was granted is there or was     *)
(* withdrawn, a key that was issued is there or was revoked, and the issue   *)
(* that is under way has a ready key of whomever it has dealt with.          *)

HasRole(s) == s \in roles \cup withdrawn
HasKey(s)  == secret[s] = "ready" /\ s \in keys \cup revoked

\* What an issue has done of its list.
IssueGoesOn(d) ==
    d.kind = "issue" =>
        /\ \A s \in Active(d.conf) : s \in d.todo \cup d.on \/ HasKey(s)
        /\ \A s, t \in d.on : s = t

Promises ==
    /\ \A c \in access : \A s \in Active(c) : HasRole(s)
    /\ \A c \in issued : \A s \in Active(c) : HasKey(s)
    /\ \A admitted \in policy : \A s \in admitted : s \in Subjects /\ HasRole(s) /\ HasKey(s)
    /\ \A d \in duty : IssueGoesOn(d)

\* Roles and keys are lost to a withdrawal or a revocation only.
LEMMA RolesAndKeysStay ==
    ASSUME AccessInvariant, AccessNext, NEW s \in Subjects
    PROVE  (HasRole(s) => HasRole(s)') /\ (HasKey(s) => HasKey(s)')
<1>. USE DEF HasRole, HasKey
<1>1. secret \in [Subjects -> {"none", "pending", "ready"}]
  BY DEF AccessInvariant, AccessType
<1>2. CASE StartApps \/ SetUp \/ StartGrant \/ GrantEnd \/ StartRevoke \/ RevokeEnd
  BY <1>2 DEF StartApps, SetUp, StartGrant, GrantEnd, StartRevoke, RevokeEnd, directoryVars, backendVars
<1>3. CASE AssignRole \/ DeleteRole
  BY <1>3 DEF AssignRole, DeleteRole, backendVars
<1>4. CASE StartIssue \/ TakeSubject \/ IssueEnd \/ PublishPolicy \/ DutyDies
  BY <1>4 DEF StartIssue, TakeSubject, IssueEnd, PublishPolicy, DutyDies, directoryVars, backendVars
<1>5. CASE StoreSecret
  <2>1. secret'[s] = secret[s] \/ (secret[s] = "none" /\ UNCHANGED <<roles, withdrawn>>)
    BY <1>1, <1>5 DEF StoreSecret, directoryVars
  <2>. QED  BY <1>5, <2>1 DEF StoreSecret, directoryVars
<1>6. CASE CreateUser \/ CreateKey
  BY <1>6 DEF CreateUser, CreateKey, directoryVars
<1>7. CASE MarkReady
  <2>1. secret[s] = "ready" => secret'[s] = "ready"
    BY <1>1, <1>7 DEF MarkReady
  <2>. QED  BY <1>7, <2>1 DEF MarkReady, directoryVars
<1>8. CASE \E t \in Subjects, state \in {"absent", "active", "disabled"} : EditBinding(t, state)
  BY <1>8 DEF EditBinding, directoryVars, backendVars
<1>9. CASE \E t \in Subjects : RevokeKey(t) \/ WithdrawRole(t)
  BY <1>9 DEF RevokeKey, WithdrawRole, directoryVars, backendVars
<1>. QED  BY <1>2, <1>3, <1>4, <1>5, <1>6, <1>7, <1>8, <1>9 DEF AccessNext

\* The operation under way has a key for whomever its list no longer names.
LEMMA IssuesGoOn ==
    ASSUME AccessInvariant, Promises, AccessNext, NEW e \in duty'
    PROVE  IssueGoesOn(e)'
<1>. USE DEF Active
<1>0. /\ \A d \in duty : IssueGoesOn(d) /\ (d.kind = "issue" => IssueDuty(d))
      /\ \A s \in Subjects : HasKey(s) => HasKey(s)'
  BY RolesAndKeysStay DEF Promises, AccessInvariant, Duties, OtherDuty
<1>1. CASE e \in duty
  BY <1>0, <1>1 DEF IssueGoesOn, Active
<1>2. CASE e.kind # "issue"
  BY <1>2 DEF IssueGoesOn
<1>3. CASE StartIssue
  <2>1. e = [kind |-> "issue", conf |-> bindings, todo |-> Active(bindings), on |-> {},
             step |-> "secret", seen |-> [s \in Active(bindings) |-> Seen(s)]]
    BY <1>3 DEF StartIssue
  <2>2. e.conf = bindings /\ e.todo = Active(bindings) /\ e.on = {}
    BY <2>1
  <2>. QED  BY <2>2 DEF IssueGoesOn
<1>4. CASE TakeSubject
  <2>1. PICK d \in duty : \E s \in d.todo :
          /\ d.kind = "issue" /\ d.on = {}
          /\ e = [kind |-> "issue", conf |-> d.conf, todo |-> d.todo \ {s}, on |-> {s},
                  step |-> "secret", seen |-> d.seen]
    BY <1>4 DEF TakeSubject
  <2>2. PICK s \in d.todo : e.conf = d.conf /\ e.todo = d.todo \ {s} /\ e.on = {s}
    BY <2>1
  <2>. QED  BY <1>0, <2>1, <2>2 DEF IssueGoesOn
<1>5. CASE StoreSecret \/ CreateUser \/ CreateKey
  <2>1. PICK d \in duty : d.kind = "issue" /\ \E step : e = [d EXCEPT !.step = step]
    BY <1>5 DEF StoreSecret, CreateUser, CreateKey
  <2>2. e.conf = d.conf /\ e.todo = d.todo /\ e.on = d.on
    BY <1>0, <2>1 DEF IssueDuty
  <2>. QED  BY <1>0, <2>1, <2>2 DEF IssueGoesOn
<1>6. CASE MarkReady
  <2>1. PICK d \in duty : \E s \in d.on :
          /\ d.kind = "issue" /\ s \in keys /\ keys' = keys
          /\ secret' = [secret EXCEPT ![s] = "ready"] /\ e = [d EXCEPT !.on = {}]
    BY <1>6 DEF MarkReady
  <2>a. PICK s \in d.on :
          /\ d.kind = "issue" /\ s \in keys /\ keys' = keys
          /\ secret' = [secret EXCEPT ![s] = "ready"] /\ e = [d EXCEPT !.on = {}]
    BY <2>1
  <2>2. e.conf = d.conf /\ e.todo = d.todo /\ e.on = {}
    BY <1>0, <2>a DEF IssueDuty
  <2>3. HasKey(s)'
    BY <1>0, <2>a DEF HasKey, AccessInvariant, AccessType, IssueDuty
  <2>4. \A t \in d.on : t = s
    BY <1>0, <2>a DEF IssueGoesOn
  <2>. QED  BY <1>0, <2>a, <2>2, <2>3, <2>4 DEF IssueGoesOn
<1>7. CASE StartApps \/ StartGrant \/ StartRevoke
  BY <1>2, <1>7 DEF StartApps, StartGrant, StartRevoke
<1>8. CASE AssignRole \/ DeleteRole
  <2>1. PICK d \in duty : d.kind \in {"grant", "revoke"} /\ \E s : e = [d EXCEPT !.todo = @ \ {s}]
    BY <1>8 DEF AssignRole, DeleteRole
  <2>2. Fields(d)
    BY <2>1 DEF AccessInvariant, Duties, OtherDuty, IssueDuty
  <2>3. e.kind = d.kind
    BY <2>1, <2>2 DEF Fields
  <2>. QED  BY <1>2, <2>1, <2>3
<1>9. CASE SetUp \/ GrantEnd \/ RevokeEnd \/ IssueEnd \/ PublishPolicy \/ DutyDies
  <2>1. duty' \subseteq duty
    BY <1>9 DEF SetUp, GrantEnd, RevokeEnd, IssueEnd, PublishPolicy, DutyDies
  <2>. QED  BY <1>1, <2>1
<1>10. CASE \E s \in Subjects, state \in {"absent", "active", "disabled"} : EditBinding(s, state)
  <2>1. duty' = duty
    BY <1>10 DEF EditBinding
  <2>. QED  BY <1>1, <2>1
<1>11. CASE \E s \in Subjects : RevokeKey(s) \/ WithdrawRole(s)
  <2>1. duty' = duty
    BY <1>11 DEF RevokeKey, WithdrawRole
  <2>. QED  BY <1>1, <2>1
<1>. QED  BY <1>3, <1>4, <1>5, <1>6, <1>7, <1>8, <1>9, <1>10, <1>11 DEF AccessNext

\* A receipt is written, and a policy published, when it is fulfilled.
LEMMA ReceiptsAreFulfilled ==
    ASSUME AccessInvariant, Promises, AccessNext
    PROVE  Promises'
<1>0. /\ \A s \in Subjects : (HasRole(s) => HasRole(s)') /\ (HasKey(s) => HasKey(s)')
      /\ \A b : Active(b) \subseteq Subjects
  BY RolesAndKeysStay DEF Active
<1>1. \A d \in duty' : IssueGoesOn(d)'
  BY IssuesGoOn
<1>a. ASSUME access' = access, issued' = issued, policy' = policy PROVE Promises'
  BY <1>0, <1>1, <1>a DEF Promises, Active
<1>2. CASE GrantEnd
  <2>1. PICK d \in duty : roles = Active(d.conf) /\ access' = {d.conf} /\ roles' = roles
    BY <1>2 DEF GrantEnd, directoryVars
  <2>2. \A s \in Active(d.conf) : HasRole(s)'
    BY <2>1 DEF HasRole
  <2>3. issued' = issued /\ policy' = policy
    BY <1>2 DEF GrantEnd
  <2>. QED  BY <1>0, <1>1, <2>1, <2>2, <2>3 DEF Promises, Active
<1>3. CASE IssueEnd
  <2>1. PICK d \in duty : d.kind = "issue" /\ d.on = {} /\ d.todo = {} /\ issued' = {d.conf}
    BY <1>3 DEF IssueEnd
  <2>2. \A s \in Active(d.conf) : HasKey(s)
    BY <2>1 DEF Promises, IssueGoesOn
  <2>3. access' = access /\ policy' = policy
    BY <1>3 DEF IssueEnd
  <2>. QED  BY <1>0, <1>1, <2>1, <2>2, <2>3 DEF Promises, Active
<1>4. CASE PublishPolicy
  <2>1. /\ bindings \in access /\ bindings \in issued /\ policy' = {Active(bindings)}
        /\ access' = access /\ issued' = issued
    BY <1>4 DEF PublishPolicy, ReceiptsCurrent
  <2>2. \A s \in Active(bindings) : s \in Subjects /\ HasRole(s) /\ HasKey(s)
    BY <1>0, <2>1 DEF Promises
  <2>. QED  BY <1>0, <1>1, <2>1, <2>2 DEF Promises, Active
<1>5. CASE \/ StartApps \/ SetUp \/ StartGrant \/ AssignRole \/ StartRevoke \/ DeleteRole \/ RevokeEnd
           \/ StartIssue \/ TakeSubject \/ StoreSecret \/ CreateUser \/ CreateKey \/ MarkReady \/ DutyDies
  BY <1>5, <1>a DEF StartApps, SetUp, StartGrant, AssignRole, StartRevoke, DeleteRole, RevokeEnd, StartIssue,
                    TakeSubject, StoreSecret, CreateUser, CreateKey, MarkReady, DutyDies, receiptVars
<1>6. CASE \E s \in Subjects, state \in {"absent", "active", "disabled"} : EditBinding(s, state)
  BY <1>6, <1>a DEF EditBinding, receiptVars
<1>7. CASE \E s \in Subjects : RevokeKey(s) \/ WithdrawRole(s)
  BY <1>7, <1>a DEF RevokeKey, WithdrawRole, receiptVars
<1>. QED  BY <1>2, <1>3, <1>4, <1>5, <1>6, <1>7 DEF AccessNext

\* proxy_manifest.py prepare_proxy_documents(): whoever the published policy
\* admits has the role and a key that is ready, or an administrator took one of
\* them away: whatever operations died, and however often the configuration
\* changed between grant, issue and publication.
THEOREM AdmittedWork == AccessSpec => []AdmittedCanWork
<1>1. AccessInit => Promises
  BY DEF AccessInit, Promises
<1>2. AccessInvariant /\ Promises /\ [AccessNext]_accessVars => Promises'
  <2>1. ASSUME Promises, UNCHANGED accessVars PROVE Promises'
    BY <2>1 DEF Promises, accessVars, HasRole, HasKey, IssueGoesOn, Active
  <2>. QED  BY <2>1, ReceiptsAreFulfilled
<1>3. Promises => AdmittedCanWork
  BY DEF Promises, AdmittedCanWork, HasRole, HasKey
<1>. QED  BY <1>1, <1>2, <1>3, AccessInvariantHolds, PTL DEF AccessSpec

-----------------------------------------------------------------------------
(***************************************************************************)
(* CertificateIssue: every challenge record and every open order is one    *)
(* the saved state can still clean up.                                     *)
(*                                                                         *)
(* CertificateInvariant says, step by step of a run, what is already saved *)
(* of the state the run holds: the phase that announces an external call   *)
(* is saved before the call, and what the call answered is saved before    *)
(* the next one.                                                           *)
(***************************************************************************)

IsState(p) ==
    /\ p = [phase |-> p.phase, order |-> p.order, txt |-> p.txt, cert |-> p.cert]
    /\ p.txt \in BOOLEAN
    /\ p.phase \in {"prepared", "ordering"} => p.order = 0 /\ p.txt = FALSE
    /\ p.phase \in {"prepared", "ordering", "ordered", "issued"}

IsRun(r) == r = [state |-> r.state, step |-> r.step, saved |-> r.saved, seen |-> r.seen]

CertificateType ==
    /\ orders \in Seq({"open", "final"}) /\ certs \in Seq({"fresh", "due", "stale"})
    /\ tls.cert \in 0..Len(certs)

\* Nothing is left of earlier orders.
Clean == txt = {} /\ DOMAIN orders \subseteq settled

Pending ==
    pending = {} \/ \E p \in pending :
        /\ pending = {p} /\ IsState(p)
        /\ p.phase = "issued" => p.cert \in 1..Len(certs)
        /\ p.phase = "issued" /\ p.cert = tls.cert => txt = {} /\ p.order \in settled

Saved(r, steps, phase) == r.step \in steps => pending = {r.state} /\ r.state.phase = phase

RunHolds(r) ==
    /\ IsRun(r) /\ pending = r.saved
    /\ r.step = "prepare" => r.state = Fresh /\ Clean
    /\ Saved(r, {"ordering"}, "prepared")
    /\ Saved(r, {"order"}, "ordering")
    /\ r.step = "order" => Clean
    /\ r.step = "ordered" => \E p \in pending :
           /\ pending = {p} /\ p.phase = "ordering"
           /\ r.state = [p EXCEPT !.order = Len(orders)]
    /\ Saved(r, {"remember", "publish", "finalize"}, "ordered")
    /\ r.step = "publish" => r.state.txt
    /\ r.step = "issued" => \E p \in pending, c \in 1..Len(certs) :
           /\ pending = {p} /\ p.phase = "ordered" /\ c # tls.cert
           /\ r.state = [p EXCEPT !.cert = c]
    /\ Saved(r, {"clean", "check", "install"}, "issued")
    /\ r.step \in {"check", "install"} => txt = {}

CertificateInvariant ==
    CertificateType /\ Pending /\ LeftoversKnown /\ \A r \in run : RunHolds(r)

LEMMA CertificateStarts == CertificateInit => CertificateInvariant
  BY DEF CertificateInit, CertificateInvariant, CertificateType, Pending, LeftoversKnown

LEMMA SavedRun ==
  ASSUME NEW r, NEW s, NEW next, IsRun(r), Save(r, s, next)
  PROVE  pending' = {s} /\ run' = {[state |-> s, step |-> next, saved |-> {s}, seen |-> r.seen]}
<1>1. PICK h : h = [r EXCEPT !.state = s]
  OBVIOUS
<1>2. h = [state |-> s, step |-> r.step, saved |-> r.saved, seen |-> r.seen]
  BY <1>1 DEF IsRun
<1>3. PICK k : k = [h EXCEPT !.saved = {s}]
  OBVIOUS
<1>4. k = [state |-> s, step |-> r.step, saved |-> {s}, seen |-> r.seen]
  BY <1>2, <1>3
<1>5. PICK q : q = [k EXCEPT !.step = next]
  OBVIOUS
<1>6. q = [state |-> s, step |-> next, saved |-> {s}, seen |-> r.seen]
  BY <1>4, <1>5
<1>7. pending' = {s} /\ run' = {q}
  BY <1>1, <1>3, <1>5 DEF Save
<1>. QED  BY <1>6, <1>7

LEMMA StepOnly ==
  ASSUME NEW r, NEW z, IsRun(r)
  PROVE  [r EXCEPT !.step = z] = [state |-> r.state, step |-> z, saved |-> r.saved, seen |-> r.seen]
  BY DEF IsRun

LEMMA StateAndStep ==
  ASSUME NEW r, NEW x, NEW z, IsRun(r)
  PROVE  [r EXCEPT !.state = x, !.step = z] =
            [state |-> x, step |-> z, saved |-> r.saved, seen |-> r.seen]
<1>1. PICK h : h = [r EXCEPT !.state = x]
  OBVIOUS
<1>2. h = [state |-> x, step |-> r.step, saved |-> r.saved, seen |-> r.seen]
  BY <1>1 DEF IsRun
<1>3. [h EXCEPT !.step = z] = [state |-> x, step |-> z, saved |-> r.saved, seen |-> r.seen]
  BY <1>2
<1>. QED  BY <1>1, <1>3

LEMMA PhaseSet ==
  ASSUME NEW p, NEW x, p = [phase |-> p.phase, order |-> p.order, txt |-> p.txt, cert |-> p.cert]
  PROVE  [p EXCEPT !.phase = x] = [phase |-> x, order |-> p.order, txt |-> p.txt, cert |-> p.cert]
  OBVIOUS

LEMMA PhaseNext ==
  ASSUME NEW a, NEW b, NEW c, NEW d, NEW x
  PROVE  [[phase |-> a, order |-> b, txt |-> c, cert |-> d] EXCEPT !.phase = x] =
            [phase |-> x, order |-> b, txt |-> c, cert |-> d]
  OBVIOUS

LEMMA OrderSet ==
  ASSUME NEW p, NEW x, p = [phase |-> p.phase, order |-> p.order, txt |-> p.txt, cert |-> p.cert]
  PROVE  [p EXCEPT !.order = x] = [phase |-> p.phase, order |-> x, txt |-> p.txt, cert |-> p.cert]
  OBVIOUS

LEMMA TxtSet ==
  ASSUME NEW p, NEW x, p = [phase |-> p.phase, order |-> p.order, txt |-> p.txt, cert |-> p.cert]
  PROVE  [p EXCEPT !.txt = x] = [phase |-> p.phase, order |-> p.order, txt |-> x, cert |-> p.cert]
  OBVIOUS

LEMMA CertSet ==
  ASSUME NEW p, NEW x, p = [phase |-> p.phase, order |-> p.order, txt |-> p.txt, cert |-> p.cert]
  PROVE  [p EXCEPT !.cert = x] = [phase |-> p.phase, order |-> p.order, txt |-> p.txt, cert |-> x]
  OBVIOUS

\* A run that saves a state, of which the pending state accounts for what there is.
LEMMA SaveHolds ==
  ASSUME CertificateInvariant, NEW r \in run, NEW s, NEW next, Save(r, s, next),
         UNCHANGED <<orders, certs, txt, tls, settled>>,
         IsState(s), s.phase # "issued" \/ (s.cert \in 1..Len(certs) /\ s.cert # tls.cert),
         \/ Clean
         \/ \E p \in pending : /\ pending = {p} /\ (p.txt => s.txt) /\ s.order = p.order
                               /\ p.phase # "ordering" \/ s.phase = "ordering"
         \/ \E p \in pending : /\ pending = {p} /\ (p.txt => s.txt)
                               /\ p.phase = "ordering" /\ s.order = Len(orders),
         \/ next = "ordering" /\ s.phase = "prepared"
         \/ next = "order" /\ s.phase = "ordering" /\ Clean
         \/ next = "remember" /\ s.phase = "ordered"
         \/ next = "publish" /\ s.phase = "ordered" /\ s.txt
         \/ next = "clean" /\ s.phase = "issued"
  PROVE  CertificateInvariant'
<1>1. IsRun(r) /\ CertificateType /\ Pending /\ LeftoversKnown
  BY DEF CertificateInvariant, RunHolds
<1>2. pending' = {s} /\ run' = {[state |-> s, step |-> next, saved |-> {s}, seen |-> r.seen]}
  BY <1>1, SavedRun
<1>3. RunHolds([state |-> s, step |-> next, saved |-> {s}, seen |-> r.seen])'
  <2>1. PICK q : q = [state |-> s, step |-> next, saved |-> {s}, seen |-> r.seen]
    OBVIOUS
  <2>2. /\ q = [state |-> q.state, step |-> q.step, saved |-> q.saved, seen |-> q.seen]
        /\ q.state = s /\ q.step = next /\ q.saved = {s}
    BY <2>1
  <2>3. q.step \notin {"prepare", "ordered", "issued", "check", "install"}
    BY <2>2
  <2>4. q.step = "order" => Clean'
    BY <2>2 DEF Clean
  <2>5. /\ Saved(q, {"ordering"}, "prepared")' /\ Saved(q, {"order"}, "ordering")'
        /\ Saved(q, {"remember", "publish", "finalize"}, "ordered")'
        /\ Saved(q, {"clean", "check", "install"}, "issued")'
        /\ q.step = "publish" => q.state.txt
    BY <1>2, <2>2 DEF Saved
  <2>6. RunHolds(q)'
    BY <1>2, <2>2, <2>3, <2>4, <2>5 DEF RunHolds, IsRun
  <2>. QED  BY <2>1, <2>6
<1>4. LeftoversKnown'
  <2>1. CASE Clean
    BY <1>1, <1>2, <2>1 DEF Clean, LeftoversKnown
  <2>2. ASSUME NEW p \in pending, pending = {p}, (p.txt => s.txt), s.order = p.order,
               p.phase # "ordering" \/ s.phase = "ordering"
        PROVE  LeftoversKnown'
    BY <1>1, <1>2, <2>2 DEF LeftoversKnown
  <2>3. ASSUME NEW p \in pending, pending = {p}, (p.txt => s.txt),
               p.phase = "ordering", s.order = Len(orders)
        PROVE  LeftoversKnown'
    <3>1. p.order = 0 /\ p.txt = FALSE
      BY <1>1, <2>3 DEF Pending, IsState
    <3>2. \A o \in DOMAIN orders \ settled : o = Len(orders)
      BY <1>1, <2>3, <3>1 DEF LeftoversKnown, CertificateType
    <3>3. txt = {}
      BY <1>1, <2>3, <3>1 DEF LeftoversKnown
    <3>. QED  BY <1>2, <2>3, <3>2, <3>3 DEF LeftoversKnown
  <2>. QED  BY <2>1, <2>2, <2>3
<1>5. Pending'
  BY <1>2 DEF Pending, IsState
<1>. QED  BY <1>1, <1>2, <1>3, <1>4, <1>5 DEF CertificateInvariant, CertificateType

LEMMA BeginStep ==
  ASSUME CertificateInvariant, BeginRun
  PROVE  CertificateInvariant'
<1>1. UNCHANGED <<orders, certs, txt, pending, tls, settled>>
  BY DEF BeginRun
<1>2. CASE Resumed = {}
  <2>1. run' = {[state |-> Fresh, step |-> "prepare", saved |-> pending, seen |-> tls]}
    BY <1>2 DEF BeginRun
  <2>2. Clean
    BY <1>2 DEF CertificateInvariant, Pending, LeftoversKnown, Resumed, Clean
  <2>3. RunHolds([state |-> Fresh, step |-> "prepare", saved |-> pending, seen |-> tls])'
    BY <1>1, <2>2 DEF RunHolds, IsRun, Saved, Clean, Fresh
  <2>. QED  BY <1>1, <2>1, <2>3 DEF CertificateInvariant, CertificateType, Pending, LeftoversKnown
<1>3. CASE Resumed # {}
  <2>1. PICK p \in pending :
          /\ p.phase # "ordering"
          /\ run' = {[state |-> p, step |-> ResumeAt(p.phase), saved |-> pending, seen |-> tls]}
    BY <1>3 DEF BeginRun, Resumed
  <2>2. pending = {p} /\ IsState(p)
    BY DEF CertificateInvariant, Pending
  <2>3. \/ p.phase = "prepared" /\ ResumeAt(p.phase) = "ordering"
        \/ p.phase = "ordered" /\ ResumeAt(p.phase) = "remember"
        \/ p.phase = "issued" /\ ResumeAt(p.phase) = "clean"
    BY <2>1, <2>2 DEF IsState, ResumeAt
  <2>4. RunHolds([state |-> p, step |-> ResumeAt(p.phase), saved |-> pending, seen |-> tls])'
    BY <1>1, <2>2, <2>3 DEF RunHolds, IsRun, Saved
  <2>. QED  BY <1>1, <2>1, <2>4 DEF CertificateInvariant, CertificateType, Pending, LeftoversKnown
<1>. QED  BY <1>2, <1>3

LEMMA SaveSteps ==
  ASSUME CertificateInvariant, SavePrepared \/ SaveOrdering \/ SaveOrdered \/ SaveIssued
  PROVE  CertificateInvariant'
<1>. USE DEF CertificateInvariant
<1>1. CASE SavePrepared
  <2>1. PICK r \in run : /\ r.step = "prepare" /\ Save(r, r.state, "ordering")
                         /\ UNCHANGED <<orders, certs, txt, tls, settled>>
    BY <1>1 DEF SavePrepared
  <2>2. r.state = Fresh /\ Clean
    BY <2>1 DEF RunHolds
  <2>. QED  BY <2>1, <2>2, SaveHolds DEF Fresh, IsState
<1>2. CASE SaveOrdering
  <2>1. PICK r \in run : /\ r.step = "ordering" /\ Save(r, [r.state EXCEPT !.phase = "ordering"], "order")
                         /\ UNCHANGED <<orders, certs, txt, tls, settled>>
    BY <1>2 DEF SaveOrdering
  <2>2. pending = {r.state} /\ r.state.phase = "prepared" /\ IsState(r.state)
    BY <2>1 DEF RunHolds, Saved, Pending
  <2>3. PICK s : s = [r.state EXCEPT !.phase = "ordering"]
    OBVIOUS
  <2>4. s = [phase |-> "ordering", order |-> 0, txt |-> FALSE, cert |-> r.state.cert]
    BY <2>2, <2>3, PhaseSet DEF IsState
  <2>5. Clean
    BY <2>2 DEF IsState, LeftoversKnown, Clean, CertificateType
  <2>6. IsState(s)
    BY <2>4 DEF IsState
  <2>. QED  BY <2>1, <2>3, <2>4, <2>5, <2>6, SaveHolds
<1>3. CASE SaveOrdered
  <2>1. PICK r \in run : /\ r.step = "ordered" /\ Save(r, [r.state EXCEPT !.phase = "ordered"], "remember")
                         /\ UNCHANGED <<orders, certs, txt, tls, settled>>
    BY <1>3 DEF SaveOrdered
  <2>2. PICK p \in pending : /\ pending = {p} /\ p.phase = "ordering" /\ IsState(p)
                             /\ r.state = [p EXCEPT !.order = Len(orders)]
    BY <2>1 DEF RunHolds, Pending
  <2>3. r.state = [phase |-> "ordering", order |-> Len(orders), txt |-> p.txt, cert |-> p.cert]
    BY <2>2, OrderSet DEF IsState
  <2>4. PICK s : s = [r.state EXCEPT !.phase = "ordered"]
    OBVIOUS
  <2>5. s = [phase |-> "ordered", order |-> Len(orders), txt |-> p.txt, cert |-> p.cert]
    BY <2>3, <2>4, PhaseNext
  <2>6. IsState(s)
    BY <2>2, <2>5 DEF IsState
  <2>7. p.txt = FALSE
    BY <2>2 DEF IsState
  <2>. QED  BY <2>1, <2>2, <2>4, <2>5, <2>6, <2>7, SaveHolds
<1>4. CASE SaveIssued
  <2>1. PICK r \in run : /\ r.step = "issued" /\ Save(r, [r.state EXCEPT !.phase = "issued"], "clean")
                         /\ UNCHANGED <<orders, certs, txt, tls, settled>>
    BY <1>4 DEF SaveIssued
  <2>2. PICK p \in pending, c \in 1..Len(certs) :
          /\ pending = {p} /\ p.phase = "ordered" /\ IsState(p) /\ c # tls.cert
          /\ r.state = [p EXCEPT !.cert = c]
    <3>1. PICK p \in pending, c \in 1..Len(certs) :
            /\ pending = {p} /\ p.phase = "ordered" /\ c # tls.cert
            /\ r.state = [p EXCEPT !.cert = c]
      BY <2>1 DEF RunHolds
    <3>2. IsState(p)
      BY <3>1 DEF Pending
    <3>. QED  BY <3>1, <3>2
  <2>3. r.state = [phase |-> "ordered", order |-> p.order, txt |-> p.txt, cert |-> c]
    BY <2>2, CertSet DEF IsState
  <2>4. PICK s : s = [r.state EXCEPT !.phase = "issued"]
    OBVIOUS
  <2>5. s = [phase |-> "issued", order |-> p.order, txt |-> p.txt, cert |-> c]
    BY <2>3, <2>4, PhaseNext
  <2>6. IsState(s)
    BY <2>2, <2>5 DEF IsState
  <2>. QED  BY <2>1, <2>2, <2>4, <2>5, <2>6, SaveHolds, ZenonT(60)
<1>. QED  BY <1>1, <1>2, <1>3, <1>4

LEMMA SetInSeq ==
  ASSUME NEW S, NEW q \in Seq(S), NEW i, NEW v \in S
  PROVE  /\ [q EXCEPT ![i] = v] \in Seq(S) /\ Len([q EXCEPT ![i] = v]) = Len(q)
         /\ DOMAIN [q EXCEPT ![i] = v] = DOMAIN q
<1>1. CASE i \in DOMAIN q
  BY <1>1
<1>2. CASE i \notin DOMAIN q
  <2>1. [q EXCEPT ![i] = v] = q
    BY <1>2
  <2>. QED  BY <2>1
<1>. QED  BY <1>1, <1>2

LEMMA OrderSteps ==
  ASSUME CertificateInvariant, NewOrder \/ FinalizeOrder
  PROVE  CertificateInvariant'
<1>. USE DEF CertificateInvariant
<1>1. CASE NewOrder
  <2>1. PICK r \in run :
          /\ r.step = "order" /\ orders' = Append(orders, "open")
          /\ run' = {[r EXCEPT !.state.order = Len(orders'), !.step = "ordered"]}
          /\ UNCHANGED <<certs, txt, pending, tls, settled>>
    BY <1>1 DEF NewOrder
  <2>2. /\ IsRun(r) /\ pending = {r.state} /\ r.state.phase = "ordering" /\ Clean /\ pending = r.saved
        /\ IsState(r.state)
    BY <2>1 DEF RunHolds, Saved, Pending
  <2>3. orders' \in Seq({"open", "final"}) /\ Len(orders') = Len(orders) + 1
        /\ DOMAIN orders' = DOMAIN orders \cup {Len(orders')}
    <3>1. orders \in Seq({"open", "final"}) /\ "open" \in {"open", "final"}
      BY DEF CertificateType
    <3>2. orders' \in Seq({"open", "final"}) /\ Len(orders') = Len(orders) + 1
      BY <2>1, <3>1
    <3>3. DOMAIN orders = 1..Len(orders) /\ DOMAIN orders' = 1..Len(orders') /\ Len(orders) \in Nat
      BY <3>1, <3>2
    <3>. QED  BY <3>2, <3>3
  <2>4. PICK q : q = [r EXCEPT !.state.order = Len(orders'), !.step = "ordered"]
    OBVIOUS
  <2>5. q = [state |-> [r.state EXCEPT !.order = Len(orders')], step |-> "ordered", saved |-> pending,
             seen |-> r.seen]
    BY <2>2, <2>4, StateAndStep
  <2>6. RunHolds(q)'
    BY <2>1, <2>2, <2>5 DEF RunHolds, IsRun, Saved
  <2>7. LeftoversKnown'
    BY <2>1, <2>2, <2>3 DEF LeftoversKnown, Clean
  <2>. QED  BY <2>1, <2>3, <2>4, <2>6, <2>7 DEF CertificateType, Pending
<1>2. CASE FinalizeOrder
  <2>1. PICK r \in run :
          /\ r.step = "finalize" /\ orders' = [orders EXCEPT ![r.state.order] = "final"]
          /\ certs' = Append(certs, "fresh")
          /\ run' = {[r EXCEPT !.state.cert = Len(certs'), !.step = "issued"]}
          /\ UNCHANGED <<txt, pending, tls, settled>>
    BY <1>2 DEF FinalizeOrder
  <2>2. /\ IsRun(r) /\ pending = {r.state} /\ r.state.phase = "ordered" /\ pending = r.saved
        /\ IsState(r.state)
    BY <2>1 DEF RunHolds, Saved, Pending
  <2>3. orders' \in Seq({"open", "final"}) /\ Len(orders') = Len(orders) /\ DOMAIN orders' = DOMAIN orders
    <3>1. orders \in Seq({"open", "final"}) /\ "final" \in {"open", "final"}
      BY DEF CertificateType
    <3>2. PICK o : o = r.state.order
      OBVIOUS
    <3>3. orders' = [orders EXCEPT ![o] = "final"]
      BY <2>1, <3>2
    <3>. QED  BY <3>1, <3>3, SetInSeq
  <2>4. certs' \in Seq({"fresh", "due", "stale"}) /\ Len(certs') = Len(certs) + 1
    <3>1. certs \in Seq({"fresh", "due", "stale"}) /\ "fresh" \in {"fresh", "due", "stale"}
      BY DEF CertificateType
    <3>. QED  BY <2>1, <3>1
  <2>5. PICK q : q = [r EXCEPT !.state.cert = Len(certs'), !.step = "issued"]
    OBVIOUS
  <2>6. q = [state |-> [r.state EXCEPT !.cert = Len(certs')], step |-> "issued", saved |-> pending,
             seen |-> r.seen]
    BY <2>2, <2>5, StateAndStep
  <2>7. CertificateType' /\ Len(certs') # tls'.cert /\ Len(certs') \in 1..Len(certs')
    BY <2>1, <2>3, <2>4 DEF CertificateType
  <2>8. RunHolds(q)'
    BY <2>1, <2>2, <2>6, <2>7 DEF RunHolds, IsRun, Saved
  <2>9. LeftoversKnown' /\ Pending'
    BY <2>1, <2>2, <2>3 DEF LeftoversKnown, Pending
  <2>. QED  BY <2>1, <2>5, <2>7, <2>8, <2>9
<1>. QED  BY <1>1, <1>2

\* The other steps of a run.
LEMMA OtherSteps ==
  ASSUME CertificateInvariant, NEW r \in run, NEW next, run' = {[r EXCEPT !.step = next]},
         UNCHANGED <<orders, certs, pending, tls, settled>>,
         \/ r.step \in {"remember", "publish"} /\ next = "finalize"
         \/ r.step = "clean" /\ next = "check" /\ txt' = {}
         \/ r.step = "check" /\ next = "install" /\ txt' = {},
         txt' \subseteq txt \/ \E p \in pending : p.txt /\ p.phase # "issued" /\ txt' = txt \cup {p.order}
  PROVE  CertificateInvariant'
<1>. USE DEF CertificateInvariant
<1>1. RunHolds(r)
  OBVIOUS
<1>2. PICK q : q = [r EXCEPT !.step = next]
  OBVIOUS
<1>3. q = [state |-> r.state, step |-> next, saved |-> r.saved, seen |-> r.seen]
  BY <1>1, <1>2, StepOnly DEF RunHolds
<1>4. RunHolds(q)'
  BY <1>1, <1>3 DEF RunHolds, IsRun, Saved
<1>5. LeftoversKnown' /\ Pending'
  BY DEF LeftoversKnown, Pending
<1>. QED  BY <1>2, <1>4, <1>5 DEF CertificateType

LEMMA SettingSteps ==
  ASSUME CertificateInvariant, SaveValidation \/ PublishTxt \/ RemoveTxt \/ CheckSecret
  PROVE  CertificateInvariant'
<1>. USE DEF CertificateInvariant
<1>1. CASE SaveValidation
  <2>1. PICK r \in run :
          /\ r.step = "remember" /\ UNCHANGED <<orders, certs, txt, tls, settled>>
          /\ \/ Save(r, [r.state EXCEPT !.txt = TRUE], "publish")
             \/ run' = {[r EXCEPT !.step = "finalize"]} /\ pending' = pending
    BY <1>1 DEF SaveValidation
  <2>2. CASE run' = {[r EXCEPT !.step = "finalize"]} /\ pending' = pending
    BY <2>1, <2>2, OtherSteps
  <2>3. ASSUME Save(r, [r.state EXCEPT !.txt = TRUE], "publish")
        PROVE  CertificateInvariant'
    <3>1. pending = {r.state} /\ IsState(r.state) /\ r.state.phase = "ordered"
      BY <2>1 DEF RunHolds, Saved, Pending
    <3>2. PICK s : s = [r.state EXCEPT !.txt = TRUE]
      OBVIOUS
    <3>3. s = [phase |-> "ordered", order |-> r.state.order, txt |-> TRUE, cert |-> r.state.cert]
      BY <3>1, <3>2, TxtSet DEF IsState
    <3>4. IsState(s)
      BY <3>3 DEF IsState
    <3>. QED  BY <2>1, <2>3, <3>1, <3>2, <3>3, <3>4, SaveHolds
  <2>. QED  BY <2>1, <2>2, <2>3
<1>2. CASE PublishTxt
  <2>1. PICK r \in run : /\ r.step = "publish" /\ txt' = txt \cup {r.state.order}
                         /\ run' = {[r EXCEPT !.step = "finalize"]}
                         /\ UNCHANGED <<orders, certs, pending, tls, settled>>
    BY <1>2 DEF PublishTxt
  <2>2. pending = {r.state} /\ r.state.phase = "ordered" /\ r.state.txt
    BY <2>1 DEF RunHolds, Saved
  <2>. QED  BY <2>1, <2>2, OtherSteps
<1>3. CASE RemoveTxt
  <2>1. PICK r \in run : /\ r.step = "clean" /\ run' = {[r EXCEPT !.step = "check"]}
                         /\ txt' = IF r.state.txt THEN txt \ {r.state.order} ELSE txt
                         /\ UNCHANGED <<orders, certs, pending, tls, settled>>
    BY <1>3 DEF RemoveTxt
  <2>2. pending = {r.state}
    BY <2>1 DEF RunHolds, Saved
  <2>3. txt' = {}
    BY <2>1, <2>2 DEF LeftoversKnown
  <2>. QED  BY <2>1, <2>3, OtherSteps
<1>4. CASE CheckSecret
  <2>1. PICK r \in run : /\ r.step = "check" /\ run' = {[r EXCEPT !.step = "install"]}
                         /\ UNCHANGED <<orders, certs, txt, pending, tls, settled>>
    BY <1>4 DEF CheckSecret
  <2>2. txt' = {}
    BY <2>1 DEF RunHolds
  <2>. QED  BY <2>1, <2>2, OtherSteps
<1>. QED  BY <1>1, <1>2, <1>3, <1>4

LEMMA RunEnds ==
  ASSUME CertificateInvariant, Install \/ RunFails \/ RunDies
  PROVE  CertificateInvariant'
<1>. USE DEF CertificateInvariant
<1>1. CASE Install
  <2>1. PICK r \in run : /\ r.step = "install" /\ tls' = [cert |-> r.state.cert, managed |-> TRUE]
                         /\ settled' = settled \cup {r.state.order} /\ run' = {}
                         /\ UNCHANGED <<orders, certs, txt, pending>>
    BY <1>1 DEF Install
  <2>2. pending = {r.state} /\ r.state.phase = "issued" /\ txt = {} /\ r.state.cert \in 1..Len(certs)
        /\ IsState(r.state)
    BY <2>1 DEF RunHolds, Saved, Pending
  <2>3. tls'.cert = r.state.cert
    BY <2>1
  <2>4. CertificateType' /\ Pending'
    BY <2>1, <2>2, <2>3 DEF CertificateType, Pending, IsState
  <2>5. LeftoversKnown'
    BY <2>1 DEF LeftoversKnown
  <2>. QED  BY <2>1, <2>4, <2>5
<1>2. CASE RunFails
  <2>1. run' = {} /\ txt' \subseteq txt /\ UNCHANGED <<orders, certs, pending, tls, settled>>
    BY <1>2 DEF RunFails
  <2>. QED  BY <2>1 DEF CertificateType, Pending, IsState, LeftoversKnown
<1>3. CASE RunDies
  BY <1>3 DEF RunDies, CertificateType, Pending, IsState, LeftoversKnown
<1>. QED  BY <1>1, <1>2, <1>3

LEMMA OutsideSteps ==
  ASSUME CertificateInvariant, ClearPending \/ Import \/ MonthPasses
  PROVE  CertificateInvariant'
<1>. USE DEF CertificateInvariant
<1>1. CASE ClearPending
  BY <1>1 DEF ClearPending, CertificateType, Pending, LeftoversKnown
<1>2. CASE Import
  <2>1. /\ certs' = Append(certs, "fresh") /\ tls' = [cert |-> Len(certs'), managed |-> FALSE]
        /\ UNCHANGED <<orders, txt, pending, run, settled>>
    BY <1>2 DEF Import
  <2>2. certs' \in Seq({"fresh", "due", "stale"}) /\ Len(certs') = Len(certs) + 1
    BY <2>1 DEF CertificateType
  <2>3. CertificateType' /\ tls'.cert = Len(certs) + 1 /\ Len(certs) \in Nat
    BY <2>1, <2>2 DEF CertificateType
  <2>4. Pending'
    BY <2>1, <2>2, <2>3 DEF Pending, IsState
  <2>5. ASSUME NEW r \in run
        PROVE  RunHolds(r)'
    <3>1. ASSUME r.step = "issued"
          PROVE  \E p \in pending', c \in (1..Len(certs))' :
                    /\ pending' = {p} /\ p.phase = "ordered" /\ c # tls'.cert
                    /\ r.state = [p EXCEPT !.cert = c]
      <4>1. PICK p \in pending, c \in 1..Len(certs) :
              pending = {p} /\ p.phase = "ordered" /\ r.state = [p EXCEPT !.cert = c]
        BY <3>1 DEF RunHolds
      <4>2. c \in 1..Len(certs') /\ c # tls'.cert
        BY <2>2, <2>3
      <4>3. pending' = pending
        BY <2>1
      <4>. QED  BY <4>1, <4>2, <4>3
    <3>. QED  BY <2>1, <3>1 DEF RunHolds, IsRun, Saved, Clean
  <2>. QED  BY <2>1, <2>3, <2>4, <2>5 DEF LeftoversKnown
<1>3. CASE MonthPasses
  <2>1. PICK c \in DOMAIN certs, i \in 1..2 : certs' = [certs EXCEPT ![c] = Lives[i + 1]]
    BY <1>3 DEF MonthPasses
  <2>2. Lives[i + 1] \in {"fresh", "due", "stale"}
    <3>1. i = 1 \/ i = 2
      OBVIOUS
    <3>2. CASE i = 1
      BY <3>2 DEF Lives
    <3>3. CASE i = 2
      BY <3>3 DEF Lives
    <3>. QED  BY <3>1, <3>2, <3>3
  <2>3. certs' \in Seq({"fresh", "due", "stale"}) /\ Len(certs') = Len(certs)
    BY <2>1, <2>2 DEF CertificateType
  <2>. QED  BY <1>3, <2>3 DEF MonthPasses, CertificateType, Pending, IsState, LeftoversKnown
<1>. QED  BY <1>1, <1>2, <1>3

LEMMA CertificateStep ==
  ASSUME CertificateInvariant, [CertificateNext]_certificateVars
  PROVE  CertificateInvariant'
<1>1. CASE UNCHANGED certificateVars
  <2>1. UNCHANGED <<orders, certs, txt, pending, tls, run, settled>>
    BY <1>1 DEF certificateVars
  <2>2. CertificateType' /\ Pending' /\ LeftoversKnown'
    BY <2>1 DEF CertificateInvariant, CertificateType, Pending, IsState, LeftoversKnown
  <2>3. ASSUME NEW r \in run
        PROVE  RunHolds(r)'
    <3>1. RunHolds(r)
      BY DEF CertificateInvariant
    <3>. QED  BY <2>1, <3>1 DEF RunHolds, IsRun, Saved, Clean
  <2>. QED  BY <2>1, <2>2, <2>3 DEF CertificateInvariant
<1>. QED  BY <1>1, BeginStep, SaveSteps, OrderSteps, SettingSteps, RunEnds, OutsideSteps DEF CertificateNext

\* certificate_runtime.py: wherever a run breaks off, each validation left in
\* the zone and each unsettled order is one that the pending state names, but
\* for the one order that may have been placed while the state says "ordering".
THEOREM LeftoversAreKnown == CertificateSpec => []LeftoversKnown
<1>1. CertificateInvariant => LeftoversKnown
  BY DEF CertificateInvariant
<1>. QED  BY <1>1, CertificateStarts, CertificateStep, PTL DEF CertificateSpec
=============================================================================
