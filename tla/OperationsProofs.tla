-------------------------- MODULE OperationsProofs --------------------------
(***************************************************************************)
(* Theorems about long operations that any step may be the last of, for    *)
(* any number of runs, machines, windows, deaths and edits by others: the  *)
(* legacy deployment script (LegacyDeployment), the lease of a self-hosted *)
(* runner (RunnerLease) and the maintenance window of the audit            *)
(* (AuditWindow).                                                          *)
(***************************************************************************)
EXTENDS LegacyDeployment, RunnerLease, AuditWindow, TLAPS

-----------------------------------------------------------------------------
(***************************************************************************)
(* LegacyDeployment: the script never loses the salt, and its Pods fit its *)
(* settings.                                                               *)
(*                                                                         *)
(* DeploymentInvariant: the Secret is what was written last, what a run    *)
(* has read of it is told from what it is now by its version, and from the *)
(* step on that applies the ConfigMap, the Secret or the Deployment, these *)
(* hold what the run's settings say.                                       *)
(***************************************************************************)

Later == {"service", "rollout", "nginx", "certmanager", "issuer", "ingress", "smoke", "done"}
Configured ==
    {"claim", "postgres", "pgservice", "database", "secret", "replace", "deployment"} \cup Later

IsScript(r) ==
    r = [set |-> r.set, key |-> r.key, at |-> r.at, open |-> r.open, seen |-> r.seen, novel |-> r.novel]
IsInstance(p) ==
    p = [template |-> p.template, config |-> p.config, key |-> p.key, password |-> p.password,
         ready |-> p.ready]
IsSecret(e) ==
    /\ e = [key |-> e.key, password |-> e.password, salt |-> e.salt, version |-> e.version]
    /\ e.version \in Nat

\* The Secret holds the Salt set last, and a Secret that never was has none.
Secrets ==
    /\ salt \in Nat
    /\ \/ env = {} /\ salt = Unsalted
       \/ \E e \in env : env = {e} /\ IsSecret(e) /\ e.salt = salt

\* What a run read is the Secret as it is, if the version says so.
SeenIsOld(r) ==
    r.seen # {} =>
        \E s \in r.seen, e \in env :
            r.seen = {s} /\ s.version <= e.version /\ s.version \in Nat /\ (s.version = e.version => s = e)

Injected(r) == \A e \in env : e.key = r.key /\ e.password = r.set.password

Fits(p, r) == p.config = r.set.config /\ p.key = r.key /\ p.password = r.set.password

Running(r) ==
    /\ IsScript(r)
    /\ r.at \in Configured => configMap = {r.set.config}
    /\ r.at = "replace" => SeenIsOld(r)
    /\ r.at = "deployment" => Injected(r)
    /\ r.novel => /\ r.at \in Later /\ deployed = {Template(r)} /\ Injected(r)
                  /\ \A p \in instances : p.template = Template(r) => Fits(p, r)

Instances == \A p \in instances : IsInstance(p) /\ p.template \in known

DeploymentInvariant ==
    /\ Secrets /\ Instances /\ deployed \subseteq known
    /\ \A r \in script : Running(r)

LEMMA DeploymentStarts == DeploymentInit => DeploymentInvariant
<1>. SUFFICES ASSUME DeploymentInit PROVE DeploymentInvariant
  OBVIOUS
<1>1. CASE NotDeployed
  BY <1>1 DEF NotDeployed, DeploymentInit, DeploymentInvariant, Secrets, Instances, Unsalted
<1>2. CASE DeployedBefore
  <2>1. PICK c \in Configs, p \in Passwords :
          LET t == [config |-> c, key |-> 0, password |-> p]
          IN /\ env = {[key |-> 0, password |-> p, salt |-> Unsalted, version |-> 1]}
             /\ deployed = {t} /\ known = {t}
             /\ instances = {[template |-> t, config |-> c, key |-> 0, password |-> p, ready |-> TRUE]}
    BY <1>2 DEF DeployedBefore
  <2>2. Secrets /\ Instances
    BY <2>1 DEF DeploymentInit, Secrets, Instances, IsSecret, IsInstance, Unsalted
  <2>. QED  BY <2>1, <2>2 DEF DeploymentInit, DeploymentInvariant
<1>. QED  BY <1>1, <1>2 DEF DeploymentInit

LEMMA AfterSteps ==
  ASSUME NEW r
  PROVE  /\ r.at \in {"group", "identity", "cluster", "attach", "roles"} => After(r) \notin Configured
         /\ r.at = "namespace" => After(r) = "config"
         /\ r.at = "config" => After(r) = "claim"
         /\ r.at \in {"claim", "postgres", "pgservice"} =>
              After(r) \in {"postgres", "pgservice", "database"}
         /\ r.at = "database" => After(r) = "secret"
         /\ r.at = "secret" => After(r) = "replace"
         /\ r.at = "replace" => After(r) = "deployment"
         /\ r.at = "deployment" => After(r) = "service"
         /\ r.at \in Later \ {"done"} => After(r) \in Later
  BY DEF After, Later, Configured

LEMMA ScriptSet ==
  ASSUME NEW r, NEW x, IsScript(r)
  PROVE  [r EXCEPT !.at = x] =
            [set |-> r.set, key |-> r.key, at |-> x, open |-> r.open, seen |-> r.seen, novel |-> r.novel]
  BY DEF IsScript

LEMMA OpenSet ==
  ASSUME NEW r, NEW x, IsScript(r)
  PROVE  [r EXCEPT !.open = x] =
            [set |-> r.set, key |-> r.key, at |-> r.at, open |-> x, seen |-> r.seen, novel |-> r.novel]
  BY DEF IsScript

LEMMA SeenSet ==
  ASSUME NEW r, NEW x, IsScript(r)
  PROVE  [r EXCEPT !.seen = x] =
            [set |-> r.set, key |-> r.key, at |-> r.at, open |-> r.open, seen |-> x, novel |-> r.novel]
  BY DEF IsScript

LEMMA NovelSet ==
  ASSUME NEW r, NEW x, IsScript(r)
  PROVE  [r EXCEPT !.novel = x] =
            [set |-> r.set, key |-> r.key, at |-> r.at, open |-> r.open, seen |-> r.seen, novel |-> x]
  BY DEF IsScript

LEMMA SaltSet ==
  ASSUME NEW e, NEW x, NEW y,
         e = [key |-> e.key, password |-> e.password, salt |-> e.salt, version |-> e.version]
  PROVE  [e EXCEPT !.salt = x, !.version = y] =
            [key |-> e.key, password |-> e.password, salt |-> x, version |-> y]
<1>1. PICK h : h = [e EXCEPT !.salt = x]
  OBVIOUS
<1>2. h = [key |-> e.key, password |-> e.password, salt |-> x, version |-> e.version]
  BY <1>1
<1>3. [h EXCEPT !.version = y] = [key |-> e.key, password |-> e.password, salt |-> x, version |-> y]
  BY <1>2
<1>. QED  BY <1>1, <1>3

\* A step of the run that only touches what the invariant does not speak of.
LEMMA QuietRun ==
  ASSUME DeploymentInvariant, NEW r \in script,
         r.at \notin {"config", "secret", "replace", "deployment", "done"}, Proceed(r),
         UNCHANGED <<configMap, env, deployed, instances, salt, known>>,
         r.at \in Configured \/ After(r) \notin Configured
  PROVE  DeploymentInvariant'
<1>1. Running(r)
  BY DEF DeploymentInvariant
<1>2. PICK q : q = [r EXCEPT !.at = After(r)]
  OBVIOUS
<1>3. q = [set |-> r.set, key |-> r.key, at |-> After(r), open |-> r.open, seen |-> r.seen, novel |-> r.novel]
  BY <1>1, <1>2, ScriptSet DEF Running
<1>4. After(r) \notin {"replace", "deployment"}
  BY AfterSteps DEF Later, Configured
<1>5. r.novel => After(r) \in Later
  BY <1>1, AfterSteps DEF Running
<1>6. Running(q)'
  BY <1>1, <1>3, <1>4, <1>5 DEF Running, IsScript, Injected, Fits, Template
<1>. QED  BY <1>2, <1>6 DEF Proceed, DeploymentInvariant, Secrets, Instances

LEMMA BuildStep ==
  ASSUME DeploymentInvariant, NEW step, Build(step),
         step \in {"group", "identity", "cluster", "attach", "namespace", "pgservice",
                   "nginx", "certmanager", "issuer", "ingress"}
  PROVE  DeploymentInvariant'
<1>1. PICK r \in script : /\ r.at = step /\ Proceed(r)
                          /\ UNCHANGED <<configMap, env, deployed, instances, salt, known>>
  BY DEF Build, objects, history
<1>2. r.at \in Configured \/ After(r) \notin Configured
  BY <1>1, AfterSteps DEF Later, Configured
<1>. QED  BY <1>1, <1>2, QuietRun

LEMMA RunSteps ==
  ASSUME DeploymentInvariant,
         \/ EnsureGroup \/ EnsureIdentity \/ EnsureCluster \/ AttachIdentity \/ GrantRole \/ RolesGranted
         \/ EnsureNamespace \/ ApplyClaim \/ ApplyPostgres \/ PostgresService \/ AwaitPostgres
         \/ ApplyService \/ AwaitRollout
         \/ InstallNginx \/ InstallCertManager \/ ApplyIssuer \/ ApplyIngress \/ SmokeTest
  PROVE  DeploymentInvariant'
<1>1. CASE EnsureGroup \/ EnsureIdentity \/ EnsureCluster \/ AttachIdentity
  BY <1>1, BuildStep DEF EnsureGroup, EnsureIdentity, EnsureCluster, AttachIdentity
<1>2. CASE EnsureNamespace \/ PostgresService \/ InstallNginx \/ InstallCertManager \/ ApplyIssuer
        \/ ApplyIngress
  BY <1>2, BuildStep DEF EnsureNamespace, PostgresService, InstallNginx, InstallCertManager,
                         ApplyIssuer, ApplyIngress
<1>3. ASSUME ApplyClaim \/ ApplyPostgres \/ AwaitPostgres \/ ApplyService \/ AwaitRollout \/ SmokeTest
        \/ RolesGranted
      PROVE  DeploymentInvariant'
  <2>1. PICK r \in script :
          /\ r.at \in {"claim", "postgres", "database", "service", "rollout", "smoke", "roles"}
          /\ Proceed(r) /\ UNCHANGED <<configMap, env, deployed, instances, salt, known>>
    <3>1. CASE ApplyClaim  BY <3>1 DEF ApplyClaim, azure, history
    <3>2. CASE ApplyPostgres  BY <3>2 DEF ApplyPostgres, azure, history
    <3>3. CASE AwaitPostgres  BY <3>3 DEF AwaitPostgres, objects, history
    <3>4. CASE ApplyService  BY <3>4 DEF ApplyService, azure, history
    <3>5. CASE AwaitRollout  BY <3>5 DEF AwaitRollout, objects, history
    <3>6. CASE SmokeTest  BY <3>6 DEF SmokeTest, objects, history
    <3>7. CASE RolesGranted  BY <3>7 DEF RolesGranted, objects, history
    <3>. QED  BY <1>3, <3>1, <3>2, <3>3, <3>4, <3>5, <3>6, <3>7
  <2>2. CASE r.at # "database"
    <3>1. r.at \in Configured \/ After(r) \notin Configured
      BY <2>1, AfterSteps DEF Later, Configured
    <3>. QED  BY <2>1, <2>2, <3>1, QuietRun
  <2>3. CASE r.at = "database"
    BY <2>1, <2>3, QuietRun DEF Configured
  <2>. QED  BY <2>2, <2>3
<1>4. CASE GrantRole
  <2>1. PICK r, a : /\ r \in script
                    /\ script' = {[r EXCEPT !.open = @ \ {a}]} /\ r.at = "roles"
                               /\ UNCHANGED <<configMap, env, deployed, instances, salt, known>>
    BY <1>4 DEF GrantRole, objects, history
  <2>2. Running(r)
    BY <2>1 DEF DeploymentInvariant
  <2>3. PICK q : q = [r EXCEPT !.open = @ \ {a}]
    OBVIOUS
  <2>4. q = [set |-> r.set, key |-> r.key, at |-> r.at, open |-> r.open \ {a}, seen |-> r.seen,
             novel |-> r.novel]
    BY <2>2, <2>3, OpenSet DEF Running
  <2>5. Running(q)'
    BY <2>1, <2>2, <2>4 DEF Running, IsScript, Injected, Fits, Template
  <2>. QED  BY <2>1, <2>3, <2>5 DEF DeploymentInvariant, Secrets, Instances
<1>. QED  BY <1>1, <1>2, <1>3, <1>4

LEMMA StartRun ==
  ASSUME DeploymentInvariant, StartScript \/ ScriptDies
  PROVE  DeploymentInvariant'
<1>1. CASE StartScript
  <2>1. PICK s, k : /\ script' = {[set |-> s, key |-> k, at |-> "group", open |-> Accounts, seen |-> {},
                                   novel |-> FALSE]}
                    /\ UNCHANGED <<configMap, env, deployed, instances, salt, known>>
    BY <1>1 DEF StartScript, objects
  <2>2. Running([set |-> s, key |-> k, at |-> "group", open |-> Accounts, seen |-> {}, novel |-> FALSE])'
    BY DEF Running, IsScript, Configured, Later
  <2>. QED  BY <2>1, <2>2 DEF DeploymentInvariant, Secrets, Instances
<1>2. CASE ScriptDies
  BY <1>2 DEF ScriptDies, DeploymentInvariant, Secrets, Instances, objects, history
<1>. QED  BY <1>1, <1>2

LEMMA ConfigStep ==
  ASSUME DeploymentInvariant, ApplyConfigMap
  PROVE  DeploymentInvariant'
<1>1. PICK r \in script : /\ r.at = "config" /\ configMap' = {r.set.config} /\ Proceed(r)
                          /\ UNCHANGED <<env, deployed, instances, salt, known>>
  BY DEF ApplyConfigMap, history
<1>2. Running(r)
  BY DEF DeploymentInvariant
<1>3. PICK q : q = [r EXCEPT !.at = After(r)]
  OBVIOUS
<1>4. q = [set |-> r.set, key |-> r.key, at |-> "claim", open |-> r.open, seen |-> r.seen, novel |-> r.novel]
  BY <1>1, <1>2, <1>3, ScriptSet, AfterSteps DEF Running
<1>5. ~r.novel
  BY <1>1, <1>2 DEF Running, Later
<1>6. Running(q)'
  BY <1>1, <1>4, <1>5 DEF Running, IsScript
<1>. QED  BY <1>1, <1>3, <1>6 DEF Proceed, DeploymentInvariant, Secrets, Instances

LEMMA SecretSteps ==
  ASSUME DeploymentInvariant, ReadSecret \/ ReplaceSecret
  PROVE  DeploymentInvariant'
<1>1. CASE ReadSecret
  <2>1. PICK r \in script : /\ r.at = "secret" /\ script' = {[r EXCEPT !.at = After(r), !.seen = env]}
                            /\ UNCHANGED <<configMap, env, deployed, instances, salt, known>>
    BY <1>1 DEF ReadSecret, objects, history
  <2>2. Running(r) /\ Secrets
    BY DEF DeploymentInvariant
  <2>3. PICK h, q : h = [r EXCEPT !.at = After(r)] /\ q = [r EXCEPT !.at = After(r), !.seen = env]
    OBVIOUS
  <2>4. h = [set |-> r.set, key |-> r.key, at |-> "replace", open |-> r.open, seen |-> r.seen,
             novel |-> r.novel]
    BY <2>1, <2>2, <2>3, ScriptSet, AfterSteps DEF Running
  <2>5. q = [h EXCEPT !.seen = env]
    BY <2>3
  <2>6. q = [set |-> r.set, key |-> r.key, at |-> "replace", open |-> r.open, seen |-> env, novel |-> r.novel]
    BY <2>4, <2>5, SeenSet DEF IsScript
  <2>7. ~r.novel /\ configMap = {r.set.config}
    BY <2>1, <2>2 DEF Running, Later, Configured
  <2>8. SeenIsOld(q)'
    BY <2>1, <2>2, <2>6 DEF SeenIsOld, Secrets, IsSecret
  <2>9. Running(q)'
    BY <2>1, <2>6, <2>7, <2>8 DEF Running, IsScript
  <2>. QED  BY <2>1, <2>3, <2>9 DEF DeploymentInvariant, Secrets, Instances
<1>2. CASE ReplaceSecret
  <2>1. PICK r \in script :
          /\ r.at = "replace" /\ Unchanged(r.seen) /\ Proceed(r)
          /\ env' = IF r.seen = {}
                    THEN {[key |-> r.key, password |-> r.set.password, salt |-> Unsalted, version |-> 1]}
                    ELSE {[key |-> r.key, password |-> r.set.password, salt |-> s.salt,
                           version |-> s.version + 1] :
                             s \in r.seen}
          /\ UNCHANGED <<configMap, deployed, instances, salt, known>>
    BY <1>2 DEF ReplaceSecret, azure, history
  <2>2. Running(r) /\ Secrets
    BY DEF DeploymentInvariant
  <2>3. \E v \in Nat : env' = {[key |-> r.key, password |-> r.set.password, salt |-> salt, version |-> v]}
    <3>1. CASE r.seen = {}
      BY <2>1, <2>2, <3>1 DEF Unchanged, Secrets
    <3>2. ASSUME r.seen # {}
          PROVE  \E v \in Nat : env' = {[key |-> r.key, password |-> r.set.password, salt |-> salt,
                                         version |-> v]}
      <4>1. PICK s \in r.seen, e \in env :
              r.seen = {s} /\ s.version \in Nat /\ (s.version = e.version => s = e)
        BY <2>1, <2>2, <3>2 DEF Running, SeenIsOld
      <4>2. s = e /\ e.salt = salt
        BY <2>1, <2>2, <4>1 DEF Unchanged, Secrets
      <4>3. env' = {[key |-> r.key, password |-> r.set.password, salt |-> s.salt, version |-> s.version + 1]}
        BY <2>1, <4>1
      <4>4. s.version + 1 \in Nat
        BY <4>1
      <4>. QED  BY <4>2, <4>3, <4>4
    <3>. QED  BY <3>1, <3>2
  <2>4. PICK q : q = [r EXCEPT !.at = After(r)]
    OBVIOUS
  <2>5. q = [set |-> r.set, key |-> r.key, at |-> "deployment", open |-> r.open, seen |-> r.seen,
             novel |-> r.novel]
    BY <2>1, <2>2, <2>4, ScriptSet, AfterSteps DEF Running
  <2>6. ~r.novel /\ configMap = {r.set.config}
    BY <2>1, <2>2 DEF Running, Later, Configured
  <2>7. Injected(q)'
    BY <2>3, <2>5 DEF Injected
  <2>8. Running(q)'
    BY <2>1, <2>5, <2>6, <2>7 DEF Running, IsScript
  <2>9. Secrets'
    <3>1. PICK v \in Nat : env' = {[key |-> r.key, password |-> r.set.password, salt |-> salt, version |-> v]}
      BY <2>3
    <3>2. PICK d : d = [key |-> r.key, password |-> r.set.password, salt |-> salt, version |-> v]
      OBVIOUS
    <3>3. IsSecret(d)' /\ d.salt = salt /\ env' = {d}
      BY <3>1, <3>2 DEF IsSecret
    <3>. QED  BY <2>1, <2>2, <3>3 DEF Secrets
  <2>. QED  BY <2>1, <2>4, <2>8, <2>9 DEF Proceed, DeploymentInvariant, Instances
<1>. QED  BY <1>1, <1>2

LEMMA DeployStep ==
  ASSUME DeploymentInvariant, ApplyLiteLLM
  PROVE  DeploymentInvariant'
<1>1. PICK r \in script :
        /\ r.at = "deployment" /\ deployed' = {Template(r)} /\ known' = known \cup {Template(r)}
        /\ script' = {[r EXCEPT !.at = After(r), !.novel = Template(r) \notin known]}
        /\ UNCHANGED <<configMap, env, instances, salt>>
  BY DEF ApplyLiteLLM
<1>2. Running(r) /\ Instances
  BY DEF DeploymentInvariant
<1>3. PICK h, q : h = [r EXCEPT !.at = After(r)]
         /\ q = [r EXCEPT !.at = After(r), !.novel = Template(r) \notin known]
  OBVIOUS
<1>4. h = [set |-> r.set, key |-> r.key, at |-> "service", open |-> r.open, seen |-> r.seen,
           novel |-> r.novel]
  BY <1>1, <1>2, <1>3, ScriptSet, AfterSteps DEF Running
<1>5. q = [h EXCEPT !.novel = Template(r) \notin known]
  BY <1>3
<1>6. q = [set |-> r.set, key |-> r.key, at |-> "service", open |-> r.open, seen |-> r.seen,
           novel |-> Template(r) \notin known]
  BY <1>4, <1>5, NovelSet DEF IsScript
<1>7. configMap = {r.set.config} /\ Injected(r)
  BY <1>1, <1>2 DEF Running, Configured
<1>8. Template(q) = Template(r)
  BY <1>6 DEF Template
<1>9. Running(q)'
  BY <1>1, <1>2, <1>6, <1>7, <1>8 DEF Running, IsScript, Later, Injected, Instances, Template
<1>. QED  BY <1>1, <1>3, <1>9 DEF DeploymentInvariant, Secrets, Instances

\* A Pod that starts holds what the ConfigMap and the Secret hold then.
LEMMA InstanceFits ==
  ASSUME NEW t, NEW p \in Instance(t)
  PROVE  /\ IsInstance(p) /\ p.template = t
         /\ \A r : r.novel /\ Running(r) => Fits(p, r) \/ r.at \notin Later
<1>1. PICK c \in configMap, e \in env :
        p = [template |-> t, config |-> c, key |-> e.key, password |-> e.password, ready |-> FALSE]
  BY DEF Instance
<1>2. IsInstance(p) /\ p.template = t
  BY <1>1 DEF IsInstance
<1>3. ASSUME NEW r, r.novel, Running(r)
      PROVE  Fits(p, r)
  BY <1>1, <1>3 DEF Running, Fits, Injected, Configured
<1>. QED  BY <1>2, <1>3

\* What Kubernetes does to the Pods.
LEMMA InstanceSteps ==
  ASSUME DeploymentInvariant, InstanceStarts \/ InstanceReady \/ RolledOut \/ InstanceEvicted
  PROVE  DeploymentInvariant'
<1>1. UNCHANGED <<configMap, env, deployed, script, salt, known>>
  BY DEF InstanceStarts, InstanceReady, RolledOut, InstanceEvicted, objects, history
<1>2. ASSUME NEW p \in instances'
      PROVE  /\ IsInstance(p) /\ p.template \in known
             /\ \A r \in script : r.novel /\ p.template = Template(r) => Fits(p, r)
  <2>1. CASE p \in instances
    BY <2>1 DEF DeploymentInvariant, Instances, Running
  <2>2. CASE \E t \in known : p \in Instance(t)
    BY <2>2, InstanceFits DEF DeploymentInvariant, Running
  <2>3. CASE \E o \in instances : p = [o EXCEPT !.ready = TRUE]
    <3>1. PICK o \in instances : p = [o EXCEPT !.ready = TRUE]
      BY <2>3
    <3>2. IsInstance(o) /\ o.template \in known
      BY DEF DeploymentInvariant, Instances
    <3>3. p = [template |-> o.template, config |-> o.config, key |-> o.key, password |-> o.password,
               ready |-> TRUE]
      BY <3>1, <3>2 DEF IsInstance
    <3>4. p.template = o.template /\ p.config = o.config /\ p.key = o.key /\ p.password = o.password
      BY <3>3
    <3>. QED  BY <3>2, <3>3, <3>4 DEF DeploymentInvariant, Running, IsInstance, Fits
  <2>4. CASE InstanceStarts
    BY <2>1, <2>2, <2>4 DEF InstanceStarts, DeploymentInvariant
  <2>5. CASE InstanceReady
    BY <2>1, <2>3, <2>5 DEF InstanceReady
  <2>6. CASE RolledOut
    BY <2>1, <2>6 DEF RolledOut, Serving
  <2>7. CASE InstanceEvicted
    BY <2>1, <2>2, <2>7 DEF InstanceEvicted, DeploymentInvariant, Instances
  <2>. QED  BY <2>4, <2>5, <2>6, <2>7
<1>3. Instances'
  BY <1>1, <1>2 DEF Instances, IsInstance
<1>4. ASSUME NEW r \in script
      PROVE  Running(r)'
  BY <1>1, <1>2, <1>4 DEF DeploymentInvariant, Running, IsScript, SeenIsOld, Injected, Fits, Template
<1>. QED  BY <1>1, <1>3, <1>4 DEF DeploymentInvariant, Secrets

LEMMA SaltStep ==
  ASSUME DeploymentInvariant, SetSalt
  PROVE  DeploymentInvariant'
<1>1. PICK e \in env : /\ salt' = salt + 1 /\ env' = {[e EXCEPT !.salt = salt', !.version = @ + 1]}
                       /\ UNCHANGED <<configMap, deployed, instances, script, known>>
  BY DEF SetSalt
<1>2. env = {e} /\ IsSecret(e) /\ salt \in Nat
  BY DEF DeploymentInvariant, Secrets
<1>3. PICK d : d = [e EXCEPT !.salt = salt', !.version = @ + 1]
  OBVIOUS
<1>4. d = [key |-> e.key, password |-> e.password, salt |-> salt', version |-> e.version + 1]
  BY <1>2, <1>3, SaltSet DEF IsSecret
<1>5. Secrets'
  <2>1. IsSecret(d)' /\ d.salt = salt'
    BY <1>2, <1>4 DEF IsSecret
  <2>. QED  BY <1>1, <1>2, <1>3, <2>1 DEF Secrets
<1>6. ASSUME NEW r \in script
      PROVE  Running(r)'
  <2>1. SeenIsOld(r) => SeenIsOld(r)'
    BY <1>1, <1>2, <1>3, <1>4 DEF SeenIsOld, IsSecret
  <2>2. Injected(r) => Injected(r)'
    BY <1>1, <1>2, <1>3, <1>4 DEF Injected
  <2>. QED  BY <1>1, <2>1, <2>2 DEF DeploymentInvariant, Running, IsScript, Fits, Template
<1>. QED  BY <1>1, <1>5, <1>6 DEF DeploymentInvariant, Instances

LEMMA DeploymentQuiet ==
  ASSUME DeploymentInvariant, UNCHANGED <<configMap, env, deployed, instances, script, salt, known>>
  PROVE  DeploymentInvariant'
BY DEF DeploymentInvariant, Secrets, Instances, Running, IsScript, SeenIsOld, Injected, Fits, Template

LEMMA DeploymentStep ==
  ASSUME DeploymentInvariant, [DeploymentNext]_deploymentVars
  PROVE  DeploymentInvariant'
<1>1. CASE UNCHANGED deploymentVars
  BY <1>1, DeploymentQuiet DEF deploymentVars, objects, history
<1>2. CASE PostgresStarts \/ AddressGiven
  BY <1>2, DeploymentQuiet DEF PostgresStarts, AddressGiven, objects, history
<1>. QED  BY <1>1, <1>2, RunSteps, StartRun, ConfigStep, SecretSteps, DeployStep, InstanceSteps, SaltStep
          DEF DeploymentNext

LEMMA DeploymentInvariantHolds == DeploymentSpec => []DeploymentInvariant
  BY DeploymentStarts, DeploymentStep, PTL DEF DeploymentSpec

\* deploy_mi_aks_litellm.py apply_secret(): the Secret's salt is the one set
\* last, although a run reads the Secret in one step and replaces it in another
\* and administrators may write it in between; the resource version decides.
THEOREM SaltIsKept == DeploymentSpec => []SaltKept
<1>1. DeploymentInvariant => SaltKept
  BY DEF DeploymentInvariant, Secrets, SaltKept
<1>. QED  BY <1>1, DeploymentInvariantHolds, PTL

\* deploy_mi_aks_litellm.py: after a run has deployed a template that was never
\* there before, every Pod of it holds that run's configuration and
\* credentials, whatever died before. Of a template that was there before, Pods
\* may hold older ones.
THEOREM NewTemplateIsFit == DeploymentSpec => []NewTemplateFits
<1>1. DeploymentInvariant => NewTemplateFits
  BY DEF DeploymentInvariant, Running, Fits, NewTemplateFits
<1>. QED  BY <1>1, DeploymentInvariantHolds, PTL

-----------------------------------------------------------------------------
(***************************************************************************)
(* RunnerLease: what the lease has made is on record.                      *)
(*                                                                         *)
(* LeaseInvariant says what the checkpoint holds before each step of a     *)
(* lease and of a cleanup, that a registration is there only from the      *)
(* phase on that announces it, and that a cleanup goes on only when none   *)
(* is left.                                                                *)
(***************************************************************************)

Registering == {"registering", "registered", "started", "online", "retiring"}
Known == {"registered", "started", "online", "retiring"}

IsLease(l) == l = [step |-> l.step, vm |-> l.vm, kind |-> l.kind]
IsRunner(r) == r = [vm |-> r.vm, state |-> r.state]

\* The checkpoint is in one of these phases, of machine m.
Under(phases, m) == \E c \in saved : saved = {c} /\ c.phase \in phases /\ c.vm = m

Creating == \E c \in saved : saved = {c} /\ c.phase = "creating"

\* What starting a runner has saved before each step.
Starts(l) ==
    /\ l.kind = "start"
    /\ \/ l.step = "creating" /\ saved = {}
       \/ l.step = "provision" /\ Creating
       \/ /\ l.step = "created" /\ Creating
          /\ vm # 0 /\ vm \notin foreign => vm = l.vm
       \/ l.step \in {"find", "registering"} /\ Under({"created"}, l.vm)
       \/ l.step \in {"generate", "registered"} /\ Under({"registering"}, l.vm)
       \/ l.step \in {"confirm", "command", "started"} /\ Under({"registered"}, l.vm)
       \/ l.step = "online" /\ Under({"started"}, l.vm)

\* A cleanup knows the machine, and goes on when nothing is registered.
Cleans(l) ==
    /\ l.step \in {"remove", "retiring", "delete", "erase", "group", "retired"}
    /\ Under(Known, l.vm)
    /\ l.step # "remove" => runner = {}
    /\ l.step \in {"group", "retired"} => vm = 0 \/ vm \in foreign

\* A registration is there only from the phase on that announces it.
Registered == \A r \in runner : IsRunner(r) /\ Under(Registering, r.vm)

LeaseInvariant ==
    /\ LeaseAccounted /\ Registered
    /\ saved = {} \/ \E c \in saved : saved = {c}
    /\ \A l \in lease : IsLease(l) /\ (Starts(l) \/ Cleans(l))

LEMMA RunnerStarts == RunnerInit => LeaseInvariant
  BY DEF RunnerInit, LeaseInvariant, LeaseAccounted, Registered

LEMMA StepsAre ==
  /\ DOMAIN StartSteps = 1..11
  /\ StartSteps[1] = "creating" /\ StartSteps[2] = "provision" /\ StartSteps[3] = "created"
  /\ StartSteps[4] = "find" /\ StartSteps[5] = "registering" /\ StartSteps[6] = "generate"
  /\ StartSteps[7] = "registered" /\ StartSteps[8] = "confirm" /\ StartSteps[9] = "command"
  /\ StartSteps[10] = "started" /\ StartSteps[11] = "online" /\ Len(StartSteps) = 11
  BY DEF StartSteps

LEMMA StepNumber ==
  ASSUME NEW i \in DOMAIN StartSteps
  PROVE  (CHOOSE j \in DOMAIN StartSteps : StartSteps[j] = StartSteps[i]) = i
<1>1. PICK j : j = CHOOSE k \in DOMAIN StartSteps : StartSteps[k] = StartSteps[i]
  OBVIOUS
<1>2. j \in DOMAIN StartSteps /\ StartSteps[j] = StartSteps[i]
  BY <1>1
<1>3. j = i
  BY <1>2, StepsAre
<1>. QED  BY <1>1, <1>3

LEMMA NextSteps ==
  /\ StepAfter("creating") = {"provision"} /\ StepAfter("provision") = {"created"}
  /\ StepAfter("created") = {"find"} /\ StepAfter("find") = {"registering"}
  /\ StepAfter("registering") = {"generate"} /\ StepAfter("generate") = {"registered"}
  /\ StepAfter("registered") = {"confirm"} /\ StepAfter("confirm") = {"command"}
  /\ StepAfter("command") = {"started"} /\ StepAfter("started") = {"online"} /\ StepAfter("online") = {}
<1>1. ASSUME NEW i \in 1..11
      PROVE  StepAfter(StartSteps[i]) = IF i = 11 THEN {} ELSE {StartSteps[i + 1]}
  BY StepsAre, StepNumber DEF StepAfter
<1>. QED  BY <1>1, StepsAre

LEMMA LeaseStepSet ==
  ASSUME NEW l, NEW x, IsLease(l)
  PROVE  [l EXCEPT !.step = x] = [step |-> x, vm |-> l.vm, kind |-> l.kind]
  BY DEF IsLease

LEMMA LeaseVmSet ==
  ASSUME NEW l, NEW x, IsLease(l)
  PROVE  [l EXCEPT !.vm = x] = [step |-> l.step, vm |-> x, kind |-> l.kind]
  BY DEF IsLease

LEMMA Advances ==
  ASSUME NEW l, NEW x, IsLease(l), StepAfter(l.step) = {x}
  PROVE  Advance(l) = {[step |-> x, vm |-> l.vm, kind |-> l.kind]}
  BY LeaseStepSet DEF Advance, IsLease

LEMMA PhaseSteps ==
  ASSUME LeaseInvariant, StartLease \/ SaveLeasePhase
  PROVE  LeaseInvariant'
<1>. USE DEF LeaseInvariant
<1>1. CASE StartLease
  <2>1. lease' = {[step |-> "creating", vm |-> 0, kind |-> "start"]} /\ saved = {}
        /\ UNCHANGED <<vm, foreign, runner, command, saved>>
    BY <1>1, StepsAre DEF StartLease
  <2>. QED  BY <2>1 DEF LeaseAccounted, Registered, Starts, IsLease, IsRunner, Under, Creating, MachineUp
<1>2. CASE SaveLeasePhase
  <2>1. PICK l \in lease :
          /\ l.kind = "start" /\ l.step \in SavesPhase /\ saved' = {[phase |-> l.step, vm |-> l.vm]}
          /\ lease' = Advance(l) /\ UNCHANGED <<vm, foreign, runner, command>>
    BY <1>2 DEF SaveLeasePhase
  <2>2. IsLease(l) /\ Starts(l)
    BY <2>1 DEF Cleans, SavesPhase
  <2>3. LeaseAccounted' /\ Registered'
    <3>1. CASE l.step \in {"creating", "created"}
      <4>1. runner = {}
        BY <2>2, <3>1 DEF Starts, Registered, Registering, Under, Creating
      <4>. QED  BY <2>1, <2>2, <3>1, <4>1 DEF Starts, LeaseAccounted, Registered
    <3>2. CASE l.step \in {"registering", "registered", "started", "online"}
      <4>1. Under({"created", "registering", "registered", "started"}, l.vm)
        BY <2>2, <3>2 DEF Starts, Under
      <4>2. Registered'
        BY <2>1, <3>2, <4>1 DEF Registered, Registering, Under, Creating, IsRunner
      <4>. QED  BY <2>1, <3>2, <4>1, <4>2 DEF LeaseAccounted, Under, Creating, MachineUp
    <3>. QED  BY <2>1, <3>1, <3>2 DEF SavesPhase
  <2>4. CASE l.step = "creating"
    <3>1. lease' = {[step |-> "provision", vm |-> l.vm, kind |-> "start"]}
      BY <2>1, <2>2, <2>4, NextSteps, Advances
    <3>. QED  BY <2>1, <2>3, <2>4, <3>1 DEF Starts, Under, Creating, IsLease
  <2>5. CASE l.step = "created"
    <3>1. lease' = {[step |-> "find", vm |-> l.vm, kind |-> "start"]}
      BY <2>1, <2>2, <2>5, NextSteps, Advances
    <3>. QED  BY <2>1, <2>3, <2>5, <3>1 DEF Starts, Under, Creating, IsLease
  <2>6. CASE l.step = "registering"
    <3>1. lease' = {[step |-> "generate", vm |-> l.vm, kind |-> "start"]}
      BY <2>1, <2>2, <2>6, NextSteps, Advances
    <3>. QED  BY <2>1, <2>3, <2>6, <3>1 DEF Starts, Under, Creating, IsLease
  <2>7. CASE l.step = "registered"
    <3>1. lease' = {[step |-> "confirm", vm |-> l.vm, kind |-> "start"]}
      BY <2>1, <2>2, <2>7, NextSteps, Advances
    <3>. QED  BY <2>1, <2>3, <2>7, <3>1 DEF Starts, Under, Creating, IsLease
  <2>8. CASE l.step = "started"
    <3>1. lease' = {[step |-> "online", vm |-> l.vm, kind |-> "start"]}
      BY <2>1, <2>2, <2>8, NextSteps, Advances
    <3>. QED  BY <2>1, <2>3, <2>8, <3>1 DEF Starts, Under, Creating, IsLease
  <2>9. CASE l.step = "online"
    <3>1. lease' = {}
      BY <2>1, <2>9, NextSteps DEF Advance
    <3>. QED  BY <2>1, <2>3, <3>1
  <2>. QED  BY <2>1, <2>4, <2>5, <2>6, <2>7, <2>8, <2>9 DEF SavesPhase
<1>. QED  BY <1>1, <1>2

LEMMA StartRequests ==
  ASSUME LeaseInvariant, Provision \/ FindNone \/ Generate \/ ConfirmMachine \/ PutCommand
  PROVE  LeaseInvariant'
<1>. USE DEF LeaseInvariant
<1>1. CASE Provision
  <2>1. PICK l \in lease :
          /\ l.step = "provision"
          /\ IF vm = 0 THEN vm' = made' ELSE vm' = vm
          /\ lease' = {[n EXCEPT !.vm = vm'] : n \in Advance(l)}
          /\ UNCHANGED <<foreign, runner, command, saved>>
    BY <1>1 DEF Provision
  <2>2. IsLease(l) /\ l.kind = "start" /\ Creating
    BY <2>1 DEF Starts, Cleans
  <2>3. lease' = {[step |-> "created", vm |-> vm', kind |-> "start"]}
    <3>1. PICK n : n = [step |-> "created", vm |-> l.vm, kind |-> "start"]
      OBVIOUS
    <3>2. Advance(l) = {n}
      BY <2>1, <2>2, <3>1, NextSteps, Advances
    <3>3. [n EXCEPT !.vm = vm'] = [step |-> "created", vm |-> vm', kind |-> "start"]
      BY <3>1
    <3>. QED  BY <2>1, <3>2, <3>3
  <2>4. runner = {}
    BY <2>2 DEF Registered, Registering, Under, Creating
  <2>5. LeaseAccounted' /\ Registered'
    BY <2>1, <2>2, <2>4 DEF LeaseAccounted, Registered, Under, Creating
  <2>. QED  BY <2>1, <2>2, <2>3, <2>5 DEF Starts, Under, Creating, IsLease
<1>2. CASE FindNone
  <2>1. PICK l \in lease : /\ l.step = "find" /\ lease' = Advance(l)
                           /\ UNCHANGED <<vm, foreign, runner, command, saved>>
    BY <1>2 DEF FindNone
  <2>2. IsLease(l) /\ l.kind = "start" /\ Under({"created"}, l.vm)
    BY <2>1 DEF Starts, Cleans
  <2>3. lease' = {[step |-> "registering", vm |-> l.vm, kind |-> "start"]}
    BY <2>1, <2>2, NextSteps, Advances
  <2>. QED  BY <2>1, <2>2, <2>3 DEF LeaseAccounted, Registered, Starts, IsLease, IsRunner, Under,
                                    Creating, MachineUp
<1>3. CASE Generate
  <2>1. PICK l \in lease : /\ l.step = "generate" /\ lease' = Advance(l)
                           /\ runner' = runner \cup {[vm |-> l.vm, state |-> "offline"]}
                           /\ UNCHANGED <<vm, foreign, command, saved>>
    BY <1>3 DEF Generate
  <2>2. IsLease(l) /\ l.kind = "start" /\ Under({"registering"}, l.vm)
    BY <2>1 DEF Starts, Cleans
  <2>3. lease' = {[step |-> "registered", vm |-> l.vm, kind |-> "start"]}
    BY <2>1, <2>2, NextSteps, Advances
  <2>4. Registered'
    BY <2>1, <2>2 DEF Registered, Registering, IsRunner, Under, Creating
  <2>5. LeaseAccounted'
    BY <2>1, <2>2 DEF LeaseAccounted, Under, Creating, MachineUp
  <2>. QED  BY <2>1, <2>2, <2>3, <2>4, <2>5 DEF Starts, IsLease, Under, Creating
<1>4. CASE PutCommand
  <2>1. PICK l \in lease : /\ l.step = "command" /\ lease' = Advance(l) /\ vm # 0 /\ command = 0 /\ command' = l.vm
                           /\ UNCHANGED <<vm, foreign, runner, saved>>
    BY <1>4 DEF PutCommand
  <2>2. IsLease(l) /\ l.kind = "start" /\ Under({"registered"}, l.vm)
    BY <2>1 DEF Starts, Cleans
  <2>3. lease' = {[step |-> "started", vm |-> l.vm, kind |-> "start"]}
    BY <2>1, <2>2, NextSteps, Advances
  <2>. QED  BY <2>1, <2>2, <2>3 DEF LeaseAccounted, Registered, Starts, IsLease, IsRunner, Under,
                                    Creating, MachineUp
<1>5. CASE ConfirmMachine
  <2>1. PICK l \in lease : /\ l.step = "confirm" /\ lease' = Advance(l)
                           /\ UNCHANGED <<vm, foreign, runner, command, saved>>
    BY <1>5 DEF ConfirmMachine
  <2>2. IsLease(l) /\ l.kind = "start" /\ Under({"registered"}, l.vm)
    BY <2>1 DEF Starts, Cleans
  <2>3. lease' = {[step |-> "command", vm |-> l.vm, kind |-> "start"]}
    BY <2>1, <2>2, NextSteps, Advances
  <2>. QED  BY <2>1, <2>2, <2>3 DEF LeaseAccounted, Registered, Starts, IsLease, IsRunner, Under,
                                    Creating, MachineUp
<1>. QED  BY <1>1, <1>2, <1>3, <1>4, <1>5

LEMMA CleanupSteps ==
  ASSUME LeaseInvariant,
         \/ StartCleanup \/ RemoveRegistration \/ SaveRetiring
         \/ CompareMachine \/ DeleteMachine \/ DeleteGroup \/ SaveRetired
  PROVE  LeaseInvariant'
<1>. USE DEF LeaseInvariant
<1>1. CASE StartCleanup
  <2>1. PICK c \in saved : /\ c.phase \in Known
                           /\ lease' = {[step |-> "remove", vm |-> c.vm, kind |-> c.phase]}
                           /\ UNCHANGED <<vm, foreign, runner, command, saved>>
    BY <1>1 DEF StartCleanup, Known
  <2>2. Under(Known, c.vm)
    BY <2>1 DEF Under
  <2>. QED  BY <2>1, <2>2 DEF LeaseAccounted, Registered, Cleans, IsLease, IsRunner, Under, Creating,
                              MachineUp
<1>2. CASE RemoveRegistration
  <2>1. PICK l \in lease :
          /\ l.step = "remove" /\ Removable(l) /\ lease' = {[l EXCEPT !.step = "retiring"]}
          /\ runner' = {r \in runner : r \in Mine(l) => r.state = "busy"}
          /\ UNCHANGED <<vm, foreign, command, saved>>
    BY <1>2 DEF RemoveRegistration
  <2>2. IsLease(l) /\ Under(Known, l.vm)
    BY <2>1 DEF Starts, Cleans
  <2>3. \A r \in runner : r \in Mine(l)
    BY <2>2 DEF Registered, Under, Creating, Mine
  <2>4. runner' = {}
    BY <2>1, <2>3 DEF Removable
  <2>5. lease' = {[step |-> "retiring", vm |-> l.vm, kind |-> l.kind]}
    BY <2>1, <2>2, LeaseStepSet
  <2>. QED  BY <2>1, <2>2, <2>4, <2>5 DEF LeaseAccounted, Registered, Cleans, IsLease, Under, Creating
<1>3. CASE SaveRetiring
  <2>1. PICK l \in lease :
          /\ l.step = "retiring" /\ lease' = {[l EXCEPT !.step = "delete"]}
          /\ saved' = {[phase |-> "retiring", vm |-> l.vm]} /\ UNCHANGED <<vm, foreign, runner, command>>
    BY <1>3 DEF SaveRetiring
  <2>2. IsLease(l) /\ Under(Known, l.vm) /\ runner = {}
    BY <2>1 DEF Starts, Cleans
  <2>3. lease' = {[step |-> "delete", vm |-> l.vm, kind |-> l.kind]}
    BY <2>1, <2>2, LeaseStepSet
  <2>4. LeaseAccounted'
    BY <2>1, <2>2 DEF LeaseAccounted, Known, Under, Creating
  <2>. QED  BY <2>1, <2>2, <2>3, <2>4 DEF Registered, Cleans, Known, IsLease, Under, Creating
<1>4. CASE DeleteMachine
  <2>1. PICK l \in lease :
          /\ l.step = "erase" /\ lease' = {[l EXCEPT !.step = "group"]}
          /\ vm' = 0 /\ UNCHANGED <<foreign, runner, saved>>
    BY <1>4 DEF DeleteMachine
  <2>2. IsLease(l) /\ Under(Known, l.vm) /\ runner = {}
    BY <2>1 DEF Starts, Cleans
  <2>3. lease' = {[step |-> "group", vm |-> l.vm, kind |-> l.kind]}
    BY <2>1, <2>2, LeaseStepSet
  <2>. QED  BY <2>1, <2>2, <2>3 DEF LeaseAccounted, Registered, Cleans, IsLease, Under, Creating
<1>5. CASE DeleteGroup
  <2>1. PICK l \in lease :
          /\ l.step = "group" /\ vm = 0 /\ lease' = {[l EXCEPT !.step = "retired"]}
          /\ UNCHANGED <<vm, foreign, runner, command, saved>>
    BY <1>5 DEF DeleteGroup
  <2>2. IsLease(l) /\ Under(Known, l.vm) /\ runner = {}
    BY <2>1 DEF Starts, Cleans
  <2>3. lease' = {[step |-> "retired", vm |-> l.vm, kind |-> l.kind]}
    BY <2>1, <2>2, LeaseStepSet
  <2>. QED  BY <2>1, <2>2, <2>3 DEF LeaseAccounted, Registered, Cleans, IsLease, Under, Creating
<1>6. CASE SaveRetired
  <2>1. PICK l \in lease :
          /\ l.step = "retired" /\ lease' = {} /\ saved' = {[phase |-> "retired", vm |-> l.vm]}
          /\ UNCHANGED <<vm, foreign, runner, command>>
    BY <1>6 DEF SaveRetired
  <2>2. runner = {} /\ (vm = 0 \/ vm \in foreign)
    BY <2>1 DEF Starts, Cleans
  <2>. QED  BY <2>1, <2>2 DEF LeaseAccounted, Registered, Under, Creating
<1>7. CASE CompareMachine
  <2>1. PICK l \in lease :
          /\ l.step = "delete" /\ lease' = {[l EXCEPT !.step = IF vm = 0 THEN "group" ELSE "erase"]}
          /\ UNCHANGED <<vm, foreign, runner, command, saved>>
    BY <1>7 DEF CompareMachine
  <2>2. IsLease(l) /\ Under(Known, l.vm) /\ runner = {}
    BY <2>1 DEF Starts, Cleans
  <2>3. lease' = {[step |-> IF vm = 0 THEN "group" ELSE "erase", vm |-> l.vm, kind |-> l.kind]}
    BY <2>1, <2>2, LeaseStepSet
  <2>. QED  BY <2>1, <2>2, <2>3 DEF LeaseAccounted, Registered, Cleans, IsLease, Under, Creating
<1>. QED  BY <1>1, <1>2, <1>3, <1>4, <1>5, <1>6, <1>7

LEMMA OthersSteps ==
  ASSUME LeaseInvariant, LeaseDies \/ RunnerMoves \/ SomebodyDeletes \/ SomebodyCreates
  PROVE  LeaseInvariant'
<1>. USE DEF LeaseInvariant
<1>1. CASE LeaseDies
  BY <1>1 DEF LeaseDies, LeaseAccounted, Registered, IsRunner, Under, Creating, MachineUp
<1>2. CASE RunnerMoves
  <2>1. PICK r, x :
          /\ r \in runner /\ MachineUp(r) /\ UNCHANGED <<vm, foreign, command, saved, lease>>
          /\ \/ runner' = (runner \ {r}) \cup {[r EXCEPT !.state = x]}
             \/ runner' = runner \ {r}
    BY <1>2 DEF RunnerMoves
  <2>2. IsRunner(r) /\ Under(Registering, r.vm)
    BY <2>1 DEF Registered
  <2>3. [r EXCEPT !.state = x] = [vm |-> r.vm, state |-> x]
    BY <2>2 DEF IsRunner
  <2>4. \A q \in runner' : q \in runner \/ (IsRunner(q) /\ q.vm = r.vm)
    BY <2>1, <2>3 DEF IsRunner
  <2>5. Registered'
    BY <2>1, <2>2, <2>4 DEF Registered, IsRunner, Under, Creating
  <2>6. LeaseAccounted'
    BY <2>1, <2>2, <2>4 DEF LeaseAccounted, MachineUp, Registered, Under, Creating
  <2>7. \A l \in lease' : IsLease(l)' /\ (Starts(l) \/ Cleans(l))'
    BY <2>1, <2>2 DEF Starts, Cleans, IsLease, Under, Creating
  <2>. QED  BY <2>1, <2>5, <2>6, <2>7 DEF Under, Creating
<1>3. CASE SomebodyDeletes
  <2>1. /\ \A r \in runner : MachineUp(r) => r.state # "busy"
        /\ vm' = 0 /\ UNCHANGED <<foreign, runner, saved, lease>>
    BY <1>3 DEF SomebodyDeletes
  <2>2. \A r \in runner : r.state # "busy"
    BY <2>1 DEF LeaseAccounted
  <2>3. LeaseAccounted' /\ Registered'
    BY <2>1, <2>2 DEF LeaseAccounted, Registered, IsRunner, Under, Creating
  <2>4. \A l \in lease' : IsLease(l)' /\ (Starts(l) \/ Cleans(l))'
    BY <2>1 DEF Starts, Cleans, IsLease, Under, Creating
  <2>. QED  BY <2>1, <2>3, <2>4 DEF Under, Creating
<1>4. CASE SomebodyCreates
  <2>1. /\ vm = 0 /\ vm' \in foreign' /\ foreign \subseteq foreign'
        /\ UNCHANGED <<runner, command, saved, lease>>
    BY <1>4 DEF SomebodyCreates
  <2>2. \A r \in runner : r.state # "busy"
    BY <2>1 DEF LeaseAccounted, MachineUp
  <2>3. LeaseAccounted' /\ Registered'
    BY <2>1, <2>2 DEF LeaseAccounted, Registered, IsRunner, Under, Creating
  <2>4. \A l \in lease' : IsLease(l)' /\ (Starts(l) \/ Cleans(l))'
    BY <2>1 DEF Starts, Cleans, IsLease, Under, Creating
  <2>. QED  BY <2>1, <2>3, <2>4 DEF Under, Creating
<1>. QED  BY <1>1, <1>2, <1>3, <1>4

LEMMA LeaseStep ==
  ASSUME LeaseInvariant, [RunnerNext]_runnerVars
  PROVE  LeaseInvariant'
<1>1. CASE UNCHANGED runnerVars
  BY <1>1 DEF runnerVars, LeaseInvariant, LeaseAccounted, Registered, Starts, Cleans, IsLease, IsRunner,
              Under, Creating,
              MachineUp
<1>. QED  BY <1>1, PhaseSteps, StartRequests, CleanupSteps, OthersSteps DEF RunnerNext

\* runner_job.py: a machine that the procedures made and a registration are on
\* record until the cleanup has removed them, and no cleanup takes away the machine
\* on which a job runs, wherever the operator dies and although machines come
\* and go between a comparison and the request that follows it.
THEOREM LeaseIsAccounted == RunnerSpec => []LeaseAccounted
<1>1. LeaseInvariant => LeaseAccounted
  BY DEF LeaseInvariant
<1>. QED  BY <1>1, RunnerStarts, LeaseStep, PTL DEF RunnerSpec

-----------------------------------------------------------------------------
(***************************************************************************)
(* AuditWindow: recovery writes only while the audit is quiet, foreign     *)
(* edits are kept, and a window closes on what it found.                   *)
(*                                                                         *)
(* WindowInvariant relates what a run has read to what is there, as long   *)
(* as nobody else edits; the order in which a resume gives the two specs   *)
(* back; and the Job to the runs, which exclude each other.                *)
(***************************************************************************)

DepValues == [replicas : {"missing", "zero", "some"}, rest : Nat]
CronValues == [suspend : {"missing", "false", "true"}, rest : Nat]

IsWindow(w) ==
    /\ w = [id |-> w.id, phase |-> w.phase, dep |-> w.dep, cron |-> w.cron]
    /\ w.dep \in DepValues /\ w.cron \in CronValues

IsOp(o) == o = [pc |-> o.pc, action |-> o.action, dep |-> o.dep, cron |-> o.cron, win |-> o.win]

WindowTyped ==
    /\ dep \in DepValues /\ cron \in CronValues
    /\ cm = {} \/ \E w \in cm : cm = {w} /\ IsWindow(w)
    /\ IsOp(op) /\ op.dep \subseteq DepValues /\ op.cron \subseteq CronValues
    /\ count = [windows |-> count.windows, deaths |-> count.deaths, drift |-> count.drift]
    /\ count.drift \in Nat

\* A recovery Job that writes found both specs paused, and nobody else has a
\* reason to change them: runs and the Job exclude each other.
JobHolds ==
    /\ op.pc # "idle" => job = "none"
    /\ count.drift = 0 /\ job = "writing" => Quiet /\ dep.replicas = "zero" /\ cron.suspend = "true"

KnownIn(w, d, c) == d \in {w.dep, PausedDep(w.dep)} /\ c \in {w.cron, PausedCron(w.cron)}

\* What a run has read is still so unless somebody else edited it.
ReadsHold ==
    /\ op.pc # "idle" => op.action \in {"pause", "resume"}
    /\ op.pc \in {"checkpoint", "patch1", "patch2"} /\ count.drift = 0 => op.dep = {dep} /\ op.cron = {cron}
    /\ op.pc \in {"patch1", "patch2"} =>
          /\ op.win = cm
          /\ \A w \in cm, d \in op.dep, c \in op.cron : KnownIn(w, d, c)
          /\ op.dep # {} /\ op.cron # {}
    /\ op.pc \in {"read1", "read2", "patch1", "patch2"} => cm # {}

\* Without edits the specs are known throughout, and a resume restores one after the other.
Restores ==
    count.drift = 0 =>
        \A w \in cm :
            /\ KnownIn(w, dep, cron)
            /\ op.action = "resume" /\ op.pc \in {"read2", "patch2", "wait", "delete"} => dep = w.dep
            /\ op.action = "resume" /\ op.pc \in {"wait", "delete"} => cron = w.cron

WindowInvariant ==
    /\ WindowTyped /\ JobHolds /\ ReadsHold /\ Restores
    /\ op.pc = "delete" => op.action = "resume"

LEMMA WindowStarts == Init => WindowInvariant
  BY DEF Init, WindowInvariant, WindowTyped, JobHolds, ReadsHold, Restores, DepValues, CronValues, IsOp, Idle

LEMMA PausedDeps ==
  ASSUME NEW d \in DepValues
  PROVE  /\ PausedDep(d) \in DepValues /\ PausedDep(d).replicas = "zero"
         /\ PausedDep(PausedDep(d)) = PausedDep(d)
<1>1. PausedDep(d) \in DepValues /\ PausedDep(d).replicas = "zero"
  BY DEF DepValues, PausedDep
<1>2. PausedDep(PausedDep(d)) = PausedDep(d)
  BY DEF DepValues, PausedDep
<1>. QED  BY <1>1, <1>2

LEMMA PausedCrons ==
  ASSUME NEW c \in CronValues
  PROVE  /\ PausedCron(c) \in CronValues /\ PausedCron(c).suspend = "true"
         /\ PausedCron(PausedCron(c)) = PausedCron(c)
<1>1. PausedCron(c) \in CronValues /\ PausedCron(c).suspend = "true"
  BY DEF CronValues, PausedCron
<1>2. PausedCron(PausedCron(c)) = PausedCron(c)
  BY DEF CronValues, PausedCron
<1>. QED  BY <1>1, <1>2

LEMMA PcSet ==
  ASSUME NEW o, NEW x, IsOp(o)
  PROVE  [o EXCEPT !.pc = x] = [pc |-> x, action |-> o.action, dep |-> o.dep, cron |-> o.cron, win |-> o.win]
  BY DEF IsOp

LEMMA DepSet ==
  ASSUME NEW o, NEW x, IsOp(o)
  PROVE  [o EXCEPT !.dep = x] = [pc |-> o.pc, action |-> o.action, dep |-> x, cron |-> o.cron, win |-> o.win]
  BY DEF IsOp

LEMMA CronSet ==
  ASSUME NEW o, NEW x, IsOp(o)
  PROVE  [o EXCEPT !.cron = x] = [pc |-> o.pc, action |-> o.action, dep |-> o.dep, cron |-> x, win |-> o.win]
  BY DEF IsOp

LEMMA WinSet ==
  ASSUME NEW o, NEW x, IsOp(o)
  PROVE  [o EXCEPT !.win = x] = [pc |-> o.pc, action |-> o.action, dep |-> o.dep, cron |-> o.cron, win |-> x]
  BY DEF IsOp

LEMMA ReadSet ==
  ASSUME NEW o, NEW p, NEW d, NEW c, NEW w, IsOp(o)
  PROVE  [o EXCEPT !.pc = p, !.dep = d, !.cron = c, !.win = w] =
            [pc |-> p, action |-> o.action, dep |-> d, cron |-> c, win |-> w]
<1>1. PICK o1 : o1 = [o EXCEPT !.pc = p]
  OBVIOUS
<1>2. o1 = [pc |-> p, action |-> o.action, dep |-> o.dep, cron |-> o.cron, win |-> o.win]
  BY <1>1, PcSet
<1>3. PICK o2 : o2 = [o1 EXCEPT !.dep = d]
  OBVIOUS
<1>4. o2 = [pc |-> p, action |-> o.action, dep |-> d, cron |-> o.cron, win |-> o.win]
  BY <1>2, <1>3, DepSet DEF IsOp
<1>5. PICK o3 : o3 = [o2 EXCEPT !.cron = c]
  OBVIOUS
<1>6. o3 = [pc |-> p, action |-> o.action, dep |-> d, cron |-> c, win |-> o.win]
  BY <1>4, <1>5, CronSet DEF IsOp
<1>7. [o3 EXCEPT !.win = w] = [pc |-> p, action |-> o.action, dep |-> d, cron |-> c, win |-> w]
  BY <1>6, WinSet DEF IsOp
<1>. QED  BY <1>1, <1>3, <1>5, <1>7

\* Begin of a run.
LEMMA ExecuteStep ==
  ASSUME WindowInvariant, NEW a \in {"pause", "resume"}, Execute(a)
  PROVE  WindowInvariant'
<1>1. /\ op' = [Idle EXCEPT !.pc = "checkpoint", !.action = a, !.dep = {dep}, !.cron = {cron}]
      /\ job = "none" /\ UNCHANGED <<dep, cron, cm, writer, purging, job, count>>
  BY DEF Execute, Plannable
<1>2. op' = [pc |-> "checkpoint", action |-> a, dep |-> {dep}, cron |-> {cron}, win |-> {}]
  BY <1>1 DEF Idle
<1>3. WindowTyped'
  <2>1. IsOp(op)' /\ op'.dep = {dep} /\ op'.cron = {cron}
    BY <1>1, <1>2 DEF IsOp
  <2>. QED  BY <1>1, <2>1 DEF WindowInvariant, WindowTyped, IsWindow
<1>4. JobHolds' /\ ReadsHold'
  BY <1>1, <1>2 DEF JobHolds, ReadsHold
<1>5. Restores'
  BY <1>1, <1>2 DEF WindowInvariant, Restores, KnownIn
<1>. QED  BY <1>2, <1>3, <1>4, <1>5 DEF WindowInvariant

LEMMA CheckpointSteps ==
  ASSUME WindowInvariant, Checkpoint \/ Load
  PROVE  WindowInvariant'
<1>. USE DEF WindowInvariant
<1>1. op.pc = "checkpoint" /\ op' = [op EXCEPT !.pc = "read1"]
         /\ UNCHANGED <<dep, cron, writer, purging, job>>
  BY DEF Checkpoint, Load, At
<1>2. op' = [pc |-> "read1", action |-> op.action, dep |-> op.dep, cron |-> op.cron, win |-> op.win]
  BY <1>1, PcSet DEF WindowTyped
<1>3. CASE Checkpoint
  <2>1. PICK d \in op.dep, c \in op.cron : \E i, n :
          cm' = {[id |-> i, phase |-> "pausing", dep |-> d, cron |-> c]}
                  /\ count' = [count EXCEPT !.windows = n]
    BY <1>3 DEF Checkpoint
  <2>9. PICK i, n :
          cm' = {[id |-> i, phase |-> "pausing", dep |-> d, cron |-> c]}
                  /\ count' = [count EXCEPT !.windows = n]
    BY <2>1
  <2>2. count' = [windows |-> n, deaths |-> count.deaths, drift |-> count.drift]
    BY <2>9 DEF WindowTyped
  <2>3. PICK w : w = [id |-> i, phase |-> "pausing", dep |-> d, cron |-> c]
    OBVIOUS
  <2>4. IsWindow(w) /\ cm' = {w} /\ w.dep = d /\ w.cron = c
    BY <2>1, <2>9, <2>3 DEF IsWindow, WindowTyped
  <2>5. WindowTyped'
    BY <1>1, <1>2, <2>2, <2>4 DEF WindowTyped, IsOp, IsWindow
  <2>6. JobHolds' /\ ReadsHold'
    BY <1>1, <1>2, <2>2, <2>4 DEF JobHolds, ReadsHold
  <2>7. Restores'
    BY <1>1, <1>2, <2>2, <2>4 DEF Restores, ReadsHold, KnownIn
  <2>. QED  BY <1>2, <2>5, <2>6, <2>7
<1>4. CASE Load
  <2>1. PICK w \in cm : cm = {w} /\ IsWindow(w)
    BY <1>4 DEF Load, WindowTyped
  <2>2. \E v : cm' = {v} /\ IsWindow(v) /\ v.dep = w.dep /\ v.cron = w.cron
    <3>1. CASE cm' = cm
      BY <2>1, <3>1
    <3>2. CASE cm' = {[w EXCEPT !.phase = "resuming"]}
      <4>1. [w EXCEPT !.phase = "resuming"] = [id |-> w.id, phase |-> "resuming", dep |-> w.dep,
                                               cron |-> w.cron]
        BY <2>1 DEF IsWindow
      <4>. QED  BY <2>1, <3>2, <4>1 DEF IsWindow
    <3>. QED  BY <1>4, <2>1, <3>1, <3>2 DEF Load
  <2>3. count' = count
    BY <1>4 DEF Load
  <2>4. WindowTyped'
    BY <1>1, <1>2, <2>2, <2>3 DEF WindowTyped, IsOp, IsWindow
  <2>5. JobHolds' /\ ReadsHold'
    BY <1>1, <1>2, <2>2, <2>3 DEF JobHolds, ReadsHold
  <2>6. Restores'
    BY <1>1, <1>2, <2>1, <2>2, <2>3 DEF Restores, KnownIn
  <2>. QED  BY <1>2, <2>4, <2>5, <2>6
<1>. QED  BY <1>3, <1>4

LEMMA ReadStep ==
  ASSUME WindowInvariant, ReadTargets
  PROVE  WindowInvariant'
<1>. USE DEF WindowInvariant
<1>1. PICK w \in cm, p \in {"patch1", "patch2"} :
        /\ op.pc \in {"read1", "read2"} /\ TargetsKnown(w) /\ (p = "patch2" => op.pc = "read2")
        /\ op' = [op EXCEPT !.pc = p, !.dep = {dep}, !.cron = {cron}, !.win = {w}]
        /\ UNCHANGED <<dep, cron, cm, writer, purging, job, count>>
  BY DEF ReadTargets
<1>2. op' = [pc |-> p, action |-> op.action, dep |-> {dep}, cron |-> {cron}, win |-> {w}]
  BY <1>1, ReadSet, ZenonT(60) DEF WindowTyped
<1>3. cm = {w}
  BY DEF WindowTyped
<1>4. WindowTyped'
  <2>1. op'.dep = {dep} /\ op'.cron = {cron} /\ IsOp(op)'
    BY <1>2 DEF IsOp
  <2>2. dep \in DepValues /\ cron \in CronValues
    BY DEF WindowTyped
  <2>3. (op.dep \subseteq DepValues)' /\ (op.cron \subseteq CronValues)'
    BY <2>1, <2>2 DEF DepValues, CronValues
  <2>. QED  BY <1>1, <2>1, <2>3 DEF WindowTyped, IsWindow
<1>5. JobHolds'
  BY <1>1, <1>2 DEF JobHolds
<1>6. ReadsHold'
  BY <1>1, <1>2, <1>3 DEF ReadsHold, KnownIn, TargetsKnown
<1>7. Restores'
  BY <1>1, <1>2 DEF Restores, KnownIn
<1>. QED  BY <1>2, <1>4, <1>5, <1>6, <1>7

LEMMA PatchDeploymentStep ==
  ASSUME WindowInvariant, PatchDeployment
  PROVE  WindowInvariant'
<1>. USE DEF WindowInvariant
<1>1. PICK d \in op.dep, w \in op.win, p \in {"read2", "wait"}, v \in DepValues :
        /\ op.pc \in {"patch1", "patch2"} /\ (p = "read2" <=> op.pc = "patch1")
        /\ IF op.pc = "patch1" THEN op.action # "pause" ELSE op.action = "pause"
        /\ v = IF op.action = "pause" THEN PausedDep(d) ELSE [d EXCEPT !.replicas = w.dep.replicas]
        /\ (dep' = dep /\ v = d) \/ (dep = d /\ dep' = v)
        /\ op' = [op EXCEPT !.pc = p] /\ UNCHANGED <<cron, cm, writer, purging, job, count>>
  <2>1. PICK d \in op.dep, w \in op.win :
          /\ op.pc \in {"patch1", "patch2"} /\ ~PatchesCron
          /\ LET v == IF op.action = "pause" THEN PausedDep(d) ELSE [d EXCEPT !.replicas = w.dep.replicas]
             IN IF v = d THEN UNCHANGED dep ELSE dep = d /\ dep' = v
          /\ op' = [op EXCEPT !.pc = AfterPatch] /\ UNCHANGED <<cron, cm, writer, purging, job, count>>
    BY DEF PatchDeployment
  <2>2. d \in DepValues /\ w.dep \in DepValues
    BY <2>1 DEF WindowTyped, ReadsHold, IsWindow
  <2>3. PausedDep(d) \in DepValues /\ [d EXCEPT !.replicas = w.dep.replicas] \in DepValues
    BY <2>2 DEF PausedDep, DepValues
  <2>4. PICK p : p = AfterPatch
    OBVIOUS
  <2>5. p \in {"read2", "wait"} /\ (p = "read2" <=> op.pc = "patch1")
    BY <2>4 DEF AfterPatch
  <2>6. PICK v : v = IF op.action = "pause" THEN PausedDep(d) ELSE [d EXCEPT !.replicas = w.dep.replicas]
    OBVIOUS
  <2>7. v \in DepValues /\ ((dep' = dep /\ v = d) \/ (dep = d /\ dep' = v))
    BY <2>1, <2>3, <2>6
  <2>8. IF op.pc = "patch1" THEN op.action # "pause" ELSE op.action = "pause"
    BY <2>1 DEF PatchesCron
  <2>. QED  BY <2>1, <2>4, <2>5, <2>6, <2>7, <2>8
<1>2. cm = {w} /\ IsWindow(w) /\ KnownIn(w, d, CHOOSE c \in op.cron : TRUE) /\ w.dep \in DepValues
  BY <1>1 DEF ReadsHold, WindowTyped, IsWindow
<1>3. op' = [pc |-> p, action |-> op.action, dep |-> op.dep, cron |-> op.cron, win |-> op.win]
  BY <1>1, PcSet DEF WindowTyped
<1>4. WindowTyped'
  <2>1. IsOp(op)' /\ (op.dep \subseteq DepValues)' /\ (op.cron \subseteq CronValues)'
    BY <1>1, <1>3 DEF WindowTyped, IsOp
  <2>2. dep' \in DepValues
    BY <1>1 DEF WindowTyped
  <2>. QED  BY <1>1, <2>1, <2>2 DEF WindowTyped, IsWindow
<1>5. job = "none"
  BY <1>1 DEF JobHolds
<1>6. JobHolds' /\ ReadsHold'
  BY <1>1, <1>3, <1>5 DEF JobHolds, ReadsHold
<1>7. v = IF op.action = "pause" THEN PausedDep(w.dep) ELSE w.dep
  <2>1. CASE op.action = "pause"
    BY <1>1, <1>2, <2>1, PausedDeps DEF KnownIn
  <2>2. CASE op.action # "pause"
    <3>1. w.dep.replicas = w.dep.replicas /\ d \in {w.dep, PausedDep(w.dep)}
      BY <1>2 DEF KnownIn
    <3>2. [d EXCEPT !.replicas = w.dep.replicas] = w.dep
      BY <1>2, <3>1 DEF PausedDep, DepValues
    <3>. QED  BY <1>1, <2>2, <3>2
  <2>. QED  BY <2>1, <2>2
<1>8. count.drift = 0 => dep' = v
  BY <1>1 DEF ReadsHold
<1>9. Restores'
  BY <1>1, <1>2, <1>3, <1>7, <1>8 DEF Restores, KnownIn
<1>. QED  BY <1>1, <1>3, <1>4, <1>6, <1>9

LEMMA PatchCronStep ==
  ASSUME WindowInvariant, PatchCronJob
  PROVE  WindowInvariant'
<1>. USE DEF WindowInvariant
<1>1. PICK c \in op.cron, w \in op.win, p \in {"read2", "wait"}, v \in CronValues :
        /\ op.pc \in {"patch1", "patch2"} /\ (p = "read2" <=> op.pc = "patch1")
        /\ IF op.pc = "patch1" THEN op.action = "pause" ELSE op.action # "pause"
        /\ v = IF op.action = "pause" THEN PausedCron(c) ELSE [c EXCEPT !.suspend = w.cron.suspend]
        /\ (cron' = cron /\ v = c) \/ (cron = c /\ cron' = v)
        /\ op' = [op EXCEPT !.pc = p] /\ UNCHANGED <<dep, cm, writer, purging, job, count>>
  <2>1. PICK c \in op.cron, w \in op.win :
          /\ op.pc \in {"patch1", "patch2"} /\ PatchesCron
          /\ LET v == IF op.action = "pause" THEN PausedCron(c) ELSE [c EXCEPT !.suspend = w.cron.suspend]
             IN IF v = c THEN UNCHANGED cron ELSE cron = c /\ cron' = v
          /\ op' = [op EXCEPT !.pc = AfterPatch] /\ UNCHANGED <<dep, cm, writer, purging, job, count>>
    BY DEF PatchCronJob
  <2>2. c \in CronValues /\ w.cron \in CronValues
    BY <2>1 DEF WindowTyped, ReadsHold, IsWindow
  <2>3. PausedCron(c) \in CronValues /\ [c EXCEPT !.suspend = w.cron.suspend] \in CronValues
    BY <2>2 DEF PausedCron, CronValues
  <2>4. PICK p : p = AfterPatch
    OBVIOUS
  <2>5. p \in {"read2", "wait"} /\ (p = "read2" <=> op.pc = "patch1")
    BY <2>4 DEF AfterPatch
  <2>6. PICK v : v = IF op.action = "pause" THEN PausedCron(c) ELSE [c EXCEPT !.suspend = w.cron.suspend]
    OBVIOUS
  <2>7. v \in CronValues /\ ((cron' = cron /\ v = c) \/ (cron = c /\ cron' = v))
    BY <2>1, <2>3, <2>6
  <2>8. IF op.pc = "patch1" THEN op.action = "pause" ELSE op.action # "pause"
    BY <2>1 DEF PatchesCron
  <2>. QED  BY <2>1, <2>4, <2>5, <2>6, <2>7, <2>8
<1>2. cm = {w} /\ IsWindow(w) /\ c \in {w.cron, PausedCron(w.cron)} /\ w.cron \in CronValues
  BY <1>1 DEF ReadsHold, WindowTyped, IsWindow, KnownIn
<1>3. op' = [pc |-> p, action |-> op.action, dep |-> op.dep, cron |-> op.cron, win |-> op.win]
  BY <1>1, PcSet DEF WindowTyped
<1>4. WindowTyped'
  <2>1. IsOp(op)' /\ (op.dep \subseteq DepValues)' /\ (op.cron \subseteq CronValues)'
    BY <1>1, <1>3 DEF WindowTyped, IsOp
  <2>2. cron' \in CronValues
    BY <1>1 DEF WindowTyped
  <2>. QED  BY <1>1, <2>1, <2>2 DEF WindowTyped, IsWindow
<1>5. job = "none"
  BY <1>1 DEF JobHolds
<1>6. JobHolds' /\ ReadsHold'
  BY <1>1, <1>3, <1>5 DEF JobHolds, ReadsHold
<1>7. v = IF op.action = "pause" THEN PausedCron(w.cron) ELSE w.cron
  <2>1. CASE op.action = "pause"
    BY <1>1, <1>2, <2>1, PausedCrons
  <2>2. CASE op.action # "pause"
    <3>1. [c EXCEPT !.suspend = w.cron.suspend] = w.cron
      BY <1>2 DEF PausedCron, CronValues
    <3>. QED  BY <1>1, <2>2, <3>1
  <2>. QED  BY <2>1, <2>2
<1>8. count.drift = 0 => cron' = v
  BY <1>1 DEF ReadsHold
<1>9. Restores'
  BY <1>1, <1>2, <1>3, <1>7, <1>8 DEF Restores, KnownIn, ReadsHold
<1>. QED  BY <1>1, <1>3, <1>4, <1>6, <1>9

LEMMA EndSteps ==
  ASSUME WindowInvariant, WaitQuiet \/ SavePaused \/ WaitReady \/ DeleteCheckpoint \/ Die
  PROVE  WindowInvariant'
<1>. USE DEF WindowInvariant
<1>1. CASE WaitQuiet \/ WaitReady
  <2>1. PICK p : /\ op' = [op EXCEPT !.pc = p] /\ op.pc = "wait"
                 /\ p = "save" \/ (p = "delete" /\ op.action = "resume")
                 /\ UNCHANGED <<dep, cron, cm, writer, purging, job, count>>
    BY <1>1 DEF WaitQuiet, WaitReady, At
  <2>2. op' = [pc |-> p, action |-> op.action, dep |-> op.dep, cron |-> op.cron, win |-> op.win]
    BY <2>1, PcSet DEF WindowTyped
  <2>3. IsOp(op)' /\ (op.dep \subseteq DepValues)' /\ (op.cron \subseteq CronValues)'
    BY <2>1, <2>2 DEF WindowTyped, IsOp
  <2>4. WindowTyped'
    BY <2>1, <2>3 DEF WindowTyped, IsWindow
  <2>5. JobHolds' /\ ReadsHold'
    BY <2>1, <2>2 DEF JobHolds, ReadsHold
  <2>6. Restores'
    BY <2>1, <2>2 DEF Restores, KnownIn
  <2>. QED  BY <2>1, <2>2, <2>4, <2>5, <2>6
<1>2. CASE SavePaused
  <2>1. /\ op.pc = "save" /\ op' = Idle /\ cm' = {[w EXCEPT !.phase = "paused"] : w \in cm}
        /\ UNCHANGED <<dep, cron, writer, purging, job, count>>
    BY <1>2 DEF SavePaused, At
  <2>2. cm' = {} \/ \E v, w : cm = {w} /\ cm' = {v} /\ IsWindow(v) /\ v.dep = w.dep /\ v.cron = w.cron
    <3>1. ASSUME NEW w \in cm, cm = {w}, IsWindow(w)
          PROVE  \E v : cm' = {v} /\ IsWindow(v) /\ v.dep = w.dep /\ v.cron = w.cron
      <4>1. [w EXCEPT !.phase = "paused"] = [id |-> w.id, phase |-> "paused", dep |-> w.dep, cron |-> w.cron]
        BY <3>1 DEF IsWindow
      <4>. QED  BY <2>1, <3>1, <4>1 DEF IsWindow
    <3>2. cm = {} => cm' = {}
      BY <2>1
    <3>. QED  BY <3>1, <3>2 DEF WindowTyped
  <2>3. WindowTyped'
    BY <2>1, <2>2 DEF WindowTyped, IsOp, Idle, IsWindow
  <2>. QED  BY <2>1, <2>2, <2>3 DEF JobHolds, ReadsHold, Restores, KnownIn, Idle
<1>3. CASE DeleteCheckpoint \/ Die
  <2>1. /\ op' = Idle /\ cm' \in {cm, {}} /\ UNCHANGED <<dep, cron, writer, purging, job>>
        /\ count' = count \/ \E n : count' = [count EXCEPT !.deaths = n]
    BY <1>3 DEF DeleteCheckpoint, Die
  <2>2. count'.drift = count.drift
        /\ count' = [windows |-> count'.windows, deaths |-> count'.deaths, drift |-> count'.drift]
    BY <2>1 DEF WindowTyped
  <2>3. WindowTyped'
    BY <2>1, <2>2 DEF WindowTyped, IsOp, Idle, IsWindow
  <2>4. JobHolds'
    BY <2>1, <2>2 DEF JobHolds, Idle, Quiet
  <2>5. Restores'
    BY <2>1, <2>2 DEF Restores, KnownIn, Idle
  <2>. QED  BY <2>1, <2>3, <2>4, <2>5 DEF ReadsHold, Idle
<1>. QED  BY <1>1, <1>2, <1>3

LEMMA RecoverySteps ==
  ASSUME WindowInvariant, CreateRecoveryJob \/ VerifyWindow \/ EntryDone \/ JobEnds
  PROVE  WindowInvariant'
<1>. USE DEF WindowInvariant
<1>1. UNCHANGED <<dep, cron, cm, writer, purging, op, count>>
  BY DEF CreateRecoveryJob, VerifyWindow, EntryDone, JobEnds
<1>2. WindowTyped' /\ ReadsHold' /\ Restores'
  BY <1>1 DEF WindowTyped, IsWindow, IsOp, ReadsHold, Restores, KnownIn
<1>3. CASE VerifyWindow
  <2>1. ASSUME job' = "writing"
        PROVE  Quiet /\ dep.replicas = "zero" /\ cron.suspend = "true"
    <3>1. PICK w \in cm : TargetsPaused(w) /\ Quiet
      BY <1>3, <2>1 DEF VerifyWindow, AssertPaused
    <3>2. w.dep \in DepValues /\ w.cron \in CronValues
      BY DEF WindowTyped, IsWindow
    <3>. QED  BY <3>1, <3>2, PausedDeps, PausedCrons DEF TargetsPaused
  <2>2. op.pc # "idle" => job' = "none"
    BY <1>3 DEF VerifyWindow, JobHolds
  <2>. QED  BY <1>1, <1>2, <2>1, <2>2 DEF JobHolds, Quiet
<1>4. CASE CreateRecoveryJob \/ EntryDone \/ JobEnds
  BY <1>1, <1>2, <1>4 DEF CreateRecoveryJob, EntryDone, JobEnds, JobHolds, At
<1>. QED  BY <1>3, <1>4

LEMMA ClusterSteps ==
  ASSUME WindowInvariant, Cluster \/ ForeignEdit \/ (\E a \in {"pause", "resume"} : Plan(a))
  PROVE  WindowInvariant'
<1>. USE DEF WindowInvariant
<1>1. CASE Cluster \/ (\E a \in {"pause", "resume"} : Plan(a))
  <2>1. UNCHANGED <<dep, cron, cm, job, op, count>>
    BY <1>1 DEF Cluster, WriterStarts, WriterStops, RetentionStarts, RetentionEnds, Plan
  <2>2. WindowTyped' /\ ReadsHold' /\ Restores'
    BY <2>1 DEF WindowTyped, IsWindow, IsOp, ReadsHold, Restores, KnownIn
  <2>3. JobHolds'
    BY <1>1, <2>1 DEF Cluster, WriterStarts, WriterStops, RetentionStarts, RetentionEnds, Plan,
                      JobHolds, Quiet
  <2>. QED  BY <2>1, <2>2, <2>3
<1>2. CASE ForeignEdit
  <2>1. /\ count' = [count EXCEPT !.drift = @ + 1] /\ UNCHANGED <<cm, writer, purging, job, op>>
        /\ dep' \in DepValues /\ cron' \in CronValues
    BY <1>2 DEF ForeignEdit, WindowTyped, DepValues, CronValues
  <2>2. count' = [windows |-> count.windows, deaths |-> count.deaths, drift |-> count.drift + 1]
    BY <2>1 DEF WindowTyped
  <2>3. count'.drift \in Nat \ {0}
    BY <2>2 DEF WindowTyped
  <2>4. WindowTyped'
    BY <2>1, <2>2, <2>3 DEF WindowTyped, IsWindow, IsOp
  <2>. QED  BY <2>1, <2>3, <2>4 DEF JobHolds, ReadsHold, Restores, KnownIn
<1>. QED  BY <1>1, <1>2

LEMMA WindowStep ==
  ASSUME WindowInvariant, [Next]_vars
  PROVE  WindowInvariant'
<1>1. CASE UNCHANGED vars
  BY <1>1 DEF vars, WindowInvariant, WindowTyped, IsWindow, IsOp, JobHolds, Quiet, ReadsHold, Restores,
              KnownIn
<1>. QED  BY <1>1, ExecuteStep, CheckpointSteps, ReadStep, PatchDeploymentStep, PatchCronStep, EndSteps,
             RecoverySteps, ClusterSteps DEF Next, OperatorStep

LEMMA WindowInvariantHolds == Spec => []WindowInvariant
  BY WindowStarts, WindowStep, PTL DEF Spec

\* audit_window.py and verifyWindow(): unless somebody else edited a spec, the
\* recovery Job writes only while no gateway Pod and no retention Job is
\* active, also when it outlives the run that created it.
THEOREM RecoveryIsQuiesced == Spec => []RecoveryQuiesced
<1>1. WindowInvariant => RecoveryQuiesced
  BY DEF WindowInvariant, JobHolds, RecoveryQuiesced
<1>. QED  BY <1>1, WindowInvariantHolds, PTL

\* What changes a spec of the workloads, or the checkpoint.
LEMMA WhoEdits ==
  ASSUME [Next]_vars
  PROVE  /\ dep' # dep => PatchDeployment \/ ForeignEdit
         /\ cron' # cron => PatchCronJob \/ ForeignEdit
         /\ cm' # cm => Checkpoint \/ Load \/ SavePaused \/ DeleteCheckpoint
<1>1. CASE UNCHANGED vars
  BY <1>1 DEF vars
<1>2. CASE OperatorStep
  BY <1>2 DEF OperatorStep, Checkpoint, Load, ReadTargets, PatchDeployment, PatchCronJob, WaitQuiet,
              SavePaused,
              WaitReady, DeleteCheckpoint
<1>3. CASE Die \/ CreateRecoveryJob \/ VerifyWindow \/ EntryDone \/ JobEnds
  BY <1>3 DEF Die, CreateRecoveryJob, VerifyWindow, EntryDone, JobEnds
<1>4. CASE Cluster
  BY <1>4 DEF Cluster, WriterStarts, WriterStops, RetentionStarts, RetentionEnds
<1>5. ASSUME NEW a, Plan(a) \/ Execute(a)
      PROVE  UNCHANGED <<dep, cron, cm>>
  BY <1>5 DEF Plan, Execute
<1>6. CASE ForeignEdit
  BY <1>6 DEF ForeignEdit
<1>. QED  BY <1>1, <1>2, <1>3, <1>4, <1>5, <1>6 DEF Next

\* audit_window.py target_state(), patch: a spec that is neither what the
\* window recorded nor its paused form is not changed by an operator run, an
\* edit between the read and the patch included.
THEOREM ForeignEditIsKept == Spec => ForeignEditKept
<1>1. ASSUME WindowInvariant, [Next]_vars, NEW w \in cm
      PROVE  /\ dep \notin {w.dep, PausedDep(w.dep)} /\ dep' # dep => count'.drift = count.drift + 1
             /\ cron \notin {w.cron, PausedCron(w.cron)} /\ cron' # cron =>
                   count'.drift = count.drift + 1
  <2>1. ForeignEdit => count'.drift = count.drift + 1
    BY <1>1 DEF ForeignEdit, WindowInvariant, WindowTyped
  <2>2. PatchDeployment /\ dep' # dep => dep \in {w.dep, PausedDep(w.dep)}
    <3>1. ASSUME PatchDeployment, dep' # dep
          PROVE  dep \in op.dep /\ op.pc \in {"patch1", "patch2"}
      BY <3>1 DEF PatchDeployment
    <3>. QED  BY <1>1, <3>1 DEF WindowInvariant, ReadsHold, KnownIn
  <2>3. PatchCronJob /\ cron' # cron => cron \in {w.cron, PausedCron(w.cron)}
    <3>1. ASSUME PatchCronJob, cron' # cron
          PROVE  cron \in op.cron /\ op.pc \in {"patch1", "patch2"}
      BY <3>1 DEF PatchCronJob
    <3>. QED  BY <1>1, <3>1 DEF WindowInvariant, ReadsHold, KnownIn
  <2>. QED  BY <1>1, <2>1, <2>2, <2>3, WhoEdits
<1>2. ASSUME WindowInvariant, [Next]_vars
      PROVE  [\A w \in cm :
                /\ dep \notin {w.dep, PausedDep(w.dep)} /\ dep' # dep => count'.drift = count.drift + 1
                /\ cron \notin {w.cron, PausedCron(w.cron)} /\ cron' # cron =>
                      count'.drift = count.drift + 1]_vars
  BY <1>1, <1>2
<1>. QED  BY <1>2, WindowInvariantHolds, PTL DEF Spec, ForeignEditKept

\* audit_window.py: unless somebody else edited a spec, the checkpoint
\* disappears only when both specs are what they were when the window was
\* opened.
THEOREM CloseIsRestore == Spec => CloseRestores
<1>1. ASSUME WindowInvariant, [Next]_vars, NEW w \in cm, cm' = {}, count.drift = 0
      PROVE  dep = w.dep /\ cron = w.cron
  <2>1. ~Checkpoint /\ ~Load /\ ~SavePaused
    <3>1. ~Checkpoint
      BY <1>1 DEF Checkpoint
    <3>2. ~Load
      <4>1. SUFFICES ASSUME Load PROVE FALSE  OBVIOUS
      <4>2. cm' = IF op.action = "resume" THEN {[u EXCEPT !.phase = "resuming"] : u \in cm} ELSE cm
        BY <4>1 DEF Load
      <4>3. [w EXCEPT !.phase = "resuming"] \in {[u EXCEPT !.phase = "resuming"] : u \in cm}
        BY <1>1
      <4>. QED  BY <1>1, <4>2, <4>3
    <3>3. ~SavePaused
      BY <1>1 DEF SavePaused
    <3>. QED  BY <3>1, <3>2, <3>3
  <2>2. op.pc = "delete"
    BY <1>1, <2>1, WhoEdits DEF DeleteCheckpoint, At
  <2>. QED  BY <1>1, <2>2 DEF WindowInvariant, Restores
<1>2. ASSUME WindowInvariant, [Next]_vars
      PROVE  [\A w \in cm : cm' = {} /\ count.drift = 0 => dep = w.dep /\ cron = w.cron]_vars
  BY <1>1, <1>2
<1>. QED  BY <1>2, WindowInvariantHolds, PTL DEF Spec, CloseRestores
=============================================================================
