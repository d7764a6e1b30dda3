-------------------------- MODULE LegacyDeployment --------------------------
(***************************************************************************)
(* The deployment script of the legacy gateway                             *)
(* (LiteLLM/deploy_mi_aks_litellm.py), which creates or updates an AKS      *)
(* cluster, its PostgreSQL and LiteLLM step by step and may be run again    *)
(* with other settings, after it failed or was stopped anywhere.            *)
(*                                                                          *)
(* One run at a time, as the maintenance window it is documented for        *)
(* demands; administrators who set the Salt of the Secret, and Kubernetes,  *)
(* which starts and evicts Pods whenever it likes, are not excluded.        *)
(*   An object that a run only creates is a member of `made'.  A template   *)
(* stands for the Deployment with its two hashes, a generated master key    *)
(* for the number of the run that generated it, and the one that operators  *)
(* inject is 0.                                                             *)
(***************************************************************************)
EXTENDS Integers, FiniteSets

CONSTANTS
    Accounts,      \* Azure OpenAI resources the identity is to use
    Configs,       \* what generate_litellm_config may give
    Passwords,     \* values of PG_PASSWORD
    Sizes,         \* values of PG_STORAGE
    MaxScripts,    \* bound on runs of the script
    MaxSalts,      \* bound on Salts set by administrators
    MaxEvictions   \* bound on Pods evicted

ASSUME DeploymentAssumption ==
    /\ Accounts # {} /\ Sizes \subseteq Nat \ {0}
    /\ MaxScripts \in Nat /\ MaxSalts \in Nat /\ MaxEvictions \in Nat

VARIABLES
    built,       \* objects of Azure and of the cluster that are only created
    granted,     \* accounts on which the identity has its role
    configMap,   \* ConfigMap litellm-config, if it exists
    claim,       \* size of the PVC pg-data, 0 before it exists
    postgres,    \* password in the Deployment postgres, if it exists
    initialized, \* password the data directory was initialized with, if it was
    env,         \* Secret litellm-env, if it exists
    deployed,    \* template of the Deployment litellm-mi-proxy, if it exists
    service,     \* type of its Service
    instances,   \* its Pods
    script,      \* the run under way, or the last one if it completed
    scripts,     \* runs so far
    salt,        \* history: the Salt set last
    known,       \* history: templates deployed so far
    evictions    \* Pods evicted so far

azure == <<built, granted>>
objects == <<configMap, claim, postgres, env, deployed, service>>
history == <<scripts, salt, known, evictions>>
deploymentVars == <<azure, objects, initialized, instances, script, history>>

Unsalted == 0

NotDeployed ==
    /\ built = {} /\ granted = {} /\ configMap = {} /\ claim = 0
    /\ postgres = {} /\ initialized = {} /\ env = {} /\ deployed = {}
    /\ service = "none" /\ instances = {} /\ scripts = 0 /\ known = {}

\* What the run before left: it did all but its last test, with the key it was
\* given.
DeployedBefore ==
    \E c \in Configs, p \in Passwords, size \in Sizes :
        LET t == [config |-> c, key |-> 0, password |-> p]
        IN /\ built = {"group", "identity", "cluster", "attach", "namespace", "pgservice"} /\ granted = Accounts
           /\ configMap = {c} /\ claim = size /\ postgres = {p} /\ initialized = {p}
           /\ env = {[key |-> 0, password |-> p, salt |-> Unsalted, version |-> 1]}
           /\ deployed = {t} /\ known = {t} /\ service = "LoadBalancer" /\ scripts = 1
           /\ instances = {[template |-> t, config |-> c, key |-> 0, password |-> p, ready |-> TRUE]}

DeploymentInit ==
    /\ NotDeployed \/ DeployedBefore
    /\ script = {} /\ salt = Unsalted /\ evictions = 0

-----------------------------------------------------------------------------
(* The run *)

\* load_config, the environment and main's checks: settings that are refused
\* change nothing.  PG_STORAGE and EXPAND_EXISTING_PG_PVC, which one step
\* reads, are chosen there.
Settings ==
    [config: Configs, generate: BOOLEAN, password: Passwords, host: BOOLEAN]

\* Mutant: the Deployment before the Secret that its Pods read.
AfterUnsettled(r) ==
    [group |-> "identity", identity |-> "cluster", cluster |-> "attach", attach |-> "roles",
     roles |-> "namespace", namespace |-> "config", config |-> "claim", claim |-> "postgres",
     postgres |-> "database", database |-> "pgservice", pgservice |-> "deployment", deployment |-> "secret",
     secret |-> "replace", replace |-> "service", service |-> "rollout",
     rollout |-> IF r.set.host THEN "nginx" ELSE "smoke",
     nginx |-> "certmanager", certmanager |-> "issuer", issuer |-> "ingress",
     ingress |-> "done", smoke |-> "done"][r.at]

\* The order of main's steps.
After(r) ==
    [group |-> "identity", identity |-> "cluster", cluster |-> "attach", attach |-> "roles",
     roles |-> "namespace", namespace |-> "config", config |-> "claim", claim |-> "postgres",
     postgres |-> "pgservice", pgservice |-> "database", database |-> "secret", secret |-> "replace",
     replace |-> "deployment", deployment |-> "service", service |-> "rollout",
     rollout |-> IF r.set.host THEN "nginx" ELSE "smoke",
     nginx |-> "certmanager", certmanager |-> "issuer", issuer |-> "ingress",
     ingress |-> "done", smoke |-> "done"][r.at]

Proceed(r) == script' = {[r EXCEPT !.at = After(r)]}

\* A key is generated unless the environment gives one.
StartScript ==
    /\ scripts < MaxScripts /\ scripts' = scripts + 1
    /\ \A r \in script : r.at = "done"
    /\ \E s \in Settings :
           script' = {[set |-> s, key |-> IF s.generate THEN scripts' ELSE 0, at |-> "group",
                       open |-> Accounts, seen |-> {}, novel |-> FALSE]}
    /\ UNCHANGED <<azure, objects, initialized, instances, salt, known, evictions>>

-----------------------------------------------------------------------------
(* Azure *)

\* A create_or_update, or a create after a read that found nothing or failed.
Build(step) ==
    \E r \in script :
        /\ r.at = step /\ built' = built \cup {step} /\ Proceed(r)
        /\ UNCHANGED <<granted, objects, initialized, instances, history>>

EnsureGroup == Build("group")
EnsureIdentity == Build("identity")
EnsureCluster == Build("cluster")
AttachIdentity == Build("attach")

\* Account by account.  One that cannot be read is skipped, as is a role whose
\* definition is not found.
GrantRole ==
    \E r \in script, a \in Accounts :
        /\ r.at = "roles" /\ a \in r.open
        /\ granted' \in {granted, granted \cup {a}}
        /\ script' = {[r EXCEPT !.open = @ \ {a}]}
        /\ UNCHANGED <<built, objects, initialized, instances, history>>

RolesGranted ==
    \E r \in script :
        /\ r.at = "roles" /\ r.open = {} /\ Proceed(r)
        /\ UNCHANGED <<azure, objects, initialized, instances, history>>

-----------------------------------------------------------------------------
(* Kubernetes objects *)

EnsureNamespace == Build("namespace")

ApplyConfigMap ==
    \E r \in script :
        /\ r.at = "config" /\ configMap' = {r.set.config} /\ Proceed(r)
        /\ UNCHANGED <<azure, claim, postgres, env, deployed, service, initialized, instances, history>>

\* A claim grows only if that is asked for; a smaller size ends the run.
ApplyClaim ==
    \E r \in script, size \in Sizes, expand \in BOOLEAN :
        /\ r.at = "claim" /\ size >= claim
        /\ claim' = IF claim = 0 \/ expand THEN size ELSE claim
        /\ Proceed(r)
        /\ UNCHANGED <<azure, configMap, postgres, env, deployed, service, initialized, instances, history>>

ApplyPostgres ==
    \E r \in script :
        /\ r.at = "postgres" /\ postgres' = {r.set.password} /\ Proceed(r)
        /\ UNCHANGED <<azure, configMap, claim, env, deployed, service, initialized, instances, history>>

PostgresService == Build("pgservice")

AwaitPostgres ==
    \E r \in script :
        /\ r.at = "database" /\ initialized # {} /\ Proceed(r)
        /\ UNCHANGED <<azure, objects, initialized, instances, history>>

\* apply_secret reads the Secret ...
ReadSecret ==
    \E r \in script :
        /\ r.at = "secret"
        /\ script' = {[r EXCEPT !.at = After(r), !.seen = env]}
        /\ UNCHANGED <<azure, objects, initialized, instances, history>>

\* Mutant: the replacement does not name the version that was read.
UnchangedOrNot(seen) == IF seen = {} THEN env = {} ELSE env # {}

\* ... and replaces the version it read, keeping the Salt, or creates it.  Another
\* version is a conflict and ends the run.
Unchanged(seen) ==
    IF seen = {} THEN env = {} ELSE \E s \in seen, e \in env : s.version = e.version

ReplaceSecret ==
    \E r \in script :
        /\ r.at = "replace" /\ Unchanged(r.seen)
        /\ env' = IF r.seen = {}
                  THEN {[key |-> r.key, password |-> r.set.password, salt |-> Unsalted, version |-> 1]}
                  ELSE {[key |-> r.key, password |-> r.set.password, salt |-> s.salt, version |-> s.version + 1] :
                           s \in r.seen}
        /\ Proceed(r)
        /\ UNCHANGED <<azure, configMap, claim, postgres, deployed, service, initialized, instances, history>>

\* build_litellm_deployment with the hashes of the configuration and of the
\* Secret's data, which do not include the Salt.
Template(r) == [config |-> r.set.config, key |-> r.key, password |-> r.set.password]

ApplyLiteLLM ==
    \E r \in script :
        /\ r.at = "deployment"
        /\ deployed' = {Template(r)} /\ known' = known \cup {Template(r)}
        /\ script' = {[r EXCEPT !.at = After(r), !.novel = Template(r) \notin known]}
        /\ UNCHANGED <<azure, configMap, claim, postgres, env, service, initialized, instances, scripts, salt, evictions>>

ApplyService ==
    \E r \in script :
        /\ r.at = "service" /\ service' = IF r.set.host THEN "ClusterIP" ELSE "LoadBalancer"
        /\ Proceed(r)
        /\ UNCHANGED <<azure, configMap, claim, postgres, env, deployed, initialized, instances, history>>

Serving == {p \in instances : p.ready}

\* As many Pods are ready as there should be, of whichever template; the wait for
\* the line in the log that follows goes on when its time is over.
AwaitRollout ==
    \E r \in script :
        /\ r.at = "rollout" /\ Cardinality(Serving) = 1 /\ Proceed(r)
        /\ UNCHANGED <<azure, objects, initialized, instances, history>>

InstallNginx == Build("nginx")
InstallCertManager == Build("certmanager")
ApplyIssuer == Build("issuer")
ApplyIngress == Build("ingress")

\* The test is left out without an address or on demand (RUN_SMOKE_TEST, read only
\* here); the key must be the one that is served.
SmokeTest ==
    \E r \in script, test \in BOOLEAN :
        /\ r.at = "smoke"
        /\ test /\ "address" \in built => \E p \in Serving : p.key = r.key
        /\ Proceed(r)
        /\ UNCHANGED <<azure, objects, initialized, instances, history>>

\* An exception, an exit, a failed test, a wait whose time is over, or the
\* operator ends the run.
ScriptDies ==
    /\ \E r \in script : r.at # "done"
    /\ script' = {}
    /\ UNCHANGED <<azure, objects, initialized, instances, history>>

-----------------------------------------------------------------------------
(* Kubernetes, and administrators. *)

\* PostgreSQL takes the password when it creates its data directory.
PostgresStarts ==
    /\ postgres # {} /\ claim > 0 /\ initialized = {} /\ initialized' = postgres
    /\ UNCHANGED <<azure, objects, instances, script, history>>

Instance(t) ==
    {[template |-> t, config |-> c, key |-> e.key, password |-> e.password, ready |-> FALSE] :
        c \in configMap, e \in env}

InstanceStarts ==
    \E t \in deployed :
        /\ \A p \in instances : p.template # t
        /\ Instance(t) # {} /\ instances' = instances \cup Instance(t)
        /\ UNCHANGED <<azure, objects, initialized, script, history>>

\* LiteLLM is ready when it reaches its database.
InstanceReady ==
    \E p \in instances :
        /\ ~p.ready /\ p.password \in initialized
        /\ instances' = (instances \ {p}) \cup {[p EXCEPT !.ready = TRUE]}
        /\ UNCHANGED <<azure, objects, initialized, script, history>>

\* A rollout ends when a Pod of the template is ready.
RolledOut ==
    \E p \in Serving :
        /\ p.template \in deployed /\ instances # {p} /\ instances' = {p}
        /\ UNCHANGED <<azure, objects, initialized, script, history>>

\* The Pod that replaces an evicted one reads ConfigMap and Secret anew.
InstanceEvicted ==
    \E p \in instances :
        /\ evictions < MaxEvictions /\ evictions' = evictions + 1
        /\ instances' = (instances \ {p}) \cup Instance(p.template)
        /\ UNCHANGED <<azure, objects, initialized, script, scripts, salt, known>>

AddressGiven ==
    /\ service = "LoadBalancer" /\ "address" \notin built /\ built' = built \cup {"address"}
    /\ UNCHANGED <<granted, objects, initialized, instances, script, history>>

SetSalt ==
    \E e \in env :
        /\ salt < MaxSalts /\ salt' = salt + 1
        /\ env' = {[e EXCEPT !.salt = salt', !.version = @ + 1]}
        /\ UNCHANGED <<azure, configMap, claim, postgres, deployed, service, initialized, instances, script,
                       scripts, known, evictions>>

-----------------------------------------------------------------------------
DeploymentNext ==
    \/ StartScript \/ ScriptDies
    \/ EnsureGroup \/ EnsureIdentity \/ EnsureCluster \/ AttachIdentity \/ GrantRole \/ RolesGranted
    \/ EnsureNamespace \/ ApplyConfigMap \/ ApplyClaim \/ ApplyPostgres \/ PostgresService \/ AwaitPostgres
    \/ ReadSecret \/ ReplaceSecret \/ ApplyLiteLLM \/ ApplyService \/ AwaitRollout
    \/ InstallNginx \/ InstallCertManager \/ ApplyIssuer \/ ApplyIngress \/ SmokeTest
    \/ PostgresStarts \/ InstanceStarts \/ InstanceReady \/ RolledOut \/ InstanceEvicted \/ AddressGiven \/ SetSalt

DeploymentSpec == DeploymentInit /\ [][DeploymentNext]_deploymentVars

-----------------------------------------------------------------------------
(* Properties *)

\* Whenever a run reads, replaces or creates the Secret, and however it is
\* interleaved with administrators, the Salt is the one they set last
\* (apply_secret).
SaltKept == \A e \in env : e.salt = salt

\* After a run deployed a template that was never there before, every Pod of that
\* template holds the configuration and the credentials of that run, whatever an
\* earlier run left behind and whichever Pods are replaced.
NewTemplateFits ==
    \A r \in script, p \in instances :
        r.novel /\ p.template \in deployed =>
            p.config = r.set.config /\ p.key = r.key /\ p.password = r.set.password
=============================================================================
