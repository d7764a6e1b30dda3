----------------------------- MODULE EdgeRelease -----------------------------
(***************************************************************************)
(* Release of traffic through Front Door: the two ingress planes, what they  *)
(* trust and who manages it (scripts/private_ingress_runtime.py, publish()   *)
(* of migration_runtime.py), binding them to the deployed Front Door         *)
(* (edge_binding.py), the receipts (local_execution/model_sync_evidence.py   *)
(* renews them) and the release itself (migration_deploy.py).                *)
(*                                                                          *)
(* Operations run one at a time and may die between any two steps.  Others   *)
(* change the cluster and the Front Door at any moment (Outside).            *)
(***************************************************************************)
EXTENDS Integers, Sequences, FiniteSets

CONSTANTS
    Planes,     \* api and admin, numbered in the order they are worked on
    MaxOutside  \* bound on changes from outside, model syncs included

ASSUME EdgeAssumption ==
    IsFiniteSet(Planes) /\ Planes = 1..Cardinality(Planes) /\ MaxOutside \in Nat

VARIABLES
    auth,    \* who authenticates: "native" (Traefik planes) or "entra" (proxies)
    edge,    \* the Front Door profile: [id (0: none), on: routes enabled]
    ingress, \* ingress[p]: [id it trusts (0: none), pod, by: managers of that rule]
    conf,    \* version of models and connections the cluster runs
    frontend, \* receipt of stage 4: the version it was verified for (-1: none)
    routes,  \* receipt of stage 6: likewise
    bound,   \* the binding receipt, if any: [id, conf, at]
    work,    \* the operation under way, if any
    doubt,   \* trust or profile was changed from outside since the last release check
    outside  \* changes from outside so far

edgeVars == <<auth, edge, ingress, conf, frontend, routes, bound, work, doubt, outside>>

\* Managers of the rule (or variable) that names the trusted Front Door: the
\* applier of manifests, kubectl patch as used by the binding, anybody else.
Applier == "llmgw"
Patcher == "kubectl-patch"
Someone == "other"

Order == [p \in 1..Cardinality(Planes) |-> p]
Live == [p \in Planes |-> [id |-> ingress[p].id, pod |-> ingress[p].pod]]

EdgeInit ==
    /\ auth \in {"native", "entra"}
    /\ edge = [id |-> 0, on |-> FALSE]
    /\ ingress = [p \in Planes |-> [id |-> 0, pod |-> 0, by |-> {Applier}]]
    /\ conf = 0 /\ frontend = 0 /\ routes = -1 /\ bound = {}
    /\ work = {} /\ doubt = FALSE /\ outside = 0

\* Server-side apply of a rule: a field that another manager owns with another
\* value is a conflict, an equal value is owned together.
Applied(p, id, pod) == [id |-> id, pod |-> pod, by |->
    IF id = ingress[p].id THEN ingress[p].by \cup {Applier} ELSE {Applier}]
Conflict(p, id) == id # ingress[p].id /\ ingress[p].by # {Applier}

-----------------------------------------------------------------------------
(* Manifests are applied again: private-ingress (native) or publish (entra).  *)

\* Mutant: the rendered documents are applied as they are.
DesiredRendered(p, pod) == [id |-> 0, pod |-> pod]

\* The desired documents keep the binding that is live (preserve_binding,
\* preserve_native_front_door_binding).
Desired(p, pod) == [id |-> ingress[p].id, pod |-> pod]

\* A plane whose rule kubectl patch owns is handed over by force, bound to the
\* version that was read; with other managers involved the plan is refused.
Handoff(p) == auth = "native" /\ Patcher \in ingress[p].by

ApplyPlan(pod) ==
    /\ work = {}
    /\ \A p \in Planes : Handoff(p) => ingress[p].by \subseteq {Applier, Patcher}
    /\ work' = {[kind |-> "apply", seen |-> ingress, want |-> [p \in Planes |-> Desired(p, pod)],
                force |-> {p \in Planes : Handoff(p)}, todo |-> Order]}
    /\ UNCHANGED <<auth, edge, ingress, conf, frontend, routes, bound, doubt, outside>>

ApplyPlane ==
    \E j \in work :
        /\ j.kind = "apply" /\ j.todo # << >>
        /\ LET p == Head(j.todo)
               w == j.want[p]
           IN /\ IF p \in j.force
                 THEN ingress[p] = j.seen[p]
                 ELSE auth = "native" \/ w.id # 0 => ~Conflict(p, w.id)
              /\ ingress' = [ingress EXCEPT ![p] =
                     IF auth = "entra" /\ w.id = 0
                     THEN [@ EXCEPT !.pod = w.pod]   \* not in the manifest: left alone
                     ELSE Applied(p, w.id, w.pod)]
        /\ work' = {[j EXCEPT !.todo = Tail(@)]}
        /\ UNCHANGED <<auth, edge, conf, frontend, routes, bound, doubt, outside>>

\* Both planes serve; private-ingress verifies them and saves its receipt.
ApplyEnd ==
    \E j \in work :
        /\ j.kind = "apply" /\ j.todo = << >>
        /\ frontend' = IF auth = "native" THEN conf ELSE frontend
        /\ work' = {}
        /\ UNCHANGED <<auth, edge, ingress, conf, routes, bound, doubt, outside>>

\* Stage 6 application (native): after the rollout the admin route must answer
\* without the Front Door header, which a bound plane refuses.
PublishBackend ==
    /\ work = {} /\ auth = "native"
    /\ frontend = conf
    /\ \A p \in Planes : ingress[p].id = 0
    /\ routes' = conf
    /\ UNCHANGED <<auth, edge, ingress, conf, frontend, bound, work, doubt, outside>>

-----------------------------------------------------------------------------
(* edge-bind. *)

\* deployed_edge(): Front Door is deployed as reviewed.  Another Front Door that
\* is trusted already is not replaced.
BindPlan ==
    /\ work = {} /\ edge.id # 0
    /\ \A p \in Planes : ingress[p].id \in {0, edge.id}
    /\ work' = {[kind |-> "bind", id |-> edge.id, seen |-> Live, todo |-> Order]}
    /\ UNCHANGED <<auth, edge, ingress, conf, frontend, routes, bound, doubt, outside>>

\* Patches that test what was read, ConfigMap and Deployment or Deployment alone.
BindPlane ==
    \E j \in work :
        /\ j.kind = "bind" /\ j.todo # << >>
        /\ LET p == Head(j.todo) IN
              /\ Live[p] = j.seen[p]
              /\ ingress' = IF ingress[p].id = j.id THEN ingress
                            ELSE [ingress EXCEPT ![p].id = j.id, ![p].by = {Patcher}]
        /\ work' = {[j EXCEPT !.todo = Tail(@)]}
        /\ UNCHANGED <<auth, edge, conf, frontend, routes, bound, doubt, outside>>

\* Both planes are read back before the receipt is saved.
BindEnd ==
    \E j \in work :
        /\ j.kind = "bind" /\ j.todo = << >>
        /\ \A p \in Planes : Live[p] = [j.seen[p] EXCEPT !.id = j.id]
        /\ bound' = {[id |-> j.id, conf |-> conf, at |-> Live]}
        /\ work' = {}
        /\ UNCHANGED <<auth, edge, ingress, conf, frontend, routes, doubt, outside>>

-----------------------------------------------------------------------------
(* Evidence refresh after a model sync (native only). *)

RefreshPlan ==
    /\ work = {} /\ auth = "native" /\ conf > 0
    /\ {frontend, routes} \subseteq {conf - 1, conf}
    /\ \E b \in bound : b.conf \in {conf - 1, conf} /\ b.id = edge.id /\ b.at = Live
    /\ \A p \in Planes : ingress[p].id = edge.id
    /\ work' = {[kind |-> "refresh", conf |-> conf, was |-> <<frontend, routes>>]}
    /\ UNCHANGED <<auth, edge, ingress, conf, frontend, routes, bound, doubt, outside>>

\* Each receipt is read again before it is replaced.
RefreshFrontend ==
    \E j \in work :
        /\ j.kind = "refresh" /\ frontend = j.was[1] /\ frontend # j.conf
        /\ frontend' = j.conf
        /\ UNCHANGED <<auth, edge, ingress, conf, routes, bound, work, doubt, outside>>

RefreshRoutes ==
    \E j \in work :
        /\ j.kind = "refresh" /\ frontend = j.conf /\ routes = j.was[2]
        /\ routes' = j.conf /\ work' = {}
        /\ UNCHANGED <<auth, edge, ingress, conf, frontend, bound, doubt, outside>>

-----------------------------------------------------------------------------
(* Stage 9: the edge without traffic, and the release. *)

\* An edge deployment without release, or a release in phase prepare.
Prepare ==
    /\ work = {}
    /\ edge' = [id |-> IF edge.id = 0 THEN 1 ELSE edge.id, on |-> FALSE]
    /\ UNCHANGED <<auth, ingress, conf, frontend, routes, bound, work, doubt, outside>>

\* Mutant: the receipt is believed.
BindingBelieved == \E b \in bound : b.id = edge.id /\ b.conf = conf

\* require_edge_binding(): the receipt is of this Front Door and configuration
\* and of what both planes run at this moment.
BindingCurrent ==
    \E b \in bound :
        /\ b.id = edge.id /\ b.conf = conf
        /\ b.at = Live
        /\ \A p \in Planes : ingress[p].id = edge.id

\* require_private_ingress_backends().
RoutesCurrent == auth = "native" => frontend = conf /\ routes = conf

ReleaseCheck ==
    /\ work = {} /\ edge.id # 0
    /\ BindingCurrent /\ RoutesCurrent
    /\ work' = {[kind |-> "release"]}
    /\ doubt' = FALSE
    /\ UNCHANGED <<auth, edge, ingress, conf, frontend, routes, bound, outside>>

ReleaseCreate ==
    \E j \in work :
        /\ j.kind = "release"
        /\ edge' = [edge EXCEPT !.on = TRUE]
        /\ work' = {}
        /\ UNCHANGED <<auth, ingress, conf, frontend, routes, bound, doubt, outside>>

\* Any step fails, or its process is killed; nothing is undone.
OperationDies ==
    /\ work # {} /\ work' = {}
    /\ UNCHANGED <<auth, edge, ingress, conf, frontend, routes, bound, doubt, outside>>

-----------------------------------------------------------------------------
(* The world. *)

Happens == outside < MaxOutside /\ outside' = outside + 1

\* Somebody makes a plane trust another Front Door, or none.
Retrust(p, id) ==
    /\ Happens /\ id # ingress[p].id
    /\ ingress' = [ingress EXCEPT ![p].id = id, ![p].by = {Someone}]
    /\ doubt' = TRUE
    /\ UNCHANGED <<auth, edge, conf, frontend, routes, bound, work>>

\* The profile is deleted; the next deployment creates one with another identity.
ProfileReplaced ==
    /\ Happens /\ edge.id = 1
    /\ edge' = [id |-> 2, on |-> FALSE]
    /\ doubt' = TRUE
    /\ UNCHANGED <<auth, ingress, conf, frontend, routes, bound, work>>

\* A model sync completes (ConfigPublish): another configuration runs.
ModelSync ==
    /\ Happens /\ work = {}
    /\ conf' = conf + 1
    /\ UNCHANGED <<auth, edge, ingress, frontend, routes, bound, work, doubt>>

EdgeNext ==
    \/ \E pod \in 0..1 : ApplyPlan(pod)
    \/ ApplyPlane \/ ApplyEnd \/ PublishBackend
    \/ BindPlan \/ BindPlane \/ BindEnd
    \/ RefreshPlan \/ RefreshFrontend \/ RefreshRoutes
    \/ Prepare \/ ReleaseCheck \/ ReleaseCreate \/ OperationDies
    \/ (\E p \in Planes, id \in 0..2 : Retrust(p, id)) \/ ProfileReplaced \/ ModelSync

EdgeSpec == EdgeInit /\ [][EdgeNext]_edgeVars

-----------------------------------------------------------------------------
(* Properties. *)

\* While traffic flows both planes accept it from this Front Door only, whatever
\* was applied, rebound, refreshed or broken off since, unless somebody changed
\* a plane or the profile behind the back of the release.
ReleasedIsBound == edge.on /\ ~doubt => \A p \in Planes : ingress[p].id = edge.id

\* No operation takes away or replaces the Front Door a plane trusts, an edit
\* made while it runs included.
TrustKept ==
    [][\A p \in Planes :
          ingress'[p].id = ingress[p].id \/ ingress[p].id = 0 \/ outside' # outside]_edgeVars
=============================================================================
