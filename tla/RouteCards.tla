----------------------------- MODULE RouteCards -----------------------------
(***************************************************************************)
(* What the admin's and the merchant's routing pages show of a route and   *)
(* of the providers' health (admin-laravel and saas-laravel,               *)
(* resources/js/Pages/.../Routing/Index.jsx), beside what                  *)
(* RoutingWorkflowService deploys for it.  Three programs sort and filter  *)
(* the same list of nodes, each with code of its own.                      *)
(*                                                                         *)
(* A node is [id, type, alias, enabled, weight, priority, distribution],   *)
(* the flat form of flatNode; the service stores the last five under       *)
(* "data".  Labels, colours and wording are left out.                      *)
(***************************************************************************)
EXTENDS Integers, Sequences, SequencesExt

IsNode(n) ==
    /\ {"id", "type", "alias", "enabled", "weight", "priority"} \subseteq DOMAIN n
    /\ n.enabled \in BOOLEAN /\ n.weight \in Nat /\ n.priority \in Int
AreNodes(ns) == ns \in Seq(ToSet(ns)) /\ \A n \in ToSet(ns) : IsNode(n)

HasType(ns, types) == \E i \in DOMAIN ns : ns[i].type \in types
Aliases(ns) == [i \in DOMAIN ns |-> ns[i].alias]

IsProvider(n) == n.type = "provider"
Providers(ns) == {n \in ToSet(ns) : IsProvider(n)}
InUse(ns) == {n \in Providers(ns) : n.enabled}
Named(ns) == {n \in Providers(ns) : n.alias # ""}

\* filter: the entries that are in S, in their order.
Only(list, S) ==
    LET place(i) == Cardinality({j \in 1..i : list[j] \in S})
    IN  [k \in 1..place(Len(list)) |-> list[CHOOSE i \in DOMAIN list : list[i] \in S /\ place(i) = k]]

Positive(ns) == Only(ns, {n \in ToSet(ns) : n.weight > 0})

\* A stable sort: nodes of the same priority keep their order.
ByPriority(ns) ==
    LET rank(i) == Cardinality({j \in DOMAIN ns :
                     \/ ns[j].priority < ns[i].priority
                     \/ ns[j].priority = ns[i].priority /\ j <= i})
    IN  [k \in DOMAIN ns |-> ns[CHOOSE i \in DOMAIN ns : rank(i) = k]]

----------------------------------------------------------------------------
\* RoutingWorkflowService::syncRoutingConfiguration: a node without an alias counts for its weight only.
DeployedProviders(ns) == ByPriority(Only(ns, InUse(ns)))
Deployed(ns) ==
    LET providers == DeployedProviders(ns)
        weighted == Positive(providers)
    IN  [chain |-> Aliases(Only(providers, Named(ns))),
         weights |-> [i \in DOMAIN weighted |-> [alias |-> weighted[i].alias, weight |-> weighted[i].weight]],
         strategy |-> IF HasType(ns, {"weighted"}) \/ weighted # <<>> THEN "weighted" ELSE "priority"]

----------------------------------------------------------------------------
\* The admin's page.  routingTypeBadge: a route drawn in the builder is told by its nodes.
IsVisual(ns) == HasType(ns, {"start", "condition", "weighted", "failover"})
Split(providers) == IF Positive(providers) # <<>> THEN "weighted" ELSE "priority"
AdminBadge(ns) ==
    LET enabled == Only(ns, InUse(ns))
    IN  CASE ~IsVisual(ns) -> IF enabled = <<>> THEN "none" ELSE Split(enabled)
          [] HasType(ns, {"condition"}) /\ HasType(ns, {"weighted"}) -> "conditional weighted"
          [] HasType(ns, {"condition"}) /\ ~HasType(ns, {"weighted"}) -> "conditional"
          [] HasType(ns, {"weighted"}) /\ ~HasType(ns, {"condition"}) -> "weighted"
          [] HasType(ns, {"failover"}) /\ ~HasType(ns, {"condition", "weighted"}) -> "failover"
          [] OTHER -> Split(Only(ns, Providers(ns)))

\* ProviderFlow: the providers as they are shown, with their share where they have one.
Pill(n) == [alias |-> n.alias, weight |-> n.weight]
ShownAsDrawn(ns) == IsVisual(ns) \/ HasType(ns, {"success", "failure"})
Sorted(ns) == Only(ByPriority(Only(ns, Providers(ns))), InUse(ns))
ProviderFlow(ns) ==
    LET shown == IF ShownAsDrawn(ns) THEN Only(ns, Providers(ns)) ELSE Sorted(ns)
    IN  [i \in DOMAIN shown |-> Pill(shown[i])]

\* buildFlowSummary: what the sentence below the flow says, and of which providers in which order.
FlowSummary(ns) ==
    CASE IsVisual(ns) -> [kind |-> "visual", names |-> Aliases(Only(ns, Providers(ns)))]
      [] ~IsVisual(ns) /\ Sorted(ns) = <<>> -> [kind |-> "none", names |-> <<>>]
      [] ~IsVisual(ns) /\ Positive(Sorted(ns)) # <<>> ->
           [kind |-> "weighted", names |-> Aliases(Positive(Sorted(ns)))]
      [] OTHER -> [kind |-> "priority", names |-> Aliases(Sorted(ns))]

\* RouteCard, of a route [status, nodes, versions].
RouteCard(route) ==
    [live |-> route.status = "published",
     badge |-> AdminBadge(route.nodes),
     flow |-> ProviderFlow(route.nodes),
     summary |-> FlowSummary(route.nodes)]

----------------------------------------------------------------------------
\* The merchant's page.
\* Fault: the list is filtered but not sorted.
UnsortedChain(ns) == Aliases(Only(ns, Named(ns)))

\* WorkflowCard and its buildFlowSummary: the named providers by priority, paused ones too.
MerchantChain(ns) == Aliases(ByPriority(Only(ns, Named(ns))))

\* The merchant's routingTypeBadge tells a route as the admin's does.
MerchantBadge(ns) ==
    LET weighted(providers) == IF \E n \in providers : n.weight > 0 THEN "weighted" ELSE "priority"
    IN  CASE ~IsVisual(ns) -> IF InUse(ns) = {} THEN "none" ELSE weighted(InUse(ns))
          [] HasType(ns, {"condition"}) ->
               IF HasType(ns, {"weighted"}) THEN "conditional weighted" ELSE "conditional"
          [] HasType(ns, {"weighted"}) /\ ~HasType(ns, {"condition"}) -> "weighted"
          [] HasType(ns, {"failover"}) /\ ~HasType(ns, {"condition", "weighted"}) -> "failover"
          [] OTHER -> weighted(Providers(ns))

WorkflowCard(route) ==
    [live |-> route.status = "published",
     canOpen |-> route.nodes # <<>>,
     badge |-> MerchantBadge(route.nodes),
     chain |-> MerchantChain(route.nodes)]

----------------------------------------------------------------------------
(***************************************************************************)
(* The providers' health, as both pages show the rows of                   *)
(* provider_health_statuses [status, failures].                            *)
(***************************************************************************)
HealthStatus == {"healthy", "degraded", "unhealthy"}

\* ProviderHealthPanel, the same on both pages.
HealthLabel(row) ==
    CASE row.status = "unhealthy" -> "down"
      [] row.status = "degraded" -> "degraded"
      [] OTHER -> "healthy"

\* The admin's StatusStrip counts what RoutingRepository::summary counts.
StatusStrip(rows) == Cardinality({i \in DOMAIN rows : rows[i].status = "unhealthy"})

\* The merchant's SummaryStrip, and the mark on the health tab: degraded counts too.
SummaryStrip(rows) == Cardinality({i \in DOMAIN rows : rows[i].status # "healthy"})
=============================================================================
