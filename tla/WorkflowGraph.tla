---------------------------- MODULE WorkflowGraph ----------------------------
(***************************************************************************)
(* The routing graph as the admin's visual builder draws and simulates it  *)
(* (admin-laravel/app/resources/js/Pages/Admin/Routing/Builder.jsx) and as *)
(* RoutingWorkflowService validates and simulates it.                      *)
(*                                                                         *)
(* A graph is [nodes, edges]: a sequence of nodes [id, type, alias,        *)
(* conditions, distribution, chain] and one of edges [source, target,      *)
(* handle].  Labels, colours and positions are left out; a value of a      *)
(* condition or of the input is [text, cast, js, php]: what String() and   *)
(* (string) make of it, lower-cased, and the numbers of parseFloat and     *)
(* (float).                                                                *)
(***************************************************************************)
EXTENDS Integers, SequencesExt

CONSTANTS
    Provider,     \* the provider aliases, in the order the page lists them
    NoAlias,      \* no provider chosen
    NaN           \* what parseFloat returns for a text that is no number

ASSUME NaNAssumption == NaN \notin Int

Aliases == ToSet(Provider)
NodeType == {"start", "provider", "condition", "weighted", "failover", "success", "failure"}
Terminal == {"success", "failure"}

\* The source handles a node of each type offers, and whether it has a target handle.
StartHandles == {"output"}
ProviderHandles == {"success", "failure"}
ConditionHandles == {"yes", "no"}
WeightedHandles == {"output"}
FailoverHandles == {"output"}
TerminalHandles == {}

SourceHandles(type) ==
    CASE type = "start" -> StartHandles
      [] type = "provider" -> ProviderHandles
      [] type = "condition" -> ConditionHandles
      [] type = "weighted" -> WeightedHandles
      [] type = "failover" -> FailoverHandles
      [] OTHER -> TerminalHandles
TargetTypes == NodeType \ {"start"}

FailureConditions == {"failed", "failure", "timeout", "declined", "error", "no"}
SuccessConditions == {"success", "succeeded", "yes"}

\* edgeLabel || handle || "default": the handle itself, for every handle there is.
EdgeCondition(handle) == handle

(***************************************************************************)
(* validateEdgeConnection: what the builder lets the admin draw.           *)
(***************************************************************************)
MayConnect(source, target, handle) ==
    LET cond == EdgeCondition(handle)
        failing == cond \in FailureConditions
        succeeding == cond \in SuccessConditions
    IN  /\ source.id # target.id
        /\ source.type \notin Terminal
        /\ ~(source.type = "start" /\ failing)
        /\ ~(target.type = "success" /\ failing)
        /\ ~(target.type = "failure" /\ succeeding)
        /\ ~(source.type = "provider" /\ target.type = "provider" /\ succeeding)
        /\ ~(source.type = "provider" /\ target.type = "success" /\ ~succeeding)

(***************************************************************************)
(* validateEdgeLogic: what the server refuses to publish.                  *)
(***************************************************************************)
EdgeIsRefused(source, target, handle) ==
    \/ source.type \in Terminal
    \/ source.type = "start" /\ handle \in FailureConditions
    \/ target.type = "success" /\ handle \in FailureConditions
    \/ target.type = "failure" /\ handle \in SuccessConditions
    \/ source.type = "provider" /\ target.type = "provider" /\ handle \in SuccessConditions
    \/ source.type = "provider" /\ target.type = "success" /\ handle \notin SuccessConditions

Ids(g) == {g.nodes[i].id : i \in DOMAIN g.nodes}
NodeOf(g, id) == CHOOSE n \in ToSet(g.nodes) : n.id = id
OfType(g, types) == {i \in DOMAIN g.nodes : g.nodes[i].type \in types}

Weight(distribution) == FoldSeq(LAMBDA d, sum : d.weight + sum, 0, distribution)

\* validateWorkflow: no error at all.
IsValid(g) ==
    /\ Cardinality(OfType(g, {"start"})) = 1
    /\ OfType(g, Terminal) # {}
    /\ \A i \in OfType(g, {"provider"}) : g.nodes[i].alias # NoAlias
    /\ \A i \in DOMAIN g.edges :
         LET e == g.edges[i]
         IN  /\ e.source \in Ids(g) /\ e.target \in Ids(g)
             /\ ~EdgeIsRefused(NodeOf(g, e.source), NodeOf(g, e.target), e.handle)
    /\ \A i \in OfType(g, {"weighted"}) :
         LET dist == g.nodes[i].distribution
         IN  dist # <<>> => Weight(dist) = 100

(***************************************************************************)
(* The editors of the configuration panel: a row is added with a default,  *)
(* removed by its place, or replaced.                                      *)
(***************************************************************************)
\* find: at most one.
First(s) == IF s = <<>> THEN <<>> ELSE <<Head(s)>>

BlankText == [text |-> "", cast |-> "", js |-> NaN, php |-> 0]
NewCondition == [field |-> "country", operator |-> "eq", value |-> BlankText]

\* ConditionEditor; of the fields and operators it offers those the properties tell apart.
Field == {"country", "price", "recurring"}
Operator == {"eq", "neq", "gt", "lt", "gte", "lte"}
ConditionEdits(conditions, values) ==
    {Append(conditions, NewCondition)}
    \union {RemoveAt(conditions, i) : i \in DOMAIN conditions}
    \union {[conditions EXCEPT ![i].value = v] : i \in DOMAIN conditions, v \in values}
    \union {[conditions EXCEPT ![i].field = f] : i \in DOMAIN conditions, f \in Field}
    \union {[conditions EXCEPT ![i].operator = o] : i \in DOMAIN conditions, o \in Operator}

Unused(used) == SelectSeq(Provider, LAMBDA p : p \notin used)

\* WeightedEditor: the first provider not listed yet, with weight 0.
DistributionEdits(dist, weights) ==
    LET unused == Unused({dist[i].alias : i \in DOMAIN dist})
    IN  {Append(dist, [alias |-> p, weight |-> 0]) : p \in ToSet(First(unused))}
        \union {RemoveAt(dist, i) : i \in DOMAIN dist}
        \union {[dist EXCEPT ![i].weight = w] : i \in DOMAIN dist, w \in weights}
        \union {[dist EXCEPT ![i].alias = p] : i \in DOMAIN dist, p \in Aliases}

\* FailoverEditor
ChainEdits(chain) ==
    LET unused == Unused(ToSet(chain))
    IN  {Append(chain, p) : p \in ToSet(First(unused))}
        \union {RemoveAt(chain, i) : i \in DOMAIN chain}
        \union {[chain EXCEPT ![i] = p] : i \in DOMAIN chain, p \in Aliases}

(***************************************************************************)
(* The two simulators.  Both start at the first start node and follow one  *)
(* edge a step: the one with the decided handle, or the first there is.    *)
(***************************************************************************)
Outgoing(g, id) == SelectSeq(g.edges, LAMBDA e : e.source = id)

\* Fault: an amount at the limit is above it.
HoldsAtLimit(c, actual) ==
    IF c.operator = "gt" THEN NaN \notin {actual.js, c.value.js} /\ actual.js >= c.value.js
    ELSE actual.text = c.value.text

Compares(operator, a, b) ==
    CASE operator = "gt" -> a > b
      [] operator = "lt" -> a < b
      [] operator = "gte" -> a >= b
      [] operator = "lte" -> a <= b

\* clientSimulate's conditions: every one is compared, an empty one too.
ClientHolds(c, actual) ==
    CASE c.operator = "eq" -> actual.text = c.value.text
      [] c.operator = "neq" -> actual.text # c.value.text
      [] OTHER -> NaN \notin {actual.js, c.value.js} /\ Compares(c.operator, actual.js, c.value.js)

\* evaluateConditions: a condition without a value is passed over.
ServerHolds(c, actual) ==
    \/ c.value.text = ""
    \/ CASE c.operator = "eq" -> actual.cast = c.value.cast
         [] c.operator = "neq" -> actual.cast # c.value.cast
         [] OTHER -> Compares(c.operator, actual.php, c.value.php)

\* The condition nodes that every condition of theirs matches.
Conditional(g) == {n \in ToSet(g.nodes) : n.type = "condition"}
ClientMatches(g, input) ==
    {n \in Conditional(g) : \A i \in DOMAIN n.conditions : ClientHolds(n.conditions[i], input[n.conditions[i].field])}
ServerMatches(g, input) ==
    {n \in Conditional(g) : \A i \in DOMAIN n.conditions : ServerHolds(n.conditions[i], input[n.conditions[i].field])}

MaxSteps == 30
Handle(n, matches) ==
    CASE n.type = "provider" -> "success"
      [] n.type = "condition" -> IF n \in matches THEN "yes" ELSE "no"
      [] OTHER -> "first"

ByHandle(out, handle) == SelectSeq(out, LAMBDA e : e.handle = handle)

\* What comes after a node: the id of the next, or nothing.
Following(g, id, matches) ==
    LET n == NodeOf(g, id)
        out == Outgoing(g, id)
        decided == ByHandle(out, Handle(n, matches))
        taken == IF decided # <<>> THEN Head(decided).target ELSE Head(out).target
    IN  IF n.type \in Terminal \/ out = <<>> \/ taken \notin Ids(g) THEN <<>> ELSE <<taken>>

FirstStart(g) ==
    LET starts == SelectSeq(g.nodes, LAMBDA n : n.type = "start")
    IN  IF starts = <<>> THEN <<>> ELSE <<Head(starts).id>>

\* The path as the ids of its nodes.
Walk(g, matches) ==
    LET path[k \in 0..(MaxSteps - 1)] ==
          IF k = 0 THEN FirstStart(g)
          ELSE LET before == path[k - 1]
               IN  IF Len(before) < k THEN before
                   ELSE before \o Following(g, Last(before), matches)
    IN  path[MaxSteps - 1]

ClientSimulate(g, input) == Walk(g, ClientMatches(g, input))
ServerSimulate(g, input) == Walk(g, ServerMatches(g, input))
=============================================================================
