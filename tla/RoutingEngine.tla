---------------------------- MODULE RoutingEngine ----------------------------
(***************************************************************************)
(* PaymentRoutingEngine.plan (payments/app/routing/engine.py): the order in*)
(* which create tries the providers.  The coroutine awaits is_available for*)
(* one connected provider after the other, and then decides without        *)
(* another await from the rules and the configuration it reads.            *)
(*                                                                         *)
(* The chains, weights and conditions are JSONB columns declared as Text:  *)
(* the driver has parsed them already, str() renders the Python value, and *)
(* that is JSON again only when it is empty.  A rule's conditions are      *)
(* abstracted to what they say of the request: "blank" (nothing asked),    *)
(* "met" or "unmet".                                                       *)
(***************************************************************************)
EXTENDS Integers, SequencesExt

CONSTANTS
    ByName,       \* every provider alias, in the order of Provider.alias
    Chain,        \* what priority_chain and failover_chain may hold
    Weights,      \* what weighted_distribution may hold
    RuleList,     \* the enabled rules by ascending priority
    Token,        \* the hash of event, order and idempotency key
    None

Alias == ToSet(ByName)

\* providers.alias is unique; a weight below zero counts as none.
ASSUME NamesAssumption == IsInjective(ByName) /\ ByName \in Seq(Alias) /\ None \notin Alias
ASSUME WeightsAssumption == Weights \subseteq [Alias -> Nat]
ASSUME RulesAssumption ==
    RuleList \subseteq Seq([alias : Alias, conditions : {"blank", "met", "unmet"}])

Configuration ==
    [enabled : BOOLEAN, strategy : {"priority", "weighted"},
     priority_chain : Chain, failover_chain : Chain, weighted_distribution : Weights]

VARIABLES
    requested,    \* the alias the request pins, or None
    available,    \* the connected providers
    asked,        \* how many of them were asked about
    filtered,     \* those that were available
    plan,         \* the answer
    read          \* what the decision was taken from

engineVars == <<requested, available, asked, filtered, plan, read>>

NoPlan == [strategy |-> "none", candidates |-> <<>>, matched_rule |-> 0]
NothingRead == [rules |-> <<>>, config |-> None, token |-> 0]

\* [s for s in sequence if s in S]
Within(sequence, S) ==
    LET kept[n \in 0..Len(sequence)] ==
          IF n = 0 THEN <<>>
          ELSE IF sequence[n] \in S THEN Append(kept[n - 1], sequence[n])
          ELSE kept[n - 1]
    IN  kept[Len(sequence)]

EngineTypeOK ==
    /\ requested \in Alias \union {None}
    /\ available \in Seq(Alias)
    /\ asked \in 0..Len(available)
    /\ filtered \in Seq(Alias)
    /\ plan.strategy \in {"none", "unavailable", "health_blocked", "conditional", "priority", "weighted"}
    /\ plan.candidates \in Seq(Alias)
    /\ plan.matched_rule \in 0..Len(read.rules)

EngineInit ==
    /\ requested \in Alias \union {None}
    /\ \E connected \in SUBSET Alias : available = Within(ByName, connected)
    /\ asked = 0
    /\ filtered = <<>>
    /\ plan = NoPlan
    /\ read = NothingRead

-----------------------------------------------------------------------------
(***************************************************************************)
(* Conversions and orderings                                               *)
(***************************************************************************)

\* _json_list(str(value)) of a parsed list, _json_object(str(value)) of a parsed
\* object, and what _matches makes of the conditions that are left.
DecodedList(value) == <<>>
DecodedWeights(value) == [a \in Alias |-> 0]
DecodedConditions(value) == "blank"

Matches(conditions) == conditions # "unmet"

\* _put_first
PutFirst(candidates, alias) ==
    Within(candidates, {alias}) \o Within(candidates, ToSet(candidates) \ {alias})

\* The candidates named in a list, each once, in the order of the list.
Named(names, candidates) ==
    LET ordered[n \in 0..Len(names)] ==
          IF n = 0 THEN <<>>
          ELSE IF names[n] \in ToSet(candidates) \ ToSet(ordered[n - 1])
               THEN Append(ordered[n - 1], names[n])
          ELSE ordered[n - 1]
    IN  ordered[Len(names)]

\* Fault: candidates nobody named are forgotten.
OrderNamedOnly(candidates, aliases) == Named(aliases, candidates)

\* _order_by_aliases: the candidates that are named, then the others.
OrderByAliases(candidates, aliases) == Named(aliases \o candidates, candidates)

\* The cursor of _weighted_order after each of the candidates.
Cursor(candidates, weights) ==
    LET cursor[n \in 0..Len(candidates)] ==
          IF n = 0 THEN 0 ELSE cursor[n - 1] + weights[candidates[n]]
    IN  cursor

Total(candidates, weights) == Cursor(candidates, weights)[Len(candidates)]

Weighted(candidates, weights) == Within(candidates, {a \in Alias : weights[a] > 0})

\* _weighted_order: the first candidate whose cursor passes the token's bucket.
WeightedOrder(candidates, weights, token) ==
    LET weighted == Weighted(candidates, weights)
        cursor == Cursor(weighted, weights)
        bucket == token % Total(weighted, weights)
        selected == CHOOSE n \in DOMAIN weighted :
                      bucket < cursor[n] /\ \A m \in 1..(n - 1) : bucket >= cursor[m]
    IN  IF weighted = <<>> THEN candidates ELSE PutFirst(candidates, weighted[selected])

\* _with_failover
WithFailover(base, config) ==
    OrderByAliases(base, base \o (IF config = None THEN <<>> ELSE DecodedList(config.failover_chain)))

FirstMatch(rules) ==
    LET matching == {k \in DOMAIN rules : Matches(DecodedConditions(rules[k].conditions))}
    IN  IF matching = {} THEN 0 ELSE CHOOSE k \in matching : \A j \in matching : k <= j

-----------------------------------------------------------------------------
(***************************************************************************)
(* plan                                                                    *)
(***************************************************************************)

Planning == plan = NoPlan
Connected == available # <<>> /\ requested \in ToSet(available) \union {None}

\* No provider, or not the one the request pins, has credentials.
Unavailable ==
    /\ Planning /\ ~Connected
    /\ plan' = [NoPlan EXCEPT !.strategy = "unavailable"]
    /\ UNCHANGED <<requested, available, asked, filtered, read>>

\* await health.is_available for the next candidate
Ask ==
    /\ Planning /\ Connected
    /\ asked < Len(available)
    /\ asked' = asked + 1
    /\ filtered' \in {filtered, Append(filtered, available[asked + 1])}
    /\ UNCHANGED <<requested, available, plan, read>>

Blocked ==
    /\ Planning /\ Connected
    /\ asked = Len(available) /\ filtered = <<>>
    /\ plan' = [NoPlan EXCEPT !.strategy = "health_blocked"]
    /\ UNCHANGED <<requested, available, asked, filtered, read>>

\* The candidates the configuration yields, without rules.
Configured(config, token) ==
    IF config = None \/ ~config.enabled
    THEN [strategy |-> "priority", matched_rule |-> 0,
          candidates |-> OrderByAliases(filtered,
                           IF requested # None THEN <<requested>> ELSE <<"stripe", "paypal">>)]
    ELSE [strategy |-> config.strategy, matched_rule |-> 0,
          candidates |-> WithFailover(
            IF config.strategy = "weighted"
            THEN PutFirst(WeightedOrder(filtered, DecodedWeights(config.weighted_distribution), token),
                          requested)
            ELSE OrderByAliases(filtered, <<requested>> \o DecodedList(config.priority_chain)),
            config)]

Decide ==
    /\ Planning /\ Connected
    /\ asked = Len(available) /\ filtered # <<>>
    /\ \E rules \in RuleList, config \in Configuration \union {None}, token \in Token :
         /\ read' = [rules |-> rules, config |-> config, token |-> token]
         /\ LET k == FirstMatch(rules) IN
            plan' = IF k = 0 THEN Configured(config, token)
                    ELSE [strategy |-> "conditional", matched_rule |-> k,
                          candidates |-> WithFailover(
                            PutFirst(filtered, IF requested # None THEN requested ELSE rules[k].alias),
                            config)]
    /\ UNCHANGED <<requested, available, asked, filtered>>

EngineNext == Unavailable \/ Ask \/ Blocked \/ Decide

EngineSpec == EngineInit /\ [][EngineNext]_engineVars

-----------------------------------------------------------------------------
(***************************************************************************)
(* Properties                                                              *)
(***************************************************************************)

Decided == plan.strategy \in {"conditional", "priority", "weighted"}

\* Whichever strategy decides, the failover loop tries every provider that answered
\* as healthy, each once, and no other.
CandidatesAreFiltered ==
    Decided => /\ ToSet(plan.candidates) = ToSet(filtered)
               /\ Len(plan.candidates) = Len(filtered)

(***************************************************************************)
(* What the documentation says and the code does not do                    *)
(***************************************************************************)

\* docs/ARCHITECTURE.md:351: weighted routing selects by the percentage weights and the
\* transaction's hash.
WeightsDecide ==
    plan.strategy = "weighted" /\ requested = None =>
      Head(plan.candidates) = Head(WeightedOrder(filtered, read.config.weighted_distribution, read.token))
=============================================================================
