----------------------------- MODULE MCRouting -----------------------------
\* Health: three coroutines and a threshold of two, so that one can hold the row lock
\* while a second fails and a third succeeds.
\* Engine: as in MCRoutingEngine.
\* Workflows: two requests at a time, two valid graphs and an invalid one, three versions: a
\* creation that dies before its snapshot leaves three numbers to publish, delete and use again.
\* Builder: a start or a provider to drop on a workflow stored empty, as a condition on the
\* price or on the checkbox with both branches, or as a cycle of a split and a failover chain
\* that never reaches its end.
EXTENDS Routing, MCRoutingEngine, TLC

Symmetry == Permutations(Coroutine) \union Permutations(Request) \union Permutations(Valid)

Text(text, js, php) == [text |-> text, cast |-> text, js |-> js, php |-> php]
US == Text("us", NaN, 0)
Ten == Text("10", 10, 10)
Hundred == Text("100", 100, 100)
Checked == [text |-> "true", cast |-> "1", js |-> NaN, php |-> 1]
Unchecked == [text |-> "false", cast |-> "", js |-> NaN, php |-> 0]

New(id, type) ==
    [id |-> id, type |-> type, alias |-> NoAlias,
     conditions |-> <<>>, distribution |-> <<>>, chain |-> <<>>]
Chosen(id, alias) == [New(id, "provider") EXCEPT !.alias = alias]
If(id, field, op, value) ==
    [New(id, "condition") EXCEPT !.conditions = <<[field |-> field, operator |-> op, value |-> value]>>]
Edge(s, t, h) == [source |-> s, target |-> t, handle |-> h]

StartNode == New("s", "start")
Split == [New("w", "weighted") EXCEPT !.distribution = <<[alias |-> "paypal", weight |-> 100]>>]
Fallback == [New("f", "failover") EXCEPT !.chain = <<"stripe">>]
Ok == New("ok", "success")
Ko == New("ko", "failure")

Branch(condition) ==
    [nodes |-> <<StartNode, condition, Chosen("p", "stripe"), Ok, Ko>>,
     edges |-> <<Edge("s", "c", "output"), Edge("c", "p", "yes"), Edge("c", "ko", "no"),
                 Edge("p", "ok", "success")>>]
Cycle ==
    [nodes |-> <<StartNode, Split, Fallback, Ok>>,
     edges |-> <<Edge("s", "w", "output"), Edge("w", "f", "output"), Edge("f", "w", "output")>>]

MCInitialGraph ==
    {NoGraph, Branch(If("c", "price", "gt", Ten)), Branch(If("c", "recurring", "eq", Text("true", NaN, 0))), Cycle}
MCNode == {StartNode, Chosen("n", NoAlias)}
MCValues == {US, Hundred}
MCInputs ==
    {[country |-> US, price |-> Ten, recurring |-> Unchecked],
     [country |-> Text("de", NaN, 0), price |-> Hundred, recurring |-> Checked],
     [country |-> US, price |-> Text("", NaN, 0), recurring |-> Unchecked]}
MCProvider == <<"paypal", "stripe">>
=============================================================================
