-------------------------- MODULE MCRoutingEngine --------------------------
\* Three providers, any of them connected and healthy; chains that reorder, omit and
\* name them; a weight of zero, equal and unequal weights; rules that match, do not
\* match and ask nothing.
EXTENDS RoutingEngine

MCByName == <<"klarna", "paypal", "stripe">>
MCChain == {<<>>, <<"stripe", "klarna">>, <<"paypal">>}
MCWeights == {[klarna |-> 0, paypal |-> 1, stripe |-> 2],
              [klarna |-> 1, paypal |-> 1, stripe |-> 1],
              [klarna |-> 0, paypal |-> 0, stripe |-> 0]}

Rule(a, c) == [alias |-> a, conditions |-> c]
MCRuleList == {<<>>,
               <<Rule("stripe", "met")>>,
               <<Rule("klarna", "unmet")>>,
               <<Rule("klarna", "unmet"), Rule("stripe", "met")>>,
               <<Rule("klarna", "unmet"), Rule("paypal", "blank")>>}
=============================================================================
