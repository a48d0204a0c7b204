------------------------------ MODULE MCWebPages ------------------------------
EXTENDS WebPages
CONSTANTS a, q1, d1, d2, d3, d4, x1, p, q, r, succeeded, o1, own

\* The store and the content service.
MCProducts == {a}
MCPrice == [x \in MCProducts |-> 2]
MCPayments == {q1}
MCDeliveries == {d1, d2, d3, d4}
MCDeletions == {x1}
MCPast == <<d4>>
MCPaymentOf == [d \in MCDeliveries |-> IF d \in {d1, d2} THEN p ELSE IF d = d3 THEN q ELSE r]

Link(s, t, h) == [source |-> s, target |-> t, handle |-> h]

\* Graphs of five nodes, their edges listed from the last to the first.
CanvasType == <<"start", "condition", "provider", "success", "failure">>
CanvasHandle == <<"output", "yes", "failure">>
CanvasNodes == [i \in 1..5 |-> [id |-> ToString(i), type |-> CanvasType[i]]]
CanvasLink(e) == Link(ToString(e[1]), ToString(e[2]), CanvasHandle[e[1]])
Backwards(es) ==
    LET s == SetToSortSeq(es, LAMBDA e, f : e[1] > f[1] \/ (e[1] = f[1] /\ e[2] > f[2]))
    IN  [i \in DOMAIN s |-> CanvasLink(s[i])]
MCGraphs == {[nodes |-> CanvasNodes, edges |-> Backwards(es \union {<<1, 2>>, <<3, 4>>})] :
               es \in SUBSET {<<1, 3>>, <<2, 3>>, <<3, 5>>}}
MCSpots == {[x |-> 0, y |-> 0]}

\* One occasion and the account's mailbox: the mails are independent of each other.
MCEventOf == [o \in Occasions |-> succeeded]
=============================================================================
