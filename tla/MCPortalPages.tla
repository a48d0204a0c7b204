---------------------------- MODULE MCPortalPages ----------------------------
EXTENDS PortalPages

\* Routes: one drawn in the builder, one of two providers in order, one numbered out of order.
Node(id, type, alias, weight, priority) ==
    [id |-> id, type |-> type, alias |-> alias, enabled |-> TRUE, weight |-> weight,
     priority |-> priority, distribution |-> <<>>]
Link(s, t, h) == [source |-> s, target |-> t, handle |-> h]
Drawn == [nodes |-> <<Node("s", "start", "", 0, 1), Node("na", "provider", "a", 100, 2), Node("ok", "success", "", 0, 3)>>,
          edges |-> <<Link("s", "na", "output"), Link("na", "ok", "success")>>]
Ordered == [nodes |-> <<Node("na", "provider", "a", 0, 1), Node("nb", "provider", "b", 0, 2)>>, edges |-> <<>>]
OutOfOrder == [nodes |-> <<Node("nb", "provider", "b", 0, 3), Node("na", "provider", "a", 0, 1)>>, edges |-> <<>>]
MCStored == {Drawn, Ordered, OutOfOrder}
MCEnv == {"test", "live"}
MCAliases == {"a", "b"}
MCShares == {0, 100}

\* Three entries on pages of two, of which a filter finds one.
MCEntries == <<"m1", "m2", "m3">>
MCMatches(f, e) == f = NoFilter \/ e = f

\* No endpoint, or two that are subscribed to the announcement, one of them to more.
MCFirstEndpoints == {<<>>, <<{"created", "succeeded"}, {"succeeded"}>>}
MCAnnounces == [n \in Announcements |-> "succeeded"]
=============================================================================
