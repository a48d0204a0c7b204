------------------------ MODULE WorkflowEditorProofs ------------------------
(***************************************************************************)
(* Proofs about WorkflowEditor, for any graphs, nodes, texts and number of *)
(* changes and visits: what the admin sees as saved is what the server     *)
(* has, and the panel's simulation leaves the server's path only where the *)
(* conditions are read differently.  The inductive invariant says what the *)
(* graphs are made of and what the requests on their way, those of         *)
(* interrupted visits too, will store.  The simulation is a recursive      *)
(* function: its paths are compared by induction over the steps, with the  *)
(* lemmas on recursion of RoutingEngineProofs.                             *)
(***************************************************************************)
EXTENDS RoutingEngineProofs

----------------------------------------------------------------------------
\* Sequences: what they hold is what matters.
LEMMA OwnElements ==
  ASSUME NEW S, NEW s \in Seq(S)
  PROVE  s \in Seq(ToSet(s)) /\ ToSet(s) \subseteq S /\ \A i \in DOMAIN s : s[i] \in ToSet(s)
BY DEF ToSet

LEMMA AppendList ==
  ASSUME NEW s, s \in Seq(ToSet(s)), NEW x
  PROVE  /\ Append(s, x) \in Seq(ToSet(Append(s, x))) /\ ToSet(Append(s, x)) \subseteq ToSet(s) \union {x}
         /\ DOMAIN s \subseteq DOMAIN Append(s, x)
<1> DEFINE S == ToSet(s) \union {x}
<1>1. s \in Seq(S) /\ x \in S
  <2>1. ToSet(s) \subseteq S
    OBVIOUS
  <2> HIDE DEF S
  <2> QED
    BY <2>1 DEF S
<1> HIDE DEF S
<1>2. Append(s, x) \in Seq(S) /\ DOMAIN s \subseteq DOMAIN Append(s, x)
  BY <1>1
<1> QED
  BY <1>2, OwnElements DEF S

LEMMA RemoveList ==
  ASSUME NEW s, s \in Seq(ToSet(s)), NEW i \in DOMAIN s
  PROVE  RemoveAt(s, i) \in Seq(ToSet(RemoveAt(s, i))) /\ ToSet(RemoveAt(s, i)) \subseteq ToSet(s)
<1> DEFINE S == ToSet(s)
<1>1. s \in Seq(S)
  OBVIOUS
<1> HIDE DEF S
<1>2. RemoveAt(s, i) \in Seq(S)
  BY <1>1 DEF RemoveAt
<1> QED
  BY <1>2, OwnElements DEF S

LEMMA ReplaceList ==
  ASSUME NEW s, s \in Seq(ToSet(s)), NEW i \in DOMAIN s, NEW x, NEW t, t = [s EXCEPT ![i] = x]
  PROVE  t \in Seq(ToSet(t)) /\ ToSet(t) \subseteq ToSet(s) \union {x}
<1> DEFINE S == ToSet(s) \union {x}
<1>1. s \in Seq(S) /\ x \in S
  <2>1. ToSet(s) \subseteq S
    OBVIOUS
  <2> HIDE DEF S
  <2> QED
    BY <2>1 DEF S
<1> HIDE DEF S
<1>2. t \in Seq(S)
  BY <1>1
<1> QED
  BY <1>2, OwnElements DEF S

----------------------------------------------------------------------------
\* The panel leaves a node a node.
LEMMA EditedConditions ==
  ASSUME NEW cs, cs \in Seq(ToSet(cs)), \A c \in ToSet(cs) : IsCondition(c), NEW new \in ConditionEdits(cs, Values)
  PROVE  new \in Seq(ToSet(new)) /\ \A c \in ToSet(new) : IsCondition(c)
<1>1. CASE new = Append(cs, NewCondition)
  <2>1. IsCondition(NewCondition)
    BY DEF IsCondition, NewCondition, ReadAlike, BlankText, Field
  <2> QED
    BY <1>1, <2>1, AppendList
<1>2. ASSUME NEW i \in DOMAIN cs, new = RemoveAt(cs, i) PROVE new \in Seq(ToSet(new)) /\ \A c \in ToSet(new) : IsCondition(c)
  BY <1>2, RemoveList
<1>3. ASSUME NEW i \in DOMAIN cs, NEW x, IsCondition(x), new = [cs EXCEPT ![i] = x]
      PROVE  new \in Seq(ToSet(new)) /\ \A c \in ToSet(new) : IsCondition(c)
  <2>1. new \in Seq(ToSet(new)) /\ ToSet(new) \subseteq ToSet(cs) \union {x}
    BY <1>3, ReplaceList
  <2> QED
    BY <1>3, <2>1
<1>4. ASSUME NEW i \in DOMAIN cs PROVE IsCondition(cs[i])
  BY DEF ToSet
<1>5. ASSUME NEW i \in DOMAIN cs, NEW v \in Values, new = [cs EXCEPT ![i].value = v]
      PROVE  new \in Seq(ToSet(new)) /\ \A c \in ToSet(new) : IsCondition(c)
  <2>1. PICK x : x = [cs[i] EXCEPT !.value = v]
    OBVIOUS
  <2>2. IsCondition(x)
    BY <1>4, <2>1, TextAssumption DEF IsCondition
  <2> QED
    BY <1>3, <1>5, <2>1, <2>2
<1>6. ASSUME NEW i \in DOMAIN cs, NEW f \in Field, new = [cs EXCEPT ![i].field = f]
      PROVE  new \in Seq(ToSet(new)) /\ \A c \in ToSet(new) : IsCondition(c)
  <2>1. PICK x : x = [cs[i] EXCEPT !.field = f]
    OBVIOUS
  <2>2. IsCondition(x)
    BY <1>4, <2>1 DEF IsCondition
  <2> QED
    BY <1>3, <1>6, <2>1, <2>2
<1>7. ASSUME NEW i \in DOMAIN cs, NEW o \in Operator, new = [cs EXCEPT ![i].operator = o]
      PROVE  new \in Seq(ToSet(new)) /\ \A c \in ToSet(new) : IsCondition(c)
  <2>1. PICK x : x = [cs[i] EXCEPT !.operator = o]
    OBVIOUS
  <2>2. IsCondition(x)
    BY <1>4, <2>1 DEF IsCondition
  <2> QED
    BY <1>3, <1>7, <2>1, <2>2
<1> QED
  BY <1>1, <1>2, <1>5, <1>6, <1>7 DEF ConditionEdits

LEMMA EditedNode ==
  ASSUME NEW n, IsNode(n), NEW new \in Edited(n)
  PROVE  IsNode(new)
<1>1. CASE n.type = "condition"
  <2>1. PICK cs \in ConditionEdits(n.conditions, Values) : new = [n EXCEPT !.conditions = cs]
    BY <1>1 DEF Edited
  <2>2. cs \in Seq(ToSet(cs)) /\ \A c \in ToSet(cs) : IsCondition(c)
    BY EditedConditions DEF IsNode
  <2> QED
    BY <2>1, <2>2 DEF IsNode
<1>2. CASE n.type # "condition"
  <2>1. \E x : new = [n EXCEPT !.alias = x] \/ new = [n EXCEPT !.distribution = x] \/ new = [n EXCEPT !.chain = x]
    <3>1. CASE n.type = "provider"
      BY <3>1 DEF Edited
    <3>2. CASE n.type = "weighted"
      BY <3>2 DEF Edited
    <3>3. CASE n.type = "failover"
      BY <3>3 DEF Edited
    <3> QED
      BY <1>2, <3>1, <3>2, <3>3 DEF Edited
  <2> QED
    BY <2>1 DEF IsNode
<1> QED
  BY <1>1, <1>2

\* Whatever is done on it, the canvas is a graph.
LEMMA CanvasIsGraph ==
  ASSUME IsGraph(canvas), Edit
  PROVE  IsGraph(canvas')
<1>1. ASSUME NEW n \in Node, Drop(n) PROVE IsGraph(canvas')
  <2>1. canvas' = [canvas EXCEPT !.nodes = Append(canvas.nodes, n)]
    BY <1>1 DEF Drop
  <2>2. {"nodes", "edges"} \subseteq DOMAIN canvas' /\ canvas'.nodes = Append(canvas.nodes, n)
    BY <2>1 DEF IsGraph
  <2> QED
    BY <2>2, AppendList, DrawingAssumption DEF IsGraph
<1>2. ASSUME NEW edges, canvas' = [canvas EXCEPT !.edges = edges] PROVE IsGraph(canvas')
  BY <1>2 DEF IsGraph
<1>3. ASSUME NEW i \in DOMAIN canvas.nodes, NEW n \in Edited(canvas.nodes[i]), canvas' = [canvas EXCEPT !.nodes[i] = n]
      PROVE  IsGraph(canvas')
  <2>1. IsNode(n)
    BY EditedNode DEF IsGraph, ToSet
  <2>2. PICK nodes : nodes = [canvas.nodes EXCEPT ![i] = n]
    OBVIOUS
  <2>3. nodes \in Seq(ToSet(nodes)) /\ \A m \in ToSet(nodes) : IsNode(m)
    <3>1. nodes \in Seq(ToSet(nodes)) /\ ToSet(nodes) \subseteq ToSet(canvas.nodes) \union {n}
      <4>1. PICK old : old = canvas.nodes
        OBVIOUS
      <4>2. old \in Seq(ToSet(old)) /\ i \in DOMAIN old /\ nodes = [old EXCEPT ![i] = n]
        BY <2>2, <4>1 DEF IsGraph
      <4> QED
        BY <4>1, <4>2, ReplaceList
    <3> QED
      BY <2>1, <3>1 DEF IsGraph
  <2> QED
    BY <1>3, <2>2, <2>3 DEF IsGraph
<1>4. ASSUME NEW i \in DOMAIN canvas.nodes, DeleteNode(i) PROVE IsGraph(canvas')
  BY <1>4, RemoveList DEF DeleteNode, Without, IsGraph
<1>5. ASSUME NEW id, Drag(id) PROVE IsGraph(canvas')
  BY <1>5 DEF Drag
<1> QED
  BY <1>1, <1>2, <1>3, <1>4, <1>5 DEF Edit, Connect, DeleteEdge, UpdateNodeData

----------------------------------------------------------------------------
\* Every graph there is can be simulated, and a version that is asked for exists.
GraphsInv ==
    /\ IsGraph(canvas)
    /\ {"graph", "at", "layout", "status"} \subseteq DOMAIN stored /\ IsGraph(stored.graph)
    /\ snapshots \in Seq(ToSet(snapshots))
    /\ \A v \in ToSet(snapshots) : {"graph", "at", "status"} \subseteq DOMAIN v /\ IsGraph(v.graph)
    /\ DOMAIN shown.versions \subseteq DOMAIN snapshots
    /\ \A r \in inbox : /\ r.kind = "save" => IsGraph(r.graph)
                        /\ r.kind = "rollback" => r.version \in DOMAIN snapshots

\* What is known to be saved is what is stored, and nothing is on its way that would replace it; what
\* is being saved is what the only request on its way will store, or what it has stored.
SavedInv ==
    ~overtaken =>
      /\ unsaved = "no" => (Underway = {} /\ canvas = stored.graph)
      /\ unsaved = "sent" =>
           /\ \A r \in Underway : r.kind = "save" /\ r.graph = canvas
           /\ \A r, q \in Underway : r = q
           /\ \A a \in answered : (a.kind = "save" /\ a.ok) => (Underway = {} /\ canvas = stored.graph)

EditorInv == GraphsInv /\ SavedInv

LEMMA EditorInitHolds == EditorInit => EditorInv
<1> SUFFICES ASSUME EditorInit PROVE EditorInv
  OBVIOUS
<1>1. PICK g \in InitialGraph :
        /\ stored = [graph |-> g, at |-> [id \in Ids(g) |-> 0], layout |-> NoLayout, status |-> "draft"]
        /\ snapshots = <<[status |-> "draft", graph |-> g, at |-> [id \in Ids(g) |-> 0]]>>
  BY DEF EditorInit
<1>2. IsGraph(g) /\ canvas = g /\ stored.graph = g /\ {"graph", "at", "layout", "status"} \subseteq DOMAIN stored
  BY <1>1, DrawingAssumption DEF EditorInit
<1>3. snapshots \in Seq(ToSet(snapshots)) /\ \A v \in ToSet(snapshots) : {"graph", "at", "status"} \subseteq DOMAIN v /\ IsGraph(v.graph)
  <2>1. PICK v : v = [status |-> "draft", graph |-> g, at |-> [id \in Ids(g) |-> 0]]
    OBVIOUS
  <2>2. {"graph", "at", "status"} \subseteq DOMAIN v /\ v.graph = g
    BY <2>1
  <2>3. snapshots = <<v>>
    BY <1>1, <2>1
  <2>4. <<v>> \in Seq({v})
    OBVIOUS
  <2>5. snapshots \in Seq(ToSet(snapshots)) /\ ToSet(snapshots) \subseteq {v}
    BY <2>3, <2>4, OwnElements
  <2> QED
    BY <1>2, <2>2, <2>5
<1>4. shown.versions = snapshots /\ inbox = {} /\ answered = {} /\ Underway = {}
  BY DEF EditorInit, Underway
<1> QED
  BY <1>2, <1>3, <1>4 DEF EditorInv, GraphsInv, SavedInv

\* Drawing: nothing is sent, and what was saved no longer counts.
LEMMA DrawingSteps ==
  ASSUME EditorInv, Edit
  PROVE  EditorInv'
<1>1. UNCHANGED <<shown, stored, snapshots, inbox, answered, overtaken, Underway>>
  BY DEF Edit, Drop, Connect, UpdateNodeData, DeleteNode, DeleteEdge, Drag, Redrawing, Editing, server, network, Underway
<1>2. unsaved' = "yes" \/ (unsaved' = unsaved /\ canvas' = canvas)
  BY DEF Edit, Drop, Connect, UpdateNodeData, DeleteNode, DeleteEdge, Drag, Redrawing
<1>3. IsGraph(canvas')
  BY CanvasIsGraph DEF EditorInv, GraphsInv
<1>4. GraphsInv'
  BY <1>1, <1>3 DEF EditorInv, GraphsInv
<1>5. SavedInv'
  BY <1>1, <1>2 DEF EditorInv, SavedInv
<1> QED
  BY <1>4, <1>5 DEF EditorInv

\* A request is sent.  A save overtakes those on their way, a roll back leaves nothing known to be saved.
LEMMA SendKeeps ==
  ASSUME EditorInv, NEW kind, NEW graph, NEW where, NEW layout, NEW version, Send(kind, graph, where, layout, version),
         kind = "save" => graph = canvas /\ unsaved' = "sent" /\ overtaken' = (Underway # {}),
         kind = "rollback" => unsaved' = "yes" /\ version \in DOMAIN snapshots,
         kind \notin {"save", "rollback"} => UNCHANGED <<unsaved, overtaken>>
  PROVE  EditorInv'
<1>1. PICK r : r = NewRequest(kind, graph, where, layout, version)
  OBVIOUS
<1>2. r.kind = kind /\ r.graph = graph /\ r.version = version
  BY <1>1 DEF NewRequest
<1>3. /\ UNCHANGED <<canvas, shown, stored, snapshots>>
      /\ inbox' = inbox \union {r} /\ answered' = {}
  BY <1>1 DEF Send, drawing, server
<1>4. GraphsInv'
  BY <1>2, <1>3 DEF EditorInv, GraphsInv
<1>5. Underway' = IF kind \in {"save", "rollback"} THEN Underway \union {r} ELSE Underway
  BY <1>2, <1>3 DEF Underway
<1>6. SavedInv'
  <2>1. CASE kind = "save"
    <3>1. unsaved' = "sent" /\ (~overtaken' => Underway = {})
      BY <2>1, Zenon
    <3>2. Underway = {} => Underway' = {r}
      BY <1>5, <2>1
    <3> QED
      BY <1>2, <1>3, <2>1, <3>1, <3>2 DEF SavedInv
  <2>2. CASE kind = "rollback"
    BY <2>2 DEF SavedInv
  <2>3. CASE kind \notin {"save", "rollback"}
    BY <1>3, <1>5, <2>3 DEF EditorInv, SavedInv
  <2> QED
    BY <2>1, <2>2, <2>3
<1> QED
  BY <1>4, <1>6 DEF EditorInv

LEMMA ClickSteps ==
  ASSUME EditorInv, Click
  PROVE  EditorInv'
<1>1. CASE SaveLayout
  BY <1>1, SendKeeps DEF SaveLayout, history
<1>2. CASE ResetLayout
  BY <1>2, SendKeeps DEF ResetLayout, history
<1>3. CASE SaveDraft
  BY <1>3, SendKeeps DEF SaveDraft
<1>4. CASE Publish
  BY <1>4, SendKeeps DEF Publish, history
<1>5. ASSUME NEW v \in DOMAIN shown.versions, Rollback(v) PROVE EditorInv'
  <2>1. v \in DOMAIN snapshots
    BY DEF EditorInv, GraphsInv
  <2> QED
    BY <1>5, <2>1, SendKeeps DEF Rollback
<1> QED
  BY <1>1, <1>2, <1>3, <1>4, <1>5 DEF Click

----------------------------------------------------------------------------
\* The server only adds snapshots, and stores graphs it was sent or had.
LEMMA ServedGraphs ==
  ASSUME GraphsInv, NEW r \in inbox, NEW ok, Effect(r, ok)
  PROVE  /\ {"graph", "at", "layout", "status"} \subseteq DOMAIN stored' /\ IsGraph(stored'.graph)
         /\ snapshots' \in Seq(ToSet(snapshots')) /\ DOMAIN snapshots \subseteq DOMAIN snapshots'
         /\ \A v \in ToSet(snapshots') : {"graph", "at", "status"} \subseteq DOMAIN v /\ IsGraph(v.graph)
         /\ r.kind \notin {"save", "rollback"} => stored'.graph = stored.graph
         /\ r.kind = "save" => stored'.graph = IF ok THEN r.graph ELSE stored.graph
<1> DEFINE Fine(v) == {"graph", "at", "status"} \subseteq DOMAIN v /\ IsGraph(v.graph)
<1>1. /\ {"graph", "at", "layout", "status"} \subseteq DOMAIN stored /\ IsGraph(stored.graph)
      /\ snapshots \in Seq(ToSet(snapshots)) /\ \A v \in ToSet(snapshots) : Fine(v)
  BY DEF GraphsInv
<1>2. ASSUME NEW status, NEW graph, NEW where, Stores(status, graph, where)
      PROVE  {"graph", "at", "layout", "status"} \subseteq DOMAIN stored' /\ stored'.graph = graph
  BY <1>1, <1>2 DEF Stores
<1>3. CASE r.kind \in {"layout", "reset"}
  <2>1. stored' = [stored EXCEPT !.layout = r.layout] /\ snapshots' = snapshots
    BY <1>3 DEF Effect
  <2>2. {"graph", "at", "layout", "status"} \subseteq DOMAIN stored' /\ stored'.graph = stored.graph
    BY <1>1, <2>1
  <2> QED
    BY <1>1, <1>3, <2>1, <2>2
<1>4. CASE r.kind = "save"
  <2>1. snapshots' = snapshots /\ IsGraph(r.graph)
    BY <1>4 DEF Effect, GraphsInv
  <2>2. IF ok THEN Stores("draft", r.graph, r.at) ELSE stored' = stored
    BY <1>4 DEF Effect
  <2> QED
    BY <1>1, <1>2, <1>4, <2>1, <2>2
<1>5. CASE r.kind = "publish"
  <2>1. CASE ~ok
    BY <1>1, <1>5, <2>1 DEF Effect
  <2>2. CASE ok
    <3>1. PICK v : v = [status |-> "published", graph |-> stored.graph, at |-> stored.at]
      OBVIOUS
    <3>2. Fine(v)
      BY <1>1, <3>1
    <3>3. snapshots' = Append(Retired, v) /\ Stores("published", stored.graph, stored.at)
      BY <1>5, <2>2, <3>1 DEF Effect
    <3>4. Retired \in Seq(ToSet(Retired)) /\ DOMAIN Retired = DOMAIN snapshots /\ \A x \in ToSet(Retired) : Fine(x)
      <4> DEFINE S == {Retired[i] : i \in DOMAIN snapshots}
      <4>1. Len(snapshots) \in Nat /\ DOMAIN snapshots = 1..Len(snapshots)
        <5> DEFINE V == ToSet(snapshots)
        <5>1. snapshots \in Seq(V)
          BY <1>1
        <5> HIDE DEF V
        <5> QED
          BY <5>1
      <4>2. Retired \in [1..Len(snapshots) -> S]
        BY <4>1 DEF Retired
      <4>3. \A i \in DOMAIN snapshots : Fine(Retired[i])
        <5> SUFFICES ASSUME NEW i \in DOMAIN snapshots PROVE Fine(Retired[i])
          OBVIOUS
        <5>1. Fine(snapshots[i])
          BY <1>1 DEF ToSet
        <5>2. PICK w : w = [snapshots[i] EXCEPT !.status = "archived"]
          OBVIOUS
        <5>3. Fine(w)
          BY <5>1, <5>2
        <5> QED
          BY <5>1, <5>2, <5>3 DEF Retired
      <4>4. \A x \in S : Fine(x)
        BY <4>3
      <4> HIDE DEF S
      <4>5. Retired \in Seq(S)
        BY <4>1, <4>2
      <4> QED
        BY <4>4, <4>5, OwnElements DEF Retired
    <3> HIDE DEF Fine
    <3> QED
      BY <1>1, <1>2, <1>5, <3>2, <3>3, <3>4, AppendList DEF Fine
  <2> QED
    BY <2>1, <2>2
<1>6. CASE r.kind = "rollback"
  <2>1. r.version \in DOMAIN snapshots
    BY <1>6 DEF GraphsInv
  <2>2. Fine(snapshots[r.version])
    BY <1>1, <2>1 DEF ToSet
  <2>3. PICK v : v = [snapshots[r.version] EXCEPT !.status = "draft"]
    OBVIOUS
  <2>4. Fine(v)
    BY <2>2, <2>3
  <2>5. snapshots' = Append(snapshots, v) /\ Stores("draft", snapshots[r.version].graph, snapshots[r.version].at)
    BY <1>6, <2>3 DEF Effect
  <2>6. stored'.graph = snapshots[r.version].graph /\ {"graph", "at", "layout", "status"} \subseteq DOMAIN stored'
    BY <1>2, <2>5
  <2>7. IsGraph(stored'.graph)
    BY <2>2, <2>6
  <2> HIDE DEF Fine
  <2>8. snapshots' \in Seq(ToSet(snapshots')) /\ DOMAIN snapshots \subseteq DOMAIN snapshots' /\ \A x \in ToSet(snapshots') : Fine(x)
    BY <1>1, <2>4, <2>5, AppendList
  <2> QED
    BY <1>6, <2>6, <2>7, <2>8 DEF Fine
<1> QED
  BY <1>3, <1>4, <1>5, <1>6 DEF Effect

LEMMA ServeSteps ==
  ASSUME EditorInv, NEW r \in inbox, Serve(r)
  PROVE  EditorInv'
<1>1. PICK ok \in BOOLEAN :
        Effect(r, ok) /\ answered' = IF r.no = visit THEN {[no |-> r.no, kind |-> r.kind, ok |-> ok]} ELSE answered
  BY DEF Serve
<1>2. UNCHANGED <<canvas, shown, unsaved, overtaken>> /\ inbox' = inbox \ {r}
  BY DEF Serve, drawing, history
<1>3. PICK a : a = [no |-> r.no, kind |-> r.kind, ok |-> ok]
  OBVIOUS
<1>4. a.kind = r.kind /\ a.ok = ok /\ answered' \in {{a}, answered}
  BY <1>1, <1>3
<1>5. /\ {"graph", "at", "layout", "status"} \subseteq DOMAIN stored' /\ IsGraph(stored'.graph)
      /\ snapshots' \in Seq(ToSet(snapshots')) /\ DOMAIN snapshots \subseteq DOMAIN snapshots'
      /\ \A v \in ToSet(snapshots') : {"graph", "at", "status"} \subseteq DOMAIN v /\ IsGraph(v.graph)
      /\ r.kind \notin {"save", "rollback"} => stored'.graph = stored.graph
      /\ r.kind = "save" => stored'.graph = IF ok THEN r.graph ELSE stored.graph
  BY <1>1, ServedGraphs DEF EditorInv
<1>6. GraphsInv'
  BY <1>2, <1>5 DEF EditorInv, GraphsInv
<1>7. Underway' = Underway \ {r}
  BY <1>2 DEF Underway
<1>8. SavedInv'
  <2>1. CASE r.kind \in {"save", "rollback"}
    <3>1. r \in Underway
      BY <2>1 DEF Underway
    <3>2. (~overtaken /\ unsaved = "sent") =>
            /\ r.kind = "save" /\ r.graph = canvas /\ Underway' = {}
            /\ \A b \in answered : ~(b.kind = "save" /\ b.ok)
      BY <1>7, <3>1 DEF EditorInv, SavedInv
    <3> QED
      BY <1>2, <1>4, <1>5, <1>7, <3>1, <3>2 DEF EditorInv, SavedInv
  <2>2. CASE r.kind \notin {"save", "rollback"}
    <3>1. Underway' = Underway
      BY <1>7, <2>2 DEF Underway
    <3> QED
      BY <1>2, <1>4, <1>5, <2>2, <3>1 DEF EditorInv, SavedInv
  <2> QED
    BY <2>1, <2>2
<1> QED
  BY <1>6, <1>8 DEF EditorInv

\* A request or an answer that is lost can only be missing.
LEMMA FailSteps ==
  ASSUME EditorInv, NEW r, Fail(r)
  PROVE  EditorInv'
<1>1. /\ UNCHANGED <<canvas, shown, stored, snapshots, unsaved, overtaken>>
      /\ inbox' \subseteq inbox /\ answered' \subseteq answered
  BY DEF Fail, drawing, server, history
<1>2. Underway' \subseteq Underway
  BY <1>1 DEF Underway
<1> QED
  BY <1>1, <1>2 DEF EditorInv, GraphsInv, SavedInv

\* The page starts anew with what is stored.
LEMMA RemountKeeps ==
  ASSUME EditorInv, Remount, answered' = {}, UNCHANGED <<server, inbox>>
  PROVE  EditorInv'
<1>1. /\ UNCHANGED <<stored, snapshots, inbox>> /\ shown'.versions = snapshots
      /\ canvas' = stored.graph /\ unsaved' = "no"
  BY DEF Remount, Refresh, server
<1>2. ~overtaken' => Underway = {}
  BY Zenon DEF Remount
<1>3. GraphsInv'
  BY <1>1 DEF EditorInv, GraphsInv
<1>4. SavedInv'
  <2>1. Underway' = Underway
    BY <1>1 DEF Underway
  <2> QED
    BY <1>1, <1>2, <2>1 DEF SavedInv
<1> QED
  BY <1>3, <1>4 DEF EditorInv

LEMMA AnswerSteps ==
  ASSUME EditorInv, NEW a \in answered, Answer(a)
  PROVE  EditorInv'
<1>1. answered' = {} /\ UNCHANGED <<server, inbox, stored, snapshots>>
  BY DEF Answer, server
<1>2. CASE LayoutReset(a)
  BY <1>1, <1>2, RemountKeeps DEF LayoutReset
<1>3. CASE LayoutSaved(a) \/ DraftSaved(a) \/ Told(a)
  <2>1. /\ canvas' = canvas /\ overtaken' = overtaken /\ shown'.versions = snapshots
        /\ unsaved' = unsaved \/ (unsaved' = "no" /\ unsaved = "sent" /\ a.kind = "save" /\ a.ok)
    BY <1>3 DEF LayoutSaved, DraftSaved, Told, Refresh, drawing, history
  <2>2. GraphsInv'
    BY <1>1, <2>1 DEF EditorInv, GraphsInv
  <2>3. Underway' = Underway
    BY <1>1 DEF Underway
  <2>4. SavedInv'
    BY <1>1, <2>1, <2>3 DEF EditorInv, SavedInv
  <2> QED
    BY <2>2, <2>4 DEF EditorInv
<1> QED
  BY <1>2, <1>3 DEF Answer

LEMMA EditorSteps ==
  ASSUME EditorInv, [EditorNext]_editorVars
  PROVE  EditorInv'
<1>1. CASE Edit
  BY <1>1, DrawingSteps
<1>2. CASE Click
  BY <1>2, ClickSteps
<1>3. CASE Work
  BY <1>3, ServeSteps, AnswerSteps DEF Work
<1>4. ASSUME NEW r \in inbox \union answered, Fail(r) PROVE EditorInv'
  BY <1>4, FailSteps
<1>5. CASE SavedFades \/ UNCHANGED editorVars
  <2>1. UNCHANGED <<canvas, shown, stored, snapshots, inbox, answered, unsaved, overtaken, Underway>>
    BY <1>5 DEF SavedFades, editorVars, drawing, server, network, history, Underway
  <2> QED
    BY <2>1 DEF EditorInv, GraphsInv, SavedInv
<1>6. CASE Reopen
  BY <1>6, RemountKeeps DEF Reopen
<1> QED
  BY <1>1, <1>2, <1>3, <1>4, <1>5, <1>6 DEF EditorNext

\* The builder keeps its invariant in every execution of the routing side.
LEMMA EditorInvariant == Spec => []EditorInv
<1>1. Init => EditorInv
  BY EditorInitHolds DEF Init
<1>2. EditorInv /\ [Next]_vars => EditorInv'
  <2>1. [Next]_vars => [EditorNext]_editorVars
    BY DEF Next, vars
  <2> QED
    BY <2>1, EditorSteps
<1> QED
  BY <1>1, <1>2, PTL DEF Spec

\* What the admin sees as saved is what the server has, however visits interrupt each other and get
\* lost, unless what would replace the stored graph was on its way as the canvas was saved or loaded.
THEOREM StoredAsDrawn == Spec => []CanvasIsStored
<1>1. EditorInv => CanvasIsStored
  BY DEF EditorInv, SavedInv, CanvasIsStored
<1> QED
  BY <1>1, EditorInvariant, PTL

----------------------------------------------------------------------------
(***************************************************************************)
(* The two simulations                                                     *)
(***************************************************************************)

\* A condition on what is typed that the panel sees met, the server sees met.
LEMMA PanelHolds ==
  ASSUME NEW c, IsCondition(c), c.field # "recurring", NEW input \in Inputs, ClientHolds(c, input[c.field])
  PROVE  ServerHolds(c, input[c.field])
<1> DEFINE actual == input[c.field]
<1>1. ReadAlike(c.value) /\ ReadAlike(actual)
  BY TextAssumption DEF IsCondition
<1>2. CASE c.operator = "eq"
  BY <1>1, <1>2 DEF ClientHolds, ServerHolds, ReadAlike
<1>3. CASE c.operator = "neq"
  BY <1>1, <1>3 DEF ClientHolds, ServerHolds, ReadAlike
<1>4. CASE c.operator \notin {"eq", "neq"}
  <2>1. /\ NaN \notin {actual.js, c.value.js}
        /\ Compares(c.operator, actual.js, c.value.js)
    BY <1>4 DEF ClientHolds
  <2>2. c.value.php = c.value.js /\ actual.php = actual.js
    BY <1>1, <2>1 DEF ReadAlike
  <2> QED
    BY <1>4, <2>1, <2>2 DEF ServerHolds
<1> QED
  BY <1>2, <1>3, <1>4

\* A node only the panel sees matched asks for the checkbox.
LEMMA PanelMatches ==
  ASSUME IsGraph(canvas), NEW input \in Inputs,
         NEW n \in ClientMatches(canvas, input), n \notin ServerMatches(canvas, input)
  PROVE  AsksRecurring(n)
<1>1. /\ n \in Conditional(canvas) /\ n \in ToSet(canvas.nodes) /\ n.type = "condition"
      /\ \A i \in DOMAIN n.conditions : ClientHolds(n.conditions[i], input[n.conditions[i].field])
  BY DEF ClientMatches, Conditional
<1>2. PICK i \in DOMAIN n.conditions : ~ServerHolds(n.conditions[i], input[n.conditions[i].field])
  BY <1>1 DEF ServerMatches
<1>3. IsCondition(n.conditions[i])
  BY <1>1 DEF IsGraph, IsNode, ToSet
<1>4. n.conditions[i].field = "recurring"
  BY <1>1, <1>2, <1>3, PanelHolds
<1> QED
  BY <1>1, <1>4 DEF AsksRecurring

\* The ids a path is made of, what one step adds to it, and what makes two steps differ.
PathIds(g) == Ids(g) \union ToSet(FirstStart(g))

LEMMA FollowingOne ==
  ASSUME NEW g, NEW id, NEW matches
  PROVE  Following(g, id, matches) \in Seq(PathIds(g)) /\ Len(Following(g, id, matches)) \in 0..1
<1>1. Following(g, id, matches) = <<>> \/ \E x \in Ids(g) : Following(g, id, matches) = <<x>>
  BY DEF Following
<1>2. <<>> \in Seq(PathIds(g)) /\ Len(<<>>) = 0
  OBVIOUS
<1>3. ASSUME NEW x \in Ids(g) PROVE <<x>> \in Seq(PathIds(g)) /\ Len(<<x>>) = 1
  <2>1. x \in PathIds(g)
    BY DEF PathIds
  <2> QED
    BY <2>1
<1>4. CASE Following(g, id, matches) = <<>>
  BY <1>2, <1>4
<1>5. ASSUME NEW x \in Ids(g), Following(g, id, matches) = <<x>>
      PROVE  Following(g, id, matches) \in Seq(PathIds(g)) /\ Len(Following(g, id, matches)) \in 0..1
  BY <1>3, <1>5
<1> QED
  BY <1>1, <1>4, <1>5

LEMMA FollowingDiffers ==
  ASSUME NEW g, NEW id, NEW M, NEW N, Following(g, id, M) # Following(g, id, N)
  PROVE  LET n == NodeOf(g, id) IN n.type = "condition" /\ (n \in M \ N \/ n \in N \ M)
<1> DEFINE n == NodeOf(g, id)
<1>1. Handle(n, M) # Handle(n, N)
  BY DEF Following
<1>2. n.type = "condition" /\ ~(n \in M <=> n \in N)
  BY <1>1 DEF Handle
<1> QED
  BY <1>2

\* path[k] is the path after k steps.
Walks(g, matches, path) ==
    /\ path \in [0..(MaxSteps - 1) -> Seq(PathIds(g))]
    /\ path[0] = FirstStart(g)
    /\ \A k \in 1..(MaxSteps - 1) :
         path[k] = IF Len(path[k - 1]) < k THEN path[k - 1]
                   ELSE path[k - 1] \o Following(g, Last(path[k - 1]), matches)

LEMMA WalkSteps ==
  ASSUME NEW g, NEW matches
  PROVE  \E path : Walks(g, matches, path) /\ Walk(g, matches) = path[MaxSteps - 1]
<1> DEFINE F(h) == [k \in 0..(MaxSteps - 1) |->
                      IF k = 0 THEN FirstStart(g)
                      ELSE LET before == h[k - 1]
                           IN  IF Len(before) < k THEN before
                               ELSE before \o Following(g, Last(before), matches)]
           V == Seq(PathIds(g))
           D == [k \in 1..(MaxSteps - 1) |->
                   [q \in V |-> IF Len(q) < k THEN q ELSE q \o Following(g, Last(q), matches)]]
           path == CHOOSE h : h = F(h)
<1>1. D \in [1..(MaxSteps - 1) -> [V -> V]]
  <2>1. ASSUME NEW q \in V, NEW id PROVE q \o Following(g, id, matches) \in V
    BY FollowingOne
  <2> HIDE DEF V
  <2> QED
    BY <2>1
<1>2. FirstStart(g) \in V
  <2>1. FirstStart(g) = <<>> \/ \E x : FirstStart(g) = <<x>>
    BY DEF FirstStart
  <2>2. FirstStart(g) \in Seq(ToSet(FirstStart(g)))
    <3>1. ASSUME NEW x PROVE <<x>> \in Seq(ToSet(<<x>>))
      BY DEF ToSet
    <3>2. <<>> \in Seq(ToSet(FirstStart(g)))
      OBVIOUS
    <3> QED
      BY <2>1, <3>1, <3>2, Zenon
  <2> QED
    BY <2>2 DEF PathIds
<1>3. MaxSteps - 1 \in Nat /\ 0 \in 0..(MaxSteps - 1)
  BY DEF MaxSteps
<1>4. PICK f \in [0..(MaxSteps - 1) -> V] :
        f[0] = FirstStart(g) /\ \A k \in 1..(MaxSteps - 1) : f[k] = D[k][f[k - 1]]
  <2>1. PICK N, E, W, v0 : N = MaxSteps - 1 /\ E = D /\ W = V /\ v0 = FirstStart(g)
    OBVIOUS
  <2>2. N \in Nat /\ v0 \in W /\ E \in [1..N -> [W -> W]]
    BY <1>1, <1>2, <1>3, <2>1
  <2>3. Solvable(0..N, W, v0, E)
    BY <2>2, BoundedRecursion
  <2>4. \A k \in 1..N : k \in 0..N \ {0}
    BY <2>2
  <2> QED
    BY <2>1, <2>3, <2>4 DEF Solvable
<1>5. f = F(f)
  <2>1. ASSUME NEW k \in 0..(MaxSteps - 1) PROVE f[k] = F(f)[k]
    <3>1. CASE k = 0
      BY <1>4, <3>1
    <3>2. CASE k # 0
      <4>1. k \in 1..(MaxSteps - 1) /\ f[k - 1] \in V
        <5>1. k \in 1..(MaxSteps - 1) /\ k - 1 \in 0..(MaxSteps - 1)
          BY <1>3, <3>2
        <5> QED
          BY <5>1
      <4> QED
        BY <1>4, <3>2, <4>1
    <3> QED
      BY <3>1, <3>2
  <2> QED
    BY <2>1
<1>6. path = F(path)
  BY <1>5
<1>7. Walk(g, matches) = path[MaxSteps - 1]
  BY DEF Walk
<1> HIDE DEF path
<1>8. PICK p : p = path
  OBVIOUS
<1>9. p = F(p)
  BY <1>6, <1>8
<1>10. /\ p[0] = FirstStart(g)
       /\ \A k \in 1..(MaxSteps - 1) :
            p[k] = IF Len(p[k - 1]) < k THEN p[k - 1] ELSE p[k - 1] \o Following(g, Last(p[k - 1]), matches)
  <2>1. \A k \in 1..(MaxSteps - 1) : k \in 0..(MaxSteps - 1) /\ k # 0
    BY <1>3
  <2>2. p[0] = F(p)[0] /\ \A k \in 1..(MaxSteps - 1) : p[k] = F(p)[k]
    BY <1>9
  <2> QED
    BY <1>3, <2>1, <2>2
<1>11. \A k \in 0..(MaxSteps - 1) : p[k] \in V
  <2> DEFINE T == {k \in Nat : p[k] \in V}
  <2>1. 0 \in T
    BY <1>2, <1>10
  <2>2. ASSUME NEW k \in 0..(MaxSteps - 1 - 1), k \in T PROVE k + 1 \in T
    <3>1. k \in Nat /\ k + 1 \in 1..(MaxSteps - 1) /\ p[k] \in V /\ k + 1 - 1 = k
      BY <1>3, <2>2
    <3>2. p[k] \o Following(g, Last(p[k]), matches) \in V
      BY <3>1, FollowingOne
    <3>3. p[k + 1] = IF Len(p[k]) < k + 1 THEN p[k] ELSE p[k] \o Following(g, Last(p[k]), matches)
      BY <1>10, <3>1
    <3>4. p[k + 1] \in V
      BY <3>1, <3>2, <3>3
    <3> QED
      BY <3>1, <3>4
  <2> HIDE DEF T
  <2>3. \A k \in 0..(MaxSteps - 1) : k \in T
    BY <1>3, <2>1, <2>2, NatSetUpTo
  <2> QED
    BY <2>3 DEF T
<1>12. p \in [0..(MaxSteps - 1) -> V]
  BY <1>9, <1>11
<1> QED
  BY <1>7, <1>8, <1>10, <1>12 DEF Walks

\* Two walks part where what follows differs, and stay parted.
Fork(g, M, N, c, s, j) == PartAfter(c, s, j) /\ Following(g, c[j], M) # Following(g, c[j], N)

\* One step of both.
LEMMA ForkKeeps ==
  ASSUME NEW g, NEW M, NEW N, NEW A, NEW c \in Seq(A), NEW s \in Seq(A), NEW x \in Seq(A), NEW y \in Seq(A),
         NEW k \in Nat, NEW j \in 1..k, Fork(g, M, N, c, s, j),
         NEW d, d = IF Len(c) < k + 1 THEN c ELSE c \o x,
         NEW t, t = IF Len(s) < k + 1 THEN s ELSE s \o y
  PROVE  Fork(g, M, N, d, t, j)
<1>1. /\ j \in 1..Len(c) /\ j \in 1..Len(s) /\ \A i \in 1..j : c[i] = s[i]
      /\ ~(j + 1 \in 1..Len(c) /\ j + 1 \in 1..Len(s) /\ c[j + 1] = s[j + 1])
  BY DEF Fork, PartAfter
<1>2. /\ d \in Seq(A) /\ Len(d) >= Len(c) /\ \A i \in 1..Len(c) : d[i] = c[i]
      /\ Len(c) = j => Len(d) = j
  BY <1>1
<1>3. /\ t \in Seq(A) /\ Len(t) >= Len(s) /\ \A i \in 1..Len(s) : t[i] = s[i]
      /\ Len(s) = j => Len(t) = j
  BY <1>1
<1>4. j \in 1..Len(d) /\ j \in 1..Len(t) /\ (\A i \in 1..j : d[i] = t[i]) /\ d[j] = c[j]
  BY <1>1, <1>2, <1>3
<1>5. ~(j + 1 \in 1..Len(d) /\ j + 1 \in 1..Len(t) /\ d[j + 1] = t[j + 1])
  <2>1. CASE Len(c) = j \/ Len(s) = j
    BY <1>1, <1>2, <1>3, <2>1
  <2>2. CASE Len(c) # j /\ Len(s) # j
    <3>1. j + 1 \in 1..Len(c) /\ j + 1 \in 1..Len(s)
      BY <1>1, <2>2
    <3> QED
      BY <1>1, <1>2, <1>3, <3>1
  <2> QED
    BY <2>1, <2>2
<1> QED
  BY <1>2, <1>3, <1>4, <1>5 DEF Fork, PartAfter

LEMMA ForkBegins ==
  ASSUME NEW g, NEW M, NEW N, NEW A, NEW c \in Seq(A), NEW x \in Seq(A), NEW y \in Seq(A), c # <<>>,
         Len(x) \in 0..1, Len(y) \in 0..1, x # y,
         x = Following(g, Last(c), M), y = Following(g, Last(c), N)
  PROVE  Fork(g, M, N, c \o x, c \o y, Len(c))
<1> DEFINE j == Len(c)
<1>1. j \in Nat /\ j > 0
  OBVIOUS
<1>2. /\ c \o x \in Seq(A) /\ Len(c \o x) = j + Len(x) /\ (\A i \in 1..j : (c \o x)[i] = c[i])
      /\ (Len(x) = 1 => (c \o x)[j + 1] = x[1])
  BY <1>1
<1>3. /\ c \o y \in Seq(A) /\ Len(c \o y) = j + Len(y) /\ (\A i \in 1..j : (c \o y)[i] = c[i])
      /\ (Len(y) = 1 => (c \o y)[j + 1] = y[1])
  BY <1>1
<1>4. ~(Len(x) = 1 /\ Len(y) = 1 /\ x[1] = y[1])
  OBVIOUS
<1>5. (c \o x)[j] = Last(c)
  BY <1>1, <1>2 DEF Last
<1>6. PICK d, t : d = c \o x /\ t = c \o y
  OBVIOUS
<1>7. j \in 1..Len(d) /\ j \in 1..Len(t) /\ (\A i \in 1..j : d[i] = t[i])
      /\ ~(j + 1 \in 1..Len(d) /\ j + 1 \in 1..Len(t) /\ d[j + 1] = t[j + 1])
  BY <1>1, <1>2, <1>3, <1>4, <1>6
<1>8. d \in Seq(A) /\ t \in Seq(A)
  BY <1>2, <1>3, <1>6
<1> QED
  BY <1>5, <1>6, <1>7, <1>8 DEF Fork, PartAfter

LEMMA WalksPart ==
  ASSUME NEW g, NEW M, NEW N, Walk(g, M) # Walk(g, N)
  PROVE  \E j \in DOMAIN Walk(g, M) : Fork(g, M, N, Walk(g, M), Walk(g, N), j)
<1> DEFINE top == MaxSteps - 1
<1>1. top \in Nat
  BY DEF MaxSteps
<1>2. PICK P : Walks(g, M, P) /\ Walk(g, M) = P[top]
  BY WalkSteps
<1>3. PICK Q : Walks(g, N, Q) /\ Walk(g, N) = Q[top]
  BY WalkSteps
<1> DEFINE Together(k) == P[k] = Q[k] \/ \E j \in 1..k : Fork(g, M, N, P[k], Q[k], j)
           T == {k \in Nat : Len(P[k]) <= k + 1 /\ Together(k)}
<1>4. 0 \in T
  <2>1. P[0] = FirstStart(g) /\ Q[0] = FirstStart(g)
    BY <1>2, <1>3 DEF Walks
  <2>2. Len(FirstStart(g)) <= 1
    BY DEF FirstStart
  <2> QED
    BY <2>1, <2>2
<1>5. ASSUME NEW k \in 0..(top - 1), k \in T PROVE k + 1 \in T
  <2> DEFINE A == PathIds(g)
             c == P[k]
             s == Q[k]
             x == Following(g, Last(c), M)
             y == Following(g, Last(s), N)
  <2>1. k \in Nat /\ k \in 0..top /\ k + 1 \in 1..top /\ k + 1 - 1 = k
    BY <1>1, <1>5
  <2>2. c \in Seq(A) /\ s \in Seq(A)
    BY <1>2, <1>3, <2>1 DEF Walks
  <2>3. /\ P[k + 1] = (IF Len(c) < k + 1 THEN c ELSE c \o x)
        /\ Q[k + 1] = (IF Len(s) < k + 1 THEN s ELSE s \o y)
    BY <1>2, <1>3, <2>1 DEF Walks
  <2>4. x \in Seq(A) /\ y \in Seq(A) /\ Len(x) \in 0..1 /\ Len(y) \in 0..1
    BY FollowingOne
  <2>5. Len(c) <= k + 1 /\ Together(k)
    BY <1>5
  <2> HIDE DEF A, c, s, x, y
  <2>6. Len(P[k + 1]) <= k + 1 + 1
    <3>1. Len(c \o x) <= k + 1 + 1 /\ Len(c) <= k + 1 + 1
      <4>1. Len(c \o x) = Len(c) + Len(x) /\ Len(c) \in Nat
        BY <2>2, <2>4
      <4>2. PICK m, l : m = Len(c) /\ l = Len(x)
        OBVIOUS
      <4>3. m \in Nat /\ l \in 0..1 /\ m <= k + 1
        BY <2>4, <2>5, <4>1, <4>2
      <4>4. m + l <= k + 1 + 1 /\ m <= k + 1 + 1
        BY <2>1, <4>3
      <4> QED
        BY <4>1, <4>2, <4>4
    <3> QED
      BY <2>3, <3>1, Zenon
  <2>7. Together(k + 1)
    <3>1. CASE c # s
      <4>1. PICK j \in 1..k : Fork(g, M, N, c, s, j)
        BY <2>5, <3>1 DEF c, s
      <4>2. Fork(g, M, N, P[k + 1], Q[k + 1], j)
        BY <2>1, <2>2, <2>3, <2>4, <4>1, ForkKeeps
      <4> QED
        BY <2>1, <4>2
    <3>2. CASE c = s /\ Len(c) < k + 1
      BY <2>3, <3>2
    <3>3. CASE c = s /\ ~(Len(c) < k + 1)
      <4>1. P[k + 1] = c \o x /\ Q[k + 1] = c \o y /\ Len(c) = k + 1
        BY <2>1, <2>2, <2>3, <2>5, <3>3
      <4>2. CASE x = y
        BY <4>1, <4>2
      <4>3. CASE x # y
        <5>1. c # <<>> /\ x = Following(g, Last(c), M) /\ y = Following(g, Last(c), N)
          <6>1. c # <<>>
            BY <2>1, <4>1
          <6> QED
            BY <3>3, <6>1 DEF x, y
        <5>2. Fork(g, M, N, c \o x, c \o y, Len(c))
          BY <2>2, <2>4, <4>3, <5>1, ForkBegins
        <5> QED
          BY <2>1, <4>1, <5>2
      <4> QED
        BY <4>2, <4>3
    <3> QED
      BY <3>1, <3>2, <3>3
  <2> HIDE DEF Together
  <2> QED
    BY <2>1, <2>6, <2>7
<1> HIDE DEF T
<1>6. top \in T
  <2>1. \A k \in 0..top : k \in T
    BY <1>1, <1>4, <1>5, NatSetUpTo
  <2> QED
    BY <1>1, <2>1
<1>7. Together(top) /\ P[top] # Q[top]
  BY <1>2, <1>3, <1>6 DEF T
<1>8. PICK j \in 1..top : Fork(g, M, N, P[top], Q[top], j)
  BY <1>7
<1>9. j \in DOMAIN P[top]
  BY <1>8 DEF Fork, PartAfter
<1> QED
  BY <1>2, <1>3, <1>8, <1>9

\* Through any graph that can be drawn, cycles included, and for any texts, the panel's simulation takes the
\* server's path until a condition that asks for the checkbox or that the server alone sees met.
THEOREM SimulatedStrictly == Spec => []PanelIsStricter
<1>1. IsGraph(canvas) => PanelIsStricter
  <2> SUFFICES ASSUME IsGraph(canvas), NEW input \in Inputs,
                      ClientSimulate(canvas, input) # ServerSimulate(canvas, input)
               PROVE  \E k \in DOMAIN ClientSimulate(canvas, input) :
                        /\ PartAfter(ClientSimulate(canvas, input), ServerSimulate(canvas, input), k)
                        /\ LET n == NodeOf(canvas, ClientSimulate(canvas, input)[k])
                           IN  AsksRecurring(n) \/ OnlyServerMatches(n, input)
    BY DEF PanelIsStricter
  <2> DEFINE M == ClientMatches(canvas, input)
             N == ServerMatches(canvas, input)
             c == ClientSimulate(canvas, input)
             s == ServerSimulate(canvas, input)
  <2>1. PICK k \in DOMAIN c : Fork(canvas, M, N, c, s, k)
    BY WalksPart DEF ClientSimulate, ServerSimulate
  <2> DEFINE n == NodeOf(canvas, c[k])
  <2>2. PartAfter(c, s, k) /\ Following(canvas, c[k], M) # Following(canvas, c[k], N)
    BY <2>1 DEF Fork
  <2>3. n \in M \ N \/ n \in N \ M
    BY <2>2, FollowingDiffers
  <2>4. AsksRecurring(n) \/ OnlyServerMatches(n, input)
    BY <2>3, PanelMatches DEF OnlyServerMatches
  <2> QED
    BY <2>2, <2>4
<1>2. EditorInv => IsGraph(canvas)
  BY DEF EditorInv, GraphsInv
<1> QED
  BY <1>1, <1>2, EditorInvariant, PTL
=============================================================================
