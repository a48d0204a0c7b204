---------------------------- MODULE WorkflowEditor ----------------------------
(***************************************************************************)
(* The admin's visual builder (Pages/Admin/Routing/Builder.jsx) and the    *)
(* server it saves to: one browser page with a canvas, three buttons that  *)
(* send requests (layout, draft, publish) and two more (reset, roll back), *)
(* and Inertia between them.  A new visit interrupts the one under way:    *)
(* its callbacks are never called, whatever becomes of the request.  The   *)
(* requests of the server side are one step each here; their interleavings *)
(* are RoutingWorkflow's subject.                                          *)
(***************************************************************************)
EXTENDS WorkflowGraph

CONSTANTS
    Node,         \* the nodes a palette drop may create, each with its type
    InitialGraph, \* graphs a workflow may be stored with
    Values,       \* texts an admin may type into a condition
    Percents,      \* weights an admin may type
    Inputs,       \* what the simulation panel may be filled with
    MaxActs       \* bound: changes made on the canvas and requests sent, together

\* String() and (string) make the same of a text, and parseFloat and (float) read the same
\* number from it, where parseFloat reads one: so it is for every text but the word Infinity,
\* which is left out.  The checkbox of the panel is no text: (string) true is "1".
ReadAlike(v) == v.cast = v.text /\ (v.js # NaN => v.php = v.js)
IsCondition(c) == {"field", "operator", "value"} \subseteq DOMAIN c /\ c.field \in Field /\ ReadAlike(c.value)
IsNode(n) ==
    /\ {"id", "type", "alias", "conditions", "distribution", "chain"} \subseteq DOMAIN n
    /\ n.conditions \in Seq(ToSet(n.conditions)) /\ \A c \in ToSet(n.conditions) : IsCondition(c)
IsGraph(g) ==
    /\ {"nodes", "edges"} \subseteq DOMAIN g
    /\ g.nodes \in Seq(ToSet(g.nodes)) /\ \A n \in ToSet(g.nodes) : IsNode(n)

ASSUME DrawingAssumption == (\A g \in InitialGraph : IsGraph(g)) /\ \A n \in Node : IsNode(n)
ASSUME TextAssumption ==
    /\ \A v \in Values : ReadAlike(v)
    /\ \A input \in Inputs : \A f \in Field \ {"recurring"} : ReadAlike(input[f])

NoLayout == <<>>

VARIABLES
    canvas,       \* the graph on the screen: useNodesState and useEdgesState
    at,           \* where its nodes are
    isDirty, saveState, saving,
    pending,      \* pendingPositions.current
    shown,        \* the workflow and its versions as the page was last given them
    visit,        \* the number of the visit under way, 0 for none
    timers,       \* setTimeout(() => setSaveState('idle')) calls not run yet
    stored,       \* routing_workflows: [graph, at, layout, status]
    snapshots,    \* routing_workflow_versions: [status, graph, at]
    inbox,        \* requests the server has not worked on
    answered,     \* the answer to the visit under way, before it arrives
    sent, edits,  \* counters for the bound
    unsaved,      \* history: was the canvas edited, or a roll back asked for, since it was saved or loaded
    overtaken     \* history: what would replace the stored graph was under way as it was saved or loaded

drawing == <<canvas, at>>
buttons == <<isDirty, saveState, pending>>
server == <<stored, snapshots>>
network == <<visit, inbox, answered, sent>>
history == <<unsaved, overtaken>>
editorVars == <<drawing, buttons, saving, shown, timers, server, network, edits, history>>

\* normalizeForCanvas and applyCanvasLayout: a saved position replaces the node's own.
Placed(w) ==
    [id \in Ids(w.graph) |-> IF id \in DOMAIN w.layout THEN w.layout[id] ELSE w.at[id]]

EditorInit ==
    /\ \E g \in InitialGraph :
         /\ stored = [graph |-> g, at |-> [id \in Ids(g) |-> 0], layout |-> NoLayout, status |-> "draft"]
         /\ snapshots = <<[status |-> "draft", graph |-> g, at |-> [id \in Ids(g) |-> 0]]>>
    /\ shown = [workflow |-> stored, versions |-> snapshots]
    /\ canvas = stored.graph
    /\ at = Placed(stored)
    /\ isDirty = FALSE /\ saveState = "idle" /\ saving = FALSE
    /\ pending = NoLayout /\ timers = 0
    /\ visit = 0 /\ inbox = {} /\ answered = {}
    /\ sent = 0 /\ edits = 0
    /\ unsaved = "no" /\ overtaken = FALSE

----------------------------------------------------------------------------
\* The canvas.  None of these sends anything.
Editing ==
    /\ edits + sent < MaxActs
    /\ edits' = edits + 1
    /\ UNCHANGED <<saving, shown, timers, server, network, overtaken>>
Redrawing == Editing /\ unsaved' = "yes" /\ UNCHANGED buttons

\* onDrop: a node of the palette's type, under a new id.
Drop(n) ==
    /\ n.id \notin Ids(canvas)
    /\ canvas' = [canvas EXCEPT !.nodes = Append(@, n)]
    /\ at' = [id \in Ids(canvas) \union {n.id} |-> IF id = n.id THEN 0 ELSE at[id]]
    /\ Redrawing

\* onConnect, from a source handle to a node with a target handle; addEdge adds no edge twice.
Connect(source, target, handle) ==
    LET edge == [source |-> source.id, target |-> target.id, handle |-> handle]
    IN  /\ handle \in SourceHandles(source.type)
        /\ target.type \in TargetTypes
        /\ MayConnect(source, target, handle)
        /\ edge \notin ToSet(canvas.edges)
        /\ canvas' = [canvas EXCEPT !.edges = Append(@, edge)]
        /\ UNCHANGED at
        /\ Redrawing

\* What one change in the panel makes of a node's data.
Edited(n) ==
    CASE n.type = "provider" -> {[n EXCEPT !.alias = a] : a \in Aliases \union {NoAlias}}
      [] n.type = "condition" ->
           {[n EXCEPT !.conditions = c] : c \in ConditionEdits(n.conditions, Values)}
      [] n.type = "weighted" ->
           {[n EXCEPT !.distribution = d] : d \in DistributionEdits(n.distribution, Percents)}
      [] n.type = "failover" -> {[n EXCEPT !.chain = c] : c \in ChainEdits(n.chain)}
      [] OTHER -> {}

\* onNodeClick opens the panel on a node, whose editor calls updateNodeData.
UpdateNodeData ==
    /\ \E i \in DOMAIN canvas.nodes : \E n \in Edited(canvas.nodes[i]) :
         canvas' = [canvas EXCEPT !.nodes[i] = n]
    /\ UNCHANGED at
    /\ Redrawing

\* deleteNode, and React Flow's delete key: ids are unique, so that the filter takes one node away.
Without(g, i) ==
    [nodes |-> RemoveAt(g.nodes, i),
     edges |-> SelectSeq(g.edges, LAMBDA e : g.nodes[i].id \notin {e.source, e.target})]

DeleteNode(i) ==
    /\ canvas' = Without(canvas, i)
    /\ at' = [id \in Ids(canvas) \ {canvas.nodes[i].id} |-> at[id]]
    /\ Redrawing

DeleteEdge(i) ==
    /\ canvas' = [canvas EXCEPT !.edges = RemoveAt(@, i)]
    /\ UNCHANGED at
    /\ Redrawing

\* onNodesChangeTracked at the end of a drag: the positions of all nodes become pending.
Drag(id) ==
    /\ at' = [at EXCEPT ![id] = 1 - @]
    /\ pending' = at'
    /\ isDirty' = TRUE
    /\ saveState' = "idle"
    /\ UNCHANGED <<canvas, unsaved>>
    /\ Editing

----------------------------------------------------------------------------
\* The requests.
\* Those sent and not served yet that replace the stored graph, an interrupted visit's too.
Underway == {r \in inbox : r.kind \in {"save", "rollback"}}

NewRequest(kind, graph, where, layout, version) ==
    [no |-> sent + 1, kind |-> kind, graph |-> graph, at |-> where,
     layout |-> layout, version |-> version]

Send(kind, graph, where, layout, version) ==
    /\ edits + sent < MaxActs
    /\ sent' = sent + 1
    /\ visit' = sent + 1
    /\ inbox' = inbox \union {NewRequest(kind, graph, where, layout, version)}
    /\ answered' = {}
    /\ UNCHANGED <<drawing, isDirty, pending, shown, timers, server, edits>>

NoGraph == [nodes |-> <<>>, edges |-> <<>>]

\* handleSave: the positions, when there are any to save.
SaveLayout ==
    /\ isDirty
    /\ saveState # "saving"
    /\ saveState' = "saving"
    /\ UNCHANGED <<saving, history>>
    /\ Send("layout", NoGraph, NoLayout, pending, 0)

\* handleResetLayout, offered when a layout is saved and nothing is dirty.
ResetLayout ==
    /\ shown.workflow.layout # NoLayout
    /\ ~isDirty
    /\ UNCHANGED <<saveState, saving, history>>
    /\ Send("reset", NoGraph, NoLayout, NoLayout, 0)

\* Fault: what the page was last given is sent, and not the canvas.
SaveShown ==
    /\ ~saving
    /\ saving' = TRUE
    /\ unsaved' = "sent" /\ overtaken' = (Underway # {})
    /\ UNCHANGED saveState
    /\ Send("save", shown.workflow.graph, shown.workflow.at, NoLayout, 0)

\* save: the draft, with the nodes where they are.
SaveDraft ==
    /\ ~saving
    /\ saving' = TRUE
    /\ unsaved' = "sent" /\ overtaken' = (Underway # {})
    /\ UNCHANGED saveState
    /\ Send("save", canvas, at, NoLayout, 0)

\* publish: an empty body; the server publishes what it has.
Publish ==
    /\ UNCHANGED <<saveState, saving, history>>
    /\ Send("publish", NoGraph, NoLayout, NoLayout, 0)

\* The arrow beside a version whose status is not the workflow's.
Rollback(v) ==
    /\ shown.versions[v].status # shown.workflow.status
    /\ unsaved' = "yes"
    /\ UNCHANGED <<saveState, saving, overtaken>>
    /\ Send("rollback", NoGraph, NoLayout, NoLayout, v)

----------------------------------------------------------------------------
\* The server.
Retired == [i \in DOMAIN snapshots |->
    IF snapshots[i].status = "published" THEN [snapshots[i] EXCEPT !.status = "archived"] ELSE snapshots[i]]

Stores(status, graph, where) == stored' = [stored EXCEPT !.status = status, !.graph = graph, !.at = where]

\* What a request does, and whether it is answered without errors.
Effect(r, ok) ==
    \/ /\ r.kind \in {"layout", "reset"}
       /\ ok
       /\ stored' = [stored EXCEPT !.layout = r.layout]
       /\ UNCHANGED snapshots
    \/ /\ r.kind = "save"
       /\ ok = (r.graph.nodes # <<>>)
       /\ IF ok THEN Stores("draft", r.graph, r.at) ELSE UNCHANGED stored
       /\ UNCHANGED snapshots
    \/ /\ r.kind = "publish"
       /\ ok = IsValid(stored.graph)
       /\ IF ok
          THEN /\ Stores("published", stored.graph, stored.at)
               /\ snapshots' = Append(Retired,
                    [status |-> "published", graph |-> stored.graph, at |-> stored.at])
          ELSE UNCHANGED <<stored, snapshots>>
    \/ /\ r.kind = "rollback"
       /\ ok
       /\ Stores("draft", snapshots[r.version].graph, snapshots[r.version].at)
       /\ snapshots' = Append(snapshots, [snapshots[r.version] EXCEPT !.status = "draft"])

\* An interrupted visit's answer finds nobody.
Serve(r) ==
    /\ \E ok \in BOOLEAN :
         /\ Effect(r, ok)
         /\ answered' = IF r.no = visit THEN {[no |-> r.no, kind |-> r.kind, ok |-> ok]} ELSE answered
    /\ inbox' = inbox \ {r}
    /\ UNCHANGED <<drawing, buttons, saving, shown, timers, visit, sent, edits, history>>

\* The connection fails, or the answer is no Inertia page: no callback is called.
Fail(r) ==
    /\ inbox' = inbox \ {r}
    /\ answered' = answered \ {r}
    /\ visit' = IF visit = r.no THEN 0 ELSE visit
    /\ UNCHANGED <<drawing, buttons, saving, shown, timers, server, sent, edits, history>>

----------------------------------------------------------------------------
\* The answers.  The redirect has fetched the workflow as it is now.
Refresh == shown' = [workflow |-> stored, versions |-> snapshots]

\* What the page starts with; an old instance's timers find nobody.
Remount ==
    /\ Refresh
    /\ canvas' = stored.graph
    /\ at' = Placed(stored)
    /\ isDirty' = FALSE /\ saveState' = "idle" /\ saving' = FALSE
    /\ pending' = NoLayout /\ timers' = 0
    /\ unsaved' = "no" /\ overtaken' = (Underway # {})

LayoutSaved(a) ==
    /\ a.kind = "layout"
    /\ Refresh
    /\ saveState' = "saved"
    /\ isDirty' = FALSE
    /\ timers' = timers + 1
    /\ UNCHANGED <<drawing, pending, saving, history>>

DraftSaved(a) ==
    /\ a.kind = "save"
    /\ Refresh
    /\ saving' = FALSE
    /\ unsaved' = IF a.ok /\ unsaved = "sent" THEN "no" ELSE unsaved
    /\ UNCHANGED <<drawing, buttons, timers, overtaken>>

\* publish and the roll back arrow only show a message; the canvas stays as it is.
Told(a) ==
    /\ a.kind \in {"publish", "rollback"}
    /\ Refresh
    /\ UNCHANGED <<drawing, buttons, saving, timers, history>>

\* The reset's answer replaces the page (preserveState: false).
LayoutReset(a) == a.kind = "reset" /\ Remount

Answer(a) ==
    /\ visit' = 0
    /\ answered' = {}
    /\ LayoutSaved(a) \/ DraftSaved(a) \/ Told(a) \/ LayoutReset(a)
    /\ UNCHANGED <<server, inbox, sent, edits>>

SavedFades ==
    /\ timers > 0
    /\ timers' = timers - 1
    /\ saveState' = "idle"
    /\ UNCHANGED <<drawing, isDirty, pending, saving, shown, server, network, edits, history>>

\* The page is left and opened again: a full page load.
Reopen ==
    /\ Remount
    /\ visit' = 0
    /\ answered' = {}
    /\ UNCHANGED <<server, inbox, sent, edits>>

----------------------------------------------------------------------------
Edit ==
    \/ \E n \in Node : Drop(n)
    \/ \E i, j \in DOMAIN canvas.nodes : \E h \in SourceHandles(canvas.nodes[i].type) :
         Connect(canvas.nodes[i], canvas.nodes[j], h)
    \/ UpdateNodeData
    \/ \E i \in DOMAIN canvas.nodes : DeleteNode(i) \/ Drag(canvas.nodes[i].id)
    \/ \E i \in DOMAIN canvas.edges : DeleteEdge(i)

Click ==
    \/ SaveLayout \/ ResetLayout \/ SaveDraft \/ Publish
    \/ \E v \in DOMAIN shown.versions : Rollback(v)

Work ==
    \/ \E r \in inbox : Serve(r)
    \/ \E a \in answered : Answer(a)

EditorNext ==
    \/ Edit \/ Click \/ Work
    \/ \E r \in inbox \union answered : Fail(r)
    \/ SavedFades \/ Reopen

EditorSpec == EditorInit /\ [][EditorNext]_editorVars

----------------------------------------------------------------------------
\* Two paths part after their first k nodes: one of them ends there, or their next nodes differ.
PartAfter(c, s, k) ==
    /\ k \in DOMAIN c \intersect DOMAIN s
    /\ \A i \in 1..k : c[i] = s[i]
    /\ ~(k + 1 \in DOMAIN c \intersect DOMAIN s /\ c[k + 1] = s[k + 1])

AsksRecurring(n) == n.type = "condition" /\ \E i \in DOMAIN n.conditions : n.conditions[i].field = "recurring"
OnlyServerMatches(n, input) == n \in ServerMatches(canvas, input) \ ClientMatches(canvas, input)

\* The panel beside the canvas takes the path the server's simulation takes through any graph that
\* can be drawn, cycles included, until the first condition that the server alone sees met (it
\* passes over an empty value, and reads a number in any text) or that asks for the checkbox
\* (true for the one, 1 for the other): no condition on what the admin types is met in the
\* panel and not on the server.
PanelIsStricter ==
    \A input \in Inputs :
      LET c == ClientSimulate(canvas, input)
          s == ServerSimulate(canvas, input)
      IN  c # s => \E k \in DOMAIN c : PartAfter(c, s, k)
                     /\ LET n == NodeOf(canvas, c[k]) IN AsksRecurring(n) \/ OnlyServerMatches(n, input)

\* What the admin sees as saved is what the server has, whatever visits were interrupted or lost:
\* the canvas was saved, with an answer without errors, or loaded, and neither edited nor a roll
\* back asked for since.  One case is excepted (overtaken): a save or a roll back of an
\* interrupted visit was still on its way as the canvas was saved or loaded; it may be
\* served afterwards and replace what the page shows as stored.
CanvasIsStored ==
    unsaved = "no" /\ ~overtaken => canvas = stored.graph
=============================================================================
