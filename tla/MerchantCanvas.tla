--------------------------- MODULE MerchantCanvas ---------------------------
(***************************************************************************)
(* The merchant's drawing of a route (saas-laravel, Pages/Routing/         *)
(* Builder.jsx): the automatic layout, the nodes dragged on the canvas and *)
(* the layout saved for the next time (RoutingController::saveCanvasLayout).*)
(* The graph itself is the admin's and may change meanwhile; and the       *)
(* admin's own builder writes the same canvas_layout, from its canvas.     *)
(***************************************************************************)
EXTENDS Inertia, Integers, SequencesExt

CONSTANTS
    Graphs,       \* first graphs of the route: [nodes, edges], nodes of [id, type]
    Spots,        \* where a node is dragged to: [x, y]
    MaxGraphs     \* bound: how often the admin changes the route or its layout

LOCAL Graph == INSTANCE WorkflowGraph WITH Provider <- <<>>, NoAlias <- "", NaN <- "NaN"

VARIABLES
    route,        \* the route's graph, and how often the admin changed it or its layout
    layout,       \* canvas_layout: the saved places, by node
    canvas,       \* the page: nodes and their places, what is dirty, pending, the button's word
    kept          \* history: "sent" is a save that overtook none, "yes" that the page says so too, and
                  \* neither did a node move nor the admin write the layout since it was sent

canvasVars == <<route, layout, canvas, kept>>

Nowhere == <<>>
ClosedCanvas == [open |-> FALSE, places |-> Nowhere, dirty |-> FALSE, word |-> "idle",
                 pending |-> Nowhere, timers |-> 0]
NoRoute == [graph |-> [nodes |-> <<>>, edges |-> <<>>], changes |-> 0]

CanvasInit ==
    /\ route = NoRoute
    /\ layout = Nowhere
    /\ canvas = ClosedCanvas
    /\ kept = "no"

----------------------------------------------------------------------------
(***************************************************************************)
(* computeAutoLayout.  Ranks grow along the edges, in as many passes as    *)
(* there are nodes and two more; the ends of the route come last.          *)
(***************************************************************************)
LastNodes == {"success", "failure"}
TypeOf(g, id) == g.nodes[CHOOSE i \in DOMAIN g.nodes : g.nodes[i].id = id].type
NodeIds(g) == {g.nodes[i].id : i \in DOMAIN g.nodes}

Relaxed(g, ranks) ==
    FoldLeft(LAMBDA r, e :
               IF {e.source, e.target} \subseteq DOMAIN r /\ r[e.source] + 1 > r[e.target]
               THEN [r EXCEPT ![e.target] = r[e.source] + 1] ELSE r,
             ranks, g.edges)

Ranks(g) ==
    LET zero == [id \in NodeIds(g) |-> 0]
    IN  FoldLeft(LAMBDA r, i : Relaxed(g, r), zero, [i \in 1..(Len(g.nodes) + 2) |-> i])

FinalRanks(g) ==
    LET ranks == Ranks(g)
        inner == Max({0} \union {ranks[id] : id \in {i \in NodeIds(g) : TypeOf(g, i) \notin LastNodes}})
    IN  [id \in NodeIds(g) |->
           IF TypeOf(g, id) \in LastNodes THEN Max({ranks[id], inner + 1}) ELSE ranks[id]]

\* The nodes of one rank, in the order of the route, success and failure last.
Column(g, ranks, rank) ==
    LET Of(types) == SelectSeq(g.nodes, LAMBDA n : ranks[n.id] = rank /\ n.type \in types)
        rest == SelectSeq(g.nodes, LAMBDA n : ranks[n.id] = rank /\ n.type \notin LastNodes)
    IN  rest \o Of({"success"}) \o Of({"failure"})

\* Heights are counted in halves of a pixel.
AutoPlaces(g) ==
    LET ranks == FinalRanks(g)
        Place(id) ==
          LET column == Column(g, ranks, ranks[id])
              row == CHOOSE i \in DOMAIN column : column[i].id = id
          IN  [x |-> 60 + 310 * ranks[id],
               y |-> Max({80, 380 + (2 * (row - 1) - (Len(column) - 1)) * 165})]
    IN  [id \in NodeIds(g) |-> Place(id)]

\* buildNodes: a saved place comes before the automatic one.
Placed(g) ==
    LET automatic == AutoPlaces(g)
    IN  [id \in NodeIds(g) |-> IF id \in DOMAIN layout THEN layout[id] ELSE automatic[id]]

----------------------------------------------------------------------------
\* The admin's builder saves another graph, or the same with a node less; an open page keeps
\* the nodes it has.
WithoutNode(g, id) ==
    [nodes |-> SelectSeq(g.nodes, LAMBDA n : n.id # id),
     edges |-> SelectSeq(g.edges, LAMBDA e : e.source # id /\ e.target # id)]

Redrawn(g) ==
    /\ route.changes < MaxGraphs
    /\ route' = [graph |-> g, changes |-> route.changes + 1]
    /\ UNCHANGED <<layout, canvas, kept, net>>

AdminSaves ==
    \/ \E g \in Graphs : route.graph # g /\ Redrawn(g)
    \/ \E id \in NodeIds(route.graph) : Redrawn(WithoutNode(route.graph, id))

\* The admin's saveCanvasLayout, "present": the places on the admin's canvas, or none (a reset).
AdminMoves ==
    /\ route.changes < MaxGraphs
    /\ \E places \in [NodeIds(route.graph) -> Spots] \union {Nowhere} : layout' = places
    /\ route' = [route EXCEPT !.changes = @ + 1]
    /\ kept' = "no"
    /\ UNCHANGED <<canvas, net>>

OpenCanvas ==
    /\ ~canvas.open /\ route.graph.nodes # <<>>
    /\ canvas' = [ClosedCanvas EXCEPT !.open = TRUE, !.places = Placed(route.graph)]
    /\ kept' = "no"
    /\ UNCHANGED <<route, layout>>
    /\ Act

\* The link back: a visit of its own, which interrupts the one under way.
LeaveCanvas ==
    /\ canvas.open
    /\ canvas' = ClosedCanvas
    /\ kept' = "no"
    /\ UNCHANGED <<route, layout>>
    /\ Leave

\* Fault: only the node that was dragged is to be saved.
DragNodeAlone(id, spot) ==
    /\ canvas.open
    /\ canvas' = [canvas EXCEPT !.places[id] = spot, !.dirty = TRUE, !.word = "idle",
                                !.pending = [i \in {id} |-> spot]]
    /\ kept' = "no"
    /\ UNCHANGED <<route, layout>>
    /\ Act

\* onNodeDragStop, handlePositionsChange: where all the nodes are is to be saved.
DragNode(id, spot) ==
    /\ canvas.open
    /\ canvas' = [canvas EXCEPT !.places[id] = spot, !.dirty = TRUE, !.word = "idle",
                                !.pending = [canvas.places EXCEPT ![id] = spot]]
    /\ kept' = "no"
    /\ UNCHANGED <<route, layout>>
    /\ Act

\* The saves the server has not worked on, an interrupted visit's too.
Saves == {r \in inbox : r.kind = "layout"}

SaveLayout ==
    /\ canvas.open /\ canvas.dirty /\ canvas.word # "saving"
    /\ canvas' = [canvas EXCEPT !.word = "saving"]
    /\ kept' = IF Saves = {} THEN "sent" ELSE "no"
    /\ UNCHANGED <<route, layout>>
    /\ Visit("layout", canvas.pending)

\* Offered when a layout was saved.
ResetLayout ==
    /\ canvas.open /\ ~canvas.dirty /\ layout # Nowhere
    /\ UNCHANGED canvasVars
    /\ Visit("reset", Nowhere)

\* saveCanvasLayout: "required" refuses an empty layout.
ServeLayout(r) ==
    /\ layout' = IF r.body # Nowhere THEN r.body ELSE layout
    /\ UNCHANGED <<route, canvas, kept>>
    /\ Served(r, r.body # Nowhere)

\* The answer to a save; that to a reset, always refused, is not looked at.
LayoutSaved(a) ==
    /\ a.kind = "layout"
    /\ canvas' = [canvas EXCEPT !.word = "saved", !.dirty = FALSE, !.timers = @ + 1]
    /\ kept' = IF kept = "sent" THEN "yes" ELSE "no"
    /\ UNCHANGED <<route, layout>>
    /\ Returned

ResetRefused(a) ==
    /\ a.kind = "reset"
    /\ UNCHANGED canvasVars
    /\ Returned

\* After 2.5 seconds, whatever the button says by then.
WordFades ==
    /\ canvas.timers > 0
    /\ canvas' = [canvas EXCEPT !.word = "idle", !.timers = @ - 1]
    /\ UNCHANGED <<route, layout, kept, net>>

CanvasLost(r) == Lost(r) /\ UNCHANGED canvasVars

CanvasNext ==
    \/ AdminSaves \/ AdminMoves \/ OpenCanvas \/ LeaveCanvas \/ SaveLayout \/ ResetLayout \/ WordFades
    \/ \E id \in DOMAIN canvas.places, spot \in Spots : DragNode(id, spot)
    \/ \E r \in inbox : ServeLayout(r)
    \/ \E a \in answered : LayoutSaved(a) \/ ResetRefused(a)
    \/ \E r \in inbox \union answered : CanvasLost(r)

----------------------------------------------------------------------------
\* Once the page says "saved", reopening it places every node that is still there where it was
\* left, however the admin redraws the route meanwhile and whatever visits were interrupted
\* or lost; unless a node was dragged or the admin wrote the layout since the save was
\* sent, or an interrupted save was still on its way then (the last to be served wins).
RestoredAsLeft ==
    kept = "yes" =>
      \A id \in DOMAIN canvas.places \intersect NodeIds(route.graph) :
        Placed(route.graph)[id] = canvas.places[id]
=============================================================================
