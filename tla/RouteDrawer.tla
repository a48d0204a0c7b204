----------------------------- MODULE RouteDrawer -----------------------------
(***************************************************************************)
(* The admin's routing page (Pages/Admin/Routing/Index.jsx): the list of   *)
(* one merchant's routes with its filters, the wizard that creates one and *)
(* the drawer that edits one, over RoutingController and                   *)
(* RoutingWorkflowService.  A merchant has at most one route in each       *)
(* environment.                                                            *)
(*                                                                         *)
(* The drawer works on a copy of the nodes that an effect replaces when    *)
(* the route's updated_at changes; two changes within one second count as  *)
(* a second apart here.  Requests of the server are one step each; their   *)
(* interleavings are RoutingWorkflow's subject.                            *)
(***************************************************************************)
EXTENDS Inertia, RouteCards

CONSTANTS
    Env,          \* environments: test and live
    Aliases0,     \* the aliases of the providers the merchant may use
    StoredRoutes, \* graphs the first route may be stored with
    Shares        \* positions of a weight's slider

VARIABLES
    routes,       \* routing_workflows and their versions, by environment
    listing,         \* the list as the page was last given it, and for which filters
    bar,          \* the filter bar: filters, the text in the box, the debounced calls
    drawer,       \* the drawer: the route it was opened on, and its copy of the graph
    wizard,       \* the wizard: step (0: closed), its form, the number of its visit
    meant         \* history: by environment, the graph on the screen of the click that last made its route live

\* A route that is stored is a list of nodes and a list of edges.
ASSUME RoutesAssumption ==
    /\ \A g \in StoredRoutes : {"nodes", "edges"} \subseteq DOMAIN g /\ AreNodes(g.nodes)
    /\ Shares \subseteq Nat

drawerVars == <<routes, listing, bar, drawer, wizard, meant>>

NoGraph == [nodes |-> <<>>, edges |-> <<>>]
NoFilters == [search |-> "", status |-> ""]
Body == [env |-> "", graph |-> NoGraph, version |-> 0, name |-> "", filters |-> NoFilters]

Graph == INSTANCE WorkflowGraph WITH Provider <- <<>>, NoAlias <- "", NaN <- "NaN"

GraphOf(r) == [nodes |-> r.nodes, edges |-> r.edges]
ModeOf(ns) == IF Positive(ns) # <<>> THEN "split" ELSE "order"
Closed0 == [open |-> FALSE, env |-> "", copy |-> <<>>, graph |-> NoGraph, mode |-> "order"]

\* paginateWorkflows: the status filter, and a search no name matches.
Matching(filters) ==
    [e \in {e \in DOMAIN routes : /\ filters.search = ""
                                  /\ filters.status \in {"", routes[e].status}} |-> routes[e]]

FirstRoute(g) ==
    [status |-> "draft", version |-> 1, nodes |-> g.nodes, edges |-> g.edges, stamp |-> 0,
     errors |-> FALSE,
     versions |-> <<[version |-> 1, name |-> "given", status |-> "draft", graph |-> g, errors |-> FALSE]>>]

DrawerInit ==
    /\ routes = [e \in {} |-> NoGraph]
    /\ listing = [list |-> routes, filters |-> NoFilters]
    /\ bar = [filters |-> NoFilters, search |-> "", timer |-> {}, left |-> {}]
    /\ drawer = Closed0
    /\ wizard = [step |-> 0, env |-> "test", named |-> FALSE, visit |-> 0]
    /\ meant = [e \in {} |-> NoGraph]

\* The page is first opened when the merchant has a route, drawn in the builder or here.
OpenPage(g) ==
    /\ routes = <<>> /\ acts = 0
    /\ routes' = [e \in {"test"} |-> FirstRoute(g)]
    /\ listing' = [listing EXCEPT !.list = routes']
    /\ UNCHANGED <<bar, drawer, wizard, meant, net>>

----------------------------------------------------------------------------
\* The drawer.  currentEditingWorkflow: the route in the list, or the one that was clicked.
Editing(d, list) == IF d.env \in DOMAIN list THEN list[d.env] ELSE d.copy[1]
CurrentEditing == Editing(drawer, listing.list)

\* The state the drawer's effect sets from a route.
Loaded(d, r) == [d EXCEPT !.graph = GraphOf(r), !.mode = ModeOf(r.nodes)]

OpenDrawer(e) ==
    /\ ~drawer.open /\ wizard.step = 0
    /\ drawer' = Loaded([Closed0 EXCEPT !.open = TRUE, !.env = e, !.copy = <<listing.list[e]>>], listing.list[e])
    /\ UNCHANGED <<routes, listing, bar, wizard, meant>>
    /\ Act

CloseDrawer ==
    /\ drawer.open
    /\ drawer' = Closed0
    /\ UNCHANGED <<routes, listing, bar, wizard, meant>>
    /\ Act

Redraw(nodes, edges) ==
    /\ drawer.open
    /\ drawer' = [drawer EXCEPT !.graph = [nodes |-> nodes, edges |-> edges]]
    /\ UNCHANGED <<routes, listing, bar, wizard, meant>>
    /\ Act

Ranked(ns) == \A i \in DOMAIN ns : ns[i].priority = i
Renumbered(ns) == [i \in DOMAIN ns |-> [ns[i] EXCEPT !.priority = i]]
AllBut(id) == {n \in ToSet(drawer.graph.nodes) : n.id # id}
Place(id) == CHOOSE i \in DOMAIN drawer.graph.nodes : drawer.graph.nodes[i].id = id

AddProvider(alias) ==
    LET ns == drawer.graph.nodes
        n == [id |-> alias, type |-> "provider", alias |-> alias, enabled |-> TRUE,
              weight |-> 0, priority |-> Len(ns) + 1, distribution |-> <<>>]
    IN  /\ \A i \in DOMAIN ns : ns[i].alias # alias
        /\ Redraw(Append(ns, n), drawer.graph.edges)

RemoveProvider(id) ==
    Redraw(Renumbered(Only(drawer.graph.nodes, AllBut(id))),
           SelectSeq(drawer.graph.edges, LAMBDA e : e.source # id /\ e.target # id))

SetWeight(id, w) ==
    /\ drawer.mode = "split"
    /\ Redraw([drawer.graph.nodes EXCEPT ![Place(id)].weight = w], drawer.graph.edges)

ToggleEnabled(id) ==
    /\ drawer.mode = "order"
    /\ Redraw([drawer.graph.nodes EXCEPT ![Place(id)].enabled = ~@], drawer.graph.edges)

\* reorderNode: the dragged node goes before the one it is dropped on.
ReorderNode(dragged, target) ==
    LET without == Only(drawer.graph.nodes, AllBut(dragged))
        idx == CHOOSE i \in DOMAIN without : without[i].id = target
    IN  /\ drawer.mode = "order" /\ dragged # target
        /\ Redraw(Renumbered(InsertAt(without, idx, drawer.graph.nodes[Place(dragged)])),
                  drawer.graph.edges)

\* buildAutoEdges: a failed and a timeout edge from each node to the next.
AutoEdges(ns) ==
    LET sorted == ByPriority(ns)
        edge(i, cond) == [source |-> sorted[i].id, target |-> sorted[i + 1].id, handle |-> cond]
    IN  IF ns = <<>> THEN <<>>
        ELSE FlattenSeq([i \in 1..(Len(ns) - 1) |-> <<edge(i, "failed"), edge(i, "timeout")>>])

ToggleAutoFailover ==
    /\ drawer.mode = "order" /\ Len(drawer.graph.nodes) > 1
    /\ Redraw(drawer.graph.nodes,
              IF drawer.graph.edges = <<>> THEN AutoEdges(drawer.graph.nodes) ELSE <<>>)

SetMode(mode) ==
    /\ drawer.open /\ drawer.mode # mode
    /\ drawer' = [drawer EXCEPT !.mode = mode]
    /\ UNCHANGED <<routes, listing, bar, wizard, meant>>
    /\ Act

\* What is sent: no weights in order mode, and edges along the order.
FinalNodes ==
    [i \in DOMAIN drawer.graph.nodes |->
       [drawer.graph.nodes[i] EXCEPT !.weight = IF drawer.mode = "split" THEN @ ELSE 0]]
FinalGraph ==
    [nodes |-> FinalNodes,
     edges |-> IF drawer.mode = "order" THEN AutoEdges(FinalNodes) ELSE drawer.graph.edges]
TotalWeight == FoldSeq(LAMBDA n, sum : sum + n.weight, 0, drawer.graph.nodes)

Sends(kind, body) ==
    /\ drawer.open
    /\ UNCHANGED drawerVars
    /\ Visit(kind, [body EXCEPT !.env = drawer.env])

Save == Sends("save", [Body EXCEPT !.graph = FinalGraph])

\* Fault: what the server has is made live, and the drawer's graph not saved before.
PublishOnly ==
    /\ ~(drawer.mode = "split" /\ TotalWeight # 100)
    /\ Sends("publish", [Body EXCEPT !.graph = FinalGraph])

\* publish: first the graph is saved; its success callback asks to publish.
PublishRoute ==
    /\ ~(drawer.mode = "split" /\ TotalWeight # 100)
    /\ Sends("save to publish", [Body EXCEPT !.graph = FinalGraph])

\* VersionHistoryRow: what it offers for each version.
RestoreVersion(v) ==
    /\ v.status # "published"
    /\ Sends("rollback", [Body EXCEPT !.version = v.version])
RenameVersion(v, name) ==
    /\ name # v.name
    /\ Sends("rename", [Body EXCEPT !.version = v.version, !.name = name])
DeleteVersion(v) ==
    /\ v.status # "published" /\ v.version # CurrentEditing.version
    /\ Sends("delete", [Body EXCEPT !.version = v.version])

----------------------------------------------------------------------------
\* The wizard.
WizardClick(w) ==
    /\ ~drawer.open
    /\ wizard' = w
    /\ UNCHANGED <<routes, listing, bar, drawer, meant>>
    /\ Act

NewRoute == wizard.step = 0 /\ WizardClick([step |-> 1, env |-> "test", named |-> FALSE, visit |-> 0])
NameRoute == wizard.step = 2 /\ ~wizard.named /\ WizardClick([wizard EXCEPT !.named = TRUE])
ChooseEnv(e) == wizard.step = 3 /\ wizard.env # e /\ WizardClick([wizard EXCEPT !.env = e])
WizardNext ==
    /\ wizard.step = 1 \/ (wizard.step = 2 /\ wizard.named)
    /\ WizardClick([wizard EXCEPT !.step = @ + 1])
WizardBack == wizard.step > 0 /\ WizardClick([wizard EXCEPT !.step = @ - 1])

\* The form is submitted by its button in the last step, or by Enter in the name's field;
\* form.processing holds the button while its visit is under way.
SubmitRoute ==
    /\ \/ wizard.step = 2 /\ wizard.named
       \/ wizard.step = 3 /\ (wizard.visit = 0 \/ wizard.visit # current)
    /\ wizard' = [wizard EXCEPT !.visit = sent + 1]
    /\ UNCHANGED <<routes, listing, bar, drawer, meant>>
    /\ Visit("create", [Body EXCEPT !.env = wizard.env])

----------------------------------------------------------------------------
\* The filter bar, behind the drawer and the wizard when they are open.
BarInReach == ~drawer.open /\ wizard.step = 0
ApplyFilters(filters, b) ==
    /\ bar' = [b EXCEPT !.filters = filters]
    /\ UNCHANGED <<routes, listing, drawer, wizard, meant>>

ChooseStatus(s) ==
    LET filters == [bar.filters EXCEPT !.status = s]
    IN  /\ BarInReach /\ s # bar.filters.status
        /\ ApplyFilters(filters, bar)
        /\ Visit("list", [Body EXCEPT !.filters = filters])

ClearFilters ==
    /\ BarInReach /\ bar.filters # NoFilters
    /\ ApplyFilters(NoFilters, [bar EXCEPT !.search = ""])
    /\ Visit("list", Body)

\* The button in an empty list leaves the text where it is.
ClearFromList ==
    /\ BarInReach /\ bar.filters # NoFilters /\ DOMAIN listing.list = {}
    /\ ApplyFilters(NoFilters, bar)
    /\ Visit("list", Body)

\* Another section of the page and back: a new filter bar, which does not know the old one's timer.
SwitchSections ==
    /\ BarInReach /\ bar.timer # {}
    /\ bar' = [bar EXCEPT !.search = bar.filters.search, !.timer = {}, !.left = @ \union bar.timer]
    /\ UNCHANGED <<routes, listing, drawer, wizard, meant>>
    /\ Act

\* handleSearch: the timer's call works on the filters of this render.
HandleSearch(text) ==
    /\ BarInReach /\ text # bar.search
    /\ bar' = [bar EXCEPT !.search = text, !.timer = {[bar.filters EXCEPT !.search = text]}]
    /\ UNCHANGED <<routes, listing, drawer, wizard, meant>>
    /\ Act

SearchFires(filters) ==
    /\ filters \in bar.timer \union bar.left
    /\ ApplyFilters(filters, [bar EXCEPT !.timer = @ \ {filters}, !.left = @ \ {filters}])
    /\ broken' = (broken \/ current # 0)
    /\ Follow("list", [Body EXCEPT !.filters = filters])
    /\ UNCHANGED acts

----------------------------------------------------------------------------
\* The server.  updated_at follows when a column changes.
Touched(old, new) == IF new = old THEN old ELSE [new EXCEPT !.stamp = @ + 1]
StoreRoute(e, r) == routes' = [x \in DOMAIN routes \union {e} |-> IF x = e THEN r ELSE routes[x]]

\* updateWorkflow: a published route becomes a draft; null nodes keep the stored ones.
Updated(r, g) ==
    Touched(r, [r EXCEPT !.status = "draft", !.nodes = g.nodes, !.edges = g.edges,
                         !.errors = ~Graph!IsValid(GraphOf(g))])

\* snapshot, after what was published is retired.
Snapshot(r, name) ==
    LET retired == [i \in DOMAIN r.versions |->
                      IF r.status = "published" /\ r.versions[i].status = "published"
                      THEN [r.versions[i] EXCEPT !.status = "archived"] ELSE r.versions[i]]
    IN  [r EXCEPT !.versions =
           Append(retired, [version |-> r.version, name |-> name, status |-> r.status, graph |-> GraphOf(r),
                           errors |-> r.errors])]

\* A route whose publication is refused stays what it is, and keeps the errors.
Refused(r) == Touched(r, [r EXCEPT !.errors = TRUE])

PublishWorkflow(r, ok) ==
    LET e == r.body.env
    IN  /\ ok = Graph!IsValid(GraphOf(routes[e]))
        /\ IF ok
           THEN /\ StoreRoute(e, Snapshot([routes[e] EXCEPT !.status = "published",
                                             !.version = @ + 1, !.stamp = @ + 1, !.errors = FALSE], "given"))
                /\ meant' = [x \in DOMAIN meant \union {e} |-> IF x = e THEN r.body.graph ELSE meant[x]]
           ELSE /\ StoreRoute(e, Refused(routes[e]))
                /\ UNCHANGED meant

\* The handlers; one whose version is gone answers with an error page (Lost).
OfVersion(e, no) == {i \in DOMAIN routes[e].versions : routes[e].versions[i].version = no}

Handle(r, ok) ==
    LET e == r.body.env
    IN  \/ /\ r.kind = "list"
           /\ ok
           /\ UNCHANGED <<routes, meant>>
        \/ /\ r.kind \in {"save", "save to publish"}
           /\ ok = (r.body.graph.nodes # <<>>)
           /\ IF ok THEN StoreRoute(e, Updated(routes[e], r.body.graph)) ELSE UNCHANGED routes
           /\ UNCHANGED meant
        \/ r.kind = "publish" /\ PublishWorkflow(r, ok)
        \/ /\ r.kind = "rollback"
           /\ ok
           /\ \E i \in OfVersion(e, r.body.version) :
                LET v == routes[e].versions[i]
                IN  StoreRoute(e, Snapshot([routes[e] EXCEPT !.status = "draft", !.version = @ + 1,
                      !.stamp = @ + 1, !.nodes = v.graph.nodes, !.edges = v.graph.edges, !.errors = v.errors], "given"))
           /\ UNCHANGED meant
        \/ /\ r.kind = "rename"
           /\ ok
           /\ \E i \in OfVersion(e, r.body.version) :
                StoreRoute(e, [routes[e] EXCEPT !.versions[i].name = r.body.name])
           /\ UNCHANGED meant
        \/ /\ r.kind = "delete"
           /\ \E i \in OfVersion(e, r.body.version) :
                /\ ok = (routes[e].versions[i].status # "published"
                         /\ r.body.version # routes[e].version)
                /\ IF ok THEN StoreRoute(e, [routes[e] EXCEPT !.versions = RemoveAt(@, i)])
                   ELSE UNCHANGED routes
           /\ UNCHANGED meant
        \/ /\ r.kind = "create"
           /\ ok
           /\ StoreRoute(e,
                IF e \in DOMAIN routes THEN Updated(routes[e], GraphOf(routes[e]))
                ELSE Snapshot([status |-> "draft", version |-> 1, nodes |-> <<>>, edges |-> <<>>,
                               stamp |-> 0, errors |-> FALSE, versions |-> <<>>], "given"))
           /\ UNCHANGED meant

ServeDrawer(r) ==
    \E ok \in BOOLEAN : Handle(r, ok) /\ Served(r, ok) /\ UNCHANGED <<listing, bar, drawer, wizard>>

----------------------------------------------------------------------------
\* The answers: the list as it is now, under the filters of the page's address; the
\* drawer's effect runs when its route's updated_at is another.
Given(a) == LET filters == IF a.kind = "list" THEN a.body.filters ELSE listing.filters
            IN  [list |-> Matching(filters), filters |-> filters]
Refreshed(d, list) ==
    IF d.open /\ Editing(d, list).stamp # Editing(d, listing.list).stamp
    THEN Loaded(d, Editing(d, list)) ELSE d

Closes(a) == a.ok /\ a.kind \in {"save", "publish", "rollback"}

AnswerDrawer(a) ==
    /\ listing' = Given(a)
    /\ drawer' = IF Closes(a) THEN Closed0 ELSE Refreshed(drawer, listing'.list)
    /\ wizard' = IF a.kind = "create" THEN [wizard EXCEPT !.step = 0] ELSE wizard
    /\ IF a.kind = "save to publish" /\ a.ok
       THEN Follow("publish", a.body) /\ UNCHANGED <<acts, broken>>
       ELSE Returned
    /\ UNCHANGED <<routes, bar, meant>>

----------------------------------------------------------------------------
DrawerClick ==
    \/ \E e \in DOMAIN listing.list : OpenDrawer(e)
    \/ CloseDrawer \/ ToggleAutoFailover \/ Save \/ PublishRoute
    \/ \E alias \in Aliases0 : drawer.open /\ AddProvider(alias)
    \/ \E i \in DOMAIN drawer.graph.nodes :
         LET id == drawer.graph.nodes[i].id
         IN  \/ RemoveProvider(id) \/ ToggleEnabled(id)
             \/ \E w \in Shares : SetWeight(id, w)
             \/ \E j \in DOMAIN drawer.graph.nodes : ReorderNode(id, drawer.graph.nodes[j].id)
    \/ \E mode \in {"order", "split"} : SetMode(mode)
    \/ /\ drawer.open
       /\ \E i \in DOMAIN CurrentEditing.versions :
            LET v == CurrentEditing.versions[i]
            IN  RestoreVersion(v) \/ DeleteVersion(v) \/ RenameVersion(v, "typed")

PageClick ==
    \/ NewRoute \/ NameRoute \/ WizardNext \/ WizardBack \/ SubmitRoute
    \/ \E e \in Env : ChooseEnv(e)
    \/ \E s \in {"", "draft", "published"} : ChooseStatus(s)
    \/ ClearFilters \/ ClearFromList \/ SwitchSections
    \/ \E text \in {"", "x"} : HandleSearch(text)

DrawerNext ==
    \/ \E g \in StoredRoutes : OpenPage(g)
    \/ DrawerClick \/ PageClick
    \/ \E filters \in bar.timer \union bar.left : SearchFires(filters)
    \/ \E r \in inbox : ServeDrawer(r)
    \/ \E a \in answered : AnswerDrawer(a)
    \/ \E r \in inbox \union answered : Lost(r) /\ UNCHANGED drawerVars

----------------------------------------------------------------------------
\* Unless a visit was interrupted or lost: what a click on "Make it live" makes live is the graph on
\* the screen at that click, though it is sent in one request and published by another, and what
\* the admin draws meanwhile or a refusal in between does not become live with it.
LiveIsWhatWasSent ==
    ~broken => \A e \in DOMAIN routes : routes[e].status = "published" => GraphOf(routes[e]) = meant[e]

\* Both pages show the providers in the order they are deployed in: the merchant's always, and the
\* paused ones among them; the admin's, of a route drawn in the builder, when its nodes are in order.
\* A provider that is drawn twice, once in use and once paused, is excepted.  Of a route that is not
\* drawn, both badges and the admin's sentence tell the strategy that is deployed.
Apart(ns) == \A n, m \in Providers(ns) : n.alias = m.alias => n.enabled = m.enabled
ChainIsShown ==
    \A e \in DOMAIN routes :
      LET ns == routes[e].nodes
          Used(aliases) == Only(aliases, ToSet(Deployed(ns).chain))
          admin == RouteCard(routes[e])
          flow == [i \in DOMAIN admin.flow |-> admin.flow[i].alias]
      IN  /\ Apart(ns) => Used(WorkflowCard(routes[e]).chain) = Deployed(ns).chain
          /\ ~ShownAsDrawn(ns) \/ (Ranked(ns) /\ Apart(ns)) => Used(flow) = Deployed(ns).chain
          /\ (~IsVisual(ns) /\ Deployed(ns).chain # <<>>) =>
               /\ admin.badge = Deployed(ns).strategy
               /\ admin.summary.kind = Deployed(ns).strategy
               /\ WorkflowCard(routes[e]).badge = Deployed(ns).strategy

\* The strips above the pages raise an alarm when, and only when, a provider below is shown as
\* down (the admin's) or as anything but healthy (the merchant's).
HealthIsTold ==
    \A rows \in [1..2 -> [status : HealthStatus, failures : 0..1]] :
      LET labels == {HealthLabel(rows[i]) : i \in DOMAIN rows}
      IN  /\ StatusStrip(rows) > 0 <=> "down" \in labels
          /\ SummaryStrip(rows) > 0 <=> labels # {"healthy"}

\* What the admin's page and the merchant's tell of a route and of its providers' health is what is
\* deployed and stored, so they do not contradict each other.
PagesAgree == ChainIsShown /\ HealthIsTold
=============================================================================
