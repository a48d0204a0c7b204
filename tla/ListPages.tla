------------------------------ MODULE ListPages ------------------------------
(***************************************************************************)
(* The portals' lists with a form of filters above and links to their      *)
(* pages below.  In the SaaS portal: the merchant's keys                   *)
(* (ApiKeys/Index.jsx), payments (Payments/Index.jsx) and webhook          *)
(* deliveries (Webhooks/Logs.jsx); in the admin portal: keys, payments and *)
(* merchants (Pages/Admin/.../Index.jsx).  They differ in what a visit     *)
(* keeps; the list of merchants has no button for its filters but a timer, *)
(* and a dialogue that assigns a provider.                                 *)
(***************************************************************************)
EXTENDS Inertia, Integers, Sequences, FiniteSets, SequencesExt

CONSTANTS
    Entries,      \* what is listed, newest first
    Filters,      \* what the form may ask for
    Matches(_, _), \* whether an entry is what a filter asks for
    PageSize,
    MaxListVisits \* bound: what the user does on a list

ASSUME PageSizeAssumption == PageSize \in Nat \ {0}

VARIABLES
    listPage,     \* the page: its list and form, its local state and its props
    dropped       \* history: a filtered visit was lost, or interrupted by the dialogue's

listVars == <<listPage, dropped>>

NoFilter == ""
NoEntry == "none"
(* What distinguishes the lists: whether filtering keeps the page's state, whether the links to the *)
(* other pages carry the filters (withQueryString), whether the form's button waits for its visit   *)
(* (useForm's processing), whether there is a timer instead of a button, and how rows are unfolded:  *)
(* one at a time, each for itself, or once and for all.                                             *)
SaasKeys == [keeps |-> TRUE, links |-> FALSE, waits |-> FALSE, timer |-> FALSE, unfolds |-> "all"]
SaasPayments == [keeps |-> FALSE, links |-> FALSE, waits |-> TRUE, timer |-> FALSE, unfolds |-> "one"]
SaasDeliveries == [keeps |-> FALSE, links |-> TRUE, waits |-> TRUE, timer |-> FALSE, unfolds |-> "each"]
AdminKeys == [keeps |-> TRUE, links |-> TRUE, waits |-> FALSE, timer |-> FALSE, unfolds |-> "all"]
AdminPayments == [keeps |-> FALSE, links |-> TRUE, waits |-> FALSE, timer |-> FALSE, unfolds |-> "each"]
AdminMerchants == [keeps |-> TRUE, links |-> TRUE, waits |-> FALSE, timer |-> TRUE, unfolds |-> "all"]

Lists == {SaasKeys, SaasPayments, SaasDeliveries, AdminKeys, AdminPayments, AdminMerchants}

Listed(f) == SelectSeq(Entries, LAMBDA e : Matches(f, e))
PagesOf(f) == 1..((Len(Listed(f)) + PageSize - 1) \div PageSize)
PageRows(f, no) ==
    LET last == no * PageSize
        all == Listed(f)
    IN  SubSeq(all, last - PageSize + 1, IF last < Len(all) THEN last ELSE Len(all))

FirstOf(rows) == IF rows = <<>> THEN NoEntry ELSE rows[1]

\* A page as it is mounted; the effect of the merchants' list runs then, too.
ListMounted(list, filter, no) ==
    [list |-> list, form |-> filter, filter |-> filter, page |-> no, rows |-> PageRows(filter, no),
     open |-> {}, timer |-> list.timer, touched |-> FALSE,
     dialogue |-> FALSE, to |-> FirstOf(PageRows(filter, no))]

ListInit ==
    /\ \E list \in Lists : listPage = ListMounted(list, NoFilter, 1)
    /\ dropped = FALSE

----------------------------------------------------------------------------
(***************************************************************************)
(* The list.  The merchants' dialogue covers it.                           *)
(***************************************************************************)
OnList(page) ==
    /\ acts < MaxListVisits /\ ~listPage.dialogue
    /\ listPage' = page
    /\ UNCHANGED dropped
    /\ Act

AsksFor(by, filter, no, keep, page) ==
    /\ acts < MaxListVisits /\ ~listPage.dialogue
    /\ listPage' = page
    /\ UNCHANGED dropped
    /\ Visit("list", [by |-> by, filter |-> filter, page |-> no, keep |-> keep])

\* Fault: the effect of the list of merchants forgets one of the fields it depends on.
TypeQuietly(f) ==
    /\ f # listPage.form
    /\ OnList([listPage EXCEPT !.form = f, !.touched = ~listPage.list.timer])

\* A field of the form; the list of merchants starts its timer anew.
TypeFilter(f) ==
    /\ f # listPage.form
    /\ OnList([listPage EXCEPT !.form = f, !.timer = listPage.list.timer, !.touched = ~listPage.list.timer])

ListUnderWay(by) ==
    \E r \in inbox \union answered : r.no = current /\ r.kind = "list" /\ r.body.by = by

\* submitFilters, applyFilters, submit
SubmitFilters ==
    /\ ~listPage.list.timer
    /\ listPage.list.waits => ~ListUnderWay("form")
    /\ AsksFor("form", listPage.form, 1, listPage.list.keeps, [listPage EXCEPT !.touched = FALSE])

\* resetFilters, clearFilters, reset
ResetFilters ==
    /\ ~listPage.list.timer
    /\ AsksFor("reset", NoFilter, 1, FALSE, [listPage EXCEPT !.form = NoFilter, !.touched = FALSE])

\* A paginator's link goes to a page of the list as it was asked for, or of all there is.
FollowLink(no) ==
    LET filter == IF listPage.list.links THEN listPage.filter ELSE NoFilter
    IN  /\ no # listPage.page
        /\ AsksFor("link", filter, no, FALSE, listPage)

\* The effect's timer, 300 ms after the last change; the page is left out of what it asks for.
FilterTimer ==
    /\ listPage.timer
    /\ listPage' = [listPage EXCEPT !.timer = FALSE]
    /\ Follow("list", [by |-> "timer", filter |-> listPage.form, page |-> 1, keep |-> TRUE])
    /\ UNCHANGED <<dropped, acts, broken>>

Unfolds(how, rows) ==
    /\ listPage.list.unfolds = how /\ rows # listPage.open
    /\ OnList([listPage EXCEPT !.open = rows])

\* A payment's timeline in the SaaS portal.
ToggleWorkflow(e) == Unfolds("one", {e} \ listPage.open)

\* A delivery's details, a payment's in the admin portal.
ToggleRow(e) == Unfolds("each", IF e \in listPage.open THEN listPage.open \ {e} ELSE listPage.open \union {e})

\* All the scopes of a key, all the providers of a merchant.
ShowAll(e) == Unfolds("all", listPage.open \union {e})

----------------------------------------------------------------------------
\* The dialogue of the list of merchants.  A select shows its first option when it has none for
\* its value.
ShownMerchant == IF listPage.to \in ToSet(listPage.rows) THEN listPage.to ELSE FirstOf(listPage.rows)

InDialogue(page) ==
    /\ acts < MaxListVisits
    /\ listPage' = page
    /\ UNCHANGED dropped
    /\ Act

\* openAssign, from a merchant's row or, for the first one, from above the list.
OpenAssign(m) ==
    /\ listPage.list.timer /\ ~listPage.dialogue
    /\ InDialogue([listPage EXCEPT !.dialogue = TRUE, !.to = m])

CloseAssign == listPage.dialogue /\ InDialogue([listPage EXCEPT !.dialogue = FALSE])

ChooseMerchant(m) ==
    /\ listPage.dialogue /\ m # ShownMerchant
    /\ InDialogue([listPage EXCEPT !.to = m])

\* A post goes back to the address it came from, and keeps the page's state.
AssignProviderTo(valid) ==
    /\ listPage.dialogue /\ listPage.to # NoEntry
    /\ acts < MaxListVisits
    /\ ~\E r \in inbox \union answered : r.no = current /\ r.body.by \in {"assign", "refused"}
    /\ dropped' = (dropped \/ current # 0)
    /\ UNCHANGED listPage
    /\ Visit("assign", [by |-> "assign", to |-> listPage.to, valid |-> valid, filter |-> listPage.filter, page |-> listPage.page])

----------------------------------------------------------------------------
\* storeProvider, and back().
StoreProvider(r) ==
    /\ r.kind = "assign"
    /\ inbox' = (inbox \ {r}) \union
                (IF current # r.no THEN {}
                 ELSE {[no |-> r.no, kind |-> "list",
                        body |-> [by |-> IF r.body.valid THEN "assign" ELSE "refused", filter |-> r.body.filter,
                                  page |-> r.body.page, keep |-> TRUE]]})
    /\ UNCHANGED <<listPage, dropped, current, answered, sent, acts, broken>>

ServeRows(r) ==
    /\ r.kind = "list"
    /\ UNCHANGED listVars
    /\ Served(r, TRUE)

ListLost(r) ==
    /\ UNCHANGED listPage
    /\ dropped' = TRUE
    /\ Lost(r)

\* The page is mounted anew, or keeps its state; onSuccess closes the dialogue.
RowsArrive(a) ==
    LET b == a.body
        kept == [listPage EXCEPT !.filter = b.filter, !.page = b.page, !.rows = PageRows(b.filter, b.page),
                                !.dialogue = @ /\ b.by # "assign"]
    IN  /\ listPage' = IF b.keep THEN kept ELSE ListMounted(listPage.list, b.filter, b.page)
        /\ UNCHANGED dropped
        /\ Returned

----------------------------------------------------------------------------
ListNext ==
    \/ \E f \in Filters \union {NoFilter} : TypeFilter(f)
    \/ SubmitFilters \/ ResetFilters \/ FilterTimer
    \/ \E no \in PagesOf(listPage.filter) : FollowLink(no)
    \/ \E e \in ToSet(listPage.rows) :
         \/ ToggleWorkflow(e) \/ ToggleRow(e) \/ ShowAll(e)
         \/ OpenAssign(e) \/ ChooseMerchant(e)
    \/ CloseAssign
    \/ \E valid \in BOOLEAN : AssignProviderTo(valid)
    \/ \E r \in inbox : StoreProvider(r) \/ ServeRows(r)
    \/ \E r \in inbox \union answered : ListLost(r)
    \/ \E a \in answered : RowsArrive(a)

----------------------------------------------------------------------------
\* Once a list is at rest, its rows are what its filters ask for: whatever was typed, applied,
\* reset and turned over while answers were under way, unless a visit was lost or interrupted by
\* the dialogue's, or the form was changed and not applied.
ListIsWhatFormSays ==
    current = 0 /\ ~listPage.timer /\ ~listPage.touched /\ ~dropped =>
        listPage.filter = listPage.form /\ listPage.rows = PageRows(listPage.form, listPage.page)
=============================================================================
