----------------------------- MODULE Workbooks -----------------------------
(***************************************************************************)
(* Dashboards and analyses (routes.py): lists of panels and of cells, each *)
(* with an instruction that a viewer runs and never receives.              *)
(*                                                                         *)
(* A request reads the row, merges and checks what it was sent against it, *)
(* and writes the row back whole.  A flow is abstracted to the cells it    *)
(* refers to, a column it needs and one that it makes; charts and bindings *)
(* are left out, and no source is withheld from anybody.  Cell ids are of  *)
(* the form c<n>: others never meet the counter.  A behaviour is of one    *)
(* book: they share nothing.                                               *)
(***************************************************************************)
EXTENDS Naturals, Sequences, FiniteSets

CONSTANTS
    Editors,        \* requests at a time
    Bodies,         \* kind of book -> what may be sent for an item: some of its fields
    Lists,          \* kind of book -> whole lists that may be sent: of [id, body], id 0 for none
    Columns,        \* of every dataset
    MaxItems,       \* in a book (50 in the code)
    MaxSaves        \* bound on the requests

ASSUME WorkbooksAssumption ==
    /\ {MaxItems, MaxSaves} \subseteq Nat
    /\ \A k \in {"dashboard", "analysis"} : \A list \in Lists[k] :
          list \in Seq([id : Nat, body : {list[j].body : j \in DOMAIN list}])

VARIABLES
    kind,       \* "dashboard" or "analysis"
    book,       \* its row: [items, next], next = 0 when there is none
    change,         \* editor -> frame
    changes         \* requests so far

workbookVars == <<kind, book, change, changes>>

NoBook == [items |-> <<>>, next |-> 0]
NoChange == [seen |-> NoBook, row |-> NoBook, sent |-> <<>>]

NoFlow == <<>>
Flow(refs, needs, makes) == <<[refs |-> refs, needs |-> needs, makes |-> makes]>>
Unwritten == [sql |-> "", object |-> "", flow |-> NoFlow, inputs |-> {}, title |-> ""]
Instruction == {"sql", "object", "flow", "inputs"}

WorkbooksInit ==
    /\ kind \in {"dashboard", "analysis"} /\ book = NoBook
    /\ change = [e \in Editors |-> NoChange] /\ changes = 0

IdsOf(items) == {items[k].id : k \in DOMAIN items}

PlacesOf(items, i) == {k \in DOMAIN items : items[k].id = i}

\* An id of a dashboard may be there twice, and means the first then.
Find(items, i) ==
    items[CHOOSE k \in PlacesOf(items, i) : \A j \in PlacesOf(items, i) : k <= j]

NoneTwice(ids) == \A j, k \in DOMAIN ids : ids[j] = ids[k] => j = k

-----------------------------------------------------------------------------
(* Items. *)

\* _exactly_one_source, of a panel and of a cell.
WellFormed(item) ==
    /\ Cardinality({f \in {"sql", "object"} : item[f] # ""}
                   \cup IF item.flow # NoFlow THEN {"flow"} ELSE {}) = 1
    /\ kind = "analysis" => item.object = "" /\ (item.sql # "" => item.inputs = {})

Labelled(items) ==
    [k \in DOMAIN items |-> IF items[k].title = "" THEN [items[k] EXCEPT !.title = "untitled"]
                            ELSE items[k]]

\* What was not sent is not changed.
Merged(prior, fields, body) ==
    [f \in DOMAIN Unwritten |->
        IF f \in DOMAIN body THEN body[f] ELSE IF f \in fields THEN prior[f] ELSE Unwritten[f]]

Item(i, fields) ==
    [id |-> i, sql |-> fields.sql, object |-> fields.object, flow |-> fields.flow,
     inputs |-> fields.inputs, title |-> fields.title]

\* A mutant: the item at the same place.
PriorAt(items, i, k) == IF k \in DOMAIN items THEN items[k] ELSE Unwritten

\* The stored item of that id, and the last if there are two.
Prior(items, i, k) ==
    IF i \in IdsOf(items)
    THEN items[CHOOSE m \in PlacesOf(items, i) : \A j \in PlacesOf(items, i) : j <= m]
    ELSE Unwritten

\* A whole list over the stored one: a panel's presentation is not inherited.
MergedList(ids, list) ==
    LET fields == IF kind = "analysis" THEN DOMAIN Unwritten ELSE Instruction
    IN  [k \in DOMAIN list |->
            Item(ids[k], Merged(Prior(book.items, ids[k], k), fields, list[k].body))]

-----------------------------------------------------------------------------
(* Chains of cells. *)

InputsOf(cells, i) == IF i \in IdsOf(cells) THEN Find(cells, i).inputs ELSE {}

Closed(cells, ids) == \A i \in ids : InputsOf(cells, i) \subseteq ids

\* The cells that these take their input from, directly or not, and these.
Closure(cells, ids) ==
    LET all == ids \cup IdsOf(cells) \cup UNION {InputsOf(cells, i) : i \in IdsOf(cells)}
    IN  {i \in all : \A above \in SUBSET all : ids \subseteq above /\ Closed(cells, above) => i \in above}

Offered(cells, i) ==
    LET refs == Find(cells, i).flow[1].refs
    IN  IF refs = {} THEN Columns ELSE {Find(cells, j).flow[1].makes : j \in refs}

\* _analysis_closure and the compiler: every cell above is a shaping cell of
\* this analysis, none is above itself, inputs are what the steps refer to,
\* and columns are there.
Compiles(cells, i) ==
    LET chain == Closure(cells, {i}) IN
    /\ chain \subseteq IdsOf(cells)
    /\ \A j \in chain :
        /\ Find(cells, j).flow # NoFlow
        /\ j \notin Closure(cells, InputsOf(cells, j))
        /\ Find(cells, j).flow[1].refs = Find(cells, j).inputs
    /\ \A j \in chain : Find(cells, j).flow[1].needs \in Offered(cells, j)

\* A mutant: only the cell that was sent is checked.
ChangedOnly(cells, changed) == changed

\* What a changed cell may have broken: itself and the cells built on it.
Affected(cells, changed) == {i \in IdsOf(cells) : changed \cap Closure(cells, {i}) # {}}

CellsCompile(cells, changed) ==
    \A i \in Affected(cells, changed) : Find(cells, i).flow # NoFlow => Compiles(cells, i)

\* A viewer's run of a stored cell.
CellRuns(cells, i) == Find(cells, i).flow = NoFlow \/ Compiles(cells, i)

PanelCompiles(panel) == panel.flow # NoFlow => panel.flow[1].needs \in Columns

\* A viewer's run of a stored panel: the object's aggregate first, then the flow.
Executed(item) ==
    IF item.object # "" THEN [Unwritten EXCEPT !.object = item.object]
    ELSE IF item.flow # NoFlow THEN [Unwritten EXCEPT !.flow = item.flow]
    ELSE [Unwritten EXCEPT !.sql = item.sql]

-----------------------------------------------------------------------------
(* Requests. What a request has checked is all it writes. *)

Accept(e, items, next, sent) ==
    /\ change[e] = NoChange /\ changes < MaxSaves /\ changes' = changes + 1
    /\ \A k \in DOMAIN items : WellFormed(items[k])
    /\ change' = [change EXCEPT ![e] =
            [seen |-> book, row |-> [items |-> Labelled(items), next |-> next], sent |-> sent]]
    /\ UNCHANGED <<kind, book>>

Exists(k) == kind = k /\ book # NoBook
Whole(body) == Merged(Unwritten, {}, body)
Sent(i, body) == [j \in {i} |-> body]
Replaced(i, item) ==
    [k \in DOMAIN book.items |-> IF book.items[k].id = i THEN item ELSE book.items[k]]
Without(i) ==
    LET kept[n \in 0..Len(book.items)] ==
            IF n = 0 THEN <<>>
            ELSE IF book.items[n].id = i THEN kept[n - 1] ELSE Append(kept[n - 1], book.items[n])
    IN  kept[Len(book.items)]

AddPanel(e) == \E i \in 1..MaxItems, body \in Bodies["dashboard"] :
    LET panel == Item(i, Whole(body)) IN
    /\ Exists("dashboard") /\ Len(book.items) < MaxItems /\ i \notin IdsOf(book.items)
    /\ PanelCompiles(panel)
    /\ Accept(e, Append(book.items, panel), 1, Sent(i, Whole(body)))

\* A panel is replaced whole, wherever its id is.
UpdatePanel(e) == \E i \in IdsOf(book.items), body \in Bodies["dashboard"] :
    LET panel == Item(i, Whole(body)) IN
    /\ Exists("dashboard") /\ PanelCompiles(panel)
    /\ Accept(e, Replaced(i, panel), 1, Sent(i, Whole(body)))

DeletePanel(e) == \E i \in IdsOf(book.items) :
    Exists("dashboard") /\ Accept(e, Without(i), 1, <<>>)

\* PUT: neither flows nor repeated ids are looked at.
PutDashboard(e) == \E list \in Lists["dashboard"] :
    LET ids == [k \in DOMAIN list |-> list[k].id] IN
    /\ kind = "dashboard" /\ Len(list) <= MaxItems
    /\ Accept(e, MergedList(ids, list), 1,
              [i \in {list[k].id : k \in DOMAIN list} |-> Find(list, i).body])

AddCell(e) == \E body \in Bodies["analysis"] :
    LET i == CHOOSE n \in (book.next..(book.next + MaxItems)) \ IdsOf(book.items) :
                \A m \in book.next..(n - 1) : m \in IdsOf(book.items)
        cells == Append(book.items, Item(i, Whole(body))) IN
    /\ Exists("analysis") /\ Len(book.items) < MaxItems
    /\ CellsCompile(cells, {i})
    /\ Accept(e, cells, i + 1, Sent(i, body))

UpdateCell(e) == \E i \in IdsOf(book.items), body \in Bodies["analysis"] :
    LET cells == Replaced(i, Item(i, Merged(Find(book.items, i), DOMAIN Unwritten, body))) IN
    /\ Exists("analysis") /\ CellsCompile(cells, {i})
    /\ Accept(e, cells, book.next, Sent(i, body))

DeleteCell(e) == \E i \in IdsOf(book.items) :
    /\ Exists("analysis") /\ \A c \in IdsOf(book.items) : i \notin InputsOf(book.items, c)
    /\ Accept(e, Without(i), book.next, <<>>)

\* PUT: cells without an id are numbered from the counter, which then passes
\* every number there is.
PutAnalysis(e) == \E list \in Lists["analysis"] :
    LET first == IF book = NoBook THEN 1 ELSE book.next
        Unnumbered(n) == Cardinality({k \in 1..n : list[k].id = 0})
        ids == [k \in DOMAIN list |->
                    IF list[k].id # 0 THEN list[k].id ELSE first + Unnumbered(k - 1)]
        cells == MergedList(ids, list)
        after == {first + Unnumbered(Len(list))} \cup {i + 1 : i \in IdsOf(cells)}
        next == CHOOSE n \in after : \A m \in after : m <= n IN
    /\ kind = "analysis" /\ Len(list) <= MaxItems /\ NoneTwice(ids)
    /\ CellsCompile(cells, IdsOf(cells))
    /\ Accept(e, cells, next,
              [i \in IdsOf(cells) |-> list[CHOOSE k \in DOMAIN ids : ids[k] = i].body])

Save(e) ==
    /\ change[e] # NoChange /\ book' = change[e].row
    /\ change' = [change EXCEPT ![e] = NoChange]
    /\ UNCHANGED <<kind, changes>>

\* The server dies before it has written.
AbandonChange(e) ==
    /\ change[e] # NoChange
    /\ change' = [change EXCEPT ![e] = NoChange]
    /\ UNCHANGED <<kind, book, changes>>

DeleteBook ==
    /\ book # NoBook /\ changes < MaxSaves /\ changes' = changes + 1 /\ book' = NoBook
    /\ UNCHANGED <<kind, change>>

WorkbooksNext ==
    \/ DeleteBook
    \/ \E e \in Editors :
        \/ AddPanel(e) \/ UpdatePanel(e) \/ DeletePanel(e) \/ PutDashboard(e)
        \/ AddCell(e) \/ UpdateCell(e) \/ DeleteCell(e) \/ PutAnalysis(e)
        \/ Save(e) \/ AbandonChange(e)

WorkbooksSpec == WorkbooksInit /\ [][WorkbooksNext]_workbookVars

-----------------------------------------------------------------------------
(* "Editing an upstream cell is exactly the edit that breaks the cells     *)
(* built on it, and the editor should hear that now, not when a viewer's   *)
(* run fails": every stored cell runs, its id is its own and none that the *)
(* counter will hand out, whatever requests overlap.                       *)
ChainsHold ==
    kind = "analysis" =>
        /\ \A i \in IdsOf(book.items) : CellRuns(book.items, i) /\ i < book.next
        /\ NoneTwice([k \in DOMAIN book.items |-> book.items[k].id])

Alone(items) == {k \in DOMAIN items : \A j \in DOMAIN items : items[j].id = items[k].id => j = k}

(* "A client that only ever sends the panel it changed cannot blank the    *)
(* panel it did not", and "absence is unchanged, never blank it": a write  *)
(* over the row it was made from leaves what an item executes as it was,   *)
(* unless it was sent an instruction for it, which is executed from then   *)
(* on.  Two requests that overlap lose one of their edits whole, and only  *)
(* a dashboard can have two items of one id.                               *)
UnsentIsUnchanged ==
    [][\A e \in Editors :
        LET q == change[e]
            before == q.seen.items
            after == q.row.items IN
        Save(e) /\ q.seen = book =>
            \A i \in {before[k].id : k \in Alone(before)} \cap IdsOf(after) :
                LET sent == IF i \in DOMAIN q.sent THEN q.sent[i] ELSE [title |-> ""]
                    written == {f \in DOMAIN sent \cap Instruction : sent[f] # Unwritten[f]} IN
                /\ DOMAIN sent \cap Instruction = {}
                    => Executed(Find(after, i)) = Executed(Find(before, i))
                /\ \A f \in written : Find(after, i)[f] = sent[f]]_workbookVars
=============================================================================
