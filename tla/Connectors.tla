----------------------------- MODULE Connectors -----------------------------
(***************************************************************************)
(* Syncs of one source (connectors/connectors.py, sync_source): rows are   *)
(* pulled from a table that grows, appended to a dataset, and the greatest *)
(* cursor value seen is recorded, to pull only greater ones the next time. *)
(* An append reads the latest version before it pulls and registers that   *)
(* version's parts and its own, as the next version whatever that is; the  *)
(* record is another transaction. Syncs may overlap (a schedule and two    *)
(* routes start them) and die, and an admin may redefine the source        *)
(* meanwhile. Other writers of the datasets are left out.                  *)
(*                                                                         *)
(* A row is its cursor value. Cursor values are compared as numbers by the *)
(* table and within a batch, and as text between batches.                  *)
(***************************************************************************)
EXTENDS Integers, Sequences, FiniteSets

CONSTANTS
    Syncs,          \* threads that may be running sync_source
    SyncTargets,    \* datasets
    MaxRow,         \* the rows' cursor values are 1..MaxRow, inserted in order
    TextRanks,      \* for the orders their texts may have: where each value comes
    MaxSyncs,       \* bound on the syncs
    MaxPuts         \* bound on the redefinitions

ASSUME ConnectorsAssumption ==
    /\ SyncTargets # {}
    /\ MaxRow \in Nat /\ MaxSyncs \in Nat /\ MaxPuts \in Nat
    /\ TextRanks \subseteq [1..MaxRow -> Nat]

VARIABLES
    rank,           \* how the values compare as text
    top,            \* the table has the rows 1..top
    source,         \* the row of sources: where to, how, and the cursor, 0 for none
    stored,         \* stored[d]: the rows of the dataset's latest version
    published,      \* the datasets that have a version
    sync,           \* sync[s]: a sync in progress
    syncs, puts,    \* counters under the bounds
    disturbed       \* history: what came in the way of the syncs

connectorVars == <<rank, top, source, stored, published, sync, syncs, puts, disturbed>>

NoSource == [exists |-> FALSE, target |-> CHOOSE d \in SyncTargets : TRUE, mode |-> "append",
             cursor |-> 0]
NoSync == [pc |-> "idle", source |-> NoSource, follows |-> FALSE, base |-> <<>>, rows |-> <<>>,
           cursor |-> 0]

Held(q) == {q[i] : i \in DOMAIN q}

Running == {s \in Syncs : sync[s].pc # "idle"}

ConnectorsInit ==
    /\ rank \in TextRanks
    /\ top = 0
    /\ source = NoSource
    /\ stored = [d \in SyncTargets |-> <<>>] /\ published = {}
    /\ sync = [s \in Syncs |-> NoSync]
    /\ syncs = 0 /\ puts = 0 /\ disturbed = {}

InsertRow ==
    /\ top < MaxRow /\ top' = top + 1
    /\ UNCHANGED <<rank, source, stored, published, sync, syncs, puts, disturbed>>

-----------------------------------------------------------------------------
(* PUT and DELETE of the source. An update keeps the cursor. *)

Redirected(target, mode) ==
    \/ source.target # target
    \/ source.mode # mode
    \/ Running # {}

PutSource == \E target \in SyncTargets, mode \in {"append", "replace"} :
    /\ puts < MaxPuts /\ puts' = puts + 1
    /\ source' = [exists |-> TRUE, target |-> target, mode |-> mode,
                  cursor |-> source.cursor]
    /\ disturbed' = disturbed \cup
            (IF syncs > 0 /\ Redirected(target, mode) THEN {"redefined"} ELSE {})
    /\ UNCHANGED <<rank, top, stored, published, sync, syncs>>

DeleteSource ==
    /\ source.exists
    /\ puts < MaxPuts /\ puts' = puts + 1
    /\ source' = NoSource
    /\ disturbed' = disturbed \cup (IF syncs > 0 THEN {"redefined"} ELSE {})
    /\ UNCHANGED <<rank, top, stored, published, sync, syncs>>

-----------------------------------------------------------------------------
(* One sync. *)

Begin(s) ==
    /\ sync[s].pc = "idle" /\ source.exists /\ syncs < MaxSyncs
    /\ sync' = [sync EXCEPT ![s] = [NoSync EXCEPT !.pc = "read", !.source = source]]
    /\ syncs' = syncs + 1
    /\ disturbed' = disturbed \cup (IF Running = {} THEN {} ELSE {"overlap"})
    /\ UNCHANGED <<rank, top, source, stored, published, puts>>

\* append_batches reads the version it adds to before the first batch is pulled;
\* with none yet, and to replace, write_batches adds to nothing.
ReadBase(s) ==
    LET d == sync[s].source.target
        follows == sync[s].source.mode = "append" /\ d \in published
    IN /\ sync[s].pc = "read"
       /\ sync' = [sync EXCEPT ![s].pc = "pull", ![s].follows = follows,
                               ![s].base = IF follows THEN stored[d] ELSE <<>>]
       /\ UNCHANGED <<rank, top, source, stored, published, syncs, puts, disturbed>>

\* Only an append with a cursor column is limited to what is above the mark.
Since(s) == IF sync[s].source.mode = "append" THEN sync[s].source.cursor ELSE 0

TextMax(values) == CHOOSE v \in values : \A o \in values : rank[o] <= rank[v]

(* Of every batch tracked() keeps the greatest value if it is greater, as  *)
(* text, than what it has. maxima are the greatest values of the batches,  *)
(* of which one is the greatest of all.                                    *)
Tracked(mode, rows, maxima) == IF mode = "replace" \/ rows = {} THEN 0 ELSE TextMax(maxima)

Pull(s) ==
    LET rows == (Since(s) + 1)..top
    IN /\ sync[s].pc = "pull"
       /\ \E maxima \in SUBSET rows :
             /\ rows # {} => top \in maxima
             /\ sync' = [sync EXCEPT ![s].pc = "write",
                                     ![s].rows = [i \in 1..(top - Since(s)) |-> Since(s) + i],
                                     ![s].cursor = Tracked(sync[s].source.mode, rows, maxima)]
       /\ UNCHANGED <<rank, top, source, stored, published, syncs, puts, disturbed>>

(* The version is the next, whatever was registered since the base was    *)
(* read: what the dataset holds by now and the base does not is dropped.   *)
Write(s) ==
    LET d == sync[s].source.target
        rows == sync[s].base \o sync[s].rows
    IN /\ sync[s].pc = "write"
       /\ sync[s].follows => sync[s].rows # <<>>
       /\ stored' = [stored EXCEPT ![d] = rows]
       /\ published' = published \cup {d}
       /\ disturbed' = disturbed \cup
            (IF sync[s].source.mode = "append" /\ ~(Held(stored[d]) \subseteq Held(rows))
             THEN {"dropped"} ELSE {})
       /\ sync' = [sync EXCEPT ![s].pc = "record"]
       /\ UNCHANGED <<rank, top, source, syncs, puts>>

\* Nothing new upstream: no version is registered.
WriteNothing(s) ==
    /\ sync[s].pc = "write" /\ sync[s].follows /\ sync[s].rows = <<>>
    /\ sync' = [sync EXCEPT ![s].pc = "record"]
    /\ UNCHANGED <<rank, top, source, stored, published, syncs, puts, disturbed>>

\* A mutant: the mark is the greatest value the table has by now.
MarkLatest(s) == IF sync[s].cursor = 0 THEN 0 ELSE top

Mark(s) == sync[s].cursor

\* record_source_sync: a row that is gone is not written, and no cursor
\* leaves the cursor there is.
RecordSync(s) ==
    /\ sync[s].pc = "record"
    /\ source' = IF source.exists /\ Mark(s) # 0
                 THEN [source EXCEPT !.cursor = Mark(s)] ELSE source
    /\ sync' = [sync EXCEPT ![s] = NoSync]
    /\ UNCHANGED <<rank, top, stored, published, syncs, puts, disturbed>>

(* The external system or the write fails, which is recorded without a     *)
(* cursor, or the replica dies.                                            *)
AbandonSync(s) ==
    /\ sync[s].pc # "idle"
    /\ sync' = [sync EXCEPT ![s] = NoSync]
    /\ disturbed' = disturbed \cup (IF sync[s].pc = "record" THEN {"unrecorded"} ELSE {})
    /\ UNCHANGED <<rank, top, source, stored, published, syncs, puts>>

ConnectorsNext ==
    \/ InsertRow \/ PutSource \/ DeleteSource
    \/ \E s \in Syncs :
          \/ Begin(s) \/ ReadBase(s) \/ Pull(s) \/ Write(s) \/ WriteNothing(s)
          \/ RecordSync(s) \/ AbandonSync(s)

ConnectorsSpec == ConnectorsInit /\ [][ConnectorsNext]_connectorVars

-----------------------------------------------------------------------------
Arrived(d) == Held(stored[d])

(* No row is pulled twice. tracked() says it keeps the mark so that an       *)
(* incremental sync never re-reads what it has ingested; it does for values  *)
(* that compare as text like they do in the table, unlike 9 and 10.          *)
NeverReReads ==
    disturbed = {} /\ source.mode = "append"
    /\ (\A v, w \in 1..MaxRow : v < w <=> rank[v] < rank[w])
        => \A i, j \in DOMAIN stored[source.target] :
            i # j => stored[source.target][i] # stored[source.target][j]

(* Whichever order cursors compare in, and however syncs die, a row below   *)
(* the mark, which will never be pulled again, is missing from the dataset   *)
(* only when an append that had read an older version was registered over    *)
(* the one with the row, and that takes syncs that overlap. Redefining a     *)
(* source is another matter, as it keeps the mark of what went elsewhere.    *)
(* Syncs that are recorded, one at a time, into one dataset, pull each row   *)
(* once.                                                                     *)
RowsArriveOnce ==
    /\ disturbed \cap {"redefined", "dropped"} = {} =>
           1..source.cursor \subseteq Arrived(source.target)
    /\ "dropped" \in disturbed => "overlap" \in disturbed
    /\ NeverReReads
=============================================================================
