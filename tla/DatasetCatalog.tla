--------------------------- MODULE DatasetCatalog ---------------------------
(***************************************************************************)
(* One managed dataset of laurelin/catalog/catalog.py: immutable Parquet   *)
(* parts in storage, and a dataset_versions row per version naming the     *)
(* parts it is made of (its manifest).  Several calls run at once, in the  *)
(* threads of several replicas; nothing locks the dataset.  A call stages  *)
(* its part, asks for the next version number and inserts the row, and     *)
(* each of the three is a step other calls can come between.               *)
(*                                                                         *)
(* The rows of a part are named by the call that first wrote them, so a    *)
(* batch of rows is identified with the key of the part it arrived in.     *)
(***************************************************************************)
EXTENDS Naturals, Sequences, FiniteSets

CONSTANTS
    Calls,          \* concurrent callers: request threads, build workers
    Parts,          \* part keys; new_part_key never repeats one
    Kinds,          \* the operations this instance exercises
    AutoCompact,    \* LAURELIN_AUTO_COMPACT_PARTS; 0 turns it off
    CrashAllowed    \* whether a replica may die in the middle of a call

AllKinds == {"write", "append", "append_batches", "compact", "writeback"}

ASSUME KindsAssumption == Kinds \subseteq AllKinds
ASSUME AutoCompactAssumption == AutoCompact \in Nat
ASSUME CrashAssumption == CrashAllowed \in BOOLEAN

VARIABLES
    versions,   \* dataset_versions: version number -> row
    stored,     \* the parts that exist in storage, complete
    content,    \* the batches a part holds
    allocated,  \* every part key ever handed out
    call        \* the local state of each caller

vars == <<versions, stored, content, allocated, call>>

-----------------------------------------------------------------------------
(* The manifest and what a reader of it sees. *)

PartsOf(manifest) == {manifest[i] : i \in 1..Len(manifest)}

RowsOf(manifest) == UNION {content[p] : p \in PartsOf(manifest)}

\* get_version(name, None): the newest row, 0 when there is none.
Latest == IF DOMAIN versions = {} THEN 0
          ELSE CHOOSE v \in DOMAIN versions : \A u \in DOMAIN versions : u <= v

ManifestAt(v) == IF v = 0 THEN << >> ELSE versions[v].files

Idle == [pc |-> "idle"]

\* Operations that rewrite rows they read, rather than publish new ones.
Rewrites(kind) == kind \in {"compact", "writeback"}

\* Operations whose new version references the parts of the one they read.
Inherits(kind) == kind \in {"append", "append_batches"}

-----------------------------------------------------------------------------
CatalogInit ==
    /\ versions = << >>
    /\ stored = {}
    /\ content = [p \in Parts |-> {}]
    /\ allocated = {}
    /\ call = [c \in Calls |-> Idle]

\* The version the call read before it wrote; a plain write reads none.
BaseOf(kind) == IF kind = "write" THEN 0 ELSE Latest

\* A call of this kind with a part key of its own.  doomed: the parts the
\* handlers of the enclosing frames delete.
Frame(kind, key, doomed) ==
    [pc |-> "stage", kind |-> kind, key |-> key, base |-> BaseOf(kind),
     number |-> 0, doomed |-> doomed]

\* write, append, compact and writeback up to the part key: they read the
\* newest version, which only the rewriting operations insist on having.
Begin(c, kind) ==
    /\ call[c].pc = "idle"
    /\ Rewrites(kind) => Latest # 0
    /\ \E k \in Parts \ allocated :
         /\ allocated' = allocated \cup {k}
         /\ call' = [call EXCEPT ![c] = Frame(kind, k, {})]
    /\ UNCHANGED <<versions, stored, content>>

\* The rows the call's part will hold.  A fold changes the rows it read: the
\* result is those rows and a batch of its own.
StagedRows(f) ==
    CASE f.kind = "compact"   -> RowsOf(ManifestAt(f.base))
      [] f.kind = "writeback" -> RowsOf(ManifestAt(f.base)) \cup {f.key}
      [] OTHER                -> {f.key}

\* append_batches of a delta with no rows in it: nothing is published.
EmptyDelta(c) ==
    LET f == call[c] IN
    /\ f.pc = "stage"
    /\ f.kind = "append_batches"
    /\ f.base # 0
    /\ call' = [call EXCEPT ![c] = Idle]
    /\ UNCHANGED <<versions, stored, content, allocated>>

\* storage.write_table: the part is complete at a key nobody else writes.
Stage(c) ==
    LET f == call[c] IN
    /\ f.pc = "stage"
    /\ Rewrites(f.kind) => PartsOf(ManifestAt(f.base)) \subseteq stored
    /\ stored' = stored \cup {f.key}
    /\ content' = [content EXCEPT ![f.key] = StagedRows(f)]
    /\ call' = [call EXCEPT ![c].pc = "number"]
    /\ UNCHANGED <<versions, allocated>>

\* A mutant: writeback before expect_version existed.
NoCompareAndSet(f) == FALSE

\* A fold is a compare-and-set against the version it read.
CompareAndSet(f) == f.kind = "writeback"

\* store.next_version: MAX(version) + 1, read in a transaction of its own.
TakeNumber(c) ==
    LET f == call[c] IN
    /\ f.pc = "number"
    /\ CompareAndSet(f) => Latest = f.base
    /\ call' = [call EXCEPT ![c] = [f EXCEPT !.pc = "insert", !.number = Latest + 1]]
    /\ UNCHANGED <<versions, stored, content, allocated>>

\* The manifest the call registers.  An append carries forward the parts of
\* the version it read before it wrote its own.
Manifest(f) ==
    IF Inherits(f.kind) THEN Append(ManifestAt(f.base), f.key) ELSE <<f.key>>

\* _maybe_compact, reached by an append that found a previous version.
CompactsNext(f) ==
    /\ Inherits(f.kind)
    /\ f.base # 0
    /\ AutoCompact > 0
    /\ Len(Manifest(f)) >= AutoCompact

\* A mutant: add_version written as an upsert.
InsertOrReplace(c) ==
    LET f == call[c] IN
    /\ f.pc = "insert"
    /\ versions' = [v \in DOMAIN versions \cup {f.number} |->
                      IF v = f.number
                      THEN [files |-> Manifest(f), source |-> f.kind, base |-> f.base]
                      ELSE versions[v]]
    /\ call' = [call EXCEPT ![c] = Idle]
    /\ UNCHANGED <<stored, content, allocated>>

\* add_version wins the number: the row insert is the publication.
Insert(c) ==
    LET f == call[c] IN
    /\ f.pc = "insert"
    /\ f.number \notin DOMAIN versions
    /\ versions' = [v \in DOMAIN versions \cup {f.number} |->
                      IF v = f.number
                      THEN [files |-> Manifest(f), source |-> f.kind, base |-> f.base]
                      ELSE versions[v]]
    /\ call' = [call EXCEPT ![c] =
                  IF CompactsNext(f)
                  THEN [f EXCEPT !.pc = "compact",
                                 !.doomed = IF f.kind = "append" THEN {f.key} ELSE {}]
                  ELSE Idle]
    /\ UNCHANGED <<stored, content, allocated>>

\* A mutant: the taken number is tried again.
SameNumber(f) == f.number

\* The number is taken: try the next one.
NextNumber(f) == f.number + 1

InsertDuplicate(c) ==
    LET f == call[c] IN
    /\ f.pc = "insert"
    /\ f.number \in DOMAIN versions
    /\ ~CompareAndSet(f)
    /\ call' = [call EXCEPT ![c].number = NextNumber(f)]
    /\ UNCHANGED <<versions, stored, content, allocated>>

\* The automatic compaction that ends an append: compact() of whatever is
\* newest by now, inside the append's own frame.
BeginNested(c) ==
    /\ call[c].pc = "compact"
    /\ \E k \in Parts \ allocated :
         /\ allocated' = allocated \cup {k}
         /\ call' = [call EXCEPT ![c] = Frame("compact", k, call[c].doomed)]
    /\ UNCHANGED <<versions, stored, content>>

\* A mutant: the handler cleans up everything the version would have named.
DoomManifest(f) == f.doomed \cup PartsOf(Manifest(f))

\* The parts the exception handlers around the call delete.  append_batches
\* guards the streaming and not the commit that follows it, unless it found
\* no version and is a write.
Doomed(f) ==
    f.doomed \cup
    IF \/ f.pc = "compact"
       \/ f.kind = "append_batches" /\ f.base # 0 /\ f.pc # "stage"
    THEN {} ELSE {f.key}

Raise(c) ==
    /\ stored' = stored \ Doomed(call[c])
    /\ call' = [call EXCEPT ![c] = Idle]
    /\ UNCHANGED <<versions, content, allocated>>

\* StaleBaseVersion, from the check or from the insert.
StaleBase(c) ==
    LET f == call[c] IN
    /\ f.pc \in {"number", "insert"}
    /\ CompareAndSet(f)
    /\ IF f.pc = "number" THEN Latest # f.base ELSE f.number \in DOMAIN versions
    /\ Raise(c)

\* A rewrite reads the parts of its base, and one of them is gone.
MissingBase(c) ==
    LET f == call[c] IN
    /\ f.pc = "stage"
    /\ Rewrites(f.kind)
    /\ ~(PartsOf(ManifestAt(f.base)) \subseteq stored)
    /\ Raise(c)

\* Anything else that raises: storage, a failed expectation, the database.
Fail(c) ==
    /\ call[c].pc # "idle"
    /\ Raise(c)

\* The replica dies: no handler runs.
Crash(c) ==
    /\ CrashAllowed
    /\ call[c].pc # "idle"
    /\ call' = [call EXCEPT ![c] = Idle]
    /\ UNCHANGED <<versions, stored, content, allocated>>

-----------------------------------------------------------------------------
\* The steps the code takes by itself once a call has begun.
Progress(c) ==
    \/ Stage(c) \/ EmptyDelta(c) \/ MissingBase(c)
    \/ TakeNumber(c) \/ Insert(c) \/ InsertDuplicate(c) \/ StaleBase(c)
    \/ BeginNested(c)

CatalogNext ==
    \E c \in Calls :
        \/ \E kind \in Kinds : Begin(c, kind)
        \/ Progress(c)
        \/ Fail(c)
        \/ Crash(c)

CatalogSpec == CatalogInit /\ [][CatalogNext]_vars

\* A thread that can run does run; nothing makes a call begin or fail.
FairCatalogSpec == CatalogSpec /\ \A c \in Calls : WF_vars(Progress(c))

-----------------------------------------------------------------------------
(* What is claimed of the dataset. *)

Frames ==
    [pc : {"stage", "number", "insert", "compact"}, kind : AllKinds,
     key : Parts, base : Nat, number : Nat, doomed : SUBSET Parts]

Rows == [files : Seq(Parts), source : AllKinds, base : Nat]

\* The variables hold what their comments say, and every key in use anywhere
\* was handed out by new_part_key.
TypeOK ==
    /\ DOMAIN versions \subseteq Nat \ {0}
    /\ \A v \in DOMAIN versions :
          versions[v] \in Rows /\ PartsOf(versions[v].files) \subseteq allocated
    /\ stored \subseteq allocated
    /\ allocated \subseteq Parts
    /\ content \in [Parts -> SUBSET Parts]
    /\ call \in [Calls -> Frames \cup {Idle}]
    /\ \A c \in Calls : call[c].pc # "idle" =>
          call[c].key \in allocated /\ call[c].doomed \subseteq allocated

\* Racing writes get distinct, contiguous version numbers: no number is
\* skipped, whoever loses, retries, fails or dies on the way (_commit_version's
\* retry loop over next_version and add_version).
Contiguous == DOMAIN versions = 1..Latest

\* The row is inserted last and parts are never rewritten or deleted once
\* referenced: every part a registered version names is in storage, whatever
\* write, append, compact or writeback was interrupted (the handlers that
\* delete "the orphaned part").
FilesExist ==
    \A v \in DOMAIN versions : PartsOf(versions[v].files) \subseteq stored

\* A fold registers exactly one version above the one it rebuilt and keeps
\* that version's rows, so no version another writer published in between is
\* discarded (expect_version in _commit_version).
FoldKeepsBase ==
    \A v \in DOMAIN versions : versions[v].source = "writeback" =>
        /\ versions[v].base = v - 1
        /\ RowsOf(ManifestAt(v - 1)) \subseteq RowsOf(versions[v].files)

\* A version reads the same for ever: no later call unregisters it, renames
\* its parts or changes the rows in them (read of an old version).
VersionStaysPut ==
    \A v \in DOMAIN versions :
        /\ v \in DOMAIN versions'
        /\ versions'[v] = versions[v]
        /\ RowsOf(versions[v].files)' = RowsOf(versions[v].files)

ReadStable == [][VersionStaysPut]_vars

\* The catalog implements a history of immutable versions.
History == INSTANCE VersionHistory
    WITH Batches <- Parts, history <- [v \in DOMAIN versions |-> RowsOf(versions[v].files)]

ImplementsHistory == History!HistorySpec

\* Every call that has begun returns or raises: the retry loop of
\* _commit_version ends although other writers keep taking numbers.  (A call
\* may also be left without a part key, which is the bound of the instance.)
EveryCallReturns ==
    \A c \in Calls :
        call[c].pc # "idle" ~>
            call[c].pc = "idle" \/ (call[c].pc = "compact" /\ allocated = Parts)
=============================================================================
