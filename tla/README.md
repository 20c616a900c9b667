# A model of laurelin

(Paths are relative to the root of the tree that holds `src/`; `catalog.py:396` and the
like name files of the component they are cited for.)

laurelin (`src/laurelin`) is a self-hosted data platform: datasets are versioned
Parquet files named by rows of a metadata store (SQLite or PostgreSQL) or Iceberg
tables, transforms build datasets from datasets, an ontology puts typed objects,
with user edits on top, over them, and grants, policies and markings decide who
reads what. Several replicas may serve one workspace. They share only the metadata
store and the part storage; there is no leader, and nothing locks a dataset, a build
or an object type for longer than one transaction. Much of what can go wrong lies
between two transactions of one call: in the concurrent modules **an action is one
transaction** (or reads that follow each other and that nothing can tell apart), and
all the calls in flight interleave at every boundary. The rest lies in rules that are
written down more than once, in Python and SQL, in an evaluator and in a comparator:
there the modules **enumerate inputs** and compare the code with a second definition.

## The parts of the system

`PROJECT.json` lists every part with its sources, what of it is modelled and why the
remainder is not.

| part | state | operations | modelled in |
|---|---|---|---|
| Dataset catalog (`catalog/catalog.py`) | `dataset_versions` rows, parts in storage | write, append, compact, automatic compaction, compare-and-set of writeback | `DatasetCatalog`, `VersionHistory`, `DatasetCatalogProofs` |
| Iceberg datasets (`core/iceberg.py`) | snapshots and branches in pyiceberg's catalog; versions and the metadata path in the store | write, append, branch, merge, compact, evolve | `IcebergTable`, `OperationsProofs` |
| Scheduler (`core/scheduler.py`) | `schedules` rows: definition, `next_run_at`, watermark, claim and lease | poll, claim, recheck, run, record, release; PUT, DELETE, run-now | `Scheduler`, `SchedulerProofs` |
| Build execution (`transforms/builder.py`) | `builds`, `build_tasks`, the executor pool of each replica | claim, heartbeat, run or block a transform, finish, release; the reaper | `BuildLeases`, `BuildLeasesProofs` |
| Planner and lineage | declarations in files | collect, plan | `BuildPlanner`, `Lineage`, `OperationsProofs` |
| Incremental transforms | `transform_state` | read, append or write, record | `IncrementalBuild`, `OperationsProofs` |
| Flows and pipeline files (`routes.py`, `flow_governance.py`) | flow files, code files, their stamps, restrictions of outputs | save, delete, eject, build | `Flows`, `AuthoringProofs` |
| Flow compiler (`flow_ir.py`, `flow_compile.py`) | none: a function of a flow and schemas | compile one kind of step | `FlowCompiler`, `AuthoringProofs` |
| Object store (`ontology/service.py`, `ontology/store.py`) | `object_edits` log, `object_index` and its watermark; for StarRocks a table with its own | apply_action, catch_up, reindex, writeback, prune, scan | `ObjectStore`, `ObjectHistory`, `ObjectStoreProofs`, `RemoteStore` |
| Overlay semantics (`ontology/service.py`) | none: four functions of rows and log | `_materialize`, `_overlay`/`_build_sql`, `_object_ordinals`, `_rows_for_edit` | `ObjectOverlay` |
| Governed objects (`ontology/service.py`) | rows, log, a policy | checks of create, update and delete; reads | `ObjectGovernance`, `GovernanceProofs` |
| Ontology definitions (`ontology/authoring.py`) | YAML files | upsert, verify, roll back, delete; an editor | `OntologyFiles`, `AuthoringProofs` |
| Grants, groups, policies (`core/permissions.py`, `core/policy_diff.py`) | tables of governance | evaluate; classify a change | `AccessControl`, `PolicyDiff` |
| Markings (`core/db.py`) | explicit and effective markings, lineage, a generation | change, recompute | `Markings`, `GovernanceProofs` |
| Approvals (`core/approvals.py`) | proposals | submit, approve, supersede, reject, withdraw | `Approvals`, `GovernanceProofs` |
| Authentication, SCIM, control plane | users, sessions, tokens, memberships | log in, provision, delete, create again | `Accounts`, `GovernanceProofs` |
| Export and import (`export/`) | archive, gate, target | export, import, undo; merge | `Portability`, `MergeImport`, `GovernanceProofs` |
| Verification (`export/verify.py`) | none: fingerprints of two workspaces | compare | `Verification`, `GovernanceProofs` |
| Health alerts (`core/health.py`) | `health_state`, events | a pass of each replica | `Alerts`, `OperationsProofs` |
| Connectors (`connectors/`) | `sources` rows with their cursor | sync, redefine, delete | `Connectors`, `OperationsProofs` |
| Admission (`core/limits.py`) | a semaphore and watchdogs | admit, end, release | `Admission`, `OperationsProofs` |
| Dashboards and analyses (`api/routes.py`) | lists of panels and cells | whole and partial edits | `Workbooks` |
| Engines and dialects, storage backends, logging, the rest of the HTTP API, MCP, CLI, UI | | | not modelled: SQL text, I/O, translation |

How they meet:

- The **scheduler** reads the *latest version* of a watched dataset, which the
  catalog produces, and its action starts a **build**; `Scheduler` takes the
  versions as an environment action (`NewVersion`) and the action as the time
  between `Start` and `Record`.
- A **build** runs a plan of `BuildPlanner`, which `BuildLeases` takes as a constant,
  writes its outputs through the **catalog** (a call of `DatasetCatalog`), records
  lineage, from which `Markings` recomputes, restricts outputs of flows (`Flows`) and
  refreshes the object indexes (`StartRebuild` of `ObjectStore`).
- A **fold** (`writeback`) of the object store commits through the catalog with
  `expect_version`. `DatasetCatalog` has it as the kind `writeback`; `ObjectStore`
  uses what is proved there, that a fold sits exactly one version above the one it
  read (`FoldKeepsBase`), in its single action `Publish`.
- `ObjectStore` takes "the objects" to be a replay of the log over the newest
  version; that the four implementations of this agree is `ObjectOverlay`, and who
  may see and edit them `ObjectGovernance`.
- `AccessControl` is one evaluator, used by `PolicyDiff`, by `Verification` and,
  through `PolicyDiff`, by `Approvals`. `Lineage` is what it means for markings to
  follow lineage, used by those, by `Markings` as the goal of its recompute, and by
  `MergeImport`.
- The **reaper** of builds is called by `run_build` and by the health pass of the
  scheduler thread: the fairness of `Reap` in `BuildLeases`.

## The modules

### Data and its computation

**`VersionHistory` / `DatasetCatalog`.** `versions` is the table, `stored` and
`content` the parts, `call` the local state of each caller (`pc`, the key, the
base version it read, the number it will try). `Begin`, `Stage`, `TakeNumber`,
`Insert` are the part key, `storage.write_table`, `next_version`, `add_version`;
`InsertDuplicate` is the retry loop of `_commit_version`; `StaleBase`,
`MissingBase`, `Fail` raise and run the `except` clauses, which delete `Doomed`
parts; `Crash` runs nothing. An automatic compaction is a frame nested in the
append (`BeginNested`), whose handler is still there while it runs. A batch of rows
is named by the key it was first written under. `VersionHistory` is the promise:
a sequence of sets of rows that is only ever appended to.

**`IcebergTable`.** `snapshots`, `refs` and `metadata` are pyiceberg's, `pointer` and
`versions` laurelin's. A write is `LoadTable`-`Commit`-`ReadTable`-`SetSource`-
`NextVersion`-`AddVersion`; a merge of a branch `LoadToMerge`-`SwapMain` and then the
same. History variables say which versions were crossed by another writer.

**`Scheduler`.** One schedule row and a pass of each replica: `Poll` (due list),
`Claim` (the conditional UPDATE), `Release` or `Start` (the second look under the
claim), `Record`. A replica may `Die`, or `Raise` at any of these: the loop swallows
it and polls again, and the claim stays until its lease is over. `Put`, `Delete`, `AskRun` and `QueueRun` are the routes; the last
two are one route, which reads the row and writes it back in two transactions.
Time is counted in firing windows; a lease is live until `LeaseExpires`, which may
happen under a replica at work only if it is in `Slow`. `fired`, `acted` and the
flag `claimed` are history.

**`BuildLeases`.** The rows of builds and tasks, and `job`, the execution of each
build in each replica. `Request`/`HandOver` put an execution in a pool (nothing in
the code hands one build to two replicas on purpose, but `execute` is written for
it and `test_build_leases.py` does it), `Claim` to `Release` are
`Builder.execute`, `ReapSelect`/`ReapFail` the two statements of
`reap_expired_builds`. `runs` and `lost` are history.

**`BuildPlanner`** enumerates declarations and targets. `Register` takes them one by
one, `Resolve` and `RefuseTarget` are the head of `Builder.plan`, and its recursive
`visit` is a stack of calls (`path`): `VisitRoot` and `VisitInput` enter one,
`LeaveVisit` returns from it. The result is compared with "once each, after all that
feed it", over a closure defined without any search.
**`IncrementalBuild`** has one transform over an input whose versions are sequences of
parts: `ReadVersion`, `ReadState`, `ReadInput`, `WriteOutput`, `Record` are the
transactions of one execution, which may `Stop` at any of them; the input is
appended to, rewritten and compacted meanwhile. `spoilt` remembers what the code
does not defend against.

**`Flows`.** Two authors, an uploaded dataset and two names for outputs. A save of a
flow, the two writes of a code file, the four steps of an ejection and the steps of
a build (`Collect`, `CheckTask`, `ReadInputs`, `Publish`) are actions; `Narrow` and
`SetPolicy` are an administrator's. What a dataset holds is where its rows came from
and whether a masked value is among them.
**`FlowCompiler`** builds a flow a step at a time. Each step has the schema and kinds
the compiler gives it and, next to them, the cells the engine makes of it: of each
its name, kind and the source columns it depends on. The engine folds case
(`Folded`), the compiler compares names as they are written. What is said of an
expression (that it is well formed, the columns it names, its kind for either) is said
of those of `n` levels by what is said of those of `n - 1`: the code refuses more than
`MaxNesting`.

**`Workbooks`.** A dashboard or an analysis as a list of items and the counter of cell
ids; a request reads the row, makes the new one and writes it in separate
transactions, two of them overlapping. Expressions are reduced to the columns a
cell needs and makes.

**`Alerts`**, **`Connectors`**, **`Admission`** are the passes of two replicas over a
dataset's health, syncs of a source whose cursor values compare as text in one place
and as numbers in another (`TextRanks`), and the queries that one process admits. A
sync reads the source, the version it appends to (`ReadBase`), the table, registers and
records, in that order and each in a step. Automatic compaction, which is off unless it
is configured, and other writers of the dataset are left out of `Connectors`.

### Objects

**`ObjectHistory` / `ObjectStore`.** The log, the versions, the index with its
watermark, and the call of each thread. `Act`-`Check`-`CatchUp`-`Recheck`-`Commit`/
`AppendOnly` are `apply_action` and `_commit_edit`; `StartRebuild`-`PinBase`-
`PinEdits`-`Replace` are `reindex`; `StartFold`-`FoldBase`-`FoldEdits`-`Publish`-
`Mark` the transactions T0 to T3 of `writeback` (T4 is a rebuild);
`Plan`/`Prune` and `ScanBase`/`ScanEdits` are the two-step prune and scan.
`ObjectHistory` is the promise: objects change when somebody edits one or when new
rows replace the dataset, so folding and pruning cannot be seen.

**`RemoteStore`.** The StarRocks store, where a watermark and rows share no
transaction: catch-up is `ReadState`-`ReadRows`-`LoadDelta`, a rebuild
`Snapshot`-`Clear`-`Fill`-`Certify`, each of which may fail.

**`ObjectOverlay`.** Sequential: every log over a small dataset, and the four
functions of it. `Pushdown` is the SQL, `Materialized` the replay, `Rebuilt` the
index that `reindex` writes, and the variable `index` the one that edits keep up to
date.

**`ObjectGovernance`.** One key, a policy that filters by realm and masks a column.
`Seen` is what a user reads of the overlay, `Actual` what it is; `Check` and
`Record` are the two transactions of an action. A secret is abstracted to who
wrote it.

**`OntologyFiles`.** Files, requests that check, replace, verify and roll back, and an
operator with an editor who leaves what loads.

### Governance

**`AccessControl`** is the evaluator: grants, markings and clearances, row rules,
masks. **`PolicyDiff`** is the comparator that classifies a change as widening or
not, with the changes themselves (`Applied`). **`Approvals`** has the inbox on top,
with the two transactions of each request. **`Markings`** is the change of an
input with its bump of the generation, and the recompute that reads generation,
edges and each dataset's markings and writes if the generation has not moved.

**`Accounts`.** Names can be used again, ids cannot. Requests that span transactions
(`Attempt`-`ReadUser`-`Verify`-`OpenSession`, `AskForToken`-`CreateToken`,
`AskForMember`-`SetMember`, `DropMemberships`-`DeleteUser`) interleave.

**`Portability`.** One dataset with markings and pipeline files, exported table by
table while it changes, and imported in the order of the code: rows in an open
transaction, parts, the gate, files, commit; failures undo, deaths do not.
**`MergeImport`** is the import into a workspace that is not empty: the report with its
renames, reuses, skips and refusals, the digest that the second call has to quote,
and the rows that land. A digest is what it is the digest of.
**`Verification`** is the fingerprint of a dataset for each principal and both
comparisons, over every pair of small governance tables and contents, readable or
not.

### Instances

`MC*` modules hold the instances. Components that share no state are composed in
`MCGovernance`, `MCOperations` and `MCAuthoring`, where a variable `part` says which
of them moves in a behaviour; the others keep their initial states, which `*Init`
narrows to one each, so that a behaviour is one of a single component.
Definitions marked "A mutant" are plausible bugs (a dropped WHERE, a value read too
late, an off-by-one); `PROJECT.json` pairs each property with one that breaks it.

## The runs

| run | question | instance |
|---|---|---|
| `catalog_safety` | part files, folds, an append-only history, under races, failures and crashes | 3 callers, 4 parts, every kind, no automatic compaction |
| `catalog_compact` | calls return, although others keep taking the number they want | 2 callers, 4 parts, compaction at 2 parts |
| `catalog_v_files` | *violated*: a failed automatic compaction deletes a registered part | 2 callers, appends |
| `scheduler_operators` | who may end or share a claim while operators edit, delete and queue | 2 replicas, both slow, mortal and raising, 2 windows, 2 versions |
| `scheduler_failover` | once per window, no lost version, no way back, served at all | 3 replicas: one slow, two mortal; 4 windows, 3 versions |
| `builds_leases` | once, by one replica, with the successor's lease safe | 3 replicas, all slow and mortal, one build of 2 transforms |
| `builds_crash` | status and tasks agree, ended stays ended, claimed ends | 2 replicas, one mortal, 2 builds of a chain of 3, leased or not, store calls may raise |
| `objects` | the index is honest, folds invisible, scans right | the mixes of `MCObjectStore`: at most 3 calls at once, 4 edits, 3 versions, 2 keys of 2 properties |
| `objects_v_watermark` | *violated*: the watermark leaps over an edit that a rebuild did not see | 2 calls at once, 2 edits |
| `governance` | rules: changes, approvals, markings, accounts, imports, merges, fingerprints, governed objects | below; 2.4 million states |
| `operations` | incremental builds, plans, alerts, syncs, admission, the overlay, Iceberg | below; 3.0 million states |
| `authoring` | flows, their compiler, workbooks, definitions, the remote store | below; 1.3 million states |

What the properties of the composed runs say, and over what:

| property | says | instance |
|---|---|---|
| `TighteningsDoNotWiden` | a change classified as no loosening gives nobody a right, a row or an unmasked value | 4 accounts, a group, 2 datasets, a type; every table of grants, markings or policies from short lists, and every change; roles, and columns under two masks at once, are left out, see below |
| `ApprovedWasApplied`, `DecisionsAreFinal` | an approved proposal has been applied; a decision is made once | 2 requests, 2 proposals, 3 changes, the mode among them |
| `PropagatedAtRest` | when no recompute is due, every dataset has what its upstreams require | 2 threads, 2 attempts, 3 changes, a chain of two |
| `AccountsAreOwn` | whoever acts as an account gave its password; no membership of a former holder of the name | one name, 2 ids, 2 requests in flight, by way of logins and tokens, or single sign-on, members and workspaces |
| `ImportsHold` | rows have their parts and markings, and code waits for its acknowledgement | 2 imports, 2 parts, 2 files, one failure each |
| `MergeKeepsRules` | the target's own rules stand, and the archive's mean what they meant | 3 names of datasets and markings, 2 descriptions, one type; every archive with every target; one change between the two calls; grants given ahead of their dataset at either end |
| `WideningsAreTold` | who learns more is reported, who only loses is not, a changed rule is a difference | 24 tables at either end, contents of up to 3 rows, or unreadable |
| `EditsAreGoverned` | no edit reaches or reveals what a policy hides | an admin and a viewer, 2 calls, 3 logged edits, a fold |
| `InputConsumed` | each row of the input arrives, once | 2 builds at once, 3 runs, 4 versions |
| `PlanIsTopological` | refused only if it has to be, returned only if not, and then a topological order | every graph of 3 transforms over 8 input lists, every clash of two, 7 targets |
| `LogFollowsState` | the last event says what the state says | 2 replicas, 4 passes, 4 changes of the facts |
| `RowsArriveOnce` | a row below the mark is missing only if an overlapping append dropped it; recorded syncs, one at a time, repeat nothing | 3 rows, 2 overlapping syncs of 3, 2 redefinitions |
| `SlotsAccounted` | slots taken are those of queries at work | 3 queries at once of 5, 2 slots |
| `ImplementationsAgree` | the four readings of the overlay agree, in objects and in order | 2 keys, up to 2 rows, 4 edits, folds anywhere |
| `VersionsNameSnapshots` | a version and its snapshot are the same rows, in the same order | 2 callers, 4 calls, 3 snapshots, a branch |
| `CopiesStayPrivate`, `FlowsAreAcyclic` | who reads an output may read its sources; no saved cycle | 2 authors, 2 requests, 2 builds, one decree |
| `MaskedStaysOut`, `ResultIsKnown` | a flow that passes publishes nothing masked; the compiler's schema is the engine's | every flow of up to 3 steps over 3 tables |
| `ChainsHold`, `UnsentIsUnchanged` | every stored cell runs; a partial edit leaves the rest | 2 editors, 4 requests, 2 items at most kept by id |
| `OntologyStands` | the ontology loads and hand-written files stand | 2 requests at once, 4 changes, 2 names of 2 kinds |
| `LevelIsTrue` | a level watermark is over the right rows | 2 callers at once of 2 calls, 3 edits, 2 keys |

Why the bounds are enough to be interesting: two callers race, a third is needed
for the one that overtakes both; a compaction threshold of two parts makes it happen at
the second append; a takeover needs an owner, a successor, and a third replica for
"two at once but not because of the first"; a chain of three transforms is the least in
which a blocked transform blocks another, and three steps the least in which a join
follows a step on either side. The compiler's expressions have one operation there, where
the code allows 32 inside each other; the theorems are for any number. In the object store, position 3 of a
log with two live edits is the least at which a catch-up can be passed, and
three versions leave room for a fold over a fold and an upload over either. Which calls
are mixed is chosen in the initial state (`workload`) since all of them at
once are out of reach; and some mixes are left out because the code does not keep
the property there: they are listed under "Disagreements" below, and one of them is
`objects_v_watermark`. Policies and grants are lists of examples that have every kind
of subject, of rule and of mask, and of each two that overlap. Three values, `1`, `8..10`
as `TextRanks` orders them, are enough for text and number to disagree.

The symmetry sets are replicas, callers, parts, keys, properties or requests that no
definition tells apart; runs with liveness properties use none, nor do `governance` and
`operations`, where the permutations cost more than they save (the first row the overlay
starts from is of the first key, without loss). Deadlock is not
checked since every instance ends at a bound (windows, parts, edits) or with every
build ended.

Many properties end in a clause of the kind "unless two of these overlapped". Each
such exception is a history variable that is set by exactly the step in question
(`spoilt`, `doubt`, `disturbed`, `overtaken`, `crossed`, `adrift`, `raced`,
`overlapped`, `lost`), and each is a place where the code does not keep the property:
they are the list under "Disagreements".

## Fairness

- `FairCatalogSpec`: a call that can take a step takes one (a thread runs). No call
  is made to begin, fail or die.
- `FairSchedulerSpec`: each replica keeps polling and finishes the pass it is in
  (`Scheduler.run` is a loop that swallows what a schedule raises), and a lease runs
  out when nobody is at work under it. Nothing is asked of a replica that has died.
  None raises in `scheduler_failover`: one whose every pass raises after its claim may
  win the claim each time, and nothing in the code gives the others their turn.
  `DueIsServed` needs a replica whose actions end
  within their lease; `scheduler_failover` has two, of which one may die. When every
  replica may overrun, a schedule can be run over and over by each in turn without
  ever being recorded.
- `FairBuildsSpec`: a replica at work goes on (`execute` waits for nobody), leases
  run out, and every living replica's health pass reaps (`health.py:84-92`, called
  from the scheduler loop).

The other specifications state safety only and no fairness.

## What is proved

For any callers, replicas, threads, builds, datasets, and values of the other
constants that satisfy the assumptions of the modules:

| theorem | says |
|---|---|
| `CatalogInvariant`, `TypeCorrect`, `NumbersContiguous` | the inductive invariant `CatalogInv`, `TypeOK`, `Contiguous` |
| `ReadsAreStable` | no step changes what a version names or holds |
| `FilesAlwaysExist` | with `AutoCompact = 0`, every named part is in storage |
| `FoldsLoseNothing` | a fold is one above its base and keeps its rows |
| `CatalogRefinesHistory` | `DatasetCatalog` implements `VersionHistory` |
| `SchedulerTyped`, `OneRunner` | `TypeOK`, `AtMostOneRunner` |
| `UneditedIsServedOnce`, `UneditedMovesForward` | `ServedOnce`, `MovesForward`, when no operator edits, deletes or queues the schedule |
| `OneExecutor`, `ExecutesOnce` | `AtMostOneExecutor`, `ExecutedOnce` |
| `StatusIsTrue` | `StatusMatchesTasks`, when a build is handed to one replica |
| `OutcomesStay` | `TerminalStays`, when in addition that replica ends within its lease |
| `StoreImplementsHistory` | `ObjectStore` implements `ObjectHistory` |
| `ScansAreCorrect` | `UndisturbedScansAreCorrect` |
| `IndexAlwaysHonest` | `IndexIsHonest`, for the mixes of calls of `HonestMix` |
| `MarkingsPropagate` | `PropagatedAtRest` |
| `ApprovedIsApplied`, `DecisionsStay` | `ApprovedWasApplied`, `DecisionsAreFinal` |
| `TighteningsNeverWiden` | `TighteningsDoNotWiden` |
| `AccountsStayOwn` | `AccountsAreOwn` |
| `ImportsAlwaysHold` | `ImportsHold` |
| `EditsAlwaysGoverned` | `EditsAreGoverned` |
| `WideningsAlwaysTold` | `WideningsAreTold` |
| `MergesAlwaysKeepRules` | `MergeKeepsRules` |
| `SlotsAlwaysAccounted` | `SlotsAccounted` |
| `LogAlwaysFollows` | `LogFollowsState` |
| `RowsAlwaysArriveOnce` | `RowsArriveOnce` |
| `VersionsAlwaysNameSnapshots` | `VersionsNameSnapshots` |
| `InputAlwaysConsumed` | `InputConsumed` |
| `PlansAlwaysTopological` | `PlanIsTopological` |
| `ImplementationsAlwaysAgree` | `ImplementationsAgree` |
| `CopiesAlwaysPrivate`, `FlowsAreAlwaysAcyclic` | `CopiesStayPrivate`, `FlowsAreAcyclic` |
| `OntologyAlwaysStands` | `OntologyStands` |
| `LevelIsAlwaysTrue` | `LevelIsTrue` |
| `MaskedAlwaysOut`, `ResultAlwaysKnown` | `MaskedStaysOut`, `ResultIsKnown` |
| `ChainsAlwaysHold`, `UnsentAlwaysUnchanged` | `ChainsHold`, `UnsentIsUnchanged` |

*`DatasetCatalogProofs`.* `Contiguous` alone is not inductive: a call about to insert
may hold any number. `CatalogInv` adds `NumberBound` (a number that was taken is at
most one above the newest: either it is the next, or somebody has it and the insert is
refused), `BaseKnown` (the version a call read exists) and `KeysOwned` (no two calls
share a key, no version names a key not yet published). From it a successful insert
adds exactly version `Latest + 1` with a fresh last part (`InsertIsNext`), which is all
the refinement and `ReadStable` need. `FilesExist` needs in addition that no frame
dooms a published key (`NothingDoomed`) and that a key past its staging is in storage
(`KeysStored`); it is false with automatic compaction, hence the assumption.
`FoldKeepsBase` needs that what a fold staged holds the rows of its base, for as
long as it has not published (`FoldStaged`).

*`SchedulerProofs`.* `ClaimIsHeld`: whoever is at work, and had its claim all the time,
is who the row names, and the row's lease is live. Two such replicas are one.
`ServedOnce` and `MovesForward` are proved under `NoOperators`: no PUT, no DELETE, no
POST `/run` (with them TLC checks who may run, in `scheduler_operators`; an edit may
set the next firing back to a window that was served, and that is its purpose). The
invariant follows a mark through its life: what has fired is settled in the row, or is
about to be by the replica that ran it and still has its claim (`MarksServed`); a run
under the name of the row, even one whose lease is over, would still move the row
forward (`HoldersRunFits`); no watermark exceeds what some run saw (`WatermarkIsActed`).

*`BuildLeasesProofs`.* `LeaseIsHeld` is the same of builds. Executions without a lease
(the CLI and `wait=true`) are alone because they were there first, which needs
`UnleasedIsAlone`, `NobodyBeforeTheRequest` and `QueuedIsLeased`. `ExecutedOnce` counts:
its invariant bounds the runs of each transform by what replicas that stopped, and the
one at work, can account for. `StatusMatchesTasks` and `TerminalStays` are proved for
`Handed = 1`, one replica per build, which is what the web application does (the
executor of the replica that took the request): two replicas that take over from each
other may leave a transform behind the status, which the property does not claim. Its
invariant is what a replica knows of its plan: everything before its place succeeded or
is among the failed, nothing from there on has (`Knows`).

*`ObjectStoreProofs`.* What is proved first is what replaying is: `Through(edits, i, j,
rows)`, the live edits after `i` up to `j`, composes (`ThroughComposes`), and replaying
an edit a second time, before the rest, changes nothing (`OnceIsEnough`, from which
`ReplayingAgain`): two objects that differ at most in what an edit assigns (`Alike`)
stay so under every other edit and meet at that one. The invariant `FoldsInv` is the
reason why folds are invisible: there is an `m` such that replaying any of the edits up
to `m` over the newest version changes nothing (`Covered`), the folds that are
published and have yet to mark took no edit above it, and one that may still be
published against the newest version holds all edits up to some `j >= m`. So a version
published is covered up to its own `j`, and marks take the oldest live edits, all of
them covered. `Upload` sets `m` to 0, which no fold between its version and its marks
would survive: the exception of the model's `Upload` (see below) is needed. A scan
that saw the live edits up to some `m`, none marked since, replays those after it.

`IndexIsHonest` is false when an edit goes to the log alone, or a rebuild swaps in what
it read before an edit, while another writer has found the index current
(`objects_v_watermark`). `HonestMix` names the mixes in which it is proved: one call at a
time, failing and dying anywhere (`AloneInv`); no edit, whatever else overlaps
(`NoEditInv`); nothing indexed (`UnindexedInv`); and any number of edits, catch-ups, scans
and uploads at once (`EditingInv`). The mixes of the run are such (`MixesAreHonest`).
`IndexLevel` says what the watermark certifies: of a recent index the rows are those that
the log gives up to there, and no row is past it. Whoever is about to write an edit
through has nothing left to catch up. Several that catch up at once replay
the edit they all found, in any order among newer ones: `FirstEdit` is why that changes no
object, unless a delete and a create race for the key, the exception in `EditsAlone`: a
deleted row has no position that a late create could lose against.

*`GovernanceProofs`, markings.* `ReadsAreFenced`: what a thread has read of edges and
markings is what they are, unless the generation has moved since; every change moves
it. So what is written under an unmoved generation is the propagation of what is there.

*Approvals.* `RequestsFollow`: a request past its record works on a proposal
that exists, and one about to decide has applied it. For these two properties nobody
looks into policies: what matters is the order of the two writes and the WHERE of
`decide_proposal` (`DecisionIsFenced`).

*The comparator.* `TighteningsDoNotWiden` compares two programs, the comparator and the
evaluator that reads obey. `StaysUnder` is the relation between the tables after
and before that makes a user see nothing new (`UnderIsNoExcess`): no dataset opens, no
row passes, no mask changes but over a cell that was in the clear, no type gains. An
empty diff gives it for each kind of change (`GrantsUnder`, `TypesUnder`,
`PolicyUnder`, `SetMarkingsUnder`, `DeletionUnder`, `ClearancesUnder`, `MembersUnder`,
`SettingsUnder`). The hard ones are those where the comparator does not look at
everything. It passes over a group that nothing names: then no subject tells its
members from others (`UnnamedNarrows`), for which subjects have to be of the four kinds.
It passes over datasets without grants: there the role alone decides
(`NoGrantsNarrow`). It compares markings as the closure will give them and not as they
are stored: what is stored is never more than the closure gives, even while a
propagation is under way (`TablesFit`, kept by every change, `AppliedFits`, because the
closure holds what is set, `ClosureCovers`), so whoever the closure lets pass passed
before. It keeps one mode per column: with one mask on the column that is the
mask there is (`ModeIs`, `ColumnIs`), and the mode decides what is shown
(`MasksNarrow`); with several it is not, and the property excepts such columns
(`Stacked`). The invariant `TablesInv` adds that what is asked for, filed and recorded
names subjects, datasets, types and groups that there are; `ApprovalsAssumption` says
it of the first tables and of the changes asked for. A marking that has been taken away
and is still inherited, between the two transactions of its removal, is the state it
leaves out: what the propagation then opens was a gain of the removal, and was
classified with it.

*Accounts.* An id is of one account at most and is never used again, so what has
been earned for one stays earned, or is of no use (`Earned`, `EarnedStays`). Between
the read of the user and the read of its hash a login holds an id that still has the
name or is gone (`Found`): were it the id of another account, the password checked
could be that of the wrong one. Memberships need that a name somebody is deleting has
no rows but raced ones (`RowsAreOwn`).

*Imports.* The export reads versions before markings, so what it has read of markings
covers what it has read of versions (`MarkingsCover`). A key an import writes is no
other import's and none of the target's own, so that undoing one deletes nobody else's
part (`KeysAreItsOwn`); an import restores a gate only to what still holds of the files
of others (`FilesAreItsOwn`).

*Governed objects.* What a key's row and overlay give is a function of the two
(`SeenAs`, `ActualAs`), and so is what is allowed (`AllowedAs`): a call whose key nobody
has edited since its check is allowed as things stand when it is logged
(`FrameStands`), and what is allowed is governed (`AllowedIsGoverned`). That reads are
governed needs no history: whatever the log, masking and merging commute
(`PolicedOver`, `ReadsAs`). The overlay of a key is a recursive function over the log;
`OverlayIs` gives its equations, by which an edit changes its own key's only and a fold
leaves the rows of keys that no edit names.

*Verification.* There is one step, and the proof is about what it compares. Counts
decide what is learned: if no reading is more frequent at the destination, then no more
rows are shown there and no value is more often in the clear (`CountsBound`, `CountsAdd`,
by induction on the rows), so a gain of either kind is a gain of some digest
(`GainIsSeen`). For the other comparison, decisions that are alike are of one kind and
allow the same (`SameDecision`), and the masks of a column are those that the decision
keeps and that are on the column (`MasksAreKept`), so two workspaces with the same
decision show the same of any row (`SeesDecided`). `Kept` is a recursive function, so
that this can be proved; the induction is over what it keeps of a prefix.

*Merges.* The invariant is that both workspaces are coherent (`Coherent`) until the
merge: every change of the target between the calls keeps that, and the rest is about
the one step that applies. A report without refusals says what lands where: names are
free and apart (`DatasetsLand`, `MarkingsLand`), so a row of the archive keeps its
meaning (`MeaningsStay`) and no type has a second file (`DeclaredOnce`, for which the
files are counted). For the markings in force, the closure of the merged workspace has
to be that of the target on the target's datasets and, under the new names, that of the
archive on the archive's. `Propagate` is a recursive function, of which only its equation
is known, and that only if something satisfies it. That something does is shown by the
least such assignment, an intersection (`ClosureExists`); that nothing else does, by the
lineage having no cycle (`ClosureIsOne`); so what is put together from the two closures,
and satisfies the equation, is the closure (`MergedForce`).
Looking for what justifies that no name is granted before it is in the catalog showed
that nothing does (`routes.py:3071` lets an admin grant the output of a transform that
has not been built): `Ahead` is such grants, and the properties except them.
`MergeAssumption` says what a workspace is like, at rest: only datasets in the catalog
have markings (`routes.py:3235` answers 404 for others, and datasets are not deleted),
markings in use exist (the same route refuses others; that a proposal is approved after
its marking was deleted is left out), an edge is recorded after a write of its downstream
(`builder.py:327`; edges from an engine carry no markings and are left out), and an
ontology with two declarations of a type does not load (`_check_duplicates`). That the
lineage has no cycle is what a plan guarantees of the
transforms there are; edges that a retired transform left behind can close one, for
which the code's pass answers something (`db.py:162`), and of which neither the model
nor the theorem speaks.

*`OperationsProofs`.* `SlotsAccounted` is inductive with types and the finiteness of
the admitted queries, which the cardinalities need since `Queries` may be any set.
`LogFollowsState` speaks of the time between passes; the invariant
says it inside one too (`FollowsWhenQuiet`), but for the dataset whose event is about
to be logged. It rests on `AloneUnlessOverlap`: what a pass read of a dataset it has
still to set is what is recorded, unless two passes overlapped. A death anywhere else
in a pass needs no exception. `RowsArriveOnce` is two facts about the tip of a dataset
and the mark of the source: a pull starts where what has landed ends (`NothingSkipped`,
for which a batch joins the one before it, `Joins`), and nothing a pull brings has
landed before (`NothingTwice`). Where no two overlap, the version that an append was
made on is still the latest when it is registered (`OneByOne`); where they do, rows may
be dropped, which is the exception (`dropped`). The text order matters only in `TextMax`, the mark a
pull leaves: that it is the greatest of the rows is the hypothesis of the property.

*The planner.* `PlannerInv` has what the search knows (`Search`): nothing is visited
twice (`Apart`), a call is about what feeds its caller (`Chained`), the inputs a call
has passed are done but for the one it waits for (`Passed`), what is done comes after
all that feed it (`Sorted`), and nothing asked for is forgotten (`Covered`). A call that
meets itself is in every closed set that holds its own inputs, by induction along the
stack, so the refusal is right (`SearchMeetsCycle`); an order that is done is closed and
holds what was asked, so it is all that is wanted, and what precedes a member is closed
without it, so there is no cycle in it (`SearchEnds`).

*Iceberg datasets.* Main only goes to descendants of itself (`GoesForward`): a commit
adds a child of the tip, a merge is a fast-forward, checked in the step that swaps.
`LineageOf` is a recursive function over the history, so that its part below a snapshot
never changes (`LineageIsKept`) is an induction over snapshots. `Fits` is then what each
call has in hand at each of its steps, with exact values where nobody crossed it and
membership in main's lineage where somebody did; `VersionsFit` what the registered
versions are; and readers see main, or somebody is on the way to point there.

*Incremental transforms.* Three facts are about sequences: what `RowsIn` gives of a
sequence is what it gives of a prefix and of the rest (`RowsSplitAtPrefix`); a writer
of the input makes of a version what no other begins with, except that it appends
(`WritersOnlyExtend`); so a version that another extends is extended by all between
(`NoWayBack`), without which a full rewrite could make the version still recorded a
prefix of the latest again. `AloneFits` is what an execution has in hand if no other has
run since it began, `OutputFits` the property while executions are under way.

*The overlay of edits.* `Objects` is what rows with an overlay amount to, and
`ObjectsAfter` what one edit makes of that. Each reading follows it edit by edit: the
overlay (`OverlayFollows`), the numbering (`OrdinalsFollow`), the index (`IndexFollows`)
and the replay (`ReplayFollows`), by induction over the log (`RunFits`,
`ReplayRunFits`). A replay is given the creates that stand in the end, so on the way it
holds the final object of a key created in the end, and of any other key the row until
it is deleted: that is `ReplayFits`, and why replay cannot simply be compared with
the overlay after every edit. Its dict lists keys by ordinal (`DictFits`), because a new
key takes an ordinal above all others, and ORDER BY has one answer where ordinals
differ (`ByOrdIs`, `PageIs`). The invariant (`OverlayInv`) says that the rows have
distinct keys, which a fold keeps since it stores one row for an object, and that the
index is what the live edits make of the rows, although it is only ever brought forward.

*`AuthoringProofs`.* `CopiesInv` has what the guards of a save and of a build checked
and what of it still holds while the call is under way (`GuardsHold`, `ReadsHold`,
`PublishesHold`), what is known of an output granted to several (`FlowsWidenNothing`)
and of the file a flow was ejected to (`EjectedKeepsGrant`, `EjectedIsStamped`). Working
the proof out showed the property false on larger instances of an earlier model:
restricting an output is itself a change under calls that have checked it or have it
for a source, and an output shared before it existed concedes what it holds. The
model's histories now record both (`RestrictOutput`, `Unsettled`, `Conceded`), and
an instance with such an output is in the run. `FlowsAreAcyclic` needs `LandingsCloseNothing`, and
that adding one node's edges closes only cycles through it, by induction over paths.
`OntologyStands` is four facts, for each way in which a request may be crossed
(`RequestsKeepOff`, `OneRequest`, `FilesAwait`, `WayBack`). `LevelIsTrue`, of the remote
store, rests on `CatchesUp`: there is an edit from which on, replaying the log
over the table gives what the whole log gives, and the mark is not above it. A load may
store a snapshot that is newer than the mark it certifies, so edits are
replayed that the table already has: edits overwrite (`EditsOverwrite`), so this changes
nothing (`StretchAgain`).

*Flows that are compiled.* `MaskedStaysOut` and `ResultIsKnown` speak of the last step;
the invariant (`CompilerInv`) says of every step that its cells are its schema's, one
for a name (`Lined`), that a kind the compiler states is the engine's (`Agree`), that a
cell comes from columns named like it or mentioned (`Traced`), and that the rows are
chosen by mentioned ones only (`Ordered`). Each kind of step has a lemma. What makes
them true is `BindIs`: in a schema without names that fold alike, the engine takes a
name for the column of that name, the helper of `Dedupe` and the columns of a join
included (`HelperIs`, `JoinedList`). `KindsAgree` is an induction over the levels of
expressions: branches that the compiler finds to agree agree for the engine too, or
are of no one kind (`BranchesAgree`).

*Dashboards and analyses.* A chain is the least set that is closed under inputs, so it
depends on the cells it holds and no others (`ClosureAgrees`), and so does whether it
compiles (`CompilesStill`): a cell that a request did not reach runs as before, and those
it reached were checked (`ChecksSuffice`). What a request is about to store holds by
itself, whatever is stored by then, and is what its editor was told about the row it was
made from (`FrameOk`): neither needs that the row has not changed, only that requests
write rows whole. A cell may be deleted because it is in no other's chain.

*`Induction`.* The library's induction theorems take an operator, which the provers
here cannot instantiate. Stated of sets (`LeastMember`, `Induct`, `GreatestMember`)
they can be cited, and `RecursionExists` gives a recursive function its equations: that
is how the proofs speak of what `Replay` and `Upstream` compute. `Stretch` is the steps
from `i` to `j` of such a function; stretches compose, depend on nothing but their steps,
and may be run again when their steps overwrite (`StretchAgain`).

The assumptions are those of the modules (`Kinds` are kinds, bounds are numbers, a
model value that stands for nobody is no replica, no branch is called main, the ordinals
of created objects begin above those of rows, as 2**62 does, `store.py:57`); TLC
evaluates them in the runs.

What is model-checked only:

- `EveryCallReturns`, `DueIsServed`, `ClaimedBuildEnds`: TLAPS reaches neither
  liveness under fairness nor `ENABLED`.

## Disagreements met while modelling

Two have a run (`*_v_*`) and a quotation in `PROJECT.json` "findings". The others were
found as counterexamples of properties that the code does not have, and that are now
stated with an exception, or while translating; each is a short interleaving or input.

*Catalog.*
- A failed automatic compaction deletes the part of a registered version
  (`catalog_v_files`).
- Two concurrent appends: A and B read version 1 (`catalog.py:396`), A registers 2 =
  1 + a, B's number is taken, it retries and registers 3 = 1 + b. Version 3 lacks a;
  `src/docs/ARCHITECTURE.md:62` says appends "carry forward the previous version's
  parts by reference". Only `writeback` passes `expect_version`.
- `compact` reads version 1, a write registers 2, the compaction of 1 is registered
  as 3 (`catalog.py:513`) and is what readers get.
- `append_batches` leaves its part behind when the commit raises: it deletes it only
  for failures of the staging.

*Iceberg.*
- A dataset that was Parquet and becomes Iceberg keeps versions that pin nothing and are
  read as of now; `catalog.py:538`: "A version that silently means "now" is worse" than one
  that errors.
- Overlapping writers pin each other's snapshot, so the latest version may name an
  older one. A compaction reads and then overwrites, which loses a concurrent append.
  Of two that take one number one raises and leaves a snapshot without version. A late
  `set_dataset_source`, or a death before it, leaves the pointer behind.
- Merging a branch whose tip is main's still records a version.

*Scheduler.*
- The 300 s lease is never renewed while an action runs, so a long action is started
  again by another replica next to the first. `scheduler.py:10` says "Exactly once
  across replicas". `OncePerWindow` and `AtMostOneRunner` therefore excuse a claim that
  ran out.
- Run-now of an upstream schedule that is caught up (`schedule_routes.py:264-268`) sets
  `next_run_at`, which such a schedule does not look at, and a watermark of NULL ("treat
  the current version as unseen"), which `upsert_schedule` does not write: nothing runs.
- A PUT that turns an upstream schedule into a cron schedule while a run is in flight
  loses its first firing time: `record_schedule_run` writes the `next_run_at` the run
  computed, NULL. `schedule_routes.py:225`: "A cron schedule needs its first firing
  time, or it would never be due".
- A PUT that changes the watched dataset keeps the watermark of the old one
  (`db.py:1359`), so versions of the new one up to that number never fire.

*Builds.*
- `execute` ignores what `renew_build_lease` answers (`builder.py:257`), so a replica
  whose lease was taken over goes on writing tasks and the final status;
  `db.py:1752` says it "should stop touching the build", and `src/docs/SCALE.md:785` lists
  it as open. `ExecutedOnce` and `AtMostOneExecutor` excuse such replicas.
- `reap_expired_builds` fails by id what it selected a statement earlier
  (`db.py:1783-1811`): a heartbeat, or a takeover, in between is undone. With a third
  replica this reopens the build: the successor's `Begin` sets it to running with no
  owner, and anybody may claim it.
- Builds without a lease (`wait=true`, the CLI) stay running for ever when their process
  dies (`db.py:1778`), and a build pending in the pool of a replica that dies stays
  pending: no lease, no reaper, and no replica looks for it.
- Incremental transforms: a full run records the version it found and reads the
  latest one, which may be newer; a death between append and record appends the delta
  again; overlapping builds repeat or lose rows. `clear_transform_state` is called by
  tests only.

*Flows and their compiler.*
- The grants of an output that was never built are not checked, and an ejection grants
  one; an output that an administrator shared is not narrowed with its sources; code
  ejected from a flow does not restrict its output later.
- A check and what it permits are two steps: grants and policies may change between
  (`raced`). Two ejections, or a deletion and an ejection, may leave an ejected file
  without its stamp. Two overlapping saves may close a cycle, and code files written by
  `PUT /pipelines` are checked for neither cycles nor clashes.
- `_expr_kind` calls arithmetic on dates a number (`flow_compile.py:396`) where the
  engine gives a date or an interval, so a valid comparison with a date is refused
  later. Where `coalesce` or `if_else` has a branch of unknown kind the other's is taken.

*Objects.*
- A rebuild that read the log before an edit puts the watermark back, and the next commit
  of a writer that found the index current leaps over the edit (`objects_v_watermark`).
  `src/docs/SCALE.md:792` calls "an index rebuild racing a live commit" untraced: it
  loses an edit, and no catch-up will replay it. A commit that insisted on finding the
  watermark at the position before its own would close this.
- An upload between a fold's publication and its mark: a rebuild that read the edits
  before the mark is current for the new version and shows edits that the mark then
  takes off the log, and no position moves to tell (`service.py:1713`; `store.py:6`:
  "never silently wrong"). Such an upload also loses the folded edits. `Upload` is
  bounded not to fall there, so that `objects` can check everything else.
- An edit whose index commit raises is appended to the log alone (`service.py:2010`)
  while another writer that found the index current commits the next position: the
  watermark leaps. The `objects` run has raising commits, and rebuilds among edits,
  for one call at a time only.
- A catch-up that replays a delete, or a create of a key deleted since, late, changes
  an index that has passed it (`db.py:1156`); `db.py:1096` says a second replay "is a
  no-op". The index is still honest in the end, which `objects` checks with three callers.
- An upload between `prune_plan` and the delete makes the planned rows the only
  record of their edits, and they are deleted; `service.py:1929` says a stale plan
  "removes fewer rows rather than the wrong ones".
- A fold that publishes and marks between the two reads of a scan takes its edits out
  of the answer; `store.py:18` says the scan path "is therefore always correct".
  `UndisturbedScansAreCorrect` holds when no edit was marked meanwhile.
- The remote store checks and then loads: a stalled loader, or a rebuild and a load at
  once, leave a level watermark over the wrong rows. `store.py:390` counts "exactly one
  non-atomic gap", and `store.py:539` has `catch_up` single-writer. `page` reads state and rows in
  two queries.
- With a key the dataset holds twice, the SQL merge orders the object by its last row
  (`service.py:1236`) and the replay by its first; `service.py:959` says the
  semantics match.
- A row that somebody without a policy has created over is still shown, in its old
  form, to readers whom the new one is not for, and an update by one of them is
  accepted if it assigns a realm that is theirs (`CreatedOver`).

*Ontology, dashboards, analyses.*
- The rollback of a definition writes back what was read before (`authoring.py:111`): two
  edits by hand during a request, or one and a death between replace and verify, leave
  an ontology that does not load. Overlapping requests of two kinds for one name end
  with the later one, silently. Deleting a type leaves links, actions and apps that name it.
- Two overlapping requests lose one edit whole and may use a cell id again
  (`routes.py:1029`). A PUT of a whole dashboard checks neither the flows of its panels
  nor repeated ids.

*Governance.*
- `approve` and `submit` apply before they decide: a rejection or withdrawal in between
  leaves a refused proposal whose change was applied. Classification and application are
  two steps, so two concurrent tightenings may widen together.
- A demotion is compared by rank (`policy_diff.py:12-20`), though grants and exemptions
  may name the lower role. Demoting an administrator is a tightening and applied at
  once: two who demote each other leave none.
- Of two masks on one column `_mask_state` keeps the last; reads compose both. So taking
  away a redaction under a hash is no loosening, and digests that were all alike tell
  values apart from then on. `Stacked` in `TighteningsDoNotWiden` excepts such columns
  (the instance has one: without the exception the run fails); rows and rights are
  compared there too.
- `delete_user` leaves clearances, grants and group rows, which are by name; a
  `set_member` that races a deletion gives a later account of the name a membership.

*Alerts, connectors, limits.*
- The state is recorded before the event and its delivery, so a death in between is an
  alert nobody hears of; overlapping passes can leave one open; from red by way of
  unknown to healthy no recovery is sent (`health.py:55`).
- Cursors compare as text across batches (`connectors.py:578-584`), so 9 and 10 are
  pulled again. A source keeps its cursor when its dataset, table or mode is changed,
  and rows are skipped; a death between write and record, or an overlap, repeats rows.
- Overlapping syncs lose rows. A and B read the same version (`catalog.py:421`), A pulls
  row 1 and B, later, rows 1 and 2; B registers both and records 2; A, whose number is
  taken, registers the next version without row 2 (`catalog.py:244-255`, no
  `expect_version`). The mark is A's 1 if A records last; if B does, row 2 is below the
  mark and is never pulled again. `RowsArriveOnce` excepts appends that drop rows
  (`dropped`), and says that nothing else loses any: without the exception the run fails.
- `.arrow()` may return a reader whose rows are read after `limited` has given back the
  slot and stopped the watchdog.

*Export, import, verification.*
- Two imports at once are not kept apart. An acknowledgement between gate and landing
  admits files nobody has read; `list_transforms` checks the gate and then executes; a
  file that appears between the second check and the move is overwritten.
- An export is no snapshot: a version committed between plan and rows makes the dataset
  arrive as metadata only, and paging by LIMIT/OFFSET can skip a row.
- Merge: the slug of the origin is the base name of its directory
  (`manifest.py:759`), which many share. If the archive has `pii` (B) and `pii.<slug>` (C)
  and the target has another `pii` (A) and the same `pii.<slug>` (C), then `pii` is renamed
  to `pii.<slug>`, its row is skipped as reused, and datasets marked B come under C
  (`NamespaceTaken`): "a different classification wearing the same word". A second merge
  from an origin whose marking was renamed is always refused.
- Merge: rows that name a dataset the archive does not hold bind to the target's of that
  name (`reader.py:488-527` looks at object types only). Nor are grants compared by
  their dataset (`manifest.py:201`): those that the target gave to an output before it
  was built join the ones of an imported dataset of that name, and open it to somebody
  its source keeps out, though `src/docs/PORTABILITY.md:138` says that an import "may
  never widen". A group deleted at the source leaves its grants, which then bind to the
  target's group without a "widening-risk" line. `--rename-prefix` renames columns of
  tables and not the names in ontology files, flows, dashboards, sources and schedules.
  The target may change between the second report and the rows.
- `widenings` reports a new null or redact mask, though "narrowing is legal and must not be
  reported". Datasets that are not managed, or unreadable at both ends, are compared
  without rows: there it takes the full comparison, and in the last case not even
  that tells two sets of masks apart.

## What is left out of the modelled parts

Federated datasets, reads' SQL, uploads' parsing; cron arithmetic; what
a transform computes and its expectations; links between objects, search;
the text of generated SQL; hashing and the protocols of single sign-on; remapping of
users, withheld credentials and the validation of rows in an import; the scans of archives
for secrets and dangerous calls. A transaction of the metadata store is atomic, a part
appears in storage complete, and some adjacent ones are one step:
the reads of grants and the grant of `restrict_output_to_author`
(`flow_governance.py:409-418`; a build or ejection that overwrites, just there, what
another granted is not explored), the grant and the stamp of an ejection, the row a PUT
of a schedule reads and the one it writes, a transform's run and its task row, the mark of
a fold and the next first read, an index's state and its pending edits, what a proposal is
classified by and the mode, a proposal and its decision (which the WHERE of the UPDATE
fences), the listings of datasets and lineage, ownership of definitions and what a rollback
would restore, the state of a remote index and the entry in its log. A build that runs
without a lease is never handed to a second replica (`HandOver`). A rebuild that fails may
drop the index whoever asked for it (`RebuildFails`; only a build does), or leave it
(`Abandon`). `AccountsAreOwn` covers credentials and memberships, and no other grant by
name. A commit whose answer is lost is taken as one that did not
happen. Replacing an Iceberg table is one snapshot here and two in pyiceberg.

Not modelled at all, because they keep no state of their own or what could go wrong in
them is text: engines and dialects, storage backends, logging, metrics and redaction,
the MCP server, the CLI's and the HTTP API's remaining handlers, the UI.

## Plan

In this order:

1. In `DatasetCatalog`, a commit whose answer is lost.
2. Links and traversals under policies in `ObjectGovernance`.
3. Rebinding and remapping of users after an import, on top of `Accounts`.
