------------------------------ MODULE Markings ------------------------------
(***************************************************************************)
(* Classification markings and how they follow lineage (core/db.py).  A    *)
(* change of what decides them (an explicit set, a marking, the lineage of *)
(* a transform) is one transaction that bumps a generation; the thread     *)
(* that made it then recomputes what every dataset inherits, reading the   *)
(* inputs in many transactions and starting over when the generation has   *)
(* moved before it writes.                                                 *)
(***************************************************************************)
EXTENDS Naturals, Lineage

CONSTANTS
    Names,          \* the markings
    Transforms,
    Declared,       \* transform -> the sets of edges a build may record for it
    Threads,        \* requests and builds, of any replica
    MaxAttempts,    \* a recompute that is overtaken so often raises
    MaxChanges      \* bound: changes of the inputs

ASSUME MarkingsAssumption ==
    /\ MaxAttempts \in Nat \ {0}
    /\ MaxChanges \in Nat
    /\ Declared \in [Transforms -> SUBSET SUBSET (Datasets \X Datasets)]

VARIABLES
    explicit,    \* dataset -> markings set on it (rows with inherited = 0)
    inherited,   \* dataset -> markings propagated to it (inherited = 1)
    lineage,     \* transform -> its edges
    gen,         \* the generation of the inputs
    call,        \* thread -> what it has read
    lost         \* history: a recompute died or gave up after the last one that wrote

markingVars == <<explicit, inherited, lineage, gen, call, lost>>

Edges == UNION {lineage[x] : x \in Transforms}

Unmarked == [d \in Datasets |-> {}]

\* A recompute that is due: nothing has been read yet.
DueCall(tries) == [pc |-> "gen", tries |-> tries, gen |-> 0, edges |-> {}, read |-> Unmarked, todo |-> {}]

NoCall == [pc |-> "idle", tries |-> 0, gen |-> 0, edges |-> {}, read |-> Unmarked, todo |-> {}]

MarkingsInit ==
    /\ explicit = Unmarked
    /\ inherited = Unmarked
    /\ lineage = [x \in Transforms |-> {}]
    /\ gen = 0
    /\ call = [t \in Threads |-> NoCall]
    /\ lost = FALSE

\* What every writer of an input does: bump the generation in the transaction
\* of the change, then owe a recompute.
Changes(t) ==
    /\ gen < MaxChanges
    /\ gen' = gen + 1
    /\ call' = [call EXCEPT ![t] = DueCall(1)]
    /\ UNCHANGED lost

\* set_explicit_markings: a whole-list replace.
SetMarkings(t, d, names) ==
    /\ call[t].pc = "idle"
    /\ Changes(t)
    /\ explicit' = [explicit EXCEPT ![d] = names]
    /\ UNCHANGED <<inherited, lineage>>

\* delete_marking: its rows go from both kinds at once.
DeleteMarking(t, name) ==
    /\ call[t].pc = "idle"
    /\ Changes(t)
    /\ explicit' = [d \in Datasets |-> explicit[d] \ {name}]
    /\ inherited' = [d \in Datasets |-> inherited[d] \ {name}]
    /\ UNCHANGED lineage

\* replace_lineage_for_transform: a build records each transform that succeeds
\* and recomputes once, at its end.
ReplaceLineage(t, x, edges) ==
    /\ call[t].pc \in {"idle", "gen"}
    /\ call[t].tries <= 1
    /\ Changes(t)
    /\ lineage' = [lineage EXCEPT ![x] = edges]
    /\ UNCHANGED <<explicit, inherited>>

ReadGeneration(t) ==
    /\ call[t].pc = "gen"
    /\ call' = [call EXCEPT ![t].pc = "edges", ![t].gen = gen]
    /\ UNCHANGED <<explicit, inherited, lineage, gen, lost>>

ReadEdges(t) ==
    /\ call[t].pc = "edges"
    /\ call' = [call EXCEPT ![t].pc = "explicit", ![t].edges = Edges, ![t].todo = Datasets]
    /\ UNCHANGED <<explicit, inherited, lineage, gen, lost>>

\* One dataset per transaction, in no order.
ReadExplicit(t, d) ==
    /\ call[t].pc = "explicit"
    /\ d \in call[t].todo
    /\ call' = [call EXCEPT ![t].read[d] = explicit[d], ![t].todo = @ \ {d}]
    /\ UNCHANGED <<explicit, inherited, lineage, gen, lost>>

\* A mutant: the generation is not read again under the lock.
NeverOvertaken(t) == FALSE

\* Under the lock: an input has changed since the generation was read.
Overtaken(t) == call[t].gen # gen

WriteEffective(t) ==
    /\ call[t].pc = "explicit"
    /\ call[t].todo = {}
    /\ ~Overtaken(t)
    /\ inherited' = Propagate(call[t].edges, call[t].read)
    /\ call' = [call EXCEPT ![t] = NoCall]
    /\ lost' = FALSE
    /\ UNCHANGED <<explicit, lineage, gen>>

StartOver(t) ==
    /\ call[t].pc = "explicit"
    /\ call[t].todo = {}
    /\ Overtaken(t)
    /\ IF call[t].tries < MaxAttempts
       THEN /\ call' = [call EXCEPT ![t] = DueCall(call[t].tries + 1)]
            /\ UNCHANGED lost
       ELSE /\ call' = [call EXCEPT ![t] = NoCall]
            /\ lost' = TRUE
    /\ UNCHANGED <<explicit, inherited, lineage, gen>>

\* The store raises or the process dies before the write.
LoseRecompute(t) ==
    /\ call[t].pc # "idle"
    /\ call' = [call EXCEPT ![t] = NoCall]
    /\ lost' = TRUE
    /\ UNCHANGED <<explicit, inherited, lineage, gen>>

MarkingsNext ==
    \E t \in Threads :
        \/ \E d \in Datasets, names \in SUBSET Names : SetMarkings(t, d, names)
        \/ \E name \in Names : DeleteMarking(t, name)
        \/ \E x \in Transforms : \E edges \in Declared[x] : ReplaceLineage(t, x, edges)
        \/ ReadGeneration(t)
        \/ ReadEdges(t)
        \/ \E d \in Datasets : ReadExplicit(t, d)
        \/ WriteEffective(t)
        \/ StartOver(t)
        \/ LoseRecompute(t)

MarkingsSpec == MarkingsInit /\ [][MarkingsNext]_markingVars

-----------------------------------------------------------------------------
\* When no recompute is under way and none was lost, every dataset inherits
\* exactly what its ancestors carry, however changes and recomputes of several
\* threads interleaved: no stale recompute has the last word (db.py:3004).
PropagatedAtRest ==
    (~lost /\ \A t \in Threads : call[t].pc = "idle") =>
        inherited = Propagate(Edges, explicit)
=============================================================================
