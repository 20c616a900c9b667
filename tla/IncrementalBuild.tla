-------------------------- MODULE IncrementalBuild --------------------------
(***************************************************************************)
(* One incremental transform (Builder.execute and _incremental_input, with *)
(* the row of transform_state that says which version of the input it has  *)
(* consumed). The input is a dataset that is appended to, rewritten and    *)
(* compacted meanwhile. The transform copies its rows: it is row-wise by   *)
(* its contract. Builds may overlap and stop anywhere.                     *)
(*                                                                         *)
(* Commits of dataset versions are single steps here; DatasetCatalog has   *)
(* what they consist of.                                                   *)
(***************************************************************************)
EXTENDS Integers, Sequences

CONSTANTS
    Builds,             \* the workers that may be executing the transform
    MaxVersions,        \* bound on the versions of the input
    MaxRuns             \* bound on the executions of the transform

ASSUME IncrementalAssumption == MaxVersions \in Nat /\ MaxRuns \in Nat

VARIABLES
    input,      \* the input's versions; a version is its parts, a part its rows
    output,     \* the rows of the output's latest version
    consumed,   \* transform_state.last_version, 0 when there is no row
    build,      \* build[b]: what execute has in hand
    runs,       \* executions begun
    spoilt      \* history: what may have spoilt the output since it was last
                \* written whole

incrementalVars == <<input, output, consumed, build, runs, spoilt>>

\* The rows of the parts, one part after the other.
RowsIn(parts) ==
    LET upTo[n \in 0..Len(parts)] == IF n = 0 THEN <<>> ELSE upTo[n - 1] \o parts[n]
    IN  upTo[Len(parts)]

\* Every one of these rows is among those.
Within(these, those) == \A i \in DOMAIN these : \E j \in DOMAIN those : those[j] = these[i]

Latest == input[Len(input)]

NoBuild == [pc |-> "idle", version |-> 0, mode |-> "none", rows |-> <<>>, alone |-> TRUE]

IncrementalInit ==
    /\ input = <<>> /\ output = <<>> /\ consumed = 0
    /\ build = [b \in Builds |-> NoBuild]
    /\ runs = 0 /\ spoilt = {}

Alone(b) == \A o \in Builds \ {b} : build[o].pc = "idle"

-----------------------------------------------------------------------------
(* The input's writers. *)

NewRow == Len(input) + 1       \* a row that no earlier version has

NewInput(parts) ==
    /\ Len(input) < MaxVersions
    /\ input' = Append(input, parts)
    /\ UNCHANGED <<output, consumed, build, runs, spoilt>>

AppendInput == input # <<>> /\ NewInput(Append(Latest, <<NewRow>>))
RewriteInput == NewInput(<<<<NewRow>>>>)

CompactInput ==
    /\ input # <<>> /\ Len(Latest) > 1
    /\ NewInput(<<RowsIn(Latest)>>)

-----------------------------------------------------------------------------
(* An execution of the transform. *)

ReadVersion(b) ==
    /\ build[b].pc = "idle" /\ input # <<>> /\ runs < MaxRuns
    /\ build' = [o \in Builds |->
            IF o = b
            THEN [NoBuild EXCEPT !.pc = "state", !.version = Len(input), !.alone = Alone(b)]
            ELSE [build[o] EXCEPT !.alone = build[o].pc = "idle"]]
    /\ runs' = runs + 1
    /\ spoilt' = spoilt \cup (IF Alone(b) THEN {} ELSE {"overlap"})
    /\ UNCHANGED <<input, output, consumed>>

\* A mutant: longer means appended to.
ExtendsByLength(seen, current) == Len(input[seen]) <= Len(input[current])

(* The input is still what it was at version seen, or that and more parts. *)
Extends(seen, current) ==
    /\ Len(input[seen]) <= Len(input[current])
    /\ SubSeq(input[current], 1, Len(input[seen])) = input[seen]

DeltaParts(seen, current) == SubSeq(input[current], Len(input[seen]) + 1, Len(input[current]))

\* No delta, of a version seen or of one with the same parts, is nothing to do.
Mode(seen, current) ==
    CASE seen = 0 -> "full"
      [] seen # 0 /\ input[seen] = input[current] -> "unchanged"
      [] OTHER -> IF Extends(seen, current) THEN "delta" ELSE "full"

ReadState(b) ==
    LET current == build[b].version
        mode == Mode(consumed, current)
    IN /\ build[b].pc = "state"
       /\ build' = [build EXCEPT ![b] =
            CASE mode = "unchanged" -> NoBuild
              [] mode = "delta" ->
                    [@ EXCEPT !.pc = "write", !.mode = mode,
                              !.rows = RowsIn(DeltaParts(consumed, current))]
              [] OTHER -> [@ EXCEPT !.pc = "read", !.mode = mode]]
       /\ UNCHANGED <<input, output, consumed, runs, spoilt>>

(* A full input is read through catalog.read, which takes the latest       *)
(* version and not the one that will be recorded.                          *)
ReadInput(b) ==
    /\ build[b].pc = "read"
    /\ build' = [build EXCEPT ![b].pc = "write", ![b].rows = RowsIn(Latest)]
    /\ spoilt' = spoilt \cup (IF build[b].version = Len(input) THEN {} ELSE {"overtaken"})
    /\ UNCHANGED <<input, output, consumed, runs>>

Undisturbed(b) ==
    /\ build[b].alone /\ build[b].mode = "full"
    /\ build[b].rows = RowsIn(input[build[b].version])

WriteOutput(b) ==
    /\ build[b].pc = "write"
    /\ output' = IF build[b].mode = "delta" THEN output \o build[b].rows ELSE build[b].rows
    /\ build' = [build EXCEPT ![b].pc = "record"]
    /\ spoilt' = IF Undisturbed(b) THEN {} ELSE spoilt
    /\ UNCHANGED <<input, consumed, runs>>

ConsumedBy(b) == build[b].version

Record(b) ==
    /\ build[b].pc = "record"
    /\ consumed' = ConsumedBy(b)
    /\ build' = [build EXCEPT ![b] = NoBuild]
    /\ UNCHANGED <<input, output, runs, spoilt>>

(* The transform, an expectation or a write raises, or the process dies.   *)
Stop(b) ==
    /\ build[b].pc # "idle"
    /\ build' = [build EXCEPT ![b] = NoBuild]
    /\ spoilt' = spoilt \cup (IF build[b].pc = "record" THEN {"unrecorded"} ELSE {})
    /\ UNCHANGED <<input, output, consumed, runs>>

IncrementalNext ==
    \/ AppendInput \/ RewriteInput \/ CompactInput
    \/ \E b \in Builds :
          \/ ReadVersion(b) \/ ReadState(b) \/ ReadInput(b)
          \/ WriteOutput(b) \/ Record(b) \/ Stop(b)

IncrementalSpec == IncrementalInit /\ [][IncrementalNext]_incrementalVars

-----------------------------------------------------------------------------
AtRest == \A b \in Builds : build[b].pc = "idle"
Consumed == IF consumed = 0 THEN <<>> ELSE RowsIn(input[consumed])

(* Unless two executions overlapped, one died between its write and its    *)
(* record, or a full read was overtaken by a new version, the output is    *)
(* exactly what the transform makes of the version it is recorded to have  *)
(* consumed, in order, through appends, rewrites and compactions; and a    *)
(* full rewrite that nothing disturbs repairs whatever went wrong before.  *)
ConsumesOnce == AtRest /\ spoilt = {} => output = Consumed

(* A death anywhere and an overtaken read may repeat rows but never lose   *)
(* one: while the input only grows from the version recorded, every row of *)
(* that version is in the output.                                          *)
NothingLost ==
    AtRest /\ "overlap" \notin spoilt /\ consumed # 0 /\ Extends(consumed, Len(input)) =>
        Within(Consumed, output)

(* Each row of the input arrives, and once, with the exceptions above.     *)
InputConsumed == ConsumesOnce /\ NothingLost
=============================================================================
