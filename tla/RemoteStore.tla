---------------------------- MODULE RemoteStore ----------------------------
(***************************************************************************)
(* StarRocksObjectStore (ontology/store.py): the objects of a type kept in *)
(* a table of another system, which shares no transaction with the edit    *)
(* log.  The watermark is a row of that table.  Every query and every load *)
(* is a step of its own and may fail; callers die anywhere.  One dataset   *)
(* version and one definition: the metadata store of ObjectStore has       *)
(* them, and both are compared before anything else is.                    *)
(***************************************************************************)
EXTENDS Naturals, Sequences

CONSTANTS
    ObjectKeys, Fields,  \* primary keys, and columns an edit may assign
    Callers,        \* threads that edit, catch up, rebuild or read
    MaxLog,         \* bound on the edits
    MaxCalls        \* bound on catch-ups, rebuilds and reads

ASSUME RemoteAssumption == MaxLog \in Nat /\ MaxCalls \in Nat

VARIABLES
    edits,          \* the log: [key, col], where no column is a deletion
    table,          \* [rows: key -> object, mark: position + 1, or 0 without the row]
    caller,         \* caller -> frame
    calls,          \* begun so far
    overtaken       \* history: a load landed on a table its caller had not seen

remoteVars == <<edits, table, caller, calls, overtaken>>

Gone == <<>>
Deletion == "deletion"
Empty == [rows |-> [k \in ObjectKeys |-> Gone], mark |-> 0]
Idle == [pc |-> "idle"]

RemoteInit ==
    /\ edits = <<>> /\ table = Empty /\ calls = 0 /\ overtaken = FALSE
    /\ caller = [c \in Callers |-> Idle]

\* An edit is an assignment, and creates what is not there: a value is the
\* position of the edit that wrote it.
Assigned(object, e, n) ==
    IF e.col = Deletion THEN Gone
    ELSE IF object = Gone THEN [c \in Fields |-> IF c = e.col THEN n ELSE 0]
    ELSE [object EXCEPT ![e.col] = n]

\* What the first n edits leave.
Objects(n) ==
    LET objects[i \in 0..Len(edits)] ==
            IF i = 0 THEN Empty.rows
            ELSE [objects[i - 1] EXCEPT ![edits[i].key] = Assigned(@, edits[i], i)]
    IN  objects[n]

Level == table.mark = Len(edits) + 1

-----------------------------------------------------------------------------
Continue(c, frame) == caller' = [caller EXCEPT ![c] = frame]
Return(c) == Continue(c, Idle)

\* The caller's last look at the table is carried to its load.
Load(c, rows, mark) ==
    /\ table' = [rows |-> rows, mark |-> mark]
    /\ overtaken' = (overtaken \/ caller[c].seen # table)

\* commit_edit: without a watermark row there is nothing to keep, and the
\* service logs the edit by itself.
LogEdit(c) == \E k \in ObjectKeys, col \in Fields \cup {Deletion} :
    /\ caller[c] = Idle /\ Len(edits) < MaxLog
    /\ edits' = Append(edits, [key |-> k, col |-> col])
    /\ Continue(c, IF table.mark = 0 THEN Idle
               ELSE [pc |-> "state", at |-> Len(edits) + 1, upto |-> Len(edits) + 1])
    /\ UNCHANGED <<table, calls, overtaken>>

\* catch_up: the edits above the watermark, in their order.
BeginCatchUp(c) ==
    /\ caller[c] = Idle /\ calls < MaxCalls /\ calls' = calls + 1
    /\ table.mark # 0 /\ table.mark <= Len(edits)
    /\ Continue(c, [pc |-> "state", at |-> table.mark, upto |-> Len(edits)])
    /\ UNCHANGED <<edits, table, overtaken>>

\* _apply_at: an edit is loaded from the position right behind it only.
RightBehind(at) == table.mark = at

\* The next edit of a catch-up.
Proceed(c) ==
    IF caller[c].at < caller[c].upto
    THEN [pc |-> "state", at |-> caller[c].at + 1, upto |-> caller[c].upto] ELSE Idle

\* Without the watermark row an apply raises, and catch_up stops; at another
\* position it returns, and catch_up goes on.
ReadState(c) ==
    /\ caller[c].pc = "state"
    /\ Continue(c, IF table.mark = 0 THEN Idle
               ELSE IF ~RightBehind(caller[c].at) THEN Proceed(c)
               ELSE [pc |-> "rows", at |-> caller[c].at, upto |-> caller[c].upto,
                     mark |-> table.mark])
    /\ UNCHANGED <<edits, table, calls, overtaken>>

ReadRows(c) ==
    LET f == caller[c] IN
    /\ f.pc = "rows"
    /\ Continue(c, [pc |-> "load", at |-> f.at, upto |-> f.upto, before |-> table.rows[edits[f.at].key],
                seen |-> [table EXCEPT !.mark = f.mark]])
    /\ UNCHANGED <<edits, table, calls, overtaken>>

\* The row and the watermark, in one load.
LoadDelta(c) ==
    LET f == caller[c]
        e == edits[f.at] IN
    /\ f.pc = "load"
    /\ Load(c, [table.rows EXCEPT ![e.key] = Assigned(f.before, e, f.at)], f.at + 1)
    /\ Continue(c, Proceed(c))
    /\ UNCHANGED <<edits, calls>>

-----------------------------------------------------------------------------
(* reindex and replace. *)

\* The watermark is read before the snapshot that the rows are taken of.
BeginRebuild(c) ==
    /\ caller[c] = Idle /\ calls < MaxCalls /\ calls' = calls + 1
    /\ Continue(c, [pc |-> "snapshot", mark |-> Len(edits) + 1])
    /\ UNCHANGED <<edits, table, overtaken>>

Snapshot(c) ==
    /\ caller[c].pc = "snapshot"
    /\ Continue(c, [pc |-> "clear", mark |-> caller[c].mark, rows |-> Objects(Len(edits))])
    /\ UNCHANGED <<edits, table, calls, overtaken>>

Clear(c) ==
    /\ caller[c].pc = "clear"
    /\ table' = Empty
    /\ Continue(c, [pc |-> "fill", mark |-> caller[c].mark, rows |-> caller[c].rows, seen |-> Empty])
    /\ UNCHANGED <<edits, calls, overtaken>>

\* An upsert: what somebody else has loaded meanwhile stays.
Fill(c) ==
    LET f == caller[c]
        rows == [k \in ObjectKeys |-> IF f.rows[k] = Gone THEN table.rows[k] ELSE f.rows[k]] IN
    /\ f.pc = "fill"
    /\ Load(c, rows, table.mark)
    /\ Continue(c, [pc |-> "certify", mark |-> f.mark,
                seen |-> [rows |-> rows, mark |-> table.mark]])
    /\ UNCHANGED <<edits, calls>>

\* A mutant: the watermark is read when the rows are in.
CertifyLevel(c) ==
    /\ caller[c].pc = "certify"
    /\ Load(c, table.rows, Len(edits) + 1)
    /\ Return(c)
    /\ UNCHANGED <<edits, calls>>

\* The watermark goes last and on its own.
Certify(c) ==
    /\ caller[c].pc = "certify"
    /\ Load(c, table.rows, caller[c].mark)
    /\ Return(c)
    /\ UNCHANGED <<edits, calls>>

-----------------------------------------------------------------------------
\* A query or a load fails, or the caller dies: an edit stays in the log.
Fail(c) ==
    /\ caller[c] # Idle /\ Return(c)
    /\ UNCHANGED <<edits, table, calls, overtaken>>

RemoteNext == \E c \in Callers :
    \/ LogEdit(c) \/ BeginCatchUp(c) \/ ReadState(c) \/ ReadRows(c) \/ LoadDelta(c)
    \/ BeginRebuild(c) \/ Snapshot(c) \/ Clear(c) \/ Fill(c) \/ Certify(c) \/ Fail(c)

RemoteSpec == RemoteInit /\ [][RemoteNext]_remoteVars

-----------------------------------------------------------------------------
(* "A watermark ahead of the data is a silent permanent stale read": a     *)
(* table whose watermark is level with the log holds what the log says,    *)
(* wherever edits, catch-ups and rebuilds failed or died on the way, and   *)
(* whatever was logged meanwhile. It is said of loads that found the table *)
(* as their callers had read it: nothing in StarRocks makes them.          *)
LevelIsTrue == ~overtaken /\ Level => table.rows = Objects(Len(edits))
=============================================================================
