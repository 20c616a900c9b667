---------------------------- MODULE Verification ----------------------------
(***************************************************************************)
(* The proof that a copy of a workspace governs like its source            *)
(* (export/verify.py, `laurelin verify`): what each principal is answered  *)
(* about a dataset, at the source and at the destination, and the two      *)
(* comparisons of the answers. Widenings is the directional one, that an   *)
(* import must leave empty; the other reports every difference.            *)
(*                                                                         *)
(* A digest is what it is the digest of. The three read paths of           *)
(* governance_fingerprint answer alike and are one here.                   *)
(***************************************************************************)
EXTENDS AccessControl

CONSTANTS
    Pairs,          \* [source, destination]: tables of governance
    Contents        \* what a dataset may hold: sequences of rows

ASSUME VerificationAssumption ==
    /\ \A rows \in Contents : Listed(rows)
    /\ \A pair \in Pairs, d \in Datasets :
          Listed(pair.source.policy[d].masks) /\ Listed(pair.destination.policy[d].masks)

VARIABLES
    compared,       \* the pair whose fingerprints are taken
    dataset, rows0, rows1,      \* the dataset, and its rows at either end
    verdict         \* principal -> what was found, once compared

verificationVars == <<compared, dataset, rows0, rows1, verdict>>

\* A part file is missing: the dataset has neither schema nor rows.
Unreadable == [readable |-> FALSE, rows |-> <<>>]
Table(rows) == [readable |-> TRUE, rows |-> rows]

Principals == {u \in Users : compared.source.role[u] # NoAccount}

-----------------------------------------------------------------------------
(* The fingerprint. *)

\* A row as a principal reads it.
ReadAs(p, u, d, row) ==
    [c \in Columns[d] |-> ShownAs(p, u, d, row, c)]

\* Which rows of a table a principal reads.
Shown(p, u, d, table) == {i \in DOMAIN table.rows : RowVisible(p, u, d, table.rows[i])}

\* Two rows may read alike: the digests are counted.
RowDigests(p, u, d, table) ==
    LET digests == {ReadAs(p, u, d, table.rows[i]) : i \in Shown(p, u, d, table)}
    IN  [x \in digests |->
           Cardinality({i \in Shown(p, u, d, table) : ReadAs(p, u, d, table.rows[i]) = x})]

\* The cells that are not NULL, each once.
VisibleDigests(p, u, d, table) ==
    {x \in {<<c, ReadAs(p, u, d, table.rows[i])[c]>> :
               c \in Columns[d], i \in Shown(p, u, d, table)} : x[2] # <<"null">>}

\* PermissionService.decide: a policy on a column that is not there denies.
DecisionText(p, u, d, columns) ==
    LET policy == p.policy[d]
        groups == GroupsOf(p, u)
        allowed == Allowed(policy.row.rules, p.role[u], u, groups)
        applied == {m \in {policy.masks[i] : i \in DOMAIN policy.masks} :
                       m.column \in columns /\ Applies(m, p.role[u], u, groups)}
    IN  IF p.role[u] = "admin" THEN NoPolicy
        ELSE IF policy.row # NoRowPolicy /\ (policy.row.column \notin columns \/ allowed = {})
        THEN [denies |-> TRUE]
        ELSE [column |-> policy.row.column, values |-> allowed,
              masks |-> Kept(policy.masks, applied)]

\* What governance_fingerprint records of a principal and a dataset.
Cell(p, u, d, table) ==
    LET may == DatasetPermission(p, u, d)
    IN  [view |-> may.view, edit |-> may.edit, markings |-> p.inherited[d],
         decision |-> DecisionText(p, u, d, IF table.readable THEN Columns[d] ELSE {}),
         rows |-> IF table.readable THEN {RowDigests(p, u, d, table)} ELSE {},
         visible |-> IF table.readable THEN {VisibleDigests(p, u, d, table)} ELSE {}]

-----------------------------------------------------------------------------
(* The comparisons. *)

\* A mutant: the rows are compared as a set.
DistinctGain(before, after) == DOMAIN after \ DOMAIN before

\* One more row that reads like another is a gain too.
MultisetGain(before, after) ==
    {x \in DOMAIN after : x \notin DOMAIN before \/ after[x] > before[x]}

SetGain(before, after) == after \ before

\* What is recorded at one end and not at the other cannot be told from
\* nothing: at the source, any row there is now is a gain.
RowsWidened(source, target) ==
    \E after \in target.rows :
        IF source.rows = {} THEN DOMAIN after # {}
        ELSE \E before \in source.rows : MultisetGain(before, after) # {}

VisibleWidened(source, target) ==
    \E after \in target.visible :
        IF source.visible = {} THEN after # {}
        ELSE \E before \in source.visible : SetGain(before, after) # {}

\* Every way a cell of the destination is wider than that of the source.
Widenings(source, target) ==
    {x \in {"view"} : target.view /\ ~source.view}
    \cup {x \in {"edit"} : target.edit /\ ~source.edit}
    \cup {x \in {"rows"} : RowsWidened(source, target)}
    \cup {x \in {"visible"} : VisibleWidened(source, target)}

\* diff_fingerprints: the fields in which two cells differ.
Differences(source, target) == {field \in DOMAIN source : source[field] # target[field]}

-----------------------------------------------------------------------------
VerificationInit ==
    /\ compared \in Pairs
    /\ dataset \in Datasets
    /\ rows0 \in {Table(x) : x \in Contents} \cup {Unreadable}
    /\ rows1 \in {Table(x) : x \in Contents} \cup {Unreadable}
    /\ verdict = <<>>

\* The destination is compared with the fingerprint in the manifest.
Compare ==
    /\ verdict = <<>>
    /\ verdict' = [u \in Principals |->
          LET source == Cell(compared.source, u, dataset, rows0)
              target == Cell(compared.destination, u, dataset, rows1)
          IN  [widened |-> Widenings(source, target), differs |-> Differences(source, target)]]
    /\ UNCHANGED <<compared, dataset, rows0, rows1>>

VerificationNext == Compare

VerificationSpec == VerificationInit /\ [][VerificationNext]_verificationVars

-----------------------------------------------------------------------------
(* What a principal learns, without digests. *)

\* In how many rows a principal reads a value in the clear.
Clear(p, u, table, c, v) ==
    Cardinality({i \in Shown(p, u, dataset, table) :
                    ReadAs(p, u, dataset, table.rows[i])[c] = <<"plain", v>>})

LearnsMore(u) ==
    LET p == compared.source
        q == compared.destination
    IN  \/ \E c \in Columns[dataset], v \in Values :
              Clear(q, u, rows1, c, v) > Clear(p, u, rows0, c, v)
        \/ Cardinality(Shown(q, u, dataset, rows1)) > Cardinality(Shown(p, u, dataset, rows0))
        \/ \E right \in {"view", "edit"} : /\ DatasetPermission(q, u, dataset)[right]
                                           /\ ~DatasetPermission(p, u, dataset)[right]

\* Nothing is given, and what is still shown reads as it did.
OnlyLoses(u) ==
    LET p == compared.source
        q == compared.destination
    IN  /\ \A right \in {"view", "edit"} :
              DatasetPermission(q, u, dataset)[right] => DatasetPermission(p, u, dataset)[right]
        /\ \A i \in Shown(q, u, dataset, rows1) :
              /\ i \in Shown(p, u, dataset, rows0)
              /\ ReadAs(q, u, dataset, rows1.rows[i]) = ReadAs(p, u, dataset, rows0.rows[i])

(***************************************************************************)
(* verify.py: "an import may narrow and may never widen".  Whoever learns  *)
(* more at the destination, be it one more row that reads like another, is *)
(* reported; whoever only loses rows or rights is not; and a change of     *)
(* what any row the dataset might hold would show a principal is among the *)
(* differences, whatever it holds now, if it can be read at one end.       *)
(***************************************************************************)
WideningsAreTold ==
    \A u \in DOMAIN verdict :
        /\ LearnsMore(u) => verdict[u].widened # {}
        /\ OnlyLoses(u) => verdict[u].widened = {}
        /\ Sees(compared.source, u, dataset) # Sees(compared.destination, u, dataset)
              => verdict[u].differs # {} \/ ~(rows0.readable \/ rows1.readable)
=============================================================================
