-------------------------- MODULE ObjectGovernance --------------------------
(***************************************************************************)
(* Hand edits of objects whose dataset has a policy (ontology/service.py). *)
(*                                                                         *)
(* The edits lie over the dataset's rows until they are folded into it.    *)
(* A policy filters rows by their realm and masks a column; it is applied  *)
(* to the rows, to what is created and to what is assigned, each by code   *)
(* of its own.  An action checks an edit and then logs it: other requests, *)
(* and a fold, may come in between.  A secret is abstracted to who wrote   *)
(* it.  Policies stay as they are, and keys are never rewritten: an update *)
(* that names another key is refused to everybody.                         *)
(***************************************************************************)
EXTENDS Naturals, Sequences

CONSTANTS
    Holders, Realms,    \* keys, and values of the filtered column; "null" is in no allowlist
    Actors,             \* users
    Readable,           \* user -> realms the row policy lets through, {} without a policy
    MaskedFor,          \* users with a policy that the secret is masked for
    Backings,           \* what it may be to begin with: holder -> row
    Calls,              \* actions at a time
    MaxLogged           \* bound on the edits

Absent == <<>>
Row(realm, secret) == <<[realm |-> realm, secret |-> secret]>>

ASSUME GovernanceAssumption ==
    /\ Readable \in [Actors -> SUBSET Realms] /\ MaskedFor \subseteq Actors
    /\ \A u \in MaskedFor : Readable[u] # {}
    /\ Backings \subseteq
            [Holders -> {Absent} \cup {Row(x, s) : x \in Realms \cup {"null"},
                                                s \in Actors \cup {"old"}}]
    /\ MaxLogged \in Nat

VARIABLES
    rows,       \* holder -> row of the dataset, or Absent
    log,        \* live edits: [kind, key, by, set]
    acting,     \* action -> frame
    unseen,     \* history: keys edited after a check of something else
    folded      \* how many edits have been folded

objectGovernanceVars == <<rows, log, acting, unseen, folded>>

NoCallYet == [on |-> FALSE]

ObjectGovernanceInit ==
    /\ rows \in Backings /\ log = <<>> /\ unseen = {} /\ folded = 0
    /\ acting = [c \in Calls |-> NoCallYet]

Policied(u) == Readable[u] # {}

-----------------------------------------------------------------------------
(* What a policy makes of a row, of a created one and of an assignment.    *)

Admits(u, realm) == Policied(u) => realm \in Readable[u]

\* _policed_payload: an assigned value is masked as a stored one is.
Policed(u, set) ==
    [col \in DOMAIN set |-> IF col = "secret" /\ u \in MaskedFor THEN "***" ELSE set[col]]

Rendered(u, row) ==
    IF row = Absent \/ ~Admits(u, row[1].realm) THEN Absent ELSE <<Policed(u, row[1])>>

\* _update_escapes_row_policy
Escapes(u, set) == "realm" \in DOMAIN set /\ ~Admits(u, set.realm)

Over(row, set) ==
    [col \in DOMAIN row |-> IF col \in DOMAIN set THEN set[col] ELSE row[col]]
Created(set) == Over([realm |-> "null", secret |-> "null"], set)

-----------------------------------------------------------------------------
(* The overlay (_overlay): keys deleted, updates by key, rows created.     *)

Untouched == [deleted |-> FALSE, updated |-> <<>>, created |-> Absent]

Replay(o, e) ==
    CASE e.kind = "create" -> [Untouched EXCEPT !.created = <<Created(e.set)>>]
      [] e.kind = "update" ->
            IF o.created # Absent
            THEN [o EXCEPT !.created = <<Over(o.created[1], e.set)>>]
            ELSE [o EXCEPT !.updated = <<IF o.updated = <<>> THEN e.set
                                         ELSE [col \in DOMAIN o.updated[1] \cup DOMAIN e.set |->
                                                IF col \in DOMAIN e.set THEN e.set[col]
                                                ELSE o.updated[1][col]]>>]
      [] e.kind = "delete" -> [Untouched EXCEPT !.deleted = TRUE]

\* What the first n edits make of a key.
Overlay(k, n) ==
    LET after[m \in 0..Len(log)] ==
            IF m = 0 THEN Untouched
            ELSE IF log[m].key = k THEN Replay(after[m - 1], log[m]) ELSE after[m - 1]
    IN  after[n]

\* The object of a key after n edits, as u reads it. Created rows lie over the
\* dataset's, where the policy lets them through.
Seen(u, k, n) ==
    LET o == Overlay(k, n)
        row == Rendered(u, rows[k])
        set == IF o.updated = <<>> THEN <<>> ELSE o.updated[1] IN
    IF o.created # Absent /\ Admits(u, o.created[1].realm) THEN Rendered(u, o.created)
    ELSE IF o.deleted \/ row = Absent THEN Absent
    ELSE IF o.updated = <<>> THEN row
    ELSE IF Escapes(u, set) THEN Absent ELSE <<Over(row[1], Policed(u, set))>>

\* _system_view: no policy.
Actual(k, n) ==
    LET o == Overlay(k, n) IN
    IF o.created # Absent THEN o.created
    ELSE IF o.deleted \/ rows[k] = Absent THEN Absent
    ELSE IF o.updated = <<>> THEN rows[k] ELSE <<Over(rows[k][1], o.updated[1])>>

-----------------------------------------------------------------------------
(* apply_action. *)

\* A mutant: whether somebody sees an object of that key.
TakenInView(k) == Actual(k, Len(log)) # Absent

\* _key_is_taken: a row in the dataset, deleted or not, or a live create.
KeyIsTaken(k) == rows[k] # Absent \/ Overlay(k, Len(log)).created # Absent

CreateAllowed(u, k, set) ==
    Policied(u) => ~KeyIsTaken(k) /\ Admits(u, Created(set).realm)

\* The merged row is put to the policy: no value where a mask is, and inside.
UpdateAllowed(u, k, set) ==
    LET before == Actual(k, Len(log)) IN
    Policied(u) /\ DOMAIN set # {} =>
        /\ before # Absent /\ Admits(u, Over(before[1], set).realm)
        /\ u \in MaskedFor => "secret" \notin DOMAIN set

EditAllowed(e) ==
    IF e.kind = "create" THEN CreateAllowed(e.by, e.key, e.set)
    ELSE /\ Seen(e.by, e.key, Len(log)) # Absent
         /\ e.kind = "update" => UpdateAllowed(e.by, e.key, e.set)

Assignments(u) ==
    [{"realm"} -> Realms] \cup [{"secret"} -> {u}]
    \cup {[realm |-> x, secret |-> u] : x \in Realms}

Check(c) == \E u \in Actors, k \in Holders, kind \in {"create", "update", "delete"} :
    \E set \in IF kind = "delete" THEN {<<>>} ELSE Assignments(u) :
        LET e == [kind |-> kind, key |-> k, by |-> u, set |-> set] IN
        /\ ~acting[c].on /\ Len(log) + folded < MaxLogged
        /\ EditAllowed(e)
        /\ acting' = [acting EXCEPT ![c] = [on |-> TRUE, stale |-> FALSE, edit |-> e]]
        /\ UNCHANGED <<rows, log, unseen, folded>>

\* The calls that have checked what is no longer so.
Upset(keys) ==
    [d \in Calls |-> IF acting[d].on /\ acting[d].edit.key \in keys
                     THEN [acting[d] EXCEPT !.stale = TRUE] ELSE acting[d]]

Record(c) ==
    LET e == acting[c].edit IN
    /\ acting[c].on /\ Len(log) + folded < MaxLogged
    /\ log' = Append(log, e)
    /\ unseen' = IF acting[c].stale THEN unseen \cup {e.key} ELSE unseen
    /\ acting' = [Upset({e.key}) EXCEPT ![c] = NoCallYet]
    /\ UNCHANGED <<rows, folded>>

\* writeback, by and large: the rows become what the edits make of them.
FoldEdits ==
    /\ log # <<>> /\ folded' = folded + Len(log)
    /\ rows' = [k \in Holders |-> Actual(k, Len(log))]
    /\ log' = <<>> /\ acting' = Upset({log[n].key : n \in DOMAIN log})
    /\ UNCHANGED unseen

ObjectGovernanceNext == FoldEdits \/ \E c \in Calls : Check(c) \/ Record(c)

ObjectGovernanceSpec == ObjectGovernanceInit /\ [][ObjectGovernanceNext]_objectGovernanceVars

-----------------------------------------------------------------------------
\* A row that somebody without a policy has created over. Those whom the new
\* one is not for are still shown the old one.
CreatedOver(k, n) == rows[k] # Absent /\ Overlay(k, n).created # Absent

(* An object is read by nobody whom its current row is not for, and with   *)
(* what is masked for the reader masked, however edits have moved it and   *)
(* whoever assigned the values.                                            *)
ReadsAreGoverned ==
    \A u \in Actors, k \in Holders :
        LET seen == Seen(u, k, Len(log)) IN
        seen # Absent /\ ~CreatedOver(k, Len(log)) => seen = Rendered(u, Actual(k, Len(log)))

(* "Refuse, never drop": no edit is logged to an object that its author    *)
(* could not see, or cannot see afterwards, or over a row of the dataset   *)
(* hidden from the author, and none puts a value where a mask hid one, be  *)
(* it by deleting and creating anew. It is said of edits that nothing came *)
(* in the way of between their check and their entry.                      *)
WritesAreGoverned ==
    \A n \in DOMAIN log :
        LET u == log[n].by
            k == log[n].key
            before == Actual(k, n - 1)
            after == Actual(k, n) IN
        Policied(u) /\ k \notin unseen =>
            /\ rows[k] # Absent /\ ~CreatedOver(k, n - 1)
                => Admits(u, rows[k][1].realm) /\ before # Absent /\ Admits(u, before[1].realm)
            /\ after # Absent => Admits(u, after[1].realm)
            /\ u \in MaskedFor /\ after # Absent =>
                \/ before # Absent /\ after[1].secret = before[1].secret
                \/ before = Absent /\ rows[k] = Absent

EditsAreGoverned == ReadsAreGoverned /\ WritesAreGoverned
=============================================================================
