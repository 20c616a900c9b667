--------------------------- MODULE AccessControl ---------------------------
(***************************************************************************)
(* Who may see what: the evaluator of core/permissions.py over the         *)
(* governance tables.  The tables are one record p:                        *)
(*   role      user -> role            member    group -> users            *)
(*   granted   dataset -> grants       typed     object type -> grants     *)
(*   policy    dataset -> policy       lineage   upstream, downstream      *)
(*   explicit, inherited               dataset -> markings                 *)
(*   cleared   user -> markings        review    second-approver mode      *)
(* A grant names a subject and says whether it views or edits; a policy is *)
(* a row rule and column masks.  Names are model values: folding their     *)
(* case is left out.                                                       *)
(***************************************************************************)
EXTENDS Naturals, Sequences, FiniteSets, Lineage

CONSTANTS
    Users,        \* accounts, admins included
    Groups,
    ObjectTypes,
    Backing,      \* object type -> the dataset behind it
    Columns,      \* dataset -> its columns
    Values        \* what a cell of a column may hold

Roles == {"viewer", "editor", "admin"}

Rank(role) == CASE role = "viewer" -> 0 [] role = "editor" -> 1 [] role = "admin" -> 2

\* A user without an account has no role.
NoAccount == "none"

Everyone == [kind |-> "everyone", name |-> "everyone"]
OfRole(role) == [kind |-> "role", name |-> role]
OfGroup(group) == [kind |-> "group", name |-> group]
OfUser(user) == [kind |-> "user", name |-> user]

Named ==
    {Everyone} \cup {OfRole(r) : r \in Roles} \cup {OfGroup(g) : g \in Groups}
    \cup {OfUser(u) : u \in Users}

View(subject) == [subject |-> subject, edit |-> FALSE]
Edit(subject) == [subject |-> subject, edit |-> TRUE]

NoRowPolicy == [column |-> "*", rules |-> {}]
NoPolicy == [row |-> NoRowPolicy, masks |-> <<>>]

GroupsOf(p, user) == {g \in Groups : user \in p.member[g]}

\* PermissionService._subject_matches, with the groups as an argument.
Matches(subject, role, user, groups) ==
    \/ subject.kind = "everyone"
    \/ subject.kind = "role" /\ subject.name = role
    \/ subject.kind = "group" /\ subject.name \in groups
    \/ subject.kind = "user" /\ subject.name = user

\* The rule grants of both kinds share: an admin passes, no grant at all
\* leaves the default of the role, and any grant makes the list exhaustive.
Fold(role, user, groups, grants) ==
    LET matching == {g \in grants : Matches(g.subject, role, user, groups)}
    IN  IF role = "admin" THEN [view |-> TRUE, edit |-> TRUE]
        ELSE IF grants = {} THEN [view |-> TRUE, edit |-> Rank(role) >= Rank("editor")]
        ELSE [view |-> matching # {}, edit |-> \E g \in matching : g.edit]

Evaluate(p, user, grants) == Fold(p.role[user], user, GroupsOf(p, user), grants)

\* A marking denies from the moment it is set, propagated or not.
Enforced(p, d) == p.explicit[d] \cup p.inherited[d]

HasClearance(p, user, d) ==
    p.role[user] = "admin" \/ Enforced(p, d) \subseteq p.cleared[user]

DatasetPermission(p, user, d) ==
    IF HasClearance(p, user, d) THEN Evaluate(p, user, p.granted[d])
    ELSE [view |-> FALSE, edit |-> FALSE]

\* The objects of a type are the rows of its dataset.
TypePermission(p, user, t) ==
    LET may == Evaluate(p, user, p.typed[t])
        view == DatasetPermission(p, user, Backing[t]).view /\ may.view
    IN  [view |-> view, edit |-> view /\ may.edit]

\* The values of the policy column that the rules give a user.
Allowed(rules, role, user, groups) ==
    UNION {r.values : r \in {q \in rules : Matches(q.subject, role, user, groups)}}

Applies(mask, role, user, groups) ==
    ~\E s \in mask.exempt : Matches(s, role, user, groups)

Listed(seq) == seq \in Seq({seq[i] : i \in DOMAIN seq})

\* The members of a sequence that are in a set, in their order.
Kept(seq, S) ==
    LET upto[n \in Nat] ==
            IF n = 0 THEN <<>>
            ELSE IF n \in DOMAIN seq /\ seq[n] \in S THEN Append(upto[n - 1], seq[n])
            ELSE upto[n - 1]
    IN  upto[Len(seq)]

\* The masks of one column for a user, in the order of the policy.
MasksOn(p, user, d, column) ==
    LET masks == p.policy[d].masks
    IN  Kept(masks, {m \in {masks[i] : i \in DOMAIN masks} :
                        m.column = column /\ Applies(m, p.role[user], user, GroupsOf(p, user))})

\* What a mask makes of a cell: NULL, "***", or a digest of what is there
\* already (and NULL has none).
MaskCell(cell, mask) ==
    CASE mask.mode = "null" -> <<"null">>
      [] mask.mode = "redact" -> <<"redacted">>
      [] mask.mode = "hash" -> IF cell = <<"null">> THEN cell ELSE <<"hash", cell>>

\* One mask after the other.
Masked(masks, value) ==
    LET upto[n \in 0..Len(masks)] ==
            IF n = 0 THEN <<"plain", value>> ELSE MaskCell(upto[n - 1], masks[n])
    IN  upto[Len(masks)]

\* The rows that survive the row policy: one that names a column the dataset
\* lacks, or that has no rule for the user, leaves none.
RowVisible(p, user, d, row) ==
    LET rp == p.policy[d].row
    IN  \/ p.role[user] = "admin"
        \/ rp = NoRowPolicy
        \/ /\ rp.column \in Columns[d]
           /\ row[rp.column] \in Allowed(rp.rules, p.role[user], user, GroupsOf(p, user))

\* What a user gets to see of a dataset whatever rows it holds: of all
\* possible rows some, and for each column the rendering of the cell.
SeenRows(p, user, d) ==
    {row \in [Columns[d] -> Values] :
        DatasetPermission(p, user, d).view /\ RowVisible(p, user, d, row)}

ShownAs(p, user, d, row, c) ==
    IF p.role[user] = "admin" THEN <<"plain", row[c]>>
    ELSE Masked(MasksOn(p, user, d, c), row[c])

Sees(p, user, d) ==
    {<<row, c, ShownAs(p, user, d, row, c)>> :
        row \in SeenRows(p, user, d), c \in Columns[d]}
=============================================================================
