----------------------------- MODULE PolicyDiff -----------------------------
(***************************************************************************)
(* The comparator of core/policy_diff.py: does a change widen anybody's    *)
(* access?  It evaluates every account that is not an admin before and     *)
(* after the change, on the tables and on a shadow of them, and a change   *)
(* with a gain is a loosening.  Applied is what the change then does       *)
(* (ApprovalService._apply), the propagation of markings included.         *)
(***************************************************************************)
EXTENDS AccessControl

Change(kind, target, payload) == [kind |-> kind, target |-> target, payload |-> payload]

\* Disabled accounts count as if enabled: enabling one is not classified.
Candidates(p) == {u \in Users : p.role[u] \notin {NoAccount, "admin"}}

Gain(user, what, on) == [user |-> user, what |-> what, on |-> on]

\* The capabilities of a list of grants that a user gets and did not have.
GrantGains(user, on, before, after) ==
    {Gain(user, <<may>>, on) : may \in {m \in {"view", "edit"} : after[m] /\ ~before[m]}}

RowState(p, user, groups, policy) ==
    [column |-> policy.row.column,
     values |-> Allowed(policy.row.rules, p.role[user], user, groups)]

\* The mode of each column that is masked for a user; of two masks on one
\* column the last counts.
MaskState(p, user, groups, policy) ==
    LET on == {i \in DOMAIN policy.masks : Applies(policy.masks[i], p.role[user], user, groups)}
        columns == {policy.masks[i].column : i \in on}
        last(c) == CHOOSE i \in on : /\ policy.masks[i].column = c
                                     /\ \A j \in on : policy.masks[j].column = c => j <= i
    IN  [c \in columns |-> policy.masks[last(c)].mode]

\* A row policy that is lifted, or that lets more values through, is a gain;
\* one on another column cannot be compared and counts as one.
RowGains(user, d, before, after) ==
    IF before.column = "*" THEN {}
    ELSE IF after.column = "*" THEN {Gain(user, <<"all rows">>, d)}
    ELSE IF after.column # before.column THEN {Gain(user, <<"row column">>, d)}
    ELSE IF after.values \subseteq before.values THEN {}
    ELSE {Gain(user, <<"rows", after.values \ before.values>>, d)}

\* A mutant: a change of mode counts as none.
UnmaskedGains(user, d, before, after) ==
    {Gain(user, <<"unmasked", c>>, d) : c \in DOMAIN before \ DOMAIN after}

\* A mask that goes is a gain, and so is any change of its mode.
MaskGains(user, d, before, after) ==
    {Gain(user, <<"unmasked", c>>, d) : c \in DOMAIN before \ DOMAIN after}
    \cup {Gain(user, <<"mode", c, before[c], after[c]>>, d) :
            c \in {x \in DOMAIN before \cap DOMAIN after : after[x] # before[x]}}

PolicyGains(p, user, d, groupsBefore, groupsAfter, before, after) ==
    RowGains(user, d, RowState(p, user, groupsBefore, before),
                      RowState(p, user, groupsAfter, after))
    \cup MaskGains(user, d, MaskState(p, user, groupsBefore, before),
                            MaskState(p, user, groupsAfter, after))

\* An uncleared user gains nothing from a grant.
DatasetGrantsDiff(p, d, grants) ==
    UNION {GrantGains(u, d, Evaluate(p, u, p.granted[d]), Evaluate(p, u, grants)) :
             u \in {v \in Candidates(p) : HasClearance(p, v, d)}}

OntologyGrantsDiff(p, t, grants) ==
    UNION {GrantGains(u, t, Evaluate(p, u, p.typed[t]), Evaluate(p, u, grants)) :
             u \in Candidates(p)}

DatasetPolicyDiff(p, d, policy) ==
    UNION {PolicyGains(p, u, d, GroupsOf(p, u), GroupsOf(p, u), p.policy[d], policy) :
             u \in Candidates(p)}

\* Whoever could not pass the markings of a dataset, and now can, and is
\* granted it.
MarkingGains(p, explicit) ==
    LET before == Propagate(p.lineage, p.explicit)
        after == Propagate(p.lineage, explicit)
    IN  {Gain(x[1], <<"view", before[x[2]] \ after[x[2]]>>, x[2]) :
           x \in {y \in Candidates(p) \X Datasets :
                    /\ after[y[2]] \subseteq p.cleared[y[1]]
                    /\ ~(before[y[2]] \subseteq p.cleared[y[1]])
                    /\ Evaluate(p, y[1], p.granted[y[2]]).view}}

WithMarkings(p, d, markings) == [p.explicit EXCEPT ![d] = markings]
WithoutMarking(p, marking) == [d \in Datasets |-> p.explicit[d] \ {marking}]

ClearancesDiff(p, user, markings) ==
    IF user \notin Candidates(p) THEN {}
    ELSE {Gain(user, <<"clearance">>, d) :
            d \in {e \in Datasets : /\ Enforced(p, e) \subseteq markings
                                    /\ ~(Enforced(p, e) \subseteq p.cleared[user])
                                    /\ Evaluate(p, user, p.granted[e]).view}}

Subjects(policy) ==
    {r.subject : r \in policy.row.rules}
    \cup UNION {policy.masks[i].exempt : i \in DOMAIN policy.masks}

\* Some grant, row rule or exemption names the group.
GroupReferenced(p, group) ==
    \/ \E d \in Datasets : OfGroup(group) \in {g.subject : g \in p.granted[d]}
    \/ \E t \in ObjectTypes : OfGroup(group) \in {g.subject : g \in p.typed[t]}
    \/ \E d \in Datasets : OfGroup(group) \in Subjects(p.policy[d])

\* A member that comes or goes is evaluated under the membership it will have.
\* A list without grants gives what the role gives, whatever the groups.
MemberGains(p, user, before, after) ==
    LET cleared == {d \in Datasets : p.granted[d] # {} /\ HasClearance(p, user, d)}
        role == p.role[user]
    IN  (UNION {GrantGains(user, d, Fold(role, user, before, p.granted[d]),
                                    Fold(role, user, after, p.granted[d])) : d \in cleared})
        \cup (UNION {GrantGains(user, t, Fold(role, user, before, p.typed[t]),
                                         Fold(role, user, after, p.typed[t])) : t \in ObjectTypes})
        \cup UNION {PolicyGains(p, user, d, before, after, p.policy[d], p.policy[d]) :
                      d \in Datasets}

GroupMembersDiff(p, group, members) ==
    LET current == p.member[group]
        changed == (members \ current) \cup (current \ members)
        after(u) == IF u \in members THEN GroupsOf(p, u) \cup {group} ELSE GroupsOf(p, u) \ {group}
    IN  IF ~GroupReferenced(p, group) THEN {}
        ELSE UNION {MemberGains(p, u, GroupsOf(p, u), after(u)) : u \in changed \cap Candidates(p)}

\* A role is compared by its rank alone.
UserRoleDiff(p, user, role) ==
    IF p.role[user] = NoAccount \/ Rank(role) > Rank(p.role[user])
    THEN {Gain(user, <<p.role[user], role>>, "role")} ELSE {}

\* Switching the review off is a loosening by definition.
SettingsDiff(on) == IF on THEN {} ELSE {Gain("everyone", <<"review off">>, "settings")}

Diff(p, change) ==
    LET target == change.target
        payload == change.payload
    IN  CASE change.kind = "dataset_grants" -> DatasetGrantsDiff(p, target, payload)
          [] change.kind = "ontology_grants" -> OntologyGrantsDiff(p, target, payload)
          [] change.kind = "dataset_policy" -> DatasetPolicyDiff(p, target, payload)
          [] change.kind = "dataset_markings" -> MarkingGains(p, WithMarkings(p, target, payload))
          [] change.kind = "marking_delete" -> MarkingGains(p, WithoutMarking(p, target))
          [] change.kind = "clearances" -> ClearancesDiff(p, target, payload)
          [] change.kind = "group_members" -> GroupMembersDiff(p, target, payload)
          [] change.kind = "group_delete" -> GroupMembersDiff(p, target, {})
          [] change.kind = "user_role" -> UserRoleDiff(p, target, payload)
          [] change.kind = "approval_settings" -> SettingsDiff(payload)

IsLoosening(p, change) == Diff(p, change) # {}

\* Markings are set and then propagated; deleting one takes it from the
\* datasets, inherited or not, and from the clearances.
Marked(p, explicit) == [p EXCEPT !.explicit = explicit,
                                 !.inherited = Propagate(p.lineage, explicit)]

\* Each write replaces the whole list, policy or role.
SetGrantsForDataset(p, d, grants) == [p EXCEPT !.granted[d] = grants]
SetGrantsForType(p, t, grants) == [p EXCEPT !.typed[t] = grants]
SetDatasetPolicy(p, d, policy) == [p EXCEPT !.policy[d] = policy]
SetClearances(p, user, markings) == [p EXCEPT !.cleared[user] = markings]
SetGroupMembers(p, group, members) == [p EXCEPT !.member[group] = members]

\* The grants, rules and exemptions that name a deleted group stay.
DeletedGroup(p, group) == SetGroupMembers(p, group, {})

DeletedMarking(p, marking) ==
    [Marked(p, WithoutMarking(p, marking)) EXCEPT
       !.cleared = [u \in Users |-> p.cleared[u] \ {marking}]]

\* What the store holds when the change has been applied.
Applied(p, change) ==
    LET target == change.target
        payload == change.payload
    IN  CASE change.kind = "dataset_grants" -> SetGrantsForDataset(p, target, payload)
          [] change.kind = "ontology_grants" -> SetGrantsForType(p, target, payload)
          [] change.kind = "dataset_policy" -> SetDatasetPolicy(p, target, payload)
          [] change.kind = "dataset_markings" -> Marked(p, WithMarkings(p, target, payload))
          [] change.kind = "marking_delete" -> DeletedMarking(p, target)
          [] change.kind = "clearances" -> SetClearances(p, target, payload)
          [] change.kind = "group_members" -> SetGroupMembers(p, target, payload)
          [] change.kind = "group_delete" -> DeletedGroup(p, target)
          [] change.kind = "user_role" -> [p EXCEPT !.role[target] = payload]
          [] change.kind = "approval_settings" -> [p EXCEPT !.review = payload]
=============================================================================
