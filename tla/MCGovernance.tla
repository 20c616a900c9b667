---------------------------- MODULE MCGovernance ----------------------------
(***************************************************************************)
(* Instances of the governance modules small enough for TLC: two admins,   *)
(* an editor and a viewer, one group, a dataset and one derived from it,   *)
(* an object type over the first; two imports of one archive; an object    *)
(* that an admin and the viewer edit; and every small archive merged into  *)
(* every small workspace; and the fingerprints of two governance tables.   *)
(* The parts share no state: each behaviour is of one of them.             *)
(***************************************************************************)
EXTENDS TLC, Approvals, Markings, Accounts, Portability, ObjectGovernance, MergeImport,
        Verification

CONSTANTS a1, a2, ed, vi, team, raw, derived, type, secret, k1, r1, r2

VARIABLE part       \* the component that moves in this behaviour

MCUsers == {a1, a2, ed, vi}
MCBacking == type :> raw
MCColumns == raw :> {"region", "pay"} @@ derived :> {"pay"}

Rule(subject, values) == [subject |-> subject, values |-> values]
Rows(column, rules) == [row |-> [column |-> column, rules |-> rules], masks |-> <<>>]
Masking(mode, exempt) == <<[column |-> "pay", mode |-> mode, exempt |-> exempt]>>
Mask(mode, exempt) == [NoPolicy EXCEPT !.masks = Masking(mode, exempt)]

GrantLists ==
    {{}, {View(Everyone)}, {Edit(OfRole("editor"))}, {View(OfGroup(team))},
     {Edit(OfGroup(team)), View(OfRole("viewer"))}, {Edit(OfUser(vi))}}

PolicyTexts ==
    {NoPolicy, Mask("hash", {OfGroup(team)}), Mask("redact", {OfRole("editor")}),
     Rows("region", {Rule(Everyone, {1})}),
     Rows("pay", {Rule(OfRole("viewer"), {2})}),
     [Rows("region", {Rule(Everyone, {1}), Rule(OfGroup(team), {2})})
        EXCEPT !.masks = Masking("redact", {})]}

\* Two masks on one column.
Twice == [NoPolicy EXCEPT !.masks = Masking("redact", {}) \o Masking("hash", {OfGroup(team)})]

\* Nobody is granted, marked or cleared anything.
Open ==
    [role |-> a1 :> "admin" @@ a2 :> "admin" @@ ed :> "editor" @@ vi :> "viewer",
     member |-> team :> {}, granted |-> [d \in Datasets |-> {}], typed |-> type :> {},
     policy |-> [d \in Datasets |-> NoPolicy], lineage |-> {<<raw, derived>>},
     explicit |-> [d \in Datasets |-> {}], inherited |-> [d \in Datasets |-> {}],
     cleared |-> [u \in Users |-> {}], review |-> FALSE]

Members == {{}, {vi}, {ed, vi}}

Clearings == {[u \in Users |-> IF u \in c THEN {secret} ELSE {}] : c \in SUBSET {ed, vi}}

\* Every list of grants, on the dataset and on the type, under every group.
GrantTables ==
    {[Open EXCEPT !.granted[raw] = g, !.typed[type] = t, !.member[team] = m] :
        g \in GrantLists, t \in GrantLists, m \in Members}

\* Every marking and clearance over a few lists of grants.
MarkingTables ==
    {[Marked(Open, e) EXCEPT !.cleared = c, !.granted[raw] = g, !.granted[derived] = h] :
        e \in [Datasets -> SUBSET {secret}], c \in Clearings,
        g \in {{}, {View(OfGroup(team))}, {Edit(OfUser(vi))}}, h \in {{}, {View(Everyone)}}}

\* Every row policy and mask under every group.
PolicyTables ==
    {[Open EXCEPT !.policy[raw] = x, !.member[team] = m, !.granted[raw] = g] :
        x \in PolicyTexts \cup {Twice}, m \in Members, g \in {{}, {View(OfUser(vi))}}}

MCChanges ==
    {Change("dataset_grants", raw, g) : g \in GrantLists}
    \cup {Change("ontology_grants", type, g) : g \in GrantLists}
    \cup {Change("dataset_policy", raw, x) : x \in PolicyTexts \cup {Twice}}
    \cup {Change("dataset_markings", d, m) : d \in Datasets, m \in SUBSET {secret}}
    \cup {Change("marking_delete", secret, {}), Change("group_delete", team, {})}
    \cup {Change("clearances", u, m) : u \in {ed, vi}, m \in SUBSET {secret}}
    \cup {Change("group_members", team, m) : m \in Members}

\* Two requests over few changes, the mode among them.
Contended ==
    {Change("dataset_grants", raw, g) : g \in {{}, {View(OfGroup(team))}}}
    \cup {Change("approval_settings", "approvals", FALSE)}

NothingAsked == [policies |-> {Open}, asked |-> {}, requests |-> {}]

MCWorkloads ==
    {[policies |-> GrantTables \cup MarkingTables \cup PolicyTables, asked |-> MCChanges, requests |-> {}],
     [policies |-> {[Open EXCEPT !.review = TRUE]}, asked |-> Contended,
      requests |-> {r1, r2}],
     NothingAsked}

\* The transform runs once declared, on its only input or on none.
MCDeclared == "transform" :> {{}, {<<raw, derived>>}}

MCOffers == {{"password", "token"}, {"sso", "member", "workspace"}, {}}

\* The viewer reads the rows of one realm, with the secret masked.
MCReadable == a1 :> {} @@ vi :> {"his"}
MCBackings == {k1 :> Row("his", "old"), k1 :> Row("hers", "old"), k1 :> Absent}

\* Two names of datasets and of markings, and what renaming makes of them.
MCPrefixed == "a" :> "pa" @@ "pa" :> "ppa" @@ "ppa" :> "ppa"
MCNamespaced == "m" :> "m.s" @@ "m.s" :> "m.s.s" @@ "m.s.s" :> "m.s.s"

Bare ==
    [datasets |-> {}, described |-> <<>>, explicit |-> [d \in DatasetNames |-> {}],
     lineage |-> {}, granted |-> [d \in DatasetNames |-> {}],
     typed |-> [o \in TypeNames |-> {}], authored |-> {}, declares |-> <<>>, review |-> FALSE]

Meanings == UNION {[n -> Descriptions] : n \in SUBSET {"m", "m.s"}}

\* A dataset under any markings, and one derived from it or none.
MarkedArchives == UNION {
    {[Bare EXCEPT !.datasets = ds, !.described = x, !.explicit["a"] = e,
                  !.granted = [d \in DatasetNames |-> IF d \in ds THEN {Everyone} ELSE {}],
                  !.lineage = {<<"a", "pa">>} \cap (ds \X ds)] :
        ds \in {{"a"}, {"a", "pa"}}, e \in SUBSET DOMAIN x} : x \in Meanings}

MarkedTargets == UNION {
    {[Bare EXCEPT !.datasets = ds, !.described = x,
                  !.explicit = [d \in DatasetNames |-> IF d \in ds THEN e ELSE {}]] :
        ds \in {{}, {"a"}, {"a", "pa"}}, e \in {{}, DOMAIN x}} : x \in Meanings}

\* A type in a file of one of two names, grants for it, and a dashboard.
Declaring == {<<>>} \cup {f :> [type |-> "t", text |-> x] : f \in FileNames, x \in Descriptions}
TypedTables ==
    {[Bare EXCEPT !.declares = f, !.typed["t"] = g, !.authored = n] :
        f \in Declaring, g \in {{}, {Everyone}}, n \in SUBSET {"board"}}

\* Grants for a dataset that is there, or is still to be built.
GrantedTables ==
    {[Bare EXCEPT !.datasets = ds, !.granted["a"] = g] :
        ds \in {{}, {"a"}}, g \in {{}, {View(Everyone)}, {View(OfUser(vi))}}}

MCArchives == MarkedArchives \cup TypedTables \cup GrantedTables
MCTargets == MarkedTargets \cup TypedTables \cup GrantedTables

MergePairs ==
    (MarkedArchives \X MarkedTargets) \cup (TypedTables \X TypedTables)
    \cup (GrantedTables \X GrantedTables)

NoMerge ==
    /\ archive = Bare /\ target = Bare /\ prefixed = FALSE
    /\ report = NoReport /\ merge = "idle" /\ before = Bare /\ edits = 0

\* Policies, a group and grants, at either end.
Verifiable ==
    {[Open EXCEPT !.policy[raw] = x, !.member[team] = m, !.granted[raw] = g] :
        x \in PolicyTexts, m \in {{}, {vi}}, g \in {{}, {Edit(OfGroup(team))}}}
MCPairs == {[source |-> p, destination |-> q] : p \in Verifiable, q \in Verifiable}

\* Rows that a mask makes alike, rows that are alike, and none.
Cells(region, pay) == [region |-> region, pay |-> pay]
MCContents ==
    {<<>>, <<Cells(1, 1)>>, <<Cells(1, 1), Cells(1, 2)>>, <<Cells(2, 1), Cells(2, 1)>>,
     <<Cells(1, 2), Cells(2, 2), Cells(2, 1)>>}

NoVerification ==
    /\ compared = [source |-> Open, destination |-> Open] /\ dataset = raw
    /\ rows0 = Unreadable /\ rows1 = Unreadable /\ verdict = <<>>

\* Markings meet markings, and types meet types.
GovernanceInit ==
    /\ ApprovalsInit /\ MarkingsInit /\ AccountsInit /\ PortabilityInit /\ ObjectGovernanceInit
    /\ part \in {"approvals", "markings", "accounts", "portability", "objects", "merge",
                 "verification"}
    /\ part # "objects" => rows = k1 :> Absent
    /\ part # "approvals" <=> workload.asked = {}
    /\ part # "accounts" <=> offered = {}
    /\ own \in IF part = "portability" THEN {{}, {1}} ELSE {{}}
    /\ IF part = "merge" THEN MergeInit /\ <<archive, target>> \in MergePairs
       ELSE NoMerge
    /\ IF part = "verification" THEN VerificationInit /\ dataset = raw ELSE NoVerification

GovernanceNext ==
    /\ \/ /\ part = "approvals" /\ ApprovalsNext
          /\ UNCHANGED <<markingVars, accountVars, portabilityVars, objectGovernanceVars,
                         mergeVars, verificationVars>>
       \/ /\ part = "markings" /\ MarkingsNext
          /\ UNCHANGED <<approvalVars, accountVars, portabilityVars, objectGovernanceVars,
                         mergeVars, verificationVars>>
       \/ /\ part = "accounts" /\ AccountsNext
          /\ UNCHANGED <<approvalVars, markingVars, portabilityVars, objectGovernanceVars,
                         mergeVars, verificationVars>>
       \/ /\ part = "portability" /\ PortabilityNext
          /\ UNCHANGED <<approvalVars, markingVars, accountVars, objectGovernanceVars,
                         mergeVars, verificationVars>>
       \/ /\ part = "objects" /\ ObjectGovernanceNext
          /\ UNCHANGED <<approvalVars, markingVars, accountVars, portabilityVars,
                         mergeVars, verificationVars>>
       \/ /\ part = "merge" /\ MergeNext
          /\ UNCHANGED <<approvalVars, markingVars, accountVars, portabilityVars,
                         objectGovernanceVars, verificationVars>>
       \/ /\ part = "verification" /\ VerificationNext
          /\ UNCHANGED <<approvalVars, markingVars, accountVars, portabilityVars,
                         objectGovernanceVars, mergeVars>>
    /\ UNCHANGED part

GovernanceSpec ==
    GovernanceInit
    /\ [][GovernanceNext]_<<approvalVars, markingVars, accountVars, portabilityVars,
                            objectGovernanceVars, mergeVars, verificationVars, part>>
=============================================================================
