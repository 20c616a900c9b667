------------------------------ MODULE Approvals ------------------------------
(***************************************************************************)
(* Governance changes (core/approvals.py): every change is classified,     *)
(* filed as a proposal, and applied at once or, when second-approver mode  *)
(* is on and it loosens, when another admin approves.  A request is        *)
(* several transactions: what it read (its classification, the mode, the   *)
(* proposal's state) is kept in request[r] and may be stale when used.     *)
(* A marking change is one step here; Markings has its transactions.       *)
(***************************************************************************)
EXTENDS PolicyDiff

CONSTANTS
    Requests,       \* the requests that may be in flight at once
    Workloads,      \* the tables to start with, the changes asked for, and the requests
    MaxProposals    \* bound: proposals filed

GrantsFit(grants) == \A g \in grants : g.subject \in Named

PolicyFits(text) ==
    /\ text.row.column = "*" => text.row = NoRowPolicy
    /\ \A r \in text.row.rules : r.subject \in Named
    /\ Listed(text.masks)
    /\ \A i \in DOMAIN text.masks : text.masks[i].exempt \subseteq Named

\* No marking is inherited that the closure does not give: one may be missing,
\* as while a propagation is under way (Markings).
TablesFit(p) ==
    /\ DOMAIN p = {"role", "member", "granted", "typed", "policy", "lineage",
                   "explicit", "inherited", "cleared", "review"}
    /\ DOMAIN p.member = Groups /\ DOMAIN p.cleared = Users
    /\ DOMAIN p.granted = Datasets /\ \A d \in Datasets : GrantsFit(p.granted[d])
    /\ DOMAIN p.typed = ObjectTypes /\ \A t \in ObjectTypes : GrantsFit(p.typed[t])
    /\ DOMAIN p.policy = Datasets /\ \A d \in Datasets : PolicyFits(p.policy[d])
    /\ DOMAIN p.explicit = Datasets
    /\ \A d \in Datasets : Enforced(p, d) \subseteq Propagate(p.lineage, p.explicit)[d]

\* A change names what there is.
ChangeFits(change) ==
    CASE change.kind = "dataset_grants" ->
             change.target \in Datasets /\ GrantsFit(change.payload)
      [] change.kind = "ontology_grants" ->
             change.target \in ObjectTypes /\ GrantsFit(change.payload)
      [] change.kind = "dataset_policy" ->
             change.target \in Datasets /\ PolicyFits(change.payload)
      [] change.kind = "dataset_markings" -> change.target \in Datasets
      [] change.kind \in {"clearances", "user_role"} -> change.target \in Users
      [] change.kind \in {"group_members", "group_delete"} -> change.target \in Groups
      [] OTHER -> change.kind \in {"marking_delete", "approval_settings"}

ASSUME ApprovalsAssumption ==
    /\ MaxProposals \in Nat
    /\ \A t \in ObjectTypes : Backing[t] \in Datasets
    /\ \A w \in Workloads : /\ \A p \in w.policies : TablesFit(p)
                             /\ \A change \in w.asked : ChangeFits(change)

VARIABLES
    policy,      \* the governance tables
    workload,    \* the requests of this behaviour and what they ask; no step changes it
    proposals,   \* the inbox: a sequence of proposals
    request,     \* the state of each request
    applied      \* history: the proposals whose change has been applied

approvalVars == <<policy, workload, proposals, request, applied>>

NoRequest == [pc |-> "idle"]

ApprovalsInit ==
    /\ \E w \in Workloads :
         policy \in w.policies /\ workload = [asked |-> w.asked, requests |-> w.requests]
    /\ proposals = <<>>
    /\ request = [r \in Requests |-> NoRequest]
    /\ applied = {}

Admins(p) == {u \in Users : p.role[u] = "admin"}

Goes(r, to) == request' = [request EXCEPT ![r] = to]
Ends(r) == Goes(r, NoRequest)

\* A user cannot demote himself; enabling the review takes two admins.
Permitted(admin, change) ==
    /\ admin \in Admins(policy)
    /\ change.kind = "user_role" => /\ change.target # admin
                                    /\ change.payload # policy.role[change.target]
    /\ change.kind = "approval_settings" /\ change.payload => Cardinality(Admins(policy)) >= 2

\* ApprovalService.submit, up to the record: a tightening applies under any
\* mode, a loosening is queued when the mode is on.
Submit(r, admin, change) ==
    /\ request[r] = NoRequest
    /\ Permitted(admin, change)
    /\ Goes(r, [pc |-> "file", admin |-> admin, change |-> change, diff |-> Diff(policy, change),
                queues |-> IsLoosening(policy, change) /\ policy.review])
    /\ UNCHANGED <<policy, workload, proposals, applied>>

\* The record is filed pending, whether or not the change is applied next.
FileRecord(r) ==
    /\ request[r].pc = "file"
    /\ Len(proposals) < MaxProposals
    /\ proposals' = Append(proposals, [change |-> request[r].change, diff |-> request[r].diff,
                                       proposer |-> request[r].admin, state |-> "pending"])
    /\ IF request[r].queues THEN Ends(r)
       ELSE Goes(r, [pc |-> "apply", id |-> Len(proposals) + 1])
    /\ UNCHANGED <<policy, workload, applied>>

\* A mutant: the decision is recorded first.
DecideFirst(r) ==
    /\ request[r].pc = "apply"
    /\ request' = [request EXCEPT ![r].pc = "decide"]
    /\ proposals' = [proposals EXCEPT ![request[r].id].state = "approved"]
    /\ UNCHANGED <<policy, workload, applied>>

\* The store write of the change.
ApplyChange(r) ==
    /\ request[r].pc = "apply"
    /\ policy' = Applied(policy, proposals[request[r].id].change)
    /\ applied' = applied \cup {request[r].id}
    /\ Goes(r, [request[r] EXCEPT !.pc = "decide"])
    /\ UNCHANGED <<workload, proposals>>

\* A mutant: the UPDATE does not look at the state.
DecideAnyway(id, state) == proposals' = [proposals EXCEPT ![id].state = state]

\* decide_proposal: the UPDATE finds the row pending, or the caller raises.
DecideAs(id, state) ==
    IF proposals[id].state = "pending"
    THEN proposals' = [proposals EXCEPT ![id].state = state]
    ELSE UNCHANGED proposals

Decide(r) ==
    /\ request[r].pc = "decide"
    /\ DecideAs(request[r].id, "approved")
    /\ Ends(r)
    /\ UNCHANGED <<policy, workload, applied>>

\* ApprovalService.approve: never by the proposer, and only if the diff is
\* still the one on file.
Approve(r, admin, id) ==
    /\ request[r] = NoRequest
    /\ admin \in Admins(policy)
    /\ proposals[id].state = "pending"
    /\ proposals[id].proposer # admin
    /\ Goes(r, [id |-> id,
                pc |-> IF Diff(policy, proposals[id].change) = proposals[id].diff
                       THEN "apply" ELSE "supersede"])
    /\ UNCHANGED <<policy, workload, proposals, applied>>

Supersede(r) ==
    /\ request[r].pc = "supersede"
    /\ DecideAs(request[r].id, "superseded")
    /\ Ends(r)
    /\ UNCHANGED <<policy, workload, applied>>

Reject(admin, id) ==
    /\ admin \in Admins(policy)
    /\ proposals[id].state = "pending"
    /\ DecideAs(id, "rejected")
    /\ UNCHANGED <<policy, workload, request, applied>>

Withdraw(admin, id) ==
    /\ admin \in Admins(policy)
    /\ proposals[id].proposer = admin
    /\ proposals[id].state = "pending"
    /\ DecideAs(id, "withdrawn")
    /\ UNCHANGED <<policy, workload, request, applied>>

\* The store raises, or the process dies: what was done stays done.
Abandon(r) ==
    /\ request[r] # NoRequest
    /\ Ends(r)
    /\ UNCHANGED <<policy, workload, proposals, applied>>

ApprovalsNext ==
    \/ \E r \in workload.requests, admin \in Users, change \in workload.asked : Submit(r, admin, change)
    \/ \E r \in workload.requests, admin \in Users, id \in DOMAIN proposals : Approve(r, admin, id)
    \/ \E admin \in Users, id \in DOMAIN proposals : Reject(admin, id) \/ Withdraw(admin, id)
    \/ \E r \in Requests : \/ FileRecord(r) \/ ApplyChange(r) \/ Decide(r)
                           \/ Supersede(r) \/ Abandon(r)

ApprovalsSpec == ApprovalsInit /\ [][ApprovalsNext]_approvalVars

-----------------------------------------------------------------------------
\* Of two masks on one column the comparator looks at the last, and reads
\* compose both.
Stacked(text, c) ==
    \E i, j \in DOMAIN text.masks :
        i # j /\ text.masks[i].column = c /\ text.masks[j].column = c

\* b shows a user something of a dataset or an object type that a does not: a
\* row, a cell in a form it did not have and that is not a masked form of it,
\* a right to edit, or a type to look at.
Exceeds(b, a, user) ==
    \/ \E d \in Datasets :
         \/ DatasetPermission(b, user, d).edit /\ ~DatasetPermission(a, user, d).edit
         \/ SeenRows(b, user, d) \ SeenRows(a, user, d) # {}
         \/ \E x \in Sees(b, user, d) \ Sees(a, user, d) :
              /\ <<x[1], x[2], <<"plain", x[1][x[2]]>>>> \notin Sees(a, user, d)
              /\ ~Stacked(a.policy[d], x[2]) /\ ~Stacked(b.policy[d], x[2])
    \/ \E t \in ObjectTypes, may \in {"view", "edit"} :
         TypePermission(b, user, t)[may] /\ ~TypePermission(a, user, t)[may]

\* What classifies as a tightening widens nobody's access: the comparator
\* (policy_diff.py) against the evaluator that reads obey (permissions.py).
\* A change of role is left out, since a role is compared by rank alone, and a
\* grant may name the lower role.
TighteningsDoNotWiden ==
    \A change \in {c \in workload.asked : c.kind # "user_role"} :
        Applied(policy, change) # policy /\ ~IsLoosening(policy, change) =>
            \A u \in Candidates(policy) : ~Exceeds(Applied(policy, change), policy, u)

\* The record is honest: a proposal that says approved has been applied, even
\* when requests race, raise or die between the write and the decision.
ApprovedWasApplied ==
    \A id \in DOMAIN proposals : proposals[id].state = "approved" => id \in applied

\* A decision is made once, however many admins decide at the same time.
DecisionsAreFinal ==
    [][\A id \in DOMAIN proposals :
         proposals[id].state # "pending" => proposals'[id] = proposals[id]]_approvalVars
=============================================================================
