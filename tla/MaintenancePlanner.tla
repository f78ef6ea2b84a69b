------------------------- MODULE MaintenancePlanner -------------------------
(***************************************************************************)
(* plan_maintenance_prs: how the opportunities of one session become plans.*)
(* The loop visits them in the order of their rank, puts each into a group *)
(* of its own or into the first group it is compatible with, and blocks    *)
(* the ones that share a path with a group that is already there.  One     *)
(* transaction then writes a plan for every group.  A session that is run  *)
(* again plans what it has no plan for yet.                                *)
(*                                                                         *)
(* A rank depends on categories, confidences and the learned profile, so   *)
(* any candidate may be the next one.  Category and risk tier together are *)
(* a concern; "refused" is what evaluate_policy says, "held" are the       *)
(* concerns _automation_decision blocks in the autonomy mode of the        *)
(* repository.  A branch name is a slug and a counter.                     *)
(***************************************************************************)
EXTENDS Naturals, FiniteSets, Sequences

CONSTANTS
    Candidates,      \* maintenance_opportunity_id of the opportunities
    Concerns,        \* category and risk tier
    Paths,
    Slugs,           \* what _base_branch_name makes of a title
    GroupSizeLimit,  \* GROUP_SIZE_LIMIT
    MaxAttempts      \* bound on how often the session is run

ASSUME PlannerAssumption ==
    /\ IsFiniteSet(Candidates)
    /\ GroupSizeLimit \in Nat \ {0}
    /\ MaxAttempts \in Nat

VARIABLES
    concern, touches, slug,  \* of each candidate; they never change
    refused,                 \* candidates evaluate_policy blocks
    held,                    \* concerns the autonomy mode blocks
    stage,                   \* where plan_maintenance_prs is
    offered,                 \* the opportunities it was called with
    waiting,                 \* those the loop has not visited
    groups,                  \* in the order they were made
    forced,                  \* forced_block_reasons
    drafts,                  \* rows written by the open transaction
    plans,                   \* rows of the session
    attempt                  \* how often the session was run

inputs == <<concern, touches, slug, refused, held>>
plannerVars == <<inputs, stage, offered, waiting, groups, forced, drafts, plans, attempt>>

-----------------------------------------------------------------------------
Group == [first : Candidates, members : SUBSET Candidates]

BranchName == [slug : Slugs, counter : Nat \ {0}]

PlanRow == [members : SUBSET Candidates, forced : BOOLEAN, blocked : BOOLEAN,
            branch : BranchName, attempt : Nat]

PlannerTypeOK ==
    /\ concern \in [Candidates -> Concerns]
    /\ touches \in [Candidates -> SUBSET Paths]
    /\ slug \in [Candidates -> Slugs]
    /\ refused \in SUBSET Candidates
    /\ held \in SUBSET Concerns
    /\ stage \in {"idle", "grouping", "saving"}
    /\ offered \in SUBSET Candidates
    /\ waiting \in SUBSET Candidates
    /\ groups \in Seq(Group)
    /\ forced \in SUBSET Candidates
    /\ drafts \in Seq(PlanRow)
    /\ plans \in SUBSET PlanRow
    /\ attempt \in 0 .. MaxAttempts

PlannerInit ==
    /\ concern \in [Candidates -> Concerns]
    /\ touches \in [Candidates -> SUBSET Paths]
    /\ slug \in [Candidates -> Slugs]
    /\ refused \in SUBSET Candidates
    /\ held \in SUBSET Concerns
    /\ stage = "idle"
    /\ offered = {}
    /\ waiting = {}
    /\ groups = <<>>
    /\ forced = {}
    /\ drafts = <<>>
    /\ plans = {}
    /\ attempt = 0

-----------------------------------------------------------------------------
(* Grouping. *)

HasPlan(c) == \E p \in plans : c \in p.members

Fresh(new) == {c \in new : ~ HasPlan(c)}

StartPlanning ==
    /\ stage = "idle"
    /\ attempt < MaxAttempts
    /\ attempt' = attempt + 1
    /\ stage' = "grouping"
    /\ \E new \in SUBSET Candidates :
          /\ offered' = new
          /\ waiting' = Fresh(new)
    /\ groups' = <<>>
    /\ forced' = {}
    /\ drafts' = <<>>
    /\ UNCHANGED <<inputs, plans>>

PathsOf(members) == UNION {touches[c] : c \in members}

(* Mutated form: forced blocks are not seen. *)
GroupIsBlocked_PolicyOnly(g) == g.members \cap refused # {}

(* _group_is_blocked *)
GroupIsBlocked(g) == g.first \in forced \/ g.members \cap refused # {}

(* Mutated form: the last group alone is looked at. *)
Conflicts_LastGroup(c) ==
    /\ groups # <<>>
    /\ ~ GroupIsBlocked(groups[Len(groups)])
    /\ PathsOf(groups[Len(groups)].members) \cap touches[c] # {}

(* _conflicts_with_unblocked_groups *)
Conflicts(c) ==
    \E i \in DOMAIN groups :
        /\ ~ GroupIsBlocked(groups[i])
        /\ PathsOf(groups[i].members) \cap touches[c] # {}

(* Mutated form: a full group takes one more. *)
Compatible_Limit(g, c) ==
    /\ Cardinality(g.members) <= GroupSizeLimit
    /\ concern[g.first] = concern[c]
    /\ PathsOf(g.members) \cap touches[c] = {}

(* _compatible *)
Compatible(g, c) ==
    /\ Cardinality(g.members) < GroupSizeLimit
    /\ concern[g.first] = concern[c]
    /\ PathsOf(g.members) \cap touches[c] = {}

Fits(c) ==
    {i \in DOMAIN groups : ~ GroupIsBlocked(groups[i]) /\ Compatible(groups[i], c)}

Visit(c) ==
    /\ stage = "grouping"
    /\ c \in waiting
    /\ waiting' = waiting \ {c}
    /\ UNCHANGED <<inputs, stage, offered, drafts, plans, attempt>>

OwnGroup(c) == groups' = Append(groups, [first |-> c, members |-> {c}])

VisitRefused(c) ==
    /\ Visit(c)
    /\ c \in refused
    /\ OwnGroup(c)
    /\ UNCHANGED forced

VisitConflicting(c) ==
    /\ Visit(c)
    /\ c \notin refused
    /\ Conflicts(c)
    /\ forced' = forced \cup {c}
    /\ OwnGroup(c)

(* Mutated form: what fits no group is forgotten. *)
VisitNew_Dropped(c) ==
    /\ Visit(c)
    /\ c \notin refused
    /\ ~ Conflicts(c)
    /\ Fits(c) = {}
    /\ UNCHANGED <<groups, forced>>

VisitNew(c) ==
    /\ Visit(c)
    /\ c \notin refused
    /\ ~ Conflicts(c)
    /\ Fits(c) = {}
    /\ OwnGroup(c)
    /\ UNCHANGED forced

(* The first group that fits takes it. *)
VisitFitting(c) ==
    /\ Visit(c)
    /\ c \notin refused
    /\ ~ Conflicts(c)
    /\ \E i \in Fits(c) :
          /\ \A j \in Fits(c) : i <= j
          /\ groups' = [groups EXCEPT ![i] =
                           [first |-> groups[i].first, members |-> groups[i].members \cup {c}]]
    /\ UNCHANGED forced

-----------------------------------------------------------------------------
(* Saving. *)

StartSaving ==
    /\ stage = "grouping"
    /\ waiting = {}
    /\ stage' = "saving"
    /\ UNCHANGED <<inputs, offered, waiting, groups, forced, drafts, plans, attempt>>

Drafts == {drafts[i] : i \in DOMAIN drafts}

(* Mutated form: only the names of saved plans count as used. *)
UsedNames_Saved == {p.branch : p \in plans}

UsedNames == {p.branch : p \in plans \cup Drafts}

(* _unique_branch_name: the slug, or with the smallest free counter. *)
UniqueName(name) ==
    /\ name \notin UsedNames
    /\ \A n \in 1 .. name.counter - 1 : [slug |-> name.slug, counter |-> n] \in UsedNames

(* Mutated form: the suffix is counted from zero. *)
Counters_FromZero == 0 .. Cardinality(plans) + Len(drafts) + 1

(* The used names leave one of these free. *)
Counters == 1 .. Cardinality(plans) + Len(drafts) + 1

SavePlan ==
    LET g == groups[Len(drafts) + 1] IN
    /\ stage = "saving"
    /\ Len(drafts) < Len(groups)
    /\ \E n \in Counters :
          LET name == [slug |-> slug[g.first], counter |-> n] IN
          /\ UniqueName(name)
          /\ drafts' = Append(drafts,
                [members |-> g.members,
                 forced  |-> g.first \in forced,
                 blocked |-> GroupIsBlocked(g) \/ concern[g.first] \in held,
                 branch  |-> name,
                 attempt |-> attempt])
    /\ UNCHANGED <<inputs, stage, offered, waiting, groups, forced, plans, attempt>>

CommitPlans ==
    /\ stage = "saving"
    /\ Len(drafts) = Len(groups)
    /\ plans' = plans \cup Drafts
    /\ stage' = "idle"
    /\ UNCHANGED <<inputs, offered, waiting, groups, forced, drafts, attempt>>

(* The worker dies or something raises: the transaction is rolled back. *)
Interrupt ==
    /\ stage # "idle"
    /\ stage' = "idle"
    /\ UNCHANGED <<inputs, offered, waiting, groups, forced, drafts, plans, attempt>>

VisitAny(c) ==
    VisitRefused(c) \/ VisitConflicting(c) \/ VisitNew(c) \/ VisitFitting(c)

PlannerNext ==
    \/ StartPlanning
    \/ \E c \in Candidates : VisitAny(c)
    \/ StartSaving
    \/ SavePlan
    \/ CommitPlans
    \/ Interrupt

PlannerSpec == PlannerInit /\ [][PlannerNext]_plannerVars

-----------------------------------------------------------------------------
(* Properties. *)

(* Neither unique constraint of the tables is ever hit: no opportunity has *)
(* two plans in a session and no two plans have one branch name, however   *)
(* often the session is run.                                               *)
PlannedOnce ==
    \A p, q \in plans : p # q => p.members \cap q.members = {} /\ p.branch # q.branch

Selected(p) == ~ p.forced /\ p.members \cap refused = {}

(* The opportunities of the plans a run made, and of those it selected. *)
PlannedIn(n) == UNION {p.members : p \in {q \in plans : q.attempt = n}}
SelectedIn(n) == UNION {p.members : p \in {q \in plans : q.attempt = n /\ Selected(q)}}

(* Selected plans of one run do not interfere (docs/09:97): no path is in  *)
(* two of them.                                                            *)
NoInterference ==
    \A p, q \in plans :
        p # q /\ p.attempt = q.attempt /\ Selected(p) /\ Selected(q) =>
           PathsOf(p.members) \cap PathsOf(q.members) = {}

(* A pull request is about one concern and small: the opportunities of a   *)
(* plan have one category and risk tier, at most three of them, none of    *)
(* them refused unless it is alone.                                        *)
OneConcern ==
    \A p \in plans :
        /\ Cardinality(p.members) \in 1 .. GroupSizeLimit
        /\ \A c, d \in p.members : concern[c] = concern[d]
        /\ p.forced \/ p.members \cap refused # {} => Cardinality(p.members) = 1

(* What a conflict defers, it defers for a plan the policy lets through:   *)
(* never for one that is itself deferred or refused.                       *)
DeferredForSelected ==
    \A p \in plans : p.forced =>
        \E q \in plans :
            /\ q.attempt = p.attempt
            /\ Selected(q)
            /\ PathsOf(q.members) \cap PathsOf(p.members) # {}

(* What plan selection promises the rest of the session, opportunity by     *)
(* opportunity and whatever was grouped with what: of those the policy lets *)
(* through, a run of the planner selects exactly the ones that share no     *)
(* path with another one it selected.  SessionPipeline plans that way       *)
(* (Selections), and knows nothing of groups.                               *)
SelectionKept ==
    \A n \in 1 .. attempt :
        \A c \in PlannedIn(n) \ refused :
            c \in SelectedIn(n) <=>
               \A d \in SelectedIn(n) \ {c} : touches[c] \cap touches[d] = {}

(* Once the transaction is committed, every opportunity the planner was    *)
(* called with has a plan.                                                 *)
NothingDropped ==
    [][plans' # plans => \A c \in offered : HasPlan(c)']_plannerVars

=============================================================================
