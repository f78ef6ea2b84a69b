---------------------- MODULE MaintenancePlannerProofs ----------------------
(***************************************************************************)
(* What holds of MaintenancePlanner for every set of opportunities, every  *)
(* group size and every order the loop may visit them in.                  *)
(***************************************************************************)
EXTENDS MaintenancePlanner, FiniteSetTheorems, WellFoundedInduction, TLAPS

-----------------------------------------------------------------------------
(* Types. *)

LEMMA PlannerTypeInit == PlannerInit => PlannerTypeOK
<1> SUFFICES ASSUME PlannerInit PROVE PlannerTypeOK
  OBVIOUS
<1>1. groups \in Seq(Group) /\ drafts \in Seq(PlanRow) /\ attempt \in 0 .. MaxAttempts
  BY PlannerAssumption DEF PlannerInit
<1>2. QED
  BY <1>1 DEF PlannerInit, PlannerTypeOK

LEMMA OwnGroupType ==
    ASSUME PlannerTypeOK, NEW c \in Candidates, OwnGroup(c)
    PROVE  groups' \in Seq(Group)
<1>1. [first |-> c, members |-> {c}] \in Group
  BY DEF Group
<1>2. QED
  BY <1>1 DEF OwnGroup, PlannerTypeOK

LEMMA SavePlanType ==
    ASSUME PlannerTypeOK, SavePlan
    PROVE  drafts' \in Seq(PlanRow)
<1> DEFINE g == groups[Len(drafts) + 1]
           row(n) == [members |-> g.members,
                      forced  |-> g.first \in forced,
                      blocked |-> GroupIsBlocked(g) \/ concern[g.first] \in held,
                      branch  |-> [slug |-> slug[g.first], counter |-> n],
                      attempt |-> attempt]
<1>1. PICK n \in Counters : drafts' = Append(drafts, row(n))
  BY DEF SavePlan
<1>2. g \in Group
  <2>1. Len(drafts) + 1 \in 1 .. Len(groups)
    BY DEF SavePlan, PlannerTypeOK
  <2>2. QED
    BY <2>1 DEF PlannerTypeOK
<1>3. n \in Nat \ {0}
  BY <1>1 DEF Counters
<1>4. [slug |-> slug[g.first], counter |-> n] \in BranchName
  BY <1>2, <1>3 DEF PlannerTypeOK, Group, BranchName
<1>5. (g.first \in forced) \in BOOLEAN
      /\ (GroupIsBlocked(g) \/ concern[g.first] \in held) \in BOOLEAN
  OBVIOUS
<1>6. row(n) \in PlanRow
  BY <1>2, <1>4, <1>5 DEF PlannerTypeOK, Group, PlanRow
<1>7. QED
  BY <1>1, <1>6 DEF PlannerTypeOK

LEMMA PlannerTypeStep ==
    ASSUME PlannerTypeOK, [PlannerNext]_plannerVars
    PROVE  PlannerTypeOK'
<1> USE PlannerAssumption DEF inputs
<1>1. CASE StartPlanning
  <2>1. /\ offered' \in SUBSET Candidates /\ waiting' \in SUBSET Candidates
        /\ groups' \in Seq(Group) /\ drafts' \in Seq(PlanRow)
    BY <1>1 DEF StartPlanning, Fresh
  <2>2. attempt' \in 0 .. MaxAttempts
    BY <1>1 DEF StartPlanning, PlannerTypeOK
  <2>3. QED
    BY <1>1, <2>1, <2>2 DEF StartPlanning, PlannerTypeOK
<1>2. ASSUME NEW c \in Candidates, VisitRefused(c) \/ VisitConflicting(c) \/ VisitNew(c)
      PROVE  PlannerTypeOK'
  <2>1. groups' \in Seq(Group)
    BY <1>2, OwnGroupType DEF VisitRefused, VisitConflicting, VisitNew
  <2>2. QED
    BY <1>2, <2>1 DEF VisitRefused, VisitConflicting, VisitNew, Visit, PlannerTypeOK
<1>3. ASSUME NEW c \in Candidates, VisitFitting(c) PROVE PlannerTypeOK'
  <2>1. PICK i \in Fits(c) :
          groups' = [groups EXCEPT ![i] =
                        [first |-> groups[i].first, members |-> groups[i].members \cup {c}]]
    BY <1>3 DEF VisitFitting
  <2>2. i \in DOMAIN groups /\ groups[i] \in Group
    BY <2>1 DEF Fits, PlannerTypeOK
  <2>3. [first |-> groups[i].first, members |-> groups[i].members \cup {c}] \in Group
    BY <2>2 DEF Group
  <2>4. groups' \in Seq(Group)
    BY <2>1, <2>2, <2>3 DEF PlannerTypeOK
  <2>5. QED
    BY <1>3, <2>4 DEF VisitFitting, Visit, PlannerTypeOK
<1>4. CASE StartSaving
  BY <1>4 DEF StartSaving, PlannerTypeOK
<1>5. CASE SavePlan
  BY <1>5, SavePlanType DEF SavePlan, PlannerTypeOK
<1>6. CASE CommitPlans
  <2>1. plans' \in SUBSET PlanRow
    BY <1>6 DEF CommitPlans, Drafts, PlannerTypeOK
  <2>2. QED
    BY <1>6, <2>1 DEF CommitPlans, PlannerTypeOK
<1>7. CASE Interrupt
  BY <1>7 DEF Interrupt, PlannerTypeOK
<1>8. CASE UNCHANGED plannerVars
  BY <1>8 DEF plannerVars, PlannerTypeOK
<1>9. QED
  BY <1>1, <1>2, <1>3, <1>4, <1>5, <1>6, <1>7, <1>8 DEF PlannerNext, VisitAny

(* Every variable keeps its type. *)
THEOREM PlannerTypeCorrect == PlannerSpec => []PlannerTypeOK
BY PlannerTypeInit, PlannerTypeStep, PTL DEF PlannerSpec

-----------------------------------------------------------------------------
(* The groups the loop makes. *)

(* No path is in two of these opportunities. *)
Spread(members) ==
    \A c, d \in members : c # d => touches[c] \cap touches[d] = {}

(* One group: its first member names its concern, no two members share a   *)
(* path, and one that is blocked is alone in it.                           *)
GroupInv(i) ==
    /\ groups[i].first \in groups[i].members
    /\ groups[i].members \subseteq offered \ waiting
    /\ IsFiniteSet(groups[i].members)
    /\ Spread(groups[i].members)
    /\ Cardinality(groups[i].members) \in 1 .. GroupSizeLimit
    /\ \A c \in groups[i].members :
         /\ ~ HasPlan(c)
         /\ concern[c] = concern[groups[i].first]
         /\ c \in forced \cup refused => groups[i].members = {c}

(* Two groups: no opportunity is in both, and no path if neither is        *)
(* blocked.                                                                *)
ApartInv(i, j) ==
    /\ groups[i].members \cap groups[j].members = {}
    /\ ~ GroupIsBlocked(groups[i]) /\ ~ GroupIsBlocked(groups[j]) =>
          PathsOf(groups[i].members) \cap PathsOf(groups[j].members) = {}

(* Why a group was forced. *)
ForcedInv(i) ==
    groups[i].first \in forced =>
       \E j \in DOMAIN groups :
          /\ ~ GroupIsBlocked(groups[j])
          /\ PathsOf(groups[j].members) \cap PathsOf(groups[i].members) # {}

(* The loop: what it was given waits, has a plan, or is in a group.        *)
LoopInv ==
    /\ waiting \subseteq offered
    /\ forced \subseteq offered \ waiting
    /\ forced \cap refused = {}
    /\ \A c \in waiting : ~ HasPlan(c)
    /\ \A c \in offered : \/ c \in waiting
                           \/ HasPlan(c)
                           \/ \E i \in DOMAIN groups : c \in groups[i].members

GroupingInv ==
    stage # "idle" =>
       /\ LoopInv
       /\ \A i \in DOMAIN groups : GroupInv(i) /\ ForcedInv(i)
       /\ \A i, j \in DOMAIN groups : i # j => ApartInv(i, j)

(* A candidate is visited into a group of its own: the other groups are    *)
(* what they were and blocked or not as before.                            *)
LEMMA OwnShape ==
    ASSUME PlannerTypeOK, GroupingInv, NEW c \in Candidates, Visit(c), OwnGroup(c),
           forced' = forced \/ forced' = forced \cup {c}
    PROVE  /\ Len(groups) \in Nat
           /\ DOMAIN groups = 1 .. Len(groups)
           /\ DOMAIN groups' = 1 .. Len(groups) + 1
           /\ groups'[Len(groups) + 1] = [first |-> c, members |-> {c}]
           /\ \A i \in DOMAIN groups :
                /\ groups'[i] = groups[i]
                /\ c \notin groups[i].members
                /\ GroupIsBlocked(groups[i])' <=> GroupIsBlocked(groups[i])
<1>1. /\ Len(groups) \in Nat
      /\ DOMAIN groups = 1 .. Len(groups)
      /\ DOMAIN groups' = 1 .. Len(groups) + 1
      /\ groups'[Len(groups) + 1] = [first |-> c, members |-> {c}]
      /\ \A i \in DOMAIN groups : groups'[i] = groups[i]
  BY DEF PlannerTypeOK, OwnGroup
<1>2. \A i \in DOMAIN groups : c \notin groups[i].members /\ groups[i].first # c
  BY DEF Visit, GroupingInv, GroupInv
<1>3. refused' = refused
  BY DEF Visit, inputs
<1>4. QED
  BY <1>1, <1>2, <1>3 DEF GroupIsBlocked

(* A candidate joins a group. *)
LEMMA FitShape ==
    ASSUME PlannerTypeOK, GroupingInv, NEW c \in Candidates, VisitFitting(c)
    PROVE  \E k \in DOMAIN groups :
             /\ k \in Fits(c)
             /\ DOMAIN groups' = DOMAIN groups
             /\ groups'[k].first = groups[k].first
             /\ groups'[k].members = groups[k].members \cup {c}
             /\ \A i \in DOMAIN groups : i # k => groups'[i] = groups[i]
             /\ \A i \in DOMAIN groups :
                  /\ c \notin groups[i].members
                  /\ GroupIsBlocked(groups[i])' <=> GroupIsBlocked(groups[i])
<1>1. PICK k \in Fits(c) :
        groups' = [groups EXCEPT ![k] =
                      [first |-> groups[k].first, members |-> groups[k].members \cup {c}]]
  BY DEF VisitFitting
<1>2. k \in DOMAIN groups
  BY DEF Fits
<1>3. /\ DOMAIN groups' = DOMAIN groups
      /\ groups'[k] = [first |-> groups[k].first, members |-> groups[k].members \cup {c}]
      /\ \A i \in DOMAIN groups : i # k => groups'[i] = groups[i]
  BY <1>1, <1>2 DEF PlannerTypeOK
<1>4. \A i \in DOMAIN groups : c \notin groups[i].members
  BY DEF VisitFitting, Visit, GroupingInv, GroupInv
<1>5. refused' = refused /\ forced' = forced /\ c \notin refused
  BY DEF VisitFitting, Visit, inputs
<1>6. \A i \in DOMAIN groups : GroupIsBlocked(groups[i])' <=> GroupIsBlocked(groups[i])
  <2>1. ASSUME NEW i \in DOMAIN groups, i # k
        PROVE  GroupIsBlocked(groups[i])' <=> GroupIsBlocked(groups[i])
    BY <1>3, <1>5, <2>1 DEF GroupIsBlocked
  <2>2. GroupIsBlocked(groups[k])' <=> GroupIsBlocked(groups[k])
    BY <1>3, <1>5 DEF GroupIsBlocked
  <2>3. QED
    BY <2>1, <2>2
<1>7. QED
  BY <1>1, <1>2, <1>3, <1>4, <1>6

(* What every visit does to the loop, whichever group it ends in. *)
LEMMA LoopVisit ==
    ASSUME PlannerTypeOK, GroupingInv, NEW c \in Candidates, Visit(c),
           forced' = forced \/ (forced' = forced \cup {c} /\ c \notin refused),
           \A i \in DOMAIN groups :
              i \in DOMAIN groups' /\ groups[i].members \subseteq groups'[i].members,
           \E i \in DOMAIN groups' : c \in groups'[i].members
    PROVE  LoopInv'
<1>1. LoopInv /\ c \in waiting /\ waiting' = waiting \ {c} /\ offered' = offered
      /\ UNCHANGED <<refused, plans>>
  BY DEF Visit, GroupingInv, inputs
<1>2. \A d \in Candidates : HasPlan(d)' <=> HasPlan(d)
  BY <1>1 DEF HasPlan
<1>3. /\ waiting' \subseteq offered'
      /\ forced' \subseteq offered' \ waiting'
      /\ forced' \cap refused' = {}
  BY <1>1 DEF LoopInv
<1>4. \A d \in waiting' : ~ HasPlan(d)'
  BY <1>1, <1>2 DEF LoopInv, PlannerTypeOK
<1>5. ASSUME NEW d \in offered'
      PROVE  d \in waiting' \/ HasPlan(d)' \/ \E i \in DOMAIN groups' : d \in groups'[i].members
  <2>1. d \in Candidates
    BY <1>1, <1>5 DEF PlannerTypeOK
  <2>2. CASE d = c
    BY <2>2
  <2>3. CASE d # c /\ d \in waiting
    BY <1>1, <2>3
  <2>4. CASE HasPlan(d)
    BY <1>2, <2>1, <2>4
  <2>5. CASE \E i \in DOMAIN groups : d \in groups[i].members
    BY <2>5
  <2>6. QED
    BY <1>1, <1>5, <2>2, <2>3, <2>4, <2>5 DEF LoopInv
<1>6. QED
  BY <1>3, <1>4, <1>5 DEF LoopInv

LEMMA SingleGroup ==
    ASSUME NEW c PROVE IsFiniteSet({c}) /\ Cardinality({c}) = 1
BY FS_Singleton

LEMMA PathsGrow ==
    ASSUME NEW S, NEW T, S \subseteq T
    PROVE  PathsOf(S) \subseteq PathsOf(T)
BY DEF PathsOf

(* A visit that makes a group. *)
LEMMA GroupingOwn ==
    ASSUME PlannerTypeOK, GroupingInv, NEW c \in Candidates, Visit(c), OwnGroup(c),
           \/ c \in refused /\ forced' = forced
           \/ c \notin refused /\ Conflicts(c) /\ forced' = forced \cup {c}
           \/ c \notin refused /\ ~ Conflicts(c) /\ forced' = forced
    PROVE  GroupingInv'
<1>a. PICK N : N = Len(groups) + 1
  OBVIOUS
<1>0. /\ LoopInv /\ c \in waiting /\ c \in offered /\ c \notin forced
      /\ waiting' = waiting \ {c} /\ offered' = offered
      /\ UNCHANGED <<concern, touches, refused, plans>>
      /\ \A i \in DOMAIN groups : GroupInv(i) /\ ForcedInv(i)
      /\ \A i, j \in DOMAIN groups : i # j => ApartInv(i, j)
  BY DEF Visit, GroupingInv, LoopInv, inputs
<1>1. /\ Len(groups) \in Nat
      /\ DOMAIN groups = 1 .. Len(groups)
      /\ DOMAIN groups' = 1 .. N
      /\ groups'[N] = [first |-> c, members |-> {c}]
      /\ \A i \in DOMAIN groups :
           /\ groups'[i] = groups[i]
           /\ c \notin groups[i].members
           /\ GroupIsBlocked(groups[i])' <=> GroupIsBlocked(groups[i])
  BY <1>a, OwnShape
<1>2. DOMAIN groups' = DOMAIN groups \cup {N} /\ N \notin DOMAIN groups
  BY <1>a, <1>1
<1>3. \A S : PathsOf(S)' = PathsOf(S)
  BY <1>0 DEF PathsOf
<1>4. PathsOf({c}) = touches[c]
  BY DEF PathsOf
<1>5. \A d \in Candidates : HasPlan(d)' <=> HasPlan(d)
  BY <1>0 DEF HasPlan
<1>6. LoopInv'
  <2>1. \A i \in DOMAIN groups :
           i \in DOMAIN groups' /\ groups[i].members \subseteq groups'[i].members
    BY <1>1, <1>2
  <2>2. c \in groups'[N].members /\ N \in DOMAIN groups'
    BY <1>a, <1>1, <1>2
  <2>3. QED
    BY <2>1, <2>2, LoopVisit
<1>7. ASSUME NEW i \in DOMAIN groups PROVE GroupInv(i)' /\ ForcedInv(i)'
  <2>1. groups'[i] = groups[i] /\ c \notin groups[i].members
    BY <1>1
  <2>2. GroupInv(i)'
    <3>1. groups[i].members \subseteq Candidates
      BY <1>0 DEF GroupInv, PlannerTypeOK
    <3>2. GroupInv(i)
      BY <1>0
    <3>3. forced' \subseteq forced \cup {c}
      OBVIOUS
    <3>4. Spread(groups[i].members)'
      BY <1>0, <2>1, <3>2 DEF GroupInv, Spread
    <3>5. QED
      BY <1>0, <1>5, <2>1, <3>1, <3>2, <3>3, <3>4 DEF GroupInv
  <2>3. ForcedInv(i)'
    <3>1. ASSUME groups[i].first \in forced'
          PROVE  \E j \in DOMAIN groups :
                    /\ ~ GroupIsBlocked(groups[j])
                    /\ PathsOf(groups[j].members) \cap PathsOf(groups[i].members) # {}
      BY <1>0, <1>1, <3>1 DEF GroupInv, ForcedInv
    <3>2. QED
      BY <1>1, <1>2, <1>3, <2>1, <3>1 DEF ForcedInv
  <2>4. QED
    BY <2>2, <2>3
<1>8. GroupInv(N)'
  <2>1. 1 \in 1 .. GroupSizeLimit
    BY PlannerAssumption
  <2>2. ~ HasPlan(c)'
    BY <1>0, <1>5 DEF LoopInv
  <2>3. IsFiniteSet({c}) /\ Cardinality({c}) = 1
    BY SingleGroup
  <2>4. Spread(groups[N].members)'
    BY <1>1 DEF Spread
  <2>5. QED
    BY <1>0, <1>1, <2>1, <2>2, <2>3, <2>4 DEF GroupInv
<1>9. ForcedInv(N)'
  <2>1. ASSUME c \in forced' PROVE Conflicts(c)
    BY <1>0, <2>1
  <2>2. Conflicts(c) =>
          \E j \in DOMAIN groups :
             /\ ~ GroupIsBlocked(groups[j])
             /\ PathsOf(groups[j].members) \cap PathsOf({c}) # {}
    BY <1>4 DEF Conflicts
  <2>3. groups'[N].first = c /\ groups'[N].members = {c}
    BY <1>a, <1>1
  <2>4. QED
    BY <1>1, <1>2, <1>3, <2>1, <2>2, <2>3 DEF ForcedInv
<1>10. ASSUME NEW i \in DOMAIN groups PROVE ApartInv(i, N)' /\ ApartInv(N, i)'
  <2>1. groups[i].members \cap {c} = {}
    BY <1>1
  <2>2. ASSUME ~ GroupIsBlocked(groups[i]), ~ GroupIsBlocked(groups[N])'
        PROVE  PathsOf(groups[i].members) \cap PathsOf({c}) = {}
    <3>1. c \notin forced' /\ c \notin refused
      BY <1>0, <1>1, <2>2 DEF GroupIsBlocked
    <3>2. ~ Conflicts(c)
      BY <3>1
    <3>3. QED
      BY <1>4, <2>2, <3>2 DEF Conflicts
  <2>3. groups'[N].members = {c} /\ groups'[i] = groups[i]
    BY <1>a, <1>1
  <2>4. GroupIsBlocked(groups[i])' <=> GroupIsBlocked(groups[i])
    BY <1>1
  <2>5. ~ GroupIsBlocked(groups[i])' /\ ~ GroupIsBlocked(groups[N])' =>
           (PathsOf(groups[i].members) \cap PathsOf(groups[N].members))' = {}
    <3>1. /\ PathsOf(groups[i].members)' = PathsOf(groups[i].members)
          /\ PathsOf(groups[N].members)' = PathsOf({c})
      BY <1>3, <2>3
    <3>2. QED
      BY <2>2, <2>4, <3>1
  <2>6. QED
    BY <2>1, <2>3, <2>5 DEF ApartInv
<1>11. ASSUME NEW i \in DOMAIN groups, NEW j \in DOMAIN groups, i # j
       PROVE  ApartInv(i, j)'
  <2>1. ApartInv(i, j)
    BY <1>0, <1>11
  <2>2. QED
    BY <1>1, <1>3, <2>1 DEF ApartInv
<1>12. QED
  BY <1>2, <1>6, <1>7, <1>8, <1>9, <1>10, <1>11 DEF GroupingInv

(* A visit that joins a group. *)
LEMMA GroupingFit ==
    ASSUME PlannerTypeOK, GroupingInv, NEW c \in Candidates, VisitFitting(c)
    PROVE  GroupingInv'
<1>0. /\ LoopInv /\ c \in waiting /\ c \in offered /\ c \notin forced /\ c \notin refused
      /\ waiting' = waiting \ {c} /\ offered' = offered
      /\ UNCHANGED <<concern, touches, refused, plans, forced>>
      /\ ~ Conflicts(c)
      /\ \A i \in DOMAIN groups : GroupInv(i) /\ ForcedInv(i)
      /\ \A i, j \in DOMAIN groups : i # j => ApartInv(i, j)
  BY DEF VisitFitting, Visit, GroupingInv, LoopInv, inputs
<1>1. PICK k \in DOMAIN groups :
             /\ k \in Fits(c)
             /\ DOMAIN groups' = DOMAIN groups
             /\ groups'[k].first = groups[k].first
             /\ groups'[k].members = groups[k].members \cup {c}
             /\ \A i \in DOMAIN groups : i # k => groups'[i] = groups[i]
             /\ \A i \in DOMAIN groups :
                  /\ c \notin groups[i].members
                  /\ GroupIsBlocked(groups[i])' <=> GroupIsBlocked(groups[i])
  BY FitShape
<1>2. ~ GroupIsBlocked(groups[k]) /\ Compatible(groups[k], c)
  BY <1>1 DEF Fits
<1>3. \A S : PathsOf(S)' = PathsOf(S)
  BY <1>0 DEF PathsOf
<1>4. PathsOf(groups[k].members \cup {c}) = PathsOf(groups[k].members) \cup touches[c]
  BY DEF PathsOf
<1>5. \A d \in Candidates : HasPlan(d)' <=> HasPlan(d)
  BY <1>0 DEF HasPlan
<1>6. \A i \in DOMAIN groups : /\ groups'[i].first = groups[i].first
                               /\ groups[i].members \subseteq groups'[i].members
  BY <1>1
<1>7. LoopInv'
  <2>1. Visit(c) /\ c \in groups'[k].members
    BY <1>1 DEF VisitFitting
  <2>2. QED
    BY <1>0, <1>1, <1>6, <2>1, LoopVisit
<1>8. ASSUME NEW i \in DOMAIN groups, i # k PROVE GroupInv(i)'
  <2>1. groups'[i] = groups[i] /\ c \notin groups[i].members /\ GroupInv(i)
    BY <1>0, <1>1, <1>8
  <2>2. groups[i].members \subseteq Candidates
    BY <2>1 DEF GroupInv, PlannerTypeOK
  <2>3. Spread(groups[i].members)'
    BY <1>0, <2>1 DEF GroupInv, Spread
  <2>4. QED
    BY <1>0, <1>5, <2>1, <2>2, <2>3 DEF GroupInv
<1>9. GroupInv(k)'
  <2>1. GroupInv(k) /\ groups[k].members \subseteq Candidates
    BY <1>0 DEF GroupInv, PlannerTypeOK
  <2>2. /\ IsFiniteSet(groups[k].members \cup {c})
        /\ Cardinality(groups[k].members \cup {c}) = Cardinality(groups[k].members) + 1
    BY <1>1, <2>1, FS_AddElement DEF GroupInv
  <2>3. Cardinality(groups[k].members \cup {c}) \in 1 .. GroupSizeLimit
    BY <1>2, <2>1, <2>2, PlannerAssumption DEF GroupInv, Compatible
  <2>4. \A d \in groups[k].members : d \notin forced \cup refused
    BY <1>2, <2>1 DEF GroupInv, GroupIsBlocked
  <2>5. concern[c] = concern[groups[k].first]
    BY <1>2 DEF Compatible
  <2>6. ~ HasPlan(c)
    BY <1>0 DEF LoopInv
  <2>7. groups[k].members \cup {c} \subseteq offered' \ waiting'
    BY <1>0, <2>1 DEF GroupInv
  <2>8. \A d \in groups[k].members \cup {c} :
           /\ ~ HasPlan(d)'
           /\ concern'[d] = concern'[groups[k].first]
           /\ d \notin forced' \cup refused'
    BY <1>0, <1>5, <2>1, <2>4, <2>5, <2>6 DEF GroupInv
  <2>9. Spread(groups[k].members)'
    <3>1. \A d \in groups[k].members : touches[d] \cap touches[c] = {}
      BY <1>2 DEF Compatible, PathsOf
    <3>2. Spread(groups[k].members)
      BY <2>1 DEF GroupInv
    <3>3. QED
      BY <1>0, <1>1, <3>1, <3>2 DEF Spread
  <2>10. QED
    BY <1>1, <2>1, <2>2, <2>3, <2>7, <2>8, <2>9 DEF GroupInv
<1>10. ASSUME NEW i \in DOMAIN groups PROVE ForcedInv(i)'
  <2>1. ASSUME groups[i].first \in forced
        PROVE  \E j \in DOMAIN groups :
                  /\ ~ GroupIsBlocked(groups[j])'
                  /\ PathsOf(groups'[j].members) \cap PathsOf(groups'[i].members) # {}
    <3>1. PICK j \in DOMAIN groups :
                  /\ ~ GroupIsBlocked(groups[j])
                  /\ PathsOf(groups[j].members) \cap PathsOf(groups[i].members) # {}
      BY <1>0, <2>1 DEF ForcedInv
    <3>2. /\ PathsOf(groups[j].members) \subseteq PathsOf(groups'[j].members)
          /\ PathsOf(groups[i].members) \subseteq PathsOf(groups'[i].members)
      BY <1>6, PathsGrow
    <3>3. QED
      BY <1>1, <3>1, <3>2
  <2>2. QED
    BY <1>0, <1>1, <1>3, <1>6, <2>1 DEF ForcedInv
<1>11. ASSUME NEW i \in DOMAIN groups, NEW j \in DOMAIN groups, i # j, i # k, j # k
       PROVE  ApartInv(i, j)'
  <2>1. ApartInv(i, j) /\ groups'[i] = groups[i] /\ groups'[j] = groups[j]
    BY <1>0, <1>1, <1>11
  <2>2. QED
    BY <1>1, <1>3, <2>1 DEF ApartInv
<1>12. ASSUME NEW i \in DOMAIN groups, i # k PROVE ApartInv(i, k)' /\ ApartInv(k, i)'
  <2>1. ApartInv(i, k) /\ groups'[i] = groups[i] /\ c \notin groups[i].members
    BY <1>0, <1>1, <1>12
  <2>2. groups'[i].members \cap groups'[k].members = {}
    BY <1>1, <2>1 DEF ApartInv
  <2>3. ~ GroupIsBlocked(groups[i]) =>
           PathsOf(groups[i].members) \cap (PathsOf(groups[k].members) \cup touches[c]) = {}
    BY <1>0, <1>2, <2>1 DEF ApartInv, Conflicts
  <2>4. QED
    BY <1>1, <1>3, <1>4, <2>1, <2>2, <2>3 DEF ApartInv
<1>13. \A i \in DOMAIN groups' : GroupInv(i)' /\ ForcedInv(i)'
  BY <1>1, <1>8, <1>9, <1>10
<1>14. \A i, j \in DOMAIN groups' : i # j => ApartInv(i, j)'
  BY <1>1, <1>11, <1>12
<1>15. QED
  BY <1>7, <1>13, <1>14 DEF GroupingInv

LEMMA GroupingVisit ==
    ASSUME PlannerTypeOK, GroupingInv, NEW c \in Candidates, VisitAny(c)
    PROVE  GroupingInv'
<1>1. CASE VisitRefused(c)
  BY <1>1, GroupingOwn DEF VisitRefused
<1>2. CASE VisitConflicting(c)
  BY <1>2, GroupingOwn DEF VisitConflicting
<1>3. CASE VisitNew(c)
  BY <1>3, GroupingOwn DEF VisitNew
<1>4. CASE VisitFitting(c)
  BY <1>4, GroupingFit
<1>5. QED
  BY <1>1, <1>2, <1>3, <1>4 DEF VisitAny

(* What is left alone while plans are written. *)
LEMMA GroupingSame ==
    ASSUME GroupingInv, stage # "idle",
           UNCHANGED <<inputs, offered, waiting, groups, forced, plans>>
    PROVE  GroupingInv'
<1>1. UNCHANGED <<concern, touches, refused, offered, waiting, groups, forced, plans>>
  BY DEF inputs
<1>2. LoopInv'
  BY <1>1 DEF GroupingInv, LoopInv, HasPlan
<1>3. \A i \in DOMAIN groups : GroupInv(i)' /\ ForcedInv(i)'
  BY <1>1
  DEF GroupingInv, GroupInv, ForcedInv, Spread, HasPlan, GroupIsBlocked, PathsOf
<1>4. \A i, j \in DOMAIN groups : i # j => ApartInv(i, j)'
  BY <1>1 DEF GroupingInv, ApartInv, GroupIsBlocked, PathsOf
<1>5. QED
  BY <1>1, <1>2, <1>3, <1>4 DEF GroupingInv

LEMMA GroupingStart ==
    ASSUME PlannerTypeOK, StartPlanning
    PROVE  GroupingInv'
<1>1. PICK new \in SUBSET Candidates : offered' = new /\ waiting' = Fresh(new)
  BY DEF StartPlanning
<1>2. plans' = plans /\ forced' = {} /\ groups' = <<>> /\ DOMAIN groups' = {}
  BY DEF StartPlanning
<1>3. \A d : HasPlan(d)' <=> HasPlan(d)
  BY <1>2 DEF HasPlan
<1>4. LoopInv'
  BY <1>1, <1>2, <1>3 DEF LoopInv, Fresh
<1>5. QED
  BY <1>2, <1>4 DEF GroupingInv

LEMMA GroupingStep ==
    ASSUME PlannerTypeOK, GroupingInv, [PlannerNext]_plannerVars
    PROVE  GroupingInv'
<1>1. CASE StartPlanning
  BY <1>1, GroupingStart
<1>2. ASSUME NEW c \in Candidates, VisitAny(c) PROVE GroupingInv'
  BY <1>2, GroupingVisit
<1>3. CASE StartSaving
  BY <1>3, GroupingSame DEF StartSaving
<1>4. CASE SavePlan
  BY <1>4, GroupingSame DEF SavePlan
<1>5. CASE CommitPlans
  BY <1>5 DEF CommitPlans, GroupingInv
<1>6. CASE Interrupt
  BY <1>6 DEF Interrupt, GroupingInv
<1>7. CASE UNCHANGED plannerVars
  <2>1. CASE stage = "idle"
    BY <1>7, <2>1 DEF plannerVars, GroupingInv
  <2>2. CASE stage # "idle"
    BY <1>7, <2>2, GroupingSame DEF plannerVars
  <2>3. QED
    BY <2>1, <2>2
<1>8. QED
  BY <1>1, <1>2, <1>3, <1>4, <1>5, <1>6, <1>7 DEF PlannerNext

-----------------------------------------------------------------------------
(* The open transaction: row i is about group i, and its branch name is    *)
(* nobody else's.                                                          *)

RowInv(i) ==
    /\ drafts[i].members = groups[i].members
    /\ drafts[i].forced <=> groups[i].first \in forced
    /\ drafts[i].attempt = attempt
    /\ \A p \in plans : p.branch # drafts[i].branch

DraftInv ==
    /\ stage = "grouping" => drafts = <<>>
    /\ stage = "saving" =>
          /\ waiting = {}
          /\ Len(drafts) <= Len(groups)
          /\ \A i \in DOMAIN drafts : RowInv(i)
          /\ \A i, j \in DOMAIN drafts : i # j => drafts[i].branch # drafts[j].branch

LEMMA DraftSave ==
    ASSUME PlannerTypeOK, DraftInv, SavePlan
    PROVE  DraftInv'
<1> DEFINE g == groups[Len(drafts) + 1]
<1>1. PICK n \in Counters :
        /\ UniqueName([slug |-> slug[g.first], counter |-> n])
        /\ drafts' = Append(drafts,
                [members |-> g.members,
                 forced  |-> g.first \in forced,
                 blocked |-> GroupIsBlocked(g) \/ concern[g.first] \in held,
                 branch  |-> [slug |-> slug[g.first], counter |-> n],
                 attempt |-> attempt])
  BY DEF SavePlan
<1>2. PICK name : name = [slug |-> slug[g.first], counter |-> n]
  OBVIOUS
<1>3. PICK N : N = Len(drafts) + 1
  OBVIOUS
<1>4. /\ Len(drafts) \in Nat /\ Len(groups) \in Nat /\ Len(drafts) < Len(groups)
      /\ stage = "saving" /\ stage' = "saving"
      /\ UNCHANGED <<waiting, groups, forced, plans, attempt>>
  BY DEF SavePlan, PlannerTypeOK
<1>5. /\ Len(drafts') = N
      /\ DOMAIN drafts = 1 .. Len(drafts)
      /\ DOMAIN drafts' = 1 .. N
      /\ \A i \in DOMAIN drafts : drafts'[i] = drafts[i]
      /\ drafts'[N].members = groups[N].members
      /\ drafts'[N].forced = (groups[N].first \in forced)
      /\ drafts'[N].branch = name
      /\ drafts'[N].attempt = attempt
  BY <1>1, <1>2, <1>3 DEF PlannerTypeOK
<1>6. DOMAIN drafts' = DOMAIN drafts \cup {N} /\ N \notin DOMAIN drafts
  BY <1>3, <1>4, <1>5
<1>7. /\ \A p \in plans : p.branch # name
      /\ \A i \in DOMAIN drafts : drafts[i].branch # name
  BY <1>1, <1>2 DEF UniqueName, UsedNames, Drafts
<1>8. ASSUME NEW i \in DOMAIN drafts PROVE RowInv(i)'
  BY <1>4, <1>5 DEF DraftInv, RowInv
<1>9. RowInv(N)'
  BY <1>4, <1>5, <1>7 DEF RowInv
<1>10. \A i, j \in DOMAIN drafts' : i # j => drafts'[i].branch # drafts'[j].branch
  BY <1>4, <1>5, <1>6, <1>7 DEF DraftInv
<1>11. waiting' = {} /\ Len(drafts') <= Len(groups')
  BY <1>3, <1>4, <1>5 DEF DraftInv
<1>12. QED
  BY <1>4, <1>6, <1>8, <1>9, <1>10, <1>11 DEF DraftInv

LEMMA DraftStep ==
    ASSUME PlannerTypeOK, DraftInv, [PlannerNext]_plannerVars
    PROVE  DraftInv'
<1>1. CASE StartPlanning
  BY <1>1 DEF StartPlanning, DraftInv
<1>2. ASSUME NEW c \in Candidates, VisitAny(c) PROVE DraftInv'
  BY <1>2 DEF VisitAny, VisitRefused, VisitConflicting, VisitNew, VisitFitting, Visit, DraftInv
<1>3. CASE StartSaving
  <2>1. drafts' = <<>> /\ waiting' = {} /\ stage' = "saving" /\ Len(groups') \in Nat
    BY <1>3 DEF StartSaving, DraftInv, PlannerTypeOK
  <2>2. Len(drafts') = 0 /\ DOMAIN drafts' = {}
    BY <2>1
  <2>3. QED
    BY <2>1, <2>2 DEF DraftInv
<1>4. CASE SavePlan
  BY <1>4, DraftSave
<1>5. CASE CommitPlans
  BY <1>5 DEF CommitPlans, DraftInv
<1>6. CASE Interrupt
  BY <1>6 DEF Interrupt, DraftInv
<1>7. CASE UNCHANGED plannerVars
  BY <1>7 DEF plannerVars, DraftInv, RowInv
<1>8. QED
  BY <1>1, <1>2, <1>3, <1>4, <1>5, <1>6, <1>7 DEF PlannerNext

-----------------------------------------------------------------------------
(* The committed plans. *)

AttemptInv ==
    \A p \in plans : p.attempt <= attempt /\ (stage # "idle" => p.attempt < attempt)

PlansSpread == \A p \in plans : Spread(p.members)

PlannerInv ==
    /\ PlannerTypeOK
    /\ GroupingInv
    /\ DraftInv
    /\ AttemptInv
    /\ PlansSpread
    /\ PlannedOnce
    /\ NoInterference
    /\ OneConcern
    /\ DeferredForSelected

(* What a commit adds: for every group one plan that says of it what the   *)
(* loop decided.                                                           *)
LEMMA CommitShape ==
    ASSUME PlannerInv, CommitPlans
    PROVE  /\ UNCHANGED <<concern, touches, refused, attempt>>
           /\ plans' = plans \cup Drafts
           /\ Drafts = {drafts[i] : i \in DOMAIN groups}
           /\ DOMAIN groups \subseteq Nat
           /\ \A i \in DOMAIN groups :
                /\ RowInv(i)
                /\ GroupInv(i)
                /\ ForcedInv(i)
                /\ Selected(drafts[i]) <=> ~ GroupIsBlocked(groups[i])
           /\ \A i, j \in DOMAIN groups :
                i # j => ApartInv(i, j) /\ drafts[i].branch # drafts[j].branch
           /\ \A p \in plans : p.attempt < attempt
<1>1. stage = "saving" /\ Len(drafts) = Len(groups) /\ DOMAIN drafts = DOMAIN groups
      /\ DOMAIN groups \subseteq Nat
  BY DEF CommitPlans, PlannerInv, PlannerTypeOK
<1>2. \A i \in DOMAIN groups : RowInv(i) /\ GroupInv(i) /\ ForcedInv(i)
  BY <1>1 DEF PlannerInv, GroupingInv, DraftInv
<1>3. ASSUME NEW i \in DOMAIN groups
      PROVE  Selected(drafts[i]) <=> ~ GroupIsBlocked(groups[i])
  BY <1>2 DEF RowInv, Selected, GroupIsBlocked
<1>4. \A i, j \in DOMAIN groups :
         i # j => ApartInv(i, j) /\ drafts[i].branch # drafts[j].branch
  BY <1>1 DEF PlannerInv, GroupingInv, DraftInv
<1>5. \A p \in plans : p.attempt < attempt
  BY <1>1 DEF PlannerInv, AttemptInv
<1>6. UNCHANGED <<concern, touches, refused, attempt>> /\ plans' = plans \cup Drafts
  BY DEF CommitPlans, inputs
<1>7. QED
  BY <1>1, <1>2, <1>3, <1>4, <1>5, <1>6 DEF Drafts

LEMMA PlannedOnceCommit ==
    ASSUME PlannerInv, CommitPlans
    PROVE  PlannedOnce'
<1>1. ASSUME NEW p \in plans, NEW q \in Drafts
      PROVE  p.members \cap q.members = {} /\ p.branch # q.branch
  <2>1. PICK i \in DOMAIN groups : q = drafts[i]
    BY CommitShape
  <2>2. RowInv(i) /\ GroupInv(i)
    BY CommitShape
  <2>3. QED
    BY <2>1, <2>2 DEF RowInv, GroupInv, HasPlan
<1>2. ASSUME NEW p \in Drafts, NEW q \in Drafts, p # q
      PROVE  p.members \cap q.members = {} /\ p.branch # q.branch
  <2>1. PICK i \in DOMAIN groups : p = drafts[i]
    BY CommitShape
  <2>2. PICK j \in DOMAIN groups : q = drafts[j]
    BY CommitShape
  <2>3. i # j
    BY <1>2, <2>1, <2>2
  <2>4. RowInv(i) /\ RowInv(j) /\ ApartInv(i, j) /\ drafts[i].branch # drafts[j].branch
    BY <2>3, CommitShape
  <2>5. QED
    BY <2>1, <2>2, <2>4 DEF RowInv, ApartInv
<1>3. PlannedOnce /\ plans' = plans \cup Drafts
  BY CommitShape DEF PlannerInv
<1>4. QED
  BY <1>1, <1>2, <1>3 DEF PlannedOnce

LEMMA NoInterferenceCommit ==
    ASSUME PlannerInv, CommitPlans
    PROVE  NoInterference'
<1>1. /\ \A S : PathsOf(S)' = PathsOf(S)
      /\ \A p : Selected(p)' <=> Selected(p)
  BY CommitShape DEF PathsOf, Selected
<1>2. ASSUME NEW p \in Drafts, NEW q \in Drafts, p # q, Selected(p), Selected(q)
      PROVE  PathsOf(p.members) \cap PathsOf(q.members) = {}
  <2>1. PICK i \in DOMAIN groups : p = drafts[i]
    BY CommitShape
  <2>2. PICK j \in DOMAIN groups : q = drafts[j]
    BY CommitShape
  <2>3. i # j
    BY <1>2, <2>1, <2>2
  <2>4. /\ RowInv(i) /\ RowInv(j) /\ ApartInv(i, j)
        /\ ~ GroupIsBlocked(groups[i]) /\ ~ GroupIsBlocked(groups[j])
    BY <1>2, <2>1, <2>2, <2>3, CommitShape
  <2>5. QED
    BY <2>1, <2>2, <2>4 DEF RowInv, ApartInv
<1>3. \A p \in plans, q \in Drafts : p.attempt # q.attempt
  <2>1. \A p \in plans : p.attempt < attempt /\ p.attempt \in Nat
    BY CommitShape DEF PlannerInv, PlannerTypeOK, PlanRow
  <2>2. \A q \in Drafts : q.attempt = attempt
    BY CommitShape DEF RowInv
  <2>3. attempt \in Nat
    BY DEF PlannerInv, PlannerTypeOK
  <2>4. QED
    BY <2>1, <2>2, <2>3
<1>4. NoInterference /\ plans' = plans \cup Drafts
  BY CommitShape DEF PlannerInv
<1>5. QED
  BY <1>1, <1>2, <1>3, <1>4 DEF NoInterference

LEMMA OneConcernCommit ==
    ASSUME PlannerInv, CommitPlans
    PROVE  OneConcern'
<1>1. ASSUME NEW p \in Drafts
      PROVE  /\ Cardinality(p.members) \in 1 .. GroupSizeLimit
             /\ \A c, d \in p.members : concern[c] = concern[d]
             /\ p.forced \/ p.members \cap refused # {} => Cardinality(p.members) = 1
  <2>1. PICK i \in DOMAIN groups : p = drafts[i]
    BY CommitShape
  <2>2. RowInv(i) /\ GroupInv(i)
    BY CommitShape
  <2>3. ASSUME p.forced \/ p.members \cap refused # {} PROVE Cardinality(p.members) = 1
    <3>1. PICK c : groups[i].members = {c}
      BY <2>1, <2>2, <2>3 DEF RowInv, GroupInv
    <3>2. QED
      BY <2>1, <2>2, <3>1, SingleGroup DEF RowInv
  <2>4. QED
    BY <2>1, <2>2, <2>3 DEF RowInv, GroupInv
<1>2. OneConcern /\ plans' = plans \cup Drafts /\ UNCHANGED <<concern, refused>>
  BY CommitShape DEF PlannerInv
<1>3. QED
  BY <1>1, <1>2 DEF OneConcern

LEMMA DeferredCommit ==
    ASSUME PlannerInv, CommitPlans
    PROVE  DeferredForSelected'
<1>1. /\ \A S : PathsOf(S)' = PathsOf(S)
      /\ \A p : Selected(p)' <=> Selected(p)
  BY CommitShape DEF PathsOf, Selected
<1>2. ASSUME NEW p \in Drafts, p.forced
      PROVE  \E q \in Drafts : /\ q.attempt = p.attempt
                               /\ Selected(q)
                               /\ PathsOf(q.members) \cap PathsOf(p.members) # {}
  <2>1. PICK i \in DOMAIN groups : p = drafts[i]
    BY CommitShape
  <2>2. RowInv(i) /\ ForcedInv(i)
    BY CommitShape
  <2>3. PICK j \in DOMAIN groups :
          /\ ~ GroupIsBlocked(groups[j])
          /\ PathsOf(groups[j].members) \cap PathsOf(groups[i].members) # {}
    BY <1>2, <2>1, <2>2 DEF RowInv, ForcedInv
  <2>4. RowInv(j) /\ Selected(drafts[j]) /\ drafts[j] \in Drafts
    BY <2>3, CommitShape
  <2>5. QED
    BY <2>1, <2>2, <2>3, <2>4 DEF RowInv
<1>3. DeferredForSelected /\ plans' = plans \cup Drafts
  BY CommitShape DEF PlannerInv
<1>4. QED
  BY <1>1, <1>2, <1>3 DEF DeferredForSelected

LEMMA SpreadCommit ==
    ASSUME PlannerInv, CommitPlans
    PROVE  PlansSpread'
<1>1. ASSUME NEW p \in Drafts PROVE Spread(p.members)
  <2>1. PICK i \in DOMAIN groups : p = drafts[i]
    BY CommitShape
  <2>2. RowInv(i) /\ GroupInv(i)
    BY CommitShape
  <2>3. QED
    BY <2>1, <2>2 DEF RowInv, GroupInv
<1>2. PlansSpread /\ plans' = plans \cup Drafts /\ touches' = touches
  BY CommitShape DEF PlannerInv
<1>3. QED
  BY <1>1, <1>2 DEF PlansSpread, Spread

(* No other step touches a plan or what is said about one. *)
LEMMA PlansSame ==
    ASSUME PlannerInv, UNCHANGED <<concern, touches, refused, plans>>
    PROVE  /\ PlansSpread'
           /\ PlannedOnce' /\ NoInterference' /\ OneConcern' /\ DeferredForSelected'
<1>1. PlansSpread' /\ PlannedOnce' /\ OneConcern'
  BY DEF PlannerInv, PlansSpread, Spread, PlannedOnce, OneConcern
<1>2. NoInterference'
  BY DEF PlannerInv, NoInterference, PathsOf, Selected
<1>3. DeferredForSelected'
  BY DEF PlannerInv, DeferredForSelected, PathsOf, Selected
<1>4. QED
  BY <1>1, <1>2, <1>3

LEMMA OnlyCommitPlans ==
    ASSUME [PlannerNext]_plannerVars, ~ CommitPlans
    PROVE  UNCHANGED <<concern, touches, refused, plans>>
<1>1. ASSUME NEW c \in Candidates, VisitAny(c)
      PROVE  UNCHANGED <<concern, touches, refused, plans>>
  BY <1>1 DEF VisitAny, VisitRefused, VisitConflicting, VisitNew, VisitFitting, Visit, inputs
<1>2. QED
  BY <1>1 DEF PlannerNext, plannerVars, inputs, StartPlanning, StartSaving, SavePlan, Interrupt

LEMMA AttemptStep ==
    ASSUME PlannerInv, [PlannerNext]_plannerVars
    PROVE  AttemptInv'
<1>1. /\ attempt \in Nat
      /\ \A p \in plans : p.attempt \in Nat
      /\ AttemptInv
  BY DEF PlannerInv, PlannerTypeOK, PlanRow
<1>2. CASE CommitPlans
  <2>1. plans' = plans \cup Drafts /\ attempt' = attempt /\ stage' = "idle"
    BY <1>2 DEF CommitPlans
  <2>2. \A q \in Drafts : q.attempt = attempt
    BY <1>2, CommitShape DEF RowInv
  <2>3. QED
    BY <1>1, <2>1, <2>2 DEF AttemptInv
<1>3. CASE StartPlanning
  BY <1>1, <1>3 DEF StartPlanning, AttemptInv
<1>4. ASSUME NEW c \in Candidates, VisitAny(c) PROVE AttemptInv'
  BY <1>1, <1>4 DEF VisitAny, VisitRefused, VisitConflicting, VisitNew, VisitFitting, Visit,
     AttemptInv
<1>5. CASE StartSaving \/ SavePlan \/ Interrupt
  BY <1>1, <1>5 DEF StartSaving, SavePlan, Interrupt, AttemptInv
<1>6. CASE UNCHANGED plannerVars
  BY <1>1, <1>6 DEF plannerVars, AttemptInv
<1>7. QED
  BY <1>2, <1>3, <1>4, <1>5, <1>6 DEF PlannerNext

LEMMA PlannerInvInit == PlannerInit => PlannerInv
<1> SUFFICES ASSUME PlannerInit PROVE PlannerInv
  OBVIOUS
<1>1. PlannerTypeOK
  BY PlannerTypeInit
<1>2. GroupingInv /\ DraftInv /\ AttemptInv
  BY DEF PlannerInit, GroupingInv, DraftInv, AttemptInv
<1>3. PlansSpread /\ PlannedOnce /\ NoInterference /\ OneConcern /\ DeferredForSelected
  BY DEF PlannerInit, PlansSpread, PlannedOnce, NoInterference, OneConcern,
     DeferredForSelected
<1>4. QED
  BY <1>1, <1>2, <1>3 DEF PlannerInv

LEMMA PlannerInvStep ==
    ASSUME PlannerInv, [PlannerNext]_plannerVars
    PROVE  PlannerInv'
<1>1. PlannerTypeOK' /\ GroupingInv' /\ DraftInv'
  BY PlannerTypeStep, GroupingStep, DraftStep DEF PlannerInv
<1>2. AttemptInv'
  BY AttemptStep
<1>3. /\ PlansSpread'
      /\ PlannedOnce' /\ NoInterference' /\ OneConcern' /\ DeferredForSelected'
  <2>1. CASE CommitPlans
    BY <2>1, SpreadCommit, PlannedOnceCommit, NoInterferenceCommit, OneConcernCommit, DeferredCommit
  <2>2. CASE ~ CommitPlans
    BY <2>2, OnlyCommitPlans, PlansSame
  <2>3. QED
    BY <2>1, <2>2
<1>4. QED
  BY <1>1, <1>2, <1>3 DEF PlannerInv

LEMMA PlannerInvariant == PlannerSpec => []PlannerInv
BY PlannerInvInit, PlannerInvStep, PTL DEF PlannerSpec

(* No opportunity has two plans in a session and no two plans one branch   *)
(* name, however often the session is run.                                 *)
THEOREM EachPlannedOnce == PlannerSpec => []PlannedOnce
<1>1. PlannerInv => PlannedOnce
  BY DEF PlannerInv
<1>2. QED
  BY <1>1, PlannerInvariant, PTL

(* Selected plans of one run share no path.                                *)
THEOREM SelectedApart == PlannerSpec => []NoInterference
<1>1. PlannerInv => NoInterference
  BY DEF PlannerInv
<1>2. QED
  BY <1>1, PlannerInvariant, PTL

(* A plan has one category and risk tier and at most GroupSizeLimit        *)
(* opportunities; a deferred or refused one stands alone.                  *)
THEOREM PlansAreSmall == PlannerSpec => []OneConcern
<1>1. PlannerInv => OneConcern
  BY DEF PlannerInv
<1>2. QED
  BY <1>1, PlannerInvariant, PTL

(* A deferred plan shares a path with a plan of the same run that is       *)
(* neither deferred nor refused.                                           *)
THEOREM DeferredForGoodReason == PlannerSpec => []DeferredForSelected
<1>1. PlannerInv => DeferredForSelected
  BY DEF PlannerInv
<1>2. QED
  BY <1>1, PlannerInvariant, PTL

(* Of the plans of one run, opportunity by opportunity: a selected one      *)
(* meets no selected one of its own plan or of another, and one that is     *)
(* neither refused nor selected is alone in a plan that was deferred for a  *)
(* selected one.                                                            *)
LEMMA SelectionOfPlans ==
    ASSUME PlannerInv, NEW n, NEW c \in PlannedIn(n), c \notin refused
    PROVE  c \in SelectedIn(n) <=>
              \A d \in SelectedIn(n) \ {c} : touches[c] \cap touches[d] = {}
<1>p. PICK p \in plans : p.attempt = n /\ c \in p.members
  BY DEF PlannedIn
<1>1. ASSUME c \in SelectedIn(n), NEW d \in SelectedIn(n), d # c
      PROVE  touches[c] \cap touches[d] = {}
  <2>1. PICK q \in plans : q.attempt = n /\ Selected(q) /\ c \in q.members
    BY <1>1 DEF SelectedIn
  <2>2. PICK r \in plans : r.attempt = n /\ Selected(r) /\ d \in r.members
    BY <1>1 DEF SelectedIn
  <2>3. CASE q = r
    BY <1>1, <2>1, <2>2, <2>3 DEF PlannerInv, PlansSpread, Spread
  <2>4. CASE q # r
    <3>1. PathsOf(q.members) \cap PathsOf(r.members) = {}
      BY <2>1, <2>2, <2>4 DEF PlannerInv, NoInterference
    <3>2. touches[c] \subseteq PathsOf(q.members) /\ touches[d] \subseteq PathsOf(r.members)
      BY <2>1, <2>2 DEF PathsOf
    <3>3. QED
      BY <3>1, <3>2
  <2>5. QED
    BY <2>3, <2>4
<1>2. ASSUME c \notin SelectedIn(n)
      PROVE  \E d \in SelectedIn(n) \ {c} : touches[c] \cap touches[d] # {}
  <2>1. ~ Selected(p)
    BY <1>p, <1>2 DEF SelectedIn
  <2>2. p.members = {c}
    <3>1. PICK e : p.members = {e}
      <4>1. Cardinality(p.members) = 1 /\ IsFiniteSet(p.members)
        <5>1. p.members \subseteq Candidates
          BY DEF PlannerInv, PlannerTypeOK, PlanRow
        <5>2. QED
          BY <2>1, <5>1, FS_Subset, PlannerAssumption DEF PlannerInv, OneConcern, Selected
      <4>2. QED
        BY <4>1, FS_Singleton
    <3>2. QED
      BY <1>p, <3>1
  <2>3. p.forced
    BY <2>1, <2>2 DEF Selected
  <2>4. PICK q \in plans :
          /\ q.attempt = n
          /\ Selected(q)
          /\ PathsOf(q.members) \cap PathsOf(p.members) # {}
    BY <1>p, <2>3 DEF PlannerInv, DeferredForSelected
  <2>5. PICK d \in q.members : touches[d] \cap touches[c] # {}
    BY <2>2, <2>4 DEF PathsOf
  <2>6. d \in SelectedIn(n)
    BY <2>4, <2>5 DEF SelectedIn
  <2>7. QED
    BY <1>2, <2>5, <2>6
<1>3. QED
  BY <1>1, <1>2

(* Whatever the loop groups, whatever order it goes in and however often    *)
(* the session is run, a run selects of the opportunities the policy lets   *)
(* through exactly those that share no path with another it selected: what  *)
(* SessionPipeline assumes of plan selection.                               *)
THEOREM SelectionTheorem == PlannerSpec => []SelectionKept
<1>1. PlannerInv => SelectionKept
  BY SelectionOfPlans DEF SelectionKept
<1>2. QED
  BY <1>1, PlannerInvariant, PTL

(* A commit leaves no opportunity the planner was called with without a    *)
(* plan.                                                                   *)
THEOREM AllPlanned == PlannerSpec => NothingDropped
<1>1. ASSUME PlannerInv, [PlannerNext]_plannerVars, plans' # plans, NEW c \in offered
      PROVE  HasPlan(c)'
  <2>1. CommitPlans
    BY <1>1, OnlyCommitPlans
  <2>2. waiting = {} /\ LoopInv
    BY <1>1, <2>1 DEF CommitPlans, PlannerInv, DraftInv, GroupingInv
  <2>3. CASE HasPlan(c)
    BY <2>1, <2>3 DEF CommitPlans, HasPlan
  <2>4. CASE \E i \in DOMAIN groups : c \in groups[i].members
    <3>1. PICK i \in DOMAIN groups : c \in groups[i].members
      BY <2>4
    <3>2. drafts[i] \in plans' /\ c \in drafts[i].members
      BY <1>1, <2>1, <3>1, CommitShape DEF RowInv
    <3>3. QED
      BY <3>2 DEF HasPlan
  <2>5. QED
    BY <2>2, <2>3, <2>4 DEF LoopInv
<1>2. PlannerInv /\ [PlannerNext]_plannerVars =>
        [plans' # plans => \A c \in offered : HasPlan(c)']_plannerVars
  BY <1>1
<1>3. QED
  BY <1>2, PlannerInvariant, PTL DEF PlannerSpec, NothingDropped

-----------------------------------------------------------------------------
(* The names that are tried.                                               *)

(* A non-empty set of numbers has a smallest one. *)
LEMMA LeastNumber ==
    ASSUME NEW S \in SUBSET Nat, S # {}
    PROVE  \E n \in S : \A m \in S : n <= m
<1>1. PICK n \in S : \A m \in S : ~ (<<m, n>> \in OpToRel(<, Nat))
  BY NatLessThanWellFounded, WFMin, Zenon
<1>2. ASSUME NEW m \in S PROVE n <= m
  <2>1. ~ (m < n)
    <3>1. m < n => <<m, n>> \in {p \in Nat \X Nat : p[1] < p[2]}
      OBVIOUS
    <3>2. OpToRel(<, Nat) = {p \in Nat \X Nat : p[1] < p[2]}
      BY Zenon DEF OpToRel
    <3>3. QED
      BY <1>1, <3>1, <3>2, Zenon
  <2>2. QED
    BY <2>1
<1>3. QED
  BY <1>2

(* Of n + 1 numbers n names do not use up all. *)
LEMMA NamesLeaveOne ==
    ASSUME NEW names, IsFiniteSet(names), NEW n \in Nat, Cardinality(names) <= n, NEW k
    PROVE  \E i \in 1 .. n + 1 : [slug |-> k, counter |-> i] \notin names
<1> SUFFICES ASSUME \A i \in 1 .. n + 1 : [slug |-> k, counter |-> i] \in names
             PROVE  FALSE
  OBVIOUS
<1> DEFINE name == [i \in 1 .. n + 1 |-> [slug |-> k, counter |-> i]]
<1>1. name \in [1 .. n + 1 -> names]
  OBVIOUS
<1>2. IsFiniteSet(1 .. n + 1) /\ Cardinality(1 .. n + 1) = n + 1
  BY FS_Interval
<1>3. Cardinality(names) \in Nat
  BY FS_CardinalityType
<1>4. Cardinality(names) < Cardinality(1 .. n + 1)
  BY <1>2, <1>3
<1> HIDE DEF name
<1>5. PICK i \in 1 .. n + 1, j \in 1 .. n + 1 : i # j /\ name[i] = name[j]
  BY <1>1, <1>2, <1>4, FS_PigeonHole
<1>6. name[i].counter = i /\ name[j].counter = j
  BY DEF name
<1>7. QED
  BY <1>5, <1>6

(* The rows of the session, saved or not, use no more names than there are *)
(* rows.                                                                   *)
LEMMA NamesCounted ==
    ASSUME PlannerTypeOK, IsFiniteSet(plans)
    PROVE  /\ IsFiniteSet(UsedNames)
           /\ Cardinality(UsedNames) <= Cardinality(plans) + Len(drafts)
<1>1. /\ Len(drafts) \in Nat /\ DOMAIN drafts = 1 .. Len(drafts)
      /\ Cardinality(plans) \in Nat
  BY FS_CardinalityType DEF PlannerTypeOK
<1>2. IsFiniteSet(1 .. Len(drafts)) /\ Cardinality(1 .. Len(drafts)) = Len(drafts)
  <2>1. 1 \in Int /\ Len(drafts) \in Int
    BY <1>1
  <2>2. Cardinality(1 .. Len(drafts)) =
          IF 1 > Len(drafts) THEN 0 ELSE Len(drafts) - 1 + 1
    BY <2>1, FS_Interval
  <2>3. IsFiniteSet(1 .. Len(drafts))
    BY <2>1, FS_Interval
  <2>4. Cardinality(1 .. Len(drafts)) = Len(drafts)
    BY <1>1, <2>2
  <2>5. QED
    BY <2>3, <2>4
<1> DEFINE Saved == {p.branch : p \in plans}
           Open == {drafts[i].branch : i \in 1 .. Len(drafts)}
           SaveName == [p \in plans |-> p.branch]
           OpenName == [i \in 1 .. Len(drafts) |-> drafts[i].branch]
<1>3. SaveName \in Surjection(plans, Saved)
  BY DEF Surjection
<1>4. OpenName \in Surjection(1 .. Len(drafts), Open)
  BY DEF Surjection
<1>5. UsedNames = Saved \cup Open
  BY <1>1 DEF UsedNames, Drafts
<1> HIDE DEF Saved, Open, SaveName, OpenName
<1>6. IsFiniteSet(Saved) /\ Cardinality(Saved) <= Cardinality(plans)
  BY <1>3, FS_Surjection
<1>7. IsFiniteSet(Open) /\ Cardinality(Open) <= Len(drafts)
  BY <1>2, <1>4, FS_Surjection
<1>8. /\ IsFiniteSet(Saved \cup Open)
      /\ Cardinality(Saved \cup Open) =
            Cardinality(Saved) + Cardinality(Open) - Cardinality(Saved \cap Open)
  BY <1>6, <1>7, FS_Union
<1>9. Cardinality(Saved) \in Nat /\ Cardinality(Open) \in Nat
      /\ Cardinality(Saved \cap Open) \in Nat
  <2>1. IsFiniteSet(Saved \cap Open)
    BY <1>6, FS_Subset
  <2>2. QED
    BY <1>6, <1>7, <2>1, FS_CardinalityType
<1>10. QED
  BY <1>1, <1>5, <1>6, <1>7, <1>8, <1>9

(* The search of _unique_branch_name ends, for every title, before it has   *)
(* tried more numbers than the session has rows and one.                    *)
NameIsFree ==
    \A k \in Slugs : \E n \in Counters : UniqueName([slug |-> k, counter |-> n])

LEMMA NameFound ==
    ASSUME PlannerTypeOK, IsFiniteSet(plans) PROVE NameIsFree
<1> SUFFICES ASSUME NEW k \in Slugs
             PROVE  \E n \in Counters : UniqueName([slug |-> k, counter |-> n])
  BY DEF NameIsFree
<1> DEFINE bound == Cardinality(plans) + Len(drafts)
           free == {i \in 1 .. bound + 1 : [slug |-> k, counter |-> i] \notin UsedNames}
<1>1. bound \in Nat
  BY FS_CardinalityType DEF PlannerTypeOK
<1>2. IsFiniteSet(UsedNames) /\ Cardinality(UsedNames) <= bound
  BY NamesCounted
<1> HIDE DEF bound
<1>3. \E i \in 1 .. bound + 1 : [slug |-> k, counter |-> i] \notin UsedNames
  BY <1>1, <1>2, NamesLeaveOne
<1>4. PICK n \in free : \A m \in free : n <= m
  <2>1. free # {} /\ free \in SUBSET Nat
    BY <1>1, <1>3
  <2>2. QED
    BY <2>1, LeastNumber
<1>5. n \in Counters
  BY <1>4 DEF Counters, bound
<1>6. UniqueName([slug |-> k, counter |-> n])
  <2>1. ASSUME NEW m \in 1 .. n - 1 PROVE [slug |-> k, counter |-> m] \in UsedNames
    <3>1. n \in 1 .. bound + 1
      BY <1>4
    <3>2. m \in 1 .. bound + 1 /\ ~ (n <= m)
      BY <1>1, <3>1
    <3>3. QED
      BY <1>4, <3>2
  <2>2. [slug |-> k, counter |-> n] \notin UsedNames
    BY <1>4
  <2>3. QED
    BY <2>1, <2>2 DEF UniqueName
<1>7. QED
  BY <1>5, <1>6

LEMMA PlansFinite ==
    ASSUME PlannerTypeOK, IsFiniteSet(plans), [PlannerNext]_plannerVars
    PROVE  IsFiniteSet(plans)'
<1>1. CASE CommitPlans
  <2>1. IsFiniteSet(1 .. Len(drafts))
    BY FS_Interval DEF PlannerTypeOK
  <2>2. [i \in 1 .. Len(drafts) |-> drafts[i]] \in Surjection(1 .. Len(drafts), Drafts)
    BY DEF Surjection, Drafts, PlannerTypeOK
  <2>3. IsFiniteSet(Drafts)
    BY <2>1, <2>2, FS_Surjection
  <2>4. QED
    BY <1>1, <2>3, FS_Union DEF CommitPlans
<1>2. CASE ~ CommitPlans
  BY <1>2, OnlyCommitPlans
<1>3. QED
  BY <1>1, <1>2

(* A group can always be saved: however many plans the session has already  *)
(* and however many of them have the same title, the search for a branch    *)
(* name ends.  So the bound on the numbers that SavePlan tries is none.     *)
THEOREM NameTheorem == PlannerSpec => []NameIsFree
<1>1. PlannerInit => IsFiniteSet(plans)
  BY FS_EmptySet DEF PlannerInit
<1>2. PlannerTypeOK /\ IsFiniteSet(plans) /\ [PlannerNext]_plannerVars => IsFiniteSet(plans)'
  BY PlansFinite
<1>3. PlannerTypeOK /\ IsFiniteSet(plans) => NameIsFree
  BY NameFound
<1>4. QED
  BY <1>1, <1>2, <1>3, PlannerTypeCorrect, PTL DEF PlannerSpec

=============================================================================
