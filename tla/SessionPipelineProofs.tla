----------------------- MODULE SessionPipelineProofs -----------------------
(***************************************************************************)
(* What holds of SessionPipeline for every set of sessions, refreshes and  *)
(* opportunities, every cap, every length of the default branch and every  *)
(* fault.                                                                  *)
(***************************************************************************)
EXTENDS SessionPipeline, FiniteSetTheorems, TLAPS

-----------------------------------------------------------------------------
(* Types. *)

JobState == {"queued"} \cup Working \cup Ended

LEMMA ConstantTypes ==
    /\ Sessions \subseteq Jobs
    /\ \A s \in Sessions : s \in Jobs /\ s \notin Refreshes
    /\ \A r \in Refreshes : r \in Jobs /\ r \notin Sessions
    /\ Cap \in Nat /\ MaxHead \in Nat /\ MaxHead >= 1 /\ MaxFaults \in Nat
    /\ Commits \subseteq 0 .. MaxHead
    /\ \A o \in Opportunities : \A w \in Worse[o] : w \in Nat /\ w >= 1
BY ConstantAssumption DEF Jobs, Commits

LEMMA ChangesType ==
    ASSUME NEW b \in 0 .. MaxHead, NEW c \in 0 .. MaxHead
    PROVE  Changes(b, c) \subseteq Opportunities \X Commits
<1>1. (b + 1) .. c \subseteq Commits
  BY ConstantTypes DEF Commits
<1>2. QED
  BY <1>1 DEF Changes

(* Members of Drift and Changes. *)
LEMMA WorseBetween ==
    ASSUME NEW b \in Nat, NEW c \in Nat, NEW o \in Opportunities, NEW w \in Worse[o],
           b < w, w <= c
    PROVE  o \in Drift(b, c) /\ <<o, w>> \in Changes(b, c)
<1>1. w \in (b + 1) .. c
  BY ConstantTypes
<1>2. QED
  BY <1>1 DEF Drift, Changes

LEMMA DriftGrows ==
    ASSUME NEW b \in Nat, NEW c \in Nat, NEW d \in Nat, NEW e \in Nat, d <= b, c <= e
    PROVE  Drift(b, c) \subseteq Drift(d, e)
<1>1. (b + 1) .. c \subseteq (d + 1) .. e
  OBVIOUS
<1>2. QED
  BY <1>1 DEF Drift

LEMMA TypeInit == Init => TypeOK
<1> SUFFICES ASSUME Init PROVE TypeOK
  OBVIOUS
<1>1. head \in Commits /\ baseline \in 0 .. MaxHead
  BY ConstantTypes DEF Init, Commits
<1>2. swept \in SUBSET (Opportunities \X Commits)
  BY <1>1, ConstantTypes, ChangesType DEF Init
<1>3. plan \in [Sessions -> [Opportunities -> PlanStatus]]
  BY DEF Init, PlanStatus
<1>4. /\ pc \in [Jobs -> {"queued"} \cup Working \cup Ended]
      /\ base \in [Jobs -> 0 .. MaxHead] /\ commit \in [Jobs -> 0 .. MaxHead]
  BY ConstantTypes DEF Init
<1>5. /\ todo \in [Sessions -> SUBSET Opportunities]
      /\ at \in [Sessions -> Opportunities \cup {None}]
      /\ before \in [Sessions -> SUBSET Sessions]
      /\ errors \in [Sessions -> SUBSET Opportunities]
      /\ passed \in [Sessions -> SUBSET Opportunities]
  BY DEF Init
<1>6. /\ approved \in [Sessions -> Nat] /\ runs \in [Sessions -> Nat]
      /\ faults \in 0 .. MaxFaults
  BY ConstantTypes DEF Init
<1>7. movedBack \in BOOLEAN
  BY DEF Init
<1>8. QED
  BY <1>1, <1>2, <1>3, <1>4, <1>5, <1>6, <1>7 DEF TypeOK

LEMMA VerdictType ==
    ASSUME TypeOK, NEW s \in Sessions, NEW o \in Opportunities
    PROVE  Verdict(s, o) \in PlanStatus
BY DEF Verdict, PlanStatus

LEMMA TypeWork ==
    ASSUME TypeOK, NEW s \in Sessions, PlanStep(s)
    PROVE  TypeOK'
<1> USE ConstantTypes
<1>1. CASE Start(s)
  BY <1>1 DEF TypeOK, Start, Working, Ended
<1>2. CASE Clone(s)
  BY <1>2 DEF TypeOK, Clone, Working, Ended, history
<1>3. CASE Select(s)
  <2>1. Relevant(s) \subseteq Opportunities
    BY DEF Relevant, Drift, Found
  <2>2. QED
    BY <1>3, <2>1 DEF TypeOK, Select, Working, Ended, history
<1>4. CASE Plan(s)
  <2>1. plan' \in [Sessions -> [Opportunities -> PlanStatus]]
    BY <1>4 DEF TypeOK, Plan, PlanStatus
  <2>2. todo' \in [Sessions -> SUBSET Opportunities]
    BY <1>4 DEF TypeOK, Plan
  <2>3. QED
    BY <1>4, <2>1, <2>2 DEF TypeOK, Plan, Working, Ended, history
<1>5. ASSUME NEW o \in Opportunities, Approve(s, o) PROVE TypeOK'
  <2>1. plan' \in [Sessions -> [Opportunities -> PlanStatus]]
    BY <1>5, VerdictType DEF TypeOK, Approve
  <2>2. approved' \in [Sessions -> Nat]
    BY <1>5 DEF TypeOK, Approve
  <2>3. QED
    BY <1>5, <2>1, <2>2 DEF TypeOK, Approve, history
<1>6. QED
  BY <1>1, <1>2, <1>3, <1>4, <1>5 DEF PlanStep

(* A run that authors a pull request has a plan it does so for. *)
AtInv == \A s \in Sessions : pc[s] = "authoring" => at[s] \in Opportunities

LEMMA TypeExecute ==
    ASSUME TypeOK, AtInv, NEW s \in Sessions, ExecuteStep(s)
    PROVE  TypeOK'
<1> USE ConstantTypes
<1>1. CASE ListPlans(s)
  <2>1. /\ todo' \in [Sessions -> SUBSET Opportunities]
        /\ passed' \in [Sessions -> SUBSET Opportunities]
    BY <1>1 DEF TypeOK, ListPlans, Executable, LeftRunning
  <2>2. QED
    BY <1>1, <2>1 DEF TypeOK, ListPlans, Working, Ended
<1>2. ASSUME NEW o \in Opportunities, ExecuteClaim(s, o) PROVE TypeOK'
  BY <1>2 DEF TypeOK, ExecuteClaim, Working, Ended, PlanStatus, history
<1>r. ASSUME NEW o \in Opportunities, ExecuteRefused(s, o) PROVE TypeOK'
  BY <1>r DEF TypeOK, ExecuteRefused, history
<1>3. CASE ExecuteEnds(s)
  <2>1. plan' \in [Sessions -> [Opportunities -> PlanStatus]]
    <3>1. PICK status \in {"opened", "failed"} :
              plan' = [plan EXCEPT ![s][at[s]] = status]
      BY <1>3 DEF ExecuteEnds
    <3>2. status \in PlanStatus
      BY DEF PlanStatus
    <3>3. QED
      BY <3>1, <3>2 DEF TypeOK
  <2>2. errors' \in [Sessions -> SUBSET Opportunities]
    <3>1. at[s] \in Opportunities
      BY <1>3 DEF AtInv, ExecuteEnds
    <3>2. \/ errors' = errors
          \/ errors' = [errors EXCEPT ![s] = errors[s] \cup {at[s]}]
      BY <1>3 DEF ExecuteEnds
    <3>3. errors \in [Sessions -> SUBSET Opportunities]
      BY DEF TypeOK
    <3>4. QED
      BY <3>1, <3>2, <3>3
  <2>3. /\ pc' = [pc EXCEPT ![s] = "executing"] /\ at' = [at EXCEPT ![s] = None]
        /\ UNCHANGED <<head, baseline, base, commit, todo, approved, faults, history>>
    BY <1>3 DEF ExecuteEnds
  <2>4. QED
    BY <2>1, <2>2, <2>3 DEF TypeOK, Working, Ended, history
<1>4. ASSUME NEW o \in Opportunities, PullRequestCloses(s, o) PROVE TypeOK'
  BY <1>4 DEF TypeOK, PullRequestCloses, PlanStatus, locals, history
<1>5. QED
  BY <1>1, <1>2, <1>r, <1>3, <1>4 DEF ExecuteStep

LEMMA TypeStop ==
    ASSUME TypeOK, NEW s \in Sessions, Stop(s)
    PROVE  TypeOK'
<1> USE ConstantTypes
<1>1. PlanRaises(s) \in [Sessions -> [Opportunities -> PlanStatus]]
  BY DEF TypeOK, PlanRaises, PlanStatus
<1>2. ASSUME NEW kind, Fault(kind) PROVE faults' \in 0 .. MaxFaults
  BY <1>2 DEF TypeOK, Fault
<1>3. ASSUME NEW status \in {"queued", "failed", "canceled"}, StopsAt(s, status),
             plan' \in [Sessions -> [Opportunities -> PlanStatus]],
             faults' \in 0 .. MaxFaults
      PROVE  TypeOK'
  BY <1>3 DEF TypeOK, StopsAt, Working, Ended, history
<1>4. CASE Crash(s)
  BY <1>4, <1>2, <1>3 DEF Crash, TypeOK
<1>5. CASE Retry(s)
  BY <1>5, <1>1, <1>2, <1>3 DEF Retry
<1>6. CASE Fail(s)
  BY <1>6, <1>1, <1>2, <1>3 DEF Fail
<1>7. CASE Cancel(s)
  BY <1>7, <1>2, <1>3 DEF Cancel, TypeOK
<1>8. QED
  BY <1>4, <1>5, <1>6, <1>7 DEF Stop

LEMMA TypeRest ==
    ASSUME TypeOK,
           \/ Push
           \/ \E r \in Refreshes : RefreshClone(r) \/ RefreshStops(r)
           \/ \E j \in Jobs : Promote(j) \/ Complete(j)
           \/ UNCHANGED vars
    PROVE  TypeOK'
<1> USE ConstantTypes
<1>1. CASE Push
  BY <1>1 DEF TypeOK, Push, Commits, locals, history
<1>2. ASSUME NEW r \in Refreshes, RefreshClone(r) PROVE TypeOK'
  BY <1>2 DEF TypeOK, RefreshClone, Working, Ended, history
<1>3. ASSUME NEW r \in Refreshes, RefreshStops(r) PROVE TypeOK'
  BY <1>3 DEF TypeOK, RefreshStops, Fault, Working, Ended, locals, history
<1>4. ASSUME NEW j \in Jobs, Promote(j) PROVE TypeOK'
  <2>1. swept' \in SUBSET (Opportunities \X Commits) /\ movedBack' \in BOOLEAN
    BY <1>4, ChangesType DEF TypeOK, Promote
  <2>2. baseline' \in 0 .. MaxHead
    BY <1>4 DEF TypeOK, Promote, Promoted
  <2>3. pc' \in [Jobs -> JobState]
    BY <1>4 DEF TypeOK, Promote, Working, JobState
  <2>4. QED
    BY <1>4, <2>1, <2>2, <2>3 DEF TypeOK, Promote, JobState, locals
<1>5. ASSUME NEW j \in Jobs, Complete(j) PROVE TypeOK'
  BY <1>5 DEF TypeOK, Complete, Working, Ended, locals, history
<1>6. CASE UNCHANGED vars
  BY <1>6 DEF TypeOK, vars, locals, history
<1>7. QED
  BY <1>1, <1>2, <1>3, <1>4, <1>5, <1>6

LEMMA TypeStep == TypeOK /\ AtInv /\ [Next]_vars => TypeOK'
BY TypeWork, TypeExecute, TypeStop, TypeRest DEF Next

LEMMA AtStep ==
    ASSUME TypeOK, AtInv, [Next]_vars
    PROVE  AtInv'
<1> USE ConstantTypes
<1> USE DEF AtInv
<1>1. CASE UNCHANGED <<pc, at>>
  BY <1>1
<1>2. ASSUME NEW s \in Sessions, NEW o \in Opportunities, ExecuteClaim(s, o)
      PROVE  AtInv'
  BY <1>2 DEF TypeOK, ExecuteClaim
<1>3. ASSUME NEW j \in Jobs, NEW status \in ({"queued"} \cup Working \cup Ended) \ {"authoring"},
             pc' = [pc EXCEPT ![j] = status],
             at' = at \/ at' = [at EXCEPT ![j] = None]
      PROVE  AtInv'
  BY <1>3 DEF TypeOK
<1>4. ASSUME NEW s \in Sessions, PlanStep(s) PROVE AtInv'
  BY <1>4, <1>1, <1>3 DEF PlanStep, Start, Clone, Select, Plan, Approve, Working
<1>5. ASSUME NEW s \in Sessions, ExecuteStep(s) PROVE AtInv'
  BY <1>5, <1>1, <1>2, <1>3 DEF ExecuteStep, ListPlans, ExecuteRefused, ExecuteEnds,
     PullRequestCloses, Working, locals
<1>6. ASSUME NEW s \in Sessions, Stop(s) PROVE AtInv'
  BY <1>6, <1>3 DEF Stop, Crash, Retry, Fail, Cancel, StopsAt, Ended
<1>7. ASSUME NEW j \in Jobs, Promote(j) \/ Complete(j) PROVE AtInv'
  BY <1>7, <1>3 DEF Promote, Complete, Working, Ended, locals
<1>8. ASSUME NEW r \in Refreshes, RefreshClone(r) \/ RefreshStops(r) PROVE AtInv'
  BY <1>8, <1>3 DEF RefreshClone, RefreshStops, Working, Ended, locals
<1>9. CASE Push \/ UNCHANGED vars
  BY <1>9, <1>1 DEF Push, vars, locals
<1>10. QED
  BY <1>4, <1>5, <1>6, <1>7, <1>8, <1>9 DEF Next

(* Every variable keeps its type. *)
THEOREM TypeCorrect == Spec => []TypeOK
<1>1. Init => AtInv
  BY ConstantTypes DEF Init, AtInv
<1>2. QED
  BY <1>1, TypeInit, TypeStep, AtStep, PTL DEF Spec

-----------------------------------------------------------------------------
(* Which way commits go. *)

(* Nothing is ahead of the default branch, and a run that has cloned is    *)
(* not behind the baseline it read before: the branch only grows.          *)
ForwardInv ==
    /\ baseline <= head
    /\ \A j \in Jobs :
         /\ base[j] <= head
         /\ commit[j] <= head
         /\ pc[j] \in Working \ {"started"} => base[j] <= commit[j] /\ commit[j] # 0

LEMMA ForwardInit == Init => ForwardInv
BY DEF Init, ForwardInv, Working

LEMMA Numbers ==
    ASSUME TypeOK
    PROVE  /\ head \in Nat /\ head # 0 /\ baseline \in Nat
           /\ \A j \in Jobs : base[j] \in Nat /\ commit[j] \in Nat
           /\ \A o \in Opportunities : \A w \in Worse[o] : w \in Nat /\ w >= 1
BY ConstantTypes DEF TypeOK, Commits

LEMMA ForwardStep ==
    ASSUME TypeOK, ForwardInv, [Next]_vars
    PROVE  ForwardInv'
<1> USE ConstantTypes, Numbers
<1> USE DEF ForwardInv, Working
<1>1. CASE Push
  BY <1>1 DEF Push, locals
<1>2. ASSUME NEW s \in Sessions, PlanStep(s) PROVE ForwardInv'
  <2>1. CASE Start(s)
    BY <2>1 DEF TypeOK, Start
  <2>2. CASE Clone(s)
    BY <2>2 DEF TypeOK, Clone
  <2>3. CASE Select(s)
    BY <2>3 DEF TypeOK, Select
  <2>4. CASE Plan(s)
    BY <2>4 DEF TypeOK, Plan
  <2>5. ASSUME NEW o \in Opportunities, Approve(s, o) PROVE ForwardInv'
    BY <2>5 DEF Approve
  <2>6. QED
    BY <1>2, <2>1, <2>2, <2>3, <2>4, <2>5 DEF PlanStep
<1>3. ASSUME NEW s \in Sessions, ExecuteStep(s) PROVE ForwardInv'
  <2>1. CASE ListPlans(s)
    BY <2>1 DEF TypeOK, ListPlans
  <2>2. ASSUME NEW o \in Opportunities, ExecuteClaim(s, o) PROVE ForwardInv'
    BY <2>2 DEF TypeOK, ExecuteClaim
  <2>3. CASE ExecuteEnds(s)
    BY <2>3 DEF TypeOK, ExecuteEnds
  <2>4. ASSUME NEW o \in Opportunities, PullRequestCloses(s, o) \/ ExecuteRefused(s, o)
        PROVE  ForwardInv'
    BY <2>4 DEF PullRequestCloses, ExecuteRefused, locals
  <2>5. QED
    BY <1>3, <2>1, <2>2, <2>3, <2>4 DEF ExecuteStep
<1>4. ASSUME NEW s \in Sessions, Stop(s) PROVE ForwardInv'
  <2>1. \E status \in {"queued", "failed", "canceled"} : StopsAt(s, status)
    BY <1>4 DEF Stop, Crash, Retry, Fail, Cancel
  <2>2. QED
    BY <2>1 DEF TypeOK, StopsAt
<1>5. ASSUME NEW r \in Refreshes, RefreshClone(r) PROVE ForwardInv'
  BY <1>5 DEF TypeOK, RefreshClone
<1>6. ASSUME NEW r \in Refreshes, RefreshStops(r) PROVE ForwardInv'
  BY <1>6 DEF TypeOK, RefreshStops, locals
<1>7. ASSUME NEW j \in Jobs, Promote(j) PROVE ForwardInv'
  BY <1>7 DEF TypeOK, Promote, Promoted, MayPromote, locals
<1>8. ASSUME NEW j \in Jobs, Complete(j) PROVE ForwardInv'
  BY <1>8 DEF TypeOK, Complete, locals
<1>9. CASE UNCHANGED vars
  BY <1>9 DEF vars, locals
<1>10. QED
  BY <1>1, <1>2, <1>3, <1>4, <1>5, <1>6, <1>7, <1>8, <1>9 DEF Next

LEMMA ForwardAlways == Spec => []ForwardInv
BY ForwardInit, ForwardStep, TypeCorrect, PTL DEF Spec

(* A session never plans from a comparison of an older commit with a newer *)
(* baseline.                                                               *)
THEOREM LooksForward == Spec => []DriftLooksForward
<1>1. ForwardInv => DriftLooksForward
  BY ConstantTypes DEF ForwardInv, DriftLooksForward
<1>2. QED
  BY <1>1, ForwardAlways, PTL

(* Only a job that another one overtook moves the baseline back. *)
THEOREM OvertakenOnly == Spec => BackOnlyWhenOvertaken
<1>1. ASSUME TypeOK, ForwardInv, Next, baseline' < baseline
      PROVE  \E j \in Jobs : MayPromote(j) /\ pc'[j] = "promoted" /\ base[j] < baseline
  <2>1. baseline' # baseline
    BY <1>1, Numbers
  <2>2. \E j \in Jobs : Promote(j)
    BY <1>1, <2>1 DEF Next, Push, PlanStep, Start, Clone, Select, Plan, Approve,
       ExecuteStep, ListPlans, ExecuteRefused, ExecuteClaim, ExecuteEnds,
       PullRequestCloses, Stop,
       Crash, Retry, Fail, Cancel, StopsAt, RefreshClone, RefreshStops, Complete
  <2>3. PICK j \in Jobs : Promote(j)
    BY <2>2
  <2>4. base[j] <= commit[j]
    BY <1>1, <2>3 DEF ForwardInv, Promote, MayPromote, Working
  <2>5. MayPromote(j) /\ pc'[j] = "promoted" /\ baseline' = commit[j]
    BY <1>1, <2>3 DEF TypeOK, Promote, Promoted
  <2>6. QED
    BY <1>1, <2>4, <2>5, Numbers
<1>2. TypeOK /\ ForwardInv /\ [Next]_vars =>
        [baseline' < baseline =>
           \E j \in Jobs : MayPromote(j) /\ pc'[j] = "promoted" /\ base[j] < baseline]_vars
  BY <1>1
<1>3. QED
  BY <1>2, TypeCorrect, ForwardAlways, PTL DEF Spec, BackOnlyWhenOvertaken

-----------------------------------------------------------------------------
(* Plans only come. *)

(* No step takes a plan or a swept opportunity away. *)
LEMMA PlansStay ==
    ASSUME TypeOK, [Next]_vars
    PROVE  /\ \A s \in Sessions, o \in Opportunities :
                 plan[s][o] # "none" => plan'[s][o] # "none"
           /\ swept \subseteq swept'
<1> DEFINE Stays == /\ \A s \in Sessions, o \in Opportunities :
                           plan[s][o] # "none" => plan'[s][o] # "none"
                    /\ swept \subseteq swept'
<1> USE ConstantTypes
<1>1. ASSUME NEW s \in Sessions, Plan(s) PROVE Stays
  BY <1>1 DEF TypeOK, Plan, history
<1>2. ASSUME NEW s \in Sessions, NEW o \in Opportunities, Approve(s, o) PROVE Stays
  <2>1. Verdict(s, o) # "none"
    BY DEF Verdict
  <2>2. QED
    BY <1>2, <2>1 DEF TypeOK, Approve, history
<1>3. ASSUME NEW s \in Sessions, NEW o \in Opportunities, ExecuteClaim(s, o) PROVE Stays
  BY <1>3 DEF TypeOK, ExecuteClaim, history
<1>4. ASSUME NEW s \in Sessions, ExecuteEnds(s) PROVE Stays
  <2>1. PICK status \in {"opened", "failed"} : plan' = [plan EXCEPT ![s][at[s]] = status]
    BY <1>4 DEF ExecuteEnds
  <2>2. swept' = swept
    BY <1>4 DEF ExecuteEnds, history
  <2>3. QED
    BY <2>1, <2>2 DEF TypeOK
<1>5. ASSUME NEW s \in Sessions, NEW o \in Opportunities, PullRequestCloses(s, o)
      PROVE  Stays
  BY <1>5 DEF TypeOK, PullRequestCloses, history
<1>6. ASSUME NEW s \in Sessions, Stop(s) PROVE Stays
  <2>1. plan' = plan \/ plan' = PlanRaises(s)
    BY <1>6 DEF Stop, Crash, Retry, Fail, Cancel
  <2>2. swept' = swept
    BY <1>6 DEF Stop, Crash, Retry, Fail, Cancel, StopsAt, history
  <2>3. PlanRaises(s) = plan \/ PlanRaises(s) = [plan EXCEPT ![s][at[s]] = "failed"]
    BY DEF PlanRaises
  <2>4. plan \in [Sessions -> [Opportunities -> PlanStatus]]
    BY DEF TypeOK
  <2>5. QED
    BY <2>1, <2>2, <2>3, <2>4
<1>7. ASSUME NEW j \in Jobs, Promote(j) PROVE Stays
  BY <1>7 DEF Promote
<1>8. ASSUME UNCHANGED <<plan, swept>> PROVE Stays
  BY <1>8
<1>9. ASSUME Push \/ UNCHANGED vars PROVE Stays
  BY <1>9 DEF Push, vars, history
<1>10. ASSUME NEW s \in Sessions,
              \/ Start(s) \/ Clone(s) \/ Select(s) \/ ListPlans(s)
              \/ \E o \in Opportunities : ExecuteRefused(s, o)
       PROVE  Stays
  BY <1>10 DEF Start, Clone, Select, ListPlans, ExecuteRefused, history
<1>11. ASSUME NEW r \in Refreshes, RefreshClone(r) \/ RefreshStops(r) PROVE Stays
  BY <1>11 DEF RefreshClone, RefreshStops, history
<1>12. ASSUME NEW j \in Jobs, Complete(j) PROVE Stays
  BY <1>12 DEF Complete, history
<1>13. QED
  BY <1>1, <1>2, <1>3, <1>4, <1>5, <1>6, <1>7, <1>9, <1>10, <1>11, <1>12
     DEF Next, PlanStep, ExecuteStep

-----------------------------------------------------------------------------
(* Each session's own part of the state. *)

Mine(s) == <<pc[s], base[s], commit[s], todo[s], at[s], approved[s], errors[s],
             plan[s], runs[s], before[s], passed[s]>>

(* A worker touches nothing of another session. *)
LEMMA Frame ==
    ASSUME TypeOK, NEW s \in Sessions, PlanStep(s) \/ ExecuteStep(s) \/ Stop(s),
           NEW r \in Sessions \ {s}
    PROVE  UNCHANGED Mine(r)
<1> USE ConstantTypes
<1>1. CASE PlanStep(s)
  <2>1. CASE Start(s)
    BY <2>1 DEF TypeOK, Start, Mine
  <2>2. CASE Clone(s) \/ Select(s)
    BY <2>2 DEF TypeOK, Clone, Select, Mine, history
  <2>3. CASE Plan(s)
    BY <2>3 DEF TypeOK, Plan, Mine, history
  <2>4. ASSUME NEW o \in Opportunities, Approve(s, o) PROVE UNCHANGED Mine(r)
    BY <2>4 DEF TypeOK, Approve, Mine, history
  <2>5. QED
    BY <1>1, <2>1, <2>2, <2>3, <2>4 DEF PlanStep
<1>2. CASE ExecuteStep(s)
  <2>1. ASSUME NEW status, plan' = [plan EXCEPT ![s][at[s]] = status]
        PROVE  plan'[r] = plan[r]
    BY <2>1 DEF TypeOK
  <2>2. CASE ExecuteEnds(s)
    BY <2>1, <2>2 DEF TypeOK, ExecuteEnds, Mine, history
  <2>3. CASE ~ ExecuteEnds(s)
    BY <1>2, <2>3 DEF TypeOK, ExecuteStep, ListPlans, ExecuteRefused, ExecuteClaim,
       PullRequestCloses, Mine, locals, history
  <2>4. QED
    BY <2>2, <2>3
<1>3. CASE Stop(s)
  <2>1. plan'[r] = plan[r]
    <3>1. PlanRaises(s)[r] = plan[r]
      BY DEF TypeOK, PlanRaises
    <3>2. plan' = plan \/ plan' = PlanRaises(s)
      BY <1>3 DEF Stop, Crash, Retry, Fail, Cancel
    <3>3. QED
      BY <3>1, <3>2
  <2>2. \E status : StopsAt(s, status)
    BY <1>3 DEF Stop, Crash, Retry, Fail, Cancel
  <2>3. QED
    BY <2>1, <2>2 DEF TypeOK, StopsAt, Mine, history
<1>4. QED
  BY <1>1, <1>2, <1>3

(* Pushes and refreshes touch no session, and the end of a job only where  *)
(* it is.                                                                  *)
LEMMA FrameRest ==
    ASSUME TypeOK, NEW s \in Sessions
    PROVE  /\ Push => UNCHANGED Mine(s)
           /\ \A r \in Refreshes :
                RefreshClone(r) \/ RefreshStops(r) => UNCHANGED Mine(s)
           /\ \A j \in Jobs :
                (Promote(j) \/ Complete(j)) /\ s # j => UNCHANGED Mine(s)
           /\ UNCHANGED vars => UNCHANGED Mine(s)
<1> USE ConstantTypes
<1>1. Push => UNCHANGED Mine(s)
  BY DEF Push, Mine, locals, history
<1>2. ASSUME NEW r \in Refreshes, RefreshClone(r) \/ RefreshStops(r)
      PROVE  UNCHANGED Mine(s)
  BY <1>2 DEF TypeOK, RefreshClone, RefreshStops, Mine, locals, history
<1>3. ASSUME NEW j \in Jobs, Promote(j) \/ Complete(j), s # j
      PROVE  UNCHANGED Mine(s)
  BY <1>3 DEF TypeOK, Promote, Complete, Mine, locals, history
<1>4. UNCHANGED vars => UNCHANGED Mine(s)
  BY DEF vars, Mine, locals, history
<1>5. QED
  BY <1>1, <1>2, <1>3, <1>4

(* How a session comes to its baseline, its predecessors and its           *)
(* selection.                                                              *)
LEMMA RunnerShape ==
    ASSUME TypeOK, [Next]_vars, NEW s \in Sessions
    PROVE  /\ \/ Start(s)
              \/ /\ UNCHANGED <<base[s], before[s]>>
                 /\ pc'[s] \in Working => pc[s] \in Working
           /\ \/ Select(s)
              \/ pc'[s] = "selected" => pc[s] = "selected" /\ todo'[s] = todo[s]
           /\ \/ Clone(s)
              \/ UNCHANGED commit[s]
<1> DEFINE Shape == /\ \/ Start(s)
                       \/ /\ UNCHANGED <<base[s], before[s]>>
                          /\ pc'[s] \in Working => pc[s] \in Working
                    /\ \/ Select(s)
                       \/ pc'[s] = "selected" => pc[s] = "selected" /\ todo'[s] = todo[s]
                    /\ \/ Clone(s)
                       \/ UNCHANGED commit[s]
<1> USE ConstantTypes
<1>1. CASE UNCHANGED Mine(s)
  BY <1>1 DEF Mine
<1>2. CASE Start(s) \/ Clone(s) \/ Select(s)
  BY <1>2 DEF TypeOK, Start, Clone, Select, Working, history
<1>3. CASE Plan(s)
  BY <1>3 DEF TypeOK, Plan, Working, history
<1>4. ASSUME NEW o \in Opportunities,
             \/ Approve(s, o) \/ ExecuteRefused(s, o)
             \/ ExecuteClaim(s, o) \/ PullRequestCloses(s, o)
      PROVE  Shape
  BY <1>4 DEF TypeOK, Approve, ExecuteRefused, ExecuteClaim, PullRequestCloses, Working,
     locals, history
<1>5. CASE ListPlans(s) \/ ExecuteEnds(s)
  BY <1>5 DEF TypeOK, ListPlans, ExecuteEnds, Working, history
<1>6. CASE Stop(s)
  <2>1. \E status \in {"queued", "failed", "canceled"} : StopsAt(s, status)
    BY <1>6 DEF Stop, Crash, Retry, Fail, Cancel
  <2>2. QED
    BY <2>1 DEF TypeOK, StopsAt, Working, history
<1>7. CASE Promote(s) \/ Complete(s)
  BY <1>7 DEF TypeOK, Promote, MayPromote, Complete, Working, locals, history
<1>8. QED
  BY <1>1, <1>2, <1>3, <1>4, <1>5, <1>6, <1>7, Frame, FrameRest
     DEF Next, PlanStep, ExecuteStep

-----------------------------------------------------------------------------
(* Nothing slips under the baseline. *)

Covered(o, w) == Planned(o, w) \/ <<o, w>> \in swept

(* What is under the baseline a job has read is planned or swept, what is  *)
(* between it and the commit the job compares with is selected and then    *)
(* planned.                                                                *)
SlipInv ==
    /\ NothingSlips
    /\ \A j \in Jobs, o \in Opportunities :
         \A w \in Worse[o] : w <= base[j] => Covered(o, w)
    /\ \A s \in Sessions : \A o \in Drift(base[s], commit[s]) :
         /\ pc[s] = "selected" => o \in todo[s]
         /\ pc[s] \in {"planned", "executing", "authoring"} => plan[s][o] # "none"

LEMMA SlipInit == Init => SlipInv
<1> SUFFICES ASSUME Init PROVE SlipInv
  OBVIOUS
<1> USE ConstantTypes
<1>1. \A j \in Jobs, o \in Opportunities : \A w \in Worse[o] : ~ w <= base[j]
  BY DEF Init
<1>2. \A s \in Sessions : pc[s] = "queued"
  BY DEF Init
<1>3. NothingSlips
  <2>1. ASSUME NEW o \in Opportunities, NEW w \in Worse[o], w <= baseline
        PROVE  <<o, w>> \in swept
    <3>1. baseline \in Nat /\ 0 < w
      BY DEF Init
    <3>2. QED
      BY <2>1, <3>1, WorseBetween DEF Init
  <2>2. QED
    BY <2>1 DEF NothingSlips
<1>4. QED
  BY <1>1, <1>2, <1>3 DEF SlipInv

(* The commit a session has cloned never goes back. *)
LEMMA CommitGrows ==
    ASSUME TypeOK, ForwardInv, [Next]_vars, NEW s \in Sessions
    PROVE  commit[s] <= commit'[s] /\ commit'[s] \in Nat
<1> USE ConstantTypes, Numbers
<1>1. CASE Clone(s)
  BY <1>1 DEF Clone, ForwardInv, TypeOK
<1>2. CASE ~ Clone(s)
  BY <1>2, RunnerShape
<1>3. QED
  BY <1>1, <1>2

LEMMA CoveredStays ==
    ASSUME TypeOK, ForwardInv, [Next]_vars,
           NEW o \in Opportunities, NEW w \in Worse[o], Covered(o, w)
    PROVE  Covered(o, w)'
<1>1. CASE <<o, w>> \in swept
  BY <1>1, PlansStay DEF Covered
<1>2. CASE Planned(o, w)
  <2>1. PICK s \in Sessions : plan[s][o] # "none" /\ w <= commit[s]
    BY <1>2 DEF Planned
  <2>2. w <= commit'[s]
    BY <2>1, CommitGrows, Numbers, ConstantTypes
  <2>3. QED
    BY <2>1, <2>2, PlansStay DEF Covered, Planned
<1>3. QED
  BY <1>1, <1>2 DEF Covered

(* A step that leaves the baseline and the baselines the jobs have read    *)
(* alone keeps what is under them covered.                                 *)
LEMMA CoverStays ==
    ASSUME TypeOK, ForwardInv, [Next]_vars, SlipInv, UNCHANGED baseline,
           \A j \in Jobs : base'[j] = base[j] \/ base'[j] = baseline
    PROVE  /\ NothingSlips'
           /\ \A j \in Jobs, o \in Opportunities :
                \A w \in Worse[o] : w <= base'[j] => Covered(o, w)'
<1>1. \A o \in Opportunities : \A w \in Worse[o] : w <= baseline => Covered(o, w)'
  BY CoveredStays DEF SlipInv, NothingSlips, Covered
<1>2. NothingSlips'
  BY <1>1 DEF NothingSlips, Covered
<1>3. \A j \in Jobs, o \in Opportunities :
        \A w \in Worse[o] : w <= base[j] => Covered(o, w)'
  BY CoveredStays DEF SlipInv
<1>4. QED
  BY <1>1, <1>2, <1>3

LEMMA SlipPromote ==
    ASSUME TypeOK, ForwardInv, SlipInv, NEW j \in Jobs, Promote(j)
    PROVE  SlipInv'
<1>1. [Next]_vars
  BY DEF Next
<1>2. baseline' = commit[j] /\ base' = base /\ commit' = commit /\ todo' = todo
      /\ plan' = plan /\ pc' = [pc EXCEPT ![j] = "promoted"]
  BY DEF Promote, Promoted, locals
<1>3. \A i \in Jobs, o \in Opportunities :
        \A w \in Worse[o] : w <= base[i] => Covered(o, w)'
  BY <1>1, CoveredStays DEF SlipInv
<1>4. ASSUME NEW o \in Opportunities, NEW w \in Worse[o], w <= commit[j]
      PROVE  Covered(o, w)'
  <2>1. CASE pc[j] = "cloned"
    <3>1. CASE w <= baseline
      BY <1>1, <3>1, CoveredStays DEF SlipInv, NothingSlips, Covered
    <3>2. CASE w > baseline
      <4>1. <<o, w>> \in Changes(baseline, commit[j])
        BY <1>4, <3>2, Numbers, WorseBetween
      <4>2. QED
        BY <2>1, <4>1 DEF Promote, Covered
    <3>3. QED
      BY <3>1, <3>2, Numbers
  <2>2. CASE j \in Sessions /\ pc[j] = "executing"
    <3>1. CASE w <= base[j]
      BY <1>3, <3>1
    <3>2. CASE w > base[j]
      <4>1. o \in Drift(base[j], commit[j])
        BY <1>4, <3>2, Numbers, WorseBetween
      <4>2. plan[j][o] # "none"
        BY <2>2, <4>1 DEF SlipInv
      <4>3. QED
        BY <1>2, <1>4, <2>2, <4>2 DEF Covered, Planned
    <3>3. QED
      BY <3>1, <3>2, Numbers
  <2>3. QED
    BY <2>1, <2>2 DEF Promote, MayPromote
<1>5. NothingSlips'
  BY <1>2, <1>4 DEF NothingSlips, Covered
<1>6. \A s \in Sessions : pc'[s] = pc[s] \/ pc'[s] = "promoted"
  BY <1>2, ConstantTypes DEF TypeOK
<1>7. QED
  BY <1>2, <1>3, <1>5, <1>6 DEF SlipInv, Drift

LEMMA SlipStep ==
    ASSUME TypeOK, ForwardInv, SlipInv, [Next]_vars
    PROVE  SlipInv'
<1> DEFINE Compared(s) ==
      \A o \in Drift(base[s], commit[s]) :
         /\ pc[s] = "selected" => o \in todo[s]
         /\ pc[s] \in {"planned", "executing", "authoring"} => plan[s][o] # "none"
<1> USE ConstantTypes
<1>c. ASSUME UNCHANGED baseline,
             \A j \in Jobs : base'[j] = base[j] \/ base'[j] = baseline,
             \A s \in Sessions : Compared(s)'
      PROVE  SlipInv'
  BY <1>c, CoverStays DEF SlipInv
<1>k. ASSUME NEW s \in Sessions, UNCHANGED <<base[s], commit[s], todo[s], pc[s]>>
      PROVE  Compared(s)'
  <2>1. Compared(s)
    BY DEF SlipInv
  <2>2. QED
    BY <1>k, <2>1, PlansStay DEF Drift
<1>1. CASE Push \/ UNCHANGED vars
  BY <1>1, <1>c, <1>k DEF Push, vars, locals
<1>2. ASSUME NEW s \in Sessions, PlanStep(s) PROVE SlipInv'
  <2>1. UNCHANGED baseline /\ \A j \in Jobs : base'[j] = base[j] \/ base'[j] = baseline
    BY <1>2 DEF TypeOK, PlanStep, Start, Clone, Select, Plan, Approve
  <2>2. \A r \in Sessions \ {s} : UNCHANGED <<base[r], commit[r], todo[r], pc[r]>>
    BY <1>2 DEF TypeOK, PlanStep, Start, Clone, Select, Plan, Approve
  <2>3. Compared(s)'
    <3>1. CASE Start(s) \/ Clone(s)
      <4>1. pc'[s] \in {"started", "cloned"}
        BY <3>1 DEF TypeOK, Start, Clone
      <4>2. QED
        BY <4>1
    <3>2. CASE Select(s)
      <4>1. pc'[s] = "selected" /\ todo'[s] = Relevant(s) /\ UNCHANGED <<base, commit>>
        BY <3>2 DEF TypeOK, Select
      <4>2. \A o \in Drift(base[s], commit[s]) : o \in Relevant(s)
        BY DEF Relevant
      <4>3. QED
        BY <4>1, <4>2 DEF Drift
    <3>3. CASE Plan(s)
      <4>1. pc[s] = "selected" /\ pc'[s] = "planned" /\ UNCHANGED <<base, commit>>
        BY <3>3 DEF TypeOK, Plan
      <4>2. \A o \in todo[s] : plan'[s][o] # "none"
        BY <3>3 DEF TypeOK, Plan
      <4>3. QED
        BY <4>1, <4>2 DEF SlipInv, Drift
    <3>4. ASSUME NEW o \in Opportunities, Approve(s, o) PROVE Compared(s)'
      <4>1. pc[s] = "planned" /\ UNCHANGED <<base, commit, pc>>
        BY <3>4 DEF Approve
      <4>2. QED
        BY <4>1, PlansStay DEF SlipInv, Drift
    <3>5. QED
      BY <1>2, <3>1, <3>2, <3>3, <3>4 DEF PlanStep
  <2>4. QED
    BY <1>c, <1>k, <2>1, <2>2, <2>3
<1>3. ASSUME NEW s \in Sessions, ExecuteStep(s) PROVE SlipInv'
  <2>1. UNCHANGED <<baseline, base, commit>>
    BY <1>3 DEF ExecuteStep, ListPlans, ExecuteRefused, ExecuteClaim, ExecuteEnds,
       PullRequestCloses, locals
  <2>2. \A r \in Sessions \ {s} : UNCHANGED <<todo[r], pc[r]>>
    BY <1>3 DEF TypeOK, ExecuteStep, ListPlans, ExecuteRefused, ExecuteClaim,
       ExecuteEnds, PullRequestCloses, locals
  <2>3. CASE \E o \in Opportunities : PullRequestCloses(s, o)
    BY <1>c, <1>k, <2>1, <2>2, <2>3 DEF PullRequestCloses, locals
  <2>4. CASE ~ \E o \in Opportunities : PullRequestCloses(s, o)
    <3>1. pc[s] \in {"planned", "executing", "authoring"}
          /\ pc'[s] \in {"executing", "authoring"}
      BY <1>3, <2>4 DEF TypeOK, ExecuteStep, ListPlans, ExecuteRefused, ExecuteClaim,
         ExecuteEnds
    <3>2. Compared(s)'
      BY <2>1, <3>1, PlansStay DEF SlipInv, Drift
    <3>3. QED
      BY <1>c, <1>k, <2>1, <2>2, <3>2
  <2>5. QED
    BY <2>3, <2>4
<1>4. ASSUME NEW s \in Sessions, Stop(s) PROVE SlipInv'
  <2>1. UNCHANGED <<baseline, base, commit, todo>>
        /\ \E status \in {"queued", "failed", "canceled"} : pc' = [pc EXCEPT ![s] = status]
    BY <1>4 DEF Stop, Crash, Retry, Fail, Cancel, StopsAt
  <2>2. Compared(s)' /\ \A r \in Sessions \ {s} : UNCHANGED pc[r]
    BY <2>1 DEF TypeOK
  <2>3. QED
    BY <1>c, <1>k, <2>1, <2>2
<1>5. ASSUME NEW r \in Refreshes, RefreshClone(r) \/ RefreshStops(r) PROVE SlipInv'
  <2>1. UNCHANGED baseline /\ \A j \in Jobs : base'[j] = base[j] \/ base'[j] = baseline
    BY <1>5 DEF TypeOK, RefreshClone, RefreshStops, locals
  <2>2. \A s \in Sessions : UNCHANGED <<base[s], commit[s], todo[s], pc[s]>>
    BY <1>5 DEF TypeOK, RefreshClone, RefreshStops, locals
  <2>3. QED
    BY <1>c, <1>k, <2>1, <2>2
<1>6. ASSUME NEW j \in Jobs, Promote(j) PROVE SlipInv'
  BY <1>6, SlipPromote
<1>7. ASSUME NEW j \in Jobs, Complete(j) PROVE SlipInv'
  <2>1. UNCHANGED <<baseline, base, commit, todo>> /\ pc' = [pc EXCEPT ![j] = "completed"]
    BY <1>7 DEF Complete, locals
  <2>2. \A s \in Sessions : s = j => Compared(s)'
    BY <2>1 DEF TypeOK
  <2>3. \A s \in Sessions : s # j => UNCHANGED pc[s]
    BY <2>1 DEF TypeOK
  <2>4. QED
    BY <1>c, <1>k, <2>1, <2>2, <2>3
<1>8. QED
  BY <1>1, <1>2, <1>3, <1>4, <1>5, <1>6, <1>7 DEF Next

(* What a later session no longer sees as drift has been planned, or a job *)
(* without planning promoted over it.                                      *)
THEOREM NoSlip == Spec => []NothingSlips
<1>1. SlipInv => NothingSlips
  BY DEF SlipInv
<1>2. QED
  BY <1>1, SlipInit, SlipStep, TypeCorrect, ForwardAlways, PTL DEF Spec

-----------------------------------------------------------------------------
(* What a run has still to handle are plans it may handle, and it executes *)
(* a running plan of its own.                                              *)
WorkInv(s) ==
    /\ pc[s] = "planned" => \A o \in todo[s] : plan[s][o] # "none"
    /\ pc[s] \in {"executing", "authoring"} =>
          \A o \in todo[s] : plan[s][o] \in Approved
    /\ pc[s] = "authoring" => at[s] \in Opportunities /\ plan[s][at[s]] = "running"

(* The executor's last word on a plan. *)
LEMMA EndsShape ==
    ASSUME TypeOK, NEW s \in Sessions, WorkInv(s),
           NEW status \in {"opened", "failed"}, pc[s] = "authoring",
           plan' = [plan EXCEPT ![s][at[s]] = status]
    PROVE  /\ at[s] \in Opportunities
           /\ plan[s][at[s]] = "running"
           /\ plan'[s][at[s]] = status
           /\ \A o \in Opportunities : o # at[s] => plan'[s][o] = plan[s][o]
<1>1. at[s] \in Opportunities /\ plan[s][at[s]] = "running"
  BY DEF WorkInv
<1>2. QED
  BY <1>1 DEF TypeOK

LEMMA WorkOwn ==
    ASSUME TypeOK, NEW s \in Sessions, WorkInv(s),
           PlanStep(s) \/ ExecuteStep(s) \/ Stop(s)
    PROVE  WorkInv(s)'
<1> USE ConstantTypes
<1>1. CASE Start(s) \/ Clone(s)
  BY <1>1 DEF TypeOK, Start, Clone, WorkInv
<1>2. CASE Select(s)
  BY <1>2 DEF TypeOK, Select, WorkInv
<1>3. CASE Plan(s)
  <2>1. pc'[s] = "planned" /\ todo'[s] = {o \in todo[s] : plan[s][o] = "none"}
    BY <1>3 DEF TypeOK, Plan
  <2>2. \A o \in todo'[s] : plan'[s][o] # "none"
    BY <1>3 DEF TypeOK, Plan
  <2>3. QED
    BY <2>1, <2>2 DEF WorkInv
<1>4. ASSUME NEW o \in Opportunities, Approve(s, o) PROVE WorkInv(s)'
  <2>1. Verdict(s, o) # "none"
    BY DEF Verdict
  <2>2. pc'[s] = "planned" /\ pc[s] = "planned" /\ todo'[s] = todo[s] \ {o}
    BY <1>4 DEF TypeOK, Approve
  <2>3. \A p \in todo[s] : plan'[s][p] # "none"
    BY <1>4, <2>1 DEF TypeOK, Approve, WorkInv
  <2>4. QED
    BY <2>2, <2>3 DEF WorkInv
<1>5. CASE ListPlans(s)
  <2>1. todo'[s] \subseteq Executable(s) \cup LeftRunning(s)
    BY <1>5 DEF TypeOK, ListPlans
  <2>2. pc'[s] = "executing" /\ plan' = plan
    BY <1>5 DEF TypeOK, ListPlans
  <2>3. QED
    BY <2>1, <2>2 DEF WorkInv, Executable, LeftRunning, Approved
<1>6. ASSUME NEW o \in Opportunities, ExecuteClaim(s, o) PROVE WorkInv(s)'
  BY <1>6 DEF TypeOK, ExecuteClaim, WorkInv, Approved
<1>r. ASSUME NEW o \in Opportunities, ExecuteRefused(s, o) PROVE WorkInv(s)'
  BY <1>r DEF TypeOK, ExecuteRefused, WorkInv
<1>7. CASE ExecuteEnds(s)
  <2>1. PICK status \in {"opened", "failed"} : plan' = [plan EXCEPT ![s][at[s]] = status]
    BY <1>7 DEF ExecuteEnds
  <2>2. pc[s] = "authoring" /\ pc'[s] = "executing" /\ todo' = todo
    BY <1>7 DEF TypeOK, ExecuteEnds
  <2>3. \A o \in todo[s] : plan'[s][o] \in Approved
    BY <2>1, <2>2, EndsShape DEF TypeOK, WorkInv, Approved
  <2>4. QED
    BY <2>2, <2>3 DEF WorkInv
<1>8. ASSUME NEW o \in Opportunities, PullRequestCloses(s, o) PROVE WorkInv(s)'
  <2>1. /\ plan'[s][o] = "closed" /\ plan[s][o] = "opened"
        /\ \A p \in Opportunities : p # o => plan'[s][p] = plan[s][p]
    BY <1>8 DEF TypeOK, PullRequestCloses
  <2>2. UNCHANGED <<pc, todo, at, commit>>
    BY <1>8 DEF PullRequestCloses, locals
  <2>3. QED
    BY <2>1, <2>2 DEF TypeOK, WorkInv, Approved
<1>9. CASE Stop(s)
  <2>1. pc'[s] \in {"queued", "failed", "canceled"}
    BY <1>9 DEF TypeOK, Stop, Crash, Retry, Fail, Cancel, StopsAt
  <2>2. QED
    BY <2>1 DEF WorkInv
<1>10. QED
  BY <1>1, <1>2, <1>3, <1>4, <1>5, <1>6, <1>r, <1>7, <1>8, <1>9 DEF PlanStep, ExecuteStep

LEMMA WorkSame ==
    ASSUME NEW s \in Sessions, WorkInv(s), UNCHANGED Mine(s)
    PROVE  WorkInv(s)'
BY DEF WorkInv, Mine

LEMMA WorkStep ==
    ASSUME TypeOK, [Next]_vars, NEW s \in Sessions, WorkInv(s)
    PROVE  WorkInv(s)'
<1>1. ASSUME Promote(s) \/ Complete(s) PROVE WorkInv(s)'
  <2>1. pc'[s] \in {"promoted", "completed"}
    BY <1>1, ConstantTypes DEF TypeOK, Promote, Complete
  <2>2. QED
    BY <2>1 DEF WorkInv
<1>2. CASE PlanStep(s) \/ ExecuteStep(s) \/ Stop(s)
  BY <1>2, WorkOwn
<1>3. CASE \E r \in Sessions \ {s} : PlanStep(r) \/ ExecuteStep(r) \/ Stop(r)
  BY <1>3, Frame, WorkSame
<1>4. QED
  BY <1>1, <1>2, <1>3, FrameRest, WorkSame DEF Next

LEMMA WorkAlways == Spec => [](\A s \in Sessions : WorkInv(s))
<1>1. Init => \A s \in Sessions : WorkInv(s)
  BY ConstantTypes DEF Init, WorkInv
<1>2. TypeOK /\ (\A s \in Sessions : WorkInv(s)) /\ [Next]_vars =>
        (\A s \in Sessions : WorkInv(s))'
  BY WorkStep
<1>3. QED
  BY <1>1, <1>2, TypeCorrect, PTL DEF Spec

-----------------------------------------------------------------------------
(* The first run of a session decides on every plan it finds. *)

(* Where the plans of a session are, stage by stage, until it is cut short *)
(* for the first time.                                                     *)
FirstRunInv(s) ==
    /\ runs[s] = 0 => /\ pc[s] = "queued"
                      /\ \A o \in Opportunities : plan[s][o] = "none"
    /\ runs[s] = 1 =>
         /\ pc[s] \in {"started", "cloned", "selected"} =>
               \A o \in Opportunities : plan[s][o] = "none"
         /\ pc[s] = "planned" =>
               \A o \in Opportunities :
                  /\ plan[s][o] # "running"
                  /\ plan[s][o] = "pending" => o \in todo[s]
         /\ pc[s] \in {"executing", "authoring"} =>
               \A o \in Opportunities :
                  /\ plan[s][o] # "pending"
                  /\ plan[s][o] = "running" => pc[s] = "authoring" /\ o = at[s]
         /\ pc[s] \in {"promoted", "completed"} =>
               \A o \in Opportunities : plan[s][o] \notin {"pending", "running"}

LEMMA FirstRunOwn ==
    ASSUME TypeOK, NEW s \in Sessions, WorkInv(s), FirstRunInv(s),
           PlanStep(s) \/ ExecuteStep(s) \/ Stop(s)
    PROVE  FirstRunInv(s)'
<1> USE ConstantTypes
<1>0. runs[s] \in Nat
  BY DEF TypeOK
<1>1. CASE Start(s)
  <2>1. pc'[s] = "started" /\ runs'[s] = runs[s] + 1 /\ plan' = plan
    BY <1>1 DEF TypeOK, Start
  <2>2. QED
    BY <1>0, <2>1 DEF FirstRunInv
<1>2. CASE Clone(s) \/ Select(s)
  <2>1. /\ pc[s] \in {"started", "cloned"} /\ pc'[s] \in {"cloned", "selected"}
        /\ UNCHANGED <<runs, plan>>
    BY <1>2 DEF TypeOK, Clone, Select, history
  <2>2. QED
    BY <2>1 DEF FirstRunInv
<1>3. CASE Plan(s)
  <2>1. pc[s] = "selected" /\ pc'[s] = "planned" /\ runs' = runs
    BY <1>3 DEF TypeOK, Plan, history
  <2>2. \A o \in Opportunities :
          plan[s][o] = "none" =>
             /\ plan'[s][o] # "running"
             /\ plan'[s][o] = "pending" => o \in todo'[s]
    BY <1>3 DEF TypeOK, Plan
  <2>3. QED
    BY <2>1, <2>2 DEF FirstRunInv
<1>4. ASSUME NEW o \in Opportunities, Approve(s, o) PROVE FirstRunInv(s)'
  <2>1. Verdict(s, o) \in {"blocked", "skipped", "approved"}
    BY DEF Verdict
  <2>2. pc[s] = "planned" /\ UNCHANGED <<pc, runs>> /\ todo'[s] = todo[s] \ {o}
    BY <1>4 DEF TypeOK, Approve, history
  <2>3. /\ plan'[s][o] = Verdict(s, o)
        /\ \A p \in Opportunities : p # o => plan'[s][p] = plan[s][p]
    BY <1>4 DEF TypeOK, Approve
  <2>4. QED
    BY <2>1, <2>2, <2>3 DEF FirstRunInv
<1>5. CASE ListPlans(s)
  <2>1. /\ pc[s] = "planned" /\ todo[s] = {} /\ UNCHANGED <<plan, runs>>
        /\ pc'[s] = "executing"
    BY <1>5 DEF TypeOK, ListPlans
  <2>2. QED
    BY <2>1 DEF FirstRunInv
<1>6. ASSUME NEW o \in Opportunities, ExecuteClaim(s, o) PROVE FirstRunInv(s)'
  <2>1. /\ pc[s] = "executing" /\ pc'[s] = "authoring" /\ runs' = runs
        /\ todo'[s] = todo[s] \ {o} /\ at'[s] = o
    BY <1>6 DEF TypeOK, ExecuteClaim, history
  <2>2. /\ plan'[s][o] = "running"
        /\ \A p \in Opportunities : p # o => plan'[s][p] = plan[s][p]
    BY <1>6 DEF TypeOK, ExecuteClaim
  <2>3. QED
    BY <2>1, <2>2 DEF FirstRunInv
<1>r. ASSUME NEW o \in Opportunities, ExecuteRefused(s, o) PROVE FirstRunInv(s)'
  BY <1>r DEF ExecuteRefused, FirstRunInv, history
<1>7. CASE ExecuteEnds(s)
  <2>1. PICK status \in {"opened", "failed"} : plan' = [plan EXCEPT ![s][at[s]] = status]
    BY <1>7 DEF ExecuteEnds
  <2>2. pc[s] = "authoring" /\ pc'[s] = "executing" /\ UNCHANGED <<runs, todo>>
    BY <1>7 DEF TypeOK, ExecuteEnds, history
  <2>3. /\ plan'[s][at[s]] = status
        /\ \A o \in Opportunities : o # at[s] => plan'[s][o] = plan[s][o]
    BY <2>1, <2>2, EndsShape
  <2>4. \A o \in Opportunities :
          (plan'[s][o] = plan[s][o] /\ o # at[s]) \/ plan'[s][o] \in {"opened", "failed"}
    BY <2>3
  <2>5. QED
    BY <2>2, <2>4 DEF FirstRunInv
<1>8. ASSUME NEW o \in Opportunities, PullRequestCloses(s, o) PROVE FirstRunInv(s)'
  <2>1. /\ plan'[s][o] = "closed" /\ plan[s][o] = "opened"
        /\ \A p \in Opportunities : p # o => plan'[s][p] = plan[s][p]
    BY <1>8 DEF TypeOK, PullRequestCloses
  <2>2. UNCHANGED <<pc, todo, at, runs>>
    BY <1>8 DEF PullRequestCloses, locals, history
  <2>3. QED
    BY <2>1, <2>2 DEF FirstRunInv
<1>9. CASE Stop(s)
  <2>1. /\ pc[s] \in Working /\ pc'[s] \in {"queued", "failed", "canceled"}
        /\ runs' = runs
    BY <1>9 DEF TypeOK, Stop, Crash, Retry, Fail, Cancel, StopsAt, history
  <2>2. runs[s] # 0
    BY <2>1 DEF FirstRunInv, Working
  <2>3. QED
    BY <2>1, <2>2 DEF FirstRunInv
<1>10. QED
  BY <1>1, <1>2, <1>3, <1>4, <1>5, <1>6, <1>r, <1>7, <1>8, <1>9 DEF PlanStep, ExecuteStep

LEMMA FirstRunSame ==
    ASSUME NEW s \in Sessions, FirstRunInv(s), UNCHANGED Mine(s)
    PROVE  FirstRunInv(s)'
BY DEF FirstRunInv, Mine

LEMMA FirstRunStep ==
    ASSUME TypeOK, [Next]_vars, NEW s \in Sessions, WorkInv(s), FirstRunInv(s)
    PROVE  FirstRunInv(s)'
<1>1. ASSUME Promote(s) PROVE FirstRunInv(s)'
  <2>1. /\ pc'[s] = "promoted" /\ UNCHANGED <<plan, runs>>
        /\ pc[s] = "cloned" \/ (pc[s] = "executing" /\ todo[s] = {})
    BY <1>1, ConstantTypes DEF TypeOK, Promote, MayPromote
  <2>2. QED
    BY <2>1 DEF FirstRunInv
<1>2. ASSUME Complete(s) PROVE FirstRunInv(s)'
  <2>1. pc[s] = "promoted" /\ pc'[s] = "completed" /\ UNCHANGED <<plan, runs>>
    BY <1>2, ConstantTypes DEF TypeOK, Complete, history
  <2>2. QED
    BY <2>1 DEF FirstRunInv
<1>3. CASE PlanStep(s) \/ ExecuteStep(s) \/ Stop(s)
  BY <1>3, FirstRunOwn
<1>4. CASE \E r \in Sessions \ {s} : PlanStep(r) \/ ExecuteStep(r) \/ Stop(r)
  BY <1>4, Frame, FirstRunSame
<1>5. QED
  BY <1>1, <1>2, <1>3, <1>4, FrameRest, FirstRunSame DEF Next

LEMMA FirstRunAlways == Spec => [](\A s \in Sessions : FirstRunInv(s))
<1>1. Init => \A s \in Sessions : FirstRunInv(s)
  BY ConstantTypes DEF Init, FirstRunInv
<1>2. TypeOK /\ (\A s \in Sessions : WorkInv(s)) /\ (\A s \in Sessions : FirstRunInv(s))
      /\ [Next]_vars => (\A s \in Sessions : FirstRunInv(s))'
  BY FirstRunStep
<1>3. QED
  BY <1>1, <1>2, TypeCorrect, WorkAlways, PTL DEF Spec

-----------------------------------------------------------------------------
(* The cap. *)

ApprovedPlans(s) == {o \in Opportunities : plan[s][o] \in Approved}

(* A run that has approved k plans has Cap - k left of the Cap * runs[s]   *)
(* that all runs of the session may approve.                               *)
CapInv(s) ==
    LET n == Cardinality(ApprovedPlans(s)) IN
    /\ n <= Cap * runs[s]
    /\ pc[s] \in {"started", "cloned", "selected"} => n + Cap <= Cap * runs[s]
    /\ pc[s] = "planned" => /\ approved[s] <= Cap
                            /\ n + Cap <= Cap * runs[s] + approved[s]

LEMMA CountType ==
    ASSUME NEW s
    PROVE  IsFiniteSet(ApprovedPlans(s)) /\ Cardinality(ApprovedPlans(s)) \in Nat
<1>1. ApprovedPlans(s) \subseteq Opportunities
  BY DEF ApprovedPlans
<1>2. QED
  BY <1>1, ConstantAssumption, FS_Subset, FS_CardinalityType

(* A step that approves nothing keeps the count. *)
LEMMA CountKept ==
    ASSUME NEW s \in Sessions, ApprovedPlans(s)' \subseteq ApprovedPlans(s)
    PROVE  /\ Cardinality(ApprovedPlans(s)') \in Nat
           /\ Cardinality(ApprovedPlans(s)') <= Cardinality(ApprovedPlans(s))
<1>1. /\ IsFiniteSet(ApprovedPlans(s)')
      /\ Cardinality(ApprovedPlans(s)') <= Cardinality(ApprovedPlans(s))
  BY CountType, FS_Subset
<1>2. QED
  BY <1>1, FS_CardinalityType

(* Only the approval loop adds to the approved plans of a session. *)
LEMMA ApprovesOnly ==
    ASSUME TypeOK, NEW s \in Sessions, WorkInv(s),
           PlanStep(s) \/ ExecuteStep(s) \/ Stop(s),
           \A o \in Opportunities : ~ Approve(s, o)
    PROVE  ApprovedPlans(s)' \subseteq ApprovedPlans(s)
<1>1. CASE \/ Start(s) \/ Clone(s) \/ Select(s) \/ ListPlans(s)
           \/ \E o \in Opportunities : ExecuteRefused(s, o)
  BY <1>1 DEF Start, Clone, Select, ListPlans, ExecuteRefused, ApprovedPlans
<1>2. CASE Plan(s)
  <2>1. \A o \in Opportunities :
          plan'[s][o] = plan[s][o] \/ plan'[s][o] \in {"pending", "blocked"}
    BY <1>2 DEF TypeOK, Plan
  <2>2. QED
    BY <2>1 DEF ApprovedPlans, Approved
<1>3. ASSUME NEW o \in Opportunities, ExecuteClaim(s, o)
      PROVE  ApprovedPlans(s)' \subseteq ApprovedPlans(s)
  <2>1. plan[s][o] \in Approved
    BY <1>3 DEF WorkInv, ExecuteClaim
  <2>2. \A p \in Opportunities : p # o => plan'[s][p] = plan[s][p]
    BY <1>3 DEF TypeOK, ExecuteClaim
  <2>3. QED
    BY <2>1, <2>2 DEF ApprovedPlans
<1>4. CASE ExecuteEnds(s)
  <2>1. PICK status \in {"opened", "failed"} : plan' = [plan EXCEPT ![s][at[s]] = status]
    BY <1>4 DEF ExecuteEnds
  <2>2. /\ plan[s][at[s]] = "running"
        /\ \A o \in Opportunities : o # at[s] => plan'[s][o] = plan[s][o]
    BY <1>4, <2>1, EndsShape DEF ExecuteEnds
  <2>3. QED
    BY <2>2 DEF ApprovedPlans, Approved
<1>5. ASSUME NEW o \in Opportunities, PullRequestCloses(s, o)
      PROVE  ApprovedPlans(s)' \subseteq ApprovedPlans(s)
  <2>1. /\ plan[s][o] = "opened"
        /\ \A p \in Opportunities : p # o => plan'[s][p] = plan[s][p]
    BY <1>5 DEF TypeOK, PullRequestCloses
  <2>2. QED
    BY <2>1 DEF ApprovedPlans, Approved
<1>6. CASE Stop(s)
  <2>1. plan' = plan \/ plan' = PlanRaises(s)
    BY <1>6 DEF Stop, Crash, Retry, Fail, Cancel
  <2>2. CASE plan' = PlanRaises(s) /\ pc[s] = "authoring"
    <3>1. plan' = [plan EXCEPT ![s][at[s]] = "failed"]
      BY <2>2 DEF PlanRaises
    <3>2. /\ plan[s][at[s]] = "running"
          /\ \A o \in Opportunities : o # at[s] => plan'[s][o] = plan[s][o]
      BY <2>2, <3>1, EndsShape
    <3>3. QED
      BY <3>2 DEF ApprovedPlans, Approved
  <2>3. CASE plan' = plan
    BY <2>3 DEF ApprovedPlans
  <2>4. QED
    BY <2>1, <2>2, <2>3 DEF PlanRaises
<1>7. QED
  BY <1>1, <1>2, <1>3, <1>4, <1>5, <1>6 DEF PlanStep, ExecuteStep

LEMMA Budget ==
    ASSUME NEW c \in Nat, NEW k \in Nat
    PROVE  c * k \in Nat /\ c * (k + 1) = c * k + c
OBVIOUS

LEMMA CapOwn ==
    ASSUME TypeOK, NEW s \in Sessions, WorkInv(s), CapInv(s),
           PlanStep(s) \/ ExecuteStep(s) \/ Stop(s)
    PROVE  CapInv(s)'
<1> DEFINE n == Cardinality(ApprovedPlans(s))
           m == Cardinality(ApprovedPlans(s)')
           all == Cap * runs[s]
<1> USE ConstantTypes
<1>0. /\ n \in Nat /\ runs[s] \in Nat /\ approved[s] \in Nat /\ Cap \in Nat
      /\ all \in Nat
  BY CountType, Budget DEF TypeOK
<1>1. ASSUME NEW o \in Opportunities, Approve(s, o) PROVE CapInv(s)'
  <2>1. /\ pc[s] = "planned" /\ UNCHANGED <<pc, runs>>
        /\ approved' = IF Verdict(s, o) = "approved"
                       THEN [approved EXCEPT ![s] = approved[s] + 1] ELSE approved
        /\ plan'[s][o] = Verdict(s, o)
        /\ \A p \in Opportunities : p # o => plan'[s][p] = plan[s][p]
    BY <1>1 DEF TypeOK, Approve, history
  <2>2. approved[s] <= Cap /\ n + Cap <= all + approved[s]
    BY <2>1 DEF CapInv
  <2>3. CASE Verdict(s, o) = "approved"
    <3>1. approved[s] < Cap /\ approved'[s] = approved[s] + 1
      BY <1>0, <2>1, <2>3 DEF Verdict, TypeOK
    <3>2. ApprovedPlans(s)' = ApprovedPlans(s) \cup {o}
      BY <2>1, <2>3 DEF ApprovedPlans, Approved
    <3>3. m <= n + 1 /\ m \in Nat
      <4>1. IsFiniteSet(ApprovedPlans(s))
        BY CountType
      <4>2. Cardinality(ApprovedPlans(s) \cup {o}) = IF o \in ApprovedPlans(s) THEN n ELSE n + 1
        BY <4>1, FS_AddElement
      <4>3. QED
        BY <1>0, <3>2, <4>2
    <3>4. approved'[s] <= Cap /\ m + Cap <= all + approved'[s] /\ m <= all
      BY <1>0, <2>2, <3>1, <3>3
    <3>5. QED
      BY <2>1, <3>4 DEF CapInv
  <2>4. CASE Verdict(s, o) # "approved"
    <3>1. Verdict(s, o) \notin Approved
      BY <2>4 DEF Verdict, Approved
    <3>2. ApprovedPlans(s)' \subseteq ApprovedPlans(s)
      BY <2>1, <3>1 DEF ApprovedPlans
    <3>3. m <= n /\ m \in Nat /\ approved' = approved
      BY <3>2, CountKept, <2>1, <2>4
    <3>4. m + Cap <= all + approved'[s] /\ m <= all
      BY <1>0, <2>2, <3>3
    <3>5. QED
      BY <2>1, <2>2, <3>3, <3>4 DEF CapInv
  <2>5. QED
    BY <2>3, <2>4
<1>2. ASSUME \A o \in Opportunities : ~ Approve(s, o) PROVE CapInv(s)'
  <2>1. m <= n /\ m \in Nat
    BY <1>2, ApprovesOnly, CountKept
  <2>2. n <= all
    BY DEF CapInv
  <2>3. CASE Start(s)
    <3>1. pc'[s] = "started" /\ runs'[s] = runs[s] + 1
      BY <2>3 DEF TypeOK, Start
    <3>2. Cap * (runs[s] + 1) = all + Cap
      BY <1>0, Budget
    <3>3. m + Cap <= Cap * runs'[s] /\ m <= Cap * runs'[s]
      BY <1>0, <2>1, <2>2, <3>1, <3>2
    <3>4. QED
      BY <3>1, <3>3 DEF CapInv
  <2>4. CASE Clone(s) \/ Select(s)
    <3>1. /\ pc[s] \in {"started", "cloned"} /\ pc'[s] \in {"cloned", "selected"}
          /\ runs' = runs
      BY <2>4 DEF TypeOK, Clone, Select, history
    <3>2. n + Cap <= all
      BY <3>1 DEF CapInv
    <3>3. m + Cap <= all /\ m <= all
      BY <1>0, <2>1, <2>2, <3>2
    <3>4. QED
      BY <3>1, <3>3 DEF CapInv
  <2>5. CASE Plan(s)
    <3>1. /\ pc[s] = "selected" /\ pc'[s] = "planned" /\ runs' = runs
          /\ approved'[s] = 0
      BY <2>5 DEF TypeOK, Plan, history
    <3>2. n + Cap <= all
      BY <3>1 DEF CapInv
    <3>3. m + Cap <= all + 0 /\ m <= all /\ 0 <= Cap
      BY <1>0, <2>1, <2>2, <3>2
    <3>4. QED
      BY <3>1, <3>3 DEF CapInv
  <2>6. CASE (ExecuteStep(s) /\ \A o \in Opportunities : ~ PullRequestCloses(s, o)) \/ Stop(s)
    <3>1. /\ pc'[s] \in {"executing", "authoring", "queued", "failed", "canceled"}
          /\ runs' = runs
      <4>1. CASE Stop(s)
        <5>1. \E status \in {"queued", "failed", "canceled"} : StopsAt(s, status)
          BY <4>1 DEF Stop, Crash, Retry, Fail, Cancel
        <5>2. QED
          BY <5>1 DEF TypeOK, StopsAt, history
      <4>2. CASE \/ ListPlans(s) \/ ExecuteEnds(s)
                 \/ \E o \in Opportunities : ExecuteRefused(s, o)
        BY <4>2 DEF TypeOK, ListPlans, ExecuteRefused, ExecuteEnds, history
      <4>3. ASSUME NEW o \in Opportunities, ExecuteClaim(s, o)
            PROVE  pc'[s] = "authoring" /\ runs' = runs
        BY <4>3 DEF TypeOK, ExecuteClaim, history
      <4>4. QED
        BY <2>6, <4>1, <4>2, <4>3 DEF ExecuteStep
    <3>2. m <= all
      BY <1>0, <2>1, <2>2
    <3>3. QED
      BY <3>1, <3>2 DEF CapInv
  <2>7. ASSUME NEW o \in Opportunities, PullRequestCloses(s, o) PROVE CapInv(s)'
    <3>1. UNCHANGED <<pc, runs, approved>>
      BY <2>7 DEF PullRequestCloses, locals, history
    <3>2. /\ m <= all
          /\ n + Cap <= all => m + Cap <= all
          /\ n + Cap <= all + approved[s] => m + Cap <= all + approved[s]
      BY <1>0, <2>1, <2>2
    <3>3. QED
      BY <3>1, <3>2 DEF CapInv
  <2>8. QED
    BY <1>2, <2>3, <2>4, <2>5, <2>6, <2>7 DEF PlanStep
<1>3. QED
  BY <1>1, <1>2

LEMMA CapStep ==
    ASSUME TypeOK, [Next]_vars, NEW s \in Sessions, WorkInv(s), CapInv(s)
    PROVE  CapInv(s)'
<1>1. ASSUME Promote(s) \/ Complete(s) PROVE CapInv(s)'
  <2>1. pc'[s] \in {"promoted", "completed"} /\ UNCHANGED <<plan, runs>>
    BY <1>1, ConstantTypes DEF TypeOK, Promote, Complete, history
  <2>2. QED
    BY <2>1 DEF CapInv, ApprovedPlans
<1>2. CASE PlanStep(s) \/ ExecuteStep(s) \/ Stop(s)
  BY <1>2, CapOwn
<1>3. ASSUME UNCHANGED Mine(s) PROVE CapInv(s)'
  BY <1>3 DEF CapInv, ApprovedPlans, Mine
<1>4. CASE \E r \in Sessions \ {s} : PlanStep(r) \/ ExecuteStep(r) \/ Stop(r)
  BY <1>4, <1>3, Frame
<1>5. QED
  BY <1>1, <1>2, <1>3, <1>4, FrameRest DEF Next

(* No run of a session approves more than Cap plans, whatever cuts it      *)
(* short.                                                                  *)
THEOREM CapKept == Spec => []CapPerRun
<1>1. Init => \A s \in Sessions : CapInv(s)
  <2>1. ASSUME Init, NEW s \in Sessions PROVE CapInv(s)
    <3>1. ApprovedPlans(s) = {} /\ runs[s] = 0 /\ pc[s] = "queued"
      BY <2>1, ConstantTypes DEF Init, ApprovedPlans, Approved
    <3>2. Cardinality(ApprovedPlans(s)) = 0 /\ Cap * 0 = 0
      BY <3>1, FS_EmptySet, ConstantTypes
    <3>3. QED
      BY <3>1, <3>2 DEF CapInv
  <2>2. QED
    BY <2>1
<1>2. TypeOK /\ (\A s \in Sessions : WorkInv(s)) /\ (\A s \in Sessions : CapInv(s))
      /\ [Next]_vars => (\A s \in Sessions : CapInv(s))'
  BY CapStep
<1>3. (\A s \in Sessions : CapInv(s)) => CapPerRun
  BY DEF CapInv, CapPerRun, ApprovedPlans
<1>4. QED
  BY <1>1, <1>2, <1>3, TypeCorrect, WorkAlways, PTL DEF Spec

-----------------------------------------------------------------------------
(* No plan is repeated after a completed session. *)

(* Plans come from the planner alone. *)
LEMMA OnlyPlanned ==
    ASSUME TypeOK, [Next]_vars, NEW s \in Sessions, NEW o \in Opportunities, WorkInv(s),
           plan[s][o] = "none", plan'[s][o] # "none"
    PROVE  Plan(s) /\ o \in todo[s]
<1> USE ConstantTypes
<1>1. ~ UNCHANGED Mine(s)
  BY DEF Mine
<1>2. ASSUME Promote(s) \/ Complete(s) PROVE FALSE
  BY <1>2 DEF Promote, Complete
<1>3. PlanStep(s) \/ ExecuteStep(s) \/ Stop(s)
  BY <1>1, <1>2, Frame, FrameRest DEF Next
<1>4. CASE Plan(s)
  BY <1>4 DEF TypeOK, Plan
<1>5. ASSUME NEW p \in Opportunities, Approve(s, p) PROVE FALSE
  <2>1. plan[s][p] # "none"
    BY <1>5 DEF Approve, WorkInv
  <2>2. p # o /\ plan'[s][o] = plan[s][o]
    BY <1>5, <2>1 DEF TypeOK, Approve
  <2>3. QED
    BY <2>2
<1>6. ASSUME NEW p \in Opportunities, ExecuteClaim(s, p) PROVE FALSE
  <2>1. plan[s][p] # "none"
    BY <1>6 DEF ExecuteClaim, WorkInv, Approved
  <2>2. p # o /\ plan'[s][o] = plan[s][o]
    BY <1>6, <2>1 DEF TypeOK, ExecuteClaim
  <2>3. QED
    BY <2>2
<1>7. ASSUME ExecuteEnds(s) PROVE FALSE
  <2>1. PICK status \in {"opened", "failed"} : plan' = [plan EXCEPT ![s][at[s]] = status]
    BY <1>7 DEF ExecuteEnds
  <2>2. QED
    BY <1>7, <2>1, EndsShape DEF ExecuteEnds
<1>8. ASSUME NEW p \in Opportunities, PullRequestCloses(s, p) PROVE FALSE
  BY <1>8 DEF TypeOK, PullRequestCloses
<1>9. ASSUME Stop(s) PROVE FALSE
  <2>1. plan' = plan \/ plan' = PlanRaises(s)
    BY <1>9 DEF Stop, Crash, Retry, Fail, Cancel
  <2>2. CASE plan' = PlanRaises(s) /\ pc[s] = "authoring"
    <3>1. plan' = [plan EXCEPT ![s][at[s]] = "failed"]
      BY <2>2 DEF PlanRaises
    <3>2. QED
      BY <2>2, <3>1, EndsShape
  <2>3. QED
    BY <2>1, <2>2 DEF PlanRaises
<1>10. ASSUME \/ Start(s) \/ Clone(s) \/ Select(s) \/ ListPlans(s)
              \/ \E p \in Opportunities : ExecuteRefused(s, p)
       PROVE  FALSE
  BY <1>10 DEF Start, Clone, Select, ListPlans, ExecuteRefused
<1>11. QED
  BY <1>3, <1>4, <1>5, <1>6, <1>7, <1>8, <1>9, <1>10 DEF PlanStep, ExecuteStep

(* All that a completed session still sees is its pull requests closing. *)
LEMMA CompletedStays ==
    ASSUME TypeOK, [Next]_vars, NEW s \in Sessions, pc[s] = "completed"
    PROVE  /\ pc'[s] = "completed" /\ commit'[s] = commit[s]
           /\ \A o \in Opportunities : plan'[s][o] \in Live => plan[s][o] \in Live
<1> USE ConstantTypes
<1>1. CASE UNCHANGED Mine(s)
  BY <1>1 DEF Mine
<1>2. ASSUME NEW o \in Opportunities, PullRequestCloses(s, o)
      PROVE  /\ pc'[s] = "completed" /\ commit'[s] = commit[s]
             /\ \A p \in Opportunities : plan'[s][p] \in Live => plan[s][p] \in Live
  <2>1. UNCHANGED <<pc, commit>>
    BY <1>2 DEF PullRequestCloses, locals
  <2>2. /\ plan[s][o] = "opened"
        /\ \A p \in Opportunities : p # o => plan'[s][p] = plan[s][p]
    BY <1>2 DEF TypeOK, PullRequestCloses
  <2>3. QED
    BY <2>1, <2>2 DEF Live
<1>3. ASSUME PlanStep(s) \/ Stop(s) \/ Promote(s) \/ Complete(s) PROVE FALSE
  BY <1>3 DEF PlanStep, Start, Clone, Select, Plan, Approve, Stop, Crash, Retry, Fail,
     Cancel, StopsAt, Working, Promote, MayPromote, Complete
<1>4. ASSUME ExecuteStep(s), \A o \in Opportunities : ~ PullRequestCloses(s, o) PROVE FALSE
  BY <1>4 DEF ExecuteStep, ListPlans, ExecuteRefused, ExecuteClaim, ExecuteEnds
<1>5. QED
  BY <1>1, <1>2, <1>3, <1>4, Frame, FrameRest DEF Next

(* As long as no baseline was moved back, it is not behind a promoted      *)
(* analysis.                                                               *)
RangeInv ==
    \A j \in Jobs :
       pc[j] \in {"promoted", "completed"} /\ ~ movedBack => commit[j] <= baseline

LEMMA RangeStep ==
    ASSUME TypeOK, ForwardInv, [Next]_vars, RangeInv
    PROVE  RangeInv'
<1> USE ConstantTypes, Numbers
<1>2. ASSUME NEW j \in Jobs, pc'[j] \in {"promoted", "completed"}, ~ movedBack'
      PROVE  commit'[j] <= baseline'
  <2>1. CASE \E i \in Jobs : Promote(i)
    <3>1. PICK i \in Jobs : Promote(i)
      BY <2>1
    <3>2. /\ baseline' = commit[i] /\ commit' = commit /\ ~ movedBack
          /\ baseline <= commit[i] /\ pc' = [pc EXCEPT ![i] = "promoted"]
      <4>1. ~ movedBack /\ ~ (commit[i] < baseline)
        BY <1>2, <3>1, Zenon DEF Promote
      <4>2. baseline <= commit[i]
        BY <4>1
      <4>3. /\ baseline' = commit[i] /\ commit' = commit
            /\ pc' = [pc EXCEPT ![i] = "promoted"]
        BY <3>1 DEF Promote, Promoted, locals
      <4>4. QED
        BY <4>1, <4>2, <4>3
    <3>3. CASE j = i
      BY <3>2, <3>3
    <3>4. CASE j # i
      <4>1. commit[j] <= baseline
        BY <1>2, <3>2, <3>4 DEF TypeOK, RangeInv
      <4>2. QED
        BY <3>2, <4>1
    <3>5. QED
      BY <3>3, <3>4
  <2>2. CASE ~ \E i \in Jobs : Promote(i)
    <3>1. UNCHANGED <<baseline, movedBack>>
      BY <2>2 DEF Next, Push, PlanStep, Start, Clone, Select, Plan, Approve,
         ExecuteStep, ListPlans, ExecuteRefused, ExecuteClaim, ExecuteEnds,
         PullRequestCloses, Stop,
         Crash, Retry, Fail, Cancel, StopsAt, RefreshClone, RefreshStops, Complete,
         vars, history
    <3>2. pc[j] \in {"promoted", "completed"} /\ commit'[j] = commit[j]
      <4>1. CASE j \in Sessions
        <5>1. CASE UNCHANGED Mine(j)
          BY <1>2, <5>1 DEF Mine
        <5>2. CASE Complete(j)
          BY <5>2 DEF Complete, locals
        <5>3. ASSUME NEW o \in Opportunities, PullRequestCloses(j, o)
              PROVE  pc[j] \in {"promoted", "completed"} /\ commit'[j] = commit[j]
          BY <1>2, <5>3 DEF PullRequestCloses, locals
        <5>4. ASSUME PlanStep(j) PROVE FALSE
          BY <1>2, <4>1, <5>4 DEF TypeOK, PlanStep, Start, Clone, Select, Plan, Approve
        <5>5. ASSUME ListPlans(j) \/ ExecuteEnds(j)
                     \/ \E o \in Opportunities :
                           ExecuteRefused(j, o) \/ ExecuteClaim(j, o)
              PROVE  FALSE
          BY <1>2, <4>1, <5>5 DEF TypeOK, ListPlans, ExecuteEnds, ExecuteRefused,
             ExecuteClaim
        <5>6. ASSUME Stop(j) PROVE FALSE
          <6>1. \E status \in {"queued", "failed", "canceled"} : StopsAt(j, status)
            BY <5>6 DEF Stop, Crash, Retry, Fail, Cancel
          <6>2. QED
            BY <1>2, <4>1, <6>1 DEF TypeOK, StopsAt
        <5>7. QED
          BY <2>2, <4>1, <5>1, <5>2, <5>3, <5>4, <5>5, <5>6, Frame, FrameRest
             DEF Next, ExecuteStep
      <4>2. CASE j \in Refreshes
        <5>1. CASE UNCHANGED <<pc[j], commit[j]>>
          BY <1>2, <5>1
        <5>2. CASE \E r \in Refreshes : RefreshClone(r) \/ RefreshStops(r)
          BY <1>2, <4>2, <5>2 DEF TypeOK, RefreshClone, RefreshStops, locals
        <5>3. CASE \E i \in Jobs : Complete(i)
          BY <1>2, <4>2, <5>3 DEF TypeOK, Complete, locals
        <5>4. CASE Push \/ UNCHANGED vars
          BY <1>2, <5>4 DEF Push, vars, locals
        <5>5. CASE \E s \in Sessions : PlanStep(s) \/ ExecuteStep(s) \/ Stop(s)
          <6>1. PICK s \in Sessions : PlanStep(s) \/ ExecuteStep(s) \/ Stop(s)
            BY <5>5
          <6>2. s # j
            BY <4>2
          <6>3. UNCHANGED <<pc[j], commit[j]>>
            BY <4>2, <6>1, <6>2 DEF TypeOK, PlanStep, Start, Clone, Select, Plan, Approve,
               ExecuteStep, ListPlans, ExecuteRefused, ExecuteClaim, ExecuteEnds,
               PullRequestCloses, Stop,
               Crash, Retry, Fail, Cancel, StopsAt, locals
          <6>4. QED
            BY <1>2, <6>3
        <5>6. QED
          BY <2>2, <5>2, <5>3, <5>4, <5>5 DEF Next
      <4>3. QED
        BY <4>1, <4>2 DEF Jobs
    <3>3. QED
      BY <1>2, <3>1, <3>2 DEF RangeInv
  <2>3. QED
    BY <2>1, <2>2
<1>3. QED
  BY <1>2 DEF RangeInv

LEMMA RangeAlways == Spec => []RangeInv
<1>1. Init => RangeInv
  BY ConstantTypes DEF Init, RangeInv
<1>2. QED
  BY <1>1, RangeStep, TypeCorrect, ForwardAlways, PTL DEF Spec

(* A session may plan an opportunity beside one that completed before it   *)
(* when the other's plan is not alive, or when it got worse since.         *)
MayPlan(s, r, o) == plan[s][o] \notin Live \/ o \in Drift(commit[s], commit[r])

(* A session that started after another one completed reads a baseline     *)
(* that is not behind the commit the other has promoted, and plans only    *)
(* what it may.                                                            *)
OrderInv ==
    \A r \in Sessions : \A s \in before[r] :
       /\ s # r
       /\ pc[s] = "completed"
       /\ ~ movedBack =>
            /\ pc[r] \in Working => commit[s] <= base[r]
            /\ pc[r] = "selected" => \A o \in todo[r] : MayPlan(s, r, o)
            /\ \A o \in Opportunities : plan[r][o] # "none" => MayPlan(s, r, o)

LEMMA OrderStart ==
    ASSUME TypeOK, RangeInv, OrderInv, NEW r \in Sessions, FirstRunInv(r), Start(r),
           NEW s \in before'[r], ~ movedBack
    PROVE  /\ s \in Sessions /\ s # r /\ pc[s] = "completed"
           /\ commit[s] <= base'[r]
           /\ \A o \in Opportunities : plan[r][o] # "none" => MayPlan(s, r, o)
<1> USE ConstantTypes
<1>1. CASE runs[r] = 0
  <2>1. s \in Sessions /\ pc[s] = "completed" /\ base'[r] = baseline
    BY <1>1 DEF TypeOK, Start
  <2>2. QED
    BY <1>1, <2>1 DEF FirstRunInv, RangeInv, Start
<1>2. CASE runs[r] # 0
  <2>1. s \in before[r] /\ base'[r] = baseline
    BY <1>2 DEF TypeOK, Start
  <2>2. s \in Sessions /\ s # r /\ pc[s] = "completed"
    BY <2>1 DEF TypeOK, OrderInv
  <2>3. commit[s] <= baseline
    BY <2>2 DEF RangeInv
  <2>4. QED
    BY <2>1, <2>2, <2>3 DEF OrderInv
<1>3. QED
  BY <1>1, <1>2

(* What Select takes. *)
LEMMA OrderSelect ==
    ASSUME TypeOK, OrderInv, NEW r \in Sessions, Select(r),
           NEW s \in before[r], ~ movedBack, NEW o \in Relevant(r)
    PROVE  MayPlan(s, r, o)
<1> USE ConstantTypes, Numbers
<1>1. s \in Sessions /\ pc[r] \in Working /\ r \in Sessions
  BY DEF TypeOK, Select, Working
<1>2. commit[s] <= base[r]
  BY <1>1 DEF OrderInv
<1>3. CASE o \in Drift(base[r], commit[r])
  <2>1. Drift(base[r], commit[r]) \subseteq Drift(commit[s], commit[r])
    BY <1>1, <1>2, DriftGrows
  <2>2. QED
    BY <1>3, <2>1 DEF MayPlan
<1>4. CASE o \in Found(commit[r]) \ Active
  <2>1. o \in Opportunities
    BY <1>4 DEF Found, Drift
  <2>2. QED
    BY <1>1, <1>4, <2>1 DEF Active, MayPlan
<1>5. QED
  BY <1>3, <1>4 DEF Relevant

(* What a session may plan it may plan later. *)
LEMMA MayPlanStays ==
    ASSUME TypeOK, ForwardInv, [Next]_vars, \A q \in Sessions : WorkInv(q),
           NEW r \in Sessions, NEW s \in Sessions, pc[s] = "completed",
           NEW o \in Opportunities, MayPlan(s, r, o)
    PROVE  MayPlan(s, r, o)'
<1>1. commit'[s] = commit[s] /\ (plan'[s][o] \in Live => plan[s][o] \in Live)
  BY CompletedStays
<1>2. CASE plan[s][o] \notin Live
  BY <1>1, <1>2 DEF MayPlan
<1>3. CASE o \in Drift(commit[s], commit[r])
  <2>1. /\ commit[s] \in Nat /\ commit[r] \in Nat /\ commit'[r] \in Nat
        /\ commit[r] <= commit'[r]
    BY Numbers, CommitGrows, ConstantTypes
  <2>2. Drift(commit[s], commit[r]) \subseteq Drift(commit[s], commit'[r])
    BY <2>1, DriftGrows
  <2>3. Drift(commit[s], commit'[r]) = Drift(commit[s], commit[r])'
    BY <1>1 DEF Drift
  <2>4. QED
    BY <1>3, <2>2, <2>3 DEF MayPlan
<1>4. QED
  BY <1>2, <1>3 DEF MayPlan

LEMMA OrderStep ==
    ASSUME TypeOK, ForwardInv, [Next]_vars, RangeInv, OrderInv,
           \A s \in Sessions : WorkInv(s), \A s \in Sessions : FirstRunInv(s)
    PROVE  OrderInv'
<1> USE ConstantTypes
<1>m. movedBack => movedBack'
  <2>1. CASE \E j \in Jobs : Promote(j)
    BY <2>1, Zenon DEF Promote
  <2>2. CASE ~ \E j \in Jobs : Promote(j)
    <3>1. UNCHANGED movedBack
      BY <2>2 DEF Next, Push, PlanStep, Start, Clone, Select, Plan, Approve,
         ExecuteStep, ListPlans, ExecuteRefused, ExecuteClaim, ExecuteEnds,
         PullRequestCloses, Stop,
         Crash, Retry, Fail, Cancel, StopsAt, RefreshClone, RefreshStops, Complete,
         vars, history
    <3>2. QED
      BY <3>1
  <2>3. QED
    BY <2>1, <2>2
<1>1. SUFFICES ASSUME NEW r \in Sessions, NEW s \in before'[r]
      PROVE  /\ s # r
             /\ pc'[s] = "completed"
             /\ ~ movedBack' =>
                  /\ pc'[r] \in Working => commit'[s] <= base'[r]
                  /\ pc'[r] = "selected" => \A o \in todo'[r] : MayPlan(s, r, o)'
                  /\ \A o \in Opportunities :
                       plan'[r][o] # "none" => MayPlan(s, r, o)'
  BY DEF OrderInv
<1>2. s \in Sessions /\ s # r /\ pc[s] = "completed"
  <2>1. CASE s \in before[r]
    BY <2>1 DEF OrderInv, TypeOK
  <2>2. CASE Start(r)
    <3>1. s \in before[r] \/ (s \in Sessions /\ pc[s] = "completed")
      BY <2>2, <1>1 DEF TypeOK, Start
    <3>2. pc[r] # "completed"
      BY <2>2 DEF Start
    <3>3. QED
      BY <2>1, <3>1, <3>2
  <2>3. QED
    BY <1>1, <2>1, <2>2, RunnerShape
<1>3. pc'[s] = "completed" /\ commit'[s] = commit[s]
  BY <1>2, CompletedStays
<1>p. \A o \in Opportunities : MayPlan(s, r, o) => MayPlan(s, r, o)'
  BY <1>1, <1>2, MayPlanStays
<1>4. ASSUME ~ movedBack', pc'[r] \in Working PROVE commit'[s] <= base'[r]
  <2>1. CASE Start(r)
    BY <1>1, <1>3, <1>4, <1>m, <2>1, OrderStart
  <2>2. CASE ~ Start(r)
    <3>1. /\ base'[r] = base[r] /\ before'[r] = before[r] /\ pc[r] \in Working
      BY <1>4, <2>2, RunnerShape
    <3>2. QED
      BY <1>1, <1>3, <1>4, <1>m, <3>1 DEF OrderInv
  <2>3. QED
    BY <2>1, <2>2
<1>5. ASSUME ~ movedBack', pc'[r] = "selected", NEW o \in todo'[r]
      PROVE  MayPlan(s, r, o)'
  <2>1. ~ Start(r)
    BY <1>5 DEF TypeOK, Start
  <2>2. before'[r] = before[r] /\ o \in Opportunities
    <3>1. AtInv
      BY DEF AtInv, WorkInv
    <3>2. TypeOK'
      BY <3>1, TypeStep
    <3>3. QED
      BY <1>5, <2>1, <3>2, RunnerShape DEF TypeOK
  <2>3. CASE Select(r)
    <3>1. todo'[r] = Relevant(r)
      BY <2>3 DEF TypeOK, Select
    <3>2. MayPlan(s, r, o)
      BY <1>1, <1>5, <1>m, <2>2, <2>3, <3>1, OrderSelect
    <3>3. QED
      BY <1>p, <2>2, <3>2
  <2>4. CASE ~ Select(r)
    <3>1. pc[r] = "selected" /\ todo'[r] = todo[r]
      BY <1>5, <2>4, RunnerShape
    <3>2. MayPlan(s, r, o)
      BY <1>1, <1>5, <1>m, <2>2, <3>1 DEF OrderInv
    <3>3. QED
      BY <1>p, <2>2, <3>2
  <2>5. QED
    BY <2>3, <2>4
<1>6. ASSUME ~ movedBack', NEW o \in Opportunities, plan'[r][o] # "none"
      PROVE  MayPlan(s, r, o)'
  <2>1. CASE plan[r][o] # "none"
    <3>1. CASE Start(r)
      BY <1>1, <1>p, <1>6, <1>m, <2>1, <3>1, OrderStart
    <3>2. CASE ~ Start(r)
      <4>1. before'[r] = before[r]
        BY <3>2, RunnerShape
      <4>2. QED
        BY <1>1, <1>p, <1>6, <1>m, <2>1, <4>1 DEF OrderInv
    <3>3. QED
      BY <3>1, <3>2
  <2>2. CASE plan[r][o] = "none"
    <3>1. Plan(r) /\ o \in todo[r]
      BY <1>6, <2>2, OnlyPlanned
    <3>2. pc[r] = "selected" /\ before'[r] = before[r]
      BY <3>1 DEF Plan, history
    <3>3. MayPlan(s, r, o)
      BY <1>1, <1>6, <1>m, <3>1, <3>2 DEF OrderInv
    <3>4. QED
      BY <1>p, <3>3
  <2>3. QED
    BY <2>1, <2>2
<1>7. QED
  BY <1>2, <1>3, <1>4, <1>5, <1>6

(* Sessions that follow one another do not plan the same opportunity twice *)
(* while the first plan is alive and it did not get worse.                 *)
THEOREM NotPlannedTwice == Spec => []NoRepeatedPlan
<1>1. Init => OrderInv
  BY DEF Init, OrderInv
<1>2. TypeOK /\ ForwardInv /\ RangeInv /\ OrderInv /\ (\A s \in Sessions : WorkInv(s))
      /\ (\A s \in Sessions : FirstRunInv(s)) /\ [Next]_vars => OrderInv'
  BY OrderStep
<1>3. OrderInv => NoRepeatedPlan
  <2>1. ASSUME OrderInv, NEW s \in Sessions, NEW r \in Sessions, s \in before[r],
               NEW o \in Opportunities, plan[s][o] \in Live, plan[r][o] \in Live
        PROVE  movedBack \/ o \in Drift(commit[s], commit[r])
    <3>1. plan[r][o] # "none"
      BY <2>1 DEF Live
    <3>2. QED
      BY <2>1, <3>1 DEF OrderInv, MayPlan
  <2>2. QED
    BY <2>1 DEF NoRepeatedPlan
<1>4. QED
  BY <1>1, <1>2, <1>3, TypeCorrect, ForwardAlways, RangeAlways, WorkAlways, FirstRunAlways, PTL DEF Spec

-----------------------------------------------------------------------------
(* A plan of a completed session is not left over in silence. *)

HasPlans(s) == \E o \in Opportunities : plan[s][o] # "none"

(* Who has plans has read a baseline, and then there is one for good: a    *)
(* session that is started again does not become a baseline-only session.  *)
ScanInv ==
    /\ \A j \in Jobs : base[j] # 0 => baseline # 0
    /\ \A s \in Sessions :
         /\ pc[s] = "selected" => ~ BaselineOnly(s)
         /\ HasPlans(s) => /\ s \notin FirstScans
                           /\ baseline # 0
                           /\ pc[s] \in Working => base[s] # 0

LEMMA BaselineKept ==
    ASSUME TypeOK, ForwardInv, [Next]_vars, baseline # 0
    PROVE  baseline' # 0
<1>1. ASSUME NEW j \in Jobs, Promote(j) PROVE baseline' # 0
  <2>1. baseline' = commit[j] /\ pc[j] \in {"cloned", "executing"}
    BY <1>1 DEF Promote, Promoted, MayPromote
  <2>2. QED
    BY <2>1 DEF ForwardInv, Working
<1>2. CASE ~ \E j \in Jobs : Promote(j)
  BY <1>2 DEF Next, Push, PlanStep, Start, Clone, Select, Plan, Approve,
     ExecuteStep, ListPlans, ExecuteRefused, ExecuteClaim, ExecuteEnds,
     PullRequestCloses, Stop, Crash, Retry, Fail, Cancel, StopsAt, RefreshClone,
     RefreshStops, Complete, vars
<1>3. QED
  BY <1>1, <1>2

LEMMA BaseRead ==
    ASSUME TypeOK, [Next]_vars, NEW j \in Jobs
    PROVE  base'[j] = base[j] \/ (base'[j] = baseline /\ baseline' = baseline)
<1>1. CASE \E s \in Sessions : Start(s)
  BY <1>1 DEF TypeOK, Start
<1>2. CASE \E r \in Refreshes : RefreshClone(r)
  BY <1>2 DEF TypeOK, RefreshClone
<1>3. CASE ~ (\E s \in Sessions : Start(s)) /\ ~ (\E r \in Refreshes : RefreshClone(r))
  BY <1>3 DEF Next, Push, PlanStep, Clone, Select, Plan, Approve,
     ExecuteStep, ListPlans, ExecuteRefused, ExecuteClaim, ExecuteEnds,
     PullRequestCloses, Stop, Crash, Retry, Fail, Cancel, StopsAt,
     RefreshStops, Promote, Complete, vars, locals
<1>4. QED
  BY <1>1, <1>2, <1>3

LEMMA ScanStep ==
    ASSUME TypeOK, ForwardInv, \A s \in Sessions : WorkInv(s), ScanInv, [Next]_vars
    PROVE  ScanInv'
<1> USE ConstantTypes
<1>1. ASSUME NEW j \in Jobs, base'[j] # 0 PROVE baseline' # 0
  BY <1>1, BaseRead, BaselineKept DEF ScanInv
<1>2. ASSUME NEW s \in Sessions, pc'[s] = "selected" PROVE ~ BaselineOnly(s)'
  <2>1. CASE Select(s)
    BY <2>1 DEF Select, BaselineOnly
  <2>2. CASE ~ Select(s)
    <3>1. pc[s] = "selected"
      BY <1>2, <2>2, RunnerShape
    <3>2. ~ Start(s)
      BY <3>1 DEF Start
    <3>3. base'[s] = base[s]
      BY <3>2, RunnerShape
    <3>4. QED
      BY <3>1, <3>3 DEF ScanInv, BaselineOnly
  <2>3. QED
    BY <2>1, <2>2
<1>3. ASSUME NEW s \in Sessions, HasPlans(s)'
      PROVE  /\ s \notin FirstScans
             /\ baseline' # 0
             /\ pc'[s] \in Working => base'[s] # 0
  <2>1. CASE HasPlans(s)
    <3>1. s \notin FirstScans /\ baseline # 0
      BY <2>1 DEF ScanInv
    <3>2. CASE Start(s)
      BY <3>1, <3>2, BaselineKept DEF TypeOK, Start
    <3>3. CASE ~ Start(s)
      <4>1. base'[s] = base[s] /\ (pc'[s] \in Working => pc[s] \in Working)
        BY <3>3, RunnerShape
      <4>2. QED
        BY <2>1, <3>1, <4>1, BaselineKept DEF ScanInv
    <3>4. QED
      BY <3>2, <3>3
  <2>2. CASE ~ HasPlans(s)
    <3>1. PICK o \in Opportunities : plan[s][o] = "none" /\ plan'[s][o] # "none"
      BY <1>3, <2>2 DEF HasPlans
    <3>2. Plan(s)
      BY <3>1, OnlyPlanned
    <3>3. pc[s] = "selected" /\ base' = base /\ baseline' = baseline
      BY <3>2 DEF Plan
    <3>4. s \notin FirstScans /\ base[s] # 0 /\ baseline # 0
      BY <3>3 DEF ScanInv, BaselineOnly
    <3>5. QED
      BY <3>3, <3>4
  <2>3. QED
    BY <2>1, <2>2
<1>4. QED
  BY <1>1, <1>2, <1>3 DEF ScanInv

LEMMA ScanAlways == Spec => []ScanInv
<1>1. Init => ScanInv
  BY ConstantTypes DEF Init, ScanInv, HasPlans
<1>2. QED
  BY <1>1, ScanStep, TypeCorrect, ForwardAlways, WorkAlways, PTL DEF Spec

(* From the listing on, an approved plan without a pull request is still   *)
(* to be handled, has an error or was held back by the mode.               *)
Left(s) == {o \in Opportunities : plan[s][o] \in {"approved", "failed"}}

ReportInv(s) ==
    /\ pc[s] \in {"executing", "authoring"} =>
          Left(s) \subseteq todo[s] \cup errors[s] \cup passed[s]
    /\ pc[s] \in {"promoted", "completed"} => Left(s) \subseteq errors[s] \cup passed[s]

LEMMA ReportOwn ==
    ASSUME TypeOK, NEW s \in Sessions, WorkInv(s), ReportInv(s),
           PlanStep(s) \/ ExecuteStep(s) \/ Stop(s)
    PROVE  ReportInv(s)'
<1> USE ConstantTypes
<1>1. CASE PlanStep(s)
  <2>1. pc'[s] \in {"started", "cloned", "selected", "planned"}
    BY <1>1 DEF TypeOK, PlanStep, Start, Clone, Select, Plan, Approve
  <2>2. QED
    BY <2>1 DEF ReportInv
<1>2. CASE ListPlans(s)
  <2>1. PICK stale \in SUBSET LeftRunning(s), held \in Holds :
          /\ todo' = [todo EXCEPT ![s] = (Executable(s) \cup stale) \ held]
          /\ passed' = [passed EXCEPT ![s] = Executable(s) \cap held]
    BY <1>2 DEF ListPlans
  <2>2. Executable(s) \subseteq todo'[s] \cup passed'[s]
    BY <2>1 DEF TypeOK
  <2>3. pc'[s] = "executing" /\ plan' = plan
    BY <1>2 DEF TypeOK, ListPlans
  <2>4. Left(s)' = Executable(s)
    BY <2>3 DEF Left, Executable
  <2>5. QED
    BY <2>2, <2>3, <2>4 DEF ReportInv
<1>3. ASSUME NEW o \in Opportunities, ExecuteRefused(s, o) PROVE ReportInv(s)'
  <2>1. /\ pc[s] = "executing" /\ UNCHANGED <<pc, plan, passed>>
        /\ todo'[s] = todo[s] \ {o} /\ errors'[s] = errors[s] \cup {o}
    BY <1>3 DEF TypeOK, ExecuteRefused, history
  <2>2. QED
    BY <2>1 DEF ReportInv, Left
<1>4. ASSUME NEW o \in Opportunities, ExecuteClaim(s, o) PROVE ReportInv(s)'
  <2>1. /\ pc[s] = "executing" /\ pc'[s] = "authoring" /\ UNCHANGED <<errors, passed>>
        /\ todo'[s] = todo[s] \ {o}
    BY <1>4 DEF TypeOK, ExecuteClaim, history
  <2>2. /\ plan'[s][o] = "running"
        /\ \A p \in Opportunities : p # o => plan'[s][p] = plan[s][p]
    BY <1>4 DEF TypeOK, ExecuteClaim
  <2>3. QED
    BY <2>1, <2>2 DEF ReportInv, Left
<1>5. CASE ExecuteEnds(s)
  <2>1. /\ pc[s] = "authoring" /\ pc'[s] = "executing" /\ UNCHANGED <<todo, passed>>
    BY <1>5 DEF TypeOK, ExecuteEnds, history
  <2>2. PICK status \in {"opened", "failed"} :
          /\ plan' = [plan EXCEPT ![s][at[s]] = status]
          /\ errors[s] \subseteq errors'[s]
          /\ status = "failed" => at[s] \in errors'[s]
    BY <1>5 DEF TypeOK, ExecuteEnds
  <2>3. /\ at[s] \in Opportunities
        /\ plan'[s][at[s]] = status
        /\ \A o \in Opportunities : o # at[s] => plan'[s][o] = plan[s][o]
    BY <2>1, <2>2, EndsShape
  <2>4. Left(s)' \subseteq Left(s) \cup errors'[s]
    BY <2>2, <2>3 DEF Left
  <2>5. QED
    BY <2>1, <2>2, <2>4 DEF ReportInv
<1>6. ASSUME NEW o \in Opportunities, PullRequestCloses(s, o) PROVE ReportInv(s)'
  <2>1. UNCHANGED <<pc, todo, errors, passed>>
    BY <1>6 DEF PullRequestCloses, locals, history
  <2>2. Left(s)' \subseteq Left(s)
    BY <1>6 DEF TypeOK, PullRequestCloses, Left
  <2>3. QED
    BY <2>1, <2>2 DEF ReportInv
<1>7. CASE Stop(s)
  <2>1. pc'[s] \in {"queued", "failed", "canceled"}
    BY <1>7 DEF TypeOK, Stop, Crash, Retry, Fail, Cancel, StopsAt
  <2>2. QED
    BY <2>1 DEF ReportInv
<1>8. QED
  BY <1>1, <1>2, <1>3, <1>4, <1>5, <1>6, <1>7 DEF ExecuteStep

LEMMA ReportSame ==
    ASSUME NEW s \in Sessions, ReportInv(s), UNCHANGED Mine(s)
    PROVE  ReportInv(s)'
BY DEF ReportInv, Left, Mine

LEMMA ReportStep ==
    ASSUME TypeOK, [Next]_vars, ScanInv, NEW s \in Sessions, WorkInv(s), ReportInv(s)
    PROVE  ReportInv(s)'
<1>1. ASSUME Promote(s) PROVE ReportInv(s)'
  <2>1. /\ pc'[s] = "promoted" /\ UNCHANGED <<plan, errors, passed>>
        /\ \/ pc[s] = "cloned" /\ BaselineOnly(s)
           \/ pc[s] = "executing" /\ todo[s] = {}
    BY <1>1, ConstantTypes DEF TypeOK, Promote, MayPromote, locals
  <2>2. CASE pc[s] = "cloned" /\ BaselineOnly(s)
    <3>1. ~ HasPlans(s)
      BY <2>2 DEF ScanInv, BaselineOnly, Working
    <3>2. Left(s) = {}
      BY <3>1 DEF HasPlans, Left
    <3>3. QED
      BY <2>1, <3>2 DEF ReportInv, Left
  <2>3. CASE pc[s] = "executing" /\ todo[s] = {}
    BY <2>1, <2>3 DEF ReportInv, Left
  <2>4. QED
    BY <2>1, <2>2, <2>3
<1>2. ASSUME Complete(s) PROVE ReportInv(s)'
  <2>1. /\ pc[s] = "promoted" /\ pc'[s] = "completed"
        /\ UNCHANGED <<plan, errors, passed>>
    BY <1>2, ConstantTypes DEF TypeOK, Complete, locals, history
  <2>2. QED
    BY <2>1 DEF ReportInv, Left
<1>3. CASE PlanStep(s) \/ ExecuteStep(s) \/ Stop(s)
  BY <1>3, ReportOwn
<1>4. CASE \E r \in Sessions \ {s} : PlanStep(r) \/ ExecuteStep(r) \/ Stop(r)
  BY <1>4, Frame, ReportSame
<1>5. QED
  BY <1>1, <1>2, <1>3, <1>4, FrameRest, ReportSame DEF Next

(* An approved plan of a completed session has a pull request, an error or *)
(* was held back by the autonomy mode, however often the session was cut   *)
(* short and started again; only then is one left undecided or RUNNING.    *)
THEOREM NothingUnreportedTheorem == Spec => []NothingUnreported
<1>1. Init => \A s \in Sessions : ReportInv(s)
  BY ConstantTypes DEF Init, ReportInv
<1>2. TypeOK /\ ScanInv /\ (\A s \in Sessions : WorkInv(s))
      /\ (\A s \in Sessions : ReportInv(s)) /\ [Next]_vars
      => (\A s \in Sessions : ReportInv(s))'
  BY ReportStep
<1>3. TypeOK /\ (\A s \in Sessions : ReportInv(s)) /\ (\A s \in Sessions : FirstRunInv(s))
      => NothingUnreported
  <2>1. ASSUME TypeOK, NEW s \in Sessions, ReportInv(s), FirstRunInv(s),
               pc[s] = "completed", NEW o \in Opportunities
        PROVE  /\ plan[s][o] \in {"approved", "failed"} => o \in errors[s] \cup passed[s]
               /\ plan[s][o] \in {"pending", "running"} => runs[s] > 1
    <3>1. runs[s] \in Nat /\ runs[s] # 0
      BY <2>1 DEF TypeOK, FirstRunInv
    <3>2. plan[s][o] \in {"pending", "running"} => runs[s] # 1
      BY <2>1 DEF FirstRunInv
    <3>3. plan[s][o] \in {"approved", "failed"} => o \in errors[s] \cup passed[s]
      BY <2>1 DEF ReportInv, Left
    <3>4. QED
      BY <3>1, <3>2, <3>3
  <2>2. QED
    BY <2>1 DEF NothingUnreported
<1>4. QED
  BY <1>1, <1>2, <1>3, TypeCorrect, ScanAlways, WorkAlways, FirstRunAlways, PTL DEF Spec

=============================================================================
