------------------------ MODULE PlanExecutionProofs ------------------------
(***************************************************************************)
(* What holds of PlanExecution for every set of plans, workers, branches   *)
(* and files, and every table of candidate names.                          *)
(***************************************************************************)
EXTENDS PlanExecution, TLAPS

-----------------------------------------------------------------------------
(* Types. *)

(* What the step a call is at says of its fields. *)
Shape(c) ==
    /\ c.pc # "idle" => c.plan \in Plans /\ c.from \in Branches
    /\ c.pc \in {"branch", "check"} => c.tries > 0
    /\ c.pc = "check" => c.tries <= Len(Candidates[c.from])
    /\ c.pc \in Settled => c.branch \in Branches

TypeInv == TypeOK /\ \A e \in Executors : Shape(exec[e])

LEMMA IdleCall == Idle \in Call /\ Shape(Idle)
BY DEF Idle, Call, Shape, Naming, Settled

LEMMA CandidateType ==
    ASSUME NEW f \in Branches, NEW n \in Nat, n > 0, n <= Len(Candidates[f])
    PROVE  Candidates[f][n] \in Branches
<1>1. Candidates[f] \in Seq(Branches)
  BY NameAssumption
<1>2. n \in 1..Len(Candidates[f])
  BY <1>1
<1>3. QED
  BY <1>1, <1>2

(* A step of one call leaves the others alone. *)
LEMMA CallUpdate ==
    ASSUME TypeInv, NEW e \in Executors, NEW c \in Call, Shape(c),
           exec' = [exec EXCEPT ![e] = c]
    PROVE  exec' \in [Executors -> Call] /\ \A d \in Executors : Shape(exec'[d])
BY DEF TypeInv, TypeOK

LEMMA SavesType ==
    ASSUME TypeInv, NEW p \in Plans, NEW s \in ExecutionStatus,
           plan' = [plan EXCEPT ![p].status = s]
    PROVE  plan' \in [Plans -> Plan]
BY DEF TypeInv, TypeOK, Plan

LEMMA TypeInit == Init => TypeInv
<1> SUFFICES ASSUME Init PROVE TypeInv
  OBVIOUS
<1>1. plan \in [Plans -> Plan]
  BY NameAssumption DEF Init, Plan, ExecutionStatus
<1>2. NoRef \in Ref /\ [NoRef EXCEPT !.by = Outsider] \in Ref
  BY DEF NoRef, Ref
<1>3. ref \in [Branches -> Ref]
  BY <1>2 DEF Init
<1>4. QED
  BY <1>1, <1>3, IdleCall DEF Init, TypeInv, TypeOK

(* Every action keeps the rows, the branches and the calls in their types. *)
LEMMA TypeStep == TypeInv /\ [Next]_vars => TypeInv'
<1> SUFFICES ASSUME TypeInv, [Next]_vars PROVE TypeInv'
  OBVIOUS
<1>p. plan \in [Plans -> Plan]
  BY DEF TypeInv, TypeOK
<1>r. ref \in [Branches -> Ref]
  BY DEF TypeInv, TypeOK
<1>x. exec \in [Executors -> Call]
  BY DEF TypeInv, TypeOK
<1>s. \A e \in Executors : Shape(exec[e])
  BY DEF TypeInv
<1>m. TypeInv' <=> /\ plan' \in [Plans -> Plan]
                   /\ ref' \in [Branches -> Ref]
                   /\ exec' \in [Executors -> Call]
                   /\ \A e \in Executors : Shape(exec'[e])
                   /\ mode' \in {"conservative", "assisted", "autonomous"}
                   /\ active' \in BOOLEAN
  BY DEF TypeInv, TypeOK, Shape
<1>k. UNCHANGED <<mode, active>> =>
         /\ mode' \in {"conservative", "assisted", "autonomous"}
         /\ active' \in BOOLEAN
  BY DEF TypeInv, TypeOK
<1>1. ASSUME NEW e \in Executors, ExecutorStep(e) PROVE TypeInv'
  <2> DEFINE c == exec[e]
  <2>c. c \in Call /\ Shape(c)
    BY <1>x, <1>s
  <2> HIDE DEF c
  <2>1. ASSUME NEW p \in Plans, Claim(e, p) PROVE TypeInv'
    <3> DEFINE n == [Idle EXCEPT !.pc = "list", !.plan = p, !.from = plan[p].branch]
    <3>1. plan[p].branch \in Branches
      BY <1>p DEF Plan
    <3>2. n \in Call /\ Shape(n)
      BY <3>1 DEF Idle, Call, Shape, Naming, Settled
    <3>3. exec' = [exec EXCEPT ![e] = n]
      BY <2>1 DEF Claim
    <3>4. plan' \in [Plans -> Plan]
      BY <2>1, SavesType DEF Claim, ExecutionStatus
    <3> HIDE DEF n
    <3>5. QED
      BY <1>r, <1>m, <1>k, <2>1, <3>2, <3>3, <3>4, CallUpdate DEF Claim
  <2>2. ASSUME ListSiblings(e) PROVE TypeInv'
    <3> DEFINE S == {plan[q].branch : q \in Siblings(c.plan)}
               n == [c EXCEPT !.pc = "branch", !.tries = 1, !.siblings = S]
    <3>1. S \subseteq Branches
      BY <1>p DEF Plan, Siblings
    <3>2. exec' = [exec EXCEPT ![e] = n]
      BY <2>2 DEF ListSiblings, c
    <3>3. c.pc = "list"
      BY <2>2 DEF ListSiblings, c
    <3> HIDE DEF S
    <3>4. n \in Call
      BY <2>c, <3>1 DEF Call, Naming, Settled
    <3>5. n.plan = c.plan /\ n.from = c.from /\ n.pc = "branch" /\ n.tries = 1
      BY <2>c DEF Call
    <3>6. Shape(n)
      BY <2>c, <3>3, <3>5 DEF Shape, Settled
    <3> HIDE DEF n
    <3>7. QED
      BY <1>p, <1>r, <1>m, <1>k, <2>2, <3>2, <3>4, <3>6, CallUpdate DEF ListSiblings
  <2>3. ASSUME SkipSibling(e) PROVE TypeInv'
    <3> DEFINE n == [c EXCEPT !.tries = c.tries + 1]
    <3>1. exec' = [exec EXCEPT ![e] = n]
      BY <1>x, <2>3 DEF SkipSibling, c
    <3>2. c.pc = "branch"
      BY <2>3 DEF SkipSibling, c
    <3>3. n \in Call /\ Shape(n)
      BY <2>c, <3>2 DEF Call, Shape, Naming, Settled
    <3> HIDE DEF n
    <3>4. QED
      BY <1>p, <1>r, <1>m, <1>k, <2>3, <3>1, <3>3, CallUpdate DEF SkipSibling
  <2>4. ASSUME Trying(e)
        PROVE  /\ Candidate(e) \in Branches
               /\ c.pc = "branch" /\ c.tries <= Len(Candidates[c.from])
               /\ c.plan \in Plans
    <3>1. c.pc = "branch" /\ ~ (c.tries > Len(Candidates[c.from]))
      BY <2>4 DEF Trying, Exhausted, c
    <3>2. c.from \in Branches /\ c.tries \in Nat /\ c.tries > 0 /\ c.plan \in Plans
      BY <2>c, <3>1 DEF Shape, Call
    <3>3. c.tries <= Len(Candidates[c.from])
      BY <3>1, <3>2, NameAssumption
    <3>4. QED
      BY <3>1, <3>2, <3>3, CandidateType DEF Candidate, c
  <2>5. ASSUME CreateBranch(e) \/ CreateBranchUnanswered(e)
        PROVE  ref' \in [Branches -> Ref]
    <3>1. Candidate(e) \in Branches /\ exec[e].plan \in Plans
      BY <2>4, <2>5 DEF CreateBranch, CreateBranchUnanswered, c
    <3>2. ref' = [ref EXCEPT ![Candidate(e)].by = exec[e].plan]
      BY <2>5 DEF CreateBranch, CreateBranchUnanswered
    <3>3. QED
      BY <1>r, <3>1, <3>2 DEF Ref
  <2>6. ASSUME CreateBranch(e) PROVE TypeInv'
    <3> DEFINE n == [c EXCEPT !.pc = "persist", !.branch = Candidate(e)]
    <3>1. exec' = [exec EXCEPT ![e] = n]
      BY <2>6 DEF CreateBranch, c
    <3>2. Trying(e)
      BY <2>6 DEF CreateBranch
    <3>3. n \in Call /\ Shape(n)
      BY <2>c, <2>4, <3>2 DEF Call, Shape, Naming, Settled
    <3> HIDE DEF n
    <3>4. QED
      BY <1>p, <1>m, <1>k, <2>5, <2>6, <3>1, <3>3, CallUpdate DEF CreateBranch
  <2>7. ASSUME CreateBranchUnanswered(e) \/ BranchExists(e) PROVE TypeInv'
    <3> DEFINE n == [c EXCEPT !.pc = "check"]
    <3>1. exec' = [exec EXCEPT ![e] = n]
      BY <1>x, <2>7 DEF CreateBranchUnanswered, BranchExists, c
    <3>2. Trying(e)
      BY <2>7 DEF CreateBranchUnanswered, BranchExists
    <3>3. n \in Call /\ Shape(n)
      BY <2>c, <2>4, <3>2 DEF Call, Shape, Naming, Settled
    <3> HIDE DEF n
    <3>4. ref' \in [Branches -> Ref]
      BY <1>r, <2>5, <2>7 DEF BranchExists
    <3>5. QED
      BY <1>p, <1>m, <1>k, <2>7, <3>1, <3>3, <3>4, CallUpdate
      DEF CreateBranchUnanswered, BranchExists
  <2>8. ASSUME CheckMarker(e) PROVE TypeInv'
    <3> DEFINE n1 == [c EXCEPT !.pc = "persist", !.branch = Candidate(e)]
               n2 == [c EXCEPT !.pc = "branch", !.tries = c.tries + 1]
    <3>1. c.pc = "check"
      BY <2>8 DEF CheckMarker, c
    <3>2. /\ c.from \in Branches /\ c.tries \in Nat /\ c.tries > 0
          /\ c.tries <= Len(Candidates[c.from])
      BY <2>c, <3>1 DEF Shape, Call
    <3>3. Candidate(e) \in Branches
      BY <3>2, CandidateType DEF Candidate, c
    <3>4. n1 \in Call /\ Shape(n1)
      BY <2>c, <3>1, <3>3 DEF Call, Shape, Naming, Settled
    <3>5. n2 \in Call /\ Shape(n2)
      <4>0. c.tries + 1 \in Nat
        BY <3>2
      <4>1. n2 \in Call
        <5> DEFINE m == c.tries + 1
        <5>1. m \in Nat
          BY <4>0
        <5> HIDE DEF m
        <5>2. [c EXCEPT !.pc = "branch", !.tries = m] \in Call
          BY <2>c, <5>1 DEF Call, Naming, Settled
        <5>3. QED
          BY <5>2 DEF m
      <4>2. /\ n2.plan = c.plan /\ n2.from = c.from
            /\ n2.pc = "branch" /\ n2.tries = c.tries + 1
        BY <2>c DEF Call
      <4>3. QED
        BY <2>c, <3>1, <3>2, <4>1, <4>2 DEF Shape, Settled
    <3>6. exec' = [exec EXCEPT ![e] = n1] \/ exec' = [exec EXCEPT ![e] = n2]
      <4>1. exec[e] = c
        BY DEF c
      <4>2. CASE ref[Candidate(e)].marker = exec[e].plan
        BY <2>8, <4>1, <4>2 DEF CheckMarker
      <4>3. CASE ref[Candidate(e)].marker # exec[e].plan
        BY <2>8, <4>1, <4>3 DEF CheckMarker
      <4>4. QED
        BY <4>2, <4>3
    <3> HIDE DEF n1, n2
    <3>7. exec' \in [Executors -> Call] /\ \A d \in Executors : Shape(exec'[d])
      BY <3>4, <3>5, <3>6, CallUpdate
    <3>8. QED
      BY <1>p, <1>r, <1>m, <1>k, <2>8, <3>7 DEF CheckMarker
  <2>9. ASSUME c.pc \in Settled
        PROVE  c.plan \in Plans /\ c.from \in Branches /\ c.branch \in Branches
    BY <2>c, <2>9 DEF Shape, Settled
  <2>10. ASSUME PersistBranch(e) PROVE TypeInv'
    <3> DEFINE n == [c EXCEPT !.pc = "marker"]
    <3>1. exec' = [exec EXCEPT ![e] = n] /\ c.pc = "persist"
      BY <1>x, <2>10 DEF PersistBranch, c
    <3>2. n \in Call /\ Shape(n)
      BY <2>c, <3>1 DEF Call, Shape, Naming, Settled
    <3>3. plan' \in [Plans -> Plan]
      <4>1. c.plan \in Plans /\ c.branch \in Branches
        BY <2>9, <3>1 DEF Settled
      <4>2. plan' = plan \/ plan' = [plan EXCEPT ![c.plan].branch = c.branch]
        BY <2>10 DEF PersistBranch, c
      <4>3. QED
        BY <1>p, <4>1, <4>2 DEF Plan
    <3> HIDE DEF n
    <3>4. QED
      BY <1>r, <1>m, <1>k, <2>10, <3>1, <3>2, <3>3, CallUpdate DEF PersistBranch
  <2>11. ASSUME PutMarker(e) PROVE TypeInv'
    <3> DEFINE n == [c EXCEPT !.pc = "files", !.todo = Files[c.plan], !.changed = FALSE]
    <3>1. exec' = [exec EXCEPT ![e] = n] /\ c.pc = "marker"
      BY <1>x, <2>11 DEF PutMarker, c
    <3>2. c.plan \in Plans /\ c.branch \in Branches
      BY <2>9, <3>1 DEF Settled
    <3>3. n \in Call /\ Shape(n)
      BY <2>c, <3>1, <3>2, ConstantAssumption DEF Call, Shape, Naming, Settled
    <3>4. ref' \in [Branches -> Ref]
      <4>1. ref' = [ref EXCEPT ![c.branch].marker = c.plan,
                               ![c.branch].wrote = @ \cup {c.plan}]
        BY <2>11 DEF PutMarker, c
      <4>2. [ref[c.branch] EXCEPT !.marker = c.plan,
                                  !.wrote = ref[c.branch].wrote \cup {c.plan}] \in Ref
        BY <1>r, <3>2 DEF Ref
      <4>3. QED
        BY <1>r, <3>2, <4>1, <4>2
    <3> HIDE DEF n
    <3>5. QED
      BY <1>p, <1>m, <1>k, <2>11, <3>1, <3>3, <3>4, CallUpdate DEF PutMarker
  <2>12. ASSUME NEW f \in Paths, NEW w \in BOOLEAN, FileDone(e, f, w)
         PROVE  /\ exec' \in [Executors -> Call]
                /\ \A d \in Executors : Shape(exec'[d])
                /\ c.plan \in Plans /\ c.branch \in Branches
    <3> DEFINE n == [c EXCEPT !.todo = c.todo \ {f}, !.changed = c.changed \/ w]
    <3>1. exec' = [exec EXCEPT ![e] = n] /\ c.pc = "files"
      BY <2>12 DEF FileDone, c
    <3>2. n \in Call /\ Shape(n)
      BY <2>c, <3>1 DEF Call, Shape, Naming, Settled
    <3> HIDE DEF n
    <3>3. QED
      BY <2>9, <3>1, <3>2, CallUpdate DEF Settled
  <2>13. ASSUME NEW f \in Paths, WriteFile(e, f) PROVE TypeInv'
    <3>1. FileDone(e, f, TRUE)
      BY <2>13 DEF WriteFile
    <3>2. ref' \in [Branches -> Ref]
      <4>1. ref' = [ref EXCEPT ![c.branch].files = @ \cup {f},
                               ![c.branch].wrote = @ \cup {c.plan}]
        BY <2>13 DEF WriteFile, c
      <4>2. c.plan \in Plans /\ c.branch \in Branches
        BY <2>12, <3>1
      <4>3. [ref[c.branch] EXCEPT !.files = ref[c.branch].files \cup {f},
                                  !.wrote = ref[c.branch].wrote \cup {c.plan}] \in Ref
        BY <1>r, <4>2 DEF Ref
      <4>4. QED
        BY <1>r, <4>1, <4>2, <4>3
    <3>3. QED
      BY <1>p, <1>m, <1>k, <2>12, <3>1, <3>2 DEF FileDone
  <2>14. ASSUME NEW f \in Paths, LeaveFile(e, f) PROVE TypeInv'
    <3>1. FileDone(e, f, FALSE) /\ ref' = ref
      BY <2>14 DEF LeaveFile
    <3>2. QED
      BY <1>p, <1>r, <1>m, <1>k, <2>12, <3>1 DEF FileDone
  <2>15. ASSUME OpenPullRequest(e) PROVE TypeInv'
    <3> DEFINE n == [c EXCEPT !.pc = "record"]
    <3>1. exec' = [exec EXCEPT ![e] = n] /\ c.pc = "files"
      BY <1>x, <2>15 DEF OpenPullRequest, c
    <3>2. n \in Call /\ Shape(n)
      BY <2>c, <3>1 DEF Call, Shape, Naming, Settled
    <3>3. ref' \in [Branches -> Ref]
      BY <1>r, <2>15 DEF OpenPullRequest, Ref
    <3> HIDE DEF n
    <3>4. QED
      BY <1>p, <1>m, <1>k, <2>15, <3>1, <3>2, <3>3, CallUpdate DEF OpenPullRequest
  <2>16. ASSUME RecordSuccess(e) PROVE TypeInv'
    <3>1. c.pc = "record" /\ exec' = [exec EXCEPT ![e] = Idle]
      BY <2>16 DEF RecordSuccess, c
    <3>2. plan' \in [Plans -> Plan]
      <4>1. plan' = [plan EXCEPT ![c.plan].status = "succeeded",
                                 ![c.plan].pr = c.branch]
        BY <2>16 DEF RecordSuccess, c
      <4>2. c.branch \in Branches
        BY <2>9, <3>1 DEF Settled
      <4>3. QED
        BY <1>p, <4>1, <4>2 DEF Plan, ExecutionStatus
    <3>3. QED
      BY <1>r, <1>m, <1>k, <2>16, <3>1, <3>2, IdleCall, CallUpdate DEF RecordSuccess
  <2>17. ASSUME RecordFailure(e), c.pc # "idle" PROVE TypeInv'
    <3>1. c.plan \in Plans
      BY <2>c, <2>17 DEF Shape
    <3>2. plan' \in [Plans -> Plan]
      BY <2>17, <3>1, SavesType DEF RecordFailure, ExecutionStatus, c
    <3>3. QED
      BY <1>r, <1>m, <1>k, <2>17, <3>2, IdleCall, CallUpdate DEF RecordFailure
  <2>18. ASSUME NamesExhausted(e) \/ NothingChanged(e) \/ StepRaises(e) PROVE TypeInv'
    BY <2>17, <2>18 DEF NamesExhausted, NothingChanged, StepRaises, c
  <2>19. ASSUME Crash(e) PROVE TypeInv'
    BY <1>p, <1>r, <1>m, <1>k, <2>19, IdleCall, CallUpdate DEF Crash
  <2>20. QED
    BY <1>1, <2>1, <2>2, <2>3, <2>6, <2>7, <2>8, <2>10, <2>11, <2>13, <2>14, <2>15,
       <2>16, <2>18, <2>19 DEF ExecutorStep
<1>2. CASE ChangePolicy
  BY <1>p, <1>r, <1>x, <1>s, <1>m, <1>2 DEF ChangePolicy
<1>3. CASE UNCHANGED vars
  BY <1>p, <1>r, <1>x, <1>s, <1>m, <1>k, <1>3 DEF vars
<1>4. QED
  BY <1>1, <1>2, <1>3 DEF Next

(* Every column has a value of its type and every call the fields that its *)
(* step needs: the loop over the names never runs off their end, and a     *)
(* call that writes to GitHub has a plan and a branch.                     *)
THEOREM TypeCorrect == Spec => []TypeOK
<1>1. TypeInv => TypeOK
  BY DEF TypeInv
<1>2. QED
  BY <1>1, TypeInit, TypeStep, PTL DEF Spec

-----------------------------------------------------------------------------
(* Who owns a branch. *)

(* A marker names the plan that created the branch, only that plan wrote   *)
(* on it, and its pull request has a change; foreign branches stay so.     *)
OwnedBranch(b) ==
    /\ ref[b].marker \in {None, ref[b].by}
    /\ ref[b].wrote \subseteq {ref[b].by}
    /\ ref[b].open => ref[b].files # {} /\ ref[b].marker = ref[b].by
    /\ ref[b].open => ref[b].by \in Plans
    /\ b \in Foreign => ref[b].by = Outsider

(* A call that has settled on a branch works for the plan that owns it. *)
OwningCall(e) ==
    /\ exec[e].pc \in Settled => ref[exec[e].branch].by = exec[e].plan
    /\ exec[e].pc \in {"files", "record"} => ref[exec[e].branch].marker = exec[e].plan
    /\ exec[e].pc = "files" /\ exec[e].changed => ref[exec[e].branch].files # {}
    /\ exec[e].pc = "record" => ref[exec[e].branch].open

OwnInv ==
    /\ \A b \in Branches : OwnedBranch(b)
    /\ \A e \in Executors : OwningCall(e)

(* What no step takes from a branch. *)
Grows(b) ==
    /\ ref[b].by # None => ref'[b].by = ref[b].by
    /\ ref[b].marker # None => ref'[b].marker = ref[b].marker
    /\ ref[b].files \subseteq ref'[b].files
    /\ ref[b].open => ref'[b].open

(* A call at a step past the naming has a plan and a branch. *)
LEMMA SettledCall ==
    ASSUME TypeInv, NEW e \in Executors, exec[e].pc \in Settled
    PROVE  exec[e].plan \in Plans /\ exec[e].branch \in Branches
BY DEF TypeInv, Shape, Settled

(* While the loop tries a name, it is a name and the call has a plan. *)
LEMMA TryingCall ==
    ASSUME TypeInv, NEW e \in Executors, Trying(e) \/ exec[e].pc = "check"
    PROVE  exec[e].plan \in Plans /\ Candidate(e) \in Branches
<1>1. exec[e] \in Call /\ Shape(exec[e])
  BY DEF TypeInv, TypeOK
<1>2. exec[e].pc \in {"branch", "check"}
  BY DEF Trying
<1>3. /\ exec[e].plan \in Plans /\ exec[e].from \in Branches
      /\ exec[e].tries \in Nat /\ exec[e].tries > 0
  BY <1>1, <1>2 DEF Shape, Call
<1>4. exec[e].tries <= Len(Candidates[exec[e].from])
  BY <1>1, <1>3, NameAssumption DEF Trying, Exhausted, Shape
<1>5. QED
  BY <1>3, <1>4, CandidateType DEF Candidate

(* The steps that write to GitHub only add, and only for the owner. *)
LEMMA BranchesGrow ==
    ASSUME TypeInv, OwnInv, NEW e \in Executors, ExecutorStep(e)
    PROVE  \A b \in Branches : Grows(b) /\ OwnedBranch(b)'
<1>r. ref \in [Branches -> Ref]
  BY DEF TypeInv, TypeOK
<1>o. \A b \in Branches : OwnedBranch(b)
  BY DEF OwnInv
<1>1. CASE ref' = ref
  BY <1>1, <1>o DEF Grows, OwnedBranch
<1>2. CASE CreateBranch(e) \/ CreateBranchUnanswered(e)
  <2> DEFINE x == Candidate(e)
  <2>1. x \in Branches /\ exec[e].plan \in Plans
    BY <1>2, TryingCall DEF CreateBranch, CreateBranchUnanswered
  <2>2. ref[x].by = None /\ ref' = [ref EXCEPT ![x].by = exec[e].plan]
    BY <1>2 DEF CreateBranch, CreateBranchUnanswered
  <2> HIDE DEF x
  <2> SUFFICES ASSUME NEW b \in Branches PROVE Grows(b) /\ OwnedBranch(b)'
    OBVIOUS
  <2>3. CASE b # x
    <3>1. ref'[b] = ref[b]
      BY <1>r, <2>1, <2>2, <2>3
    <3>2. QED
      BY <1>o, <3>1 DEF Grows, OwnedBranch
  <2>4. CASE b = x
    <3>1. /\ ref'[b].by = exec[e].plan /\ ref'[b].marker = ref[b].marker
          /\ ref'[b].wrote = ref[b].wrote /\ ref'[b].files = ref[b].files
          /\ ref'[b].open = ref[b].open
      BY <1>r, <2>1, <2>2, <2>4 DEF Ref
    <3>2. ref[b].wrote = {}
      <4>1. ref[b].wrote \subseteq {None} /\ ref[b].wrote \subseteq Plans
        BY <1>r, <1>o, <2>2, <2>4 DEF OwnedBranch, Ref
      <4>2. QED
        BY <4>1, ConstantAssumption
    <3>3. ref[b].marker = None /\ ~ ref[b].open /\ b \notin Foreign
      BY <1>o, <2>2, <2>4, ConstantAssumption DEF OwnedBranch
    <3>4. QED
      BY <2>2, <2>4, <3>1, <3>2, <3>3 DEF Grows, OwnedBranch
  <2>5. QED
    BY <2>3, <2>4
<1>3. CASE PutMarker(e) \/ OpenPullRequest(e) \/ \E f \in Paths : WriteFile(e, f)
  <2>1. exec[e].pc \in Settled
    BY <1>3 DEF PutMarker, OpenPullRequest, WriteFile, FileDone, Settled
  <2>x. PICK x \in Branches : x = exec[e].branch
    BY <2>1, SettledCall
  <2>2. exec[e].branch = x /\ exec[e].plan \in Plans /\ ref[x].by = exec[e].plan
    BY <2>1, <2>x, SettledCall DEF OwnInv, OwningCall
  <2>3. \A b \in Branches : b # x => ref'[b] = ref[b]
    BY <1>r, <1>3, <2>2 DEF PutMarker, OpenPullRequest, WriteFile
  <2>4. OwnedBranch(x)
    BY <1>o, <2>2
  <2>5. exec[e].plan # None
    BY <2>2, ConstantAssumption
  <2>6. Grows(x) /\ OwnedBranch(x)'
    <3>1. CASE PutMarker(e)
      <4>1. /\ ref'[x].by = ref[x].by /\ ref'[x].marker = exec[e].plan
            /\ ref'[x].wrote = ref[x].wrote \cup {exec[e].plan}
            /\ ref'[x].files = ref[x].files /\ ref'[x].open = ref[x].open
        BY <1>r, <2>2, <3>1 DEF PutMarker, Ref
      <4>2. QED
        BY <2>2, <2>4, <2>5, <4>1 DEF Grows, OwnedBranch
    <3>2. CASE OpenPullRequest(e)
      <4>1. /\ ref'[x].by = ref[x].by /\ ref'[x].marker = ref[x].marker
            /\ ref'[x].wrote = ref[x].wrote
            /\ ref'[x].files = ref[x].files /\ ref'[x].open
        BY <1>r, <2>2, <3>2 DEF OpenPullRequest, Ref
      <4>2. ref[x].files # {} /\ ref[x].marker = ref[x].by
        BY <2>2, <3>2 DEF OwnInv, OwningCall, OpenPullRequest
      <4>3. QED
        BY <2>2, <2>4, <4>1, <4>2 DEF Grows, OwnedBranch
    <3>3. ASSUME NEW f \in Paths, WriteFile(e, f) PROVE Grows(x) /\ OwnedBranch(x)'
      <4>1. /\ ref'[x].by = ref[x].by /\ ref'[x].marker = ref[x].marker
            /\ ref'[x].wrote = ref[x].wrote \cup {exec[e].plan}
            /\ ref'[x].files = ref[x].files \cup {f} /\ ref'[x].open = ref[x].open
        BY <1>r, <2>2, <3>3 DEF WriteFile, Ref
      <4>2. QED
        BY <2>2, <2>4, <4>1 DEF Grows, OwnedBranch
    <3>4. QED
      BY <1>3, <3>1, <3>2, <3>3
  <2>7. QED
    BY <1>o, <2>3, <2>6 DEF Grows, OwnedBranch
<1>4. QED
  BY <1>1, <1>2, <1>3
  DEF ExecutorStep, Claim, ListSiblings, SkipSibling, BranchExists, CheckMarker,
      PersistBranch, LeaveFile, RecordSuccess, RecordFailure, NamesExhausted,
      NothingChanged, StepRaises, Crash

(* A step of one call leaves the others where they are. *)
LEMMA OneCallMoves ==
    ASSUME TypeInv, NEW e \in Executors, ExecutorStep(e)
    PROVE  \A d \in Executors : d # e => exec'[d] = exec[d]
<1>1. exec \in [Executors -> Call]
  BY DEF TypeInv, TypeOK
<1>2. QED
  BY <1>1
  DEF ExecutorStep, Claim, ListSiblings, SkipSibling, CreateBranch,
      CreateBranchUnanswered, BranchExists, CheckMarker, PersistBranch, PutMarker,
      WriteFile, LeaveFile, FileDone, OpenPullRequest, RecordSuccess, RecordFailure,
      NamesExhausted, NothingChanged, StepRaises, Crash

(* A step moves one call; the branches the others settled on stay theirs. *)
LEMMA CallsOwn ==
    ASSUME TypeInv, OwnInv, NEW e \in Executors, ExecutorStep(e)
    PROVE  \A d \in Executors : OwningCall(d)'
<1>x. exec \in [Executors -> Call]
  BY DEF TypeInv, TypeOK
<1>r. ref \in [Branches -> Ref]
  BY DEF TypeInv, TypeOK
<1>o. /\ \A b \in Branches : OwnedBranch(b)
      /\ \A d \in Executors : OwningCall(d)
  BY DEF OwnInv
<1>g. \A b \in Branches : Grows(b)
  BY BranchesGrow
<1>1. ASSUME NEW d \in Executors, exec'[d] = exec[d] PROVE OwningCall(d)'
  <2>1. CASE exec[d].pc \notin Settled
    BY <1>1, <2>1 DEF OwningCall, Settled
  <2>2. CASE exec[d].pc \in Settled
    <3>x. PICK x \in Branches : x = exec[d].branch
      BY <2>2, SettledCall
    <3>1. exec[d].plan # None /\ ref[x].by = exec[d].plan
      BY <1>o, <2>2, <3>x, SettledCall, ConstantAssumption DEF OwningCall
    <3>2. Grows(x)
      BY <1>g
    <3>3. ref'[x].by = exec[d].plan
      BY <3>1, <3>2 DEF Grows
    <3>4. exec[d].pc \in {"files", "record"} => ref'[x].marker = exec[d].plan
      BY <1>o, <3>1, <3>2, <3>x DEF Grows, OwningCall
    <3>5. exec[d].pc = "files" /\ exec[d].changed => ref'[x].files # {}
      BY <1>o, <3>2, <3>x DEF Grows, OwningCall
    <3>6. exec[d].pc = "record" => ref'[x].open
      BY <1>o, <3>2, <3>x DEF Grows, OwningCall
    <3>7. QED
      BY <1>1, <3>x, <3>3, <3>4, <3>5, <3>6 DEF OwningCall
  <2>3. QED
    BY <2>1, <2>2
<1>2. \A d \in Executors : d # e => exec'[d] = exec[d]
  BY OneCallMoves
<1>3. OwningCall(e)'
  <2>1. CASE exec'[e].pc \notin Settled
    BY <2>1 DEF OwningCall, Settled
  <2>2. ASSUME CreateBranch(e) PROVE OwningCall(e)'
    <3>x. PICK x \in Branches : x = Candidate(e)
      BY <2>2, TryingCall DEF CreateBranch
    <3>1. exec'[e].pc = "persist" /\ exec'[e].branch = x /\ exec'[e].plan = exec[e].plan
      BY <1>x, <2>2, <3>x DEF CreateBranch, Call
    <3>2. ref'[x].by = exec[e].plan
      BY <1>r, <2>2, <3>x DEF CreateBranch, Ref
    <3>3. QED
      BY <3>1, <3>2 DEF OwningCall
  <2>3. ASSUME CheckMarker(e), ref[Candidate(e)].marker = exec[e].plan
        PROVE  OwningCall(e)'
    <3>x. PICK x \in Branches : x = Candidate(e)
      BY <2>3, TryingCall DEF CheckMarker
    <3>1. exec'[e].pc = "persist" /\ exec'[e].branch = x /\ exec'[e].plan = exec[e].plan
      BY <1>x, <2>3, <3>x DEF CheckMarker, Call
    <3>2. exec[e].plan # None
      BY <2>3, TryingCall, ConstantAssumption DEF CheckMarker
    <3>3. ref[x].by = exec[e].plan /\ ref' = ref
      BY <1>o, <2>3, <3>x, <3>2 DEF OwnedBranch, CheckMarker
    <3>4. QED
      BY <3>1, <3>3 DEF OwningCall
  <2>4. ASSUME exec[e].pc \in Settled, exec'[e].pc \in Settled,
               PersistBranch(e) \/ PutMarker(e) \/ OpenPullRequest(e)
                  \/ \E f \in Paths : WriteFile(e, f) \/ LeaveFile(e, f)
        PROVE  OwningCall(e)'
    <3>x. PICK x \in Branches : x = exec[e].branch
      BY <2>4, SettledCall
    <3>1. exec'[e].branch = x /\ exec'[e].plan = exec[e].plan
      <4>1. exec[e] \in Call
        BY <1>x
      <4>2. CASE PersistBranch(e) \/ PutMarker(e) \/ OpenPullRequest(e)
        BY <1>x, <3>x, <4>1, <4>2 DEF PersistBranch, PutMarker, OpenPullRequest, Call
      <4>3. ASSUME NEW f \in Paths, WriteFile(e, f) \/ LeaveFile(e, f)
            PROVE  exec'[e].branch = x /\ exec'[e].plan = exec[e].plan
        BY <1>x, <3>x, <4>1, <4>3 DEF WriteFile, LeaveFile, FileDone, Call
      <4>4. QED
        BY <2>4, <4>2, <4>3
    <3>2. exec[e].plan # None /\ ref[x].by = exec[e].plan
      BY <1>o, <2>4, <3>x, SettledCall, ConstantAssumption DEF OwningCall
    <3>g. Grows(x)
      BY <1>g
    <3>3. ref'[x].by = exec[e].plan
      BY <3>2, <3>g DEF Grows
    <3>4. CASE PersistBranch(e)
      BY <1>x, <3>1, <3>3, <3>4 DEF PersistBranch, OwningCall, Call
    <3>5. CASE PutMarker(e)
      <4>1. exec'[e].pc = "files" /\ ~ exec'[e].changed
        BY <1>x, <3>5 DEF PutMarker, Call
      <4>2. ref'[x].marker = exec[e].plan
        BY <1>r, <3>5, <3>x DEF PutMarker, Ref
      <4>3. QED
        BY <3>1, <3>3, <4>1, <4>2 DEF OwningCall
    <3>6. ASSUME NEW f \in Paths, WriteFile(e, f) PROVE OwningCall(e)'
      <4>1. exec'[e].pc = "files"
        BY <1>x, <3>6 DEF WriteFile, FileDone, Call
      <4>2. ref'[x].marker = exec[e].plan
        BY <1>o, <3>g, <3>2, <3>6, <3>x DEF OwningCall, Grows, WriteFile, FileDone
      <4>3. f \in ref'[x].files
        BY <1>r, <3>6, <3>x DEF WriteFile, Ref
      <4>4. QED
        BY <3>1, <3>3, <4>1, <4>2, <4>3 DEF OwningCall
    <3>7. ASSUME NEW f \in Paths, LeaveFile(e, f) PROVE OwningCall(e)'
      <4>1. exec'[e].pc = "files" /\ exec'[e].changed = (exec[e].changed \/ FALSE)
        BY <1>x, <3>7 DEF LeaveFile, FileDone, Call
      <4>2. exec[e].pc = "files" /\ ref' = ref
        BY <3>7 DEF LeaveFile, FileDone
      <4>3. ref'[x].marker = exec[e].plan /\ (exec[e].changed => ref'[x].files # {})
        BY <1>o, <3>x, <4>2 DEF OwningCall
      <4>4. QED
        BY <3>1, <3>3, <4>1, <4>3 DEF OwningCall
    <3>8. CASE OpenPullRequest(e)
      <4>1. exec'[e].pc = "record" /\ exec[e].pc = "files"
        BY <1>x, <3>8 DEF OpenPullRequest, Call
      <4>2. ref'[x].marker = exec[e].plan /\ ref'[x].open
        <5>1. ref[x].marker = exec[e].plan
          BY <1>o, <3>x, <4>1 DEF OwningCall
        <5>2. ref'[x].marker = exec[e].plan
          BY <3>2, <3>g, <5>1 DEF Grows
        <5>3. QED
          BY <1>r, <3>8, <3>x, <5>2 DEF OpenPullRequest, Ref
      <4>3. QED
        BY <3>1, <3>3, <4>1, <4>2 DEF OwningCall
    <3>9. QED
      BY <2>4, <3>4, <3>5, <3>6, <3>7, <3>8
  <2>5. \/ exec'[e].pc \notin Settled
        \/ CreateBranch(e)
        \/ CheckMarker(e) /\ ref[Candidate(e)].marker = exec[e].plan
        \/ /\ exec[e].pc \in Settled
           /\ PersistBranch(e) \/ PutMarker(e) \/ OpenPullRequest(e)
                 \/ \E f \in Paths : WriteFile(e, f) \/ LeaveFile(e, f)
    <3>1. CASE (\E p \in Plans : Claim(e, p)) \/ ListSiblings(e) \/ SkipSibling(e)
                  \/ CreateBranchUnanswered(e) \/ BranchExists(e) \/ Crash(e)
                  \/ RecordSuccess(e) \/ RecordFailure(e)
      <4>0. ASSUME NEW p \in Plans, Claim(e, p) PROVE exec'[e].pc \notin Settled
        BY <1>x, <4>0 DEF Claim, Idle, Settled
      <4>1. CASE Crash(e) \/ RecordSuccess(e) \/ RecordFailure(e)
        <5>1. exec'[e] = Idle
          BY <1>x, <4>1 DEF Crash, RecordSuccess, RecordFailure
        <5>2. QED
          BY <5>1 DEF Idle, Settled
      <4>2. CASE ListSiblings(e) \/ SkipSibling(e)
        BY <1>x, <4>2 DEF ListSiblings, SkipSibling, Call, Settled
      <4>3. CASE CreateBranchUnanswered(e) \/ BranchExists(e)
        BY <1>x, <4>3 DEF CreateBranchUnanswered, BranchExists, Call, Settled
      <4>4. QED
        BY <3>1, <4>0, <4>1, <4>2, <4>3
    <3>2. CASE CheckMarker(e) /\ ref[Candidate(e)].marker # exec[e].plan
      BY <1>x, <3>2 DEF CheckMarker, Call, Settled
    <3>3. CASE PersistBranch(e) \/ PutMarker(e) \/ OpenPullRequest(e)
                  \/ \E f \in Paths : WriteFile(e, f) \/ LeaveFile(e, f)
      BY <3>3
      DEF PersistBranch, PutMarker, OpenPullRequest, WriteFile, LeaveFile, FileDone, Settled
    <3>4. QED
      BY <3>1, <3>2, <3>3 DEF ExecutorStep, NamesExhausted, NothingChanged, StepRaises
  <2>6. QED
    BY <2>1, <2>2, <2>3, <2>4, <2>5
<1>4. QED
  BY <1>1, <1>2, <1>3

LEMMA OwnInit == Init => OwnInv
<1> SUFFICES ASSUME Init PROVE OwnInv
  OBVIOUS
<1>1. ASSUME NEW b \in Branches PROVE OwnedBranch(b)
  BY <1>1 DEF Init, OwnedBranch, NoRef
<1>2. ASSUME NEW e \in Executors PROVE OwningCall(e)
  BY <1>2 DEF Init, OwningCall, Idle, Settled
<1>3. QED
  BY <1>1, <1>2 DEF OwnInv

LEMMA OwnStep == TypeInv /\ OwnInv /\ [Next]_vars => OwnInv'
<1> SUFFICES ASSUME TypeInv, OwnInv, [Next]_vars PROVE OwnInv'
  OBVIOUS
<1>1. ASSUME NEW e \in Executors, ExecutorStep(e) PROVE OwnInv'
  BY <1>1, BranchesGrow, CallsOwn DEF OwnInv
<1>2. CASE ref' = ref /\ exec' = exec
  BY <1>2 DEF OwnInv, OwnedBranch, OwningCall
<1>3. QED
  BY <1>1, <1>2 DEF Next, ChangePolicy, vars

(* However names collide, whatever fails and however many workers run, a   *)
(* plan only ever writes on a branch that it created itself.               *)
THEOREM BranchOwnershipTheorem == Spec => []BranchOwnership
<1>1. OwnInv => BranchOwnership
  BY DEF OwnInv, OwnedBranch, BranchOwnership
<1>2. QED
  BY <1>1, TypeInit, TypeStep, OwnInit, OwnStep, PTL DEF Spec

(* An open pull request has a change and the marker of the plan it is for, *)
(* so a later run of that plan can recognise it.                           *)
THEOREM NoEmptyPullRequestTheorem == Spec => []NoEmptyPullRequest
<1>1. OwnInv => NoEmptyPullRequest
  BY DEF OwnInv, OwnedBranch, NoEmptyPullRequest
<1>2. QED
  BY <1>1, TypeInit, TypeStep, OwnInit, OwnStep, PTL DEF Spec

-----------------------------------------------------------------------------
(* Branch names. *)

(* A name a sibling has now is among those the loop avoids, unless the     *)
(* sibling has created that branch since: then GitHub answers 422.         *)
NamingCall(e) ==
    /\ exec[e].pc \in {"branch", "check", "persist"} =>
          \A q \in Siblings(exec[e].plan) :
             \/ plan[q].branch \in exec[e].siblings
             \/ ref[plan[q].branch].by = q
    /\ exec[e].pc = "check" => Candidate(e) \notin exec[e].siblings
    /\ exec[e].pc = "persist" => exec[e].branch \notin exec[e].siblings

NameInv == UniqueBranchNames /\ \A e \in Executors : NamingCall(e)

LEMMA SiblingsSymmetric ==
    ASSUME NEW p \in Plans, NEW q \in Plans
    PROVE  q \in Siblings(p) <=> p \in Siblings(q)
BY DEF Siblings

(* Only _persist_plan_branch renames a plan. *)
LEMMA NamesKept ==
    ASSUME TypeInv, NEW e \in Executors, ExecutorStep(e), ~ PersistBranch(e)
    PROVE  \A p \in Plans : plan'[p].branch = plan[p].branch
<1>1. plan \in [Plans -> Plan]
  BY DEF TypeInv, TypeOK
<1>2. CASE plan' = plan
  BY <1>2
<1>3. ASSUME NEW p \in Plans, Claim(e, p)
      PROVE  \A q \in Plans : plan'[q].branch = plan[q].branch
  BY <1>1, <1>3 DEF Claim, Plan
<1>4. CASE RecordSuccess(e)
  BY <1>1, <1>4 DEF RecordSuccess, Plan
<1>5. CASE RecordFailure(e)
  BY <1>1, <1>5 DEF RecordFailure, Plan
<1>6. QED
  BY <1>2, <1>3, <1>4, <1>5
  DEF ExecutorStep, ListSiblings, SkipSibling, CreateBranch, CreateBranchUnanswered,
      BranchExists, CheckMarker, PutMarker, WriteFile, LeaveFile, FileDone,
      OpenPullRequest, NamesExhausted, NothingChanged, StepRaises, Crash

LEMMA NameStep == TypeInv /\ OwnInv /\ NameInv /\ [Next]_vars => NameInv'
<1> SUFFICES ASSUME TypeInv, OwnInv, NameInv, [Next]_vars PROVE NameInv'
  OBVIOUS
<1>p. plan \in [Plans -> Plan]
  BY DEF TypeInv, TypeOK
<1>x. exec \in [Executors -> Call]
  BY DEF TypeInv, TypeOK
<1>n. UniqueBranchNames /\ \A e \in Executors : NamingCall(e)
  BY DEF NameInv
<1>1. ASSUME NEW e \in Executors, ExecutorStep(e), ~ PersistBranch(e) PROVE NameInv'
  <2>1. \A p \in Plans : plan'[p].branch = plan[p].branch
    BY <1>1, NamesKept
  <2>2. UniqueBranchNames'
    BY <1>n, <2>1 DEF UniqueBranchNames, Siblings
  <2>g. \A q \in Plans : ref[plan[q].branch].by = q => ref'[plan[q].branch].by = q
    <3>1. ASSUME NEW q \in Plans PROVE plan[q].branch \in Branches /\ q # None
      BY <1>p, <3>1, ConstantAssumption DEF Plan
    <3>2. \A b \in Branches : Grows(b)
      BY <1>1, BranchesGrow
    <3>3. QED
      BY <3>1, <3>2 DEF Grows
  <2>3. ASSUME NEW d \in Executors, exec'[d] = exec[d] PROVE NamingCall(d)'
    BY <1>n, <2>1, <2>3, <2>g DEF NamingCall, Siblings, Candidate
  <2>4. NamingCall(e)'
    <3>c. exec[e] \in Call
      BY <1>x
    <3>1. CASE exec'[e].pc \notin {"branch", "check", "persist"}
      BY <3>1 DEF NamingCall
    <3>2. ASSUME ListSiblings(e) PROVE NamingCall(e)'
      <4>1. /\ exec'[e].pc = "branch" /\ exec'[e].plan = exec[e].plan
            /\ exec'[e].siblings = {plan[q].branch : q \in Siblings(exec[e].plan)}
        BY <1>x, <3>2, <3>c DEF ListSiblings, Call
      <4>2. QED
        BY <2>1, <4>1 DEF NamingCall, Siblings
    <3>3. ASSUME exec[e].pc \in {"branch", "check"},
                 exec'[e].plan = exec[e].plan, exec'[e].siblings = exec[e].siblings,
                 exec'[e].pc = "check" => Candidate(e)' \notin exec[e].siblings,
                 exec'[e].pc = "persist" => exec'[e].branch \notin exec[e].siblings
          PROVE  NamingCall(e)'
      <4>1. \A q \in Siblings(exec[e].plan) :
               plan'[q].branch \in exec'[e].siblings \/ ref'[plan'[q].branch].by = q
        BY <1>n, <2>1, <2>g, <3>3 DEF NamingCall, Siblings
      <4>2. QED
        BY <3>3, <4>1 DEF NamingCall
    <3>4. CASE SkipSibling(e)
      <4>1. /\ exec'[e].plan = exec[e].plan /\ exec'[e].siblings = exec[e].siblings
            /\ exec'[e].pc = "branch" /\ exec[e].pc = "branch"
        BY <1>x, <3>4, <3>c DEF SkipSibling, Call
      <4>2. QED
        BY <3>3, <4>1
    <3>5. CASE CreateBranch(e)
      <4>1. /\ exec'[e].plan = exec[e].plan /\ exec'[e].siblings = exec[e].siblings
            /\ exec'[e].pc = "persist" /\ exec'[e].branch = Candidate(e)
        BY <1>x, <3>5, <3>c DEF CreateBranch, Call
      <4>2. exec[e].pc = "branch" /\ Candidate(e) \notin exec[e].siblings
        BY <3>5 DEF CreateBranch, Trying
      <4>3. QED
        BY <3>3, <4>1, <4>2
    <3>6. CASE CreateBranchUnanswered(e) \/ BranchExists(e)
      <4>1. /\ exec'[e].plan = exec[e].plan /\ exec'[e].siblings = exec[e].siblings
            /\ exec'[e].pc = "check" /\ Candidate(e)' = Candidate(e)
        BY <1>x, <3>6, <3>c DEF CreateBranchUnanswered, BranchExists, Candidate, Call
      <4>2. exec[e].pc = "branch" /\ Candidate(e) \notin exec[e].siblings
        BY <3>6 DEF CreateBranchUnanswered, BranchExists, Trying
      <4>3. QED
        BY <3>3, <4>1, <4>2
    <3>7. CASE CheckMarker(e)
      <4>1. exec[e].pc = "check" /\ Candidate(e) \notin exec[e].siblings
        BY <1>n, <3>7 DEF CheckMarker, NamingCall
      <4>2. /\ exec'[e].plan = exec[e].plan /\ exec'[e].siblings = exec[e].siblings
            /\ \/ exec'[e].pc = "persist" /\ exec'[e].branch = Candidate(e)
               \/ exec'[e].pc = "branch"
        BY <1>x, <3>7, <3>c DEF CheckMarker, Call
      <4>3. QED
        BY <3>3, <4>1, <4>2
    <3>8. \/ exec'[e].pc \notin {"branch", "check", "persist"}
          \/ ListSiblings(e) \/ SkipSibling(e) \/ CreateBranch(e)
          \/ CreateBranchUnanswered(e) \/ BranchExists(e) \/ CheckMarker(e)
      <4>1. ASSUME NEW p \in Plans, Claim(e, p)
            PROVE  exec'[e].pc \notin {"branch", "check", "persist"}
        BY <1>x, <4>1 DEF Claim, Idle
      <4>2. ASSUME Crash(e) \/ RecordSuccess(e) \/ RecordFailure(e)
            PROVE  exec'[e].pc \notin {"branch", "check", "persist"}
        <5>1. exec'[e] = Idle
          BY <1>x, <4>2 DEF Crash, RecordSuccess, RecordFailure
        <5>2. QED
          BY <5>1 DEF Idle
      <4>3. ASSUME PutMarker(e) \/ OpenPullRequest(e)
            PROVE  exec'[e].pc \notin {"branch", "check", "persist"}
        BY <1>x, <3>c, <4>3 DEF PutMarker, OpenPullRequest, Call
      <4>4. ASSUME NEW f \in Paths, WriteFile(e, f) \/ LeaveFile(e, f)
            PROVE  exec'[e].pc \notin {"branch", "check", "persist"}
        BY <1>x, <3>c, <4>4 DEF WriteFile, LeaveFile, FileDone, Call
      <4>5. QED
        BY <1>1, <4>1, <4>2, <4>3, <4>4
        DEF ExecutorStep, NamesExhausted, NothingChanged, StepRaises
    <3>9. QED
      BY <3>1, <3>2, <3>4, <3>5, <3>6, <3>7, <3>8
  <2>5. QED
    BY <1>1, <2>2, <2>3, <2>4, OneCallMoves DEF NameInv
<1>2. ASSUME NEW e \in Executors, PersistBranch(e) PROVE NameInv'
  <2>1. exec[e].pc = "persist"
    BY <1>2 DEF PersistBranch
  <2>2. exec[e].plan \in Plans /\ exec[e].branch \in Branches
    BY <2>1, SettledCall DEF Settled
  <2>x. PICK p \in Plans : p = exec[e].plan
    BY <2>2
  <2>b. PICK b \in Branches : b = exec[e].branch
    BY <2>2
  <2>3. ref[b].by = p /\ b \notin exec[e].siblings
    BY <1>n, <2>1, <2>x, <2>b DEF OwnInv, OwningCall, Settled, NamingCall
  <2>4. \A q \in Siblings(p) : plan[q].branch \in exec[e].siblings \/ ref[plan[q].branch].by = q
    BY <1>n, <2>1, <2>x DEF NamingCall
  <2>5. ref' = ref /\ plan'[p].branch \in {b, plan[p].branch}
    BY <1>2, <1>p, <2>x, <2>b DEF PersistBranch, Plan
  <2>6. \A q \in Plans : q # p => plan'[q].branch = plan[q].branch
    BY <1>2, <1>p, <2>x DEF PersistBranch
  <2>7. \A q \in Siblings(p) : q \in Plans /\ q # p /\ plan[q].branch # b
    BY <2>3, <2>4 DEF Siblings
  <2>8. UniqueBranchNames'
    <3> SUFFICES ASSUME NEW r \in Plans, NEW q \in Siblings(r)
                 PROVE  plan'[r].branch # plan'[q].branch
      BY DEF UniqueBranchNames, Siblings
    <3>0. q \in Plans /\ q # r
      BY DEF Siblings
    <3>1. CASE r = p
      BY <1>n, <2>5, <2>6, <2>7, <3>1 DEF UniqueBranchNames
    <3>2. CASE q = p
      BY <1>n, <2>5, <2>6, <2>7, <3>0, <3>2, SiblingsSymmetric DEF UniqueBranchNames
    <3>3. CASE r # p /\ q # p
      BY <1>n, <2>6, <3>0, <3>3 DEF UniqueBranchNames
    <3>4. QED
      BY <3>1, <3>2, <3>3
  <2>9. ASSUME NEW d \in Executors PROVE NamingCall(d)'
    <3>1. /\ exec'[d].plan = exec[d].plan /\ exec'[d].siblings = exec[d].siblings
          /\ exec'[d].branch = exec[d].branch /\ exec'[d].pc \in {exec[d].pc, "marker"}
          /\ Candidate(d)' = Candidate(d)
      <4>1. exec[d] \in Call
        BY <1>x
      <4>2. QED
        BY <1>2, <1>x, <4>1 DEF PersistBranch, Candidate, Call
    <3>2. \A q \in Siblings(exec[d].plan) :
             exec[d].pc \in {"branch", "check", "persist"} =>
                plan'[q].branch \in exec[d].siblings \/ ref'[plan'[q].branch].by = q
      <4> SUFFICES ASSUME NEW q \in Siblings(exec[d].plan),
                          exec[d].pc \in {"branch", "check", "persist"}
                   PROVE  plan'[q].branch \in exec[d].siblings \/ ref'[plan'[q].branch].by = q
        OBVIOUS
      <4>1. q \in Plans
        BY DEF Siblings
      <4>2. CASE q = p
        BY <1>n, <2>3, <2>5, <4>1, <4>2 DEF NamingCall
      <4>3. CASE q # p
        BY <1>n, <2>5, <2>6, <4>1, <4>3 DEF NamingCall
      <4>4. QED
        BY <4>2, <4>3
    <3>3. QED
      BY <1>n, <3>1, <3>2 DEF NamingCall
  <2>10. QED
    BY <2>8, <2>9 DEF NameInv
<1>3. CASE plan' = plan /\ ref' = ref /\ exec' = exec
  BY <1>n, <1>3 DEF NameInv, UniqueBranchNames, NamingCall, Candidate
<1>4. QED
  BY <1>1, <1>2, <1>3 DEF Next, ChangePolicy, vars

LEMMA NameInit == Init => NameInv
<1> SUFFICES ASSUME Init PROVE NameInv
  OBVIOUS
<1>1. UniqueBranchNames
  BY NameAssumption DEF Init, UniqueBranchNames, Siblings
<1>2. ASSUME NEW e \in Executors PROVE NamingCall(e)
  BY <1>2 DEF Init, NamingCall, Idle
<1>3. QED
  BY <1>1, <1>2 DEF NameInv

(* The plans of a session keep distinct branch names through every renaming: *)
(* the sibling names that _create_or_reuse_plan_branch read are stale by the *)
(* time it saves, but GitHub's 422 stands in for the ones it has missed.     *)
THEOREM UniqueBranchNamesTheorem == Spec => []UniqueBranchNames
<1>1. NameInv => UniqueBranchNames
  BY DEF NameInv
<1>2. QED
  BY <1>1, TypeInit, TypeStep, OwnInit, OwnStep, NameInit, NameStep, PTL DEF Spec

-----------------------------------------------------------------------------
(* One pull request per plan, while no live worker outlives its lease. *)

(* A plan with an open pull request has that branch for its name, so the   *)
(* loop tries it first and finds its own marker there.                     *)
TidyCall(e) ==
    /\ exec[e].pc \in Naming \cup {"persist"} =>
          exec[e].from = plan[exec[e].plan].branch
    /\ exec[e].pc \in {"branch", "check"} => exec[e].from \notin exec[e].siblings
    /\ exec[e].pc \in {"branch", "check"} /\ exec[e].from \in PullRequestsOf(exec[e].plan) =>
          exec[e].tries = 1
    /\ exec[e].pc = "persist" =>
          \A b \in PullRequestsOf(exec[e].plan) : exec[e].branch = b
    /\ exec[e].pc \in {"marker", "files", "record"} =>
          plan[exec[e].plan].branch = exec[e].branch

NamedAfterPR == \A p \in Plans : \A b \in PullRequestsOf(p) : plan[p].branch = b

PRInv == OneExecutor /\ NamedAfterPR /\ \A e \in Executors : TidyCall(e)

LEMMA HolderPlan ==
    ASSUME TypeInv, NEW e \in Executors, exec[e].pc # "idle"
    PROVE  exec[e].plan \in Plans
BY DEF TypeInv, Shape

LEMMA IdleSteps ==
    ASSUME TypeInv, NEW e \in Executors,
           Crash(e) \/ RecordSuccess(e) \/ RecordFailure(e)
    PROVE  exec'[e] = Idle /\ ref' = ref
BY DEF TypeInv, TypeOK, Crash, RecordSuccess, RecordFailure

(* A step that neither claims a plan nor ends a call keeps the holders. *)
OnTheWay(e) ==
    \/ ListSiblings(e) \/ SkipSibling(e) \/ CreateBranch(e) \/ CreateBranchUnanswered(e)
    \/ BranchExists(e) \/ CheckMarker(e) \/ PersistBranch(e) \/ PutMarker(e)
    \/ OpenPullRequest(e)
    \/ \E f \in Paths : WriteFile(e, f) \/ LeaveFile(e, f)

LEMMA OnTheWayKeeps ==
    ASSUME TypeInv, NEW e \in Executors, OnTheWay(e)
    PROVE  /\ exec[e].pc # "idle" /\ exec'[e].pc # "idle"
           /\ exec'[e].plan = exec[e].plan
           /\ \A p \in Plans : plan'[p].status = plan[p].status /\ plan'[p].pr = plan[p].pr
<1>p. plan \in [Plans -> Plan]
  BY DEF TypeInv, TypeOK
<1>x. exec \in [Executors -> Call] /\ exec[e] \in Call
  BY DEF TypeInv, TypeOK
<1>1. exec[e].pc # "idle"
  BY DEF OnTheWay, ListSiblings, SkipSibling, CreateBranch, CreateBranchUnanswered,
         BranchExists, CheckMarker, PersistBranch, PutMarker, OpenPullRequest, WriteFile,
         LeaveFile, FileDone, Trying
<1>2. exec'[e].pc # "idle" /\ exec'[e].plan = exec[e].plan
  <2>1. CASE ListSiblings(e) \/ SkipSibling(e)
    BY <1>x, <2>1 DEF ListSiblings, SkipSibling, Call
  <2>2. CASE CreateBranch(e) \/ CreateBranchUnanswered(e) \/ BranchExists(e)
    BY <1>x, <2>2 DEF CreateBranch, CreateBranchUnanswered, BranchExists, Call
  <2>3. CASE CheckMarker(e) \/ PersistBranch(e) \/ PutMarker(e) \/ OpenPullRequest(e)
    BY <1>x, <2>3 DEF CheckMarker, PersistBranch, PutMarker, OpenPullRequest, Call
  <2>4. ASSUME NEW f \in Paths, WriteFile(e, f) \/ LeaveFile(e, f)
        PROVE  exec'[e].pc # "idle" /\ exec'[e].plan = exec[e].plan
    BY <1>x, <2>4 DEF WriteFile, LeaveFile, FileDone, Call
  <2>5. QED
    BY <2>1, <2>2, <2>3, <2>4 DEF OnTheWay
<1>3. \A p \in Plans : plan'[p].status = plan[p].status /\ plan'[p].pr = plan[p].pr
  <2>1. CASE PersistBranch(e)
    BY <1>p, <2>1 DEF PersistBranch, Plan
  <2>2. CASE ~ PersistBranch(e)
    BY <2>2
    DEF OnTheWay, ListSiblings, SkipSibling, CreateBranch, CreateBranchUnanswered,
        BranchExists, CheckMarker, PutMarker, OpenPullRequest, WriteFile, LeaveFile,
        FileDone
  <2>3. QED
    BY <2>1, <2>2
<1>4. QED
  BY <1>1, <1>2, <1>3

LEMMA StepKinds ==
    ASSUME NEW e \in Executors, ExecutorStep(e)
    PROVE  \/ OnTheWay(e)
           \/ \E p \in Plans : Claim(e, p)
           \/ Crash(e) /\ plan' = plan
           \/ RecordSuccess(e)
           \/ RecordFailure(e) /\ exec[e].pc # "idle"
BY DEF ExecutorStep, OnTheWay, NamesExhausted, NothingChanged, StepRaises, Crash

(* The claim is exclusive. *)
LEMMA LockStep ==
    ASSUME NoStall, TypeInv, OneExecutor, NEW e \in Executors, ExecutorStep(e)
    PROVE  OneExecutor'
<1>p. plan \in [Plans -> Plan]
  BY DEF TypeInv, TypeOK
<1>d. \A d \in Executors : d # e => exec'[d] = exec[d]
  BY OneCallMoves
<1>1. CASE OnTheWay(e)
  <2>1. \A d \in Executors, p \in Plans : Holds(d, p)' <=> Holds(d, p)
    BY <1>1, <1>d, OnTheWayKeeps DEF Holds
  <2>2. \A p \in Plans : plan'[p].status = plan[p].status
    BY <1>1, OnTheWayKeeps
  <2>3. QED
    BY <2>1, <2>2 DEF OneExecutor
<1>2. ASSUME NEW p \in Plans, Claim(e, p) PROVE OneExecutor'
  <2>1. \A d \in Executors : ~ Holds(d, p)
    BY <1>2 DEF OneExecutor, Claim, Claimable, Expired, NoStall
  <2>2. Holds(e, p)' /\ \A q \in Plans : Holds(e, q)' => q = p
    <3>1. exec'[e].pc = "list" /\ exec'[e].plan = p
      BY <1>2 DEF Claim, Idle, TypeInv, TypeOK
    <3>2. QED
      BY <3>1 DEF Holds
  <2>3. \A d \in Executors, q \in Plans : d # e => (Holds(d, q)' <=> Holds(d, q))
    BY <1>d DEF Holds
  <2>4. /\ plan'[p].status = "running"
        /\ \A q \in Plans : q # p => plan'[q].status = plan[q].status
    BY <1>p, <1>2 DEF Claim, Plan
  <2>5. QED
    BY <2>1, <2>2, <2>3, <2>4 DEF OneExecutor
<1>3. CASE \/ Crash(e) /\ plan' = plan
           \/ RecordSuccess(e)
           \/ RecordFailure(e) /\ exec[e].pc # "idle"
  <2>1. exec[e].pc # "idle"
    BY <1>3 DEF Crash, RecordSuccess
  <2>x. PICK r \in Plans : r = exec[e].plan
    BY <2>1, HolderPlan
  <2>2. \A q \in Plans : ~ Holds(e, q)'
    BY <1>3, IdleSteps DEF Holds, Idle
  <2>3. \A d \in Executors, q \in Plans : d # e => (Holds(d, q)' <=> Holds(d, q))
    BY <1>d DEF Holds
  <2>4. \A d \in Executors : Holds(d, r) => d = e
    BY <2>1, <2>x DEF OneExecutor, Holds
  <2>5. \A q \in Plans : q # r => plan'[q].status = plan[q].status
    BY <1>p, <1>3, <2>x DEF RecordSuccess, RecordFailure, Plan
  <2>6. QED
    BY <2>2, <2>3, <2>4, <2>5 DEF OneExecutor
<1>4. \/ OnTheWay(e)
      \/ \E p \in Plans : Claim(e, p)
      \/ Crash(e) /\ plan' = plan
      \/ RecordSuccess(e)
      \/ RecordFailure(e) /\ exec[e].pc # "idle"
  BY StepKinds
<1>5. QED
  BY <1>1, <1>2, <1>3, <1>4

(* Only OpenPullRequest opens a pull request, on the branch of its call. *)
LEMMA PullRequestsKept ==
    ASSUME TypeInv, OwnInv, NEW e \in Executors, ExecutorStep(e), NEW p \in Plans
    PROVE  IF OpenPullRequest(e) /\ exec[e].plan = p
           THEN PullRequestsOf(p)' = PullRequestsOf(p) \cup {exec[e].branch}
           ELSE PullRequestsOf(p)' = PullRequestsOf(p)
<1>r. ref \in [Branches -> Ref]
  BY DEF TypeInv, TypeOK
<1>g. \A b \in Branches : Grows(b) /\ OwnedBranch(b)
  BY BranchesGrow DEF OwnInv
<1>n. p # None
  BY ConstantAssumption
<1>1. CASE OpenPullRequest(e)
  <2>x. PICK x \in Branches : x = exec[e].branch
    BY <1>1, SettledCall DEF OpenPullRequest, Settled
  <2>1. ref[x].by = exec[e].plan
    BY <1>1, <2>x DEF OwnInv, OwningCall, OpenPullRequest, Settled
  <2>2. ref'[x].open /\ ref'[x].by = ref[x].by
    BY <1>r, <1>1, <2>x DEF OpenPullRequest, Ref
  <2>3. \A b \in Branches : b # x => ref'[b] = ref[b]
    BY <1>r, <1>1, <2>x DEF OpenPullRequest
  <2>4. \A b \in Branches : (ref'[b].by = p /\ ref'[b].open)
           <=> ((ref[b].by = p /\ ref[b].open) \/ (b = x /\ exec[e].plan = p))
    BY <2>1, <2>2, <2>3
  <2>5. QED
    BY <1>1, <2>x, <2>4 DEF PullRequestsOf
<1>2. CASE ~ OpenPullRequest(e)
  <2>1. \A b \in Branches : (ref'[b].open <=> ref[b].open)
    <3>1. CASE ref' = ref
      BY <3>1
    <3>2. CASE CreateBranch(e) \/ CreateBranchUnanswered(e)
      BY <1>r, <3>2 DEF CreateBranch, CreateBranchUnanswered, Ref
    <3>3. CASE PutMarker(e)
      BY <1>r, <3>3 DEF PutMarker, Ref
    <3>4. ASSUME NEW f \in Paths, WriteFile(e, f)
          PROVE  \A b \in Branches : (ref'[b].open <=> ref[b].open)
      BY <1>r, <3>4 DEF WriteFile, Ref
    <3>5. QED
      BY <1>2, <3>1, <3>2, <3>3, <3>4
      DEF ExecutorStep, Claim, ListSiblings, SkipSibling, BranchExists, CheckMarker,
          PersistBranch, LeaveFile, RecordSuccess, RecordFailure, NamesExhausted,
          NothingChanged, StepRaises, Crash
  <2>2. \A b \in Branches : ref[b].open => ref'[b].by = ref[b].by
    BY <1>g, ConstantAssumption DEF Grows, OwnedBranch
  <2>3. QED
    BY <1>2, <2>1, <2>2 DEF PullRequestsOf
<1>3. QED
  BY <1>1, <1>2

(* A plan that has a pull request is trying the name of that branch. *)
LEMMA TriesOwnBranch ==
    ASSUME TypeInv, PRInv, NEW e \in Executors, exec[e].pc \in {"branch", "check"},
           NEW b \in PullRequestsOf(exec[e].plan)
    PROVE  /\ b = exec[e].from /\ exec[e].tries = 1 /\ Candidate(e) = b
           /\ b \in Branches /\ ref[b].by = exec[e].plan /\ ref[b].open
<1>1. exec[e].plan \in Plans
  BY HolderPlan
<1>2. plan[exec[e].plan].branch = b /\ exec[e].from = plan[exec[e].plan].branch
  BY <1>1 DEF PRInv, NamedAfterPR, TidyCall, Naming
<1>3. exec[e].tries = 1
  BY <1>2 DEF PRInv, TidyCall
<1>4. b \in Branches /\ ref[b].by = exec[e].plan /\ ref[b].open
  BY DEF PullRequestsOf
<1>5. QED
  BY <1>2, <1>3, <1>4, NameAssumption DEF Candidate

LEMMA NamedAfterPRStep ==
    ASSUME TypeInv, OwnInv, PRInv, NEW e \in Executors, ExecutorStep(e)
    PROVE  NamedAfterPR'
<1>p. plan \in [Plans -> Plan]
  BY DEF TypeInv, TypeOK
<1>1. CASE PersistBranch(e)
  <2>1. exec[e].pc = "persist" /\ ~ OpenPullRequest(e)
    BY <1>1 DEF PersistBranch, OpenPullRequest
  <2>x. PICK r \in Plans : r = exec[e].plan
    BY <2>1, HolderPlan
  <2>2. \A q \in Plans : PullRequestsOf(q)' = PullRequestsOf(q)
    BY <2>1, PullRequestsKept
  <2>3. \A b \in PullRequestsOf(r) : exec[e].branch = b
    BY <2>1, <2>x DEF PRInv, TidyCall
  <2>4. /\ plan'[r].branch = exec[e].branch
        /\ \A q \in Plans : q # r => plan'[q].branch = plan[q].branch
    BY <1>1, <1>p, <2>x, <2>1 DEF PersistBranch, Plan, PRInv, TidyCall
  <2>5. QED
    BY <2>2, <2>3, <2>4 DEF PRInv, NamedAfterPR
<1>2. CASE ~ PersistBranch(e)
  <2>1. \A q \in Plans : plan'[q].branch = plan[q].branch
    BY <1>2, NamesKept
  <2>2. CASE ~ OpenPullRequest(e)
    <3>1. \A q \in Plans : PullRequestsOf(q)' = PullRequestsOf(q)
      BY <2>2, PullRequestsKept
    <3>2. QED
      BY <2>1, <3>1 DEF PRInv, NamedAfterPR
  <2>3. CASE OpenPullRequest(e)
    <3>1. exec[e].pc = "files"
      BY <2>3 DEF OpenPullRequest
    <3>x. PICK r \in Plans : r = exec[e].plan
      BY <3>1, HolderPlan
    <3>2. plan[r].branch = exec[e].branch
      BY <3>1, <3>x DEF PRInv, TidyCall
    <3>3. /\ PullRequestsOf(r)' = PullRequestsOf(r) \cup {exec[e].branch}
          /\ \A q \in Plans : q # r => PullRequestsOf(q)' = PullRequestsOf(q)
      BY <2>3, <3>x, PullRequestsKept
    <3>4. QED
      BY <2>1, <3>2, <3>3 DEF PRInv, NamedAfterPR
  <2>4. QED
    BY <2>2, <2>3
<1>3. QED
  BY <1>1, <1>2

(* The other calls are for other plans, which keep names and pull requests. *)
LEMMA OthersTidy ==
    ASSUME TypeInv, OwnInv, PRInv, NEW e \in Executors, ExecutorStep(e),
           NEW d \in Executors, d # e
    PROVE  TidyCall(d)'
<1>p. plan \in [Plans -> Plan]
  BY DEF TypeInv, TypeOK
<1>1. exec'[d] = exec[d]
  BY OneCallMoves
<1>2. CASE exec[d].pc = "idle"
  BY <1>1, <1>2 DEF TidyCall, Naming
<1>3. CASE exec[d].pc # "idle"
  <2>x. PICK r \in Plans : r = exec[d].plan
    BY <1>3, HolderPlan
  <2>1. exec[e].pc # "idle" => exec[e].plan # r
    BY <1>3, <2>x DEF PRInv, OneExecutor, Holds
  <2>2. plan'[r].branch = plan[r].branch
    <3>1. CASE PersistBranch(e)
      BY <1>p, <2>1, <3>1 DEF PersistBranch
    <3>2. CASE ~ PersistBranch(e)
      BY <3>2, NamesKept
    <3>3. QED
      BY <3>1, <3>2
  <2>3. PullRequestsOf(r)' = PullRequestsOf(r)
    BY <2>1, PullRequestsKept DEF OpenPullRequest
  <2>4. TidyCall(d)
    BY DEF PRInv
  <2>5. exec'[d].plan = r /\ exec[d].plan = r
    BY <1>1, <2>x
  <2>6. PullRequestsOf(exec[d].plan)' = PullRequestsOf(exec[d].plan)
    BY <2>3, <2>5 DEF PullRequestsOf
  <2>7. QED
    BY <1>1, <2>2, <2>4, <2>5, <2>6 DEF TidyCall
<1>4. QED
  BY <1>2, <1>3

LEMMA CallTidy ==
    ASSUME TypeInv, OwnInv, NameInv, PRInv, NEW e \in Executors, ExecutorStep(e)
    PROVE  TidyCall(e)'
<1>p. plan \in [Plans -> Plan]
  BY DEF TypeInv, TypeOK
<1>x. exec \in [Executors -> Call] /\ exec[e] \in Call
  BY DEF TypeInv, TypeOK
<1>t. TidyCall(e)
  BY DEF PRInv
<1>1. CASE exec'[e].pc = "idle"
  BY <1>1 DEF TidyCall, Naming
<1>2. ASSUME NEW q \in Plans, Claim(e, q) PROVE TidyCall(e)'
  <2>1. exec'[e].pc = "list" /\ exec'[e].plan = q /\ exec'[e].from = plan[q].branch
    BY <1>x, <1>2 DEF Claim, Idle
  <2>2. plan'[q].branch = plan[q].branch
    BY <1>p, <1>2 DEF Claim, Plan
  <2>3. QED
    BY <2>1, <2>2 DEF TidyCall, Naming
<1>3. CASE OnTheWay(e)
  <2>x. PICK r \in Plans : r = exec[e].plan
    BY <1>3, OnTheWayKeeps, HolderPlan
  <2>0. exec'[e].plan = r /\ exec[e].plan = r
    BY <1>3, <2>x, OnTheWayKeeps
  <2>n. ~ PersistBranch(e) => plan'[r].branch = plan[r].branch
    BY NamesKept
  <2>o. ~ OpenPullRequest(e) => PullRequestsOf(r)' = PullRequestsOf(r)
    BY PullRequestsKept
  <2>q. PullRequestsOf(exec[e].plan)' = PullRequestsOf(r)'
    BY <2>0 DEF PullRequestsOf
  <2>1. CASE ListSiblings(e)
    <3>1. /\ exec[e].pc = "list" /\ exec'[e].pc = "branch"
          /\ exec'[e].from = exec[e].from /\ exec'[e].tries = 1
          /\ exec'[e].siblings = {plan[q].branch : q \in Siblings(r)}
      BY <1>x, <2>1, <2>0 DEF ListSiblings, Call
    <3>2. exec[e].from = plan[r].branch
      BY <1>t, <2>0, <3>1 DEF TidyCall, Naming
    <3>3. exec[e].from \notin {plan[q].branch : q \in Siblings(r)}
      BY <3>2 DEF NameInv, UniqueBranchNames
    <3>4. plan' = plan
      BY <2>1 DEF ListSiblings
    <3>5. QED
      BY <2>0, <3>1, <3>2, <3>3, <3>4 DEF TidyCall, Naming
  <2>2. CASE SkipSibling(e) \/ CreateBranch(e) \/ CreateBranchUnanswered(e)
               \/ BranchExists(e) \/ CheckMarker(e)
    <3>1. /\ exec[e].pc \in {"branch", "check"}
          /\ plan' = plan /\ PullRequestsOf(r)' = PullRequestsOf(r)
      BY <2>2, <2>o
      DEF SkipSibling, CreateBranch, CreateBranchUnanswered, BranchExists, CheckMarker,
          Trying, OpenPullRequest
    <3>2. \A b \in PullRequestsOf(r) :
             /\ b = exec[e].from /\ exec[e].tries = 1 /\ Candidate(e) = b
             /\ b \in Branches /\ ref[b].by = r /\ ref[b].open
      BY <2>0, <3>1, TriesOwnBranch
    <3>3. exec[e].from = plan[r].branch /\ exec[e].from \notin exec[e].siblings
      BY <1>t, <2>0, <3>1 DEF TidyCall, Naming
    <3>f. r # None
      BY ConstantAssumption
    <3>4. CASE SkipSibling(e)
      <4>1. /\ exec'[e].pc = "branch" /\ exec'[e].from = exec[e].from
            /\ exec'[e].siblings = exec[e].siblings
            /\ Candidate(e) \in exec[e].siblings
        BY <1>x, <3>4 DEF SkipSibling, Call
      <4>2. PullRequestsOf(r) = {}
        BY <3>2, <3>3, <4>1
      <4>3. QED
        BY <2>0, <2>q, <3>1, <3>3, <4>1, <4>2 DEF TidyCall, Naming
    <3>5. CASE CreateBranch(e)
      <4>1. /\ exec'[e].pc = "persist" /\ exec'[e].from = exec[e].from
            /\ ref[Candidate(e)].by = None
        BY <1>x, <3>5 DEF CreateBranch, Call
      <4>2. PullRequestsOf(r) = {}
        BY <3>2, <3>f, <4>1
      <4>3. QED
        BY <2>0, <2>q, <3>1, <3>3, <4>1, <4>2 DEF TidyCall, Naming
    <3>6. CASE CreateBranchUnanswered(e) \/ BranchExists(e)
      <4>1. /\ exec'[e].pc = "check" /\ exec'[e].from = exec[e].from
            /\ exec'[e].siblings = exec[e].siblings /\ exec'[e].tries = exec[e].tries
        BY <1>x, <3>6 DEF CreateBranchUnanswered, BranchExists, Call
      <4>2. QED
        BY <2>0, <2>q, <3>1, <3>2, <3>3, <4>1 DEF TidyCall, Naming
    <3>7. CASE CheckMarker(e) /\ ref[Candidate(e)].marker = exec[e].plan
      <4>1. /\ exec'[e].pc = "persist" /\ exec'[e].branch = Candidate(e)
            /\ exec'[e].from = exec[e].from
        BY <1>x, <3>7 DEF CheckMarker, Call
      <4>2. QED
        BY <2>0, <2>q, <3>1, <3>2, <3>3, <4>1 DEF TidyCall, Naming
    <3>8. CASE CheckMarker(e) /\ ref[Candidate(e)].marker # exec[e].plan
      <4>1. /\ exec'[e].pc = "branch" /\ exec'[e].from = exec[e].from
            /\ exec'[e].siblings = exec[e].siblings
        BY <1>x, <3>8 DEF CheckMarker, Call
      <4>2. PullRequestsOf(r) = {}
        BY <2>0, <3>2, <3>8 DEF OwnInv, OwnedBranch
      <4>3. QED
        BY <2>0, <2>q, <3>1, <3>3, <4>1, <4>2 DEF TidyCall, Naming
    <3>9. QED
      BY <2>2, <3>4, <3>5, <3>6, <3>7, <3>8
  <2>3. CASE PersistBranch(e)
    <3>1. exec'[e].pc = "marker" /\ exec'[e].branch = exec[e].branch
      BY <1>x, <2>3 DEF PersistBranch, Call
    <3>2. plan'[r].branch = exec[e].branch
      BY <1>p, <1>t, <2>0, <2>3 DEF PersistBranch, Plan, TidyCall
    <3>3. QED
      BY <2>0, <3>1, <3>2 DEF TidyCall, Naming
  <2>4. ASSUME exec[e].pc \in {"marker", "files"}, exec'[e].pc \in {"files", "record"},
               exec'[e].branch = exec[e].branch, plan' = plan
        PROVE  TidyCall(e)'
    BY <1>t, <2>0, <2>4 DEF TidyCall, Naming
  <2>5. CASE PutMarker(e) \/ OpenPullRequest(e)
    BY <1>x, <2>4, <2>5 DEF PutMarker, OpenPullRequest, Call
  <2>6. ASSUME NEW f \in Paths, WriteFile(e, f) \/ LeaveFile(e, f) PROVE TidyCall(e)'
    BY <1>x, <2>4, <2>6 DEF WriteFile, LeaveFile, FileDone, Call
  <2>7. QED
    BY <1>3, <2>1, <2>2, <2>3, <2>5, <2>6 DEF OnTheWay
<1>4. Crash(e) \/ RecordSuccess(e) \/ RecordFailure(e) => exec'[e].pc = "idle"
  BY IdleSteps DEF Idle
<1>5. QED
  BY <1>1, <1>2, <1>3, <1>4, StepKinds

LEMMA PRStep ==
    NoStall /\ TypeInv /\ OwnInv /\ NameInv /\ PRInv /\ [Next]_vars => PRInv'
<1> SUFFICES ASSUME NoStall, TypeInv, OwnInv, NameInv, PRInv, [Next]_vars PROVE PRInv'
  OBVIOUS
<1>1. ASSUME NEW e \in Executors, ExecutorStep(e) PROVE PRInv'
  <2>1. OneExecutor'
    BY <1>1, LockStep DEF PRInv
  <2>2. NamedAfterPR'
    BY <1>1, NamedAfterPRStep
  <2>3. \A d \in Executors : TidyCall(d)'
    BY <1>1, OthersTidy, CallTidy
  <2>4. QED
    BY <2>1, <2>2, <2>3 DEF PRInv
<1>2. CASE plan' = plan /\ ref' = ref /\ exec' = exec
  BY <1>2 DEF PRInv, OneExecutor, Holds, NamedAfterPR, TidyCall, PullRequestsOf
<1>3. QED
  BY <1>1, <1>2 DEF Next, ChangePolicy, vars

LEMMA PRInit == Init => PRInv
<1> SUFFICES ASSUME Init PROVE PRInv
  OBVIOUS
<1>1. \A p \in Plans : PullRequestsOf(p) = {}
  BY DEF Init, NoRef, PullRequestsOf
<1>2. \A e \in Executors : exec[e].pc = "idle"
  BY DEF Init, Idle
<1>3. QED
  BY <1>1, <1>2 DEF PRInv, OneExecutor, Holds, NamedAfterPR, TidyCall, Naming

LEMMA PRInvariant ==
    ASSUME NoStall
    PROVE  Spec => [](TypeInv /\ OwnInv /\ NameInv /\ PRInv)
<1>1. NoStall
  OBVIOUS
<1>2. Init => TypeInv /\ OwnInv /\ NameInv /\ PRInv
  BY TypeInit, OwnInit, NameInit, PRInit
<1>3. TypeInv /\ OwnInv /\ NameInv /\ PRInv /\ [Next]_vars
         => (TypeInv /\ OwnInv /\ NameInv /\ PRInv)'
  BY <1>1, TypeStep, OwnStep, NameStep, PRStep
<1>4. QED
  BY <1>2, <1>3, PTL DEF Spec

(* While no live worker outlives the 30 minutes of its claim, a plan never *)
(* has two open pull requests, however often it is started over after a    *)
(* crash, an error or a lost answer.                                       *)
THEOREM OnePRPerPlanTheorem ==
    ASSUME NoStall
    PROVE  Spec => []OnePRPerPlan
<1>1. PRInv => OnePRPerPlan
  BY DEF PRInv, NamedAfterPR, OnePRPerPlan
<1>2. QED
  BY <1>1, PRInvariant, PTL

=============================================================================
