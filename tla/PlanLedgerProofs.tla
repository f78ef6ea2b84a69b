-------------------------- MODULE PlanLedgerProofs --------------------------
(***************************************************************************)
(* PlanExecution implements PullRequestLedger while no live worker         *)
(* outlives its lease: OpenPullRequest maps to Open or, for a head that    *)
(* has its pull request already, to a stutter; RecordSuccess maps to       *)
(* Record; every other step of the executor is invisible in the ledger.    *)
(***************************************************************************)
EXTENDS PlanExecutionProofs

(* The pull request of a plan, of which there is at most one. *)
The(S) == IF S = {} THEN None ELSE CHOOSE b \in Branches : b \in S

LEMMA TheOne ==
    ASSUME NEW S, NEW b \in Branches, S = {b}
    PROVE  The(S) = b
BY DEF The

LEMMA OpenedPrime ==
    /\ opened = [p \in Plans |-> The(PullRequestsOf(p))]
    /\ opened' = [p \in Plans |-> The(PullRequestsOf(p)')]
BY DEF opened, The

(* A plan that has its pull request shows it under its branch. *)
LEMMA SinglePullRequest ==
    ASSUME NamedAfterPR, NEW p \in Plans, NEW b \in PullRequestsOf(p)
    PROVE  PullRequestsOf(p) = {b} /\ b \in Branches /\ opened[p] = b
<1>1. PullRequestsOf(p) = {b} /\ b \in Branches
  BY DEF NamedAfterPR, PullRequestsOf
<1>2. QED
  BY <1>1, TheOne, OpenedPrime

(* A held plan is running, so it has recorded nothing yet. *)
LEMMA HeldUnrecorded ==
    ASSUME TypeInv, PRInv, NEW e \in Executors, exec[e].pc # "idle"
    PROVE  plan[exec[e].plan].status = "running" /\ recorded[exec[e].plan] = None
<1>x. PICK r \in Plans : r = exec[e].plan
  BY HolderPlan
<1>1. plan[r].status = "running"
  BY <1>x DEF PRInv, OneExecutor, Holds
<1>2. QED
  BY <1>x, <1>1 DEF recorded

LEMMA LedgerInit == Init => Ledger!Init
<1> SUFFICES ASSUME Init PROVE Ledger!Init
  OBVIOUS
<1>1. \A p \in Plans : PullRequestsOf(p) = {}
  BY DEF Init, NoRef, PullRequestsOf
<1>2. opened = [p \in Plans |-> None]
  BY <1>1, OpenedPrime DEF The
<1>3. recorded = [p \in Plans |-> None]
  BY DEF Init, recorded
<1>4. QED
  BY <1>2, <1>3 DEF Ledger!Init

(* What leaves the pull requests alone leaves opened alone. *)
LEMMA OpenedKept ==
    ASSUME TypeInv, OwnInv, NEW e \in Executors, ExecutorStep(e), ~ OpenPullRequest(e)
    PROVE  opened' = opened
BY PullRequestsKept, OpenedPrime

(* Only RecordSuccess changes what is recorded. *)
LEMMA RecordedKept ==
    ASSUME TypeInv, PRInv, NEW e \in Executors, ExecutorStep(e), ~ RecordSuccess(e)
    PROVE  recorded' = recorded
<1>p. plan \in [Plans -> Plan]
  BY DEF TypeInv, TypeOK
<1> SUFFICES ASSUME NEW q \in Plans
             PROVE  \/ plan'[q].status = plan[q].status /\ plan'[q].pr = plan[q].pr
                    \/ plan[q].status # "succeeded" /\ plan'[q].status # "succeeded"
  BY DEF recorded
<1>1. CASE OnTheWay(e)
  BY <1>1, OnTheWayKeeps
<1>2. ASSUME NEW p \in Plans, Claim(e, p)
      PROVE  \/ plan'[q].status = plan[q].status /\ plan'[q].pr = plan[q].pr
             \/ plan[q].status # "succeeded" /\ plan'[q].status # "succeeded"
  BY <1>p, <1>2 DEF Claim, Claimable, Plan
<1>3. CASE RecordFailure(e) /\ exec[e].pc # "idle"
  <2>1. plan[exec[e].plan].status = "running"
    BY <1>3, HeldUnrecorded
  <2>2. QED
    BY <1>p, <1>3, <2>1 DEF RecordFailure, Plan
<1>4. CASE plan' = plan
  BY <1>4
<1>5. QED
  BY <1>1, <1>2, <1>3, <1>4, StepKinds

(* Opening a pull request: of the plan that holds the branch, once. *)
LEMMA OpenStep ==
    ASSUME TypeInv, OwnInv, PRInv, NEW e \in Executors, ExecutorStep(e), OpenPullRequest(e)
    PROVE  [Ledger!Next]_<<opened, recorded>>
<1>1. exec[e].pc = "files" /\ ~ RecordSuccess(e)
  BY DEF OpenPullRequest, RecordSuccess
<1>x. PICK r \in Plans, b \in Branches : r = exec[e].plan /\ b = exec[e].branch
  BY <1>1, SettledCall DEF Settled
<1>2. recorded' = recorded
  BY <1>1, RecordedKept
<1>3. /\ PullRequestsOf(r)' = PullRequestsOf(r) \cup {b}
      /\ \A q \in Plans : q # r => PullRequestsOf(q)' = PullRequestsOf(q)
  BY <1>x, PullRequestsKept
<1>4. ref[b].by = r /\ r # Outsider
  BY <1>1, <1>x, ConstantAssumption DEF OwnInv, OwningCall, Settled
<1>5. CASE b \in PullRequestsOf(r)
  <2>1. \A q \in Plans : PullRequestsOf(q)' = PullRequestsOf(q)
    BY <1>3, <1>5
  <2>2. QED
    BY <1>2, <2>1, OpenedPrime
<1>6. CASE b \notin PullRequestsOf(r)
  <2>1. plan[r].branch = b
    BY <1>1, <1>x DEF PRInv, TidyCall
  <2>2. PullRequestsOf(r) = {}
    BY <1>6, <2>1 DEF PRInv, NamedAfterPR
  <2>3. opened[r] = None
    BY <2>2, OpenedPrime DEF The
  <2>4. opened' = [opened EXCEPT ![r] = b]
    <3>1. PullRequestsOf(r)' = {b}
      BY <1>3, <2>2
    <3>2. The(PullRequestsOf(r)') = b
      BY <3>1, TheOne
    <3>3. \A q \in Plans : q # r => The(PullRequestsOf(q)') = The(PullRequestsOf(q))
      BY <1>3
    <3>4. QED
      BY <3>2, <3>3, OpenedPrime
  <2>5. b \notin Foreign
    BY <1>4 DEF OwnInv, OwnedBranch
  <2>6. \A q \in Plans : opened[q] # b
    <3> SUFFICES ASSUME NEW q \in Plans, opened[q] = b PROVE FALSE
      OBVIOUS
    <3>1. PullRequestsOf(q) # {}
      BY OpenedPrime, ConstantAssumption DEF The
    <3>2. b \in PullRequestsOf(q)
      <4>1. PICK d \in Branches : d \in PullRequestsOf(q)
        BY <3>1 DEF PullRequestsOf
      <4>2. opened[q] = d
        BY <4>1, SinglePullRequest DEF PRInv
      <4>3. QED
        BY <4>1, <4>2
    <3>3. q = r
      BY <1>4, <3>2 DEF PullRequestsOf
    <3>4. QED
      BY <1>6, <3>2, <3>3
  <2>7. Ledger!Open(r, b)
    BY <1>2, <2>3, <2>4, <2>5, <2>6 DEF Ledger!Open
  <2>8. QED
    BY <2>7 DEF Ledger!Next
<1>7. QED
  BY <1>5, <1>6

(* Recording: the pull request that is open, for a plan not yet recorded. *)
LEMMA RecordStep ==
    ASSUME TypeInv, OwnInv, PRInv, NEW e \in Executors, ExecutorStep(e), RecordSuccess(e)
    PROVE  [Ledger!Next]_<<opened, recorded>>
<1>p. plan \in [Plans -> Plan]
  BY DEF TypeInv, TypeOK
<1>1. exec[e].pc = "record" /\ ~ OpenPullRequest(e)
  BY DEF OpenPullRequest, RecordSuccess
<1>x. PICK r \in Plans, b \in Branches : r = exec[e].plan /\ b = exec[e].branch
  BY <1>1, SettledCall DEF Settled
<1>2. opened' = opened
  BY <1>1, OpenedKept
<1>3. b \in PullRequestsOf(r)
  BY <1>1, <1>x DEF OwnInv, OwningCall, Settled, PullRequestsOf
<1>4. opened[r] = b /\ b # None
  BY <1>3, SinglePullRequest, ConstantAssumption DEF PRInv
<1>5. recorded[r] = None
  BY <1>1, <1>x, HeldUnrecorded
<1>6. recorded' = [recorded EXCEPT ![r] = b]
  <2>1. plan'[r].status = "succeeded" /\ plan'[r].pr = b
    BY <1>p, <1>x DEF RecordSuccess, Plan
  <2>2. \A q \in Plans : q # r => plan'[q] = plan[q]
    BY <1>p, <1>x DEF RecordSuccess
  <2>3. QED
    BY <2>1, <2>2 DEF recorded
<1>7. Ledger!Record(r)
  BY <1>2, <1>4, <1>5, <1>6 DEF Ledger!Record
<1>8. QED
  BY <1>7 DEF Ledger!Next

LEMMA LedgerStep ==
    ASSUME TypeInv, OwnInv, PRInv, [Next]_vars
    PROVE  [Ledger!Next]_<<opened, recorded>>
<1>1. ASSUME NEW e \in Executors, ExecutorStep(e)
      PROVE  [Ledger!Next]_<<opened, recorded>>
  <2>1. CASE OpenPullRequest(e)
    BY <1>1, <2>1, OpenStep
  <2>2. CASE RecordSuccess(e)
    BY <1>1, <2>2, RecordStep
  <2>3. CASE ~ OpenPullRequest(e) /\ ~ RecordSuccess(e)
    BY <1>1, <2>3, OpenedKept, RecordedKept
  <2>4. QED
    BY <2>1, <2>2, <2>3
<1>2. CASE plan' = plan /\ ref' = ref
  BY <1>2 DEF opened, recorded, PullRequestsOf
<1>3. QED
  BY <1>1, <1>2 DEF Next, ChangePolicy, vars

(* The executor keeps the promise of the ledger: a plan opens at most one  *)
(* pull request, on a branch of its own that nobody else made or uses, and *)
(* is recorded as succeeded for that pull request, once and for good.      *)
THEOREM LedgerTheorem ==
    ASSUME NoStall
    PROVE  Spec => ImplementsLedger
<1>1. Init => Ledger!Init
  BY LedgerInit
<1>2. TypeInv /\ OwnInv /\ NameInv /\ PRInv /\ [Next]_vars
         => [Ledger!Next]_<<opened, recorded>>
  BY LedgerStep
<1>3. QED
  BY <1>1, <1>2, PRInvariant, PTL DEF Spec, ImplementsLedger, Ledger!Spec

=============================================================================
