-------------------------- MODULE SessionPipeline --------------------------
(***************************************************************************)
(* What run_gardening_session does for the sessions of one repository, and *)
(* what refresh_analysis_after_session_prs does beside it: read the latest *)
(* promoted baseline, clone and analyse the default branch, plan from the  *)
(* drift between the two, approve plans up to a cap, execute them, and     *)
(* promote the analysis as the new baseline.  Each step commits on its     *)
(* own; a run that dies is started over from the top.                      *)
(*                                                                         *)
(* Commits of the default branch are numbered and an analysis is named by  *)
(* its commit; 0 is "no baseline".  A plan stands for one opportunity: how *)
(* opportunities are grouped is the subject of MaintenancePlanner, whose   *)
(* promises are what Selections asks for.  A session has one worker at a   *)
(* time: GardeningSession shows when the beat task starts a second one,    *)
(* here no message and no worker is silent for that long.  Executing a     *)
(* plan is refused or ends in one of two ways (PlanExecution), and a pull  *)
(* request ends once (OutcomeLearning).  The autonomy mode may change at   *)
(* any time, the repository stays active.                                  *)
(* "runs", "before", "swept", "movedBack" and "passed" are history.        *)
(***************************************************************************)
EXTENDS Naturals, FiniteSets

CONSTANTS
    Sessions,
    FirstScans,     \* sessions of the onboarding trigger
    Manual,         \* sessions somebody asked for
    Refreshes,      \* post-PR refreshes
    Opportunities,  \* what the analysis may find
    Worse,          \* the commits with a new or worse signal on its paths
    Refused,        \* those evaluate_policy blocks
    Holds,          \* the sets of those an autonomy mode blocks
    Fixable,        \* those without an auto-approval skip reason
    Clashes,        \* pairs with a path in common
    Cap,            \* MAX_AUTO_APPROVED_SESSION_PLANS
    MaxHead,        \* bound on the commits of the default branch
    Faults,         \* what may happen to a run, a subset of AllFaults
    MaxFaults,      \* bound on how often something of it happens
    None

AllFaults ==
    {"crash",   \* the worker dies; the beat task publishes the session again
     "retry",   \* GitHub answers with a retryable error
     "fail",    \* any other exception
     "cancel"}  \* the session is canceled, its worker terminated

Jobs == Sessions \cup Refreshes
Commits == 1 .. MaxHead

ASSUME ConstantAssumption ==
    /\ FirstScans \subseteq Sessions
    /\ Manual \subseteq Sessions \ FirstScans
    /\ Sessions \cap Refreshes = {}
    /\ IsFiniteSet(Opportunities)
    /\ Worse \in [Opportunities -> SUBSET (Nat \ {0})]
    /\ Clashes \in [Opportunities -> SUBSET Opportunities]
    /\ \A o, p \in Opportunities : p \in Clashes[o] => o \in Clashes[p]
    /\ Cap \in Nat
    /\ MaxHead \in Nat \ {0}
    /\ Faults \subseteq AllFaults
    /\ MaxFaults \in Nat
    /\ None \notin Opportunities

VARIABLES
    head,       \* head of the default branch
    baseline,   \* the analysis with the latest baseline_promoted_at
    pc,         \* where each job is
    base,       \* session.baseline_analysis; for a refresh, history
    commit,     \* the commit a run has cloned
    todo,       \* what the loop a run is in has still to handle
    at,         \* the plan a run is executing
    approved,   \* how many plans a run has approved
    errors,     \* the plans a run has recorded an error for
    plan,       \* the plans of each session
    faults,     \* how often something of Faults happened
    runs,       \* how often a session was started
    before,     \* the sessions that were complete when a session first started
    swept,      \* what got worse without a session having to plan it: a job
                \* that plans nothing promoted over it
    movedBack,  \* an older analysis was promoted over a newer one
    passed      \* what a run did not list because of the autonomy mode

locals == <<base, commit, todo, at, approved, errors>>
history == <<runs, before, swept, movedBack, passed>>
vars == <<head, baseline, pc, locals, plan, faults, history>>

-----------------------------------------------------------------------------
(* execution_status, approval_status and blocked of a plan in one word:    *)
(* "pending" is approved by nobody and has no skip reason, "approved" and  *)
(* what follows it were approved.                                          *)
PlanStatus == {"none", "blocked", "pending", "skipped", "approved",
               "running", "failed", "opened", "closed"}

Approved == {"approved", "running", "failed", "opened", "closed"}

(* What _current_manual_backlog_opportunities calls an active plan.        *)
Live == {"pending", "skipped", "approved", "running", "opened"}

Ended == {"completed", "failed", "canceled"}
Working == {"started", "cloned", "selected", "planned", "executing",
            "authoring", "promoted"}

TypeOK ==
    /\ head \in Commits
    /\ baseline \in 0 .. MaxHead
    /\ pc \in [Jobs -> {"queued"} \cup Working \cup Ended]
    /\ base \in [Jobs -> 0 .. MaxHead]
    /\ commit \in [Jobs -> 0 .. MaxHead]
    /\ todo \in [Sessions -> SUBSET Opportunities]
    /\ at \in [Sessions -> Opportunities \cup {None}]
    /\ approved \in [Sessions -> Nat]
    /\ errors \in [Sessions -> SUBSET Opportunities]
    /\ plan \in [Sessions -> [Opportunities -> PlanStatus]]
    /\ faults \in 0 .. MaxFaults
    /\ runs \in [Sessions -> Nat]
    /\ before \in [Sessions -> SUBSET Sessions]
    /\ swept \in SUBSET (Opportunities \X Commits)
    /\ movedBack \in BOOLEAN
    /\ passed \in [Sessions -> SUBSET Opportunities]

(* The opportunities a commit between b and c made worse, and when.        *)
Changes(b, c) == {x \in Opportunities \X ((b + 1) .. c) : x[2] \in Worse[x[1]]}

(* The repository is new, or has a baseline from the time before.          *)
Init ==
    /\ head = 1
    /\ baseline \in {0, 1}
    /\ pc = [j \in Jobs |-> "queued"]
    /\ base = [j \in Jobs |-> 0]
    /\ commit = [j \in Jobs |-> 0]
    /\ todo = [s \in Sessions |-> {}]
    /\ at = [s \in Sessions |-> None]
    /\ approved = [s \in Sessions |-> 0]
    /\ errors = [s \in Sessions |-> {}]
    /\ plan = [s \in Sessions |-> [o \in Opportunities |-> "none"]]
    /\ faults = 0
    /\ runs = [s \in Sessions |-> 0]
    /\ before = [s \in Sessions |-> {}]
    /\ swept = Changes(0, baseline)
    /\ movedBack = FALSE
    /\ passed = [s \in Sessions |-> {}]

-----------------------------------------------------------------------------
(* Observe: start, clone.                                                  *)

(* People push to the default branch. *)
Push ==
    /\ head < MaxHead
    /\ head' = head + 1
    /\ UNCHANGED <<baseline, pc, locals, plan, faults, history>>

(* The baseline is read before the run saves RUNNING. *)
Start(s) ==
    /\ pc[s] = "queued"
    /\ pc' = [pc EXCEPT ![s] = "started"]
    /\ base' = [base EXCEPT ![s] = baseline]
    /\ runs' = [runs EXCEPT ![s] = runs[s] + 1]
    /\ before' = IF runs[s] = 0
                 THEN [before EXCEPT ![s] = {r \in Sessions : pc[r] = "completed"}]
                 ELSE before
    /\ UNCHANGED <<head, baseline, commit, todo, at, approved, errors, plan, faults,
                   swept, movedBack, passed>>

Clone(s) ==
    /\ pc[s] = "started"
    /\ pc' = [pc EXCEPT ![s] = "cloned"]
    /\ commit' = [commit EXCEPT ![s] = head]
    /\ UNCHANGED <<head, baseline, base, todo, at, approved, errors, plan, faults,
                   history>>

(* A refresh runs when the pull requests of some session have ended; it    *)
(* reads no baseline.                                                      *)
RefreshClone(r) ==
    /\ pc[r] = "queued"
    /\ \E s \in Sessions :
          /\ \E o \in Opportunities : plan[s][o] = "closed"
          /\ \A o \in Opportunities : plan[s][o] # "opened"
    /\ pc' = [pc EXCEPT ![r] = "cloned"]
    /\ base' = [base EXCEPT ![r] = baseline]
    /\ commit' = [commit EXCEPT ![r] = head]
    /\ UNCHANGED <<head, baseline, todo, at, approved, errors, plan, faults, history>>

(* _baseline_only_session *)
BaselineOnly(s) == s \in FirstScans \/ base[s] = 0

-----------------------------------------------------------------------------
(* Diagnose and plan.                                                      *)

(* Opportunities on the path of a signal that is new or worse since b: an  *)
(* opportunity that was there before may be drift again.                   *)
Drift(b, c) == {o \in Opportunities : Worse[o] \cap ((b + 1) .. c) # {}}

Found(c) == Drift(0, c)

Active == {o \in Opportunities : \E s \in Sessions : plan[s][o] \in Live}

(* Mutated form: a manual session takes the whole backlog. *)
Relevant_WholeBacklog(s) ==
    IF Drift(base[s], commit[s]) = {} /\ s \in Manual
    THEN Found(commit[s])
    ELSE Drift(base[s], commit[s])

(* _planning_opportunities *)
Relevant(s) ==
    IF Drift(base[s], commit[s]) = {} /\ s \in Manual
    THEN Found(commit[s]) \ Active
    ELSE Drift(base[s], commit[s])

(* Mutated form: the baseline is read again when it is needed. *)
Select_BaselineReadLate(s) ==
    /\ pc[s] = "cloned"
    /\ ~ BaselineOnly(s)
    /\ pc' = [pc EXCEPT ![s] = "selected"]
    /\ base' = [base EXCEPT ![s] = baseline]
    /\ todo' = [todo EXCEPT ![s] = Drift(baseline, commit[s])]
    /\ UNCHANGED <<head, baseline, commit, at, approved, errors, plan, faults,
                   history>>

(* The analysis is stored; the drift report and the plans of other         *)
(* sessions decide what to plan from.                                      *)
Select(s) ==
    /\ pc[s] = "cloned"
    /\ ~ BaselineOnly(s)
    /\ pc' = [pc EXCEPT ![s] = "selected"]
    /\ todo' = [todo EXCEPT ![s] = Relevant(s)]
    /\ UNCHANGED <<head, baseline, base, commit, at, approved, errors, plan, faults,
                   history>>

(* The unblocked plans the planner may come out with: no two share a path, *)
(* and what is left out shares one with a plan that is in.                 *)
Selections(fresh) ==
    {in \in SUBSET (fresh \ Refused) :
        \A o \in fresh \ Refused : o \in in <=> Clashes[o] \cap (in \ {o}) = {}}

(* plan_maintenance_prs: one transaction.  Opportunities the session has a *)
(* plan for are passed over, here and in the conflict check.  Plans the    *)
(* autonomy mode of the moment does not let execute are saved as blocked.  *)
Plan(s) ==
    LET fresh == {o \in todo[s] : plan[s][o] = "none"} IN
    /\ pc[s] = "selected"
    /\ pc' = [pc EXCEPT ![s] = "planned"]
    /\ \E in \in Selections(fresh), held \in Holds :
          plan' = [plan EXCEPT ![s] = [o \in Opportunities |->
                      IF o \notin fresh THEN plan[s][o]
                      ELSE IF o \in in \ held THEN "pending" ELSE "blocked"]]
    /\ todo' = [todo EXCEPT ![s] = fresh]
    /\ approved' = [approved EXCEPT ![s] = 0]
    /\ UNCHANGED <<head, baseline, base, commit, at, errors, faults, history>>

(* Mutated form: one plan more than the cap. *)
Verdict_CapOffByOne(s, o) ==
    IF plan[s][o] = "blocked" THEN "blocked"
    ELSE IF o \notin Fixable \/ approved[s] > Cap THEN "skipped"
    ELSE "approved"

(* Mutated form: plans over the cap are rejected. *)
Verdict_CapRejects(s, o) ==
    IF plan[s][o] = "blocked" THEN "blocked"
    ELSE IF o \notin Fixable THEN "skipped"
    ELSE IF approved[s] >= Cap THEN "rejected" ELSE "approved"

(* What the approval loop saves for a plan. *)
Verdict(s, o) ==
    IF plan[s][o] = "blocked" THEN "blocked"
    ELSE IF o \notin Fixable \/ approved[s] >= Cap THEN "skipped"
    ELSE "approved"

(* The plans that this run planned, one save each. *)
Approve(s, o) ==
    /\ pc[s] = "planned"
    /\ o \in todo[s]
    /\ plan' = [plan EXCEPT ![s][o] = Verdict(s, o)]
    /\ approved' = IF Verdict(s, o) = "approved"
                   THEN [approved EXCEPT ![s] = approved[s] + 1]
                   ELSE approved
    /\ todo' = [todo EXCEPT ![s] = todo[s] \ {o}]
    /\ UNCHANGED <<head, baseline, pc, base, commit, at, errors, faults, history>>

-----------------------------------------------------------------------------
(* Execute.                                                                *)

(* Mutated form: a plan that failed once is not executed again. *)
Executable_NotFailed(s) == {o \in Opportunities : plan[s][o] = "approved"}

(* Approved, and not begun or failed. *)
Executable(s) == {o \in Opportunities : plan[s][o] \in {"approved", "failed"}}
LeftRunning(s) == {o \in Opportunities : plan[s][o] = "running"}

(* executable(): all approved plans of the session that did not succeed    *)
(* and that the autonomy mode of the moment lets execute.  A plan left     *)
(* RUNNING is among them once it is 30 minutes old; a session is published *)
(* again after 15.  The errors of this run are recorded from here on.      *)
ListPlans(s) ==
    /\ pc[s] = "planned"
    /\ todo[s] = {}
    /\ pc' = [pc EXCEPT ![s] = "executing"]
    /\ \E stale \in SUBSET LeftRunning(s), held \in Holds :
          /\ todo' = [todo EXCEPT ![s] = (Executable(s) \cup stale) \ held]
          /\ passed' = [passed EXCEPT ![s] = Executable(s) \cap held]
    /\ errors' = [errors EXCEPT ![s] = {}]
    /\ UNCHANGED <<head, baseline, base, commit, at, approved, plan, faults,
                   runs, before, swept, movedBack>>

(* _guard_executable or the claim raises PlanNotExecutableError: the plan  *)
(* has no file fix that is implemented, the autonomy mode has changed      *)
(* since the listing, or the row no longer matches.  The plan stays as it  *)
(* is, the error is recorded and the loop goes on.                         *)
ExecuteRefused(s, o) ==
    /\ pc[s] = "executing"
    /\ o \in todo[s]
    /\ todo' = [todo EXCEPT ![s] = todo[s] \ {o}]
    /\ errors' = [errors EXCEPT ![s] = errors[s] \cup {o}]
    /\ UNCHANGED <<head, baseline, pc, base, commit, at, approved, plan, faults, history>>

ExecuteClaim(s, o) ==
    /\ pc[s] = "executing"
    /\ o \in todo[s]
    /\ pc' = [pc EXCEPT ![s] = "authoring"]
    /\ plan' = [plan EXCEPT ![s][o] = "running"]
    /\ todo' = [todo EXCEPT ![s] = todo[s] \ {o}]
    /\ at' = [at EXCEPT ![s] = o]
    /\ UNCHANGED <<head, baseline, base, commit, approved, errors, faults, history>>

(* The pull request is open, or an error of this plan alone is recorded.   *)
ExecuteEnds(s) ==
    /\ pc[s] = "authoring"
    /\ pc' = [pc EXCEPT ![s] = "executing"]
    /\ \/ /\ plan' = [plan EXCEPT ![s][at[s]] = "opened"]
          /\ UNCHANGED errors
       \/ /\ plan' = [plan EXCEPT ![s][at[s]] = "failed"]
          /\ errors' = [errors EXCEPT ![s] = errors[s] \cup {at[s]}]
    /\ at' = [at EXCEPT ![s] = None]
    /\ UNCHANGED <<head, baseline, base, commit, todo, approved, faults, history>>

(* The outcome webhook of a pull request that was not merged, so that what *)
(* it was about is still found.                                            *)
PullRequestCloses(s, o) ==
    /\ plan[s][o] = "opened"
    /\ plan' = [plan EXCEPT ![s][o] = "closed"]
    /\ UNCHANGED <<head, baseline, pc, locals, faults, history>>

-----------------------------------------------------------------------------
(* Learn: promote, complete.                                               *)

(* Mutated form: promoted as soon as the analysis is compared. *)
MayPromote_BeforePlanning(j) ==
    \/ j \in Refreshes /\ pc[j] = "cloned"
    \/ j \in Sessions /\ pc[j] = "cloned" /\ BaselineOnly(j)
    \/ j \in Sessions /\ pc[j] = "selected"

MayPromote(j) ==
    \/ j \in Refreshes /\ pc[j] = "cloned"
    \/ j \in Sessions /\ pc[j] = "cloned" /\ BaselineOnly(j)
    \/ j \in Sessions /\ pc[j] = "executing" /\ todo[j] = {}

Promoted(j) == commit[j]

(* _promote_session_baseline: last call wins. *)
Promote(j) ==
    /\ MayPromote(j)
    /\ pc' = [pc EXCEPT ![j] = "promoted"]
    /\ baseline' = Promoted(j)
    /\ swept' = IF pc[j] = "cloned" THEN swept \cup Changes(baseline, commit[j]) ELSE swept
    /\ movedBack' = (movedBack \/ commit[j] < baseline)
    /\ UNCHANGED <<head, locals, plan, faults, runs, before, passed>>

(* The last save: COMPLETED. *)
Complete(j) ==
    /\ pc[j] = "promoted"
    /\ pc' = [pc EXCEPT ![j] = "completed"]
    /\ UNCHANGED <<head, baseline, locals, plan, faults, history>>

-----------------------------------------------------------------------------
(* A run is cut short.                                                     *)

Fault(kind) == kind \in Faults /\ faults < MaxFaults /\ faults' = faults + 1

(* An exception in the executor marks the plan FAILED on its way out.      *)
PlanRaises(s) ==
    IF pc[s] = "authoring" THEN [plan EXCEPT ![s][at[s]] = "failed"] ELSE plan

StopsAt(s, status) ==
    /\ pc[s] \in Working
    /\ pc' = [pc EXCEPT ![s] = status]
    /\ at' = [at EXCEPT ![s] = None]
    /\ UNCHANGED <<head, baseline, base, commit, todo, approved, errors, history>>

Crash(s) == Fault("crash") /\ StopsAt(s, "queued") /\ UNCHANGED plan

(* GitHub is asked for a clone token and by the executor; the constitution *)
(* pull request swallows its errors.                                       *)
Retry(s) ==
    /\ pc[s] \in {"started", "authoring"}
    /\ Fault("retry")
    /\ StopsAt(s, "queued")
    /\ plan' = PlanRaises(s)

Fail(s) == Fault("fail") /\ StopsAt(s, "failed") /\ plan' = PlanRaises(s)

Cancel(s) == Fault("cancel") /\ StopsAt(s, "canceled") /\ UNCHANGED plan

(* A refresh that dies or raises is not repeated. *)
RefreshStops(r) ==
    /\ Fault("crash")
    /\ pc[r] \in {"cloned", "promoted"}
    /\ pc' = [pc EXCEPT ![r] = "failed"]
    /\ UNCHANGED <<head, baseline, locals, plan, history>>

-----------------------------------------------------------------------------
PlanStep(s) ==
    \/ Start(s)
    \/ Clone(s)
    \/ Select(s)
    \/ Plan(s)
    \/ \E o \in Opportunities : Approve(s, o)

ExecuteStep(s) ==
    \/ ListPlans(s)
    \/ \E o \in Opportunities : ExecuteRefused(s, o) \/ ExecuteClaim(s, o)
    \/ ExecuteEnds(s)
    \/ \E o \in Opportunities : PullRequestCloses(s, o)

Stop(s) == Crash(s) \/ Retry(s) \/ Fail(s) \/ Cancel(s)

Next ==
    \/ Push
    \/ \E s \in Sessions : PlanStep(s) \/ ExecuteStep(s) \/ Stop(s)
    \/ \E r \in Refreshes : RefreshClone(r) \/ RefreshStops(r)
    \/ \E j \in Jobs : Promote(j) \/ Complete(j)

Spec == Init /\ [][Next]_vars

-----------------------------------------------------------------------------
(* Properties. *)

Planned(o, w) == \E s \in Sessions : plan[s][o] # "none" /\ w <= commit[s]

(* Nothing slips under the baseline: what a later session will no longer   *)
(* see as drift has a plan of a session that saw it, unless a job that     *)
(* plans nothing (a first scan, a session without a baseline, a refresh)   *)
(* promoted over it.  Holds for overlapping sessions, restarts and         *)
(* promotions out of order, because a session compares with the baseline   *)
(* it read at its start and promotes only after its plans are saved.       *)
NothingSlips ==
    \A o \in Opportunities : \A w \in Worse[o] :
        w <= baseline => Planned(o, w) \/ <<o, w>> \in swept

(* A session never compares an older commit with a newer baseline, however *)
(* sessions and refreshes overlap: the drift it plans from is real drift.  *)
DriftLooksForward ==
    \A s \in Sessions : pc[s] \in Working \ {"started"} => base[s] <= commit[s]

(* The baseline moves back only under a job that another one overtook      *)
(* since it started; jobs that run one after the other move it forward.    *)
BackOnlyWhenOvertaken ==
    [][baseline' < baseline =>
          \E j \in Jobs : MayPromote(j) /\ pc'[j] = "promoted" /\ base[j] < baseline]_vars

(* A session that starts after another one completed does not plan the     *)
(* same opportunity again while the other's plan is pending or its pull    *)
(* request open, unless it got worse since or the baseline was moved back. *)
(* Nothing compares drift with open pull requests: sessions that overlap   *)
(* or did not complete repeat plans.                                       *)
NoRepeatedPlan ==
    \A s, r \in Sessions :
        s \in before[r] /\ s # r =>
           \A o \in Opportunities :
              plan[s][o] \in Live /\ plan[r][o] \in Live =>
                 movedBack \/ o \in Drift(commit[s], commit[r])

(* Each run of a session approves at most Cap plans; a session that was    *)
(* started n times has approved at most n times as many.                   *)
CapPerRun ==
    \A s \in Sessions :
        Cardinality({o \in Opportunities : plan[s][o] \in Approved}) <= Cap * runs[s]

(* No plan of a completed session is left over in silence.  One that was   *)
(* approved and has no pull request is named in the errors of the last     *)
(* run, however often the session was started and whichever run approved   *)
(* it, unless the autonomy mode held it back when the plans were listed;   *)
(* and only a session that was started again leaves a plan that nobody     *)
(* decided on, or one that is still marked RUNNING.                        *)
NothingUnreported ==
    \A s \in Sessions : pc[s] = "completed" =>
        \A o \in Opportunities :
           /\ plan[s][o] \in {"approved", "failed"} => o \in errors[s] \cup passed[s]
           /\ plan[s][o] \in {"pending", "running"} => runs[s] > 1

=============================================================================
