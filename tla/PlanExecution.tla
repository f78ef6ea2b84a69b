--------------------------- MODULE PlanExecution ---------------------------
(***************************************************************************)
(* execute_maintenance_pr_plan: a worker claims an approved plan with one  *)
(* conditional UPDATE (a 30-minute lease on updated_at), then talks to     *)
(* GitHub for minutes: create or reuse a branch, put the plan's marker     *)
(* file on it, edit files, open the pull request, and record it.  Any step *)
(* may fail, the worker may die between any two, and a later run of the    *)
(* session starts the plan over.                                           *)
(*                                                                         *)
(* GitHub is modelled by what the executor can see of it: which branches   *)
(* exist, the marker and the changed files on each, the open pull          *)
(* requests.  "by" and "wrote" are history the program never reads.        *)
(***************************************************************************)
EXTENDS Naturals, Sequences

CONSTANTS
    Plans,       \* approved plans of one repository, their confidence high enough
    Executors,   \* workers running execute_session_pr_plans or execute_pr_plan
    Branches,    \* branch names
    Paths,       \* paths of files in the repository
    SessionOf,   \* the gardening_session_id of each plan
    Preferred,   \* the branch_name each plan was planned with
    Candidates,  \* _branch_candidates: a name, then the name with suffixes
    Files,       \* the existing, fixable files among a plan's changed_paths
    Docs,        \* the plans of category docs; the others are written by a model
    Tier1,       \* the plans with risk_tier tier_1_autonomous
    Foreign,     \* branches that other people made
    Outsider,    \* the maker of those
    Faults,      \* what may happen around the workers, a subset of AllFaults
    None

AllFaults ==
    {"crash",     \* a worker dies
     "error",     \* a GitHub call, the AI author or the database raises
     "response",  \* the answer to a branch creation is lost; the client retries
     "stall",     \* a live worker does not save for STALE_RUNNING_TIMEOUT
     "policy"}    \* the autonomy mode or the repository's activity changes

Siblings(p) == {q \in Plans \ {p} : SessionOf[q] = SessionOf[p]}

ASSUME ConstantAssumption ==
    /\ Foreign \subseteq Branches
    /\ None \notin Plans \cup Branches
    /\ Outsider \notin Plans \cup {None}
    /\ Files \in [Plans -> SUBSET Paths]
    /\ Faults \subseteq AllFaults

(* The planner gives the plans of a session distinct branch names (the     *)
(* table has a unique constraint), and the first candidate for a name is   *)
(* the name itself.                                                        *)
ASSUME NameAssumption ==
    /\ Preferred \in [Plans -> Branches]
    /\ \A p \in Plans : \A q \in Siblings(p) : Preferred[p] # Preferred[q]
    /\ Candidates \in [Branches -> Seq(Branches)]
    /\ \A b \in Branches : Candidates[b] # << >> /\ Candidates[b][1] = b

VARIABLES
    plan,    \* the MaintenancePRPlan rows
    ref,     \* the branches on GitHub and what is on them
    exec,    \* the calls of execute_maintenance_pr_plan in progress
    mode,    \* autonomy_mode of the repository
    active   \* the repository is selected and its installation not suspended

vars == <<plan, ref, exec, mode, active>>

-----------------------------------------------------------------------------
ExecutionStatus == {"pending", "running", "succeeded", "failed"}

Plan == [status: ExecutionStatus, branch: Branches, pr: Branches \cup {None}]

Ref == [by: Plans \cup {None, Outsider},  \* who created it; None: it does not exist
        marker: Plans \cup {None},        \* the plan named by its marker file
        files: SUBSET Paths,              \* the files that differ from the base
        open: BOOLEAN,                    \* it has an open pull request
        wrote: SUBSET Plans]              \* the plans that put a file on it

NoRef == [by |-> None, marker |-> None, files |-> {}, open |-> FALSE, wrote |-> {}]

(* The steps of one call, in their order.  Past "persist" the branch is    *)
(* settled.                                                                *)
Naming == {"list", "branch", "check"}
Settled == {"persist", "marker", "files", "record"}

Call == [pc: {"idle"} \cup Naming \cup Settled, plan: Plans \cup {None},
         from: Branches \cup {None}, tries: Nat, siblings: SUBSET Branches,
         branch: Branches \cup {None}, todo: SUBSET Paths, changed: BOOLEAN]

Idle == [pc |-> "idle", plan |-> None, from |-> None, tries |-> 0,
         siblings |-> {}, branch |-> None, todo |-> {}, changed |-> FALSE]

(* Every column has a value of its type and every call is at one of its steps. *)
TypeOK ==
    /\ plan \in [Plans -> Plan]
    /\ ref \in [Branches -> Ref]
    /\ exec \in [Executors -> Call]
    /\ mode \in {"conservative", "assisted", "autonomous"}
    /\ active \in BOOLEAN

Holds(e, p) == exec[e].pc # "idle" /\ exec[e].plan = p

(* The name the loop over _branch_candidates is at. *)
Exhausted(e) == exec[e].tries > Len(Candidates[exec[e].from])
Candidate(e) == Candidates[exec[e].from][exec[e].tries]

Init ==
    /\ plan = [p \in Plans |-> [status |-> "pending", branch |-> Preferred[p], pr |-> None]]
    /\ ref = [b \in Branches |->
                 IF b \in Foreign THEN [NoRef EXCEPT !.by = Outsider] ELSE NoRef]
    /\ exec = [e \in Executors |-> Idle]
    /\ mode \in {"conservative", "assisted", "autonomous"}
    /\ active = TRUE

-----------------------------------------------------------------------------
(* _guard_executable and _claim_plan_for_execution *)

(* Mutated form: a RUNNING plan can always be claimed. *)
Expired_Always(p) == TRUE

(* updated_at < cutoff: nobody has saved the running plan for 30 minutes. *)
Expired(p) == "stall" \in Faults \/ ~ \E e \in Executors : Holds(e, p)

Permitted(p) ==
    /\ active
    /\ mode \in (IF p \in Tier1 THEN {"autonomous"} ELSE {"assisted", "autonomous"})

Claimable(p) ==
    /\ Permitted(p)
    /\ \/ plan[p].status \in {"pending", "failed"}
       \/ plan[p].status = "running" /\ Expired(p)

(* The guard reads a copy of the plan and can only refuse; the conditional *)
(* UPDATE decides.                                                         *)
Claim(e, p) ==
    /\ exec[e].pc = "idle"
    /\ Claimable(p)
    /\ plan' = [plan EXCEPT ![p].status = "running"]
    /\ exec' = [exec EXCEPT ![e] = [Idle EXCEPT !.pc = "list", !.plan = p,
                                                !.from = plan[p].branch]]
    /\ UNCHANGED <<ref, mode, active>>

-----------------------------------------------------------------------------
(* _create_or_reuse_plan_branch *)

(* The token, the base branch, and the names the sibling plans have now. *)
ListSiblings(e) ==
    /\ exec[e].pc = "list"
    /\ exec' = [exec EXCEPT ![e].pc = "branch", ![e].tries = 1,
                  ![e].siblings = {plan[q].branch : q \in Siblings(exec[e].plan)}]
    /\ UNCHANGED <<plan, ref, mode, active>>

SkipSibling(e) ==
    /\ exec[e].pc = "branch"
    /\ ~ Exhausted(e)
    /\ Candidate(e) \in exec[e].siblings
    /\ exec' = [exec EXCEPT ![e].tries = @ + 1]
    /\ UNCHANGED <<plan, ref, mode, active>>

(* Mutated form: the siblings' names are not looked at. *)
Trying_AnyName(e) == exec[e].pc = "branch" /\ ~ Exhausted(e)

Trying(e) ==
    /\ exec[e].pc = "branch"
    /\ ~ Exhausted(e)
    /\ Candidate(e) \notin exec[e].siblings

CreateBranch(e) ==
    /\ Trying(e)
    /\ ref[Candidate(e)].by = None
    /\ ref' = [ref EXCEPT ![Candidate(e)].by = exec[e].plan]
    /\ exec' = [exec EXCEPT ![e].pc = "persist", ![e].branch = Candidate(e)]
    /\ UNCHANGED <<plan, mode, active>>

(* The branch is created but the answer is lost; the client's own retry    *)
(* gets 422, and the executor takes the branch for somebody else's.        *)
CreateBranchUnanswered(e) ==
    /\ "response" \in Faults
    /\ Trying(e)
    /\ ref[Candidate(e)].by = None
    /\ ref' = [ref EXCEPT ![Candidate(e)].by = exec[e].plan]
    /\ exec' = [exec EXCEPT ![e].pc = "check"]
    /\ UNCHANGED <<plan, mode, active>>

(* 422: the reference already exists. *)
BranchExists(e) ==
    /\ Trying(e)
    /\ ref[Candidate(e)].by # None
    /\ exec' = [exec EXCEPT ![e].pc = "check"]
    /\ UNCHANGED <<plan, ref, mode, active>>

(* Mutated form: a branch without a marker file is taken for the plan's. *)
CheckMarker_NoMarker(e) ==
    /\ exec[e].pc = "check"
    /\ IF ref[Candidate(e)].marker \in {exec[e].plan, None}
       THEN exec' = [exec EXCEPT ![e].pc = "persist", ![e].branch = Candidate(e)]
       ELSE exec' = [exec EXCEPT ![e].pc = "branch", ![e].tries = @ + 1]
    /\ UNCHANGED <<plan, ref, mode, active>>

(* Mutated form: a branch that exists is never reused. *)
CheckMarker_NeverReuse(e) ==
    /\ exec[e].pc = "check"
    /\ exec' = [exec EXCEPT ![e].pc = "branch", ![e].tries = @ + 1]
    /\ UNCHANGED <<plan, ref, mode, active>>

(* _existing_branch_belongs_to_plan: reuse the branch whose marker file    *)
(* names this plan, otherwise try the next name.                           *)
CheckMarker(e) ==
    /\ exec[e].pc = "check"
    /\ IF ref[Candidate(e)].marker = exec[e].plan
       THEN exec' = [exec EXCEPT ![e].pc = "persist", ![e].branch = Candidate(e)]
       ELSE exec' = [exec EXCEPT ![e].pc = "branch", ![e].tries = @ + 1]
    /\ UNCHANGED <<plan, ref, mode, active>>

(* Nothing is saved when the copy read by the claim has the name already.  *)
PersistBranch(e) ==
    /\ exec[e].pc = "persist"
    /\ plan' = IF exec[e].branch = exec[e].from THEN plan
               ELSE [plan EXCEPT ![exec[e].plan].branch = exec[e].branch]
    /\ exec' = [exec EXCEPT ![e].pc = "marker"]
    /\ UNCHANGED <<ref, mode, active>>

-----------------------------------------------------------------------------
(* The marker file, the file fixes and the pull request. *)

PutMarker(e) ==
    /\ exec[e].pc = "marker"
    /\ ref' = [ref EXCEPT ![exec[e].branch].marker = exec[e].plan,
                          ![exec[e].branch].wrote = @ \cup {exec[e].plan}]
    /\ exec' = [exec EXCEPT ![e].pc = "files", ![e].todo = Files[exec[e].plan],
                            ![e].changed = FALSE]
    /\ UNCHANGED <<plan, mode, active>>

FileDone(e, f, written) ==
    /\ exec[e].pc = "files"
    /\ f \in exec[e].todo
    /\ exec' = [exec EXCEPT ![e].todo = @ \ {f}, ![e].changed = @ \/ written]
    /\ UNCHANGED <<plan, mode, active>>

(* apply_docs_maintenance_note gives back the content it got: the note     *)
(* block of the plan is in the file already.                               *)
NoteThere(e, f) == f \in ref[exec[e].branch].files

(* The new content differs from the branch's. *)
WriteFile(e, f) ==
    /\ FileDone(e, f, TRUE)
    /\ exec[e].plan \in Docs => ~ NoteThere(e, f)
    /\ ref' = [ref EXCEPT ![exec[e].branch].files = @ \cup {f},
                          ![exec[e].branch].wrote = @ \cup {exec[e].plan}]

(* The note is there; or the AI author cannot edit the file, or leaves it  *)
(* as it is.                                                               *)
LeaveFile(e, f) ==
    /\ FileDone(e, f, FALSE)
    /\ exec[e].plan \in Docs => NoteThere(e, f)
    /\ UNCHANGED ref

(* Mutated form: a plan that changed no file gets its pull request too. *)
OpenPullRequest_Empty(e) ==
    /\ exec[e].pc = "files"
    /\ exec[e].todo = {}
    /\ ref' = [ref EXCEPT ![exec[e].branch].open = TRUE]
    /\ exec' = [exec EXCEPT ![e].pc = "record"]
    /\ UNCHANGED <<plan, mode, active>>

(* Create the pull request, or on 422 find the open one of this head. *)
OpenPullRequest(e) ==
    /\ exec[e].pc = "files"
    /\ exec[e].todo = {}
    /\ exec[e].changed
    /\ ref' = [ref EXCEPT ![exec[e].branch].open = TRUE]
    /\ exec' = [exec EXCEPT ![e].pc = "record"]
    /\ UNCHANGED <<plan, mode, active>>

RecordSuccess(e) ==
    /\ exec[e].pc = "record"
    /\ plan' = [plan EXCEPT ![exec[e].plan].status = "succeeded",
                            ![exec[e].plan].pr = exec[e].branch]
    /\ exec' = [exec EXCEPT ![e] = Idle]
    /\ UNCHANGED <<ref, mode, active>>

-----------------------------------------------------------------------------
(* The except clause: FAILED is saved whatever the status is by now. *)
RecordFailure(e) ==
    /\ plan' = [plan EXCEPT ![exec[e].plan].status = "failed"]
    /\ exec' = [exec EXCEPT ![e] = Idle]
    /\ UNCHANGED <<ref, mode, active>>

(* Mutated form: the loop over the names falls through to its end. *)
NamesExhausted_FallsThrough(e) ==
    /\ exec[e].pc = "branch"
    /\ Exhausted(e)
    /\ exec' = [exec EXCEPT ![e].pc = "persist"]
    /\ UNCHANGED <<plan, ref, mode, active>>

(* PlanNotExecutableError: every candidate name is taken. *)
NamesExhausted(e) == exec[e].pc = "branch" /\ Exhausted(e) /\ RecordFailure(e)

(* PlanNotExecutableError: no file came out different. *)
NothingChanged(e) ==
    /\ exec[e].pc = "files"
    /\ exec[e].todo = {}
    /\ ~ exec[e].changed
    /\ RecordFailure(e)

(* Any other exception, from any call inside the try.  One outside it, or  *)
(* in the save of the except clause, leaves the row as a Crash does.       *)
StepRaises(e) == "error" \in Faults /\ exec[e].pc # "idle" /\ RecordFailure(e)

Crash(e) ==
    /\ "crash" \in Faults
    /\ exec[e].pc # "idle"
    /\ exec' = [exec EXCEPT ![e] = Idle]
    /\ UNCHANGED <<plan, ref, mode, active>>

(* An administrator, or a webhook about the installation. *)
ChangePolicy ==
    /\ "policy" \in Faults
    /\ mode' \in {"conservative", "assisted", "autonomous"}
    /\ active' \in BOOLEAN
    /\ UNCHANGED <<plan, ref, exec>>

ExecutorStep(e) ==
    \/ \E p \in Plans : Claim(e, p)
    \/ ListSiblings(e)
    \/ SkipSibling(e)
    \/ CreateBranch(e)
    \/ CreateBranchUnanswered(e)
    \/ BranchExists(e)
    \/ CheckMarker(e)
    \/ PersistBranch(e)
    \/ PutMarker(e)
    \/ \E f \in Paths : WriteFile(e, f) \/ LeaveFile(e, f)
    \/ OpenPullRequest(e)
    \/ RecordSuccess(e)
    \/ NamesExhausted(e)
    \/ NothingChanged(e)
    \/ StepRaises(e)
    \/ Crash(e)

Next == (\E e \in Executors : ExecutorStep(e)) \/ ChangePolicy

Spec == Init /\ [][Next]_vars

-----------------------------------------------------------------------------
(* Properties of every interleaving, under every fault. *)

(* Whatever is on a branch was put there for the plan that created it: the *)
(* name collisions of _branch_candidates never make a plan write to a      *)
(* branch of another plan, of another session, or of a person.             *)
BranchOwnership == \A b \in Branches : ref[b].wrote \subseteq {ref[b].by}

(* Renaming a plan to the branch it got never collides with a sibling, so  *)
(* the save in _persist_plan_branch cannot violate the unique constraint,  *)
(* although the sibling names were read before GitHub was asked.           *)
UniqueBranchNames ==
    \A p \in Plans : \A q \in Siblings(p) : plan[p].branch # plan[q].branch

(* No pull request without a change: an open one has a changed file on its *)
(* branch, and the marker of the plan it belongs to.                       *)
NoEmptyPullRequest ==
    \A b \in Branches : ref[b].open => ref[b].files # {} /\ ref[b].marker = ref[b].by

-----------------------------------------------------------------------------
(* Properties that need the lease to outlive every live worker. *)
NoStall == "stall" \notin Faults

(* The claim is a lock: two workers are never at work on one plan, and a   *)
(* plan somebody works on is RUNNING.                                      *)
OneExecutor ==
    \A p \in Plans : \A e, d \in Executors :
        Holds(e, p) => plan[p].status = "running" /\ (Holds(d, p) => d = e)

PullRequestsOf(p) == {b \in Branches : ref[b].by = p /\ ref[b].open}

(* However often a plan is started over after crashes and errors, it has   *)
(* at most one open pull request.                                          *)
OnePRPerPlan == \A p \in Plans : \A b, c \in PullRequestsOf(p) : b = c

(* The executor implements the ledger: one pull request per plan, on a     *)
(* branch of its own, recorded once and for good.                          *)
opened == [p \in Plans |->
    IF PullRequestsOf(p) = {} THEN None ELSE CHOOSE b \in Branches : b \in PullRequestsOf(p)]

recorded == [p \in Plans |-> IF plan[p].status = "succeeded" THEN plan[p].pr ELSE None]

Ledger == INSTANCE PullRequestLedger WITH opened <- opened, recorded <- recorded

ImplementsLedger == Ledger!Spec

-----------------------------------------------------------------------------
(* What comments and documents of the repository say of the execution, and *)
(* the interleavings above refute.                                         *)

(* "a PR already exists for this head; reuse it for idempotent re-runs": a *)
(* plan whose pull request is open does not end FAILED (no call raises).   *)
RerunFindsPullRequest ==
    [][\A p \in Plans :
          PullRequestsOf(p) # {} /\ plan[p].status = "running" =>
             plan'[p].status # "failed"]_vars

=============================================================================
