-------------------------- MODULE GardeningSession --------------------------
(***************************************************************************)
(* The life of a GardeningSession row: the trigger service that creates it *)
(* and publishes a Celery task for it, the worker that runs the task and   *)
(* writes the row, the cancel request, and the beat task that re-publishes *)
(* orphaned sessions.  The row has no lock and no version: every actor     *)
(* reads it, decides, and later saves some of its columns unconditionally. *)
(*                                                                         *)
(* Time is abstracted: any time may pass between two steps.  So a message  *)
(* may wait, and a live worker may save nothing, for longer than the       *)
(* windows of the beat task, which then publishes the session once more.   *)
(***************************************************************************)
EXTENDS Naturals

CONSTANTS
    Sessions,    \* primary keys of the rows that can be created
    Subjects,    \* (kind, subject_type, subject_id) of a trigger: its dedupe key
    Requests,    \* processes that call enqueue_session_for_trigger
    Cancels,     \* processes that call cancel_session
    TaskIds,     \* Celery task ids; a bound on the tasks alive at once
    MaxRetries,  \* max_retries of run_gardening_session
    Faults,      \* what the environment may do, a subset of AllFaults
    MaxFaults,   \* bound on the number of faults, revokes left aside
    None         \* an empty task_id, a missing row

AllFaults ==
    {"crash",    \* a worker child or a web process dies
     "lose",     \* the broker loses a message
     "publish",  \* delay() raises
     "revoke"}   \* the revoke broadcast reaches no worker

ASSUME ConstantAssumption ==
    /\ MaxRetries \in Nat
    /\ MaxFaults \in Nat
    /\ Faults \subseteq AllFaults
    /\ None \notin Sessions \cup Subjects \cup TaskIds

VARIABLES
    row,      \* the table of sessions
    task,     \* the Celery tasks: in the broker or in a worker
    revoked,  \* task ids the workers were told to revoke
    req,      \* calls of enqueue_session_for_trigger in progress
    can,      \* calls of cancel_session in progress
    orphans,  \* rows the running requeue_orphaned_sessions has read
    faults    \* crashes, losses and failed publishes so far

vars == <<row, task, revoked, req, can, orphans, faults>>

-----------------------------------------------------------------------------
(* The row, the tasks and the calls in progress. *)

ActiveStatus == {"queued", "running"}
TerminalStatus == {"completed", "failed", "canceled"}
Status == {"absent"} \cup ActiveStatus \cup TerminalStatus

Row == [status: Status, started: BOOLEAN, finished: BOOLEAN,
        retryCount: 0..MaxRetries, taskId: TaskIds \cup {None},
        subject: Subjects \cup {None}]

NoRow == [status |-> "absent", started |-> FALSE, finished |-> FALSE,
          retryCount |-> 0, taskId |-> None, subject |-> None]

(* A task is published (its message is in the broker), loaded (the worker  *)
(* has read the row and found it not canceled), working (it has saved      *)
(* RUNNING) or retrying (it has saved QUEUED and not yet re-published).    *)
RunningPc == {"loaded", "working", "retrying"}
Task == [pc: {"free", "published"} \cup RunningPc,
         session: Sessions \cup {None}, retries: 0..MaxRetries]

FreeTask == [pc |-> "free", session |-> None, retries |-> 0]

Request == [pc: {"idle", "create", "publish", "record"},
            subject: Subjects \cup {None}, session: Sessions \cup {None},
            task: TaskIds \cup {None}]

IdleRequest == [pc |-> "idle", subject |-> None, session |-> None, task |-> None]

Cancel == [pc: {"idle", "revoke", "save"}, session: Sessions \cup {None},
           task: TaskIds \cup {None}]

IdleCancel == [pc |-> "idle", session |-> None, task |-> None]

(* Every column has a value of its type and every call is at one of its steps. *)
TypeOK ==
    /\ row \in [Sessions -> Row]
    /\ task \in [TaskIds -> Task]
    /\ revoked \subseteq TaskIds
    /\ req \in [Requests -> Request]
    /\ can \in [Cancels -> Cancel]
    /\ orphans \subseteq Sessions
    /\ faults \in 0..MaxFaults

Active(s) == row[s].status \in ActiveStatus

TasksOf(s) == {t \in TaskIds : task[t].session = s}

(* Some worker is between loading s and its last save. *)
InProgress(s) == \E t \in TasksOf(s) : task[t].pc \in RunningPc

(* Something is still going to run s without the help of the beat task. *)
HasAgent(s) ==
    \/ TasksOf(s) # {}
    \/ s \in orphans
    \/ \E q \in Requests : req[q].pc = "publish" /\ req[q].session = s

(* A fresh uuid: an id nothing refers to any more. *)
UnusedTaskIds ==
    {t \in TaskIds :
        /\ task[t].pc = "free"
        /\ \A s \in Sessions : row[s].taskId # t
        /\ \A q \in Requests : req[q].task # t
        /\ \A c \in Cancels : can[c].task # t}

(* delay() and retry() put a message for s in the broker. *)
Publish(t, s) ==
    /\ task' = [task EXCEPT ![t] = [pc |-> "published", session |-> s, retries |-> 0]]
    /\ revoked' = revoked \ {t}

Free(t) == task' = [task EXCEPT ![t] = FreeTask]

Fault(kind) == kind \in Faults /\ faults < MaxFaults /\ faults' = faults + 1

Init ==
    /\ row = [s \in Sessions |-> NoRow]
    /\ task = [t \in TaskIds |-> FreeTask]
    /\ revoked = {}
    /\ req = [q \in Requests |-> IdleRequest]
    /\ can = [c \in Cancels |-> IdleCancel]
    /\ orphans = {}
    /\ faults = 0

-----------------------------------------------------------------------------
(* enqueue_session_for_trigger: look for an active session of the subject, *)
(* create the row, publish the task, save its id.                          *)

(* The dedupe query.  An active session of the subject ends the call, and  *)
(* so does a trigger the policy does not permit; neither changes anything. *)
EnqueueCheck(q, k) ==
    /\ req[q].pc = "idle"
    /\ \E s \in Sessions : row[s].status = "absent"
    /\ ~ \E s \in Sessions : Active(s) /\ row[s].subject = k
    /\ req' = [req EXCEPT ![q] = [IdleRequest EXCEPT !.pc = "create", !.subject = k]]
    /\ UNCHANGED <<row, task, revoked, can, orphans, faults>>

EnqueueCreate(q, s) ==
    /\ req[q].pc = "create"
    /\ row[s].status = "absent"
    /\ row' = [row EXCEPT ![s] = [NoRow EXCEPT !.status = "queued",
                                               !.subject = req[q].subject]]
    /\ req' = [req EXCEPT ![q].pc = "publish", ![q].session = s]
    /\ UNCHANGED <<task, revoked, can, orphans, faults>>

EnqueuePublish(q, t) ==
    /\ req[q].pc = "publish"
    /\ t \in UnusedTaskIds
    /\ Publish(t, req[q].session)
    /\ req' = [req EXCEPT ![q].pc = "record", ![q].task = t]
    /\ UNCHANGED <<row, can, orphans, faults>>

(* Mutated form: finished_at missing from the failed save. *)
EnqueuePublishFails_NotFinished(q) ==
    /\ Fault("publish")
    /\ req[q].pc = "publish"
    /\ row' = [row EXCEPT ![req[q].session].status = "failed"]
    /\ req' = [req EXCEPT ![q] = IdleRequest]
    /\ UNCHANGED <<task, revoked, can, orphans>>

(* delay() raised: the row is marked FAILED whatever it has become. *)
EnqueuePublishFails(q) ==
    /\ Fault("publish")
    /\ req[q].pc = "publish"
    /\ row' = [row EXCEPT ![req[q].session].status = "failed",
                          ![req[q].session].finished = TRUE]
    /\ req' = [req EXCEPT ![q] = IdleRequest]
    /\ UNCHANGED <<task, revoked, can, orphans>>

EnqueueRecord(q) ==
    /\ req[q].pc = "record"
    /\ row' = [row EXCEPT ![req[q].session].taskId = req[q].task]
    /\ req' = [req EXCEPT ![q] = IdleRequest]
    /\ UNCHANGED <<task, revoked, can, orphans, faults>>

RequestCrash(q) ==
    /\ Fault("crash")
    /\ req[q].pc # "idle"
    /\ req' = [req EXCEPT ![q] = IdleRequest]
    /\ UNCHANGED <<row, task, revoked, can, orphans>>

-----------------------------------------------------------------------------
(* run_gardening_session: one task, in a worker. *)

(* Mutated form: the canceled status is not looked at. *)
TaskLoad_IgnoresCancel(t) ==
    /\ task[t].pc = "published"
    /\ IF t \in revoked THEN Free(t) ELSE task' = [task EXCEPT ![t].pc = "loaded"]
    /\ UNCHANGED <<row, revoked, req, can, orphans, faults>>

(* A worker takes the message, drops it if its id is revoked, reads the    *)
(* row and returns at once when the session was canceled.                  *)
TaskLoad(t) ==
    /\ task[t].pc = "published"
    /\ IF t \in revoked \/ row[task[t].session].status = "canceled"
       THEN Free(t)
       ELSE task' = [task EXCEPT ![t].pc = "loaded"]
    /\ UNCHANGED <<row, revoked, req, can, orphans, faults>>

(* The first save: RUNNING, whatever the status is by now. *)
TaskStart(t) ==
    /\ task[t].pc = "loaded"
    /\ task' = [task EXCEPT ![t].pc = "working"]
    /\ row' = [row EXCEPT ![task[t].session] =
                  [@ EXCEPT !.status = "running", !.started = TRUE,
                            !.finished = FALSE, !.taskId = t]]
    /\ UNCHANGED <<revoked, req, can, orphans, faults>>

(* The pipeline ran to its end. *)
TaskComplete(t) ==
    /\ task[t].pc = "working"
    /\ row' = [row EXCEPT ![task[t].session].status = "completed",
                          ![task[t].session].finished = TRUE]
    /\ Free(t)
    /\ UNCHANGED <<revoked, req, can, orphans, faults>>

(* AnalysisRunError, SessionLifecycleError, a GitHub error that is not     *)
(* retryable (or no longer is), or any other exception.                    *)
TaskFail(t) ==
    /\ task[t].pc = "working"
    /\ row' = [row EXCEPT ![task[t].session].status = "failed",
                          ![task[t].session].finished = TRUE]
    /\ Free(t)
    /\ UNCHANGED <<revoked, req, can, orphans, faults>>

(* RetryableSessionError with no retries left: retry_count is saved too. *)
TaskRetriesExhausted(t) ==
    /\ task[t].pc = "working"
    /\ task[t].retries >= MaxRetries
    /\ row' = [row EXCEPT ![task[t].session] =
                  [@ EXCEPT !.status = "failed", !.finished = TRUE,
                            !.retryCount = task[t].retries]]
    /\ Free(t)
    /\ UNCHANGED <<revoked, req, can, orphans, faults>>

(* Mutated form: one retry too many. *)
TaskRetrySave_OffByOne(t) ==
    /\ task[t].pc = "working"
    /\ task[t].retries <= MaxRetries
    /\ row' = [row EXCEPT ![task[t].session].status = "queued",
                          ![task[t].session].retryCount = task[t].retries + 1]
    /\ task' = [task EXCEPT ![t].pc = "retrying"]
    /\ UNCHANGED <<revoked, req, can, orphans, faults>>

(* A retryable error: save QUEUED; started_at stays set. *)
TaskRetrySave(t) ==
    /\ task[t].pc = "working"
    /\ task[t].retries < MaxRetries
    /\ row' = [row EXCEPT ![task[t].session].status = "queued",
                          ![task[t].session].retryCount = task[t].retries + 1]
    /\ task' = [task EXCEPT ![t].pc = "retrying"]
    /\ UNCHANGED <<revoked, req, can, orphans, faults>>

(* self.retry: the same task id goes back to the broker. *)
TaskRetryPublish(t) ==
    /\ task[t].pc = "retrying"
    /\ task' = [task EXCEPT ![t].pc = "published", ![t].retries = @ + 1]
    /\ UNCHANGED <<row, revoked, req, can, orphans, faults>>

(* The worker child dies; the message was acknowledged when it was taken. *)
TaskCrash(t) ==
    /\ Fault("crash")
    /\ task[t].pc \in RunningPc
    /\ Free(t)
    /\ UNCHANGED <<row, revoked, req, can, orphans>>

LoseMessage(t) ==
    /\ Fault("lose")
    /\ task[t].pc = "published"
    /\ Free(t)
    /\ UNCHANGED <<row, revoked, req, can, orphans>>

(* SIGTERM from a revoke reaches the child some time after the broadcast. *)
TaskTerminated(t) ==
    /\ t \in revoked
    /\ task[t].pc \in RunningPc
    /\ Free(t)
    /\ UNCHANGED <<row, revoked, req, can, orphans, faults>>

-----------------------------------------------------------------------------
(* cancel_session: check the row as the view read it, revoke, save CANCELED. *)

CancelCheck(c, s) ==
    /\ can[c].pc = "idle"
    /\ row[s].status \in ActiveStatus
    /\ can' = [can EXCEPT ![c] = [pc |-> "revoke", session |-> s,
                                  task |-> row[s].taskId]]
    /\ UNCHANGED <<row, task, revoked, req, orphans, faults>>

CancelRevoke(c) ==
    /\ can[c].pc = "revoke"
    /\ \/ can[c].task # None /\ revoked' = revoked \cup {can[c].task}
       \/ (can[c].task = None \/ "revoke" \in Faults) /\ UNCHANGED revoked
    /\ can' = [can EXCEPT ![c].pc = "save"]
    /\ UNCHANGED <<row, task, req, orphans, faults>>

CancelSave(c) ==
    /\ can[c].pc = "save"
    /\ row' = [row EXCEPT ![can[c].session].status = "canceled",
                          ![can[c].session].finished = TRUE]
    /\ can' = [can EXCEPT ![c] = IdleCancel]
    /\ UNCHANGED <<task, revoked, req, orphans, faults>>

-----------------------------------------------------------------------------
(* requeue_orphaned_sessions: read the stuck rows, then publish for each.  *)

(* Mutated form: a zombie is told by started_at alone. *)
OrphanShape_StartedOnly(s) ==
    \/ row[s].status = "queued" /\ ~ row[s].started
    \/ row[s].started

(* Mutated form: the RUNNING zombies are forgotten. *)
OrphanShape_QueuedOnly(s) == row[s].status = "queued" /\ ~ row[s].started

(* The two orphan shapes of the query. *)
OrphanShape(s) ==
    \/ row[s].status = "queued" /\ ~ row[s].started
    \/ row[s].status = "running"

(* updated_at is older than the window: any time may have passed since the *)
(* last save, so the shape is all that the query tells.                    *)
RequeueRead(s) ==
    /\ s \notin orphans
    /\ OrphanShape(s)
    /\ orphans' = orphans \cup {s}
    /\ UNCHANGED <<row, task, revoked, req, can, faults>>

(* The row is not touched, so it stays overdue until a worker saves it. *)
RequeuePublish(s, t) ==
    /\ s \in orphans
    /\ t \in UnusedTaskIds
    /\ Publish(t, s)
    /\ orphans' = orphans \ {s}
    /\ UNCHANGED <<row, req, can, faults>>

(* delay() raises in the loop, or the worker of the beat task dies: the     *)
(* rest of the list is dropped and read again at a later beat.             *)
RequeueAborts ==
    /\ Fault("publish") \/ Fault("crash")
    /\ orphans # {}
    /\ orphans' = {}
    /\ UNCHANGED <<row, task, revoked, req, can>>

-----------------------------------------------------------------------------
EnqueueStep(q) ==
    \/ \E k \in Subjects : EnqueueCheck(q, k)
    \/ \E s \in Sessions : EnqueueCreate(q, s)
    \/ \E t \in TaskIds : EnqueuePublish(q, t)
    \/ EnqueuePublishFails(q)
    \/ EnqueueRecord(q)
    \/ RequestCrash(q)

TaskEnds(t) ==
    TaskComplete(t) \/ TaskFail(t) \/ TaskRetriesExhausted(t) \/ TaskRetrySave(t)

TaskStep(t) ==
    \/ TaskLoad(t)
    \/ TaskStart(t)
    \/ TaskEnds(t)
    \/ TaskRetryPublish(t)
    \/ TaskCrash(t)
    \/ LoseMessage(t)
    \/ TaskTerminated(t)

CancelStep(c) ==
    (\E s \in Sessions : CancelCheck(c, s)) \/ CancelRevoke(c) \/ CancelSave(c)

RequeueStep(s) ==
    RequeueRead(s) \/ \E t \in TaskIds : RequeuePublish(s, t)

Next ==
    \/ \E q \in Requests : EnqueueStep(q)
    \/ \E t \in TaskIds : TaskStep(t)
    \/ \E c \in Cancels : CancelStep(c)
    \/ \E s \in Sessions : RequeueStep(s)
    \/ RequeueAborts

Spec == Init /\ [][Next]_vars

(* The system's own steps are taken once they stay possible: workers take  *)
(* messages and finish their runs, web calls go on, and the beat task runs *)
(* every ORPHANED_SESSION_GRACE_SECONDS.  It must find a row that nothing   *)
(* is going to save any more, whose updated_at only gets older; it need    *)
(* not find one of which a message or a worker is left.  Nobody has to     *)
(* trigger or cancel, and nothing has to fail.                             *)
Fairness ==
    /\ \A q \in Requests :
          /\ WF_vars(\E s \in Sessions : EnqueueCreate(q, s))
          /\ WF_vars(\E t \in TaskIds : EnqueuePublish(q, t))
          /\ WF_vars(EnqueueRecord(q))
    /\ \A t \in TaskIds :
          /\ WF_vars(TaskLoad(t))
          /\ WF_vars(TaskStart(t))
          /\ WF_vars(TaskEnds(t))
          /\ WF_vars(TaskRetryPublish(t))
    /\ \A c \in Cancels : WF_vars(CancelRevoke(c)) /\ WF_vars(CancelSave(c))
    /\ \A s \in Sessions :
          /\ WF_vars(~ HasAgent(s) /\ RequeueRead(s))
          /\ WF_vars(\E t \in TaskIds : RequeuePublish(s, t))

FairSpec == Spec /\ Fairness

-----------------------------------------------------------------------------
(* Properties of every interleaving, under every fault. *)

(* The retry budget is shared by the messages and the row: a chain of       *)
(* retries never carries more than max_retries, a retry is only written     *)
(* while one is left, and a row that waits for a retry shows it.            *)
RetryBudget ==
    /\ \A t \in TaskIds : task[t].pc = "retrying" => task[t].retries < MaxRetries
    /\ \A s \in Sessions :
          row[s].status = "queued" /\ row[s].started => row[s].retryCount > 0

(* A canceled session that nobody holds a stale copy of: no worker is past  *)
(* the status check of run_gardening_session and no trigger call is about   *)
(* to mark the row failed.                                                  *)
QuietlyCanceled(s) ==
    /\ row[s].status = "canceled"
    /\ ~ InProgress(s)
    /\ \A q \in Requests : ~ (req[q].pc = "publish" /\ req[q].session = s)

(* From then on the cancel is final: messages still in the broker, retries, *)
(* other cancels and the beat task never bring the session back.            *)
QuietCancelIsFinal ==
    [][\A s \in Sessions : QuietlyCanceled(s) => QuietlyCanceled(s)']_vars

(* A completed or failed session of which no message, no worker, no call    *)
(* about to mark it failed and no entry of the beat task's list is left is *)
(* over: nothing the system does by itself starts it again, and all that   *)
(* can still happen to it is a cancel that read it while it was active.    *)
QuietlyEnded(s) == row[s].status \in {"completed", "failed"} /\ ~ HasAgent(s)

QuietEndIsFinal ==
    [][\A s \in Sessions :
          QuietlyEnded(s) => QuietlyEnded(s)' \/ row'[s].status = "canceled"]_vars

(* A session that has ended shows when.  The time stays on the row of a     *)
(* session that runs again only where a retry was saved over an end that    *)
(* another actor wrote meanwhile, and only until a worker takes the retry:  *)
(* no session that waits for its first run or is running shows one.         *)
FinishTime ==
    \A s \in Sessions :
        /\ row[s].status \in TerminalStatus => row[s].finished
        /\ row[s].finished =>
              \/ row[s].status \in TerminalStatus
              \/ row[s].status = "queued" /\ row[s].started

(* Two sessions of one subject are never active together. *)
OneActivePerSubject ==
    \A s, r \in Sessions :
        Active(s) /\ Active(r) /\ row[s].subject = row[r].subject => s = r

-----------------------------------------------------------------------------
(* Progress. *)

(* A row that waits for a retry whose message no longer exists.  Neither   *)
(* orphan shape of the beat task matches it.                               *)
RetryLost(s) ==
    row[s].status = "queued" /\ row[s].started /\ ~ HasAgent(s)

(* Nothing the system does on its own repairs such a row: whatever else     *)
(* crashes, is retried, triggered or re-published, it waits until somebody  *)
(* cancels it.                                                              *)
StrandedIsForGood ==
    [][\A s \in Sessions :
          RetryLost(s) => RetryLost(s)' \/ row'[s].status = "canceled"]_vars

(* Every session that is queued or running ends, although workers crash    *)
(* and messages are lost, unless the loss hits the message of a retry.     *)
ActiveEndsUnlessRetryLost ==
    \A s \in Sessions :
        Active(s) ~> (row[s].status \in TerminalStatus \/ RetryLost(s))

-----------------------------------------------------------------------------
(* What comments and tests of the repository say of the session, and the   *)
(* interleavings above refute.                                             *)

(* "Re-dispatch sessions stranded by a worker/broker outage": every        *)
(* session that is queued or running ends.                                 *)
ActiveEnds ==
    \A s \in Sessions : Active(s) ~> row[s].status \in TerminalStatus

=============================================================================
