----------------------- MODULE GardeningSessionProofs -----------------------
(***************************************************************************)
(* What holds of GardeningSession for every number of sessions, trigger    *)
(* calls, cancels, tasks, retries and faults.                              *)
(***************************************************************************)
EXTENDS GardeningSession, TLAPS

(* A terminal save (status and finished_at) keeps the table well typed. *)
LEMMA TerminalSave ==
    ASSUME row \in [Sessions -> Row], NEW s, NEW x \in Status,
           row' = [row EXCEPT ![s].status = x, ![s].finished = TRUE]
    PROVE  row' \in [Sessions -> Row]
BY DEF Row

LEMMA StatusNames ==
    {"absent", "queued", "running", "completed", "failed", "canceled"} = Status
BY DEF Status, ActiveStatus, TerminalStatus

(* Every action keeps the columns, the tasks and the calls in their types. *)
LEMMA TypeStep == TypeOK /\ RetryBudget /\ [Next]_vars => TypeOK'
<1> SUFFICES ASSUME TypeOK, RetryBudget, [Next]_vars PROVE TypeOK'
  OBVIOUS
<1>r. row \in [Sessions -> Row]
  BY DEF TypeOK
<1>t. task \in [TaskIds -> Task]
  BY DEF TypeOK
<1>q. req \in [Requests -> Request]
  BY DEF TypeOK
<1>c. can \in [Cancels -> Cancel]
  BY DEF TypeOK
<1>i. IdleRequest \in Request
  BY DEF IdleRequest, Request
<1>s. {"queued", "running", "completed", "failed", "canceled"} \subseteq Status
  BY StatusNames
<1>1. ASSUME NEW q \in Requests, EnqueueStep(q) PROVE TypeOK'
  <2>1. ASSUME NEW k \in Subjects, EnqueueCheck(q, k) PROVE TypeOK'
    <3>1. [IdleRequest EXCEPT !.pc = "create", !.subject = k] \in Request
      BY DEF IdleRequest, Request
    <3>2. QED
      BY <2>1, <3>1 DEF TypeOK, EnqueueCheck
  <2>2. ASSUME NEW s \in Sessions, EnqueueCreate(q, s) PROVE TypeOK'
    <3>1. row' \in [Sessions -> Row]
      <4>1. req[q].subject \in Subjects \cup {None}
        BY <1>q DEF Request
      <4>2. NoRow \in Row
        BY ConstantAssumption DEF NoRow, Row, Status
      <4>3. QED
        BY <1>r, <1>s, <2>2, <4>1, <4>2 DEF EnqueueCreate, Row
    <3>2. req' \in [Requests -> Request]
      BY <1>q, <2>2 DEF EnqueueCreate, Request
    <3>3. QED
      BY <2>2, <3>1, <3>2 DEF TypeOK, EnqueueCreate
  <2>3. ASSUME NEW t \in TaskIds, EnqueuePublish(q, t) PROVE TypeOK'
    <3>1. req[q].session \in Sessions \cup {None}
      BY <1>q DEF Request
    <3>2. task' \in [TaskIds -> Task]
      BY <1>t, <2>3, <3>1, ConstantAssumption DEF EnqueuePublish, Publish, Task
    <3>3. req' \in [Requests -> Request]
      BY <1>q, <2>3 DEF EnqueuePublish, Request
    <3>4. QED
      BY <2>3, <3>2, <3>3 DEF TypeOK, EnqueuePublish, Publish
  <2>4. ASSUME EnqueuePublishFails(q) PROVE TypeOK'
    <3>1. row' \in [Sessions -> Row]
      BY <1>r, <1>s, <2>4, TerminalSave DEF EnqueuePublishFails
    <3>2. QED
      BY <1>i, <2>4, <3>1, ConstantAssumption DEF TypeOK, EnqueuePublishFails, Fault
  <2>5. ASSUME EnqueueRecord(q) PROVE TypeOK'
    <3>1. req[q].task \in TaskIds \cup {None}
      BY <1>q DEF Request
    <3>2. row' \in [Sessions -> Row]
      BY <1>r, <2>5, <3>1 DEF EnqueueRecord, Row
    <3>3. QED
      BY <1>i, <2>5, <3>2 DEF TypeOK, EnqueueRecord
  <2>6. ASSUME RequestCrash(q) PROVE TypeOK'
    BY <1>i, <2>6, ConstantAssumption DEF TypeOK, RequestCrash, Fault
  <2>7. QED
    BY <1>1, <2>1, <2>2, <2>3, <2>4, <2>5, <2>6 DEF EnqueueStep
<1>2. ASSUME NEW t \in TaskIds, TaskStep(t) PROVE TypeOK'
  <2>0. ASSUME Free(t) PROVE task' \in [TaskIds -> Task]
    BY <1>t, <2>0, ConstantAssumption DEF Free, FreeTask, Task
  <2>1. ASSUME TaskLoad(t) PROVE TypeOK'
    <3>1. task' \in [TaskIds -> Task]
      BY <1>t, <2>0, <2>1 DEF TaskLoad, Task, RunningPc
    <3>2. QED
      BY <2>1, <3>1 DEF TypeOK, TaskLoad
  <2>2. ASSUME TaskStart(t) PROVE TypeOK'
    <3>1. task' \in [TaskIds -> Task]
      BY <1>t, <2>2 DEF TaskStart, Task, RunningPc
    <3>2. row' \in [Sessions -> Row]
      BY <1>r, <1>s, <2>2 DEF TaskStart, Row
    <3>3. QED
      BY <2>2, <3>1, <3>2 DEF TypeOK, TaskStart
  <2>3. ASSUME TaskComplete(t) PROVE TypeOK'
    <3>1. row' \in [Sessions -> Row]
      BY <1>r, <1>s, <2>3, TerminalSave DEF TaskComplete
    <3>2. QED
      BY <2>0, <2>3, <3>1 DEF TypeOK, TaskComplete
  <2>4. ASSUME TaskFail(t) PROVE TypeOK'
    <3>1. row' \in [Sessions -> Row]
      BY <1>r, <1>s, <2>4, TerminalSave DEF TaskFail
    <3>2. QED
      BY <2>0, <2>4, <3>1 DEF TypeOK, TaskFail
  <2>5. ASSUME TaskRetriesExhausted(t) PROVE TypeOK'
    <3>1. task[t].retries \in 0..MaxRetries
      BY <1>t DEF Task
    <3>2. row' \in [Sessions -> Row]
      BY <1>r, <1>s, <2>5, <3>1 DEF TaskRetriesExhausted, Row
    <3>3. QED
      BY <2>0, <2>5, <3>2 DEF TypeOK, TaskRetriesExhausted
  <2>6. ASSUME TaskRetrySave(t) PROVE TypeOK'
    <3>1. task[t].retries + 1 \in 0..MaxRetries
      BY <1>t, <2>6, ConstantAssumption DEF TaskRetrySave, Task
    <3>2. row' \in [Sessions -> Row]
      BY <1>r, <1>s, <2>6, <3>1 DEF TaskRetrySave, Row
    <3>3. task' \in [TaskIds -> Task]
      BY <1>t, <2>6 DEF TaskRetrySave, Task, RunningPc
    <3>4. QED
      BY <2>6, <3>2, <3>3 DEF TypeOK, TaskRetrySave
  <2>7. ASSUME TaskRetryPublish(t) PROVE TypeOK'
    <3>0. task[t].retries < MaxRetries
      BY <2>7 DEF RetryBudget, TaskRetryPublish
    <3>1. task' \in [TaskIds -> Task]
      BY <1>t, <2>7, <3>0, ConstantAssumption DEF TaskRetryPublish, Task
    <3>2. QED
      BY <2>7, <3>1 DEF TypeOK, TaskRetryPublish
  <2>8. ASSUME TaskCrash(t) \/ LoseMessage(t) \/ TaskTerminated(t) PROVE TypeOK'
    BY <2>0, <2>8, ConstantAssumption
    DEF TypeOK, TaskCrash, LoseMessage, TaskTerminated, Fault
  <2>9. QED
    BY <1>2, <2>1, <2>2, <2>3, <2>4, <2>5, <2>6, <2>7, <2>8 DEF TaskStep, TaskEnds
<1>3. ASSUME NEW c \in Cancels, CancelStep(c) PROVE TypeOK'
  <2>1. ASSUME NEW s \in Sessions, CancelCheck(c, s) PROVE TypeOK'
    <3>1. row[s].taskId \in TaskIds \cup {None}
      BY <1>r DEF Row
    <3>2. can' \in [Cancels -> Cancel]
      BY <1>c, <2>1, <3>1 DEF CancelCheck, Cancel
    <3>3. QED
      BY <2>1, <3>2 DEF TypeOK, CancelCheck
  <2>2. ASSUME CancelRevoke(c) PROVE TypeOK'
    <3>1. can' \in [Cancels -> Cancel] /\ revoked' \subseteq TaskIds
      <4>1. revoked \subseteq TaskIds /\ can[c].task \in TaskIds \cup {None}
        BY <1>c DEF TypeOK, Cancel
      <4>2. can' \in [Cancels -> Cancel]
        BY <1>c, <2>2 DEF CancelRevoke, Cancel
      <4>3. QED
        BY <2>2, <4>1, <4>2 DEF CancelRevoke
    <3>2. QED
      BY <2>2, <3>1 DEF TypeOK, CancelRevoke
  <2>3. ASSUME CancelSave(c) PROVE TypeOK'
    <3>1. row' \in [Sessions -> Row]
      BY <1>r, <1>s, <2>3, TerminalSave DEF CancelSave
    <3>2. IdleCancel \in Cancel
      BY DEF IdleCancel, Cancel
    <3>3. QED
      BY <2>3, <3>1, <3>2 DEF TypeOK, CancelSave
  <2>4. QED
    BY <1>3, <2>1, <2>2, <2>3 DEF CancelStep
<1>4. ASSUME NEW s \in Sessions, RequeueStep(s) PROVE TypeOK'
  <2>1. ASSUME RequeueRead(s) PROVE TypeOK'
    BY <2>1 DEF TypeOK, RequeueRead
  <2>2. ASSUME NEW t \in TaskIds, RequeuePublish(s, t) PROVE TypeOK'
    <3>1. task' \in [TaskIds -> Task]
      BY <1>t, <2>2, ConstantAssumption DEF RequeuePublish, Publish, Task
    <3>2. QED
      BY <2>2, <3>1 DEF TypeOK, RequeuePublish, Publish
  <2>3. QED
    BY <1>4, <2>1, <2>2 DEF RequeueStep
<1>5. ASSUME RequeueAborts PROVE TypeOK'
  BY <1>5, ConstantAssumption DEF TypeOK, RequeueAborts, Fault
<1>6. CASE UNCHANGED vars
  BY <1>6 DEF TypeOK, vars
<1>7. QED
  BY <1>1, <1>2, <1>3, <1>4, <1>5, <1>6 DEF Next

(* A retry is only written while one is left, and it is counted. *)
LEMMA RetryStep == TypeOK /\ RetryBudget /\ [Next]_vars => RetryBudget'
<1> SUFFICES ASSUME TypeOK, RetryBudget, [Next]_vars PROVE RetryBudget'
  OBVIOUS
<1>r. row \in [Sessions -> Row]
  BY DEF TypeOK
<1>t. task \in [TaskIds -> Task]
  BY DEF TypeOK
<1> DEFINE TaskPart(t) == task[t].pc = "retrying" => task[t].retries < MaxRetries
           Waits(s) == row[s].status = "queued" /\ row[s].started
           RowPart(s) == Waits(s) => row[s].retryCount > 0
<1>0. /\ \A t \in TaskIds : TaskPart(t)
      /\ \A s \in Sessions : RowPart(s)
  BY DEF RetryBudget
<1>1. \A u \in TaskIds : TaskPart(u)'
  <2> SUFFICES ASSUME NEW u \in TaskIds PROVE TaskPart(u)'
    OBVIOUS
  <2>1. CASE task' = task
    BY <1>0, <2>1
  <2>2. ASSUME NEW t \in TaskIds, NEW s, Publish(t, s) PROVE TaskPart(u)'
    BY <1>0, <1>t, <2>2 DEF Publish
  <2>3. ASSUME NEW t \in TaskIds, Free(t) PROVE TaskPart(u)'
    BY <1>0, <1>t, <2>3 DEF Free, FreeTask
  <2>4. ASSUME NEW t \in TaskIds, TaskStep(t) PROVE TaskPart(u)'
    <3>1. ASSUME TaskLoad(t) PROVE TaskPart(u)'
      BY <1>0, <1>t, <2>3, <3>1 DEF TaskLoad, Task
    <3>2. ASSUME TaskStart(t) PROVE TaskPart(u)'
      BY <1>0, <1>t, <3>2 DEF TaskStart, Task
    <3>3. ASSUME TaskRetrySave(t) PROVE TaskPart(u)'
      BY <1>0, <1>t, <3>3 DEF TaskRetrySave, Task
    <3>4. ASSUME TaskRetryPublish(t) PROVE TaskPart(u)'
      BY <1>0, <1>t, <3>4 DEF TaskRetryPublish, Task
    <3>5. QED
      BY <2>3, <2>4, <3>1, <3>2, <3>3, <3>4
      DEF TaskStep, TaskEnds, TaskComplete, TaskFail, TaskRetriesExhausted, TaskCrash,
          LoseMessage, TaskTerminated
  <2>5. QED
    BY <2>1, <2>2, <2>4
    DEF Next, vars, EnqueueStep, EnqueueCheck, EnqueueCreate, EnqueuePublish,
        EnqueuePublishFails, EnqueueRecord, RequestCrash, CancelStep, CancelCheck,
        CancelRevoke, CancelSave, RequeueStep, RequeueRead, RequeuePublish, RequeueAborts
<1>2. \A s \in Sessions : RowPart(s)'
  <2> SUFFICES ASSUME NEW s \in Sessions PROVE RowPart(s)'
    OBVIOUS
  <2>1. CASE row' = row
    BY <1>0, <2>1
  <2>2. ASSUME NEW x, NEW st \in {"completed", "failed", "canceled"},
               row' = [row EXCEPT ![x].status = st, ![x].finished = TRUE]
        PROVE  RowPart(s)'
    BY <1>0, <1>r, <2>2 DEF Row
  <2>3. ASSUME NEW q \in Requests, EnqueueStep(q) PROVE RowPart(s)'
    <3>1. ASSUME NEW x \in Sessions, EnqueueCreate(q, x) PROVE RowPart(s)'
      <4>1. ~ (Waits(x)') /\ \A y \in Sessions : y # x => row'[y] = row[y]
        BY <1>r, <3>1 DEF EnqueueCreate, NoRow
      <4>2. QED
        BY <1>0, <4>1
    <3>2. ASSUME EnqueueRecord(q) PROVE RowPart(s)'
      BY <1>0, <1>r, <3>2 DEF EnqueueRecord, Row
    <3>3. QED
      BY <2>1, <2>2, <2>3, <3>1, <3>2
      DEF EnqueueStep, EnqueueCheck, EnqueuePublish, EnqueuePublishFails, RequestCrash
  <2>4. ASSUME NEW t \in TaskIds, TaskStep(t) PROVE RowPart(s)'
    <3>1. ASSUME TaskStart(t) PROVE RowPart(s)'
      BY <1>0, <1>r, <3>1 DEF TaskStart, Row
    <3>2. ASSUME TaskRetriesExhausted(t) PROVE RowPart(s)'
      BY <1>0, <1>r, <3>2 DEF TaskRetriesExhausted, Row
    <3>3. ASSUME TaskRetrySave(t) PROVE RowPart(s)'
      <4>1. task[t].retries \in Nat
        BY <1>t, ConstantAssumption DEF Task
      <4>2. QED
        BY <1>0, <1>r, <3>3, <4>1 DEF TaskRetrySave, Row
    <3>4. QED
      BY <2>1, <2>2, <2>4, <3>1, <3>2, <3>3
      DEF TaskStep, TaskEnds, TaskLoad, TaskComplete, TaskFail, TaskRetryPublish,
          TaskCrash, LoseMessage, TaskTerminated
  <2>5. QED
    BY <2>1, <2>2, <2>3, <2>4
    DEF Next, vars, CancelStep, CancelCheck, CancelRevoke, CancelSave, RequeueStep,
        RequeueRead, RequeuePublish, RequeueAborts
<1>3. QED
  BY <1>1, <1>2 DEF RetryBudget

(* The types and the retry budget hold together: neither is inductive alone, *)
(* because retry() adds one to the retries of a task that saved QUEUED.      *)
LEMMA TypeAndBudget == Spec => [](TypeOK /\ RetryBudget)
<1>1. Init => TypeOK /\ RetryBudget
  BY ConstantAssumption
  DEF Init, TypeOK, RetryBudget, NoRow, Row, Status, FreeTask, Task, IdleRequest,
      Request, IdleCancel, Cancel
<1>2. QED
  BY <1>1, TypeStep, RetryStep, PTL DEF Spec

(* The type invariant of the session row, its tasks and the calls on it. *)
THEOREM TypeCorrect == Spec => []TypeOK
BY TypeAndBudget, PTL

(* max_retries bounds every chain of retries, and a row that waits for a    *)
(* retry says so in retry_count, whatever the interleaving.                 *)
THEOREM RetryBudgetHolds == Spec => []RetryBudget
BY TypeAndBudget, PTL

-----------------------------------------------------------------------------
(* The cancel. *)

(* A step cannot wake a session that is quietly canceled. *)
LEMMA QuietStep ==
    ASSUME TypeOK, [Next]_vars, NEW s \in Sessions, QuietlyCanceled(s)
    PROVE  QuietlyCanceled(s)'
<1>r. row \in [Sessions -> Row]
  BY DEF TypeOK
<1>t. task \in [TaskIds -> Task]
  BY DEF TypeOK
<1>q. req \in [Requests -> Request]
  BY DEF TypeOK
<1> DEFINE Stopped == row[s].status = "canceled"
           NoRun == \A t \in TaskIds : ~ (task[t].session = s /\ task[t].pc \in RunningPc)
           NoPublish == \A q \in Requests : ~ (req[q].pc = "publish" /\ req[q].session = s)
<1>0. Stopped /\ NoRun /\ NoPublish
  BY DEF QuietlyCanceled, InProgress, TasksOf
<1>1. Stopped'
  <2>1. CASE row' = row
    BY <1>0, <2>1
  <2>2. ASSUME NEW q \in Requests, EnqueueStep(q) PROVE Stopped'
    <3>1. ASSUME NEW x \in Sessions, EnqueueCreate(q, x) PROVE Stopped'
      BY <1>0, <1>r, <3>1 DEF EnqueueCreate
    <3>2. ASSUME EnqueuePublishFails(q) PROVE Stopped'
      BY <1>0, <1>r, <3>2 DEF EnqueuePublishFails
    <3>3. ASSUME EnqueueRecord(q) PROVE Stopped'
      BY <1>0, <1>r, <3>3 DEF EnqueueRecord, Row
    <3>4. QED
      BY <2>1, <2>2, <3>1, <3>2, <3>3
      DEF EnqueueStep, EnqueueCheck, EnqueuePublish, RequestCrash
  <2>3. ASSUME NEW t \in TaskIds, TaskStep(t) PROVE Stopped'
    <3>1. ASSUME task[t].pc \in RunningPc PROVE task[t].session # s
      BY <1>0, <3>1
    <3>2. ASSUME TaskStart(t) PROVE Stopped'
      BY <1>0, <1>r, <3>1, <3>2 DEF TaskStart, RunningPc
    <3>3. ASSUME TaskEnds(t) PROVE Stopped'
      BY <1>0, <1>r, <3>1, <3>3
      DEF TaskEnds, TaskComplete, TaskFail, TaskRetriesExhausted, TaskRetrySave, RunningPc
    <3>4. QED
      BY <2>1, <2>3, <3>2, <3>3
      DEF TaskStep, TaskLoad, TaskRetryPublish, TaskCrash, LoseMessage, TaskTerminated
  <2>4. ASSUME NEW c \in Cancels, CancelSave(c) PROVE Stopped'
    BY <1>0, <1>r, <2>4 DEF CancelSave, Row
  <2>5. QED
    BY <2>1, <2>2, <2>3, <2>4
    DEF Next, vars, CancelStep, CancelCheck, CancelRevoke, RequeueStep, RequeueRead,
        RequeuePublish, RequeueAborts
<1>2. NoRun'
  <2>1. CASE task' = task
    BY <1>0, <2>1
  <2>2. ASSUME NEW t \in TaskIds, NEW x, Publish(t, x) PROVE NoRun'
    BY <1>0, <1>t, <2>2 DEF Publish, RunningPc
  <2>3. ASSUME NEW t \in TaskIds, Free(t) PROVE NoRun'
    BY <1>0, <1>t, <2>3 DEF Free, FreeTask, RunningPc
  <2>4. ASSUME NEW t \in TaskIds, TaskStep(t) PROVE NoRun'
    <3>1. ASSUME TaskLoad(t) PROVE NoRun'
      <4>1. CASE task[t].session = s
        BY <1>0, <2>3, <3>1, <4>1 DEF TaskLoad
      <4>2. CASE task[t].session # s
        BY <1>0, <1>t, <2>3, <3>1, <4>2 DEF TaskLoad, Task
      <4>3. QED
        BY <4>1, <4>2
    <3>2. ASSUME TaskStart(t) \/ TaskRetrySave(t) PROVE NoRun'
      BY <1>0, <1>t, <3>2 DEF TaskStart, TaskRetrySave, RunningPc, Task
    <3>3. ASSUME TaskRetryPublish(t) PROVE NoRun'
      BY <1>0, <1>t, <3>3 DEF TaskRetryPublish, RunningPc, Task
    <3>4. QED
      BY <2>3, <2>4, <3>1, <3>2, <3>3
      DEF TaskStep, TaskEnds, TaskComplete, TaskFail, TaskRetriesExhausted, TaskCrash,
          LoseMessage, TaskTerminated
  <2>5. QED
    BY <2>1, <2>2, <2>4
    DEF Next, vars, EnqueueStep, EnqueueCheck, EnqueueCreate, EnqueuePublish,
        EnqueuePublishFails, EnqueueRecord, RequestCrash, CancelStep, CancelCheck,
        CancelRevoke, CancelSave, RequeueStep, RequeueRead, RequeuePublish, RequeueAborts
<1>3. NoPublish'
  <2>1. CASE req' = req
    BY <1>0, <2>1
  <2>2. ASSUME NEW q \in Requests, EnqueueStep(q) PROVE NoPublish'
    <3>1. ASSUME NEW x \in Sessions, EnqueueCreate(q, x) PROVE NoPublish'
      <4>1. x # s
        BY <1>0, <3>1 DEF EnqueueCreate
      <4>2. QED
        BY <1>0, <1>q, <3>1, <4>1 DEF EnqueueCreate, Request
    <3>2. ASSUME NEW k \in Subjects, EnqueueCheck(q, k) PROVE NoPublish'
      BY <1>0, <1>q, <3>2 DEF EnqueueCheck, IdleRequest
    <3>3. ASSUME NEW t \in TaskIds, EnqueuePublish(q, t) PROVE NoPublish'
      BY <1>0, <1>q, <3>3 DEF EnqueuePublish, Request
    <3>4. ASSUME EnqueuePublishFails(q) \/ EnqueueRecord(q) \/ RequestCrash(q)
          PROVE  NoPublish'
      BY <1>0, <1>q, <3>4 DEF EnqueuePublishFails, EnqueueRecord, RequestCrash, IdleRequest
    <3>5. QED
      BY <2>2, <3>1, <3>2, <3>3, <3>4 DEF EnqueueStep
  <2>3. QED
    BY <2>1, <2>2
    DEF Next, vars, TaskStep, TaskEnds, TaskLoad, TaskStart, TaskComplete, TaskFail,
        TaskRetriesExhausted, TaskRetrySave, TaskRetryPublish, TaskCrash, LoseMessage,
        TaskTerminated, CancelStep, CancelCheck, CancelRevoke, CancelSave, RequeueStep,
        RequeueRead, RequeuePublish, RequeueAborts
<1>4. QED
  BY <1>1, <1>2, <1>3 DEF QuietlyCanceled, InProgress, TasksOf

(* Once a session is canceled and nobody holds a stale copy of its row, the *)
(* cancel is final under every fault: the status check at the top of        *)
(* run_gardening_session leaves no other way back.                          *)
THEOREM QuietCancelTheorem == Spec => QuietCancelIsFinal
<1>1. TypeOK /\ [Next]_vars =>
        [\A s \in Sessions : QuietlyCanceled(s) => QuietlyCanceled(s)']_vars
  BY QuietStep
<1>2. QED
  BY <1>1, TypeCorrect, PTL DEF Spec, QuietCancelIsFinal

-----------------------------------------------------------------------------
(* Rows that nothing stands for: ended ones, and lost retries. *)

(* Without a task, a trigger call about to publish or an entry on the list  *)
(* of the beat task, and with a shape the beat task does not look for, a    *)
(* row gets none of them, and no save but a cancel's reaches it.            *)
LEMMA LeftAlone ==
    ASSUME TypeOK, [Next]_vars, NEW s \in Sessions,
           ~ HasAgent(s), ~ OrphanShape(s), row[s].status # "absent"
    PROVE  /\ ~ HasAgent(s)'
           /\ row'[s].started = row[s].started
           /\ row'[s].status \in {row[s].status, "canceled"}
<1>r. row \in [Sessions -> Row] /\ None \notin Sessions
  BY ConstantAssumption DEF TypeOK
<1>t. task \in [TaskIds -> Task]
  BY DEF TypeOK
<1>q. req \in [Requests -> Request]
  BY DEF TypeOK
<1> DEFINE NoTask == \A t \in TaskIds : task[t].session # s
           NoEntry == s \notin orphans
           NoCall == \A q \in Requests : ~ (req[q].pc = "publish" /\ req[q].session = s)
           Kept == /\ row'[s].started = row[s].started
                   /\ row'[s].status \in {row[s].status, "canceled"}
<1>0. NoTask /\ NoEntry /\ NoCall
  BY DEF HasAgent, TasksOf
<1>1. ASSUME NEW q \in Requests, EnqueueStep(q) PROVE NoTask' /\ NoEntry' /\ NoCall' /\ Kept
  <2>1. ASSUME NEW k \in Subjects, EnqueueCheck(q, k)
        PROVE  NoTask' /\ NoEntry' /\ NoCall' /\ Kept
    BY <1>0, <1>q, <2>1 DEF EnqueueCheck, IdleRequest
  <2>2. ASSUME NEW x \in Sessions, EnqueueCreate(q, x)
        PROVE  NoTask' /\ NoEntry' /\ NoCall' /\ Kept
    <3>1. x # s
      BY <2>2 DEF EnqueueCreate
    <3>2. NoCall'
      BY <1>0, <1>q, <2>2, <3>1 DEF EnqueueCreate, Request
    <3>3. QED
      BY <1>0, <1>r, <2>2, <3>1, <3>2 DEF EnqueueCreate
  <2>3. ASSUME NEW t \in TaskIds, EnqueuePublish(q, t)
        PROVE  NoTask' /\ NoEntry' /\ NoCall' /\ Kept
    <3>1. req[q].session # s
      BY <1>0, <2>3 DEF EnqueuePublish
    <3>2. NoTask'
      BY <1>0, <1>t, <2>3, <3>1 DEF EnqueuePublish, Publish
    <3>3. QED
      BY <1>0, <1>q, <2>3, <3>2 DEF EnqueuePublish, Request
  <2>4. ASSUME EnqueuePublishFails(q) PROVE NoTask' /\ NoEntry' /\ NoCall' /\ Kept
    <3>1. req[q].session # s
      BY <1>0, <2>4 DEF EnqueuePublishFails
    <3>2. Kept
      BY <1>r, <2>4, <3>1 DEF EnqueuePublishFails
    <3>3. QED
      BY <1>0, <1>q, <2>4, <3>2 DEF EnqueuePublishFails, IdleRequest
  <2>5. ASSUME EnqueueRecord(q) PROVE NoTask' /\ NoEntry' /\ NoCall' /\ Kept
    <3>1. Kept
      BY <1>r, <2>5 DEF EnqueueRecord, Row
    <3>2. QED
      BY <1>0, <1>q, <2>5, <3>1 DEF EnqueueRecord, IdleRequest
  <2>6. ASSUME RequestCrash(q) PROVE NoTask' /\ NoEntry' /\ NoCall' /\ Kept
    BY <1>0, <1>q, <2>6 DEF RequestCrash, IdleRequest
  <2>7. QED
    BY <1>1, <2>1, <2>2, <2>3, <2>4, <2>5, <2>6 DEF EnqueueStep
<1>2. ASSUME NEW t \in TaskIds, TaskStep(t) PROVE NoTask' /\ NoEntry' /\ NoCall' /\ Kept
  <2>1. task[t].session # s
    BY <1>0
  <2>2. Kept
    BY <1>r, <1>2, <2>1
    DEF TaskStep, TaskEnds, TaskLoad, TaskStart, TaskComplete, TaskFail,
        TaskRetriesExhausted, TaskRetrySave, TaskRetryPublish, TaskCrash, LoseMessage,
        TaskTerminated
  <2>3. NoTask'
    <3>1. ASSUME Free(t) PROVE NoTask'
      BY <1>0, <1>t, <1>r, <3>1 DEF Free, FreeTask
    <3>2. ASSUME TaskLoad(t) PROVE NoTask'
      BY <1>0, <1>t, <2>1, <3>1, <3>2 DEF TaskLoad, Task
    <3>3. ASSUME TaskStart(t) \/ TaskRetrySave(t) PROVE NoTask'
      BY <1>0, <1>t, <2>1, <3>3 DEF TaskStart, TaskRetrySave, Task
    <3>4. ASSUME TaskRetryPublish(t) PROVE NoTask'
      BY <1>0, <1>t, <2>1, <3>4 DEF TaskRetryPublish, Task
    <3>5. QED
      BY <1>2, <3>1, <3>2, <3>3, <3>4
      DEF TaskStep, TaskEnds, TaskComplete, TaskFail, TaskRetriesExhausted, TaskCrash,
          LoseMessage, TaskTerminated
  <2>4. req' = req /\ orphans' = orphans
    BY <1>2
    DEF TaskStep, TaskEnds, TaskLoad, TaskStart, TaskComplete, TaskFail,
        TaskRetriesExhausted, TaskRetrySave, TaskRetryPublish, TaskCrash, LoseMessage,
        TaskTerminated
  <2>5. QED
    BY <1>0, <2>2, <2>3, <2>4
<1>3. ASSUME NEW c \in Cancels, CancelStep(c) PROVE NoTask' /\ NoEntry' /\ NoCall' /\ Kept
  <2>1. Kept
    <3>1. ASSUME CancelSave(c) PROVE Kept
      BY <1>r, <3>1 DEF CancelSave, Row
    <3>2. QED
      BY <1>3, <3>1 DEF CancelStep, CancelCheck, CancelRevoke
  <2>2. QED
    BY <1>0, <1>3, <2>1 DEF CancelStep, CancelCheck, CancelRevoke, CancelSave
<1>4. ASSUME NEW x \in Sessions, RequeueStep(x) PROVE NoTask' /\ NoEntry' /\ NoCall' /\ Kept
  <2>1. ASSUME RequeueRead(x) PROVE NoTask' /\ NoEntry' /\ NoCall' /\ Kept
    BY <1>0, <2>1 DEF RequeueRead
  <2>2. ASSUME NEW t \in TaskIds, RequeuePublish(x, t)
        PROVE  NoTask' /\ NoEntry' /\ NoCall' /\ Kept
    <3>1. x # s
      BY <1>0, <2>2 DEF RequeuePublish
    <3>2. NoTask'
      BY <1>0, <1>t, <2>2, <3>1 DEF RequeuePublish, Publish
    <3>3. QED
      BY <1>0, <2>2, <3>2 DEF RequeuePublish
  <2>3. QED
    BY <1>4, <2>1, <2>2 DEF RequeueStep
<1>5. ASSUME RequeueAborts PROVE NoTask' /\ NoEntry' /\ NoCall' /\ Kept
  BY <1>0, <1>5 DEF RequeueAborts
<1>6. ASSUME UNCHANGED vars PROVE NoTask' /\ NoEntry' /\ NoCall' /\ Kept
  <2>1. row' = row /\ task' = task /\ req' = req /\ orphans' = orphans
    BY <1>6 DEF vars
  <2>2. QED
    BY <1>0, <2>1
<1>7. NoTask' /\ NoEntry' /\ NoCall' /\ Kept
  <2> HIDE DEF NoTask, NoEntry, NoCall, Kept
  <2>1. QED
    BY <1>1, <1>2, <1>3, <1>4, <1>5, <1>6 DEF Next
<1>8. QED
  BY <1>7 DEF HasAgent, TasksOf

(* Whatever was late, repeated, lost or killed before, a completed or failed *)
(* session that nothing stands for any more is not started again: neither    *)
(* shape of the orphan query matches it.                                     *)
THEOREM QuietEndTheorem == Spec => QuietEndIsFinal
<1>1. ASSUME TypeOK, [Next]_vars, NEW s \in Sessions, QuietlyEnded(s)
      PROVE  QuietlyEnded(s)' \/ row'[s].status = "canceled"
  <2>1. ~ OrphanShape(s) /\ row[s].status # "absent"
    BY <1>1 DEF QuietlyEnded, OrphanShape
  <2>2. QED
    BY <1>1, <2>1, LeftAlone DEF QuietlyEnded
<1>2. TypeOK /\ [Next]_vars =>
        [\A s \in Sessions :
            QuietlyEnded(s) => QuietlyEnded(s)' \/ row'[s].status = "canceled"]_vars
  BY <1>1
<1>3. QED
  BY <1>2, TypeCorrect, PTL DEF Spec, QuietEndIsFinal

(* A row that waits for a retry whose message is gone matches neither shape *)
(* of the orphan query, so only a cancel ever reaches it again.             *)
THEOREM StrandedTheorem == Spec => StrandedIsForGood
<1>1. ASSUME TypeOK, [Next]_vars, NEW s \in Sessions, RetryLost(s)
      PROVE  RetryLost(s)' \/ row'[s].status = "canceled"
  <2>1. ~ OrphanShape(s) /\ row[s].status # "absent"
    BY <1>1 DEF RetryLost, OrphanShape
  <2>2. QED
    BY <1>1, <2>1, LeftAlone DEF RetryLost
<1>2. TypeOK /\ [Next]_vars =>
        [\A s \in Sessions :
            RetryLost(s) => RetryLost(s)' \/ row'[s].status = "canceled"]_vars
  BY <1>1
<1>3. QED
  BY <1>2, TypeCorrect, PTL DEF Spec, StrandedIsForGood

-----------------------------------------------------------------------------
(* The time of the end. *)

(* The inductive part of FinishTime: a retry is saved by a worker that has  *)
(* saved RUNNING, after which started_at stays, and a row that is not there *)
(* yet has no columns set.                                                  *)
WorkerStarted ==
    \A t \in TaskIds, s \in Sessions :
        task[t].pc = "working" /\ task[t].session = s => row[s].started
AbsentIsEmpty ==
    \A s \in Sessions :
        row[s].status = "absent" => ~ row[s].started /\ ~ row[s].finished
FinishInv == FinishTime /\ WorkerStarted /\ AbsentIsEmpty

(* The saves that end a session or give it its task id keep all three. *)
LEMMA FinishSave ==
    ASSUME TypeOK, FinishInv, NEW x,
           \/ \E st \in {"completed", "failed", "canceled"} :
                 row' = [row EXCEPT ![x].status = st, ![x].finished = TRUE]
           \/ \E i \in TaskIds \cup {None} : row' = [row EXCEPT ![x].taskId = i],
           \A t \in TaskIds : task'[t].pc = "working" =>
              task[t].pc = "working" /\ task'[t].session = task[t].session
    PROVE  FinishInv'
<1>r. row \in [Sessions -> Row]
  BY DEF TypeOK
<1>1. \A s \in Sessions :
         /\ row'[s].started = row[s].started
         /\ \/ row'[s].status = row[s].status /\ row'[s].finished = row[s].finished
            \/ row'[s].status \in {"completed", "failed", "canceled"} /\ row'[s].finished
  BY <1>r DEF Row
<1>2. FinishTime'
  BY <1>1 DEF FinishInv, FinishTime, TerminalStatus
<1>3. WorkerStarted'
  BY <1>1 DEF FinishInv, WorkerStarted
<1>4. AbsentIsEmpty'
  BY <1>1 DEF FinishInv, AbsentIsEmpty
<1>5. QED
  BY <1>2, <1>3, <1>4 DEF FinishInv

LEMMA FinishStep == TypeOK /\ FinishInv /\ [Next]_vars => FinishInv'
<1> SUFFICES ASSUME TypeOK, FinishInv, [Next]_vars PROVE FinishInv'
  OBVIOUS
<1>r. row \in [Sessions -> Row]
  BY DEF TypeOK
<1>t. task \in [TaskIds -> Task]
  BY DEF TypeOK
<1>q. req \in [Requests -> Request]
  BY DEF TypeOK
<1> DEFINE NoNewWorker ==
             \A t \in TaskIds : task'[t].pc = "working" =>
                task[t].pc = "working" /\ task'[t].session = task[t].session
<1>0. ASSUME row' = row, NoNewWorker PROVE FinishInv'
  BY <1>0 DEF FinishInv, FinishTime, WorkerStarted, AbsentIsEmpty
<1>1. ASSUME NEW t \in TaskIds, Free(t) PROVE NoNewWorker
  BY <1>t, <1>1 DEF Free, FreeTask
<1>2. ASSUME NEW t \in TaskIds, NEW x, Publish(t, x) PROVE NoNewWorker
  BY <1>t, <1>2 DEF Publish
<1>3. ASSUME NEW q \in Requests, EnqueueStep(q) PROVE FinishInv'
  <2>1. ASSUME NEW x \in Sessions, EnqueueCreate(q, x) PROVE FinishInv'
    <3>1. /\ ~ row'[x].started /\ ~ row'[x].finished
          /\ row'[x].status = "queued"
          /\ \A s \in Sessions : s # x => row'[s] = row[s]
      BY <1>r, <2>1 DEF EnqueueCreate, NoRow
    <3>2. ~ row[x].started /\ task' = task
      BY <2>1 DEF EnqueueCreate, FinishInv, AbsentIsEmpty
    <3>3. FinishTime'
      BY <3>1 DEF FinishInv, FinishTime, TerminalStatus
    <3>4. WorkerStarted'
      BY <3>1, <3>2 DEF FinishInv, WorkerStarted
    <3>5. AbsentIsEmpty'
      BY <3>1 DEF FinishInv, AbsentIsEmpty
    <3>6. QED
      BY <3>3, <3>4, <3>5 DEF FinishInv
  <2>2. ASSUME NEW t \in TaskIds, EnqueuePublish(q, t) PROVE FinishInv'
    BY <1>0, <1>2, <2>2 DEF EnqueuePublish
  <2>3. ASSUME EnqueuePublishFails(q) PROVE FinishInv'
    BY <2>3, FinishSave DEF EnqueuePublishFails
  <2>4. ASSUME EnqueueRecord(q) PROVE FinishInv'
    <3>1. req[q].task \in TaskIds \cup {None}
      BY <1>q DEF Request
    <3>2. QED
      BY <2>4, <3>1, FinishSave DEF EnqueueRecord
  <2>5. QED
    BY <1>0, <1>3, <2>1, <2>2, <2>3, <2>4 DEF EnqueueStep, EnqueueCheck, RequestCrash
<1>4. ASSUME NEW t \in TaskIds, TaskStep(t) PROVE FinishInv'
  <2>1. ASSUME TaskLoad(t) PROVE FinishInv'
    <3>1. NoNewWorker
      BY <1>t, <1>1, <2>1 DEF TaskLoad, Task
    <3>2. QED
      BY <1>0, <2>1, <3>1 DEF TaskLoad
  <2>2. ASSUME TaskStart(t) PROVE FinishInv'
    <3>1. \A s \in Sessions :
             \/ row'[s] = row[s] /\ s # task[t].session
             \/ row'[s].status = "running" /\ row'[s].started /\ ~ row'[s].finished
      BY <1>r, <2>2 DEF TaskStart, Row
    <3>2. \A u \in TaskIds : /\ u # t => task'[u] = task[u]
                             /\ task'[u].session = task[u].session
      BY <1>t, <2>2 DEF TaskStart, Task
    <3>3. FinishTime'
      BY <3>1 DEF FinishInv, FinishTime, TerminalStatus
    <3>4. WorkerStarted'
      BY <3>1, <3>2 DEF FinishInv, WorkerStarted
    <3>5. AbsentIsEmpty'
      BY <3>1 DEF FinishInv, AbsentIsEmpty
    <3>6. QED
      BY <3>3, <3>4, <3>5 DEF FinishInv
  <2>3. ASSUME TaskComplete(t) \/ TaskFail(t) PROVE FinishInv'
    <3>1. NoNewWorker
      BY <1>1, <2>3 DEF TaskComplete, TaskFail
    <3>2. QED
      BY <2>3, <3>1, FinishSave DEF TaskComplete, TaskFail
  <2>4. ASSUME TaskRetriesExhausted(t) PROVE FinishInv'
    <3>1. NoNewWorker
      BY <1>1, <2>4 DEF TaskRetriesExhausted
    <3>2. \A s \in Sessions :
             /\ row'[s].started = row[s].started
             /\ \/ row'[s] = row[s]
                \/ row'[s].status = "failed" /\ row'[s].finished
      BY <1>r, <2>4 DEF TaskRetriesExhausted, Row
    <3>3. FinishTime' /\ AbsentIsEmpty'
      BY <3>2 DEF FinishInv, FinishTime, AbsentIsEmpty, TerminalStatus
    <3>4. WorkerStarted'
      BY <3>1, <3>2 DEF FinishInv, WorkerStarted
    <3>5. QED
      BY <3>3, <3>4 DEF FinishInv
  <2>5. ASSUME TaskRetrySave(t) PROVE FinishInv'
    <3>1. NoNewWorker
      BY <1>t, <2>5 DEF TaskRetrySave, Task
    <3>2. \A s \in Sessions :
             /\ row'[s].started = row[s].started
             /\ row'[s].finished = row[s].finished
             /\ row'[s].status = IF s = task[t].session THEN "queued" ELSE row[s].status
      BY <1>r, <2>5 DEF TaskRetrySave, Row
    <3>3. \A s \in Sessions : s = task[t].session => row[s].started
      BY <2>5 DEF TaskRetrySave, FinishInv, WorkerStarted
    <3>4. FinishTime' /\ AbsentIsEmpty'
      BY <3>2, <3>3 DEF FinishInv, FinishTime, AbsentIsEmpty, TerminalStatus
    <3>5. WorkerStarted'
      BY <3>1, <3>2 DEF FinishInv, WorkerStarted
    <3>6. QED
      BY <3>4, <3>5 DEF FinishInv
  <2>6. ASSUME TaskRetryPublish(t) PROVE FinishInv'
    <3>1. NoNewWorker
      BY <1>t, <2>6 DEF TaskRetryPublish, Task
    <3>2. QED
      BY <1>0, <2>6, <3>1 DEF TaskRetryPublish
  <2>7. QED
    BY <1>0, <1>1, <1>4, <2>1, <2>2, <2>3, <2>4, <2>5, <2>6
    DEF TaskStep, TaskEnds, TaskCrash, LoseMessage, TaskTerminated
<1>5. ASSUME NEW c \in Cancels, CancelSave(c) PROVE FinishInv'
  BY <1>5, FinishSave DEF CancelSave
<1>6. ASSUME NEW s \in Sessions, RequeueStep(s) PROVE FinishInv'
  BY <1>0, <1>2, <1>6 DEF RequeueStep, RequeueRead, RequeuePublish
<1>7. QED
  BY <1>0, <1>3, <1>4, <1>5, <1>6
  DEF Next, vars, CancelStep, CancelCheck, CancelRevoke, RequeueAborts

(* The time of the end is right under every fault and every cancel: set on  *)
(* all sessions that ended, and on no session that runs or waits for its    *)
(* first run, however the saves of workers, cancels and trigger calls meet. *)
THEOREM FinishTimeTheorem == Spec => []FinishTime
<1>1. Init => FinishInv
  BY DEF Init, NoRow, FreeTask, FinishInv, FinishTime, WorkerStarted, AbsentIsEmpty,
         TerminalStatus
<1>2. FinishInv => FinishTime
  BY DEF FinishInv
<1>3. QED
  BY <1>1, <1>2, FinishStep, TypeCorrect, PTL DEF Spec

=============================================================================
