----------------------- MODULE OutcomeLearningProofs -----------------------
(***************************************************************************)
(* What holds of OutcomeLearning for every set of plans, sessions and      *)
(* workers and under every fault.                                          *)
(***************************************************************************)
EXTENDS OutcomeLearning, TLAPS

-----------------------------------------------------------------------------
(* Types. *)

(* A worker that is not idle has an event, a session, and a commit once it *)
(* has cloned.                                                             *)
TypeInv ==
    /\ TypeOK
    /\ \A h \in Handlers : handler[h].pc # "idle" => handler[h].event \in Event
    /\ \A r \in Refreshers :
         /\ refresh[r].pc # "idle" => refresh[r].session \in Sessions
         /\ refresh[r].pc \in {"store", "save", "promote"} => refresh[r].commit \in Commits

LEMMA RestTypes == Idle \in Handling /\ Resting \in Refresh
BY DEF Idle, Handling, Resting, Refresh

LEMMA TypeInit == Init => TypeInv
BY ConstantAssumption, RestTypes
   DEF Init, TypeInv, TypeOK, Idle, Resting, Plan, Event, Commits, RefreshOutcomes

(* The handler and the refresh of one worker may be replaced by good ones. *)
LEMMA HandlerType ==
    ASSUME TypeInv, NEW h \in Handlers, NEW c \in Handling,
           c.pc # "idle" => c.event \in Event, handler' = [handler EXCEPT ![h] = c]
    PROVE  /\ handler' \in [Handlers -> Handling]
           /\ \A g \in Handlers : handler'[g].pc # "idle" => handler'[g].event \in Event
BY DEF TypeInv, TypeOK

LEMMA RefreshType ==
    ASSUME TypeInv, NEW r \in Refreshers, NEW c \in Refresh,
           c.pc # "idle" => c.session \in Sessions,
           c.pc \in {"store", "save", "promote"} => c.commit \in Commits,
           refresh' = [refresh EXCEPT ![r] = c]
    PROVE  /\ refresh' \in [Refreshers -> Refresh]
           /\ \A q \in Refreshers :
                /\ refresh'[q].pc # "idle" => refresh'[q].session \in Sessions
                /\ refresh'[q].pc \in {"store", "save", "promote"} =>
                     refresh'[q].commit \in Commits
BY DEF TypeInv, TypeOK

(* An outcome makes a good row of a good row. *)
LEMMA OutcomeType ==
    ASSUME TypeInv, NEW row \in Plan, NEW e \in Event, NEW history \in Seq(Outcomes)
    PROVE  Outcome(row, e, history) \in Plan
<1>1. /\ e.outcome \in Outcomes /\ Len(log) + 1 \in Nat
      /\ Append(history, e.outcome) \in Seq(Outcomes)
  BY DEF Event, TypeInv, TypeOK
<1>2. /\ row.sha \in BOOLEAN /\ row.terminal \in RefreshOutcomes \cup {None}
      /\ row.at \in Nat /\ row.authored \in BOOLEAN
  BY DEF Plan
<1>3. QED
  BY <1>1, <1>2 DEF Outcome, Plan

(* GitHub and the executor. *)
LEMMA PeopleTypes ==
    ASSUME TypeInv, People
    PROVE  TypeInv'
<1>t. /\ pr \in [Plans -> {"open", "merged", "closed", "reverted"}]
      /\ head \in Commits /\ MaxHead \in Nat /\ Commits = 0 .. MaxHead
      /\ landed \in [Plans -> Commits] /\ undone \in [Plans -> Commits]
      /\ sent \in SUBSET Event /\ pending \in SUBSET Event
      /\ plan \in [Plans -> Plan] /\ missed \in SUBSET Sessions
      /\ faults \in 0 .. MaxFaults /\ MaxFaults \in Nat
      /\ SessionOf \in [Plans -> Sessions]
  BY ConstantAssumption DEF TypeInv, TypeOK, Commits
<1>s. ASSUME NEW p \in Plans, NEW o \in Outcomes, Sends(p, o)
      PROVE  /\ sent' \in SUBSET Event /\ pending' \in SUBSET Event
             /\ faults' \in 0 .. MaxFaults
             /\ UNCHANGED <<plan, log, handler, messages, refresh, analyses, missed>>
  BY <1>t, <1>s DEF Sends, Event, Fault
<1>r. ASSUME NEW p \in Plans, RecordSuccess(p) PROVE TypeInv'
  <2>1. plan' \in [Plans -> Plan]
    BY <1>t, <1>r DEF RecordSuccess, Plan
  <2>2. missed' \in SUBSET Sessions
    BY <1>t, <1>r DEF RecordSuccess
  <2>3. QED
    BY <1>r, <2>1, <2>2 DEF RecordSuccess, TypeInv, TypeOK, github, analyses
<1>1. ASSUME NEW p \in Plans, NEW o \in Remarks, Remark(p, o) PROVE TypeInv'
  <2>1. Sends(p, o) /\ o \in Outcomes
    BY <1>1 DEF Remark, Outcomes
  <2>2. QED
    BY <1>1, <2>1, <1>s DEF Remark, TypeInv, TypeOK, analyses
<1>2. ASSUME NEW p \in Plans, Merge(p) PROVE TypeInv'
  <2>1. Sends(p, "merged") /\ "merged" \in Outcomes
    BY <1>2 DEF Merge, Outcomes, RefreshOutcomes
  <2>2. head' \in Commits /\ landed' \in [Plans -> Commits]
    BY <1>t, <1>2 DEF Merge
  <2>3. pr' \in [Plans -> {"open", "merged", "closed", "reverted"}]
    BY <1>t, <1>2 DEF Merge
  <2>4. QED
    BY <1>2, <2>1, <2>2, <2>3, <1>s DEF Merge, TypeInv, TypeOK, analyses
<1>3. ASSUME NEW p \in Plans, Close(p) PROVE TypeInv'
  <2>1. Sends(p, "closed") /\ "closed" \in Outcomes
    BY <1>3 DEF Close, Outcomes, RefreshOutcomes
  <2>2. pr' \in [Plans -> {"open", "merged", "closed", "reverted"}]
    BY <1>t, <1>3 DEF Close
  <2>3. QED
    BY <1>3, <2>1, <2>2, <1>s DEF Close, TypeInv, TypeOK, analyses
<1>4. ASSUME NEW p \in Plans, Revert(p) PROVE TypeInv'
  <2>1. Sends(p, "reverted") /\ "reverted" \in Outcomes
    BY <1>4 DEF Revert, Outcomes, RefreshOutcomes
  <2>2. head' \in Commits /\ undone' \in [Plans -> Commits]
    BY <1>t, <1>4 DEF Revert
  <2>3. pr' \in [Plans -> {"open", "merged", "closed", "reverted"}]
    BY <1>t, <1>4 DEF Revert
  <2>4. QED
    BY <1>4, <2>1, <2>2, <2>3, <1>s DEF Revert, TypeInv, TypeOK, analyses
<1>5. ASSUME NEW p \in Plans, Reopen(p) PROVE TypeInv'
  <2>1. pr' \in [Plans -> {"open", "merged", "closed", "reverted"}]
    BY <1>t, <1>5 DEF Reopen
  <2>2. faults' \in 0 .. MaxFaults
    BY <1>t, <1>5 DEF Reopen, Fault
  <2>3. QED
    BY <1>5, <2>1, <2>2 DEF Reopen, TypeInv, TypeOK, analyses
<1>6. ASSUME NEW e \in Event, Redeliver(e) PROVE TypeInv'
  <2>1. pending' \in SUBSET Event
    BY <1>t, <1>6 DEF Redeliver
  <2>2. faults' \in 0 .. MaxFaults
    BY <1>t, <1>6 DEF Redeliver, Fault
  <2>3. QED
    BY <1>6, <2>1, <2>2 DEF Redeliver, TypeInv, TypeOK, github, analyses
<1>7. QED
  BY <1>r, <1>1, <1>2, <1>3, <1>4, <1>5, <1>6 DEF People

(* A transaction appends to the log and to the copied history. *)
LEMMA RecordShape ==
    ASSUME TypeInv, NEW h \in Handlers, Record(h)
    PROVE  LET e == handler[h].event IN
           /\ e \in Event
           /\ log' = Append(log, e)
           /\ plan' = [plan EXCEPT ![e.plan] = Outcome(plan[e.plan], e, handler[h].history)]
           /\ Outcome(plan[e.plan], e, handler[h].history) \in Plan
<1>1. handler[h] \in Handling /\ handler[h].event \in Event
  BY DEF TypeInv, TypeOK, Record
<1>2. handler[h].history \in Seq(Outcomes)
  BY <1>1 DEF Handling
<1>3. plan[handler[h].event.plan] \in Plan
  BY <1>1 DEF TypeInv, TypeOK, Event
<1>4. QED
  BY <1>1, <1>2, <1>3, OutcomeType DEF Record

LEMMA HandlerTypes ==
    ASSUME TypeInv, NEW h \in Handlers, HandlerStep(h)
    PROVE  TypeInv'
<1>t. /\ handler[h] \in Handling /\ pending \in SUBSET Event
      /\ plan \in [Plans -> Plan] /\ log \in Seq(Event)
      /\ messages \in [Sessions -> Nat] /\ missed \in SUBSET Sessions
      /\ SessionOf \in [Plans -> Sessions]
  BY ConstantAssumption DEF TypeInv, TypeOK
<1>i. Idle \in Handling /\ Idle.pc = "idle"
  BY RestTypes DEF Idle
<1>1. ASSUME NEW e \in Event, ReadPlan(h, e) PROVE TypeInv'
  <2> DEFINE c == [pc |-> "record", event |-> e, history |-> plan[e.plan].history]
  <2>1. plan[e.plan] \in Plan
    BY <1>t DEF Event
  <2>2. c \in Handling /\ c.event \in Event
    BY <2>1 DEF Handling, Plan
  <2>3. handler' = [handler EXCEPT ![h] = c]
    BY <1>1 DEF ReadPlan
  <2>4. /\ handler' \in [Handlers -> Handling]
        /\ \A g \in Handlers : handler'[g].pc # "idle" => handler'[g].event \in Event
    BY <2>2, <2>3, HandlerType
  <2>5. pending' \in SUBSET Event
    BY <1>t, <1>1 DEF ReadPlan
  <2>6. QED
    BY <1>1, <2>4, <2>5 DEF ReadPlan, TypeInv, TypeOK, github, analyses
<1>2. ASSUME NEW e \in Event, IgnoreRevert(h, e) PROVE TypeInv'
  <2>1. pending' \in SUBSET Event
    BY <1>t, <1>2 DEF IgnoreRevert
  <2>2. QED
    BY <1>2, <2>1 DEF IgnoreRevert, TypeInv, TypeOK, github, analyses
<1>3. ASSUME Record(h) PROVE TypeInv'
  <2> DEFINE e == handler[h].event
             c == IF e.outcome \in RefreshOutcomes
                  THEN [handler[h] EXCEPT !.pc = "refresh"] ELSE Idle
  <2>1. /\ e \in Event /\ log' = Append(log, e)
        /\ plan' = [plan EXCEPT ![e.plan] = Outcome(plan[e.plan], e, handler[h].history)]
        /\ Outcome(plan[e.plan], e, handler[h].history) \in Plan
    BY <1>3, RecordShape
  <2>2. log' \in Seq(Event)
    BY <1>t, <2>1
  <2>3. plan' \in [Plans -> Plan]
    BY <1>t, <2>1
  <2>4. c \in Handling /\ c.pc # "idle" => c.event \in Event
    BY <1>t, <1>i, <2>1 DEF Handling
  <2>5. c \in Handling
    BY <1>t, <1>i DEF Handling
  <2>6. handler' = [handler EXCEPT ![h] = c]
    BY <1>3 DEF Record
  <2>7. /\ handler' \in [Handlers -> Handling]
        /\ \A g \in Handlers : handler'[g].pc # "idle" => handler'[g].event \in Event
    BY <2>4, <2>5, <2>6, HandlerType
  <2>8. missed' \in SUBSET Sessions
    BY <1>t, <1>3, <2>1 DEF Record, Event
  <2>9. QED
    BY <1>3, <2>2, <2>3, <2>7, <2>8 DEF Record, TypeInv, TypeOK, github, analyses
<1>h. ASSUME handler' = [handler EXCEPT ![h] = Idle]
      PROVE  /\ handler' \in [Handlers -> Handling]
             /\ \A g \in Handlers : handler'[g].pc # "idle" => handler'[g].event \in Event
  BY <1>h, <1>i, HandlerType
<1>4. ASSUME RecordedBefore(h) PROVE TypeInv'
  BY <1>4, <1>h DEF RecordedBefore, TypeInv, TypeOK, github, analyses
<1>5. ASSUME EnqueueRefresh(h) PROVE TypeInv'
  <2> DEFINE s == SessionOf[handler[h].event.plan]
  <2>0. handler[h].event \in Event
    BY <1>5 DEF EnqueueRefresh, TypeInv
  <2>1. s \in Sessions /\ messages[s] + 1 \in Nat
    BY <1>t, <2>0 DEF Event
  <2>2. messages' = [messages EXCEPT ![s] = messages[s] + 1]
    BY <1>5 DEF EnqueueRefresh
  <2>3. messages' \in [Sessions -> Nat]
    BY <1>t, <2>1, <2>2
  <2>4. QED
    BY <1>5, <1>h, <2>3 DEF EnqueueRefresh, TypeInv, TypeOK, github, analyses
<1>6. QED
  BY <1>1, <1>2, <1>3, <1>4, <1>5 DEF HandlerStep

LEMMA RefreshTypes ==
    ASSUME TypeInv, NEW r \in Refreshers, RefreshStep(r)
    PROVE  TypeInv'
<1>t. /\ refresh[r] \in Refresh /\ messages \in [Sessions -> Nat]
      /\ head \in Commits /\ log \in Seq(Event)
      /\ created \in [Commits -> Nat \cup {None}]
      /\ latest \in [Sessions -> Commits \cup {None}]
      /\ refresh[r].pc # "idle" => refresh[r].session \in Sessions
      /\ refresh[r].pc \in {"store", "save", "promote"} => refresh[r].commit \in Commits
  BY DEF TypeInv, TypeOK
<1>1. ASSUME NEW s \in Sessions, RefreshSkips(r, s) PROVE TypeInv'
  <2>1. messages' \in [Sessions -> Nat]
    BY <1>t, <1>1 DEF RefreshSkips
  <2>2. QED
    BY <1>1, <2>1 DEF RefreshSkips, TypeInv, TypeOK, github, analyses
<1>2. ASSUME NEW s \in Sessions, RefreshStarts(r, s) PROVE TypeInv'
  <2> DEFINE c == [pc |-> "clone", session |-> s, commit |-> None]
  <2>1. messages' \in [Sessions -> Nat]
    BY <1>t, <1>2 DEF RefreshStarts
  <2>2. c \in Refresh /\ c.session \in Sessions /\ c.pc \notin {"store", "save", "promote"}
    BY DEF Refresh
  <2>3. refresh' = [refresh EXCEPT ![r] = c]
    BY <1>2 DEF RefreshStarts
  <2>4. /\ refresh' \in [Refreshers -> Refresh]
        /\ \A q \in Refreshers :
             /\ refresh'[q].pc # "idle" => refresh'[q].session \in Sessions
             /\ refresh'[q].pc \in {"store", "save", "promote"} =>
                  refresh'[q].commit \in Commits
    BY <2>2, <2>3, RefreshType
  <2>5. QED
    BY <1>2, <2>1, <2>4 DEF RefreshStarts, TypeInv, TypeOK, github, analyses
<1>p. ASSUME NEW new \in {"save", "promote"}, NEW old \in {"store", "save"},
             refresh[r].pc = old, refresh' = [refresh EXCEPT ![r].pc = new]
      PROVE  /\ refresh' \in [Refreshers -> Refresh]
             /\ \A q \in Refreshers :
                  /\ refresh'[q].pc # "idle" => refresh'[q].session \in Sessions
                  /\ refresh'[q].pc \in {"store", "save", "promote"} =>
                       refresh'[q].commit \in Commits
  <2> DEFINE c == [refresh[r] EXCEPT !.pc = new]
  <2>1. c \in Refresh /\ c.session = refresh[r].session /\ c.commit = refresh[r].commit
    BY <1>t DEF Refresh
  <2>2. refresh' = [refresh EXCEPT ![r] = c]
    BY <1>p
  <2>3. QED
    BY <1>p, <1>t, <2>1, <2>2, RefreshType
<1>3. ASSUME RefreshClones(r) PROVE TypeInv'
  <2> DEFINE c == [pc |-> "store", session |-> refresh[r].session, commit |-> head]
  <2>1. c \in Refresh /\ c.session \in Sessions /\ c.commit \in Commits
    BY <1>t, <1>3 DEF Refresh, RefreshClones
  <2>2. refresh' = [refresh EXCEPT ![r] = c]
    BY <1>t, <1>3 DEF RefreshClones, Refresh
  <2>3. /\ refresh' \in [Refreshers -> Refresh]
        /\ \A q \in Refreshers :
             /\ refresh'[q].pc # "idle" => refresh'[q].session \in Sessions
             /\ refresh'[q].pc \in {"store", "save", "promote"} =>
                  refresh'[q].commit \in Commits
    BY <2>1, <2>2, RefreshType
  <2>4. QED
    BY <1>3, <2>3 DEF RefreshClones, TypeInv, TypeOK, github, analyses
<1>4. ASSUME RefreshStores(r) PROVE TypeInv'
  <2>1. created' \in [Commits -> Nat \cup {None}]
    BY <1>t, <1>4 DEF RefreshStores
  <2>2. refresh[r].pc = "store" /\ refresh' = [refresh EXCEPT ![r].pc = "save"]
    BY <1>4 DEF RefreshStores
  <2>3. QED
    BY <1>4, <2>1, <2>2, <1>p DEF RefreshStores, TypeInv, TypeOK, github
<1>5. ASSUME RefreshSaves(r) PROVE TypeInv'
  <2>1. latest' \in [Sessions -> Commits \cup {None}]
    BY <1>t, <1>5 DEF RefreshSaves
  <2>2. refresh[r].pc = "save" /\ refresh' = [refresh EXCEPT ![r].pc = "promote"]
    BY <1>5 DEF RefreshSaves
  <2>3. QED
    BY <1>5, <2>1, <2>2, <1>p DEF RefreshSaves, TypeInv, TypeOK, github
<1>6. ASSUME RefreshPromotes(r) PROVE TypeInv'
  <2>1. baseline' \in Commits
    BY <1>t, <1>6 DEF RefreshPromotes
  <2>2. /\ refresh' \in [Refreshers -> Refresh]
        /\ \A q \in Refreshers :
             /\ refresh'[q].pc # "idle" => refresh'[q].session \in Sessions
             /\ refresh'[q].pc \in {"store", "save", "promote"} =>
                  refresh'[q].commit \in Commits
    <3>1. refresh' = [refresh EXCEPT ![r] = Resting] /\ Resting.pc = "idle"
      BY <1>6 DEF RefreshPromotes, Resting
    <3>2. QED
      BY <3>1, RestTypes, RefreshType
  <2>3. QED
    BY <1>6, <2>1, <2>2 DEF RefreshPromotes, TypeInv, TypeOK, github
<1>7. QED
  BY <1>1, <1>2, <1>3, <1>4, <1>5, <1>6 DEF RefreshStep

(* What fails. *)
LEMMA FaultTypes ==
    ASSUME TypeInv,
           \/ \E h \in Handlers : EnqueueRaises(h) \/ HandlerCrash(h)
           \/ \E r \in Refreshers : RefreshStops(r)
           \/ \E s \in Sessions : LoseMessage(s)
    PROVE  TypeInv'
<1>t. /\ messages \in [Sessions -> Nat] /\ missed \in SUBSET Sessions
      /\ faults \in 0 .. MaxFaults /\ MaxFaults \in Nat
      /\ SessionOf \in [Plans -> Sessions]
  BY ConstantAssumption DEF TypeInv, TypeOK
<1>f. ASSUME NEW f, Fault(f) PROVE faults' \in 0 .. MaxFaults
  BY <1>t, <1>f DEF Fault
<1>h. ASSUME NEW h \in Handlers, handler' = [handler EXCEPT ![h] = Idle]
      PROVE  /\ handler' \in [Handlers -> Handling]
             /\ \A g \in Handlers : handler'[g].pc # "idle" => handler'[g].event \in Event
  <2>1. Idle.pc = "idle"
    BY DEF Idle
  <2>2. QED
    BY <1>h, <2>1, RestTypes, HandlerType
<1>e. ASSUME NEW h \in Handlers, handler[h].pc # "idle"
      PROVE  SessionOf[handler[h].event.plan] \in Sessions
  <2>1. handler[h].event \in Event
    BY <1>e DEF TypeInv
  <2>2. QED
    BY <1>t, <2>1 DEF Event
<1>1. ASSUME NEW h \in Handlers, EnqueueRaises(h) PROVE TypeInv'
  <2>1. missed' \in SUBSET Sessions
    BY <1>1, <1>t, <1>e DEF EnqueueRaises
  <2>2. faults' \in 0 .. MaxFaults
    BY <1>1, <1>f DEF EnqueueRaises
  <2>3. QED
    BY <1>1, <2>1, <2>2, <1>h DEF EnqueueRaises, TypeInv, TypeOK, github, analyses
<1>2. ASSUME NEW h \in Handlers, HandlerCrash(h) PROVE TypeInv'
  <2>1. missed' \in SUBSET Sessions
    BY <1>2, <1>t, <1>e DEF HandlerCrash
  <2>2. faults' \in 0 .. MaxFaults
    BY <1>2, <1>f DEF HandlerCrash
  <2>3. QED
    BY <1>2, <2>1, <2>2, <1>h DEF HandlerCrash, TypeInv, TypeOK, github, analyses
<1>3. ASSUME NEW r \in Refreshers, RefreshStops(r) PROVE TypeInv'
  <2>1. missed' \in SUBSET Sessions
    BY <1>3, <1>t DEF RefreshStops, TypeInv
  <2>2. faults' \in 0 .. MaxFaults
    BY <1>3, <1>f DEF RefreshStops
  <2>3. refresh' = [refresh EXCEPT ![r] = Resting] /\ Resting.pc = "idle"
    BY <1>3 DEF RefreshStops, Resting
  <2>4. /\ refresh' \in [Refreshers -> Refresh]
        /\ \A q \in Refreshers :
             /\ refresh'[q].pc # "idle" => refresh'[q].session \in Sessions
             /\ refresh'[q].pc \in {"store", "save", "promote"} =>
                  refresh'[q].commit \in Commits
    BY <2>3, RestTypes, RefreshType
  <2>5. QED
    BY <1>3, <2>1, <2>2, <2>4 DEF RefreshStops, TypeInv, TypeOK, github, analyses
<1>4. ASSUME NEW s \in Sessions, LoseMessage(s) PROVE TypeInv'
  <2>1. messages' \in [Sessions -> Nat] /\ missed' \in SUBSET Sessions
    BY <1>4, <1>t DEF LoseMessage
  <2>2. faults' \in 0 .. MaxFaults
    BY <1>4, <1>f DEF LoseMessage
  <2>3. QED
    BY <1>4, <2>1, <2>2 DEF LoseMessage, TypeInv, TypeOK, github, analyses
<1>5. QED
  BY <1>1, <1>2, <1>3, <1>4

LEMMA TypeNext == TypeInv /\ [Next]_vars => TypeInv'
<1> SUFFICES ASSUME TypeInv, [Next]_vars PROVE TypeInv'
  OBVIOUS
<1>1. CASE Next
  BY <1>1, PeopleTypes, HandlerTypes, RefreshTypes, FaultTypes DEF Next
<1>2. CASE UNCHANGED vars
  BY <1>2 DEF vars, TypeInv, TypeOK, github, analyses
<1>3. QED
  BY <1>1, <1>2

LEMMA TypeSpec == Spec => []TypeInv
<1>1. Init => TypeInv
  BY TypeInit
<1>2. TypeInv /\ [Next]_vars => TypeInv'
  BY TypeNext
<1>3. QED
  BY <1>1, <1>2, PTL DEF Spec

(* Rows, log, workers and analyses keep their types under every fault.     *)
THEOREM TypeCorrect == Spec => []TypeOK
<1>1. TypeInv => TypeOK
  BY DEF TypeInv
<1>2. QED
  BY <1>1, TypeSpec, PTL

-----------------------------------------------------------------------------
(* The log. *)

(* Only a transaction touches the log; only it and the executor, which     *)
(* sets a flag, touch the rows.                                            *)
LEMMA OnlyRecordLogs ==
    ASSUME TypeInv, [Next]_vars, \A h \in Handlers : ~Record(h)
    PROVE  /\ log' = log
           /\ \A p \in Plans : /\ plan'[p].terminal = plan[p].terminal
                               /\ plan'[p].at = plan[p].at
<1>1. ASSUME NEW p \in Plans, RecordSuccess(p)
      PROVE  /\ log' = log
             /\ \A q \in Plans : /\ plan'[q].terminal = plan[q].terminal
                                 /\ plan'[q].at = plan[q].at
  <2>1. plan \in [Plans -> Plan]
    BY DEF TypeInv, TypeOK
  <2>2. QED
    BY <1>1, <2>1 DEF RecordSuccess, Plan
<1>2. CASE People
  <2>1. (\E p \in Plans : RecordSuccess(p)) \/ UNCHANGED <<log, plan>>
    BY <1>2 DEF People, Remark, Merge, Close, Revert, Reopen, Redeliver, Sends
  <2>2. QED
    BY <1>1, <2>1
<1>3. ASSUME NEW h \in Handlers, HandlerStep(h) \/ EnqueueRaises(h) \/ HandlerCrash(h)
      PROVE  UNCHANGED <<log, plan>>
  BY <1>3 DEF HandlerStep, ReadPlan, IgnoreRevert, RecordedBefore, EnqueueRefresh,
              EnqueueRaises, HandlerCrash
<1>4. ASSUME NEW r \in Refreshers, RefreshStep(r) \/ RefreshStops(r)
      PROVE  UNCHANGED <<log, plan>>
  BY <1>4 DEF RefreshStep, RefreshSkips, RefreshStarts, RefreshClones, RefreshStores,
              RefreshSaves, RefreshPromotes, RefreshStops
<1>5. ASSUME NEW s \in Sessions, LoseMessage(s) PROVE UNCHANGED <<log, plan>>
  BY <1>5 DEF LoseMessage
<1>6. CASE UNCHANGED vars
  BY <1>6 DEF vars
<1>7. QED
  BY <1>2, <1>3, <1>4, <1>5, <1>6 DEF Next

LEMMA LoggedOnceNext ==
    ASSUME TypeInv, LoggedOnce, [Next]_vars
    PROVE  LoggedOnce'
<1>1. CASE \A h \in Handlers : ~Record(h)
  BY <1>1, OnlyRecordLogs DEF LoggedOnce
<1>2. ASSUME NEW h \in Handlers, Record(h) PROVE LoggedOnce'
  <2> DEFINE e == handler[h].event
  <2>1. e \in Event /\ log' = Append(log, e) /\ log \in Seq(Event)
    BY <1>2, RecordShape DEF TypeInv, TypeOK
  <2>2. \A i \in DOMAIN log : log[i] # e
    BY <1>2 DEF Record, AlreadyRecorded
  <2>3. /\ DOMAIN log = 1 .. Len(log) /\ DOMAIN log' = 1 .. Len(log) + 1
        /\ Len(log) \in Nat /\ log'[Len(log) + 1] = e
        /\ \A i \in DOMAIN log : log'[i] = log[i]
    BY <2>1
  <2>4. ASSUME NEW i \in DOMAIN log', NEW j \in DOMAIN log', log'[i] = log'[j]
        PROVE  i = j
    <3>1. (i \in DOMAIN log \/ i = Len(log) + 1) /\ (j \in DOMAIN log \/ j = Len(log) + 1)
      BY <2>3
    <3>2. QED
      BY <2>2, <2>3, <2>4, <3>1 DEF LoggedOnce
  <2>5. QED
    BY <2>4 DEF LoggedOnce
<1>3. QED
  BY <1>1, <1>2

(* Redelivered, reordered or handled by two workers at once: the profile   *)
(* learns an outcome of a plan once, because it is looked for under the    *)
(* lock of the row it is written to.                                       *)
THEOREM LoggedOnceTheorem == Spec => []LoggedOnce
<1>1. Init => LoggedOnce
  BY DEF Init, LoggedOnce
<1>2. TypeInv /\ LoggedOnce /\ [Next]_vars => LoggedOnce'
  BY LoggedOnceNext
<1>3. QED
  BY <1>1, <1>2, TypeSpec, PTL DEF Spec

-----------------------------------------------------------------------------
(* The plans and the log. *)

(* A row, the positions of its terminal entries and the log agree. *)
Agrees(p) ==
    /\ plan[p].terminal = None <=> Terminals(p) = {}
    /\ Terminals(p) # {} =>
         /\ plan[p].at \in Terminals(p)
         /\ \A i \in Terminals(p) : i <= plan[p].at
         /\ log[plan[p].at].outcome = plan[p].terminal

LEMMA AgreesNext ==
    ASSUME TypeInv, PlanAgreesWithLog, [Next]_vars
    PROVE  PlanAgreesWithLog'
<1>a. PlanAgreesWithLog <=> \A p \in Plans : Agrees(p)
  BY DEF PlanAgreesWithLog, Agrees
<1>1. CASE \A h \in Handlers : ~Record(h)
  <2>1. /\ log' = log
        /\ \A p \in Plans : plan'[p].terminal = plan[p].terminal /\ plan'[p].at = plan[p].at
    BY <1>1, OnlyRecordLogs
  <2>2. QED
    BY <2>1 DEF PlanAgreesWithLog, Terminals
<1>2. ASSUME NEW h \in Handlers, Record(h) PROVE PlanAgreesWithLog'
  <2> DEFINE e == handler[h].event
             n == Len(log) + 1
             row == Outcome(plan[e.plan], e, handler[h].history)
  <2>1. /\ e \in Event /\ log' = Append(log, e) /\ log \in Seq(Event)
        /\ plan' = [plan EXCEPT ![e.plan] = row] /\ plan \in [Plans -> Plan]
    BY <1>2, RecordShape DEF TypeInv, TypeOK
  <2>2. /\ DOMAIN log = 1 .. Len(log) /\ DOMAIN log' = 1 .. n
        /\ Len(log) \in Nat /\ log'[n] = e
        /\ \A i \in DOMAIN log : log'[i] = log[i] /\ i < n
        /\ n \notin DOMAIN log /\ n \in DOMAIN log'
    BY <2>1
  <2>3. /\ row.terminal = IF e.outcome \in RefreshOutcomes THEN e.outcome
                          ELSE plan[e.plan].terminal
        /\ row.at = IF e.outcome \in RefreshOutcomes THEN n ELSE plan[e.plan].at
    <3>1. plan[e.plan] \in Plan
      BY <2>1 DEF Event
    <3>2. QED
      BY <3>1 DEF Outcome, Plan
  <2>4. ASSUME NEW p \in Plans
        PROVE  Terminals(p)' = IF p = e.plan /\ e.outcome \in RefreshOutcomes
                               THEN Terminals(p) \cup {n} ELSE Terminals(p)
    <3>1. ASSUME NEW i
          PROVE  i \in Terminals(p)' <=>
                   i \in Terminals(p) \/ (i = n /\ e.plan = p /\ e.outcome \in RefreshOutcomes)
      <4>1. i \in DOMAIN log' <=> i \in DOMAIN log \/ i = n
        BY <2>2
      <4>2. QED
        BY <2>2, <4>1 DEF Terminals
    <3>2. QED
      BY <3>1
  <2>5. ASSUME NEW p \in Plans PROVE Agrees(p)'
    <3>1. Agrees(p) /\ Terminals(p) \subseteq DOMAIN log
      BY <1>a DEF Terminals
    <3>2. CASE p = e.plan /\ e.outcome \in RefreshOutcomes
      <4>1. Terminals(p)' = Terminals(p) \cup {n}
        BY <2>4, <3>2
      <4>2. plan'[p].terminal = e.outcome /\ plan'[p].at = n /\ e.outcome # None
        BY <2>1, <2>3, <3>2, ConstantAssumption DEF Outcomes
      <4>3. \A i \in Terminals(p)' : i <= n
        BY <2>2, <3>1, <4>1
      <4>4. QED
        BY <2>2, <4>1, <4>2, <4>3 DEF Agrees
    <3>3. CASE ~(p = e.plan /\ e.outcome \in RefreshOutcomes)
      <4>1. Terminals(p)' = Terminals(p)
        BY <2>4, <3>3
      <4>2. plan'[p].terminal = plan[p].terminal /\ plan'[p].at = plan[p].at
        BY <2>1, <2>3, <3>3
      <4>3. \A i \in Terminals(p) : log'[i] = log[i]
        BY <2>2, <3>1
      <4>4. QED
        BY <3>1, <4>1, <4>2, <4>3 DEF Agrees
    <3>4. QED
      BY <3>2, <3>3
  <2>6. QED
    BY <2>5 DEF PlanAgreesWithLog, Agrees
<1>3. QED
  BY <1>1, <1>2

(* The terminal outcome of every plan is the last one the profile learned: *)
(* row and profile are written together, whatever copy the worker holds.   *)
THEOREM PlanAgreesTheorem == Spec => []PlanAgreesWithLog
<1>1. Init => PlanAgreesWithLog
  <2> SUFFICES ASSUME Init PROVE PlanAgreesWithLog
    OBVIOUS
  <2>1. DOMAIN log = {}
    BY DEF Init
  <2>2. \A p \in Plans : plan[p].terminal = None
    BY DEF Init
  <2>3. \A p \in Plans : Terminals(p) = {}
    BY <2>1 DEF Terminals
  <2>4. QED
    BY <2>2, <2>3 DEF PlanAgreesWithLog
<1>2. TypeInv /\ PlanAgreesWithLog /\ [Next]_vars => PlanAgreesWithLog'
  BY AgreesNext
<1>3. QED
  BY <1>1, <1>2, TypeSpec, PTL DEF Spec

-----------------------------------------------------------------------------
(* What GitHub sent, and what it says of the default branch. *)

(* Nothing is recorded that GitHub did not send; a merge and a revert are  *)
(* sent when they have happened, and are not undone but by a revert.       *)
SentInv ==
    /\ pending \subseteq sent
    /\ \A h \in Handlers : handler[h].pc # "idle" => handler[h].event \in sent
    /\ \A p \in Plans : plan[p].terminal # None =>
          [plan |-> p, outcome |-> plan[p].terminal] \in sent
    /\ \A p \in Plans :
          /\ [plan |-> p, outcome |-> "merged"] \in sent => pr[p] \in {"merged", "reverted"}
          /\ [plan |-> p, outcome |-> "reverted"] \in sent => pr[p] = "reverted"
          /\ landed[p] <= head /\ undone[p] <= head

LEMMA SentInit == Init => SentInv
<1> SUFFICES ASSUME Init PROVE SentInv
  OBVIOUS
<1>1. \A p \in Plans : landed[p] = 0 /\ undone[p] = 0 /\ plan[p].terminal = None
  BY DEF Init
<1>2. \A h \in Handlers : handler[h].pc = "idle"
  BY DEF Init, Idle
<1>3. sent = {} /\ pending = {} /\ head = 0
  BY DEF Init
<1>4. QED
  BY <1>1, <1>2, <1>3 DEF SentInv

(* Workers take events from what was sent. *)
LEMMA SentKept ==
    ASSUME SentInv, UNCHANGED github, pending' \subseteq pending,
           \A h \in Handlers : handler'[h].pc # "idle" =>
               \/ handler'[h].event \in pending
               \/ handler'[h] = handler[h]
               \/ handler[h].pc # "idle" /\ handler'[h].event = handler[h].event,
           \A p \in Plans :
               \/ plan'[p].terminal = plan[p].terminal
               \/ [plan |-> p, outcome |-> plan'[p].terminal] \in sent
    PROVE  SentInv'
BY DEF SentInv, github

(* An event e of a plan is an event with that plan and that outcome. *)
LEMMA EventIs ==
    ASSUME NEW e \in Event
    PROVE  e = [plan |-> e.plan, outcome |-> e.outcome]
BY DEF Event

(* Calls of record_pr_outcome. *)
LEMMA SentHandler ==
    ASSUME TypeInv, SentInv, NEW h \in Handlers,
           HandlerStep(h) \/ EnqueueRaises(h) \/ HandlerCrash(h)
    PROVE  SentInv'
<1>t. handler \in [Handlers -> Handling] /\ plan \in [Plans -> Plan]
  BY DEF TypeInv, TypeOK
<1>1. ASSUME NEW e \in Event, ReadPlan(h, e) PROVE SentInv'
  <2>1. /\ handler'[h].event = e /\ e \in pending
        /\ \A g \in Handlers : g # h => handler'[g] = handler[g]
    BY <1>t, <1>1 DEF ReadPlan
  <2>2. UNCHANGED <<github, plan>> /\ pending' \subseteq pending
    BY <1>1 DEF ReadPlan
  <2>3. \A g \in Handlers : handler'[g].event \in pending \/ handler'[g] = handler[g]
    BY <2>1
  <2>4. QED
    BY <2>2, <2>3 DEF SentInv, github
<1>2. ASSUME NEW e \in Event, IgnoreRevert(h, e) PROVE SentInv'
  <2>1. UNCHANGED <<github, plan, handler>> /\ pending' \subseteq pending
    BY <1>2 DEF IgnoreRevert
  <2>2. QED
    BY <2>1, SentKept
<1>3. CASE Record(h)
  <2> DEFINE e == handler[h].event
  <2>1. /\ e \in Event /\ plan[e.plan] \in Plan /\ e \in sent
        /\ plan' = [plan EXCEPT ![e.plan] = Outcome(plan[e.plan], e, handler[h].history)]
    BY <1>3, <1>t, RecordShape DEF Event, Record, SentInv
  <2>2. \A p \in Plans :
            \/ plan'[p].terminal = plan[p].terminal
            \/ p = e.plan /\ plan'[p].terminal = e.outcome
    BY <1>t, <2>1 DEF Outcome, Plan, Event
  <2>3. \A g \in Handlers : handler'[g].pc # "idle" =>
            \/ handler'[g] = handler[g]
            \/ handler[g].pc # "idle" /\ handler'[g].event = handler[g].event
    BY <1>3, <1>t DEF Record, Idle, Handling
  <2>4. UNCHANGED <<github, pending>>
    BY <1>3 DEF Record
  <2>5. \A p \in Plans :
            \/ plan'[p].terminal = plan[p].terminal
            \/ [plan |-> p, outcome |-> plan'[p].terminal] \in sent
    BY <2>1, <2>2, EventIs
  <2>6. QED
    BY <2>3, <2>4, <2>5, SentKept
<1>4. CASE RecordedBefore(h) \/ EnqueueRefresh(h) \/ EnqueueRaises(h) \/ HandlerCrash(h)
  <2>1. UNCHANGED <<github, pending, plan>> /\ handler' = [handler EXCEPT ![h] = Idle]
    BY <1>4 DEF RecordedBefore, EnqueueRefresh, EnqueueRaises, HandlerCrash
  <2>2. \A g \in Handlers : handler'[g].pc # "idle" => handler'[g] = handler[g]
    BY <1>t, <2>1 DEF Idle
  <2>3. QED
    BY <2>1, <2>2, SentKept
<1>5. QED
  BY <1>1, <1>2, <1>3, <1>4 DEF HandlerStep

(* GitHub and the executor. *)
LEMMA SentPeople ==
    ASSUME TypeInv, SentInv, People
    PROVE  SentInv'
<1>t. /\ pr \in [Plans -> {"open", "merged", "closed", "reverted"}]
      /\ head \in Nat /\ plan \in [Plans -> Plan]
      /\ landed \in [Plans -> Nat] /\ undone \in [Plans -> Nat]
  BY ConstantAssumption DEF TypeInv, TypeOK, Commits
<1>b. \A q \in Plans : /\ landed[q] \in Nat /\ undone[q] \in Nat
                       /\ landed[q] <= head /\ undone[q] <= head
  BY <1>t DEF SentInv
<1>s. ASSUME NEW p \in Plans, NEW o, Sends(p, o),
             \A q \in Plans :
                /\ landed'[q] <= head' /\ undone'[q] <= head'
                /\ [plan |-> q, outcome |-> "merged"] \in sent' =>
                      pr'[q] \in {"merged", "reverted"}
                /\ [plan |-> q, outcome |-> "reverted"] \in sent' => pr'[q] = "reverted"
      PROVE  SentInv'
  <2>1. /\ UNCHANGED <<plan, handler>> /\ sent \subseteq sent'
        /\ pending' = pending \cup {[plan |-> p, outcome |-> o]}
        /\ sent' = sent \cup {[plan |-> p, outcome |-> o]}
    BY <1>s DEF Sends
  <2>2. /\ pending' \subseteq sent'
        /\ \A h \in Handlers : handler'[h].pc # "idle" => handler'[h].event \in sent'
        /\ \A q \in Plans : plan'[q].terminal # None =>
              [plan |-> q, outcome |-> plan'[q].terminal] \in sent'
    BY <2>1 DEF SentInv
  <2>3. QED
    BY <1>s, <2>2 DEF SentInv
<1>e. ASSUME NEW p \in Plans, NEW o, Sends(p, o), NEW q \in Plans, NEW x,
             [plan |-> q, outcome |-> x] \in sent'
      PROVE  [plan |-> q, outcome |-> x] \in sent \/ (q = p /\ x = o)
  BY <1>e DEF Sends
<1>r. ASSUME NEW p \in Plans, RecordSuccess(p) PROVE SentInv'
  <2>1. /\ UNCHANGED <<github, pending, handler>>
        /\ \A q \in Plans : plan'[q].terminal = plan[q].terminal
    BY <1>t, <1>r DEF RecordSuccess, Plan
  <2>2. QED
    BY <2>1, SentKept
<1>1. ASSUME NEW p \in Plans, NEW o \in Remarks, Remark(p, o) PROVE SentInv'
  <2>1. Sends(p, o) /\ o # "merged" /\ o # "reverted" /\ UNCHANGED <<pr, head, landed, undone>>
    BY <1>1 DEF Remark, Remarks
  <2>2. QED
    BY <1>s, <1>e, <2>1 DEF SentInv
<1>2. ASSUME NEW p \in Plans, Merge(p) PROVE SentInv'
  <2>1. /\ Sends(p, "merged") /\ pr[p] = "open" /\ pr' = [pr EXCEPT ![p] = "merged"]
        /\ head' = head + 1 /\ landed' = [landed EXCEPT ![p] = head + 1] /\ undone' = undone
    BY <1>2 DEF Merge
  <2>2. \A q \in Plans : landed'[q] <= head' /\ undone'[q] <= head'
    BY <1>t, <1>b, <2>1
  <2>3. QED
    BY <1>s, <1>e, <1>t, <2>1, <2>2 DEF SentInv
<1>3. ASSUME NEW p \in Plans, Close(p) PROVE SentInv'
  <2>1. /\ Sends(p, "closed") /\ pr[p] = "open" /\ pr' = [pr EXCEPT ![p] = "closed"]
        /\ UNCHANGED <<head, landed, undone>>
    BY <1>3 DEF Close
  <2>2. QED
    BY <1>s, <1>e, <1>t, <2>1 DEF SentInv
<1>4. ASSUME NEW p \in Plans, Revert(p) PROVE SentInv'
  <2>1. /\ Sends(p, "reverted") /\ pr[p] = "merged" /\ pr' = [pr EXCEPT ![p] = "reverted"]
        /\ head' = head + 1 /\ undone' = [undone EXCEPT ![p] = head + 1] /\ landed' = landed
    BY <1>4 DEF Revert
  <2>2. \A q \in Plans : landed'[q] <= head' /\ undone'[q] <= head'
    BY <1>t, <1>b, <2>1
  <2>3. QED
    BY <1>s, <1>e, <1>t, <2>1, <2>2 DEF SentInv
<1>5. ASSUME NEW p \in Plans, Reopen(p) PROVE SentInv'
  BY <1>t, <1>5 DEF Reopen, SentInv
<1>6. ASSUME NEW e \in Event, Redeliver(e) PROVE SentInv'
  BY <1>6 DEF Redeliver, SentInv, github
<1>7. QED
  BY <1>r, <1>1, <1>2, <1>3, <1>4, <1>5, <1>6 DEF People

LEMMA SentStep == TypeInv /\ SentInv /\ [Next]_vars => SentInv'
<1> SUFFICES ASSUME TypeInv, SentInv, [Next]_vars PROVE SentInv'
  OBVIOUS
<1>1. ASSUME NEW r \in Refreshers, RefreshStep(r) \/ RefreshStops(r)
      PROVE  UNCHANGED <<github, pending, handler, plan>>
  BY <1>1 DEF RefreshStep, RefreshSkips, RefreshStarts, RefreshClones, RefreshStores,
              RefreshSaves, RefreshPromotes, RefreshStops
<1>2. ASSUME NEW s \in Sessions, LoseMessage(s)
      PROVE  UNCHANGED <<github, pending, handler, plan>>
  BY <1>2 DEF LoseMessage
<1>3. CASE UNCHANGED <<github, pending, handler, plan>>
  BY <1>3, SentKept
<1>4. QED
  BY <1>1, <1>2, <1>3, SentPeople, SentHandler DEF Next, vars

-----------------------------------------------------------------------------
(* The clock. *)

(* An analysis is stored before it is saved and promoted, and no analysis  *)
(* is younger than the log.                                                *)
ClockInv ==
    /\ \A c \in Commits : created[c] # None => created[c] <= Len(log)
    /\ \A r \in Refreshers :
          refresh[r].pc \in {"save", "promote"} => created[refresh[r].commit] # None
    /\ \A s \in Sessions : latest[s] # None => created[latest[s]] # None

LEMMA ClockInit == Init => ClockInv
<1> SUFFICES ASSUME Init PROVE ClockInv
  OBVIOUS
<1>1. /\ \A c \in Commits : created[c] # None => created[c] = 0
      /\ \A r \in Refreshers : refresh[r].pc = "idle"
      /\ \A s \in Sessions : latest[s] = None
      /\ Len(log) = 0
  BY DEF Init, Resting
<1>2. QED
  BY <1>1 DEF ClockInv

(* Time passes, and workers before the store or after the promotion.       *)
LEMMA ClockKept ==
    ASSUME TypeInv, ClockInv, Len(log') \in Nat, Len(log) <= Len(log'),
           UNCHANGED <<created, latest>>,
           \A r \in Refreshers :
               refresh'[r].pc \in {"save", "promote"} =>
                   /\ refresh[r].pc \in {"save", "promote"}
                   /\ refresh'[r].commit = refresh[r].commit
    PROVE  ClockInv'
<1>1. log \in Seq(Event) /\ created \in [Commits -> Nat \cup {None}]
  BY DEF TypeInv, TypeOK
<1>2. Len(log) \in Nat
  BY <1>1
<1>3. ASSUME NEW c \in Commits, created[c] # None PROVE created[c] <= Len(log')
  <2>1. created[c] \in Nat /\ created[c] <= Len(log)
    BY <1>1, <1>3 DEF ClockInv
  <2>2. QED
    BY <1>2, <2>1
<1>4. QED
  BY <1>3 DEF ClockInv

LEMMA LogGrows ==
    ASSUME TypeInv, [Next]_vars
    PROVE  /\ Len(log) \in Nat /\ Len(log') \in Nat
           /\ Len(log) <= Len(log')
<1>1. log \in Seq(Event)
  BY DEF TypeInv, TypeOK
<1>2. CASE \A h \in Handlers : ~Record(h)
  BY <1>1, <1>2, OnlyRecordLogs
<1>3. ASSUME NEW h \in Handlers, Record(h)
      PROVE  Len(log') = Len(log) + 1
  BY <1>1, <1>3, RecordShape
<1>4. QED
  BY <1>1, <1>2, <1>3

(* Only the refreshes write analyses. *)
LEMMA OnlyRefreshesAnalyse ==
    ASSUME [Next]_vars, \A r \in Refreshers : ~RefreshStep(r) /\ ~RefreshStops(r)
    PROVE  UNCHANGED <<refresh, created, latest>>
<1>1. CASE People
  BY <1>1 DEF People, RecordSuccess, Remark, Merge, Close, Revert, Reopen, Redeliver,
              Sends, analyses
<1>2. ASSUME NEW h \in Handlers, HandlerStep(h) \/ EnqueueRaises(h) \/ HandlerCrash(h)
      PROVE  UNCHANGED <<refresh, created, latest>>
  BY <1>2 DEF HandlerStep, ReadPlan, IgnoreRevert, Record, RecordedBefore,
              EnqueueRefresh, EnqueueRaises, HandlerCrash, analyses
<1>3. ASSUME NEW s \in Sessions, LoseMessage(s) PROVE UNCHANGED <<refresh, created, latest>>
  BY <1>3 DEF LoseMessage, analyses
<1>4. CASE UNCHANGED vars
  BY <1>4 DEF vars, analyses
<1>5. QED
  BY <1>1, <1>2, <1>3, <1>4 DEF Next

LEMMA ClockStep == TypeInv /\ ClockInv /\ [Next]_vars => ClockInv'
<1> SUFFICES ASSUME TypeInv, ClockInv, [Next]_vars PROVE ClockInv'
  OBVIOUS
<1>g. Len(log) \in Nat /\ Len(log') \in Nat /\ Len(log) <= Len(log')
  BY LogGrows
<1>t. /\ refresh \in [Refreshers -> Refresh]
      /\ created \in [Commits -> Nat \cup {None}]
      /\ latest \in [Sessions -> Commits \cup {None}]
      /\ \A r \in Refreshers :
            /\ refresh[r].pc # "idle" => refresh[r].session \in Sessions
            /\ refresh[r].pc \in {"store", "save", "promote"} =>
                  refresh[r].commit \in Commits
      /\ None \notin Nat
  BY ConstantAssumption DEF TypeInv, TypeOK
<1>1. CASE UNCHANGED <<refresh, created, latest>>
  BY <1>1, <1>g, ClockKept
<1>2. ASSUME NEW r \in Refreshers,
             \/ \E s \in Sessions : RefreshSkips(r, s) \/ RefreshStarts(r, s)
             \/ RefreshClones(r) \/ RefreshPromotes(r) \/ RefreshStops(r)
      PROVE  ClockInv'
  <2>1. /\ UNCHANGED <<created, latest>>
        /\ \/ UNCHANGED refresh
           \/ \E new : /\ refresh' = [refresh EXCEPT ![r] = new]
                       /\ new.pc \notin {"save", "promote"}
    BY <1>2 DEF RefreshSkips, RefreshStarts, RefreshClones, RefreshPromotes, RefreshStops,
                Resting, analyses
  <2>2. QED
    BY <1>g, <1>t, <2>1, ClockKept
<1>3. ASSUME NEW r \in Refreshers, RefreshStores(r) PROVE ClockInv'
  <2> DEFINE c == refresh[r].commit
  <2>1. /\ refresh[r].pc = "store" /\ refresh' = [refresh EXCEPT ![r].pc = "save"]
        /\ UNCHANGED <<log, latest>> /\ c \in Commits
        /\ created' = [created EXCEPT ![c] = IF @ = None THEN Len(log) ELSE @]
    BY <1>3, <1>t DEF RefreshStores
  <2>2. /\ created'[c] # None
        /\ \A d \in Commits : created[d] # None => created'[d] = created[d]
        /\ \A d \in Commits : created'[d] = created[d] \/ created'[d] = Len(log)
    BY <1>t, <1>g, <2>1
  <2>3. \A d \in Commits : created'[d] # None => created'[d] <= Len(log')
    BY <1>g, <2>1, <2>2 DEF ClockInv
  <2>4. ASSUME NEW q \in Refreshers, refresh'[q].pc \in {"save", "promote"}
        PROVE  created'[refresh'[q].commit] # None
    <3>1. CASE q = r
      <4>1. refresh[r] \in Refresh
        BY <1>t
      <4>2. refresh'[q].commit = c
        BY <1>t, <2>1, <3>1, <4>1 DEF Refresh
      <4>3. QED
        BY <2>2, <4>2
    <3>2. CASE q # r
      BY <1>t, <2>1, <2>2, <2>4, <3>2 DEF ClockInv
    <3>3. QED
      BY <3>1, <3>2
  <2>5. \A s \in Sessions : latest'[s] # None => created'[latest'[s]] # None
    BY <1>t, <2>1, <2>2 DEF ClockInv
  <2>6. QED
    BY <2>3, <2>4, <2>5 DEF ClockInv
<1>4. ASSUME NEW r \in Refreshers, RefreshSaves(r) PROVE ClockInv'
  <2>1. /\ refresh[r].pc = "save" /\ refresh' = [refresh EXCEPT ![r].pc = "promote"]
        /\ UNCHANGED <<log, created>> /\ refresh[r].commit \in Commits
        /\ latest' = [latest EXCEPT ![refresh[r].session] = refresh[r].commit]
    BY <1>4, <1>t DEF RefreshSaves
  <2>2. \A q \in Refreshers : refresh'[q].commit = refresh[q].commit
    BY <1>t, <2>1 DEF Refresh
  <2>3. \A q \in Refreshers :
            refresh'[q].pc \in {"save", "promote"} => created'[refresh'[q].commit] # None
    BY <1>t, <2>1, <2>2 DEF ClockInv
  <2>4. \A s \in Sessions : latest'[s] # None => created'[latest'[s]] # None
    BY <1>t, <2>1 DEF ClockInv
  <2>5. QED
    BY <2>1, <2>3, <2>4 DEF ClockInv
<1>5. CASE \A r \in Refreshers : ~RefreshStep(r) /\ ~RefreshStops(r)
  BY <1>1, <1>5, OnlyRefreshesAnalyse
<1>6. QED
  BY <1>2, <1>3, <1>4, <1>5 DEF RefreshStep

-----------------------------------------------------------------------------
(* What the analysis on record has seen. *)

(* The commit c has what the terminal outcome of the plan stands for. *)
Seen(p, c) ==
    /\ plan[p].terminal = "merged" => landed[p] <= c
    /\ plan[p].terminal = "reverted" => undone[p] <= c

(* What a running refresh has cloned. *)
RunsSee(s) ==
    \A r \in Refreshers :
        refresh[r].session = s /\ refresh[r].pc \in {"store", "save", "promote"} =>
            \A p \in Authored(s) : Seen(p, refresh[r].commit)

(* What the analysis on record is not too old for. *)
RecordSees(s) ==
    latest[s] # None =>
        \A p \in Authored(s) :
            plan[p].at <= created[latest[s]] => Seen(p, latest[s])

QuietSees(s) == AllTerminal(s) /\ ~RefreshDue(s) => Covers(s)

Fresh(s) == RunsSee(s) /\ RecordSees(s) /\ QuietSees(s)

FreshInv == \A s \in Sessions : s \in missed \/ Fresh(s)

LEMMA FreshInit == Init => FreshInv
<1> SUFFICES ASSUME Init, NEW s \in Sessions PROVE Fresh(s)
  BY DEF FreshInv
<1>1. /\ \A r \in Refreshers : refresh[r].pc = "idle"
      /\ latest[s] = None /\ Authored(s) = {}
  BY DEF Init, Resting, Authored
<1>2. QED
  BY <1>1 DEF Fresh, RunsSee, RecordSees, QuietSees, AllTerminal

(* A step that leaves alone the outcomes of the session, its record and    *)
(* what the refreshes have cloned, and leaves the session due if it was.   *)
LEMMA FreshKept ==
    ASSUME TypeInv, NEW s \in Sessions, Fresh(s),
           \A p \in Plans :
               SessionOf[p] = s =>
                   /\ plan'[p].authored = plan[p].authored
                   /\ plan'[p].terminal = plan[p].terminal
                   /\ plan'[p].at = plan[p].at,
           \A p \in Plans, c \in Commits :
               SessionOf[p] = s /\ Seen(p, c) => Seen(p, c)',
           latest'[s] = latest[s],
           latest[s] # None => created'[latest[s]] = created[latest[s]],
           \A r \in Refreshers :
               refresh'[r].session = s /\ refresh'[r].pc \in {"store", "save", "promote"} =>
                   /\ refresh[r].session = s
                   /\ refresh[r].pc \in {"store", "save", "promote"}
                   /\ refresh'[r].commit = refresh[r].commit,
           RefreshDue(s) => RefreshDue(s)'
    PROVE  Fresh(s)'
<1>1. /\ latest[s] # None => latest[s] \in Commits
      /\ \A r \in Refreshers :
            refresh[r].pc \in {"store", "save", "promote"} => refresh[r].commit \in Commits
  BY DEF TypeInv, TypeOK
<1>2. Authored(s)' = Authored(s) /\ Authored(s) \subseteq Plans
  BY DEF Authored
<1>3. ASSUME NEW p \in Authored(s), NEW c \in Commits, Seen(p, c) PROVE Seen(p, c)'
  BY <1>3 DEF Authored
<1>4. \A p \in Authored(s) :
          plan'[p].terminal = plan[p].terminal /\ plan'[p].at = plan[p].at
  BY DEF Authored
<1>5. RunsSee(s)'
  <2> SUFFICES ASSUME NEW r \in Refreshers, refresh'[r].session = s,
                      refresh'[r].pc \in {"store", "save", "promote"},
                      NEW p \in Authored(s)
               PROVE  Seen(p, refresh[r].commit)' /\ refresh'[r].commit = refresh[r].commit
    BY <1>2 DEF RunsSee, Seen
  <2>1. /\ refresh'[r].commit = refresh[r].commit /\ refresh[r].commit \in Commits
        /\ Seen(p, refresh[r].commit)
    BY <1>1 DEF Fresh, RunsSee
  <2>2. QED
    BY <1>3, <2>1 DEF Seen
<1>6. RecordSees(s)'
  <2> SUFFICES ASSUME latest'[s] # None, NEW p \in Authored(s),
                      plan'[p].at <= created'[latest'[s]]
               PROVE  Seen(p, latest[s])'
    BY <1>2 DEF RecordSees, Seen
  <2>1. latest[s] \in Commits /\ Seen(p, latest[s])
    BY <1>1, <1>4 DEF Fresh, RecordSees
  <2>2. QED
    BY <1>3, <2>1 DEF Seen
<1>7. QuietSees(s)'
  <2> SUFFICES ASSUME AllTerminal(s)', ~RefreshDue(s)' PROVE Covers(s)'
    BY DEF QuietSees
  <2>1. AllTerminal(s)
    BY <1>2, <1>4 DEF AllTerminal
  <2>2. Covers(s)
    BY <2>1 DEF Fresh, QuietSees
  <2>3. latest[s] \in Commits /\ \A p \in Authored(s) : Seen(p, latest[s])
    BY <1>1, <2>2 DEF Covers, Seen
  <2>4. QED
    BY <1>1, <1>2, <1>3, <2>3, ConstantAssumption DEF Covers, Seen, Commits
<1>8. QED
  BY <1>5, <1>6, <1>7 DEF Fresh

(* People change pull requests that have no such outcome yet: a plan whose *)
(* merge is on record is not merged again.                                 *)
LEMMA FreshPeople ==
    ASSUME TypeInv, SentInv, FreshInv, People
    PROVE  FreshInv'
<1>t. /\ plan \in [Plans -> Plan] /\ head \in Nat
      /\ landed \in [Plans -> Nat] /\ undone \in [Plans -> Nat]
  BY ConstantAssumption DEF TypeInv, TypeOK, Commits
<1>k. ASSUME UNCHANGED <<plan, handler, messages, refresh, analyses, missed>>,
             \A p \in Plans : /\ plan[p].terminal = "merged" => landed'[p] = landed[p]
                              /\ plan[p].terminal = "reverted" => undone'[p] = undone[p]
      PROVE  FreshInv'
  <2>1. \A p \in Plans, c \in Commits : Seen(p, c) => Seen(p, c)'
    BY <1>k DEF Seen
  <2>2. \A s \in Sessions : RefreshDue(s) => RefreshDue(s)'
    BY <1>k DEF RefreshDue
  <2>3. ASSUME NEW s \in Sessions, Fresh(s) PROVE Fresh(s)'
    BY <1>k, <2>1, <2>2, <2>3, FreshKept DEF analyses
  <2>4. QED
    BY <1>k, <2>3 DEF FreshInv
<1>r. ASSUME NEW p \in Plans, RecordSuccess(p) PROVE FreshInv'
  <2>1. /\ plan' = [plan EXCEPT ![p].authored = TRUE] /\ ~plan[p].authored
        /\ UNCHANGED <<github, log, handler, messages, refresh, analyses>>
        /\ missed' = IF plan[p].terminal = None THEN missed ELSE missed \cup {SessionOf[p]}
    BY <1>r DEF RecordSuccess
  <2>2. /\ \A q \in Plans : plan'[q].terminal = plan[q].terminal /\ plan'[q].at = plan[q].at
        /\ \A q \in Plans : q # p => plan'[q].authored = plan[q].authored
        /\ plan'[p].authored
    BY <1>t, <2>1 DEF Plan
  <2>3. \A q \in Plans, c \in Commits : Seen(q, c) => Seen(q, c)'
    BY <2>1, <2>2 DEF Seen, github
  <2>4. \A s \in Sessions : RefreshDue(s) => RefreshDue(s)'
    BY <2>1 DEF RefreshDue
  <2>5. ASSUME NEW s \in Sessions, s # SessionOf[p], Fresh(s) PROVE Fresh(s)'
    <3>1. \A q \in Plans : SessionOf[q] = s =>
              /\ plan'[q].authored = plan[q].authored
              /\ plan'[q].terminal = plan[q].terminal
              /\ plan'[q].at = plan[q].at
      BY <2>2, <2>5
    <3>2. QED
      BY <2>1, <2>3, <2>4, <2>5, <3>1, FreshKept DEF analyses
  <2>6. ASSUME plan[p].terminal = None, Fresh(SessionOf[p]) PROVE Fresh(SessionOf[p])'
    <3> DEFINE s == SessionOf[p]
    <3>1. Authored(s)' = Authored(s) \cup {p} /\ Authored(s) \subseteq Plans
      BY <2>2 DEF Authored
    <3>2. plan'[p].terminal = None
      BY <2>2, <2>6
    <3>3. \A c : Seen(p, c)'
      BY <3>2, ConstantAssumption DEF Seen, Outcomes, RefreshOutcomes
    <3>4. ~AllTerminal(s)'
      BY <3>1, <3>2 DEF AllTerminal
    <3>5. RunsSee(s)'
      BY <2>1, <2>2, <2>6, <3>1, <3>3 DEF Fresh, RunsSee, Seen, github
    <3>6. RecordSees(s)'
      BY <2>1, <2>2, <2>6, <3>1, <3>3 DEF Fresh, RecordSees, Seen, github, analyses
    <3>7. QED
      BY <3>4, <3>5, <3>6 DEF Fresh, QuietSees
  <2>7. QED
    BY <2>1, <2>5, <2>6 DEF FreshInv
<1>m. ASSUME NEW p \in Plans
      PROVE  /\ plan[p].terminal = "merged" => pr[p] \in {"merged", "reverted"}
             /\ plan[p].terminal = "reverted" => pr[p] = "reverted"
  BY ConstantAssumption DEF SentInv, Outcomes, RefreshOutcomes
<1>1. ASSUME NEW p \in Plans, NEW o \in Remarks, Remark(p, o) PROVE FreshInv'
  BY <1>1, <1>k DEF Remark, Sends
<1>2. ASSUME NEW p \in Plans, Merge(p) PROVE FreshInv'
  BY <1>t, <1>2, <1>k, <1>m DEF Merge, Sends
<1>3. ASSUME NEW p \in Plans, Close(p) PROVE FreshInv'
  BY <1>3, <1>k DEF Close, Sends
<1>4. ASSUME NEW p \in Plans, Revert(p) PROVE FreshInv'
  BY <1>t, <1>4, <1>k, <1>m DEF Revert, Sends
<1>5. ASSUME NEW p \in Plans, Reopen(p) PROVE FreshInv'
  BY <1>5, <1>k DEF Reopen
<1>6. ASSUME NEW e \in Event, Redeliver(e) PROVE FreshInv'
  BY <1>6, <1>k DEF Redeliver, github
<1>7. QED
  BY <1>r, <1>1, <1>2, <1>3, <1>4, <1>5, <1>6 DEF People

(* Workers that take an event or that have nothing to record. *)
LEMMA FreshHandler ==
    ASSUME TypeInv, FreshInv, NEW h \in Handlers,
           HandlerStep(h) \/ EnqueueRaises(h) \/ HandlerCrash(h), ~Record(h)
    PROVE  FreshInv'
<1>t. /\ handler \in [Handlers -> Handling] /\ messages \in [Sessions -> Nat]
      /\ \A g \in Handlers : handler[g].pc # "idle" => handler[g].event \in Event
      /\ \A g \in Handlers : handler[g].pc # "idle" =>
            SessionOf[handler[g].event.plan] \in Sessions
  BY ConstantAssumption DEF TypeInv, TypeOK, Event
<1>k. ASSUME UNCHANGED <<github, plan, refresh, analyses>>, missed \subseteq missed',
             \A s \in Sessions \ missed' : RefreshDue(s) => RefreshDue(s)'
      PROVE  FreshInv'
  <2>1. \A p \in Plans, c \in Commits : Seen(p, c) => Seen(p, c)'
    BY <1>k DEF Seen, github
  <2>2. ASSUME NEW s \in Sessions \ missed', Fresh(s) PROVE Fresh(s)'
    BY <1>k, <2>1, <2>2, FreshKept DEF analyses
  <2>3. QED
    BY <1>k, <2>2 DEF FreshInv
<1>1. CASE (\E e \in Event : ReadPlan(h, e) \/ IgnoreRevert(h, e)) \/ RecordedBefore(h)
  <2>1. /\ UNCHANGED <<github, plan, messages, refresh, analyses, missed>>
        /\ \A g \in Handlers : handler[g].pc = "refresh" => handler'[g] = handler[g]
    BY <1>t, <1>1 DEF ReadPlan, IgnoreRevert, RecordedBefore
  <2>2. \A s \in Sessions : RefreshDue(s) => RefreshDue(s)'
    BY <2>1 DEF RefreshDue
  <2>3. QED
    BY <1>k, <2>1, <2>2
<1>2. CASE EnqueueRefresh(h)
  <2> DEFINE t == SessionOf[handler[h].event.plan]
  <2>1. /\ UNCHANGED <<github, plan, refresh, analyses, missed>>
        /\ t \in Sessions /\ messages[t] \in Nat
        /\ messages' = [messages EXCEPT ![t] = messages[t] + 1]
        /\ \A g \in Handlers : g # h => handler'[g] = handler[g]
    BY <1>t, <1>2 DEF EnqueueRefresh
  <2>2. ASSUME NEW s \in Sessions, RefreshDue(s) PROVE RefreshDue(s)'
    <3>1. messages'[t] > 0 /\ \A u \in Sessions : u # t => messages'[u] = messages[u]
      BY <1>t, <2>1
    <3>2. CASE s = t
      BY <3>1, <3>2 DEF RefreshDue
    <3>3. CASE s # t
      BY <2>1, <2>2, <3>1, <3>3 DEF RefreshDue
    <3>4. QED
      BY <3>2, <3>3
  <2>3. QED
    BY <1>k, <2>1, <2>2
<1>3. CASE EnqueueRaises(h) \/ HandlerCrash(h)
  <2>1. /\ UNCHANGED <<github, plan, messages, refresh, analyses>>
        /\ \A g \in Handlers : g # h => handler'[g] = handler[g]
        /\ missed \subseteq missed'
        /\ handler[h].pc = "refresh" => SessionOf[handler[h].event.plan] \in missed'
    BY <1>t, <1>3 DEF EnqueueRaises, HandlerCrash
  <2>2. \A s \in Sessions \ missed' : RefreshDue(s) => RefreshDue(s)'
    BY <2>1 DEF RefreshDue
  <2>3. QED
    BY <1>k, <2>1, <2>2
<1>4. QED
  BY <1>1, <1>2, <1>3 DEF HandlerStep

(* An outcome that is recorded is later than every analysis on record, and *)
(* its worker is about to enqueue the refresh: a refresh that is under way *)
(* is the only one that could miss it.                                     *)
LEMMA FreshRecord ==
    ASSUME TypeInv, ClockInv, FreshInv, NEW h \in Handlers, Record(h)
    PROVE  FreshInv'
<1> DEFINE e == handler[h].event
           n == Len(log) + 1
           row == Outcome(plan[e.plan], e, handler[h].history)
           t == SessionOf[e.plan]
<1>1. /\ e \in Event /\ e.plan \in Plans /\ t \in Sessions /\ Len(log) \in Nat
      /\ plan' = [plan EXCEPT ![e.plan] = row] /\ plan \in [Plans -> Plan]
      /\ handler \in [Handlers -> Handling]
  BY ConstantAssumption, RecordShape DEF TypeInv, TypeOK, Event
<1>2. /\ handler[h].pc = "record"
      /\ UNCHANGED <<github, messages, refresh, analyses>>
      /\ handler' = [handler EXCEPT
           ![h] = IF e.outcome \in RefreshOutcomes
                  THEN [handler[h] EXCEPT !.pc = "refresh"] ELSE Idle]
      /\ missed' = IF e.outcome \in RefreshOutcomes /\ Refreshing(t)
                   THEN missed \cup {t} ELSE missed
  BY DEF Record
<1>3. \A g \in Handlers : g # h => handler'[g] = handler[g]
  BY <1>1, <1>2
<1>4. /\ row.authored = plan[e.plan].authored
      /\ e.outcome \in RefreshOutcomes => row.at = n
      /\ e.outcome \notin RefreshOutcomes =>
            row.terminal = plan[e.plan].terminal /\ row.at = plan[e.plan].at
  BY <1>1 DEF Outcome, Plan
<1>5. \A p \in Plans : /\ p # e.plan => plan'[p] = plan[p]
                       /\ plan'[e.plan] = row
  BY <1>1
<1>6. \A s \in Sessions : RefreshDue(s) => RefreshDue(s)'
  BY <1>2, <1>3 DEF RefreshDue
<1>7. ASSUME NEW s \in Sessions, s # t \/ e.outcome \notin RefreshOutcomes, Fresh(s)
      PROVE  Fresh(s)'
  <2>1. \A p \in Plans : SessionOf[p] = s =>
            /\ plan'[p].authored = plan[p].authored
            /\ plan'[p].terminal = plan[p].terminal
            /\ plan'[p].at = plan[p].at
    BY <1>4, <1>5, <1>7
  <2>2. \A p \in Plans, c \in Commits : SessionOf[p] = s /\ Seen(p, c) => Seen(p, c)'
    BY <1>2, <2>1 DEF Seen, github
  <2>3. QED
    BY <1>2, <1>6, <1>7, <2>1, <2>2, FreshKept DEF analyses
<1>8. ASSUME NEW s \in Sessions, s = t, e.outcome \in RefreshOutcomes,
             ~Refreshing(s), Fresh(s)
      PROVE  Fresh(s)'
  <2>1. RunsSee(s)'
    BY <1>2, <1>8 DEF RunsSee, Refreshing
  <2>2. RecordSees(s)'
    <3> SUFFICES ASSUME latest[s] # None, NEW p \in Authored(s)',
                        plan'[p].at <= created[latest[s]]
                 PROVE  Seen(p, latest[s])'
      BY <1>2 DEF RecordSees, Seen, analyses
    <3>1. created[latest[s]] \in Nat /\ created[latest[s]] <= Len(log)
      BY <1>1 DEF ClockInv, TypeInv, TypeOK
    <3>2. plan'[e.plan].at = Len(log) + 1
      BY <1>1, <1>4, <1>5, <1>8
    <3>3. p # e.plan /\ p \in Plans
      BY <1>1, <3>1, <3>2 DEF Authored
    <3>4. plan'[p] = plan[p] /\ p \in Authored(s)
      BY <1>5, <3>3 DEF Authored
    <3>5. Seen(p, latest[s])
      BY <1>8, <3>4 DEF Fresh, RecordSees
    <3>6. QED
      BY <1>2, <3>4, <3>5 DEF Seen, github, analyses
  <2>3. RefreshDue(s)'
    <3>1. handler'[h].pc = "refresh" /\ handler'[h].event = e
      BY <1>1, <1>2, <1>8 DEF Handling
    <3>2. QED
      BY <1>8, <3>1 DEF RefreshDue
  <2>4. QED
    BY <2>1, <2>2, <2>3 DEF Fresh, QuietSees
<1>9. QED
  BY <1>2, <1>7, <1>8 DEF FreshInv

(* A refresh that is skipped is skipped because the record has seen        *)
(* everything; one that clones sees everything that has been recorded; one *)
(* that saves leaves a record that has.                                    *)
LEMMA FreshRefresh ==
    ASSUME TypeInv, SentInv, ClockInv, FreshInv, NEW r \in Refreshers,
           RefreshStep(r) \/ RefreshStops(r)
    PROVE  FreshInv'
<1>t. /\ refresh \in [Refreshers -> Refresh] /\ messages \in [Sessions -> Nat]
      /\ plan \in [Plans -> Plan]
      /\ created \in [Commits -> Nat \cup {None}]
      /\ latest \in [Sessions -> Commits \cup {None}]
      /\ refresh[r].pc # "idle" => refresh[r].session \in Sessions
      /\ refresh[r].pc \in {"store", "save", "promote"} => refresh[r].commit \in Commits
      /\ None \notin Nat /\ None \notin Commits /\ head \in Commits
  BY ConstantAssumption DEF TypeInv, TypeOK, Commits
<1>f. ASSUME NEW new, refresh' = [refresh EXCEPT ![r] = new]
      PROVE  refresh'[r] = new /\ \A q \in Refreshers : q # r => refresh'[q] = refresh[q]
  BY <1>t, <1>f
<1>k. ASSUME UNCHANGED <<github, plan>>
      PROVE  \A p \in Plans, c \in Commits : Seen(p, c) => Seen(p, c)'
  BY <1>k DEF Seen, github
<1>1. ASSUME NEW t \in Sessions, RefreshSkips(r, t) PROVE FreshInv'
  <2>1. /\ UNCHANGED <<github, plan, handler, refresh, analyses, missed>>
        /\ messages' = [messages EXCEPT ![t] = messages[t] - 1]
        /\ AllTerminal(t) => AlreadyRefreshed(t)
    BY <1>1 DEF RefreshSkips
  <2>2. ASSUME NEW s \in Sessions, s # t, Fresh(s) PROVE Fresh(s)'
    <3>1. messages'[s] = messages[s]
      BY <1>t, <2>1, <2>2
    <3>2. RefreshDue(s) => RefreshDue(s)'
      BY <2>1, <3>1 DEF RefreshDue
    <3>3. QED
      BY <1>k, <2>1, <2>2, <3>2, FreshKept DEF analyses
  <2>3. ASSUME Fresh(t) PROVE Fresh(t)'
    <3>1. RunsSee(t)' /\ RecordSees(t)'
      BY <2>1, <2>3 DEF Fresh, RunsSee, RecordSees, Authored, Seen, github, analyses
    <3>2. ASSUME AllTerminal(t) PROVE Covers(t)
      <4>1. /\ latest[t] # None
            /\ \A p \in Authored(t) : plan[p].at <= created[latest[t]]
        <5>1. AlreadyRefreshed(t)
          BY <2>1, <3>2
        <5>2. \A p \in Authored(t) : plan[p].at \in Nat
          BY <1>t DEF Authored, Plan
        <5>3. latest[t] \in Commits /\ created[latest[t]] \in Nat
          BY <1>t, <5>1 DEF AlreadyRefreshed, ClockInv
        <5>4. QED
          BY <5>1, <5>2, <5>3 DEF AlreadyRefreshed
      <4>2. \A p \in Authored(t) : Seen(p, latest[t])
        BY <2>3, <4>1 DEF Fresh, RecordSees
      <4>3. QED
        BY <4>1, <4>2 DEF Covers, Seen
    <3>3. QuietSees(t)'
      BY <2>1, <3>2 DEF QuietSees, AllTerminal, Covers, Authored, github, analyses
    <3>4. QED
      BY <3>1, <3>3 DEF Fresh
  <2>4. QED
    BY <2>1, <2>2, <2>3 DEF FreshInv
<1>2. ASSUME NEW t \in Sessions, RefreshStarts(r, t) PROVE FreshInv'
  <2> DEFINE new == [pc |-> "clone", session |-> t, commit |-> None]
  <2>1. /\ UNCHANGED <<github, plan, handler, analyses, missed>>
        /\ messages' = [messages EXCEPT ![t] = messages[t] - 1]
        /\ refresh[r].pc = "idle"
        /\ refresh'[r] = new /\ \A q \in Refreshers : q # r => refresh'[q] = refresh[q]
    BY <1>2, <1>f DEF RefreshStarts
  <2>2. ASSUME NEW s \in Sessions, RefreshDue(s) PROVE RefreshDue(s)'
    <3>1. CASE s = t
      BY <2>1, <3>1 DEF RefreshDue
    <3>2. CASE s # t
      <4>1. messages'[s] = messages[s]
        BY <1>t, <2>1, <3>2
      <4>2. QED
        BY <2>1, <2>2, <4>1 DEF RefreshDue
    <3>3. QED
      BY <3>1, <3>2
  <2>3. \A q \in Refreshers :
            refresh'[q].pc \in {"store", "save", "promote"} => refresh'[q] = refresh[q]
    BY <2>1
  <2>4. ASSUME NEW s \in Sessions, Fresh(s) PROVE Fresh(s)'
    BY <1>k, <2>1, <2>2, <2>3, <2>4, FreshKept DEF analyses
  <2>5. QED
    BY <2>1, <2>4 DEF FreshInv
<1>3. ASSUME RefreshClones(r) PROVE FreshInv'
  <2> DEFINE t == refresh[r].session
             new == [pc |-> "store", session |-> t, commit |-> head]
  <2>1. /\ UNCHANGED <<github, plan, handler, messages, analyses, missed>>
        /\ refresh[r].pc = "clone"
        /\ refresh'[r] = new /\ \A q \in Refreshers : q # r => refresh'[q] = refresh[q]
    BY <1>3, <1>f DEF RefreshClones
  <2>2. \A s \in Sessions : RefreshDue(s) => RefreshDue(s)'
    BY <2>1 DEF RefreshDue
  <2>3. ASSUME NEW s \in Sessions, s # t, Fresh(s) PROVE Fresh(s)'
    BY <1>k, <2>1, <2>2, <2>3, FreshKept DEF analyses
  <2>4. ASSUME NEW s \in Sessions, s = t, Fresh(s) PROVE Fresh(s)'
    <3>1. \A p \in Plans : Seen(p, head)
      BY DEF Seen, SentInv
    <3>2. Authored(s)' = Authored(s) /\ Authored(s) \subseteq Plans
      BY <2>1 DEF Authored
    <3>3. RunsSee(s)'
      BY <2>1, <2>4, <3>1, <3>2 DEF Fresh, RunsSee, Seen, github
    <3>4. RecordSees(s)'
      BY <2>1, <2>4, <3>2 DEF Fresh, RecordSees, Seen, github, analyses
    <3>5. RefreshDue(s)'
      BY <2>1, <2>4 DEF RefreshDue
    <3>6. QED
      BY <3>3, <3>4, <3>5 DEF Fresh, QuietSees
  <2>5. QED
    BY <2>1, <2>3, <2>4 DEF FreshInv
<1>4. ASSUME RefreshStores(r) PROVE FreshInv'
  <2> DEFINE c == refresh[r].commit
  <2>1. /\ UNCHANGED <<github, plan, handler, messages, latest, missed>>
        /\ refresh[r].pc = "store" /\ refresh' = [refresh EXCEPT ![r].pc = "save"]
        /\ created' = [created EXCEPT ![c] = IF @ = None THEN Len(log) ELSE @]
    BY <1>4 DEF RefreshStores
  <2>2. /\ refresh'[r].pc = "save" /\ refresh'[r].session = refresh[r].session
        /\ refresh'[r].commit = refresh[r].commit
        /\ \A q \in Refreshers : q # r => refresh'[q] = refresh[q]
    BY <1>t, <2>1 DEF Refresh
  <2>3. \A s \in Sessions : latest[s] # None => created'[latest[s]] = created[latest[s]]
    BY <1>t, <2>1 DEF ClockInv
  <2>4. \A s \in Sessions : RefreshDue(s) => RefreshDue(s)'
    BY <2>1, <2>2 DEF RefreshDue
  <2>5. ASSUME NEW s \in Sessions, Fresh(s) PROVE Fresh(s)'
    BY <1>k, <2>1, <2>2, <2>3, <2>4, <2>5, FreshKept
  <2>6. QED
    BY <2>1, <2>5 DEF FreshInv
<1>5. ASSUME RefreshSaves(r) PROVE FreshInv'
  <2> DEFINE t == refresh[r].session
             c == refresh[r].commit
  <2>1. /\ UNCHANGED <<github, plan, handler, messages, created, missed>>
        /\ refresh[r].pc = "save" /\ refresh' = [refresh EXCEPT ![r].pc = "promote"]
        /\ latest' = [latest EXCEPT ![t] = c]
        /\ t \in Sessions /\ c \in Commits
    BY <1>5, <1>t DEF RefreshSaves
  <2>2. /\ refresh'[r].pc = "promote" /\ refresh'[r].session = t /\ refresh'[r].commit = c
        /\ \A q \in Refreshers : q # r => refresh'[q] = refresh[q]
    BY <1>t, <2>1 DEF Refresh
  <2>3. ASSUME NEW s \in Sessions, s # t, Fresh(s) PROVE Fresh(s)'
    <3>1. latest'[s] = latest[s]
      BY <1>t, <2>1, <2>3
    <3>2. RefreshDue(s) => RefreshDue(s)'
      BY <2>1, <2>2, <2>3 DEF RefreshDue
    <3>3. QED
      BY <1>k, <2>1, <2>2, <2>3, <3>1, <3>2, FreshKept
  <2>4. ASSUME NEW s \in Sessions, s = t, Fresh(s) PROVE Fresh(s)'
    <3>1. /\ Authored(s)' = Authored(s) /\ latest'[s] = c /\ c # None
          /\ UNCHANGED <<landed, undone, plan, created>>
      BY <1>t, <2>1, <2>4 DEF Authored, github
    <3>2. \A p \in Authored(s) : Seen(p, c)
      BY <2>1, <2>4 DEF Fresh, RunsSee
    <3>3. RunsSee(s)'
      BY <2>1, <2>2, <2>4, <3>1 DEF Fresh, RunsSee, Seen
    <3>4. RecordSees(s)'
      BY <3>1, <3>2 DEF RecordSees, Seen
    <3>5. Covers(s)'
      BY <3>1, <3>2 DEF Covers, Seen
    <3>6. QED
      BY <3>3, <3>4, <3>5 DEF Fresh, QuietSees
  <2>5. QED
    BY <2>1, <2>3, <2>4 DEF FreshInv
<1>6. ASSUME RefreshPromotes(r) \/ RefreshStops(r) PROVE FreshInv'
  <2>1. /\ UNCHANGED <<github, plan, handler, messages, latest, created>>
        /\ missed \subseteq missed'
        /\ refresh[r].pc = "promote" \/ refresh[r].session \in missed'
        /\ refresh'[r] = Resting /\ \A q \in Refreshers : q # r => refresh'[q] = refresh[q]
    BY <1>6, <1>f DEF RefreshPromotes, RefreshStops, analyses
  <2>2. ASSUME NEW s \in Sessions \ missed', RefreshDue(s) PROVE RefreshDue(s)'
    BY <2>1, <2>2 DEF RefreshDue
  <2>3. ASSUME NEW s \in Sessions \ missed', Fresh(s) PROVE Fresh(s)'
    <3>1. \A q \in Refreshers :
              refresh'[q].pc \in {"store", "save", "promote"} => refresh'[q] = refresh[q]
      BY <2>1 DEF Resting
    <3>2. QED
      BY <1>k, <2>1, <2>2, <2>3, <3>1, FreshKept
  <2>4. QED
    BY <2>1, <2>3 DEF FreshInv
<1>7. QED
  BY <1>1, <1>2, <1>3, <1>4, <1>5, <1>6 DEF RefreshStep

LEMMA FreshStep ==
    TypeInv /\ SentInv /\ ClockInv /\ FreshInv /\ [Next]_vars => FreshInv'
<1> SUFFICES ASSUME TypeInv, SentInv, ClockInv, FreshInv, [Next]_vars PROVE FreshInv'
  OBVIOUS
<1>1. ASSUME UNCHANGED <<github, plan, handler, refresh, analyses>>, missed \subseteq missed',
             \A s \in Sessions \ missed' : RefreshDue(s) => RefreshDue(s)'
      PROVE  FreshInv'
  <2>1. \A p \in Plans, c \in Commits : Seen(p, c) => Seen(p, c)'
    BY <1>1 DEF Seen, github
  <2>2. ASSUME NEW s \in Sessions \ missed', Fresh(s) PROVE Fresh(s)'
    BY <1>1, <2>1, <2>2, FreshKept DEF analyses
  <2>3. QED
    BY <1>1, <2>2 DEF FreshInv
<1>2. ASSUME NEW t \in Sessions, LoseMessage(t) PROVE FreshInv'
  <2>1. /\ UNCHANGED <<github, plan, handler, refresh, analyses>>
        /\ messages' = [messages EXCEPT ![t] = @ - 1] /\ missed' = missed \cup {t}
    BY <1>2 DEF LoseMessage
  <2>2. \A s \in Sessions \ missed' : messages'[s] = messages[s]
    BY <2>1 DEF TypeInv, TypeOK
  <2>3. \A s \in Sessions \ missed' : RefreshDue(s) => RefreshDue(s)'
    BY <2>1, <2>2 DEF RefreshDue
  <2>4. QED
    BY <1>1, <2>1, <2>3
<1>3. CASE UNCHANGED vars
  <2>1. \A s \in Sessions : RefreshDue(s) => RefreshDue(s)'
    BY <1>3 DEF vars, RefreshDue
  <2>2. QED
    BY <1>1, <1>3, <2>1 DEF vars
<1>4. QED
  BY <1>2, <1>3, FreshPeople, FreshHandler, FreshRecord, FreshRefresh DEF Next

(* When every authored pull request of a session has its outcome and no    *)
(* refresh is due, the session has an analysis that has seen every one of  *)
(* the outcomes, or something cost it a refresh: however many messages,    *)
(* workers, redeliveries and late outcomes there are, the answer           *)
(* "already_refreshed" is never given too early.                           *)
THEOREM CoveredTheorem == Spec => []CoveredUnlessMissed
<1>1. Spec => []SentInv
  BY SentInit, SentStep, TypeSpec, PTL DEF Spec
<1>2. Spec => []ClockInv
  BY ClockInit, ClockStep, TypeSpec, PTL DEF Spec
<1>3. Spec => []FreshInv
  BY FreshInit, FreshStep, TypeSpec, <1>1, <1>2, PTL DEF Spec
<1>4. FreshInv => CoveredUnlessMissed
  BY DEF FreshInv, Fresh, QuietSees, CoveredUnlessMissed
<1>5. QED
  BY <1>3, <1>4, PTL

-----------------------------------------------------------------------------
(* The history of a plan. *)

(* The copy that a worker holds may be old, but it was a history once.     *)
CopyInv ==
    \A h \in Handlers :
        handler[h].pc = "record" => Sublog(handler[h].event.plan, handler[h].history)

(* The end of a history is the newest outcome of the plan.                 *)
EndsWithNewest(p) ==
    LET q == plan[p].history IN
    \A i \in DOMAIN log : log[i].plan = p =>
        /\ Len(q) \in DOMAIN q
        /\ \E l \in DOMAIN log :
              i <= l /\ log[l] = [plan |-> p, outcome |-> q[Len(q)]]

(* What a step does to the rows, if it is not a transaction, and to the    *)
(* worker it is not a read of.                                             *)
LEMMA OnlyRecordWrites ==
    ASSUME TypeInv, [Next]_vars, \A h \in Handlers : ~Record(h)
    PROVE  /\ \A p \in Plans : plan'[p].history = plan[p].history
           /\ \A h \in Handlers : handler'[h].pc = "record" =>
                 \/ handler'[h] = handler[h]
                 \/ \E e \in Event : handler'[h].event = e /\ handler'[h].history = plan[e.plan].history
<1>t. plan \in [Plans -> Plan] /\ handler \in [Handlers -> Handling]
  BY DEF TypeInv, TypeOK
<1>1. CASE People
  <2>1. /\ UNCHANGED handler
        /\ (\E p \in Plans : RecordSuccess(p)) \/ UNCHANGED plan
    BY <1>1 DEF People, RecordSuccess, Remark, Merge, Close, Revert, Reopen, Redeliver, Sends
  <2>2. ASSUME NEW p \in Plans, RecordSuccess(p)
        PROVE  \A q \in Plans : plan'[q].history = plan[q].history
    BY <1>t, <2>2 DEF RecordSuccess, Plan
  <2>3. QED
    BY <2>1, <2>2
<1>2. ASSUME NEW h \in Handlers, NEW e \in Event, ReadPlan(h, e)
      PROVE  /\ UNCHANGED plan
             /\ handler'[h].event = e /\ handler'[h].history = plan[e.plan].history
             /\ \A g \in Handlers : g # h => handler'[g] = handler[g]
  BY <1>t, <1>2 DEF ReadPlan
<1>3. ASSUME NEW h \in Handlers,
             \/ \E e \in Event : IgnoreRevert(h, e)
             \/ RecordedBefore(h) \/ EnqueueRefresh(h)
             \/ EnqueueRaises(h) \/ HandlerCrash(h)
      PROVE  /\ UNCHANGED plan
             /\ UNCHANGED handler \/ handler' = [handler EXCEPT ![h] = Idle]
  BY <1>3 DEF IgnoreRevert, RecordedBefore, EnqueueRefresh, EnqueueRaises, HandlerCrash
<1>4. ASSUME NEW r \in Refreshers, RefreshStep(r) \/ RefreshStops(r)
      PROVE  UNCHANGED <<plan, handler>>
  BY <1>4 DEF RefreshStep, RefreshSkips, RefreshStarts, RefreshClones, RefreshStores,
              RefreshSaves, RefreshPromotes, RefreshStops
<1>5. ASSUME NEW s \in Sessions, LoseMessage(s) PROVE UNCHANGED <<plan, handler>>
  BY <1>5 DEF LoseMessage
<1>6. CASE UNCHANGED vars
  BY <1>6 DEF vars
<1>7. Idle.pc # "record"
  BY DEF Idle
<1>8. QED
  BY <1>t, <1>1, <1>2, <1>3, <1>4, <1>5, <1>6, <1>7 DEF Next, HandlerStep

LEMMA AppendIs ==
    ASSUME NEW S, NEW q \in Seq(S), NEW x \in S
    PROVE  /\ Len(q) \in Nat /\ DOMAIN q = 1 .. Len(q)
           /\ DOMAIN Append(q, x) = DOMAIN q \cup {Len(q) + 1}
           /\ \A i \in DOMAIN q : Append(q, x)[i] = q[i] /\ q[i] \in S
           /\ Append(q, x)[Len(q) + 1] = x
<1>1. /\ Len(q) \in Nat /\ DOMAIN q = 1 .. Len(q) /\ DOMAIN Append(q, x) = 1 .. Len(q) + 1
      /\ \A i \in 1 .. Len(q) : Append(q, x)[i] = q[i] /\ q[i] \in S
      /\ Append(q, x)[Len(q) + 1] = x
  OBVIOUS
<1>2. QED
  BY <1>1

(* What was recorded before stays where it is in the log, and an outcome   *)
(* that is recorded now was not in it.                                     *)
LEMMA SublogGrows ==
    ASSUME NEW e \in Event, log \in Seq(Event), log' = Append(log, e), ~AlreadyRecorded(e),
           NEW p \in Plans, NEW q \in Seq(Outcomes), Sublog(p, q)
    PROVE  /\ Sublog(p, q)'
           /\ \A j \in DOMAIN q : [plan |-> p, outcome |-> q[j]] # e
<1> DEFINE n == Len(log) + 1
<1>1. /\ Len(log) \in Nat /\ DOMAIN log = 1 .. Len(log) /\ DOMAIN log' = DOMAIN log \cup {n}
      /\ \A i \in DOMAIN log : log'[i] = log[i] /\ log'[n] = e
  BY AppendIs
<1>2. \A i \in DOMAIN log : log[i] # e
  BY DEF AlreadyRecorded
<1>3. ASSUME NEW j \in DOMAIN q
      PROVE  /\ [plan |-> p, outcome |-> q[j]] # e
             /\ \E i \in DOMAIN log : log[i] = [plan |-> p, outcome |-> q[j]]
  BY <1>2 DEF Sublog, AlreadyRecorded
<1>4. \A i \in DOMAIN log' : i \in DOMAIN log \/ log'[i] = e
  <2>1. log'[n] = e
    BY AppendIs
  <2>2. QED
    BY <1>1, <2>1
<1>5. \A j \in DOMAIN q : \E i \in DOMAIN log' : log'[i] = [plan |-> p, outcome |-> q[j]]
  BY <1>1, <1>3
<1>6. ASSUME NEW j \in DOMAIN q, NEW k \in DOMAIN q, NEW i \in DOMAIN log', NEW l \in DOMAIN log',
             j < k, log'[i] = [plan |-> p, outcome |-> q[j]],
             log'[l] = [plan |-> p, outcome |-> q[k]]
      PROVE  i < l
  <2>1. i \in DOMAIN log /\ l \in DOMAIN log
    BY <1>3, <1>4, <1>6
  <2>2. log[i] = [plan |-> p, outcome |-> q[j]] /\ log[l] = [plan |-> p, outcome |-> q[k]]
    BY <1>1, <1>6, <2>1
  <2>3. QED
    BY <1>6, <2>1, <2>2 DEF Sublog
<1>7. QED
  BY <1>3, <1>5, <1>6 DEF Sublog, AlreadyRecorded

(* So the copy with the new outcome at its end is a part of the new log.   *)
LEMMA SublogAppends ==
    ASSUME NEW e \in Event, log \in Seq(Event), log' = Append(log, e), ~AlreadyRecorded(e),
           NEW q \in Seq(Outcomes), Sublog(e.plan, q)
    PROVE  Sublog(e.plan, Append(q, e.outcome))'
<1> DEFINE p == e.plan
           n == Len(log) + 1
           m == Len(q) + 1
           new == Append(q, e.outcome)
<1>1. /\ p \in Plans /\ e.outcome \in Outcomes /\ e = [plan |-> p, outcome |-> e.outcome]
  BY DEF Event
<1>2. /\ Len(log) \in Nat /\ DOMAIN log = 1 .. Len(log) /\ DOMAIN log' = DOMAIN log \cup {n}
      /\ \A i \in DOMAIN log : log'[i] = log[i]
  BY AppendIs
<1>n. log'[n] = e
  BY AppendIs
<1>3. /\ Len(q) \in Nat /\ DOMAIN q = 1 .. Len(q) /\ DOMAIN new = DOMAIN q \cup {m}
      /\ \A j \in DOMAIN q : new[j] = q[j]
  BY <1>1, AppendIs
<1>m. new[m] = e.outcome
  BY <1>1, AppendIs
<1>4. /\ Sublog(p, q)'
      /\ \A j \in DOMAIN q : [plan |-> p, outcome |-> q[j]] # e
  BY <1>1, SublogGrows
<1>5. \A i \in DOMAIN log : log'[i] # e
  BY <1>2 DEF AlreadyRecorded
<1> HIDE DEF new, m, n, p
<1>6. ASSUME NEW j \in DOMAIN new
      PROVE  \E i \in DOMAIN log' : log'[i] = [plan |-> p, outcome |-> new[j]]
  <2>1. CASE j \in DOMAIN q
    BY <1>3, <1>4, <2>1 DEF Sublog, AlreadyRecorded
  <2>2. CASE j = m
    BY <1>1, <1>2, <1>n, <1>m, <2>2
  <2>3. QED
    BY <1>3, <2>1, <2>2
<1>7. ASSUME NEW j \in DOMAIN new, NEW k \in DOMAIN new,
             NEW i \in DOMAIN log', NEW l \in DOMAIN log',
             j < k, log'[i] = [plan |-> p, outcome |-> new[j]],
             log'[l] = [plan |-> p, outcome |-> new[k]]
      PROVE  i < l
  <2>1. j \in DOMAIN q
    BY <1>3, <1>7 DEF m
  <2>2. CASE k \in DOMAIN q
    <3>1. new[j] = q[j] /\ new[k] = q[k]
      BY <1>3, <2>1, <2>2
    <3>2. QED
      BY <1>4, <1>7, <2>1, <2>2, <3>1 DEF Sublog
  <2>3. CASE k = m
    <3>1. log'[l] = e /\ log'[i] # e
      BY <1>1, <1>3, <1>4, <1>m, <1>7, <2>1, <2>3
    <3>2. l = n /\ i \in DOMAIN log
      BY <1>2, <1>5, <1>n, <3>1
    <3>3. QED
      BY <1>2, <3>2 DEF n
  <2>4. QED
    BY <1>3, <2>2, <2>3
<1>8. Sublog(p, new)'
  BY <1>6, <1>7 DEF Sublog, AlreadyRecorded
<1>9. QED
  BY <1>8 DEF p, new

(* The log and the histories, when neither is written. *)
LEMMA SublogStays ==
    ASSUME log' = log, NEW p, NEW q, Sublog(p, q)
    PROVE  Sublog(p, q)'
BY DEF Sublog, AlreadyRecorded

HistoryInv == CopyInv /\ \A p \in Plans : Sublog(p, plan[p].history) /\ EndsWithNewest(p)

LEMMA HistoryRecord ==
    ASSUME TypeInv, HistoryInv, NEW h \in Handlers, Record(h)
    PROVE  HistoryInv'
<1>1. PICK e \in Event : e = handler[h].event
  BY DEF Record, TypeInv
<1>2. PICK copy \in Seq(Outcomes) : copy = handler[h].history
  BY DEF TypeInv, TypeOK, Handling
<1>3. /\ log \in Seq(Event) /\ log' = Append(log, e) /\ ~AlreadyRecorded(e)
      /\ plan \in [Plans -> Plan] /\ handler \in [Handlers -> Handling]
      /\ plan' = [plan EXCEPT ![e.plan] = Outcome(plan[e.plan], e, copy)]
      /\ e.plan \in Plans /\ e.outcome \in Outcomes
      /\ Sublog(e.plan, copy)
  BY <1>1, <1>2 DEF Record, TypeInv, TypeOK, HistoryInv, CopyInv, Event
<1>4. /\ plan'[e.plan].history = Append(copy, e.outcome)
      /\ \A p \in Plans : p # e.plan => plan'[p].history = plan[p].history
  BY <1>3 DEF Outcome, Plan
<1>5. /\ Len(log) \in Nat /\ DOMAIN log = 1 .. Len(log)
      /\ DOMAIN log' = DOMAIN log \cup {Len(log) + 1}
      /\ \A i \in DOMAIN log : log'[i] = log[i]
      /\ log'[Len(log) + 1] = e
  BY <1>3, AppendIs
<1>6. ASSUME NEW g \in Handlers, handler'[g].pc = "record"
      PROVE  Sublog(handler[g].event.plan, handler[g].history)' /\ handler'[g] = handler[g]
  <2>1. handler'[g] = handler[g]
    BY <1>3, <1>6 DEF Record, Idle, Handling
  <2>2. PICK p \in Plans, q \in Seq(Outcomes) :
            p = handler[g].event.plan /\ q = handler[g].history
    BY <1>3, <1>6, <2>1 DEF TypeInv, Event, Handling
  <2>3. Sublog(p, q)
    BY <1>6, <2>1, <2>2 DEF HistoryInv, CopyInv
  <2>4. Sublog(p, q)'
    BY <1>3, <2>3, SublogGrows
  <2>5. QED
    BY <2>1, <2>2, <2>4
<1>7. ASSUME NEW p \in Plans PROVE Sublog(p, plan[p].history)' /\ EndsWithNewest(p)'
  <2>1. CASE p = e.plan
    <3>1. PICK q : q = Append(copy, e.outcome)
      OBVIOUS
    <3>2. Sublog(p, q)'
      BY <1>3, <2>1, <3>1, SublogAppends
    <3>3. plan'[p].history = q
      BY <1>4, <2>1, <3>1
    <3>4. /\ Len(q) \in DOMAIN q /\ q[Len(q)] = e.outcome
      BY <1>3, <3>1
    <3>5. e = [plan |-> p, outcome |-> q[Len(q)]]
      BY <2>1, <3>4 DEF Event
    <3>6. EndsWithNewest(p)'
      BY <1>5, <3>3, <3>4, <3>5 DEF EndsWithNewest
    <3>7. QED
      BY <3>2, <3>3, <3>6
  <2>2. CASE p # e.plan
    <3>1. PICK q \in Seq(Outcomes) : q = plan[p].history
      BY <1>3 DEF Plan
    <3>2. Sublog(p, q) /\ EndsWithNewest(p)
      BY <3>1 DEF HistoryInv
    <3>3. Sublog(p, q)' /\ plan'[p].history = q
      BY <1>3, <1>4, <2>2, <3>1, <3>2, SublogGrows
    <3>4. EndsWithNewest(p)'
      BY <1>5, <2>2, <3>1, <3>2, <3>3 DEF EndsWithNewest
    <3>5. QED
      BY <3>3, <3>4
  <2>3. QED
    BY <2>1, <2>2
<1>8. QED
  BY <1>6, <1>7 DEF HistoryInv, CopyInv

(* Every other step leaves the log and the histories, and at most copies   *)
(* one of them.                                                            *)
LEMMA HistoryOther ==
    ASSUME TypeInv, HistoryInv, [Next]_vars, \A h \in Handlers : ~Record(h)
    PROVE  HistoryInv'
<1>1. log' = log /\ \A p \in Plans : plan'[p].history = plan[p].history
  BY OnlyRecordLogs, OnlyRecordWrites
<1>2. ASSUME NEW p \in Plans PROVE Sublog(p, plan[p].history)' /\ EndsWithNewest(p)'
  <2>1. PICK q : q = plan[p].history
    OBVIOUS
  <2>2. Sublog(p, q)' /\ plan'[p].history = q
    BY <1>1, <2>1, SublogStays DEF HistoryInv
  <2>3. EndsWithNewest(p)'
    BY <1>1 DEF HistoryInv, EndsWithNewest
  <2>4. QED
    BY <2>2, <2>3
<1>3. ASSUME NEW h \in Handlers, handler'[h].pc = "record"
      PROVE  Sublog(handler[h].event.plan, handler[h].history)'
  <2>1. PICK p, q : p = handler'[h].event.plan /\ q = handler'[h].history
    OBVIOUS
  <2>2. CASE handler'[h] = handler[h]
    BY <1>1, <1>3, <2>1, <2>2, SublogStays DEF HistoryInv, CopyInv
  <2>3. ASSUME NEW e \in Event, handler'[h].event = e,
               handler'[h].history = plan[e.plan].history
        PROVE  Sublog(p, q)'
    BY <1>1, <2>1, <2>3, SublogStays DEF HistoryInv, Event
  <2>4. QED
    BY <1>3, <2>1, <2>2, <2>3, OnlyRecordWrites
<1>4. QED
  BY <1>2, <1>3 DEF HistoryInv, CopyInv

(* Any number of workers may record outcomes of one plan from old copies   *)
(* of its history: they may drop outcomes that others recorded, as a run   *)
(* shows, but never repeat or reorder one, and the newest is never missing. *)
THEOREM HistoryTheorem == Spec => []HistoryFollowsLog
<1>1. Init => HistoryInv
  <2> SUFFICES ASSUME Init PROVE HistoryInv
    OBVIOUS
  <2>1. /\ DOMAIN log = {} /\ \A h \in Handlers : handler[h].pc = "idle"
        /\ \A p \in Plans : DOMAIN plan[p].history = {}
    BY DEF Init, Idle
  <2>2. QED
    BY <2>1 DEF HistoryInv, CopyInv, Sublog, EndsWithNewest
<1>2. TypeInv /\ HistoryInv /\ [Next]_vars => HistoryInv'
  BY HistoryRecord, HistoryOther
<1>3. HistoryInv => HistoryFollowsLog
  BY DEF HistoryInv, EndsWithNewest, HistoryFollowsLog
<1>4. QED
  BY <1>1, <1>2, <1>3, TypeSpec, PTL DEF Spec

=============================================================================
