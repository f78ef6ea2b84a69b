-------------------------- MODULE PushLedgerProofs --------------------------
(***************************************************************************)
(* WebhookDelivery implements PushLedger, whatever fails: AddCommits maps  *)
(* to Credit, the last save of a worker and a malformed payload to Settle, *)
(* the save after the trigger service raised to Return, a call of GitHub   *)
(* during an earlier one to Waive, and every other step, and every step    *)
(* about a delivery that is waived, is invisible in the ledger.            *)
(***************************************************************************)
EXTENDS WebhookDeliveryProofs

-----------------------------------------------------------------------------
(* The route. *)

Owed(d) == d \in Pushes /\ Commits[d] > 0 /\ d \notin credited

(* Where a worker is in its route tells whether the commits of its push    *)
(* are counted.                                                            *)
OnRoute(w) ==
    LET d == work[w].delivery IN
    /\ work[w].pc = "count" => d \in Pushes /\ Commits[d] > 0
    /\ work[w].pc \in Counting \cup {"commits"} => d \in credited
    /\ work[w].pc = "risky" => ~Owed(d)
    /\ work[w].pc \notin {"idle", "finish"} => work[w].result = "processed"
    /\ work[w].pc = "finish" /\ work[w].result = "processed" => ~Owed(d)
    /\ work[w].pc = "finish" /\ work[w].result = "ignored" => d \notin credited

RouteInv == \A w \in Workers : work[w].delivery \in InOrder => OnRoute(w)

LEMMA NoneIsNoDelivery == IdleWork.delivery \notin InOrder
BY ConstantAssumption DEF IdleWork, InOrder

LEMMA RouteInit == Init => RouteInv
BY NoneIsNoDelivery DEF Init, RouteInv

(* A worker that stays where it is keeps what is known of its route as     *)
(* long as nobody touches the count of its delivery.                       *)
LEMMA RouteStays ==
    ASSUME RouteInv, overlapped \subseteq overlapped',
           NEW v \in Workers, work'[v] = work[v], work[v].delivery \in InOrder',
           \/ work[v].pc = "idle"
           \/ counted'[work[v].delivery] = counted[work[v].delivery]
    PROVE  OnRoute(v)'
<1>1. work[v].delivery \in InOrder /\ OnRoute(v)
  BY DEF RouteInv, InOrder
<1>2. CASE work[v].pc = "idle"
  BY <1>2 DEF OnRoute, Counting
<1>3. CASE counted'[work[v].delivery] = counted[work[v].delivery]
  <2>1. work[v].delivery \in credited' <=> work[v].delivery \in credited
    BY <1>1, <1>3 DEF credited
  <2>2. QED
    BY <1>1, <2>1 DEF OnRoute, Owed
<1>4. QED
  BY <1>2, <1>3

(* Steps that count nothing and after which a worker is idle, where it     *)
(* was, or where it may be.                                                *)
LEMMA RouteKept ==
    ASSUME RouteInv, overlapped \subseteq overlapped', counted' = counted,
           \A w \in Workers : \/ work'[w] = work[w]
                              \/ work'[w] = IdleWork
                              \/ work'[w].delivery \in InOrder' => OnRoute(w)'
    PROVE  RouteInv'
<1>1. IdleWork.delivery \notin InOrder'
  BY ConstantAssumption DEF IdleWork, InOrder
<1>2. ASSUME NEW w \in Workers, work'[w] = work[w], work'[w].delivery \in InOrder'
      PROVE  OnRoute(w)'
  BY <1>2, RouteStays
<1>3. QED
  BY <1>1, <1>2 DEF RouteInv

(* The others, while a worker counts the commits of its delivery or gives  *)
(* it back: no other has that delivery.                                    *)
LEMMA OthersOnRoute ==
    ASSUME TypeInv, SerialInv, RouteInv, UNCHANGED overlapped,
           NEW w \in Workers, work[w].pc # "idle",
           \A e \in Deliveries : e # work[w].delivery => counted'[e] = counted[e],
           NEW v \in Workers, v # w, work'[v] = work[v], work[v].delivery \in InOrder'
    PROVE  OnRoute(v)'
<1>1. work[v].delivery \in InOrder /\ work[v].delivery \in Deliveries
  BY DEF InOrder
<1>2. work[v].pc = "idle" \/ work[v].delivery # work[w].delivery
  BY <1>1 DEF SerialInv, Serial, AtWorker, Processing
<1>3. QED
  BY <1>1, <1>2, RouteStays

(* A worker that goes on has one more fact about its push.                 *)
LEMMA RouteRoutes ==
    ASSUME TypeInv, SerialInv, CountInv, RouteInv, NEW w \in Workers, RouteStep(w)
    PROVE  RouteInv'
<1> DEFINE d == work[w].delivery
<1>t. /\ work \in [Workers -> Work] /\ counted \in [Deliveries -> Nat]
      /\ d \in Deliveries /\ work[w].pc # "idle" /\ Commits[d] \in Nat
      /\ work'[w].delivery = d /\ \A v \in Workers : v # w => work'[v] = work[v]
      /\ overlapped' = overlapped
  BY ConstantAssumption, RouteTypes DEF TypeInv, TypeOK
<1>i. InOrder' = InOrder
  BY <1>t DEF InOrder
<1>o. d \in InOrder => OnRoute(w)
  BY DEF RouteInv
<1>c. d \in InOrder /\ work[w].pc \in Uncounted => d \notin credited
  BY <1>t DEF CountInv, CountOne, Processing, credited
<1>1. CASE AddCommits(w)
  <2>1. /\ counted' = [counted EXCEPT ![d] = @ + 1]
        /\ work'[w] = [work[w] EXCEPT !.pc = "compare"] /\ work[w].pc = "count"
    BY <1>t, <1>1 DEF AddCommits, Goes
  <2>2. ASSUME d \in InOrder PROVE OnRoute(w)'
    <3>1. d \in credited'
      BY <1>t, <1>i, <2>1, <2>2 DEF credited
    <3>2. work'[w].pc = "compare" /\ work'[w].result = "processed"
      BY <1>t, <1>o, <2>1, <2>2 DEF OnRoute, Work
    <3>3. QED
      BY <1>t, <3>1, <3>2 DEF OnRoute, Counting
  <2>3. \A e \in Deliveries : e # d => counted'[e] = counted[e]
    BY <1>t, <2>1
  <2>4. ASSUME NEW v \in Workers, v # w, work'[v].delivery \in InOrder' PROVE OnRoute(v)'
    BY <1>t, <2>3, <2>4, OthersOnRoute
  <2>5. QED
    BY <1>t, <1>i, <2>2, <2>4 DEF RouteInv
<1>2. CASE ~AddCommits(w)
  <2>1. counted' = counted
    BY <1>2 DEF RouteStep, RouteIgnored, RouteOther, PushSession, CompareCommits,
                ResetCommits, CommitsSession, RiskySession, counts
  <2>2. credited' = credited
    BY <1>i, <2>1 DEF credited
  <2>3. CASE RouteIgnored(w)
    <3>1. work'[w] = [work[w] EXCEPT !.pc = "finish", !.result = "ignored"]
      BY <1>t, <2>3 DEF RouteIgnored
    <3>2. /\ work'[w].pc = "finish" /\ work'[w].result = "ignored"
          /\ d \in InOrder => d \notin credited
      BY <1>t, <1>c, <2>3, <3>1 DEF RouteIgnored, Work, Uncounted
    <3>3. d \in InOrder => OnRoute(w)'
      BY <1>t, <2>2, <3>2 DEF OnRoute, Counting
    <3>4. QED
      BY <1>t, <1>i, <2>1, <3>3, RouteKept
  <2>4. CASE ~RouteIgnored(w)
    <3>1. \/ /\ work[w].pc = "route" /\ d \notin Pushes /\ work'[w].pc = "finish"
          \/ /\ work[w].pc = "route" /\ d \in Pushes
             /\ work'[w].pc = IF Commits[d] = 0 THEN "risky" ELSE "count"
          \/ /\ work[w].pc \in Counting \cup {"commits"}
             /\ work'[w].pc \in {"reset", "risky", "commits"}
          \/ /\ work[w].pc = "risky" /\ work'[w].pc = "finish"
      BY <1>t, <1>2, <2>4
      DEF RouteStep, RouteOther, PushSession, CompareCommits, ResetCommits,
          CommitsSession, RiskySession, Goes, Work, Counting
    <3>2. work'[w].result = work[w].result
      BY <1>t, <1>2, <2>4
      DEF RouteStep, RouteOther, PushSession, CompareCommits, ResetCommits,
          CommitsSession, RiskySession, Goes, Work
    <3>3. d \in InOrder => OnRoute(w)'
      BY <1>t, <1>o, <2>2, <3>1, <3>2 DEF OnRoute, Owed, Counting
    <3>4. QED
      BY <1>t, <1>i, <2>1, <3>3, RouteKept
  <2>5. QED
    BY <2>3, <2>4
<1>3. QED
  BY <1>1, <1>2

LEMMA RouteInvStep ==
    ASSUME TypeInv, SerialInv, CountInv, RouteInv, [Next]_vars
    PROVE  RouteInv'
<1>t. work \in [Workers -> Work] /\ counted \in [Deliveries -> Nat]
  BY DEF TypeInv, TypeOK
<1>o. overlapped \subseteq overlapped'
  BY OverlapStays
<1>1. ASSUME NEW w \in Workers, NEW d \in Deliveries, Claim(w, d) PROVE RouteInv'
  <2>1. /\ counted' = counted /\ \A v \in Workers : v # w => work'[v] = work[v]
        /\ work'[w] = [IdleWork EXCEPT !.pc = "route", !.delivery = d]
    BY <1>t, <1>1 DEF Claim, counts
  <2>2. OnRoute(w)'
    BY <2>1 DEF OnRoute, IdleWork, Counting
  <2>3. QED
    BY <1>o, <2>1, <2>2, RouteKept
<1>2. ASSUME NEW w \in Workers, work[w].pc # "idle", Saves(w) \/ WorkerCrash(w)
      PROVE  RouteInv'
  <2>1. work' = [work EXCEPT ![w] = IdleWork] /\ overlapped' = overlapped
    BY <1>2 DEF Saves, Save, WorkerCrash, github
  <2>2. \A v \in Workers : v # w => work'[v] = work[v]
    BY <1>t, <2>1
  <2>3. \A e \in Deliveries : e # work[w].delivery => counted'[e] = counted[e]
    BY <1>t, <1>2 DEF Saves, WorkerCrash, counts
  <2>4. ASSUME NEW v \in Workers, work'[v].delivery \in InOrder' PROVE OnRoute(v)'
    <3>1. v # w
      BY <1>t, <2>1, <2>4, ConstantAssumption DEF IdleWork, InOrder
    <3>2. QED
      BY <1>2, <2>1, <2>2, <2>3, <2>4, <3>1, OthersOnRoute
  <2>5. QED
    BY <2>4 DEF RouteInv
<1>3. ASSUME UNCHANGED <<counted, work>> PROVE RouteInv'
  BY <1>o, <1>3, RouteKept
<1>4. ASSUME NEW w \in Workers, WorkerStep(w) PROVE RouteInv'
  BY <1>1, <1>2, <1>3, <1>4, WorkerKinds, RouteRoutes DEF Skip, counts
<1>5. ASSUME NEW h \in Handlers, HandlerStep(h) PROVE UNCHANGED <<counted, work>>
  BY <1>5 DEF HandlerStep, Ingest, SaveQueued, PublishEvent, PublishFails, HandlerCrash, counts
<1>6. ASSUME NEW d \in Deliveries, IngestInvalid(d) \/ LoseMessage(d)
      PROVE  UNCHANGED <<counted, work>>
  BY <1>6 DEF IngestInvalid, LoseMessage, counts
<1>7. CASE PromoteBaseline \/ UNCHANGED vars
  BY <1>3, <1>7 DEF PromoteBaseline, vars
<1>8. QED
  BY <1>3, <1>4, <1>5, <1>6, <1>7 DEF Next

-----------------------------------------------------------------------------
(* The steps of the ledger. *)

LEMMA LedgerInit == Init => Ledger!Init
<1> SUFFICES ASSUME Init PROVE Ledger!Init
  OBVIOUS
<1>1. /\ \A d \in Deliveries : counted[d] = 0 /\ event[d] = "absent"
      /\ overlapped = {}
  BY DEF Init
<1>2. credited = {}
  BY <1>1 DEF credited, InOrder
<1>3. outcome = [d \in Deliveries |-> None]
  BY <1>1 DEF outcome, Settled
<1>4. QED
  BY <1>1, <1>2, <1>3 DEF Ledger!Init

(* Nothing is counted and no event changes to or from an outcome, of the   *)
(* deliveries that are not waived.                                         *)
LEMMA Invisible ==
    ASSUME UNCHANGED overlapped,
           \A d \in InOrder :
               /\ counted'[d] = counted[d]
               /\ \/ event'[d] = event[d]
                  \/ event[d] \notin Settled /\ event'[d] \notin Settled
    PROVE  UNCHANGED <<credited, outcome, overlapped>>
<1>1. InOrder' = InOrder
  BY DEF InOrder
<1>2. credited' = credited
  BY <1>1 DEF credited
<1>3. outcome' = outcome
  BY <1>1 DEF outcome
<1>4. QED
  BY <1>2, <1>3

(* An event gets its outcome. *)
LEMMA SettleStep ==
    ASSUME TypeInv, NEW d \in Deliveries, NEW o \in Settled,
           d \in InOrder => /\ event[d] \notin Settled
                            /\ o = "processed" => ~Owed(d)
                            /\ o = "ignored" => d \notin credited,
           event' = [event EXCEPT ![d] = o], UNCHANGED <<counted, overlapped>>
    PROVE  [Ledger!Next]_<<credited, outcome, overlapped>>
<1>1. event \in [Deliveries -> Status] /\ InOrder' = InOrder
  BY DEF TypeInv, TypeOK, InOrder
<1>2. CASE d \in InOrder
  <2>1. outcome[d] = None /\ outcome' = [outcome EXCEPT ![d] = o]
    BY <1>1, <1>2 DEF outcome
  <2>2. credited' = credited /\ d \notin overlapped
    BY <1>1, <1>2 DEF credited, InOrder
  <2>3. Ledger!Settle(d, o)
    BY <1>2, <2>1, <2>2 DEF Ledger!Settle, Ledger!Open, Ledger!Owed, Owed
  <2>4. QED
    BY <2>3 DEF Ledger!Next, Settled
<1>3. CASE d \notin InOrder
  <2>1. \A e \in InOrder : event'[e] = event[e] /\ counted'[e] = counted[e]
    BY <1>1, <1>3 DEF InOrder
  <2>2. QED
    BY <2>1, Invisible
<1>4. QED
  BY <1>2, <1>3

(* The commits of a push are added, ... *)
LEMMA CreditStep ==
    ASSUME TypeInv, SerialInv, CountInv, RouteInv, NEW w \in Workers, AddCommits(w)
    PROVE  [Ledger!Next]_<<credited, outcome, overlapped>>
<1> DEFINE d == work[w].delivery
<1>1. /\ d \in Deliveries /\ Processing(w, d) /\ work[w].pc = "count"
      /\ counted \in [Deliveries -> Nat] /\ UNCHANGED <<event, overlapped>>
      /\ counted' = [counted EXCEPT ![d] = counted[d] + 1]
  BY DEF AddCommits, Goes, rows, github, TypeInv, TypeOK, Processing
<1>i. InOrder' = InOrder
  BY <1>1 DEF InOrder
<1>2. CASE d \in InOrder
  <2>1. event[d] = "processing"
    BY <1>1, <1>2 DEF SerialInv, Serial, AtWorker
  <2>2. d \notin credited
    BY <1>1, <1>2 DEF CountInv, CountOne, Uncounted, credited
  <2>3. d \in Pushes /\ Commits[d] > 0
    BY <1>1, <1>2 DEF RouteInv, OnRoute
  <2>4. outcome[d] = None /\ outcome' = outcome
    BY <1>1, <1>i, <2>1 DEF outcome, Settled
  <2>5. credited' = credited \cup {d}
    BY <1>1, <1>2, <1>i DEF credited
  <2>6. d \notin overlapped
    BY <1>2 DEF InOrder
  <2>7. Ledger!Credit(d)
    BY <1>1, <2>2, <2>3, <2>4, <2>5, <2>6 DEF Ledger!Credit, Ledger!Open, Ledger!Owed
  <2>8. QED
    BY <1>1, <2>7 DEF Ledger!Next
<1>3. CASE d \notin InOrder
  BY <1>1, <1>3, Invisible
<1>4. QED
  BY <1>2, <1>3

(* ... and owed again when the trigger service gives the event back.       *)
LEMMA ReturnStep ==
    ASSUME TypeInv, SerialInv, NEW w \in Workers, EnqueueRaises(w)
    PROVE  [Ledger!Next]_<<credited, outcome, overlapped>>
<1> DEFINE d == work[w].delivery
<1>1. /\ d \in Deliveries /\ Processing(w, d)
      /\ counted \in [Deliveries -> Nat] /\ event \in [Deliveries -> Status]
      /\ UNCHANGED overlapped
      /\ event' = [event EXCEPT ![d] = "received"]
      /\ counted' = [counted EXCEPT ![d] = 0]
  BY DEF EnqueueRaises, Enqueuing, Save, github, TypeInv, TypeOK, Processing
<1>i. InOrder' = InOrder
  BY <1>1 DEF InOrder
<1>2. CASE d \in InOrder
  <2>1. event[d] = "processing"
    BY <1>1, <1>2 DEF SerialInv, Serial, AtWorker
  <2>2. outcome[d] = None /\ outcome' = outcome
    BY <1>1, <1>i, <2>1 DEF outcome, Settled
  <2>3. credited' = credited \ {d}
    BY <1>1, <1>i DEF credited, InOrder
  <2>4. d \notin overlapped
    BY <1>2 DEF InOrder
  <2>5. Ledger!Return(d)
    BY <1>1, <2>2, <2>3, <2>4 DEF Ledger!Return, Ledger!Open
  <2>6. QED
    BY <1>1, <2>5 DEF Ledger!Next
<1>3. CASE d \notin InOrder
  <2>1. \A e \in InOrder : event'[e] = event[e] /\ counted'[e] = counted[e]
    BY <1>1, <1>3 DEF InOrder
  <2>2. QED
    BY <1>1, <2>1, Invisible
<1>4. QED
  BY <1>2, <1>3

(* GitHub calls for a delivery while an earlier call for it goes on: its   *)
(* event has no outcome yet, and no commits of it are counted.             *)
LEMMA WaiveStep ==
    ASSUME TypeInv, CountInv, NEW d \in Deliveries, event[d] \in {"absent", "received"},
           \A e \in Deliveries : e # d => event'[e] = event[e],
           UNCHANGED counted, overlapped' = overlapped \cup {d}
    PROVE  [Ledger!Next]_<<credited, outcome, overlapped>>
<1>i. InOrder' = InOrder \ {d}
  BY DEF InOrder
<1>1. CASE d \in InOrder
  <2>1. counted[d] = 0
    BY <1>1 DEF CountInv, CountOne, Settled
  <2>2. credited' = credited /\ d \notin credited
    BY <1>i, <2>1 DEF credited
  <2>3. outcome[d] = None /\ outcome' = outcome
    BY <1>i DEF outcome, Settled
  <2>4. d \notin overlapped
    BY <1>1 DEF InOrder
  <2>5. Ledger!Waive(d)
    BY <2>2, <2>3, <2>4 DEF Ledger!Waive, Ledger!Open
  <2>6. QED
    BY <2>5 DEF Ledger!Next
<1>2. CASE d \notin InOrder
  <2>1. overlapped' = overlapped
    BY <1>2 DEF InOrder
  <2>2. QED
    BY <1>2, <2>1, Invisible DEF InOrder
<1>3. QED
  BY <1>1, <1>2

LEMMA WorkerLedger ==
    ASSUME TypeInv, SerialInv, CountInv, RouteInv, NEW w \in Workers, WorkerStep(w)
    PROVE  [Ledger!Next]_<<credited, outcome, overlapped>>
<1>t. /\ event \in [Deliveries -> Status] /\ work[w] \in Work
      /\ work[w].pc # "idle" => work[w].delivery \in Deliveries
  BY DEF TypeInv, TypeOK
<1>1. ASSUME NEW d \in Deliveries, Claim(w, d) \/ Skip(w, d)
      PROVE  UNCHANGED <<credited, outcome, overlapped>>
  <2>1. UNCHANGED <<counted, overlapped>>
    BY <1>1 DEF Claim, Skip, counts, github
  <2>2. \A e \in Deliveries : \/ event'[e] = event[e]
                              \/ event[e] \notin Settled /\ event'[e] \notin Settled
    BY <1>t, <1>1 DEF Claim, Skip, Settled
  <2>3. QED
    BY <2>1, <2>2, Invisible DEF InOrder
<1>2. CASE RouteStep(w) /\ ~AddCommits(w)
  <2>1. UNCHANGED <<event, counted, overlapped>>
    BY <1>2 DEF RouteStep, RouteIgnored, RouteOther, PushSession, CompareCommits,
                ResetCommits, CommitsSession, RiskySession, Goes, rows, counts, github
  <2>2. QED
    BY <2>1, Invisible
<1>3. CASE AddCommits(w)
  BY <1>3, CreditStep
<1>4. ASSUME Finish(w) \/ RouteRaises(w)
      PROVE  [Ledger!Next]_<<credited, outcome, overlapped>>
  <2> DEFINE d == work[w].delivery
             o == IF Finish(w) THEN work[w].result ELSE "failed"
  <2>1. /\ work[w].pc # "idle" /\ d \in Deliveries
        /\ UNCHANGED <<counted, overlapped>> /\ event' = [event EXCEPT ![d] = o]
    BY <1>t, <1>4 DEF Finish, RouteRaises, Save, github
  <2>2. d \in InOrder => event[d] \notin Settled
    BY <2>1 DEF SerialInv, Serial, AtWorker, Processing, Settled
  <2>3. d \in InOrder => /\ o = "processed" => ~Owed(d)
                         /\ o = "ignored" => d \notin credited
    BY <1>t, <1>4 DEF RouteInv, OnRoute, Finish, Work
  <2>4. o \in Settled
    BY <1>t DEF Work, Settled
  <2> HIDE DEF o
  <2>5. QED
    BY <2>1, <2>2, <2>3, <2>4, SettleStep
<1>5. CASE WorkerCrash(w)
  BY <1>5, Invisible DEF WorkerCrash, rows, counts, github
<1>6. CASE EnqueueRaises(w)
  BY <1>6, ReturnStep
<1>7. QED
  BY <1>1, <1>2, <1>3, <1>4, <1>5, <1>6 DEF WorkerStep, RouteStep

LEMMA LedgerStep ==
    ASSUME TypeInv, SerialInv, CountInv, RouteInv, [Next]_vars
    PROVE  [Ledger!Next]_<<credited, outcome, overlapped>>
<1>t. event \in [Deliveries -> Status] /\ web \in [Handlers -> Call]
  BY DEF TypeInv, TypeOK
<1>s. \A d \in InOrder : event'[d] # event[d] => event[d] \notin Settled
  BY SerialStep DEF KeepsSettled
<1>1. ASSUME NEW h \in Handlers, HandlerStep(h)
      PROVE  [Ledger!Next]_<<credited, outcome, overlapped>>
  <2>1. UNCHANGED counted
    BY <1>1 DEF HandlerStep, Ingest, SaveQueued, PublishEvent, PublishFails, HandlerCrash,
                counts
  <2>2. \A d \in Deliveries : event'[d] \in {event[d], "received", "queued"}
    BY <1>t, <1>1 DEF HandlerStep, Ingest, SaveQueued, PublishEvent, PublishFails,
                      HandlerCrash
  <2>3. CASE UNCHANGED overlapped
    BY <1>s, <2>1, <2>2, <2>3, Invisible DEF Settled, InOrder
  <2>4. ASSUME NEW d \in Deliveries, Ingest(h, d), ~ UNCHANGED overlapped
        PROVE  [Ledger!Next]_<<credited, outcome, overlapped>>
    <3>1. /\ event[d] \in {"absent", "received"} /\ overlapped' = overlapped \cup {d}
          /\ \A e \in Deliveries : e # d => event'[e] = event[e]
      BY <1>t, <2>4 DEF Ingest, CallsAgain
    <3>2. QED
      BY <2>1, <3>1, WaiveStep
  <2>5. QED
    BY <1>1, <2>3, <2>4
    DEF HandlerStep, SaveQueued, PublishEvent, PublishFails, HandlerCrash, github
<1>2. ASSUME NEW d \in Deliveries, IngestInvalid(d)
      PROVE  [Ledger!Next]_<<credited, outcome, overlapped>>
  <2>1. /\ event[d] = "absent" /\ event' = [event EXCEPT ![d] = "failed"]
        /\ UNCHANGED counted
        /\ UNCHANGED overlapped \/ overlapped' = overlapped \cup {d}
    BY <1>2 DEF IngestInvalid, CallsAgain, counts
  <2>2. CASE UNCHANGED overlapped
    BY <2>1, <2>2, SettleStep DEF Settled
  <2>3. CASE overlapped' = overlapped \cup {d}
    BY <1>t, <2>1, <2>3, WaiveStep
  <2>4. QED
    BY <2>1, <2>2, <2>3
<1>3. ASSUME NEW d \in Deliveries, LoseMessage(d)
      PROVE  UNCHANGED <<credited, outcome, overlapped>>
  BY <1>3, Invisible DEF LoseMessage, counts, github
<1>4. CASE PromoteBaseline \/ UNCHANGED vars
  BY <1>4, Invisible DEF PromoteBaseline, rows, vars, github
<1>5. QED
  BY <1>1, <1>2, <1>3, <1>4, WorkerLedger DEF Next

(* Seen from outside the webhooks are the ledger: every delivery is        *)
(* settled once and for good, and the commits of a push are counted at     *)
(* most once, before it is processed, and never of an event that is        *)
(* ignored; only an event that the trigger service gave back is counted    *)
(* again, and a call during an earlier one harms its own delivery alone.   *)
THEOREM PushLedgerTheorem == Spec => ImplementsPushLedger
<1>1. TypeInv /\ SerialInv /\ CountInv /\ [Next]_vars => CountInv'
  BY CountStep
<1>2. TypeInv /\ SerialInv /\ CountInv /\ RouteInv /\ [Next]_vars
         => RouteInv' /\ [Ledger!Next]_<<credited, outcome, overlapped>>
  BY RouteInvStep, LedgerStep
<1>3. QED
  BY <1>1, <1>2, SerialAlways, LedgerInit, CountInit, RouteInit, PTL
  DEF Spec, ImplementsPushLedger, Ledger!Spec

=============================================================================
