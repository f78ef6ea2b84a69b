----------------------- MODULE WebhookDeliveryProofs -----------------------
(***************************************************************************)
(* What holds of WebhookDelivery for every set of deliveries, processes    *)
(* and workers, every threshold and every number of commits.               *)
(***************************************************************************)
EXTENDS WebhookDelivery, TLAPS

-----------------------------------------------------------------------------
(* Types. *)

(* A call that is under way is about a delivery. *)
TypeInv ==
    /\ TypeOK
    /\ \A h \in Handlers : web[h].pc # "idle" => web[h].delivery \in Deliveries
    /\ \A w \in Workers : work[w].pc # "idle" => work[w].delivery \in Deliveries

LEMMA IdleTypes == IdleCall \in Call /\ IdleWork \in Work
BY DEF IdleCall, Call, IdleWork, Work

LEMMA TypeInit == Init => TypeInv
BY ConstantAssumption, IdleTypes DEF Init, TypeInv, TypeOK, Status, IdleCall, IdleWork

(* A call of an endpoint or a worker may be replaced by a good one. *)
LEMMA CallType ==
    ASSUME TypeInv, NEW h \in Handlers, NEW c \in Call,
           c.pc # "idle" => c.delivery \in Deliveries, web' = [web EXCEPT ![h] = c]
    PROVE  /\ web' \in [Handlers -> Call]
           /\ \A g \in Handlers : web'[g].pc # "idle" => web'[g].delivery \in Deliveries
BY DEF TypeInv, TypeOK

LEMMA WorkType ==
    ASSUME TypeInv, NEW w \in Workers, NEW c \in Work,
           c.pc # "idle" => c.delivery \in Deliveries, work' = [work EXCEPT ![w] = c]
    PROVE  /\ work' \in [Workers -> Work]
           /\ \A v \in Workers : work'[v].pc # "idle" => work'[v].delivery \in Deliveries
BY DEF TypeInv, TypeOK

(* The steps of the endpoint. *)
LEMMA HandlerTypes ==
    ASSUME TypeInv, NEW h \in Handlers, HandlerStep(h)
    PROVE  TypeInv'
<1>t. /\ event \in [Deliveries -> Status] /\ queue \in [Deliveries -> Nat]
      /\ web \in [Handlers -> Call] /\ web[h] \in Call
      /\ calls \in [Deliveries -> 0..MaxCalls] /\ MaxCalls \in Nat
  BY ConstantAssumption DEF TypeInv, TypeOK
<1>1. ASSUME NEW d \in Deliveries, Ingest(h, d) PROVE TypeInv'
  <2>1. [pc |-> "save", delivery |-> d] \in Call
    BY DEF Call
  <2>2. event' \in [Deliveries -> Status]
    BY <1>t, <1>1 DEF Ingest, Status
  <2>3. calls' \in [Deliveries -> 0..MaxCalls]
    BY <1>t, <1>1 DEF Ingest, CallsAgain
  <2>4. web' = [web EXCEPT ![h] = [pc |-> "save", delivery |-> d]]
    BY <1>1 DEF Ingest
  <2>5. /\ web' \in [Handlers -> Call]
        /\ \A g \in Handlers : web'[g].pc # "idle" => web'[g].delivery \in Deliveries
    BY <2>1, <2>4, CallType
  <2>6. overlapped' \subseteq Deliveries
    BY <1>1 DEF Ingest, CallsAgain, TypeInv, TypeOK
  <2>7. QED
    BY <1>1, <2>2, <2>3, <2>5, <2>6 DEF Ingest, TypeInv, TypeOK, counts
<1>2. ASSUME SaveQueued(h) PROVE TypeInv'
  <2> DEFINE c == [web[h] EXCEPT !.pc = "publish"]
  <2>1. c \in Call /\ web[h].delivery \in Deliveries
    BY <1>t, <1>2 DEF SaveQueued, Call, TypeInv
  <2>2. web' = [web EXCEPT ![h] = c]
    BY <1>t, <1>2 DEF SaveQueued
  <2>3. c.delivery = web[h].delivery
    BY <1>t DEF Call
  <2>4. event' \in [Deliveries -> Status]
    BY <1>t, <1>2 DEF SaveQueued, Status
  <2> HIDE DEF c
  <2>5. /\ web' \in [Handlers -> Call]
        /\ \A g \in Handlers : web'[g].pc # "idle" => web'[g].delivery \in Deliveries
    BY <2>1, <2>2, <2>3, CallType
  <2>6. QED
    BY <1>2, <2>4, <2>5 DEF SaveQueued, TypeInv, TypeOK, counts, github
<1>3. ASSUME web' = [web EXCEPT ![h] = IdleCall],
             event' \in [Deliveries -> Status], queue' \in [Deliveries -> Nat],
             UNCHANGED <<work, github, counts>>
      PROVE  TypeInv'
  <2>1. /\ web' \in [Handlers -> Call]
        /\ \A g \in Handlers : web'[g].pc # "idle" => web'[g].delivery \in Deliveries
    BY <1>3, IdleTypes, CallType DEF IdleCall
  <2>2. QED
    BY <1>3, <2>1 DEF TypeInv, TypeOK, counts, github
<1>4. ASSUME PublishEvent(h) \/ PublishFails(h) \/ HandlerCrash(h) PROVE TypeInv'
  <2>1. event' \in [Deliveries -> Status]
    BY <1>t, <1>4 DEF PublishEvent, PublishFails, HandlerCrash, Status
  <2>2. queue' \in [Deliveries -> Nat]
    BY <1>t, <1>4 DEF PublishEvent, PublishFails, HandlerCrash
  <2>3. QED
    BY <1>3, <1>4, <2>1, <2>2 DEF PublishEvent, PublishFails, HandlerCrash
<1>5. QED
  BY <1>1, <1>2, <1>4 DEF HandlerStep

(* The steps of a worker that keep its event. *)
LEMMA RouteTypes ==
    ASSUME TypeInv, NEW w \in Workers, RouteStep(w)
    PROVE  /\ TypeInv' /\ UNCHANGED <<event, queue, web, calls, overlapped>>
           /\ work'[w].delivery = work[w].delivery
           /\ work[w].pc # "idle" /\ work'[w].pc # "idle"
           /\ \A v \in Workers : v # w => work'[v] = work[v]
<1>t. /\ work \in [Workers -> Work] /\ work[w] \in Work
      /\ tracker \in Nat
      /\ counted \in [Deliveries -> Nat]
  BY DEF TypeInv, TypeOK
<1>1. PICK c \in Work : /\ work' = [work EXCEPT ![w] = c]
                        /\ c.pc # "idle" /\ c.delivery = work[w].delivery
  <2>1. ASSUME NEW pc \in Uncounted \cup Counting \cup Counted, Goes(w, pc)
        PROVE  /\ [work[w] EXCEPT !.pc = pc] \in Work
               /\ work' = [work EXCEPT ![w] = [work[w] EXCEPT !.pc = pc]]
               /\ [work[w] EXCEPT !.pc = pc].pc # "idle"
               /\ [work[w] EXCEPT !.pc = pc].delivery = work[w].delivery
    BY <1>t, <2>1 DEF Goes, Work, Uncounted, Counting, Counted
  <2>2. \/ \E pc \in Uncounted \cup Counting \cup Counted : Goes(w, pc)
        \/ RouteIgnored(w)
    BY DEF RouteStep, RouteOther, PushSession, AddCommits, CompareCommits, ResetCommits,
           CommitsSession, RiskySession, Uncounted, Counting, Counted
  <2>3. CASE RouteIgnored(w)
    <3>1. [work[w] EXCEPT !.pc = "finish", !.result = "ignored"] \in Work
      BY <1>t DEF Work, Counted
    <3>2. work' = [work EXCEPT ![w] = [work[w] EXCEPT !.pc = "finish", !.result = "ignored"]]
      BY <1>t, <2>3 DEF RouteIgnored
    <3>3. QED
      BY <1>t, <3>1, <3>2 DEF Work
  <2>4. QED
    BY <2>1, <2>2, <2>3
<1>2. work[w].pc # "idle"
  BY DEF RouteStep, RouteIgnored, RouteOther, PushSession, AddCommits, CompareCommits,
         ResetCommits, CommitsSession, RiskySession
<1>3. work[w].delivery \in Deliveries /\ Commits[work[w].delivery] \in Nat
  BY <1>2, ConstantAssumption DEF TypeInv
<1>4. /\ work' \in [Workers -> Work]
      /\ \A v \in Workers : work'[v].pc # "idle" => work'[v].delivery \in Deliveries
  BY <1>1, <1>3, WorkType
<1>5. UNCHANGED <<event, queue, web, calls, overlapped>>
  BY DEF RouteStep, RouteIgnored, RouteOther, PushSession, AddCommits, CompareCommits,
         ResetCommits, CommitsSession, RiskySession, Goes, rows, github
<1>6. tracker' \in Nat
  BY <1>t, <1>3
  DEF RouteStep, RouteIgnored, RouteOther, PushSession, AddCommits, CompareCommits,
      ResetCommits, CommitsSession, RiskySession, Goes, counts
<1>7. counted' \in [Deliveries -> Nat]
  BY <1>t, <1>3
  DEF RouteStep, RouteIgnored, RouteOther, PushSession, AddCommits, CompareCommits,
      ResetCommits, CommitsSession, RiskySession, Goes, counts
<1>8. TypeInv'
  BY <1>4, <1>5, <1>6, <1>7 DEF TypeInv, TypeOK
<1>9. work'[w].delivery = work[w].delivery /\ work'[w].pc # "idle"
  BY <1>t, <1>1
<1>10. \A v \in Workers : v # w => work'[v] = work[v]
  BY <1>t, <1>1
<1>11. QED
  BY <1>2, <1>5, <1>8, <1>9, <1>10

(* The outcomes a worker saves. *)
Saves(w) ==
    \/ UNCHANGED counted /\ \E s \in Settled : Save(w, s)
    \/ counted' = [counted EXCEPT ![work[w].delivery] = 0] /\ Save(w, "received")

LEMMA SaveTypes ==
    ASSUME TypeInv, NEW w \in Workers, work[w].pc # "idle",
           Saves(w) \/ WorkerCrash(w)
    PROVE  TypeInv'
<1>1. work' = [work EXCEPT ![w] = IdleWork]
  BY DEF Saves, Save, WorkerCrash
<1>2. /\ work' \in [Workers -> Work]
      /\ \A v \in Workers : work'[v].pc # "idle" => work'[v].delivery \in Deliveries
  BY <1>1, IdleTypes, WorkType DEF IdleWork
<1>3. event' \in [Deliveries -> Status]
  BY DEF TypeInv, TypeOK, Saves, Save, WorkerCrash, Settled, Status, rows
<1>4. counted' \in [Deliveries -> Nat]
  BY DEF TypeInv, TypeOK, Saves, WorkerCrash, counts
<1>5. UNCHANGED <<queue, web, calls, overlapped, tracker>>
  BY DEF Saves, Save, WorkerCrash, rows, counts, github
<1>6. QED
  BY <1>2, <1>3, <1>4, <1>5 DEF TypeInv, TypeOK

(* What a worker does: it takes a message, goes on in its route, or ends.  *)
LEMMA WorkerKinds ==
    ASSUME TypeInv, NEW w \in Workers, WorkerStep(w)
    PROVE  \/ \E d \in Deliveries : Claim(w, d) \/ Skip(w, d)
           \/ RouteStep(w)
           \/ work[w].pc # "idle" /\ (Saves(w) \/ WorkerCrash(w))
<1>1. CASE Finish(w)
  <2>1. work[w].result \in Settled
    BY DEF TypeInv, TypeOK, Work, Settled
  <2>2. QED
    BY <1>1, <2>1 DEF Finish, Saves
<1>2. CASE EnqueueRaises(w)
  BY <1>2 DEF EnqueueRaises, Enqueuing, Saves
<1>3. CASE RouteRaises(w)
  BY <1>3 DEF RouteRaises, Saves, Settled
<1>4. QED
  BY <1>1, <1>2, <1>3 DEF WorkerStep, WorkerCrash

LEMMA TypeStep == TypeInv /\ [Next]_vars => TypeInv'
<1> SUFFICES ASSUME TypeInv, [Next]_vars PROVE TypeInv'
  OBVIOUS
<1>t. /\ event \in [Deliveries -> Status] /\ queue \in [Deliveries -> Nat]
      /\ calls \in [Deliveries -> 0..MaxCalls] /\ MaxCalls \in Nat
  BY ConstantAssumption DEF TypeInv, TypeOK
<1>1. ASSUME NEW h \in Handlers, HandlerStep(h) PROVE TypeInv'
  BY <1>1, HandlerTypes
<1>2. ASSUME NEW d \in Deliveries, IngestInvalid(d) PROVE TypeInv'
  <2>1. event' \in [Deliveries -> Status]
    BY <1>t, <1>2 DEF IngestInvalid, Status, Settled
  <2>2. calls' \in [Deliveries -> 0..MaxCalls]
    BY <1>t, <1>2 DEF IngestInvalid, CallsAgain
  <2>3. QED
    BY <1>2, <2>1, <2>2 DEF IngestInvalid, CallsAgain, TypeInv, TypeOK, counts
<1>3. ASSUME NEW d \in Deliveries, LoseMessage(d) PROVE TypeInv'
  <2>1. queue' \in [Deliveries -> Nat]
    BY <1>t, <1>3 DEF LoseMessage
  <2>2. QED
    BY <1>3, <2>1 DEF LoseMessage, TypeInv, TypeOK, counts, github
<1>4. ASSUME NEW w \in Workers, WorkerStep(w) PROVE TypeInv'
  <2>1. ASSUME NEW d \in Deliveries, Claim(w, d) PROVE TypeInv'
    <3>1. queue' \in [Deliveries -> Nat] /\ event' \in [Deliveries -> Status]
      BY <1>t, <2>1 DEF Claim, Takes, Status
    <3>2. /\ [IdleWork EXCEPT !.pc = "route", !.delivery = d] \in Work
          /\ [IdleWork EXCEPT !.pc = "route", !.delivery = d].delivery = d
      BY DEF IdleWork, Work, Uncounted
    <3>3. work' = [work EXCEPT ![w] = [IdleWork EXCEPT !.pc = "route", !.delivery = d]]
      BY <2>1 DEF Claim
    <3>4. /\ work' \in [Workers -> Work]
          /\ \A v \in Workers : work'[v].pc # "idle" => work'[v].delivery \in Deliveries
      BY <3>2, <3>3, WorkType
    <3>5. QED
      BY <2>1, <3>1, <3>4 DEF Claim, TypeInv, TypeOK, counts, github
  <2>2. ASSUME NEW d \in Deliveries, Skip(w, d) PROVE TypeInv'
    <3>1. queue' \in [Deliveries -> Nat]
      BY <1>t, <2>2 DEF Skip, Takes
    <3>2. QED
      BY <2>2, <3>1 DEF Skip, TypeInv, TypeOK, counts, github
  <2>3. QED
    BY <1>4, <2>1, <2>2, WorkerKinds, RouteTypes, SaveTypes
<1>5. CASE PromoteBaseline
  BY <1>5 DEF PromoteBaseline, TypeInv, TypeOK, rows, github
<1>6. CASE UNCHANGED vars
  BY <1>6 DEF vars, TypeInv, TypeOK
<1>7. QED
  BY <1>1, <1>2, <1>3, <1>4, <1>5, <1>6 DEF Next

(* Every row, call and counter keeps its type. *)
THEOREM TypeCorrect == Spec => []TypeOK
<1>1. TypeInv => TypeOK
  BY DEF TypeInv
<1>2. QED
  BY <1>1, TypeInit, TypeStep, PTL DEF Spec

-----------------------------------------------------------------------------
(* One call at a time: a delivery that GitHub did not call again before    *)
(* its earlier call had ended.                                             *)

(* A delivery is with one call of the endpoint, in the queue, or with one  *)
(* worker, never with two of them; its status tells with which.            *)
AtWeb(d) ==
    /\ \A h, g \in Handlers : Handling(h, d) /\ Handling(g, d) => h = g
    /\ \A h \in Handlers : Handling(h, d) =>
          /\ queue[d] = 0
          /\ web[h].pc = "save" => event[d] = "received"
          /\ web[h].pc = "publish" => event[d] = "queued"
InQueue(d) ==
    /\ queue[d] \in {0, 1}
    /\ queue[d] = 1 => event[d] = "queued"
AtWorker(d) ==
    /\ \A w \in Workers : Processing(w, d) => event[d] = "processing"
    /\ \A v, w \in Workers : Processing(v, d) /\ Processing(w, d) => v = w
Serial(d) == AtWeb(d) /\ InQueue(d) /\ AtWorker(d)
SerialInv == \A d \in InOrder : Serial(d)

(* No step starts a settled event of these again. *)
KeepsSettled == \A d \in InOrder : event'[d] # event[d] => event[d] \notin Settled

LEMMA SerialInit == Init => SerialInv
<1> SUFFICES ASSUME Init, NEW d \in Deliveries PROVE Serial(d)
  BY DEF SerialInv, InOrder
<1>1. /\ \A h \in Handlers : ~ Handling(h, d)
      /\ \A w \in Workers : ~ Processing(w, d)
  BY DEF Init, Handling, Processing, IdleCall, IdleWork
<1>2. queue[d] = 0
  BY DEF Init
<1>3. QED
  BY <1>1, <1>2 DEF Serial, AtWeb, InQueue, AtWorker

(* A step with another delivery leaves this one as it is. *)
LEMMA SerialKept ==
    ASSUME NEW e, Serial(e), event'[e] = event[e], queue'[e] = queue[e],
           \A h \in Handlers : Handling(h, e)' => Handling(h, e) /\ web'[h] = web[h],
           \A w \in Workers : Processing(w, e)' => Processing(w, e)
    PROVE  Serial(e)'
<1>1. AtWeb(e)'
  BY DEF Serial, AtWeb
<1>2. InQueue(e)' /\ AtWorker(e)'
  BY DEF Serial, InQueue, AtWorker
<1>3. QED
  BY <1>1, <1>2 DEF Serial

(* Who overlapped stays so. *)
LEMMA OverlapStays ==
    ASSUME TypeInv, [Next]_vars
    PROVE  overlapped \subseteq overlapped'
<1>1. ASSUME NEW h \in Handlers, HandlerStep(h) PROVE overlapped \subseteq overlapped'
  BY <1>1 DEF HandlerStep, Ingest, CallsAgain, SaveQueued, PublishEvent, PublishFails,
              HandlerCrash, github
<1>2. ASSUME NEW w \in Workers, WorkerStep(w) PROVE overlapped' = overlapped
  BY <1>2, WorkerKinds, RouteTypes DEF Claim, Skip, Saves, Save, WorkerCrash, github
<1>3. ASSUME NEW d \in Deliveries, IngestInvalid(d) \/ LoseMessage(d)
      PROVE  overlapped \subseteq overlapped'
  BY <1>3 DEF IngestInvalid, CallsAgain, LoseMessage, github
<1>4. QED
  BY <1>1, <1>2, <1>3 DEF Next, PromoteBaseline, vars, github

(* The steps of the endpoint: a call may begin only where there is none,   *)
(* and goes on with the delivery it has.                                   *)
LEMMA SerialHandler ==
    ASSUME TypeInv, SerialInv, NEW h \in Handlers, HandlerStep(h)
    PROVE  SerialInv' /\ KeepsSettled
<1>t. /\ event \in [Deliveries -> Status] /\ queue \in [Deliveries -> Nat]
      /\ web \in [Handlers -> Call] /\ web[h] \in Call
      /\ web[h].pc # "idle" => web[h].delivery \in Deliveries
  BY DEF TypeInv, TypeOK
<1>w. \A v \in Workers, e \in Deliveries : Processing(v, e)' = Processing(v, e)
  BY DEF HandlerStep, Ingest, SaveQueued, PublishEvent, PublishFails, HandlerCrash, Processing
<1>g. \A g \in Handlers : g # h => web'[g] = web[g]
  BY <1>t DEF HandlerStep, Ingest, SaveQueued, PublishEvent, PublishFails, HandlerCrash
<1>o. overlapped \subseteq overlapped'
  BY OverlapStays DEF Next
<1>s. \A e \in InOrder : Serial(e) /\ AtWeb(e) /\ InQueue(e) /\ AtWorker(e)
  BY DEF SerialInv, Serial
<1>k. ASSUME NEW d \in Deliveries,
             \A e \in Deliveries : e # d => event'[e] = event[e] /\ queue'[e] = queue[e],
             web'[h].pc # "idle" => web'[h].delivery = d,
             d \in InOrder' => Serial(d)',
             d \in InOrder => (event'[d] # event[d] => event[d] \notin Settled)
      PROVE  SerialInv' /\ KeepsSettled
  <2>1. ASSUME NEW e \in InOrder', e # d PROVE Serial(e)'
    <3>1. e \in Deliveries /\ e \in InOrder
      BY <1>o, <2>1 DEF InOrder
    <3>2. \A g \in Handlers : Handling(g, e)' => Handling(g, e) /\ web'[g] = web[g]
      BY <1>g, <1>k, <2>1 DEF Handling
    <3>3. QED
      BY <1>k, <1>s, <1>w, <2>1, <3>1, <3>2, SerialKept
  <2>2. SerialInv'
    BY <1>k, <2>1 DEF SerialInv
  <2>3. KeepsSettled
    BY <1>k DEF KeepsSettled, InOrder
  <2>4. QED
    BY <2>2, <2>3
<1>1. ASSUME NEW d \in Deliveries, Ingest(h, d) PROVE SerialInv' /\ KeepsSettled
  <2>1. /\ event' = [event EXCEPT ![d] = "received"] /\ event[d] \in {"absent", "received"}
        /\ UNCHANGED queue /\ web'[h] = [pc |-> "save", delivery |-> d]
    BY <1>t, <1>1 DEF Ingest
  <2>2. ASSUME d \in InOrder' PROVE Serial(d)'
    <3>1. d \in InOrder /\ \A g \in Handlers : ~ Handling(g, d)
      BY <1>1, <2>2 DEF Ingest, CallsAgain, InOrder
    <3>2. queue[d] = 0 /\ \A w \in Workers : ~ Processing(w, d)
      BY <1>s, <2>1, <3>1 DEF InQueue, AtWorker
    <3>3. AtWeb(d)'
      BY <1>t, <1>g, <2>1, <3>1, <3>2 DEF AtWeb, Handling
    <3>4. InQueue(d)' /\ AtWorker(d)'
      BY <1>w, <2>1, <3>2 DEF InQueue, AtWorker
    <3>5. QED
      BY <3>3, <3>4 DEF Serial
  <2>3. event[d] \notin Settled
    BY <2>1 DEF Settled
  <2>4. \A e \in Deliveries : e # d => event'[e] = event[e] /\ queue'[e] = queue[e]
    BY <1>t, <2>1
  <2>5. QED
    BY <1>k, <2>1, <2>2, <2>3, <2>4
<1>2. CASE SaveQueued(h)
  <2>1. PICK d \in Deliveries : d = web[h].delivery
    BY <1>t, <1>2 DEF SaveQueued
  <2>2. /\ event' = [event EXCEPT ![d] = "queued"] /\ UNCHANGED queue
        /\ Handling(h, d) /\ web[h].pc = "save"
        /\ web'[h].pc = "publish" /\ web'[h].delivery = d
        /\ overlapped' = overlapped
    BY <1>t, <1>2, <2>1 DEF SaveQueued, Handling, Call, github
  <2>3. ASSUME d \in InOrder
        PROVE  /\ event[d] = "received" /\ queue[d] = 0
               /\ \A w \in Workers : ~ Processing(w, d)
               /\ \A g \in Handlers : Handling(g, d) => g = h
    BY <1>s, <2>2, <2>3 DEF AtWeb, AtWorker
  <2>4. ASSUME d \in InOrder' PROVE Serial(d)'
    <3>1. d \in InOrder
      BY <2>2, <2>4 DEF InOrder
    <3>2. AtWeb(d)'
      BY <1>t, <1>g, <2>2, <2>3, <3>1 DEF AtWeb, Handling
    <3>3. InQueue(d)' /\ AtWorker(d)'
      BY <1>t, <1>w, <2>2, <2>3, <3>1 DEF InQueue, AtWorker
    <3>4. QED
      BY <3>2, <3>3 DEF Serial
  <2>5. d \in InOrder => event[d] \notin Settled
    BY <2>3 DEF Settled
  <2>6. \A e \in Deliveries : e # d => event'[e] = event[e] /\ queue'[e] = queue[e]
    BY <1>t, <2>2
  <2>7. QED
    BY <1>k, <2>2, <2>4, <2>5, <2>6
<1>3. CASE PublishEvent(h) \/ PublishFails(h) \/ HandlerCrash(h)
  <2>1. PICK d \in Deliveries : d = web[h].delivery
    BY <1>t, <1>3 DEF PublishEvent, PublishFails, HandlerCrash
  <2>2. /\ Handling(h, d) /\ web'[h].pc = "idle" /\ overlapped' = overlapped
        /\ \/ UNCHANGED event
           \/ event' = [event EXCEPT ![d] = "received"] /\ web[h].pc = "publish"
              /\ UNCHANGED queue
        /\ \/ UNCHANGED queue
           \/ queue' = [queue EXCEPT ![d] = queue[d] + 1] /\ web[h].pc = "publish"
    BY <1>t, <1>3, <2>1 DEF PublishEvent, PublishFails, HandlerCrash, Handling, IdleCall, github
  <2>3. ASSUME d \in InOrder
        PROVE  /\ web[h].pc = "publish" => event[d] = "queued"
               /\ queue[d] = 0
               /\ event[d] # "processing" => \A w \in Workers : ~ Processing(w, d)
               /\ \A g \in Handlers : Handling(g, d) => g = h
               /\ AtWorker(d)
    BY <1>s, <2>2, <2>3 DEF AtWeb, AtWorker
  <2>4. ASSUME d \in InOrder' PROVE Serial(d)'
    <3>1. d \in InOrder
      BY <2>2, <2>4 DEF InOrder
    <3>2. \A g \in Handlers : ~ Handling(g, d)'
      BY <1>g, <2>2, <2>3, <3>1 DEF Handling
    <3>3. AtWeb(d)'
      BY <3>2 DEF AtWeb
    <3>4. InQueue(d)'
      BY <1>t, <2>2, <2>3, <3>1 DEF InQueue
    <3>5. AtWorker(d)'
      BY <1>t, <1>w, <2>2, <2>3, <3>1 DEF AtWorker
    <3>6. QED
      BY <3>3, <3>4, <3>5 DEF Serial
  <2>5. d \in InOrder => (event'[d] # event[d] => event[d] \notin Settled)
    BY <2>2, <2>3 DEF Settled
  <2>6. \A e \in Deliveries : e # d => event'[e] = event[e] /\ queue'[e] = queue[e]
    BY <1>t, <2>2
  <2>7. QED
    BY <1>k, <2>2, <2>4, <2>5, <2>6
<1>4. QED
  BY <1>1, <1>2, <1>3 DEF HandlerStep

(* The steps of a worker: a message it takes makes the event its own.      *)
LEMMA SerialWorker ==
    ASSUME TypeInv, SerialInv, NEW w \in Workers, WorkerStep(w)
    PROVE  SerialInv' /\ KeepsSettled
<1>t. /\ event \in [Deliveries -> Status] /\ queue \in [Deliveries -> Nat]
      /\ work \in [Workers -> Work]
      /\ work[w].pc # "idle" => work[w].delivery \in Deliveries
      /\ \A h \in Handlers : web[h].pc \in {"idle", "save", "publish"}
  BY DEF TypeInv, TypeOK, Call
<1>s. \A e \in InOrder : Serial(e) /\ AtWeb(e) /\ InQueue(e) /\ AtWorker(e)
  BY DEF SerialInv, Serial
<1>o. overlapped' = overlapped /\ UNCHANGED web
  BY WorkerKinds, RouteTypes DEF Claim, Skip, Saves, Save, WorkerCrash, github
<1>i. InOrder' = InOrder
  BY <1>o DEF InOrder
<1>h. \A h \in Handlers, e \in Deliveries : Handling(h, e)' = Handling(h, e)
  BY <1>o DEF Handling
<1>k. ASSUME NEW d \in Deliveries,
             \A e \in Deliveries : e # d => event'[e] = event[e] /\ queue'[e] = queue[e],
             \A v \in Workers, e \in Deliveries : e # d /\ Processing(v, e)' => Processing(v, e),
             d \in InOrder => Serial(d)' /\ (event'[d] # event[d] => event[d] \notin Settled)
      PROVE  SerialInv' /\ KeepsSettled
  <2>1. ASSUME NEW e \in InOrder, e # d PROVE Serial(e)'
    <3>1. e \in Deliveries
      BY DEF InOrder
    <3>2. QED
      BY <1>h, <1>k, <1>o, <1>s, <2>1, <3>1, SerialKept
  <2>2. SerialInv'
    BY <1>i, <1>k, <2>1 DEF SerialInv
  <2>3. KeepsSettled
    BY <1>k DEF KeepsSettled, InOrder
  <2>4. QED
    BY <2>2, <2>3
<1>1. ASSUME NEW d \in Deliveries, Claim(w, d) \/ Skip(w, d)
      PROVE  SerialInv' /\ KeepsSettled
  <2>1. /\ \A e \in Deliveries : e # d => event'[e] = event[e] /\ queue'[e] = queue[e]
        /\ \A v \in Workers, e \in Deliveries : e # d /\ Processing(v, e)' => Processing(v, e)
    BY <1>t, <1>1 DEF Claim, Skip, Takes, Processing, IdleWork
  <2>2. ASSUME d \in InOrder
        PROVE  Serial(d)' /\ (event'[d] # event[d] => event[d] \notin Settled)
    <3>1. queue[d] = 1 /\ event[d] = "queued"
      BY <1>t, <1>s, <1>1, <2>2 DEF Claim, Skip, Takes, InQueue
    <3>2. (\A v \in Workers : ~ Processing(v, d)) /\ (\A h \in Handlers : ~ Handling(h, d))
      BY <1>s, <2>2, <3>1 DEF AtWeb, AtWorker
    <3>3. ~ Skip(w, d)
      BY <3>1 DEF Skip, Settled
    <3>4. /\ event'[d] = "processing" /\ queue'[d] = 0
          /\ \A v \in Workers : v # w => work'[v] = work[v]
      BY <1>t, <1>1, <3>1, <3>3 DEF Claim, Takes
    <3>5. AtWeb(d)' /\ InQueue(d)'
      BY <1>h, <3>2, <3>4 DEF AtWeb, InQueue
    <3>6. AtWorker(d)'
      BY <3>2, <3>4 DEF AtWorker, Processing
    <3>7. QED
      BY <3>1, <3>5, <3>6 DEF Serial, Settled
  <2>3. QED
    BY <1>k, <2>1, <2>2
<1>2. CASE RouteStep(w)
  <2>1. /\ UNCHANGED <<event, queue, web>>
        /\ \A v \in Workers, e \in Deliveries : Processing(v, e)' = Processing(v, e)
    BY <1>2, RouteTypes DEF Processing
  <2>2. \A e \in InOrder : Serial(e)'
    BY <1>h, <1>s, <2>1, SerialKept DEF InOrder
  <2>3. QED
    BY <1>i, <2>1, <2>2 DEF SerialInv, KeepsSettled
<1>3. CASE work[w].pc # "idle" /\ (Saves(w) \/ WorkerCrash(w))
  <2>1. PICK d \in Deliveries : d = work[w].delivery
    BY <1>t, <1>3
  <2>2. /\ UNCHANGED <<queue, web>>
        /\ \E s \in Status : event' = [event EXCEPT ![d] = s]
        /\ work' = [work EXCEPT ![w] = IdleWork]
    BY <1>t, <1>3, <2>1 DEF Saves, Save, WorkerCrash, rows, Settled, Status
  <2>3. \A v \in Workers, e \in Deliveries : Processing(v, e)' => Processing(v, e) /\ v # w
    BY <1>t, <2>2 DEF Processing, IdleWork
  <2>4. \A e \in Deliveries : e # d => event'[e] = event[e] /\ queue'[e] = queue[e]
    BY <1>t, <2>2
  <2>5. ASSUME d \in InOrder
        PROVE  Serial(d)' /\ (event'[d] # event[d] => event[d] \notin Settled)
    <3>1. Processing(w, d) /\ event[d] = "processing"
      BY <1>s, <1>3, <2>1, <2>5 DEF AtWorker, Processing
    <3>2. queue[d] = 0 /\ (\A v \in Workers : Processing(v, d) => v = w)
      BY <1>s, <2>5, <3>1 DEF InQueue, AtWorker
    <3>3. \A h \in Handlers : ~ Handling(h, d)
      BY <1>t, <1>s, <2>5, <3>1 DEF AtWeb, Handling
    <3>4. AtWeb(d)' /\ InQueue(d)' /\ AtWorker(d)'
      BY <1>h, <2>2, <2>3, <3>2, <3>3 DEF AtWeb, InQueue, AtWorker
    <3>5. QED
      BY <3>1, <3>4 DEF Serial, Settled
  <2>6. QED
    BY <1>k, <2>3, <2>4, <2>5
<1>4. QED
  BY <1>1, <1>2, <1>3, WorkerKinds

LEMMA SerialStep ==
    ASSUME TypeInv, SerialInv, [Next]_vars
    PROVE  SerialInv' /\ KeepsSettled
<1>t. /\ event \in [Deliveries -> Status] /\ queue \in [Deliveries -> Nat]
  BY DEF TypeInv, TypeOK
<1>o. overlapped \subseteq overlapped'
  BY OverlapStays
<1>s. \A e \in InOrder : Serial(e) /\ AtWeb(e) /\ InQueue(e) /\ AtWorker(e)
  BY DEF SerialInv, Serial
<1>k. ASSUME UNCHANGED <<web, work>>
      PROVE  /\ \A h \in Handlers, e \in Deliveries : Handling(h, e)' = Handling(h, e)
             /\ \A w \in Workers, e \in Deliveries : Processing(w, e)' = Processing(w, e)
  BY <1>k DEF Handling, Processing
<1>1. ASSUME NEW d \in Deliveries, IngestInvalid(d) PROVE SerialInv' /\ KeepsSettled
  <2>1. /\ event' = [event EXCEPT ![d] = "failed"] /\ event[d] = "absent"
        /\ UNCHANGED <<queue, web, work>>
    BY <1>1 DEF IngestInvalid
  <2>2. ASSUME NEW e \in InOrder' PROVE Serial(e)'
    <3>1. e \in InOrder /\ e \in Deliveries
      BY <1>o DEF InOrder
    <3>2. CASE e = d
      <4>1. \A h \in Handlers : ~ Handling(h, d)
        BY <1>1, <2>2, <3>2 DEF IngestInvalid, CallsAgain, InOrder
      <4>2. queue[d] # 1 /\ \A w \in Workers : ~ Processing(w, d)
        BY <1>s, <2>1, <3>1, <3>2 DEF InQueue, AtWorker
      <4>3. QED
        BY <1>s, <1>k, <2>1, <3>1, <3>2, <4>1, <4>2 DEF Serial, AtWeb, InQueue, AtWorker
    <3>3. CASE e # d
      BY <1>t, <1>s, <1>k, <2>1, <3>1, <3>3, SerialKept
    <3>4. QED
      BY <3>2, <3>3
  <2>3. KeepsSettled
    BY <1>t, <2>1 DEF KeepsSettled, InOrder, Settled
  <2>4. QED
    BY <2>2, <2>3 DEF SerialInv
<1>2. ASSUME NEW d \in Deliveries, LoseMessage(d) PROVE SerialInv' /\ KeepsSettled
  <2>1. /\ queue' = [queue EXCEPT ![d] = queue[d] - 1] /\ queue[d] > 0
        /\ UNCHANGED <<event, web, work>>
    BY <1>2 DEF LoseMessage
  <2>2. ASSUME NEW e \in InOrder PROVE Serial(e)'
    <3>1. e \in Deliveries
      BY DEF InOrder
    <3>2. CASE e = d
      <4>1. queue[d] = 1 /\ queue'[d] = 0
        BY <1>t, <1>s, <2>1, <3>2 DEF InQueue
      <4>2. QED
        BY <1>s, <1>k, <2>1, <3>1, <3>2, <4>1 DEF Serial, AtWeb, InQueue, AtWorker
    <3>3. CASE e # d
      BY <1>t, <1>s, <1>k, <2>1, <3>1, <3>3, SerialKept
    <3>4. QED
      BY <3>2, <3>3
  <2>3. QED
    BY <1>o, <2>1, <2>2 DEF SerialInv, KeepsSettled, InOrder
<1>3. CASE PromoteBaseline \/ UNCHANGED vars
  <2>1. UNCHANGED <<event, queue, web, work>>
    BY <1>3 DEF PromoteBaseline, vars, rows
  <2>2. \A e \in InOrder : Serial(e)'
    BY <1>s, <1>k, <2>1, SerialKept DEF InOrder
  <2>3. QED
    BY <1>o, <2>1, <2>2 DEF SerialInv, KeepsSettled, InOrder
<1>4. QED
  BY <1>1, <1>2, <1>3, SerialHandler, SerialWorker DEF Next

LEMMA SerialAlways == Spec => [](TypeInv /\ SerialInv)
<1>1. TypeInv /\ SerialInv /\ [Next]_vars => SerialInv'
  BY SerialStep
<1>2. QED
  BY <1>1, TypeInit, TypeStep, SerialInit, PTL DEF Spec

(* No two workers route one delivery at the same time, whatever is lost,   *)
(* raises or dies, unless GitHub called that delivery twice at a time.     *)
THEOREM OneProcessorTheorem == Spec => []OneProcessor
<1>1. SerialInv => OneProcessor
  BY DEF SerialInv, Serial, AtWorker, OneProcessor
<1>2. QED
  BY <1>1, SerialAlways, PTL

(* Nor is its event saved again once it is settled.                        *)
THEOREM SettledIsFinalTheorem == Spec => SettledIsFinal
<1>1. TypeInv /\ SerialInv /\ [Next]_vars
         => [\A d \in InOrder : event[d] \in Settled => event'[d] = event[d]]_vars
  BY SerialStep DEF KeepsSettled
<1>2. QED
  BY <1>1, SerialAlways, PTL DEF Spec, SettledIsFinal

-----------------------------------------------------------------------------
(* Idempotent counting. *)

(* The commits of a delivery are counted only by the worker that has it,   *)
(* and that worker does not come back to the UPDATE.                       *)
CountOne(d) ==
    /\ counted[d] \in {0, 1}
    /\ counted[d] # 0 =>
          /\ event[d] \in {"processing"} \cup Settled
          /\ \A w \in Workers : Processing(w, d) => work[w].pc \notin Uncounted
CountInv == \A d \in InOrder : CountOne(d)

LEMMA CountInit == Init => CountInv
BY DEF Init, CountInv, CountOne, InOrder

(* A step that does not count the commits of this delivery, and gives no   *)
(* event back that has some.                                               *)
LEMMA CountKept ==
    ASSUME NEW e, CountOne(e), counted'[e] = counted[e],
           event'[e] # event[e] => counted[e] = 0 \/ event'[e] \in Settled,
           counted[e] # 0 => \A v \in Workers : Processing(v, e)' =>
               Processing(v, e) /\ (work[v].pc \notin Uncounted => work'[v].pc \notin Uncounted)
    PROVE  CountOne(e)'
BY DEF CountOne

LEMMA CountWorker ==
    ASSUME TypeInv, SerialInv, CountInv, NEW w \in Workers, WorkerStep(w)
    PROVE  CountInv'
<1>t. /\ event \in [Deliveries -> Status] /\ work \in [Workers -> Work]
      /\ counted \in [Deliveries -> Nat]
      /\ work[w].pc # "idle" => work[w].delivery \in Deliveries
  BY DEF TypeInv, TypeOK
<1>i. InOrder' = InOrder
  BY WorkerKinds, RouteTypes DEF Claim, Skip, Saves, Save, WorkerCrash, github, InOrder
<1>c. \A e \in InOrder : CountOne(e) /\ AtWorker(e) /\ e \in Deliveries
  BY DEF CountInv, SerialInv, Serial, InOrder
<1>1. ASSUME NEW d \in Deliveries, Claim(w, d), NEW e \in InOrder PROVE CountOne(e)'
  <2>1. /\ event' = [event EXCEPT ![d] = "processing"]
        /\ event[d] \notin {"processing"} \cup Settled /\ UNCHANGED counted
        /\ \A v \in Workers : v # w => work'[v] = work[v]
        /\ work'[w].delivery = d
    BY <1>1, <1>t DEF Claim, counts, IdleWork
  <2>2. e = d => counted[e] = 0
    BY <1>c, <2>1 DEF CountOne
  <2>3. QED
    BY <1>t, <1>c, <2>1, <2>2, CountKept DEF Processing
<1>2. ASSUME NEW d \in Deliveries, Skip(w, d), NEW e \in InOrder PROVE CountOne(e)'
  BY <1>2, <1>c DEF Skip, counts, CountOne, Processing
<1>3. ASSUME RouteStep(w), NEW e \in InOrder PROVE CountOne(e)'
  <2>1. PICK d \in Deliveries : d = work[w].delivery /\ Processing(w, d)
    BY <1>t, <1>3, RouteTypes DEF Processing
  <2>2. /\ UNCHANGED event /\ work'[w].delivery = d
        /\ \A v \in Workers : v # w => work'[v] = work[v]
    BY <1>3, <2>1, RouteTypes
  <2>3. CASE AddCommits(w)
    <3>1. counted' = [counted EXCEPT ![d] = counted[d] + 1] /\ work'[w].pc = "compare"
      BY <1>t, <2>1, <2>3 DEF AddCommits, Goes
    <3>2. CASE e = d
      <4>1. counted[d] = 0
        BY <1>c, <2>1, <2>3, <3>2 DEF CountOne, AddCommits, Uncounted
      <4>2. event[d] = "processing" /\ \A v \in Workers : Processing(v, d) => v = w
        BY <1>c, <2>1, <3>2 DEF AtWorker
      <4>3. counted'[d] = 1
        BY <1>t, <3>1, <4>1
      <4>4. QED
        BY <2>2, <3>1, <3>2, <4>2, <4>3 DEF CountOne, Processing, Uncounted
    <3>3. CASE e # d
      BY <1>t, <1>c, <2>2, <3>1, <3>3, CountKept DEF Processing
    <3>4. QED
      BY <3>2, <3>3
  <2>4. CASE ~ AddCommits(w)
    <3>1. UNCHANGED counted
      BY <1>3, <2>4 DEF RouteStep, RouteIgnored, RouteOther, PushSession, CompareCommits,
                       ResetCommits, CommitsSession, RiskySession, counts
    <3>2. work[w].pc \notin Uncounted => work'[w].pc \notin Uncounted
      BY <1>3, <1>t, <2>4 DEF RouteStep, RouteIgnored, RouteOther, PushSession, CompareCommits,
                       ResetCommits, CommitsSession, RiskySession, Goes, Uncounted, Work
    <3>3. QED
      BY <1>c, <2>1, <2>2, <3>1, <3>2, CountKept DEF Processing
  <2>5. QED
    BY <2>3, <2>4
<1>4. ASSUME work[w].pc # "idle", Saves(w) \/ WorkerCrash(w), NEW e \in InOrder
      PROVE  CountOne(e)'
  <2>1. PICK d \in Deliveries : d = work[w].delivery
    BY <1>t, <1>4
  <2>2. \A v \in Workers : Processing(v, e)' => Processing(v, e) /\ work'[v] = work[v]
    BY <1>t, <1>4 DEF Saves, Save, WorkerCrash, Processing, IdleWork
  <2>3. CASE UNCHANGED counted /\ \E s \in Settled : Save(w, s)
    <3>1. event'[e] = event[e] \/ event'[e] \in Settled
      BY <1>t, <1>c, <2>1, <2>3 DEF Save
    <3>2. QED
      BY <1>c, <2>2, <2>3, <3>1, CountKept
  <2>4. CASE counted' = [counted EXCEPT ![work[w].delivery] = 0] /\ Save(w, "received")
    <3>1. e = d => counted'[e] = 0
      BY <1>t, <2>1, <2>4
    <3>2. e # d => counted'[e] = counted[e] /\ event'[e] = event[e]
      BY <1>t, <1>c, <2>1, <2>4 DEF Save
    <3>3. CASE e = d
      BY <3>1, <3>3 DEF CountOne
    <3>4. CASE e # d
      BY <1>c, <2>2, <3>2, <3>4, CountKept
    <3>5. QED
      BY <3>3, <3>4
  <2>5. CASE WorkerCrash(w)
    BY <1>c, <2>2, <2>5, CountKept DEF WorkerCrash, rows, counts
  <2>6. QED
    BY <1>4, <2>3, <2>4, <2>5 DEF Saves
<1>5. \A e \in InOrder : CountOne(e)'
  BY <1>1, <1>2, <1>3, <1>4, WorkerKinds
<1>6. QED
  BY <1>i, <1>5 DEF CountInv

LEMMA CountStep ==
    ASSUME TypeInv, SerialInv, CountInv, [Next]_vars
    PROVE  CountInv'
<1>t. event \in [Deliveries -> Status] /\ web \in [Handlers -> Call]
  BY DEF TypeInv, TypeOK
<1>o. InOrder' \subseteq InOrder /\ InOrder \subseteq Deliveries
  BY OverlapStays DEF InOrder
<1>c. \A e \in InOrder : CountOne(e) /\ AtWeb(e)
  BY DEF CountInv, SerialInv, Serial
<1>1. ASSUME UNCHANGED <<counted, work>>,
             \A e \in InOrder : event'[e] # event[e] =>
                 event[e] \in {"absent", "received", "queued"}
      PROVE  CountInv'
  BY <1>1, <1>c, <1>o DEF CountInv, CountOne, Processing, Settled
<1>2. ASSUME NEW h \in Handlers, HandlerStep(h) PROVE CountInv'
  <2>1. UNCHANGED <<counted, work>>
    BY <1>2 DEF HandlerStep, Ingest, SaveQueued, PublishEvent, PublishFails, HandlerCrash,
                counts
  <2>2. ASSUME NEW d \in Deliveries, Ingest(h, d), NEW e \in InOrder, event'[e] # event[e]
        PROVE  event[e] \in {"absent", "received"}
    BY <1>t, <1>o, <2>2 DEF Ingest
  <2>3. ASSUME SaveQueued(h) \/ PublishFails(h), NEW e \in InOrder, event'[e] # event[e]
        PROVE  event[e] \in {"received", "queued"}
    <3>1. e = web[h].delivery /\ web[h].pc \in {"save", "publish"}
      BY <1>t, <1>o, <2>3 DEF SaveQueued, PublishFails
    <3>2. QED
      BY <1>c, <3>1 DEF AtWeb, Handling
  <2>4. PublishEvent(h) \/ HandlerCrash(h) => UNCHANGED event
    BY DEF PublishEvent, HandlerCrash
  <2>5. \A e \in InOrder : event'[e] # event[e] =>
           event[e] \in {"absent", "received", "queued"}
    BY <1>2, <2>2, <2>3, <2>4 DEF HandlerStep
  <2>6. QED
    BY <1>1, <2>1, <2>5
<1>3. ASSUME NEW d \in Deliveries, IngestInvalid(d) \/ LoseMessage(d) PROVE CountInv'
  BY <1>1, <1>3, <1>t, <1>o DEF IngestInvalid, LoseMessage, counts
<1>4. CASE PromoteBaseline \/ UNCHANGED vars
  BY <1>1, <1>4 DEF PromoteBaseline, vars, rows
<1>5. QED
  BY <1>2, <1>3, <1>4, CountWorker DEF Next

(* Webhooks are idempotent, as far as the commits of a push go: they are   *)
(* counted once, and again only after the trigger service raised, whatever *)
(* is lost, dies or raises, unless GitHub called the delivery twice at a   *)
(* time.                                                                   *)
THEOREM CountedOnceTheorem == Spec => []CountedOnce
<1>1. CountInv => CountedOnce
  BY DEF CountInv, CountOne, CountedOnce
<1>2. TypeInv /\ SerialInv /\ CountInv /\ [Next]_vars => CountInv'
  BY CountStep
<1>3. QED
  BY <1>1, <1>2, SerialAlways, CountInit, PTL DEF Spec

-----------------------------------------------------------------------------
(* Commit windows. *)

(* The tracker reaches the threshold only by an UPDATE, and the worker     *)
(* that made it compares the tracker next: no full window is left over,    *)
(* for any number of workers.  Needs workers that do not die or raise      *)
(* between the two.                                                        *)
THEOREM NoFullWindowTheorem ==
    ASSUME "crash" \notin Faults, "error" \notin Faults
    PROVE  Spec => []NoFullWindowLeft
<1>1. Init => NoFullWindowLeft
  BY ConstantAssumption DEF Init, NoFullWindowLeft
<1>2. TypeInv /\ NoFullWindowLeft /\ [Next]_vars => NoFullWindowLeft'
  <2> SUFFICES ASSUME TypeInv, NoFullWindowLeft, [Next]_vars PROVE NoFullWindowLeft'
    OBVIOUS
  <2>t. work \in [Workers -> Work] /\ tracker \in Nat /\ Threshold \in Nat \ {0}
    BY ConstantAssumption DEF TypeInv, TypeOK
  <2>1. ASSUME UNCHANGED tracker, \A v \in Workers : work[v].pc \in Counting => work'[v].pc \in Counting
        PROVE  NoFullWindowLeft'
    BY <2>1 DEF NoFullWindowLeft
  <2>2. ASSUME NEW w \in Workers, AddCommits(w) PROVE NoFullWindowLeft'
    BY <2>t, <2>2 DEF NoFullWindowLeft, AddCommits, Goes, Counting
  <2>3. ASSUME NEW w \in Workers, CompareCommits(w) PROVE NoFullWindowLeft'
    BY <2>t, <2>3 DEF NoFullWindowLeft, CompareCommits, Goes, Counting, counts
  <2>4. ASSUME NEW w \in Workers, ResetCommits(w) PROVE NoFullWindowLeft'
    BY <2>t, <2>4 DEF NoFullWindowLeft, ResetCommits
  <2>5. CASE PromoteBaseline
    BY <2>t, <2>5 DEF NoFullWindowLeft, PromoteBaseline
  <2>6. ASSUME NEW w \in Workers, WorkerStep(w) PROVE NoFullWindowLeft'
    <3>1. CASE RouteStep(w) /\ ~ (AddCommits(w) \/ CompareCommits(w) \/ ResetCommits(w))
      BY <2>t, <2>1, <3>1 DEF RouteStep, RouteIgnored, RouteOther, PushSession,
                              CommitsSession, RiskySession, Goes, Counting, counts
    <3>2. CASE \E d \in Deliveries : Claim(w, d) \/ Skip(w, d)
      BY <2>t, <2>1, <3>2 DEF Claim, Skip, Takes, Counting, counts
    <3>3. CASE Finish(w) \/ EnqueueRaises(w)
      BY <2>t, <2>1, <3>3 DEF Finish, EnqueueRaises, Enqueuing, Save, Counting, counts
    <3>4. QED
      BY <2>2, <2>3, <2>4, <2>6, <3>1, <3>2, <3>3
      DEF WorkerStep, RouteStep, RouteRaises, WorkerCrash
  <2>7. ASSUME NEW h \in Handlers, HandlerStep(h) PROVE NoFullWindowLeft'
    BY <2>1, <2>7 DEF HandlerStep, Ingest, SaveQueued, PublishEvent, PublishFails,
                      HandlerCrash, counts
  <2>8. ASSUME NEW d \in Deliveries, IngestInvalid(d) \/ LoseMessage(d)
        PROVE  NoFullWindowLeft'
    BY <2>1, <2>8 DEF IngestInvalid, LoseMessage, counts
  <2>9. CASE UNCHANGED vars
    BY <2>1, <2>9 DEF vars
  <2>10. QED
    BY <2>5, <2>6, <2>7, <2>8, <2>9 DEF Next
<1>3. QED
  BY <1>1, <1>2, TypeInit, TypeStep, PTL DEF Spec

-----------------------------------------------------------------------------
(* Somebody is responsible for every row that is not at rest. *)

AttendedOne(d) ==
    /\ event[d] = "queued" =>
          \/ queue[d] > 0
          \/ \E h \in Handlers : web[h].pc = "publish" /\ web[h].delivery = d
    /\ event[d] = "processing" => \E w \in Workers : Processing(w, d)

(* A step that takes no message, call or worker away from the delivery.    *)
LEMMA AttendedKept ==
    ASSUME NEW d, AttendedOne(d), event'[d] = event[d],
           queue[d] > 0 => queue'[d] > 0,
           \A h \in Handlers : web[h].pc = "publish" /\ web[h].delivery = d =>
               \/ queue'[d] > 0
               \/ \E g \in Handlers : web'[g].pc = "publish" /\ web'[g].delivery = d,
           \A w \in Workers : Processing(w, d) => Processing(w, d)'
    PROVE  AttendedOne(d)'
<1>1. CASE event[d] = "queued"
  BY <1>1 DEF AttendedOne
<1>2. CASE event[d] = "processing"
  <2>1. PICK w \in Workers : Processing(w, d)
    BY <1>2 DEF AttendedOne
  <2>2. Processing(w, d)'
    BY <2>1
  <2>3. QED
    BY <1>2, <2>2 DEF AttendedOne
<1>3. CASE event[d] # "queued" /\ event[d] # "processing"
  BY <1>3 DEF AttendedOne
<1>4. QED
  BY <1>1, <1>2, <1>3

(* A row that is given another status is at rest with it. *)
LEMMA AtRest ==
    ASSUME NEW d, event'[d] \notin {"queued", "processing"}
    PROVE  AttendedOne(d)'
BY DEF AttendedOne

LEMMA AttendedHandler ==
    ASSUME "crash" \notin Faults, TypeInv, Attended, NEW h \in Handlers, HandlerStep(h)
    PROVE  Attended'
<1>t. /\ event \in [Deliveries -> Status] /\ queue \in [Deliveries -> Nat]
      /\ web \in [Handlers -> Call] /\ web[h] \in Call
      /\ web[h].pc # "idle" => web[h].delivery \in Deliveries
  BY DEF TypeInv, TypeOK
<1>a. \A d \in Deliveries : AttendedOne(d)
  BY DEF Attended, AttendedOne
<1>w. \A w \in Workers, d \in Deliveries : Processing(w, d) => Processing(w, d)'
  BY DEF HandlerStep, Ingest, SaveQueued, PublishEvent, PublishFails, HandlerCrash, Processing
<1>1. ASSUME NEW d \in Deliveries, Ingest(h, d), NEW e \in Deliveries
      PROVE  AttendedOne(e)'
  <2>1. /\ event' = [event EXCEPT ![d] = "received"] /\ UNCHANGED queue
        /\ web[h].pc = "idle" /\ \A g \in Handlers : g # h => web'[g] = web[g]
    BY <1>t, <1>1 DEF Ingest
  <2>2. CASE e = d
    BY <1>t, <2>1, <2>2, AtRest
  <2>3. CASE e # d
    BY <1>t, <1>a, <1>w, <2>1, <2>3, AttendedKept
  <2>4. QED
    BY <2>2, <2>3
<1>2. ASSUME SaveQueued(h), NEW e \in Deliveries PROVE AttendedOne(e)'
  <2>1. /\ event' = [event EXCEPT ![web[h].delivery] = "queued"] /\ UNCHANGED queue
        /\ web[h].pc = "save" /\ \A g \in Handlers : g # h => web'[g] = web[g]
        /\ web'[h].pc = "publish" /\ web'[h].delivery = web[h].delivery
    BY <1>t, <1>2 DEF SaveQueued, Call
  <2>2. CASE e = web[h].delivery
    BY <1>t, <2>1, <2>2 DEF AttendedOne
  <2>3. CASE e # web[h].delivery
    BY <1>t, <1>a, <1>w, <2>1, <2>3, AttendedKept
  <2>4. QED
    BY <2>2, <2>3
<1>3. ASSUME PublishEvent(h), NEW e \in Deliveries PROVE AttendedOne(e)'
  <2>1. /\ UNCHANGED event /\ web[h].pc = "publish"
        /\ queue' = [queue EXCEPT ![web[h].delivery] = @ + 1]
        /\ \A g \in Handlers : g # h => web'[g] = web[g]
    BY <1>t, <1>3 DEF PublishEvent
  <2>2. queue[e] > 0 => queue'[e] > 0
    BY <1>t, <2>1
  <2>3. e = web[h].delivery => queue'[e] > 0
    BY <1>t, <2>1
  <2>4. QED
    BY <1>a, <1>w, <2>1, <2>2, <2>3, AttendedKept
<1>4. ASSUME PublishFails(h), NEW e \in Deliveries PROVE AttendedOne(e)'
  <2>1. /\ event' = [event EXCEPT ![web[h].delivery] = "received"] /\ UNCHANGED queue
        /\ \A g \in Handlers : g # h => web'[g] = web[g]
    BY <1>t, <1>4 DEF PublishFails
  <2>2. CASE e = web[h].delivery
    BY <1>t, <2>1, <2>2, AtRest
  <2>3. CASE e # web[h].delivery
    BY <1>t, <1>a, <1>w, <2>1, <2>3, AttendedKept
  <2>4. QED
    BY <2>2, <2>3
<1>5. QED
  BY <1>1, <1>2, <1>3, <1>4 DEF HandlerStep, HandlerCrash, Attended, AttendedOne

LEMMA AttendedWorker ==
    ASSUME "crash" \notin Faults, TypeInv, Attended, NEW w \in Workers, WorkerStep(w)
    PROVE  Attended'
<1>t. /\ event \in [Deliveries -> Status] /\ queue \in [Deliveries -> Nat]
      /\ work \in [Workers -> Work]
      /\ work[w].pc # "idle" => work[w].delivery \in Deliveries
  BY DEF TypeInv, TypeOK
<1>a. \A d \in Deliveries : AttendedOne(d)
  BY DEF Attended, AttendedOne
<1>1. ASSUME NEW d \in Deliveries, Claim(w, d), NEW e \in Deliveries
      PROVE  AttendedOne(e)'
  <2>1. /\ event' = [event EXCEPT ![d] = "processing"] /\ UNCHANGED web
        /\ queue' = [queue EXCEPT ![d] = @ - 1] /\ work[w].pc = "idle"
        /\ \A v \in Workers : v # w => work'[v] = work[v]
        /\ work'[w].pc = "route" /\ work'[w].delivery = d
    BY <1>t, <1>1 DEF Claim, Takes, IdleWork
  <2>2. CASE e = d
    BY <1>t, <2>1, <2>2 DEF AttendedOne, Processing
  <2>3. CASE e # d
    <3>1. event'[e] = event[e] /\ queue'[e] = queue[e]
      BY <1>t, <2>1, <2>3
    <3>2. \A v \in Workers : Processing(v, e) => Processing(v, e)'
      BY <2>1 DEF Processing
    <3>3. QED
      BY <1>a, <2>1, <3>1, <3>2, AttendedKept
  <2>4. QED
    BY <2>2, <2>3
<1>2. ASSUME NEW d \in Deliveries, Skip(w, d), NEW e \in Deliveries
      PROVE  AttendedOne(e)'
  <2>1. /\ UNCHANGED <<event, web, work>> /\ event[d] # "queued"
        /\ queue' = [queue EXCEPT ![d] = @ - 1]
    BY <1>2 DEF Skip, Takes, Settled
  <2>2. e # d => queue'[e] = queue[e]
    BY <1>t, <2>1
  <2>3. CASE e = d
    BY <1>a, <2>1, <2>3 DEF AttendedOne, Processing
  <2>4. CASE e # d
    BY <1>a, <2>1, <2>2, <2>4 DEF AttendedOne, Processing
  <2>5. QED
    BY <2>3, <2>4
<1>3. ASSUME RouteStep(w), NEW e \in Deliveries PROVE AttendedOne(e)'
  <2>1. UNCHANGED <<event, queue, web>>
    BY <1>3, RouteTypes
  <2>2. \A v \in Workers : Processing(v, e) => Processing(v, e)'
    BY <1>3, RouteTypes DEF Processing
  <2>3. QED
    BY <1>a, <2>1, <2>2, AttendedKept
<1>4. ASSUME work[w].pc # "idle", Saves(w), NEW e \in Deliveries PROVE AttendedOne(e)'
  <2>1. PICK s \in Settled \cup {"received"} :
            /\ event' = [event EXCEPT ![work[w].delivery] = s]
            /\ work' = [work EXCEPT ![w] = IdleWork] /\ UNCHANGED <<queue, web>>
    BY <1>4 DEF Saves, Save
  <2>2. CASE e = work[w].delivery
    BY <1>t, <2>1, <2>2, AtRest DEF Settled
  <2>3. CASE e # work[w].delivery
    <3>1. event'[e] = event[e]
      BY <1>t, <2>1, <2>3
    <3>2. \A v \in Workers : Processing(v, e) => Processing(v, e)'
      BY <1>t, <2>1, <2>3 DEF Processing
    <3>3. QED
      BY <1>a, <2>1, <3>1, <3>2, AttendedKept
  <2>4. QED
    BY <2>2, <2>3
<1>5. QED
  BY <1>1, <1>2, <1>3, <1>4, WorkerKinds DEF WorkerCrash, Attended, AttendedOne

(* However calls, redeliveries and workers overtake each other, a row that *)
(* is QUEUED or PROCESSING has somebody who will change it: an event is    *)
(* only ever stuck by a process that dies or a message that is lost.       *)
THEOREM AttendedTheorem ==
    ASSUME "crash" \notin Faults, "lose" \notin Faults
    PROVE  Spec => []Attended
<1>1. Init => Attended
  BY DEF Init, Attended
<1>2. TypeInv /\ Attended /\ [Next]_vars => Attended'
  <2> SUFFICES ASSUME TypeInv, Attended, [Next]_vars PROVE Attended'
    OBVIOUS
  <2>1. ASSUME NEW d \in Deliveries, IngestInvalid(d), NEW e \in Deliveries
        PROVE  AttendedOne(e)'
    <3>1. /\ event' = [event EXCEPT ![d] = "failed"] /\ UNCHANGED <<queue, web, work>>
      BY <2>1 DEF IngestInvalid
    <3>2. CASE e = d
      BY <3>1, <3>2, AtRest DEF TypeInv, TypeOK
    <3>3. CASE e # d
      BY <3>1, <3>3 DEF TypeInv, TypeOK, Attended, AttendedOne, Processing
    <3>4. QED
      BY <3>2, <3>3
  <2>2. CASE UNCHANGED <<event, queue, web, work>>
    BY <2>2 DEF Attended, Processing
  <2>3. CASE PromoteBaseline \/ UNCHANGED vars
    BY <2>2, <2>3 DEF PromoteBaseline, rows, vars
  <2>4. ASSUME NEW d \in Deliveries, IngestInvalid(d) PROVE Attended'
    BY <2>1, <2>4 DEF Attended, AttendedOne
  <2>5. QED
    BY <2>3, <2>4, AttendedHandler, AttendedWorker DEF Next, LoseMessage
<1>3. QED
  BY <1>1, <1>2, TypeInit, TypeStep, PTL DEF Spec

=============================================================================
