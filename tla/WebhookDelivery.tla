-------------------------- MODULE WebhookDelivery --------------------------
(***************************************************************************)
(* A GitHub webhook delivery and its GitHubWebhookEvent row: the endpoint  *)
(* stores the row under the delivery id and queues a task for it, a worker *)
(* claims the row under a row lock, routes the event, and saves the        *)
(* outcome.  A default-branch push enqueues its session, adds its commits  *)
(* to the repository's tracker and may close the tracker's window with an  *)
(* n_commits session.  Every save after the claim is unconditional.        *)
(*                                                                         *)
(* Sessions are those of GardeningSession; here a call of the trigger      *)
(* service succeeds or raises.  "overlapped" and "counted" are history the *)
(* program never reads.                                                    *)
(***************************************************************************)
EXTENDS Naturals

CONSTANTS
    Deliveries,  \* delivery ids of one repository
    Pushes,      \* those that are pushes to the default branch
    Commits,     \* the number of commits in the payload of each
    Risky,       \* the pushes that hit a protected path, their trigger enabled
    Threshold,   \* commits that make an n_commits session
    Handlers,    \* web processes in webhook_delivery
    Workers,     \* workers in process_github_webhook_event
    MaxCalls,    \* bound on the calls GitHub makes for one delivery
    Faults,      \* what may happen around them, a subset of AllFaults
    None

AllFaults ==
    {"crash",    \* a web process or a worker dies
     "lose",     \* the broker loses the message of a delivery
     "queue",    \* delay() raises in the endpoint
     "enqueue",  \* the trigger service raises SessionEnqueueError
     "error",    \* routing raises anything else
     "overlap"}  \* GitHub redelivers while an earlier call is not answered

ASSUME ConstantAssumption ==
    /\ None \notin Deliveries
    /\ Pushes \subseteq Deliveries
    /\ Risky \subseteq Pushes
    /\ Commits \in [Deliveries -> Nat]
    /\ Threshold \in Nat \ {0}
    /\ MaxCalls \in Nat
    /\ Faults \subseteq AllFaults

VARIABLES
    event,       \* status of the GitHubWebhookEvent rows
    queue,       \* messages in the broker, per delivery
    web,         \* calls of webhook_delivery that go on to queue the event
    work,        \* calls of process_stored_github_webhook_event past the claim
    tracker,     \* commits_since_session of the repository
    calls,       \* calls GitHub made for each delivery
    overlapped,  \* deliveries it made again before an earlier call had ended
    counted      \* how often the commits of a delivery were added to the
                 \* tracker since the trigger service gave the event back

rows == <<event, queue>>
github == <<calls, overlapped>>
counts == <<tracker, counted>>
vars == <<event, queue, web, work, tracker, calls, overlapped, counted>>

-----------------------------------------------------------------------------
Settled == {"processed", "ignored", "failed"}
Status == {"absent", "received", "queued", "processing"} \cup Settled

Call == [pc: {"idle", "save", "publish"}, delivery: Deliveries \cup {None}]
IdleCall == [pc |-> "idle", delivery |-> None]

(* Where a worker is in the route of its event. *)
Uncounted == {"route", "count"}
Counting == {"compare", "reset"}
Counted == {"commits", "risky", "finish"}
Work == [pc: {"idle"} \cup Uncounted \cup Counting \cup Counted,
         delivery: Deliveries \cup {None}, result: {"processed", "ignored"}]
IdleWork == [pc |-> "idle", delivery |-> None, result |-> "processed"]

(* Every row, call and counter has a value of its type. *)
TypeOK ==
    /\ event \in [Deliveries -> Status]
    /\ queue \in [Deliveries -> Nat]
    /\ web \in [Handlers -> Call]
    /\ work \in [Workers -> Work]
    /\ tracker \in Nat
    /\ calls \in [Deliveries -> 0..MaxCalls]
    /\ overlapped \subseteq Deliveries
    /\ counted \in [Deliveries -> Nat]

Handling(h, d) == web[h].pc # "idle" /\ web[h].delivery = d
Processing(w, d) == work[w].pc # "idle" /\ work[w].delivery = d

Init ==
    /\ event = [d \in Deliveries |-> "absent"]
    /\ queue = [d \in Deliveries |-> 0]
    /\ web = [h \in Handlers |-> IdleCall]
    /\ work = [w \in Workers |-> IdleWork]
    /\ tracker = 0
    /\ calls = [d \in Deliveries |-> 0]
    /\ overlapped = {}
    /\ counted = [d \in Deliveries |-> 0]

-----------------------------------------------------------------------------
(* webhook_delivery: ingest, and queue the event if it is new or still     *)
(* RECEIVED.                                                               *)

CallsAgain(d) ==
    /\ calls[d] < MaxCalls
    /\ calls' = [calls EXCEPT ![d] = @ + 1]
    /\ \/ /\ \A h \in Handlers : ~ Handling(h, d)
          /\ UNCHANGED overlapped
       \/ /\ "overlap" \in Faults
          /\ \E h \in Handlers : Handling(h, d)
          /\ overlapped' = overlapped \cup {d}

(* Mutated form: the status of a stored event is not looked at. *)
Ingest_AnyStatus(h, d) ==
    /\ web[h].pc = "idle"
    /\ CallsAgain(d)
    /\ event' = [event EXCEPT ![d] = IF @ = "absent" THEN "received" ELSE @]
    /\ web' = [web EXCEPT ![h] = [pc |-> "save", delivery |-> d]]
    /\ UNCHANGED <<queue, work, counts>>

(* get_or_create under the delivery id.  Any other status ends the call    *)
(* with "duplicate" and changes nothing.                                   *)
Ingest(h, d) ==
    /\ web[h].pc = "idle"
    /\ CallsAgain(d)
    /\ event[d] \in {"absent", "received"}
    /\ event' = [event EXCEPT ![d] = "received"]
    /\ web' = [web EXCEPT ![h] = [pc |-> "save", delivery |-> d]]
    /\ UNCHANGED <<queue, work, counts>>

(* A payload with malformed ids is stored as FAILED. *)
IngestInvalid(d) ==
    /\ CallsAgain(d)
    /\ event[d] = "absent"
    /\ event' = [event EXCEPT ![d] = "failed"]
    /\ UNCHANGED <<queue, web, work, counts>>

(* The first save of _enqueue_webhook_event: QUEUED, whatever it is by now. *)
SaveQueued(h) ==
    /\ web[h].pc = "save"
    /\ event' = [event EXCEPT ![web[h].delivery] = "queued"]
    /\ web' = [web EXCEPT ![h].pc = "publish"]
    /\ UNCHANGED <<queue, work, github, counts>>

PublishEvent(h) ==
    /\ web[h].pc = "publish"
    /\ queue' = [queue EXCEPT ![web[h].delivery] = @ + 1]
    /\ web' = [web EXCEPT ![h] = IdleCall]
    /\ UNCHANGED <<event, work, github, counts>>

(* Mutated form: the row stays QUEUED when the queue refuses it. *)
PublishFails_StaysQueued(h) ==
    /\ "queue" \in Faults
    /\ web[h].pc = "publish"
    /\ web' = [web EXCEPT ![h] = IdleCall]
    /\ UNCHANGED <<event, queue, work, github, counts>>

(* Mutated form: a status that is none of the choices. *)
PublishFails_OtherStatus(h) ==
    /\ "queue" \in Faults
    /\ web[h].pc = "publish"
    /\ event' = [event EXCEPT ![web[h].delivery] = "error"]
    /\ web' = [web EXCEPT ![h] = IdleCall]
    /\ UNCHANGED <<queue, work, github, counts>>

(* delay() raised: back to RECEIVED, and 503 to GitHub. *)
PublishFails(h) ==
    /\ "queue" \in Faults
    /\ web[h].pc = "publish"
    /\ event' = [event EXCEPT ![web[h].delivery] = "received"]
    /\ web' = [web EXCEPT ![h] = IdleCall]
    /\ UNCHANGED <<queue, work, github, counts>>

HandlerCrash(h) ==
    /\ "crash" \in Faults
    /\ web[h].pc # "idle"
    /\ web' = [web EXCEPT ![h] = IdleCall]
    /\ UNCHANGED <<event, queue, work, github, counts>>

LoseMessage(d) ==
    /\ "lose" \in Faults
    /\ queue[d] > 0
    /\ queue' = [queue EXCEPT ![d] = @ - 1]
    /\ UNCHANGED <<event, web, work, github, counts>>

-----------------------------------------------------------------------------
(* process_stored_github_webhook_event: the claim and the outcome. *)

Takes(w, d) ==
    /\ work[w].pc = "idle"
    /\ queue[d] > 0
    /\ queue' = [queue EXCEPT ![d] = @ - 1]

(* Select for update; claimed unless somebody has, or it is settled. *)
Claim(w, d) ==
    /\ Takes(w, d)
    /\ event[d] \notin {"processing"} \cup Settled
    /\ event' = [event EXCEPT ![d] = "processing"]
    /\ work' = [work EXCEPT ![w] = [IdleWork EXCEPT !.pc = "route", !.delivery = d]]
    /\ UNCHANGED <<web, github, counts>>

Skip(w, d) ==
    /\ Takes(w, d)
    /\ event[d] \in {"processing"} \cup Settled
    /\ UNCHANGED <<event, web, work, github, counts>>

(* The call ends with a last save of the row. *)
Save(w, status) ==
    /\ event' = [event EXCEPT ![work[w].delivery] = status]
    /\ work' = [work EXCEPT ![w] = IdleWork]
    /\ UNCHANGED <<queue, web, github, tracker>>

Finish(w) ==
    /\ work[w].pc = "finish"
    /\ Save(w, work[w].result)
    /\ UNCHANGED counted

(* The steps of the route that call the trigger service. *)
Enqueuing(w) ==
    \/ work[w].pc \in {"route", "commits"}
    \/ work[w].pc = "risky" /\ work[w].delivery \in Risky

(* SessionEnqueueError: the event may be delivered again.  Commits that    *)
(* were counted before stay in the tracker.                                *)
EnqueueRaises(w) ==
    /\ "enqueue" \in Faults
    /\ Enqueuing(w)
    /\ Save(w, "received")
    /\ counted' = [counted EXCEPT ![work[w].delivery] = 0]

(* Mutated form: any other exception gives the event back, too. *)
RouteRaises_GivesBack(w) ==
    /\ "error" \in Faults
    /\ work[w].pc \notin {"idle", "finish"}
    /\ Save(w, "received")
    /\ UNCHANGED counted

(* Any other exception out of _route_github_webhook_event. *)
RouteRaises(w) ==
    /\ "error" \in Faults
    /\ work[w].pc \notin {"idle", "finish"}
    /\ Save(w, "failed")
    /\ UNCHANGED counted

WorkerCrash(w) ==
    /\ "crash" \in Faults
    /\ work[w].pc # "idle"
    /\ work' = [work EXCEPT ![w] = IdleWork]
    /\ UNCHANGED <<rows, web, github, counts>>

-----------------------------------------------------------------------------
(* _route_github_webhook_event *)

Goes(w, pc) ==
    /\ work' = [work EXCEPT ![w].pc = pc]
    /\ UNCHANGED <<rows, web, github>>

(* Ping, an unsupported event, a repository that is not active, ... *)
RouteIgnored(w) ==
    /\ work[w].pc = "route"
    /\ work' = [work EXCEPT ![w].pc = "finish", ![w].result = "ignored"]
    /\ UNCHANGED <<rows, web, github, counts>>

(* The other kinds of event, in one step. *)
RouteOther(w) ==
    /\ work[w].pc = "route"
    /\ work[w].delivery \notin Pushes
    /\ Goes(w, "finish")
    /\ UNCHANGED counts

(* The push session, and the reverts found in the commit messages. *)
PushSession(w) ==
    /\ work[w].pc = "route"
    /\ work[w].delivery \in Pushes
    /\ Goes(w, IF Commits[work[w].delivery] = 0 THEN "risky" ELSE "count")
    /\ UNCHANGED counts

(* _accumulate_commits: one UPDATE adds the commits ... *)
AddCommits(w) ==
    /\ work[w].pc = "count"
    /\ Goes(w, "compare")
    /\ tracker' = tracker + Commits[work[w].delivery]
    /\ counted' = [counted EXCEPT ![work[w].delivery] = @ + 1]

(* Mutated form: the threshold itself does not fire. *)
CompareCommits_Above(w) ==
    /\ work[w].pc = "compare"
    /\ Goes(w, IF tracker > Threshold THEN "reset" ELSE "risky")
    /\ UNCHANGED counts

(* ... and a SELECT reads what the counter is by then. *)
CompareCommits(w) ==
    /\ work[w].pc = "compare"
    /\ Goes(w, IF tracker >= Threshold THEN "reset" ELSE "risky")
    /\ UNCHANGED counts

(* Reset before the session is enqueued. *)
ResetCommits(w) ==
    /\ work[w].pc = "reset"
    /\ Goes(w, "commits")
    /\ tracker' = 0
    /\ UNCHANGED counted

CommitsSession(w) ==
    /\ work[w].pc = "commits"
    /\ Goes(w, "risky")
    /\ UNCHANGED counts

(* The risky_module session, or nothing to do. *)
RiskySession(w) ==
    /\ work[w].pc = "risky"
    /\ Goes(w, "finish")
    /\ UNCHANGED counts

(* A session of the repository completes: _promote_session_baseline. *)
PromoteBaseline ==
    /\ tracker' = 0
    /\ UNCHANGED <<rows, web, work, github, counted>>

-----------------------------------------------------------------------------
HandlerStep(h) ==
    \/ \E d \in Deliveries : Ingest(h, d)
    \/ SaveQueued(h)
    \/ PublishEvent(h)
    \/ PublishFails(h)
    \/ HandlerCrash(h)

RouteStep(w) ==
    \/ RouteIgnored(w)
    \/ RouteOther(w)
    \/ PushSession(w)
    \/ AddCommits(w)
    \/ CompareCommits(w)
    \/ ResetCommits(w)
    \/ CommitsSession(w)
    \/ RiskySession(w)

WorkerStep(w) ==
    \/ \E d \in Deliveries : Claim(w, d) \/ Skip(w, d)
    \/ RouteStep(w)
    \/ Finish(w)
    \/ EnqueueRaises(w)
    \/ RouteRaises(w)
    \/ WorkerCrash(w)

Next ==
    \/ \E h \in Handlers : HandlerStep(h)
    \/ \E d \in Deliveries : IngestInvalid(d) \/ LoseMessage(d)
    \/ \E w \in Workers : WorkerStep(w)
    \/ PromoteBaseline

Spec == Init /\ [][Next]_vars

(* Web calls go on to their answer, workers take messages and finish.      *)
(* GitHub never has to call, and nothing has to fail.                      *)
Fairness ==
    /\ \A h \in Handlers :
          WF_vars(SaveQueued(h)) /\ WF_vars(PublishEvent(h) \/ PublishFails(h))
    /\ \A w \in Workers :
          /\ WF_vars(RouteStep(w) \/ Finish(w))
          /\ \A d \in Deliveries : WF_vars(Claim(w, d) \/ Skip(w, d))

FairSpec == Spec /\ Fairness

-----------------------------------------------------------------------------
(* Every delivery by itself: what is said here holds of each one that      *)
(* GitHub did not call again before its earlier call had ended, whatever   *)
(* happens to it and to the others.                                        *)
InOrder == Deliveries \ overlapped

(* Two workers never route one delivery at the same time.                  *)
OneProcessor ==
    \A d \in InOrder : \A v, w \in Workers :
        Processing(v, d) /\ Processing(w, d) => v = w

(* An event that is processed, ignored or failed stays what it is: no      *)
(* redelivery, late message or slow endpoint starts it again.              *)
SettledIsFinal ==
    [][\A d \in InOrder : event[d] \in Settled => event'[d] = event[d]]_vars

(* "Webhooks must be idempotent": the commits of a push are counted once,  *)
(* however often it is delivered, and once more for each time the trigger  *)
(* service raised and gave the event back.                                 *)
CountedOnce == \A d \in InOrder : counted[d] <= 1

(* Seen from outside: the pushes counted, and the outcomes of deliveries.  *)
credited == {d \in InOrder : counted[d] > 0}
outcome ==
    [d \in Deliveries |-> IF d \in InOrder /\ event[d] \in Settled THEN event[d] ELSE None]

Ledger == INSTANCE PushLedger WITH
    credited <- credited, outcome <- outcome, waived <- overlapped

(* Rows, messages and workers keep the promise of the ledger: a delivery   *)
(* is settled once, a push is counted once and before it is settled as     *)
(* processed, and nothing is counted of an event that is ignored; an event *)
(* that fails, is lost, is redelivered or loses its worker is never        *)
(* counted or settled again, only one that the trigger service gave back.  *)
ImplementsPushLedger == Ledger!Spec

-----------------------------------------------------------------------------
(* The commit window. *)

(* With no worker between its UPDATE and its reset, the tracker is below   *)
(* the threshold: of pushes that are counted at once, the last to read the *)
(* counter sees them all, so no full window waits for a further push.      *)
(* Needs workers that get from the UPDATE to the reset.                    *)
NoFullWindowLeft ==
    (\A w \in Workers : work[w].pc \notin Counting) => tracker < Threshold

-----------------------------------------------------------------------------
(* Progress. *)

(* A row that is QUEUED has a message, or a call that is about to publish  *)
(* one; a row that is PROCESSING has a worker: no overtaking of calls and  *)
(* workers leaves a status nobody is going to change.  Needs processes     *)
(* that do not die and a broker that keeps its messages.                   *)
Attended ==
    \A d \in Deliveries :
        /\ event[d] = "queued" =>
              \/ queue[d] > 0
              \/ \E h \in Handlers : web[h].pc = "publish" /\ web[h].delivery = d
        /\ event[d] = "processing" => \E w \in Workers : Processing(w, d)

(* A stored event is settled, or is back at RECEIVED where a redelivery    *)
(* picks it up; it never stays QUEUED or PROCESSING.  Needs processes that *)
(* do not die and a broker that keeps its messages.                        *)
EventHandled ==
    \A d \in Deliveries :
        event[d] \in {"queued", "processing"} ~> event[d] \in Settled \cup {"received"}

=============================================================================
