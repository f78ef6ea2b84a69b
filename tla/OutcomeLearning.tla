-------------------------- MODULE OutcomeLearning --------------------------
(***************************************************************************)
(* What becomes of Gardener's pull requests: webhooks record outcomes on   *)
(* the plan and, under its row lock, in the profile of the repository; a   *)
(* terminal outcome enqueues the post-PR refresh, which analyses and       *)
(* promotes the default branch once all pull requests of the session are   *)
(* merged, closed or reverted.                                             *)
(*                                                                         *)
(* The length of the profile's log is the clock: terminal_outcome_at is a  *)
(* position in it, created_at of an analysis its length at the time.       *)
(* Commits of the default branch are numbered; an analysis is named by its *)
(* commit.  "landed", "undone", "sent" and "missed" are history the        *)
(* program never reads.                                                    *)
(***************************************************************************)
EXTENDS Naturals, Sequences

CONSTANTS
    Plans,       \* plans of one repository whose pull request is open
    Sessions,
    SessionOf,   \* the gardening session of a plan
    Handlers,    \* workers in process_github_webhook_event
    Refreshers,  \* workers in refresh_analysis_after_session_prs
    Signs,       \* the reviews, edits and CI failures GitHub may report
    MaxHead,     \* bound on the commits of the default branch
    Faults,      \* what may happen around them, a subset of AllFaults
    MaxFaults,   \* bound on how often something of it happens
    None

AllFaults ==
    {"crash",      \* a worker dies
     "lose",       \* the broker loses the message of a refresh
     "queue",      \* delay() raises
     "error",      \* the analysis raises
     "redeliver",  \* GitHub delivers an event again
     "reopen",     \* people open a closed pull request again
     "early"}      \* an outcome comes before the executor recorded its success

(* VALID_OUTCOMES, those that refresh (_is_refresh_outcome) and the rest.  *)
RefreshOutcomes == {"merged", "closed", "reverted"}
Remarks == {"accepted", "rejected", "edited", "failed"}
Outcomes == RefreshOutcomes \cup Remarks

Commits == 0 .. MaxHead

ASSUME ConstantAssumption ==
    /\ SessionOf \in [Plans -> Sessions]
    /\ MaxHead \in Nat
    /\ Signs \subseteq [plan : Plans, outcome : Remarks]
    /\ Faults \subseteq AllFaults
    /\ MaxFaults \in Nat
    /\ None \notin Nat \cup Outcomes \cup Plans \cup Sessions

VARIABLES
    pr,        \* the pull requests on GitHub
    head,      \* head of the default branch
    landed,    \* the merge commit of each pull request
    undone,    \* the commit that reverts it
    sent,      \* the events GitHub has sent
    pending,   \* those no worker has taken yet
    plan,      \* the rows of MaintenancePRPlan
    log,       \* updated_from_pr_outcomes of the profile
    handler,   \* calls of record_pr_outcome
    messages,  \* refresh messages in the broker
    refresh,   \* refreshes past their checks
    created,   \* created_at of the analyses
    baseline,  \* the latest promoted analysis
    latest,    \* post_pr_refresh_analysis of the sessions
    missed,    \* sessions that something cost a refresh
    faults     \* how often something of Faults happened

github == <<pr, head, landed, undone, sent>>
analyses == <<created, baseline, latest>>
vars == <<github, pending, plan, log, handler, messages, refresh,
          analyses, missed, faults>>

-----------------------------------------------------------------------------
Event == [plan : Plans, outcome : Outcomes]

Plan ==
    [authored : BOOLEAN,                              \* SUCCEEDED, with a number
     terminal : RefreshOutcomes \cup {None},          \* terminal_outcome
     at       : Nat,                                  \* terminal_outcome_at
     sha      : BOOLEAN,                              \* merge_commit_sha is set
     history  : Seq(Outcomes)]                        \* outcome_history

(* The copy of the plan is read before the profile is locked.              *)
Handling ==
    [pc : {"idle", "record", "refresh"},
     event : Event \cup {None},
     history : Seq(Outcomes)]

Idle == [pc |-> "idle", event |-> None, history |-> <<>>]

Refresh ==
    [pc : {"idle", "clone", "store", "save", "promote"},
     session : Sessions \cup {None},
     commit : Commits \cup {None}]

Resting == [pc |-> "idle", session |-> None, commit |-> None]

TypeOK ==
    /\ pr \in [Plans -> {"open", "merged", "closed", "reverted"}]
    /\ head \in Commits
    /\ landed \in [Plans -> Commits]
    /\ undone \in [Plans -> Commits]
    /\ sent \in SUBSET Event
    /\ pending \in SUBSET Event
    /\ plan \in [Plans -> Plan]
    /\ log \in Seq(Event)
    /\ handler \in [Handlers -> Handling]
    /\ messages \in [Sessions -> Nat]
    /\ refresh \in [Refreshers -> Refresh]
    /\ created \in [Commits -> Nat \cup {None}]
    /\ baseline \in Commits
    /\ latest \in [Sessions -> Commits \cup {None}]
    /\ missed \in SUBSET Sessions
    /\ faults \in 0 .. MaxFaults

(* The session has analysed and promoted the commit it planned on.         *)
Init ==
    /\ pr = [p \in Plans |-> "open"]
    /\ head = 0
    /\ landed = [p \in Plans |-> 0]
    /\ undone = [p \in Plans |-> 0]
    /\ sent = {}
    /\ pending = {}
    /\ plan = [p \in Plans |->
                 [authored |-> FALSE, terminal |-> None, at |-> 0,
                  sha |-> FALSE, history |-> <<>>]]
    /\ log = <<>>
    /\ handler = [h \in Handlers |-> Idle]
    /\ messages = [s \in Sessions |-> 0]
    /\ refresh = [r \in Refreshers |-> Resting]
    /\ created = [c \in Commits |-> IF c = 0 THEN 0 ELSE None]
    /\ baseline = 0
    /\ latest = [s \in Sessions |-> None]
    /\ missed = {}
    /\ faults = 0

-----------------------------------------------------------------------------
(* Something of Faults happens.                                            *)
Fault(f) ==
    /\ f \in Faults
    /\ faults < MaxFaults
    /\ faults' = faults + 1

-----------------------------------------------------------------------------
(* GitHub and the people who work there. *)

Authored(s) == {p \in Plans : SessionOf[p] = s /\ plan[p].authored}

(* An outcome that is recorded before the executor's success is saved does *)
(* its refresh while the plan does not count yet.                          *)
RecordSuccess(p) ==
    /\ ~plan[p].authored
    /\ plan' = [plan EXCEPT ![p].authored = TRUE]
    /\ missed' = IF plan[p].terminal = None THEN missed
                 ELSE missed \cup {SessionOf[p]}
    /\ UNCHANGED <<github, pending, log, handler, messages, refresh,
                   analyses, faults>>

Sends(p, o) ==
    LET e == [plan |-> p, outcome |-> o] IN
    /\ IF plan[p].authored THEN UNCHANGED faults ELSE Fault("early")
    /\ sent' = sent \cup {e}
    /\ pending' = pending \cup {e}
    /\ UNCHANGED <<plan, log, handler, messages, refresh, analyses,
                   missed>>

(* A review, an edit, or a CI run that fails. *)
Remark(p, o) ==
    /\ pr[p] = "open"
    /\ [plan |-> p, outcome |-> o] \in Signs
    /\ Sends(p, o)
    /\ UNCHANGED <<pr, head, landed, undone>>

Merge(p) ==
    /\ pr[p] = "open"
    /\ head < MaxHead
    /\ Sends(p, "merged")
    /\ pr' = [pr EXCEPT ![p] = "merged"]
    /\ head' = head + 1
    /\ landed' = [landed EXCEPT ![p] = head + 1]
    /\ UNCHANGED undone

Close(p) ==
    /\ pr[p] = "open"
    /\ Sends(p, "closed")
    /\ pr' = [pr EXCEPT ![p] = "closed"]
    /\ UNCHANGED <<head, landed, undone>>

(* The push of a commit that reverts the merge commit. *)
Revert(p) ==
    /\ pr[p] = "merged"
    /\ head < MaxHead
    /\ Sends(p, "reverted")
    /\ pr' = [pr EXCEPT ![p] = "reverted"]
    /\ head' = head + 1
    /\ undone' = [undone EXCEPT ![p] = head + 1]
    /\ UNCHANGED landed

Reopen(p) ==
    /\ Fault("reopen")
    /\ pr[p] = "closed"
    /\ pr' = [pr EXCEPT ![p] = "open"]
    /\ UNCHANGED <<head, landed, undone, sent, pending, plan, log,
                   handler, messages, refresh, analyses, missed>>

(* A failed event is delivered again and processed again. *)
Redeliver(e) ==
    /\ Fault("redeliver")
    /\ e \in sent
    /\ pending' = pending \cup {e}
    /\ UNCHANGED <<github, plan, log, handler, messages, refresh,
                   analyses, missed>>

-----------------------------------------------------------------------------
(* record_pr_outcome and the webhook handlers that call it. *)

(* find_plan_for_pull_request finds the plan by its branch even before its *)
(* number is saved; a revert is matched with the merge commits on record.  *)
Matches(e) == e.outcome = "reverted" => plan[e.plan].sha

ReadPlan(h, e) ==
    /\ handler[h].pc = "idle"
    /\ e \in pending
    /\ Matches(e)
    /\ pending' = pending \ {e}
    /\ handler' = [handler EXCEPT
         ![h] = [pc |-> "record", event |-> e, history |-> plan[e.plan].history]]
    /\ UNCHANGED <<github, plan, log, messages, refresh, analyses, missed, faults>>

IgnoreRevert(h, e) ==
    /\ handler[h].pc = "idle"
    /\ e \in pending
    /\ ~Matches(e)
    /\ pending' = pending \ {e}
    /\ UNCHANGED <<github, plan, log, handler, messages, refresh,
                   analyses, missed, faults>>

(* _already_recorded, asked under the row lock of the profile. *)
AlreadyRecorded(e) == \E i \in DOMAIN log : log[i] = e

(* A refresh of the session is past its checks and has not ended. *)
Refreshing(s) == \E r \in Refreshers : refresh[r].session = s

(* Mutated form: every outcome is taken for a terminal one. *)
Outcome_AllTerminal(row, e, history) ==
    [row EXCEPT !.history = Append(history, e.outcome),
                !.sha = row.sha \/ e.outcome = "merged",
                !.terminal = e.outcome,
                !.at = Len(log) + 1]

(* _persist_plan_outcome_state, from the copy of the history. *)
Outcome(row, e, history) ==
    [row EXCEPT !.history = Append(history, e.outcome),
                !.sha = row.sha \/ e.outcome = "merged",
                !.terminal = IF e.outcome \in RefreshOutcomes THEN e.outcome ELSE row.terminal,
                !.at = IF e.outcome \in RefreshOutcomes THEN Len(log) + 1 ELSE row.at]

(* Mutated form: looks for the outcome in the plan read before the lock. *)
Record_NotLocked(h) ==
    LET e == handler[h].event IN
    /\ handler[h].pc = "record"
    /\ ~\E j \in DOMAIN handler[h].history : handler[h].history[j] = e.outcome
    /\ log' = Append(log, e)
    /\ plan' = [plan EXCEPT ![e.plan] = Outcome(plan[e.plan], e, handler[h].history)]
    /\ handler' = [handler EXCEPT
         ![h] = IF e.outcome \in RefreshOutcomes
                THEN [handler[h] EXCEPT !.pc = "refresh"] ELSE Idle]
    /\ missed' = IF e.outcome \in RefreshOutcomes /\ Refreshing(SessionOf[e.plan])
                 THEN missed \cup {SessionOf[e.plan]} ELSE missed
    /\ UNCHANGED <<github, pending, messages, refresh, analyses, faults>>

(* The transaction; what it registered with on_commit follows. *)
Record(h) ==
    LET e == handler[h].event IN
    /\ handler[h].pc = "record"
    /\ ~AlreadyRecorded(e)
    /\ log' = Append(log, e)
    /\ plan' = [plan EXCEPT ![e.plan] = Outcome(plan[e.plan], e, handler[h].history)]
    /\ handler' = [handler EXCEPT
         ![h] = IF e.outcome \in RefreshOutcomes
                THEN [handler[h] EXCEPT !.pc = "refresh"] ELSE Idle]
    /\ missed' = IF e.outcome \in RefreshOutcomes /\ Refreshing(SessionOf[e.plan])
                 THEN missed \cup {SessionOf[e.plan]} ELSE missed
    /\ UNCHANGED <<github, pending, messages, refresh, analyses, faults>>

(* Mutated form: the plan is saved before the check. *)
RecordedBefore_PlanFirst(h) ==
    /\ handler[h].pc = "record"
    /\ AlreadyRecorded(handler[h].event)
    /\ LET e == handler[h].event IN
       plan' = [plan EXCEPT ![e.plan] = Outcome(plan[e.plan], e, handler[h].history)]
    /\ handler' = [handler EXCEPT ![h] = Idle]
    /\ UNCHANGED <<github, pending, log, messages, refresh,
                   analyses, missed, faults>>

RecordedBefore(h) ==
    /\ handler[h].pc = "record"
    /\ AlreadyRecorded(handler[h].event)
    /\ handler' = [handler EXCEPT ![h] = Idle]
    /\ UNCHANGED <<github, pending, plan, log, messages, refresh,
                   analyses, missed, faults>>

(* refresh_analysis_after_session_prs.delay, after that of the profile's   *)
(* sync task.                                                              *)
EnqueueRefresh(h) ==
    /\ handler[h].pc = "refresh"
    /\ messages' = [messages EXCEPT ![SessionOf[handler[h].event.plan]] = @ + 1]
    /\ handler' = [handler EXCEPT ![h] = Idle]
    /\ UNCHANGED <<github, pending, plan, log, refresh, analyses, missed, faults>>

(* One delay() raises: the callbacks after it are dropped and the event    *)
(* fails; a redelivery finds the outcome recorded and enqueues nothing.    *)
EnqueueRaises(h) ==
    /\ Fault("queue")
    /\ handler[h].pc = "refresh"
    /\ missed' = missed \cup {SessionOf[handler[h].event.plan]}
    /\ handler' = [handler EXCEPT ![h] = Idle]
    /\ UNCHANGED <<github, pending, plan, log, messages, refresh, analyses>>

HandlerCrash(h) ==
    /\ Fault("crash")
    /\ handler[h].pc # "idle"
    /\ missed' = IF handler[h].pc = "record" THEN missed
                 ELSE missed \cup {SessionOf[handler[h].event.plan]}
    /\ handler' = [handler EXCEPT ![h] = Idle]
    /\ UNCHANGED <<github, pending, plan, log, messages, refresh, analyses>>

-----------------------------------------------------------------------------
(* refresh_analysis_after_session_prs. *)

LoseMessage(s) ==
    /\ Fault("lose")
    /\ messages[s] > 0
    /\ messages' = [messages EXCEPT ![s] = @ - 1]
    /\ missed' = missed \cup {s}
    /\ UNCHANGED <<github, pending, plan, log, handler, refresh, analyses>>

AllTerminal(s) ==
    /\ Authored(s) # {}
    /\ \A p \in Authored(s) : plan[p].terminal # None

(* Mutated form: one refresh per session. *)
AlreadyRefreshed_Once(s) == latest[s] # None

(* The analysis on record is not older than the last terminal outcome. *)
AlreadyRefreshed(s) ==
    /\ latest[s] # None
    /\ \A p \in Authored(s) : created[latest[s]] >= plan[p].at

(* no_authored_prs, waiting_for_terminal_prs, already_refreshed *)
RefreshSkips(r, s) ==
    /\ refresh[r].pc = "idle"
    /\ messages[s] > 0
    /\ ~AllTerminal(s) \/ AlreadyRefreshed(s)
    /\ messages' = [messages EXCEPT ![s] = @ - 1]
    /\ UNCHANGED <<github, pending, plan, log, handler, refresh,
                   analyses, missed, faults>>

RefreshStarts(r, s) ==
    /\ refresh[r].pc = "idle"
    /\ messages[s] > 0
    /\ AllTerminal(s) /\ ~AlreadyRefreshed(s)
    /\ messages' = [messages EXCEPT ![s] = @ - 1]
    /\ refresh' = [refresh EXCEPT
         ![r] = [pc |-> "clone", session |-> s, commit |-> None]]
    /\ UNCHANGED <<github, pending, plan, log, handler, analyses, missed, faults>>

RefreshClones(r) ==
    /\ refresh[r].pc = "clone"
    /\ refresh' = [refresh EXCEPT
         ![r] = [pc |-> "store", session |-> refresh[r].session, commit |-> head]]
    /\ UNCHANGED <<github, pending, plan, log, handler, messages,
                   analyses, missed, faults>>

(* store_analysis: update_or_create on the commit, created_at stays. *)
RefreshStores(r) ==
    LET c == refresh[r].commit IN
    /\ refresh[r].pc = "store"
    /\ created' = [created EXCEPT ![c] = IF @ = None THEN Len(log) ELSE @]
    /\ refresh' = [refresh EXCEPT ![r].pc = "save"]
    /\ UNCHANGED <<github, pending, plan, log, handler, messages,
                   baseline, latest, missed, faults>>

RefreshSaves(r) ==
    /\ refresh[r].pc = "save"
    /\ latest' = [latest EXCEPT ![refresh[r].session] = refresh[r].commit]
    /\ refresh' = [refresh EXCEPT ![r].pc = "promote"]
    /\ UNCHANGED <<github, pending, plan, log, handler, messages,
                   created, baseline, missed, faults>>

RefreshPromotes(r) ==
    /\ refresh[r].pc = "promote"
    /\ baseline' = refresh[r].commit
    /\ refresh' = [refresh EXCEPT ![r] = Resting]
    /\ UNCHANGED <<github, pending, plan, log, handler, messages,
                   created, latest, missed, faults>>

(* The analysis raises and nothing retries the task, or its worker dies. *)
RefreshStops(r) ==
    /\ refresh[r].pc # "idle"
    /\ Fault("crash") \/ (Fault("error") /\ refresh[r].pc \in {"clone", "store"})
    /\ missed' = missed \cup {refresh[r].session}
    /\ refresh' = [refresh EXCEPT ![r] = Resting]
    /\ UNCHANGED <<github, pending, plan, log, handler, messages, analyses>>

-----------------------------------------------------------------------------
People ==
    \/ \E p \in Plans :
         RecordSuccess(p) \/ Merge(p) \/ Close(p) \/ Revert(p) \/ Reopen(p)
    \/ \E p \in Plans, o \in Remarks : Remark(p, o)
    \/ \E e \in Event : Redeliver(e)

HandlerStep(h) ==
    \/ \E e \in Event : ReadPlan(h, e) \/ IgnoreRevert(h, e)
    \/ Record(h) \/ RecordedBefore(h)
    \/ EnqueueRefresh(h)

RefreshStep(r) ==
    \/ \E s \in Sessions : RefreshSkips(r, s) \/ RefreshStarts(r, s)
    \/ RefreshClones(r) \/ RefreshStores(r) \/ RefreshSaves(r) \/ RefreshPromotes(r)

Next ==
    \/ People
    \/ \E h \in Handlers : HandlerStep(h) \/ EnqueueRaises(h) \/ HandlerCrash(h)
    \/ \E r \in Refreshers : RefreshStep(r) \/ RefreshStops(r)
    \/ \E s \in Sessions : LoseMessage(s)

Spec == Init /\ [][Next]_vars

(* Workers take what is there and go on; people and GitHub need not.       *)
Fairness ==
    /\ \A h \in Handlers : WF_vars(HandlerStep(h))
    /\ \A r \in Refreshers : WF_vars(RefreshStep(r))

FairSpec == Spec /\ Fairness

-----------------------------------------------------------------------------
(* The profile and the plans. *)

(* "Idempotent on (plan, outcome)": however events are delivered again and *)
(* whichever workers meet, the log has an outcome of a plan once.          *)
LoggedOnce == \A i, j \in DOMAIN log : log[i] = log[j] => i = j

(* Where the log has a terminal outcome of the plan. *)
Terminals(p) ==
    {i \in DOMAIN log : log[i].plan = p /\ log[i].outcome \in RefreshOutcomes}

(* The terminal outcome of a plan is the last one the profile learned, and *)
(* its time is the time of that entry: a redelivered event that comes late *)
(* never takes a plan back to an earlier outcome.                          *)
PlanAgreesWithLog ==
    \A p \in Plans :
        /\ plan[p].terminal = None <=> Terminals(p) = {}
        /\ Terminals(p) # {} =>
             /\ plan[p].at \in Terminals(p)
             /\ \A i \in Terminals(p) : i <= plan[p].at
             /\ log[plan[p].at].outcome = plan[p].terminal

(* The outcomes in q are outcomes of the plan in the log, in its order.     *)
Sublog(p, q) ==
    /\ \A j \in DOMAIN q : AlreadyRecorded([plan |-> p, outcome |-> q[j]])
    /\ \A j, k \in DOMAIN q : \A i, l \in DOMAIN log :
          /\ j < k
          /\ log[i] = [plan |-> p, outcome |-> q[j]]
          /\ log[l] = [plan |-> p, outcome |-> q[k]]
          => i < l

(* What the copy read before the lock cannot spoil: the history of a plan  *)
(* has outcomes that were recorded, none of them twice, in the order in    *)
(* which they were recorded, and the newest one at its end.  Only older    *)
(* ones may be missing.                                                    *)
HistoryFollowsLog ==
    \A p \in Plans :
        LET q == plan[p].history IN
        /\ Sublog(p, q)
        /\ \A i \in DOMAIN log : log[i].plan = p =>
              /\ Len(q) \in DOMAIN q
              /\ \E l \in DOMAIN log :
                    i <= l /\ log[l] = [plan |-> p, outcome |-> q[Len(q)]]

-----------------------------------------------------------------------------
(* The refresh. *)

(* The change a terminal outcome stands for is in the analysed commit.     *)
Covers(s) ==
    /\ latest[s] # None
    /\ \A p \in Authored(s) :
         /\ plan[p].terminal = "merged" => landed[p] <= latest[s]
         /\ plan[p].terminal = "reverted" => undone[p] <= latest[s]

(* "When all Gardener-authored PRs from the session are merged or closed,  *)
(* Gardener runs a post-PR refresh": when every authored pull request has  *)
(* its terminal outcome, the session gets an analysis that has seen them   *)
(* all, unless a refresh was missed: its message or its worker was lost,   *)
(* the outcome came during another refresh or before the plan was authored. *)
RefreshedUnlessMissed ==
    \A s \in Sessions :
        AllTerminal(s) ~> (Covers(s) \/ ~AllTerminal(s) \/ s \in missed)

(* Somebody is still going to see to the refresh of the session: a worker  *)
(* about to enqueue it, a message, or a refresh that has not saved yet.    *)
RefreshDue(s) ==
    \/ \E h \in Handlers :
          handler[h].pc = "refresh" /\ SessionOf[handler[h].event.plan] = s
    \/ messages[s] > 0
    \/ \E r \in Refreshers :
          refresh[r].session = s /\ refresh[r].pc \in {"clone", "store", "save"}

(* The same without a clock: when nothing is due any more, the analysis on *)
(* record has seen every terminal outcome.  No message is answered         *)
(* "already_refreshed" by an analysis that is older than an outcome, and   *)
(* none of several refreshes leaves an older analysis behind.              *)
CoveredUnlessMissed ==
    \A s \in Sessions :
        AllTerminal(s) /\ ~ RefreshDue(s) => Covers(s) \/ s \in missed

-----------------------------------------------------------------------------
(* What a document of the repository says of the plan, and the interleaving *)
(* of two workers refutes.                                                 *)

(* "append-only outcome history": the history of a plan has every outcome  *)
(* that was recorded for it.                                               *)
HistoryComplete ==
    \A i \in DOMAIN log :
        \E j \in DOMAIN plan[log[i].plan].history :
            plan[log[i].plan].history[j] = log[i].outcome

=============================================================================
