# Codebase Gardener: TLA+ models and proofs

This directory holds models of the concurrent core of the Codebase Gardener
backend (`src/backend/apps`), the configurations that check them with TLC, and
proofs that TLAPS checks. The backend is a Django application with Celery
workers and a beat process. Its state is in PostgreSQL, its messages are in a
Redis broker, its effects are on GitHub. Most actors read a row, decide, talk to
somebody else and save some columns later, without a lock or a version. That is
where the hard behaviour is, and what the models are about.

Run a configuration `X.cfg` of module `MCm` with
`tlc -workers 2 -config X.cfg MCm`, check a proof module with `tlapm`.
`PROJECT.json` lists the runs, the source lines of every definition, one mutated
form for each checked property, the hazards and the theorems.

## The system

| component | state it keeps | operations | what is hard | what makes it correct |
| --- | --- | --- | --- | --- |
| gardening session (`sessions`, `triggers`) | `GardeningSession` row: status, started/finished, retry count, task id | enqueue for a trigger, worker task with retries, cancel, requeue of orphans by the beat task | row without lock or version, lost messages, dead workers, late messages, revoke that reaches nobody | a session that ended and has nobody left to run it stays ended, a cancel stays, every active session ends, one active session per subject |
| plan executor (`maintenance_prs/executor.py`) | `MaintenancePRPlan`: execution status, branch name, PR number; branches and PRs on GitHub | claim, create or reuse branch, marker file, file fixes, open PR, record | lease instead of lock, crash between any two GitHub calls, lost answers, name collisions, policy changes | own branches only, one PR per plan, no empty PR, success recorded for the PR there is |
| webhook deliveries (`github_app/views.py`, `tasks.py`, `services.py`) | `GitHubWebhookEvent` row: status | ingest, queue, claim under a row lock, route, settle | redelivery, unconditional saves, retry after half the effects | one worker per event, settled stays settled, effects once |
| commit window (`triggers/service.py`) | `RepositoryCommitTracker.commits_since_session` | UPDATE, SELECT, reset; reset at promotion | three statements that pushes interleave | no full window is left over |
| outcome learning (`profiles/learning.py`) | `GardenerProfile` log and lists; outcome columns of the plan | record an outcome, enqueue sync and refresh on commit | events in any order and twice, copies read before the lock, two callbacks of which the first may raise | each outcome learned once, plan and log agree, history complete |
| post-PR refresh (`sessions/tasks.py`, `analysis`) | `RepositoryAnalysis` rows, baseline, `post_pr_refresh_analysis` | check, clone, store, save, promote | minutes between check and save, several refreshes at once | when all PRs of a session have ended it has an analysis that has seen them |
| planner (`maintenance_prs/planner.py`) | plans of a session | rank, group, block, name branches, save in one transaction | what happens to one opportunity depends on the groups made before it; rolled back and run again | one plan per opportunity, disjoint paths, bounded size, distinct names, nothing forgotten |
| session pipeline (`sessions/tasks.py`, `analysis`) | baseline, drift report, approvals, result | read the baseline, clone, compare, plan, approve up to a cap, execute, promote | baseline read at the start and replaced at the end, minutes apart; sessions and refreshes overlap; repeated as a whole after a crash | nothing slips under the baseline unplanned, drift looks forward, sessions do not repeat plans, the cap, no plan left over without a report |
| profile sync, constitution PR | a shared branch on GitHub | render, put file, open PR | two tasks, stale snapshot | the proposed file is the profile |
| billing, repositories, accounts | rows edited by single requests | HTTP views, provider webhooks | little concurrency | entitlement checks |
| analysis engine, RepoWise, frontend | none shared | scoring, rendering | none of a model checker's kind | of the engine, drift against the baseline (`Changes` in `SessionPipeline`) |

How they interact: triggers (webhooks, the beat schedule, people) call the
trigger service, which creates a session and publishes its task. The task runs
the analysis, plans, approves, executes plans, and promotes a baseline, which
resets the commit window. Pull requests come back as webhooks; those record
outcomes, and terminal outcomes enqueue the post-PR refresh, which promotes a
baseline again. The trigger service is called inside the routing of a webhook,
so it can fail in the middle of it.

## Modules

| module | models | state and actions |
| --- | --- | --- |
| `GardeningSession` | the session row and its actors | `row` is the table; `task` the Celery messages and runs; `req`, `can`, `orphans` are trigger calls, cancel calls and the beat task between their read and their save. `Enqueue*`, `Task*`, `Cancel*`, `Requeue*` follow the statements of `enqueue_session_for_trigger`, `run_gardening_session`, `cancel_session` and `requeue_orphaned_sessions` |
| `PullRequestLedger` | what the executor promises | two functions, two actions: open, record |
| `PlanExecution` | `execute_maintenance_pr_plan` | `plan` rows, `ref` branches on GitHub, `exec` calls with their local variables; one action for each step that changes a row or GitHub. `opened` and `recorded` map it to the ledger |
| `WebhookDelivery` | endpoint, event row, routing of pushes, commit window | `event`, `queue`, `web`, `work`, `tracker`; `counted` and `overlapped` are history; `credited` and `outcome` map it to the ledger |
| `PushLedger` | what the webhooks promise | the pushes counted, the outcome of each delivery, the deliveries nothing is promised of; four actions: credit, settle, return, waive |
| `SessionPipeline` | what `run_gardening_session` does between its first and last save, for all sessions and refreshes of a repository | `pc`, `base` (`session.baseline_analysis`), `commit`, `todo`, `at`, `approved`, `errors` are a run; `plan`, `baseline`, `head` are shared; `runs`, `before`, `swept`, `movedBack`, `passed` are history. `Start`, `Clone`, `Select`, `Plan`, `Approve`, `ListPlans`, `Execute*`, `Promote`, `Complete` are the steps that commit, `Crash`, `Retry`, `Fail`, `Cancel` what cuts a run short |
| `MaintenancePlanner` | `plan_maintenance_prs` | `waiting`, `groups`, `forced` are the loop, `drafts` the open transaction, `plans` the rows. One action for each branch of the loop, one for each row, one for the commit |
| `OutcomeLearning` | outcomes, profile log, post-PR refresh | `plan`, `log`, `handler`, `messages`, `refresh`, `created`, `latest`, `baseline`; GitHub's side is `pr`, `head`, `landed`, `undone`, `sent` |
| `MC*` | values for TLC | |
| `*Proofs` | theorems | |

The modules meet at calls: a call of the trigger service inside
`WebhookDelivery` succeeds or raises, and what follows is `GardeningSession`; a
terminal outcome of `OutcomeLearning` is an event that `WebhookDelivery` hands
to a worker; `RecordSuccess` is the same statement in `PlanExecution` and
`OutcomeLearning`. `SessionPipeline` opens the one step that a session's work is
in `GardeningSession`: that a session has one worker at a time is an assumption
it makes (a message that is late or a worker that is silent for longer than the
windows of the beat task breaks it, as `GardeningSession` shows), how a plan may
be refused or end comes from `PlanExecution`, and it uses
`MaintenancePlanner` through what that promises (`SelectionKept`
is `Selections` said of groups and rows, `NothingDropped` says that every
opportunity is in it). Each module lets
its neighbours do whatever the neighbour's module allows.

`Faults` is a constant of every module: the set of things the environment may
do (workers that die, messages that are lost, calls that raise, answers that are
lost, leases that run out). The steps of the code are never optional. A
definition that ends in `_Something` under a comment "Mutated form" is a
plausible mistake in the definition below it; the specifications do not use it.

### Abstractions

- Time. In `GardeningSession` any time may pass between two steps, so the beat
  task may find a row of either orphan shape at any moment, also while its
  message waits or its worker works. It has one list at a time, which a `delay()`
  that raises drops (`RequeueAborts`). In `PlanExecution` a lease runs out when its holder is gone; with
  `stall` also while it works. In `OutcomeLearning` the length of the log is the
  clock; the instant between `timezone.now()` in a transaction and its commit is
  not told apart.
- In `GardeningSession` the pipeline inside a session is one step that completes,
  fails or retries; `SessionPipeline` has its steps.
- In `SessionPipeline` commits are numbers and an analysis is its commit. `Worse`
  gives the commits with a new or worse signal on the paths of an opportunity;
  ids are stable (`opp_<category>_<module>`), so an opportunity that is known may
  be drift again. Signals do not improve: pull requests are closed unmerged, the
  case in which what they were about can be planned again. A plan is about one
  opportunity. The autonomy mode may change at any time: `Holds` are the sets of
  plans a mode keeps back when plans are saved and when they are listed, and
  `ExecuteRefused` covers what the guard and the claim refuse after that. A refresh is not repeated after a
  failure, as in the code. The plan a person describes (`manual_plan`), fixture
  reports, the constitution pull request and progress payloads are left out; the
  reset of the commit tracker is in `WebhookDelivery`.
- In `MaintenancePlanner` ranks are left out: any waiting opportunity may be the
  next. The list of opportunities is a set, that is, their ids are distinct. Ids
  are made of a category and a slug of the module name, so two modules that
  differ in punctuation or case only would share one; the unique constraint
  `unique_pr_plan_opportunity_per_repo_session` then rolls the transaction back. Category and risk tier are one value. What `evaluate_policy` and the
  autonomy mode decide is chosen at the start and kept.
- Plans exist and are approved from the start; confidence is high enough. A
  claim is one UPDATE; the guard before it can only refuse earlier what the
  UPDATE refuses too. `refresh_from_db` is part of the claim. Any worker may
  claim any claimable plan at any time, which covers sessions that are started
  over and requests of people.
- A branch is its maker, marker and changed files. Reading, comparing and
  putting one file is one step, because only the plan that made a branch writes
  to it. Pull requests stay open and branches are not deleted. Candidate lists
  have at most three names where the code tries `BRANCH_COLLISION_ATTEMPTS`
  (10). An exception outside the `try` leaves the plan RUNNING and is a `Crash`.
- Webhooks are those of one repository with the commit trigger enabled and a
  fixed threshold. Signatures are checked before the state and left out. Events
  that are not pushes are routed in one step. `MaxCalls` bounds redelivery.
- An outcome event finds its plan (branch names are saved before the pull
  request is opened). The category lists and protected patterns of the profile
  are functions of its log and left out. Only the post-PR refresh stores
  analyses; the commit of the plans' own session is there from the start. A
  reverted revert is not modelled.
- Reading the session and its plans in the check of a refresh is one step.

## Runs

| run | instance | what it shows |
| --- | --- | --- |
| `session_faults` | 1 session, trigger, cancel, beat task, 2 task ids, 1 retry, two faults of any kind, any delay, fair | `FinishTime`, `QuietCancelIsFinal`, `QuietEndIsFinal`, `StrandedIsForGood`, `ActiveEndsUnlessRetryLost`; `TypeOK` bounds the retries |
| `session_dedupe` | 2 trigger calls for one subject, no fault | violated: `OneActivePerSubject` |
| `session_retry_lost` | 1 session, one crash, fair | violated: `ActiveEnds` |
| `plan_ledger` | 2 sibling plans whose suffixed names collide, a foreign branch, 2 workers, crashes, errors, lost answers, policy changes, no expired lease of a live worker | `BranchOwnership`, `UniqueBranchNames`, `NoEmptyPullRequest`, `OneExecutor`, `OnePRPerPlan`, `ImplementsLedger` |
| `plan_rerun` | 1 docs plan, 2 files, one worker dies | violated: `RerunFindsPullRequest` |
| `webhook_serial` | a push and another event, up to 3 calls for each, 2 web processes, 2 workers, every fault: crashes, losses, errors, a raising queue and trigger service, redeliveries that do not wait | `OneProcessor`, `ImplementsPushLedger` |
| `webhook_progress` | 2 pushes, overlapping redeliveries, raising queue and trigger service, fair | `NoFullWindowLeft`, `Attended`, `EventHandled` |
| `learning_faults` | 1 pull request, 2 workers of each task, every fault kind, one at a time | `LoggedOnce`, `PlanAgreesWithLog`, `HistoryFollowsLog`, `CoveredUnlessMissed` |
| `learning_progress` | 2 pull requests of one session, 2 workers of each task, one crash, loss or raise, fair | `RefreshedUnlessMissed` |
| `learning_history` | 1 pull request, a failed CI run and an end, 2 workers | violated: `HistoryComplete` |
| `pipeline_baseline` | an automatic and a manual session, a refresh, 3 opportunities of which 2 share a path and 1 gets worse twice, 3 commits, cap 1, any refusal, a mode that may hold a plan back, one crash, retry, failure or cancel | `NothingSlips`, `DriftLooksForward`, `BackOnlyWhenOvertaken`, `NoRepeatedPlan`, `CapPerRun`, `NothingUnreported` |
| `planner_grouping` | 3 opportunities in any order, 2 concerns, 2 paths, 1 slug, groups of 2, the session run twice, any interruption | `PlannedOnce`, `NoInterference`, `OneConcern`, `SelectionKept`, `NothingDropped` |

The component's type invariant is checked in one run of each.

Why the bounds are enough to be of interest. Every race named below needs two
actors, at most one fault and at most one retry or redelivery; each run has two
of the actors its properties speak of, a retry (`MaxRetries = 1`), and a fault or
two. In `session_faults` a task id that is free again stands for a new one, so
two are enough for a message and its repetition by the beat task, again and
again; a second session would not meet the first, because no step of one session
reads the row of another but the dedupe query, which `session_dedupe` is about.
In `webhook_serial` the push can be given back, overlapped, lost and settled, and
the other event shows that one delivery's overlap leaves another alone.
`plan_ledger` has the names `a`, `a-2`, `a-3` and
`a-2-2`; `a` is a stranger's, so that a plan falls back on a suffixed name that is
also the planned name of its sibling. Names that meet a branch of a plan of
another session are beyond this instance; `BranchOwnershipTheorem` covers them. In
`pipeline_baseline` a session, another one and a refresh
are enough for a job that is overtaken by one that is overtaken itself; the
manual session meets a backlog (`i`), a path conflict (`x`, `y`) and an
opportunity that gets worse again (`x`), and a cap of one is reached by two
plans. In `planner_grouping` three opportunities make a full group and one that
does not fit, a conflict with a group, and a conflict with a group that is
itself deferred; the one slug makes every branch name collide. The
threshold 2 with pushes of one and two commits makes a window that is filled
exactly, one that is filled by one push and one that is filled by two.
`MaxHead = 2` lets one pull request be merged and reverted, or two be merged.
Symmetry is used only in runs without liveness, for sets of which neither the
configuration nor a property tells the members apart. Every action fires in a
passing run. Deadlock is not checked: when nobody triggers and everything has
ended the system rests.

### Fairness

Fairness is weak fairness of the code's own steps: a worker takes a message
that is there and goes on with what it began, a web call goes on to its answer,
the beat task runs again. What it must find is a row that nobody is going to save
any more: `updated_at` of that one only gets older, whereas a row with a message
or a worker may be saved before its window is over. Celery and the beat schedule
do this as long as processes live, and no step is disabled again and again by
others: each step of a call depends on that call alone. People, GitHub's redeliveries and faults are
never required. `ActiveEndsUnlessRetryLost` and `RefreshedUnlessMissed` admit
losses by name, so fairness does not hide them.

### Where the code and its documents disagree

Four runs show it.

- `session_dedupe`: the dedupe query and the create are two statements
  (`triggers/service.py:65-79`), and nothing on the table forbids two active
  sessions of one subject. The module says that it "deduplicates against active
  sessions" (line 5).
- `session_retry_lost`: a retry is a save (`sessions/tasks.py:247-250`) and a
  publish. A worker that dies between them leaves a QUEUED row with `started_at`
  set, which no shape of `requeue_orphaned_sessions` matches; the session never
  runs and blocks its subject.
- `plan_rerun`: a docs plan whose worker died after opening the pull request
  finds every note in place when started over, counts no changed file and fails
  before it looks for the pull request.
- `learning_history`: `outcome_history` is appended to a copy read before the
  lock, so of two outcomes at once one is lost.

Others are exceptions that a property makes by name, or show when a constant is
changed.

- A session may have two workers, and the model has it: a message that waits
  behind a busy worker longer than the grace period is joined by a second one, a
  worker that saves no progress for the stale window gets a second one beside it,
  and `run_gardening_session` refuses only canceled sessions. So a session that
  is completed may run again; `QuietEndIsFinal` says from when on it may not.
- `TaskStart` saves RUNNING over a cancel that came after its status check, and
  `CancelSave` saves CANCELED over a session that ended after its own; hence
  "quietly" in `QuietCancelIsFinal` and the exception in `QuietEndIsFinal`. A
  retry saved over either leaves QUEUED with a `finished_at`, the exception in
  `FinishTime`.
- Add `stall` to `plan_ledger`: `OnePRPerPlan` fails. Nothing renews the lease
  while the AI author works.
- An event goes back to RECEIVED when the trigger service raises, after its
  commits may have been counted, and they are counted again (`Return` of the
  ledger). A delivery that GitHub calls again before the earlier call has ended
  may have two workers and be settled twice, because the endpoint saves QUEUED
  from a copy (`Waive`). Take either action out of `PushLedger` and
  `webhook_serial` fails.
- Take `s \in missed` out of `RefreshedUnlessMissed`: a revert recorded while a
  refresh runs is older than the analysis that was cloned before it, and is
  answered `already_refreshed`.
- The cap on autonomous plans (`docs/09-autonomy-and-automation-rules.md:109`)
  is counted by `_approve_auto_executable_pr_plans` per run of the task; hence
  `runs` in `CapPerRun`. A session that is started over approves up to the cap
  again, of what it finds anew.
- A session that is started over passes over opportunities it has a plan for, and
  approves only what it planned itself: plans that were saved and not yet
  approved stay PENDING for good, and a plan left RUNNING is skipped when its
  lease (30 minutes) outlives the grace period of its session (15). Hence
  `runs[s] > 1` in `NothingUnreported`. A plan that the executor refuses stays
  APPROVED when its session completes, with an error in its result; one that the
  autonomy mode kept from the list stays APPROVED without.
- The docstring of `_group_is_blocked` (`planner.py:342`) says an opportunity
  does not conflict with a group that will never produce a pull request. A group
  that the autonomy mode blocks is one when it is saved (line 118), yet defers
  others in the loop before; `SelectionKept` speaks of the policy only.

## Proofs

| module | theorems | under |
| --- | --- | --- |
| `GardeningSessionProofs` | `TypeCorrect`, `RetryBudgetHolds`, `QuietCancelTheorem`, `QuietEndTheorem`, `StrandedTheorem`, `FinishTimeTheorem` | every fault |
| `PlanExecutionProofs` | `TypeCorrect`, `BranchOwnershipTheorem`, `NoEmptyPullRequestTheorem`, `UniqueBranchNamesTheorem` | every fault |
| | `OnePRPerPlanTheorem` | `NoStall` |
| `PlanLedgerProofs` | `LedgerTheorem`: `Spec => ImplementsLedger` | `NoStall` |
| `WebhookDeliveryProofs` | `TypeCorrect`, `OneProcessorTheorem`, `SettledIsFinalTheorem`, `CountedOnceTheorem` | every fault |
| | `NoFullWindowTheorem` | no `crash`, no `error` |
| | `AttendedTheorem` | no `crash`, no `lose` |
| `PushLedgerProofs` | `PushLedgerTheorem`: `Spec => ImplementsPushLedger` | every fault |
| `OutcomeLearningProofs` | `TypeCorrect`, `LoggedOnceTheorem`, `PlanAgreesTheorem`, `HistoryTheorem`, `CoveredTheorem` | every fault |
| `SessionPipelineProofs` | `TypeCorrect`, `LooksForward`, `OvertakenOnly`, `NoSlip`, `NothingUnreportedTheorem`, `CapKept`, `NotPlannedTwice` | every fault |
| `MaintenancePlannerProofs` | `PlannerTypeCorrect`, `EachPlannedOnce`, `SelectedApart`, `PlansAreSmall`, `DeferredForGoodReason`, `SelectionTheorem`, `NameTheorem`, `AllPlanned` | |

They hold for every value of the constants the named assumptions of the modules
allow: any number of sessions, plans, workers, deliveries, any retry budget,
threshold and candidate lists. The assumptions on faults are hypotheses of the
theorems. The arguments:

- Session. The two "final" properties of rows that nobody stands for,
  `QuietEndIsFinal` and `StrandedIsForGood`, rest on one lemma, `LeftAlone`: a row
  without a task, a trigger call about to publish or an entry on the beat task's
  list, and of a shape that the orphan query does not match, gets none of them,
  and no save but a cancel's reaches it. Neither needs a bound on how late anybody
  is. `FinishTime` is made inductive by two facts: a worker that has saved RUNNING
  leaves `started_at` set, whoever saves next (`WorkerStarted`), and a row that is
  not there yet has no columns set (`AbsentIsEmpty`).
- Plan. `OwnInv` says of every branch that marker, files and writers belong to
  its maker, and of every call that the branch it settled on is its plan's;
  `BranchOwnership` and `NoEmptyPullRequest` follow. `NameInv` adds that a name
  a call is trying is no sibling's name: the list of siblings is stale, but a
  name that GitHub just let the plan create, or that carries its marker, cannot
  have become another's. `PRInv` adds the lock and that a plan with a pull
  request is named after its branch, so a re-run tries that name first. With
  these three a step opens the ledger's pull request, records it, or stutters.
  `OneExecutor` is a part of `PRInv` and no theorem of its own: where no lease of a
  live worker runs out it says little more than what the claim does.
- Webhook. `Serial` follows a delivery through web call, message and worker: as
  long as GitHub did not call it again before an earlier call had ended there is
  one of them at a time, and each determines the status of the row. A delivery
  that was called twice drops out of the invariant at that moment
  (`OverlapStays`), and no step for it touches the rest of another one. `CountInv`
  adds that a worker past the UPDATE does not return to it unless the trigger
  service gives the event back. `RouteInv` ties the place of a worker in its route
  to the ledger: before the UPDATE of a push its commits are owed, after it they
  are credited, and a worker that will save PROCESSED owes nothing, one that will
  save IGNORED has credited nothing. So the UPDATE is the ledger's credit, the last
  save its settling, a raise of the trigger service its return, the second call
  its waiver, and every other step stutters. `Attended` is inductive as it
  stands, with what `TypeOK` says of calls and workers. `NoFullWindowLeft` needs
  only that a full tracker has a worker that will compare or reset.
- Outcomes. Log and row are written in one transaction; `PlanAgreesWithLog`
  gives the terminal outcome a position in the log that no later entry beats.
  `CoveredUnlessMissed` rests on three invariants: `SentInv` (a merge or revert
  that is on record has happened on the default branch, and its commit does not
  change any more), `ClockInv` (an analysis is stored before it is saved, and is
  not younger than the log), and `FreshInv` for every session that is not marked
  as missed: a refresh that has cloned has seen every outcome on record, the
  analysis on record has seen every outcome that is not younger than it, and a
  session with nothing due is covered. A step that could break one of them makes
  a refresh due or marks the session. `HistoryTheorem` adds to
  `HistoryFollowsLog` that the copy a worker holds may be old but was such a
  history once (`CopyInv`), and that a history ends with the newest outcome of its
  plan (`EndsWithNewest`); appending to an old copy under the lock keeps both.
- Pipeline. `ForwardInv`: nothing is ahead of the branch, and what a job cloned
  is not behind the baseline it read before; the two direction properties
  follow. `SlipInv` strengthens `NothingSlips` to every baseline a job has read
  and says that what lies between it and the job's commit is selected, then
  planned, before the job may promote. `NoRepeatedPlan` needs `RangeInv` (without
  a step back the baseline is not behind a promoted analysis) and `OrderInv` (so
  a later session reads a baseline that is not behind its predecessor's commit).
  The cap is `CapInv`: what is approved fits into the runs before this one, plus
  what this one counts. `NothingUnreported` combines two: `FirstRunInv`
  follows a run that was never cut short from loop to loop, so that what is not
  decided is still in `todo` or under way; `ReportInv` says of every run that from
  the listing on an approved plan without a pull request is still to be handled,
  has an error of this run or was held back by the mode, and `ScanInv` that a
  session which planned does not become one that only sets a baseline.
- Planner. `GroupingInv` says that visited and waiting opportunities make up the
  fresh ones, that groups are disjoint, that open groups share no path, and that a
  deferred group has an open one it conflicts with; open groups only grow, so it
  keeps its reason. `DraftInv` carries that from groups to rows, `AttemptInv` keeps
  the runs of the session apart, and `PlansSpread` adds that no two opportunities
  of a plan share a path, which turns what is said of plans into `SelectionKept`.
  `Counters` is no restriction (`NameTheorem`): there are more numbers than used
  names, so by the pigeonhole principle one is free, and the least free one is
  what the code finds.

Only model-checked: the liveness properties, `ActiveEndsUnlessRetryLost`,
`EventHandled` and `RefreshedUnlessMissed`, which are outside what the prover
can do. What can go wrong with them for good is proved: `AttendedTheorem` and
`CoveredTheorem` say in which states nothing more is going to happen to an event
or a session, `StrandedTheorem` that the exception of `ActiveEndsUnlessRetryLost`
is one no step repairs. Every safety property of a passing run is a theorem, but
for `OneExecutor`. The theorems also cover what the runs leave out: `RetryBudget`, that a settled
delivery stays so (`SettledIsFinalTheorem`) and how often it is counted
(`CountedOnceTheorem`), branch properties with expired leases of live workers,
any number of concurrent triggers, workers and deliveries, groups of three.

## Not modelled

See the components with that status in `PROJECT.json`.

- Profile sync (`profiles/sync.py`). Each task loads the profile, reads the sha of
  the proposed file and puts its text. Of two tasks the one that loaded first may
  write last; the next outcome writes the file again. The code promises no order,
  and reads the sha right before the put, so there is no property that the code
  could break and a model of it would show nothing.
- Constitution pull request. A best-effort call on a branch of its own that
  swallows its errors; nothing reads its result.
- Billing, repositories and accounts: rows edited by single requests and provider
  webhooks, apart from the session machinery.
- The analysis engine, the AI author and the frontend compute on text and share
  no state; of the engine `SessionPipeline` uses what is new or worse since a
  commit. The vendored RepoWise runs as a subprocess. These are most of the
  repository's lines.
- `execute_pr_plan` has no caller; it is one more worker of `PlanExecution`.

## Plan

Done: 1 `GardeningSession`; 2 `PlanExecution` with `PullRequestLedger`;
3 `WebhookDelivery`; 4 `OutcomeLearning` with the post-PR refresh;
5 `SessionPipeline` with the baselines; 6 `MaintenancePlanner`, proved.

What could follow: the plan of a person (`manual_plans.py`) as one more source
of plans in `SessionPipeline`, installation and repository events in
`WebhookDelivery`, and two workers on one session in `SessionPipeline`.
