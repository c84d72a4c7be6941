# Models and proofs of the WiSense OS engine

WiSense OS is a desktop workspace around a local HTTP engine (`wisense_os/`): a user asks for a
change of a project, the engine drafts a plan, has a model write a full-file rewrite of the planned
files, shows the diff, and after an approval writes the files, runs the named tests, repairs at most
once, and commits or restores. This directory holds TLA+ models of the parts of the engine whose
correctness depends on the order in which threads, files, model calls, failures and restarts come
together, the TLC instances that check them, and proofs for TLAPS.

Run a check with `tlc -config <Run>.cfg <Module>.tla`, the proofs with `tlapm <Module>.tla`.
`PROJECT.json` is the index: components, runs, mutants, the map from every definition to the lines
it models, findings, hazards and theorems.

## 1. Inventory

| Component | State it keeps | Operations | Talks to |
|---|---|---|---|
| Task coordinator (`service.py`) | one in-process lock `_execution_lock` | `submit`, `prepare_proposal`, `approve`, `cancel`, `delete_task`, `execute`, `continue_with_provider_input` | store, executor, budget ledger |
| Task store (`store.py`) | SQLite tables `tasks`, `task_plans`, `task_proposals`, `task_approvals`, `task_events`, `projects`; one connection and one transaction per call | row reads and writes, `mark_interrupted_runs` at start, `append_event` | - |
| HTTP API (`api.py`, `bootstrap.py`) | none of its own | a threaded Flask server: one thread per request, and daemon threads started for `execute` and provider input; `plan-draft` and `stream` do their work in the request thread without the lock | coordinator, store, ledger |
| Patch executor (`patch_executor.py`, `workspace.py`, `patch_protocol.py`, `patch_limits.py`, `proposal.py`) | the project's files and its git history; a snapshot in memory during an apply | `propose`, `apply_proposal`, `run`, `chat` | model adapter, pytest and git as subprocesses |
| Budget ledger (`budget.py`) | one JSON file | `reserve`, `reconcile`, `release`, `snapshot` | called by coordinator and plan-draft route from any thread |
| Event stream (`api.py:528-566`) | the last sequence number and status it has sent | polls the store every 2 s, 90 times | store |
| Plan drafting (`plan.py`, `explore.py`, `file_finder.py`, `project_resolution.py`) | none | ladder from a named file to a found one, its test, the plan | project files |
| Intent, routing, model policy (`intent.py`, `router.py`, `model_policy.py`) | model profiles | deterministic floor merged with a model's opinion; offline and autopilot rules | model adapter |
| Agentic exploration (`agentic_explore.py`, `exploration_tools.py`) | turn and size budgets of one loop | tool calls a model asks for, read only | model adapter, project files |
| Qualification (`qualification.py`) | one JSON file | baseline records, offline corpus run | executor on scratch projects |
| Desktop client (`client/lib`) | the composer's current task, plan and proposal; the history list; a poll timer | one HTTP request per button, polls, late answers | HTTP API |

What makes them correct, and what is hard about it:

* **Coordinator and store.** Files are written only for what the user approved; an approval is used
  once; a task shown as running is being run; a canceled or interrupted task stays that way; every
  run comes to a recorded end. Hard because model calls, tests and file writes happen outside the
  lock, a request decides on a status it read before it waited, a record is several transactions,
  events can clash, and the process can die between any two of these.
* **Executor.** A change takes effect in all its files after tests of exactly that text, or not at
  all. Hard because each of several writes, tests, restores, model calls and the commit can fail, the
  exception handler restores as well, and the user's editor and a second run share the files.
* **Budget ledger.** The sum of confirmed and reserved money stays under the cap and tells the truth
  about running calls. Hard because the file is read and rewritten without a lock, is empty between
  truncation and write, and settling happens outside every `try`.
* **Event stream, client.** Every client comes to see the final status with its event; an answer that
  arrives late does not replace newer knowledge. Hard because of read order and overlapping awaits.
* **Pure parts** (drafting, intent, routing, policy). Refusals cannot be talked away: a model's opinion
  never lowers the deterministic floor, offline never picks a cloud model, a plan names a real test.

## 2. Modules

| Module | Models | State and code |
|---|---|---|
| `TaskCoordinator` | `service.py` on `store.py`, driven by the routes of `api.py` | `status`, `plan`, `proposal`, `approval` are the tables; `lock`, `pc`, `task`, `seen`, `cand`, `result` are the threads of one engine process; `granted`, `unspent` are history. One action per handler, or per stretch of a handler between two points where another thread or the death of the process can come in: taking the lock, one store write, one executor call. |
| `MCTaskCoordinator` | - | symmetry for TLC |
| `TaskCoordinatorProofs` | - | the proofs of section 5 |
| `TaskLife` | what every reader of the store can rely on about a task: its status, plan and proposal, without threads and lock | abstract specification; a `ticket` is an approval no run has taken yet. `TaskCoordinator` implements it (`TheLife` is the instance; the ticket is the history variable `unspent`), `TaskComposer` is composed with it. |
| `TaskLifeProofs` | - | the proof that every step of `TaskCoordinator` is a step of `TaskLife` or a stutter |
| `EventStream` | `append_event` of `store.py` and the `stream` route of `api.py` | `status`, `log` are the tables; `script`, `slot` are a writing thread (what it still has to write; the sequence number its `append_event` has read); `place`, `local` are the generators of the streams. A step is one SQL statement or one `yield`. |
| `EventStreamProofs` | - | the proofs of section 5 |
| `TargetResolution` | `file_finder.py`, `plan.py` | operators only: what the ladder may say of a text on a disk, and what the drafters make of it. `Filename` and `PyFile` are the two patterns that read names in a text (`file_finder.py:15`, `plan.py:20`), `Means` is what the user meant |
| `ModelPolicy` | `model_policy.py`, `router.py`, `intent.py` | operators only: validation, recommendation, floor and merge of an intent |
| `PlanDrafting` | `submit`'s check of models and the `plan-draft` route with `locate_target_with_exploration` | `request`, `status`, `plan` are the task's rows, `disk` the project; `at`, `turn`, `held`, `why`, `intent` are the locals of the route; `answer`, `advice`, `located` are history. One action per model call or drafter, and one for a route that raises. |
| `MCPlanDrafting` | - | files, texts, requests and projects of the instance |
| `PlanDraftingProofs` | - | the proofs of section 5 |
| `TaskComposer` | `task_composer_controller.dart` beside `TaskLife` | `result`, `activePlan`, `activeProp`, `polling` are the controller's fields; `call` holds the client functions between two awaits, with the answer on its way; `threads` are the execute threads of the engine; `seen` is history. What a Dart callback does between two awaits is one step. |
| `TaskComposerProofs` | - | the proofs of section 5 |
| `PatchExecutor` | `patch_executor.py` and the modules under it | `disk`, `head`, `cache` are the project (files, last commit, bytecode); `pc`, `plan`, `cand`, `todo`, `snap` are the locals of one `propose`/`apply_proposal`; `outcome` is the returned result. One action per file written or restored, per model call, test run and commit. |
| `AtomicPatch` | what the user is told of one reviewed change | abstract specification: the files get one candidate in all of them, or stay |
| `MCPatchExecutor` | - | plans of the instances, the refinement mapping to `AtomicPatch` |
| `PatchExecutorProofs`, `PatchRefinementProofs` | - | the proofs of section 5 |
| `BudgetLedger` | `budget.py` with all of its callers | `file` is `budget.json`, `pc`, `page`, `then` are the threads; a step is one read, one truncation, one write or the model call |
| `MCBudgetLedger` | - | costs and prices of the instances |
| `BudgetLedgerProofs` | - | the proofs of section 5 |

How they fit: `TaskCoordinator` treats the executor as a call that may begin to write
(`ExecutorWrites`) and returns some verdict (`ExecutorReturns`); `PatchExecutor` is what happens in
between. `TaskCoordinator` lets a settlement raise (`LedgerRaises`); `BudgetLedger` shows when it does.
`AtomicPatch` is the summary of `PatchExecutor` that a composition with the coordinator needs, and
`TaskLife` the summary of `TaskCoordinator` that the client is composed with: `TaskComposer` uses its
actions as what the engine does. `PlanDrafting` is what happens inside the plan draft that is one step
(`DraftPlan`) of `TaskCoordinator`; `EventStream` looks at the two writes that a recorded status is.

Definitions named "Variant" in the modules are plausible slips of the code; the mutants in
`PROJECT.json` put them in the place of the definition that follows them, and the property named there
is then violated. No specification uses them.

## 3. Runs

Passing runs:

| Run | Instance | What it shows |
|---|---|---|
| `MCCoordinatorOneTask` | one ask-before-changes task, three threads, two plans, two texts, 3 propose or provider requests, 1 restart | Overlapping proposals, a plan drafted again after the approval, repeated approvals and a restart: a thread writes only files approved for its task and belonging to the plan it was started with (`WritesApproved`), finds the approval it needs (`ExecuteFindsApproval`), and no approval starts two runs (`ApprovalSingleUse`). |
| `MCCoordinatorTwoTasks` | one ask and one talk task, two threads, 2 requests, 1 restart, fair threads | `RunningHasWorker`, `ClosedIsFinal`, `SettledOnlyReopenedByLateThread`; every run settles or its thread has died (`RunSettles`); nobody waits for the lock for ever (`WorkersReturn`); and the refinement `ImplementsTaskLife`. |
| `MCPatchOneRun` | one run, four shapes of plan (source and test, no test, test only, a new test), two user edits outside the apply, failing writes, restores and commits, a dying engine | `RolledBackIsRestored`, `NoTraceOfFailure`, `SuccessIsTested`, `CommittedIsTested`, and the refinement `ImplementsAtomicPatch`. |
| `MCPatchDisjoint` | two runs on different files, all failures, an edit by the user at any moment, caches that stay | `NoTraceOfFailure` still holds, and `OnlyReviewedFilesChange`: restore and commit of one run never touch the other's files. |
| `MCBudget` | three requests (one without a price), one locate, one repair, costs of which two fit under the cap, one crash | `CapHolds` and `BooksMatch` for threads that use the ledger one after the other; `ChargesAreReal` for any overlap: a lost update forgets entries but never charges for a call that did not succeed, nor twice. |
| `MCEventStream` | a task that changes files or a conversation, a thread that holds the lock, one that appends without it, one stream that polls twice, logs of three events, restart and deletion | The log only grows at its end although an append is two statements (`LogGrowsAtItsEnd`); what a client was sent is a gapless prefix of it (`SentIsPrefix`); a status comes with all events logged before it (`StatusComesWithHistory`), "completed" of a task that is not talk-only with the changed files (`CompletedShowsChanges`), because the stream reads in the opposite order of the writes; and a stream ends whatever its task does (`StreamEnds`). |
| `MCTaskComposer` | an old task waiting for approval and a new one, two proposals, one button at a time beside a poll, one detour (cancel, reload, another window's proposal, a restart of the engine) | Whatever mixture of answers the screen shows, a run applies what was on it when the user approved (`OnlySeenIsApplied`); a task at rest is not shown as active for ever (`RestIsShown`); a task that waits for its user comes to be shown with the proposal the engine accepts (`WaitingIsApprovable`). |
| `MCPlanDrafting` | seven Python files (two of one name, one with a space in it, three tests) and another one, eleven texts, two of them with a backslash, four models (local, cloud, cloud by profile only, cloud by name only), six projects, one edit of the project | As far as names are read as they are meant, a plan is for the file its text names, also after a model's search (`NamedFileIsTarget`), with a test no other test competes with (`PlannedTestIsDecided`); offline tasks, reservations and the wording's floor survive the route (`OfflineStaysLocal`, `ReservedWhileAsked`, `TaskIsNotTalkedAway`); recommended models are accepted (`RecommendedIsAccepted`); the loop ends (`DraftAnswers`). Routes may raise at any point. |

Runs that show a disagreement between the repository's words and its code (the finding of the same
name in `PROJECT.json` quotes both):

| Run | What happens |
|---|---|
| `MCCancelStopsWrites` | a task canceled after it began to run and before it wrote still writes |
| `MCFalsePassTwoRuns` | two runs in one project: one reports a success for texts its tests never saw |
| `MCCapIsNeverExceeded` | two requests pass the comparison with the cap before either has written |
| `MCRestartShowsApproval` | after a restart of the client, `load` goes on with a newer task that does not wait for anything, and the one that waits for approval is not on the screen |

Seen while modelling, in the models, and not the subject of a run:

* Coordinator: two tasks approved before either ran can both end in `waiting_for_provider_input` (no
  executor of the repository asks for input); cancel followed by delete purges a task under its running
  thread, and a plan-draft in progress then saves a plan row for it; a restart marks running tasks and
  leaves an exploring one with nobody at work; a `local_autopilot` task with a plan is never executed,
  because no route starts a thread for it.
* Executor: the repair is checked neither against the rewrite ceiling nor against an approval, and calls a
  cloud builder without a reservation; a plan with a new file, which no drafter makes, validates but never
  reaches the builder, because its prompt reads that file; a reviewed file changed after the diff was shown
  is overwritten; a process that dies during an apply leaves the candidate in the files.
* Names in a request: `_PY_FILE` (`plan.py:20`) cannot match a backslash, `_FILENAME` (`file_finder.py:15`)
  takes it for a slash, and the replacement at `plan.py:102` has nothing to replace. `Fix src\api.py` in a
  project with an `api.py` in its root plans that one; of `src\api.py and src\lib.py` one may be planned
  where two names with slashes are refused; a test that is named as `tests\test_special.py` is not seen, and
  the test by convention is planned, although "a test explicitly named in the request" is the strongest
  signal (`plan.py:116`, `tests/test_edit_plan.py:38`). A located file whose name has a space, `my api.py`, is
  put into the request (`api.py:426-430`) and read back as `api.py`. Without the condition that names are read
  as they are meant, `MCPlanDrafting` violates `NamedFileIsTarget` with the first of these.
* Drafting: settling the reservation of the loop can raise (the ledger's file is empty between truncation
  and write, see `BudgetLedger`), and so can the release of the handler (`api.py:445-446`): the client gets an
  error and the reservation stays pending for good. A file that is not UTF-8 ends the route with an error as
  well, since the drafters catch only `OSError` (`plan.py:143-145`, `215-217`, `explore.py:56-58`).
* Drafting: a test file found by the model's search is appended to the request and then counts as "a test
  explicitly named in the request" (`plan.py:116`); the classification in the plan-draft and intent
  routes calls the chat model, which may be a cloud one, without a reservation; a model that is cloud by
  profile and not by name is explored as a local one, without reservation and with the wider limits; an
  endpoint request plans an `api.py` even if its text names another file; the two hints that speak of an
  intent are reachable only when the project's folder is missing, since every other refusal has a hint of
  its own; `edit_plan_needs_a_distinct_test` is unreachable; a wording that reads as an audit may become
  an edit by the model's opinion; hints say "draft again", but a task's text is fixed at submit.
* Composer: with a second window proposing, the title of one task can stand above the diffs of another; the
  digest check of the engine refuses the mixture. A task reopened by a late proposal after the composer
  saw "failed" stays shown as failed. After a late poll of the old task the new one keeps the old proposal
  on the screen until it has one of its own. A purged task that is shown as active is polled for ever.

### Bounds, and why they are enough

* `MaxCalls` bounds propose and provider-input requests, the only requests that can be repeated
  without end; three of them on three threads give two proposals that overlap an approval and a run.
  The other requests are bounded by the life of a task.
* `MaxRestarts = 1`: a restart forgets everything volatile, so a second one meets nothing a first one
  could not.
* Two plans and two texts: one to be approved and one to be confused with it. Digests are compared,
  never computed, so a digest is the candidate it stands for (no collisions).
* `MaxEdits = 2`: enough to create and delete a file again, which is how a plan with a new file gets
  past its prompt (and is restored) at all.
* One file with a test and one without already show a half-applied candidate; the order in which a loop
  takes its files is left open. Two runs are enough for a conflict over a file.
* Costs and cap are chosen so that two of three calls fit; each call is made once. A crash can come at
  any point, so a file left empty for good is among the states.
* `MCEventStream`: two polls show a stream that has sent something and goes on; three events are a status
  with its announcement and one that clashes with them. A stream follows only one task, so `MaxTasks = 1`:
  of the two there are, one that changes files and a conversation, either is submitted.
* `MCTaskComposer`: one button under way beside one poll is the most a user sees to it that there is: the
  screen disables its buttons while busy. The old task makes the second task that answers can be mixed
  up with; the detours are what can come between. `MaxDetours = 1`: each detour makes stale what is on its
  way, and a second one would have to make stale an answer to the first.
* `MCPlanDrafting`: `Turns` and `CloudTurns` are 2 and 1 where the code has 6 and 4: no step looks at how
  many turns were taken but for the limit. Texts name none, one or several files, of which implementations
  compete, tests compete, a base name is ambiguous, one is not Python, and two are misread. `MaxEdits = 1`:
  a file created or deleted between two looks. Requests with every choice of models have one text, the
  others one choice of models: no step looks at both. The proofs do without these bounds.
* Deadlock checking is off: tasks, runs and calls come to an end and the system may then rest.

### Fairness

`FairSpec` of `TaskCoordinator` asks for weak fairness of each thread's own steps: the operating system
schedules threads, model calls and test runs have timeouts (`model_adapter.py`,
`PytestRunner.timeout_seconds`), a store write ends. Client requests are not fair: nobody has to click.
Weak fairness is enough for the lock although it is taken and given back by others: the requests that
take it are finite in number in an instance, as they are for a user, so the lock is free for good from
some point on until the waiting thread takes it. A restart is not fair either.

In `EventStream` a thread in the middle of its writes goes on, and a generator is resumed while its client
is connected. In `TaskComposer` the engine answers, the client's event loop runs the callbacks whose
answer has come, and a timer that is set fires; the user need not press anything. In `PlanDrafting` a draft
under way goes on: model calls have timeouts. That the loop ends is not assumed: every turn is a fair step.

## 4. What is abstracted

* Event texts, reasons and timestamps. `append_event` appears where it changes the course of a thread:
  its two statements can clash with an append made without the lock, and the exception cuts a handler
  short (`EventClash`).
* Failures of SQLite and of the disk under it.
* Model answers: any candidate of the right files, or none; parsing is the difference between the two.
* The duration of a test run. A test run reads its files at one instant: a second run that writes during
  the tests is not told apart from one that writes before.
* The window between `validate_plan_files` and the reading of the files in `apply_proposal`, and between
  `git add` and `git commit`.
* In `MCPatchOneRun` the user leaves the files alone while a run applies: without that nobody could
  say what "restored" means. `MCPatchDisjoint` drops the assumption for the properties that survive.
* `EventStream`: the joined row of `task_status` is read at one instant; the payload of an event is its
  kind, of which only the list of changed files is told apart. A result has such a list unless its task is
  a conversation (`patch_executor.py:200` against `262-266` and `311-314`).
* `TaskComposer`: the engine is `TaskLife`, so a proposal is published in one step; `failed` stands for
  `blocked` too, which the composer treats alike. An error of a call leaves the screen as it is. The panel
  for a provider's question, the suggestions for a request and the history list are left out.
* `PlanDrafting`: a text is the sequence of file names in it, each as it is spelled; either pattern reads one
  file in a name or none, and no path with `.` or `..` is spelled. The scores of identifiers and the likeness of
  stems are read off the files' contents: they may bring up nothing, one file or a tie. Where the code
  takes the first in directory order, the model takes any. The target of an intent is left out, since no
  step reads it. The engine is not restarted during a draft: nothing of a draft is stored before its plan.
  Concurrent drafts and what the plan row then is are in `TaskCoordinator`.
* Not modelled at all: `chat` and `answer_with_exploration` (they answer and change nothing), the model
  adapter with its redaction, the reading of files by the exploration tools, `explore_project` and the choice
  of a project, qualification (a file of reports with the discipline `BudgetLedger` examines), voice, the
  lists of the client and the launcher. Their rows in `PROJECT.json` give the reason.

## 5. Proofs

`TaskCoordinatorProofs` proves, for any sets of tasks, threads, plans and texts and any bounds:

| Theorem | Statement |
|---|---|
| `TypeCorrect` | `Spec => []TypeOK` |
| `RunningIsHonest` | `Spec => []RunningHasWorker` |
| `OnlyApprovedFilesAreWritten` | `Spec => []WritesApproved` |
| `ExecuteIsPrepared` | `Spec => []ExecuteFindsApproval` |
| `ApprovalIsSingleUse` | `Spec => ApprovalSingleUse` |
| `ClosedTasksStayClosed` | `Spec => ClosedIsFinal` |
| `OnlyLateThreadsReopen` | `Spec => SettledOnlyReopenedByLateThread` |
| `LockHasItsHolder` | `Spec => []LockIsHeld`: the lock is held by a thread exactly while it stands between the two steps of a critical section |
| `ThreadsRunDown` | `Spec => ThreadsAdvance`: at most seven steps of its own bring a thread to its end, nothing sets it back, and the holder of the lock gives it back with its next step |

The only assumption is `CoordinatorAssumption`: the three kinds of tasks are disjoint, `None` is none
of the other values, the bounds are numbers.

None of the invariants is inductive by itself. The strengthening `IInv` adds to `TypeOK` and
`RunningHasWorker`

* `HoldingInv`: the thread in a critical section of two writes is the holder of the lock, and a thread
  there finds the rows of its task as it left them;
* `BusyInv`: a thread at work serves a task that was submitted and was not interrupted: threads do not
  outlive the process whose end marks tasks as interrupted;
* `GrantInv`: a stored approval, and the candidate a run carries, are among what the user granted, and a
  thread that writes holds files of the plan it captured;
* `UnspentInv`: an accepted task with an approval has not been run on it;
* `MatchInv`: an accepted task with an approval has the approved proposal in its row, unless a proposal is
  being published under the lock. This is the part that makes the approval check of `execute` redundant
  for everything but that window, and the window harmless.

Each part has a lemma that every step preserves it, with one step per action; the action properties
follow from `IInv` before the step. TLC checks the invariants on small instances first; the proofs are
for all.

`LockHasItsHolder` and `ThreadsRunDown` look at a thread alone. `WorkerMoves` says of each of its steps
that it takes the free lock into a section, works without it or gives it back, that it lowers `StepsLeft`,
and that it leaves the other threads where they are; `RequestMoves` says the same of a request. So no exit
of a handler, the ones by an exception included, leaves the lock without a holder, and no loop of retries
keeps a thread at work. This is what is safety in `WorkersReturn` and, with `RunningIsHonest`, in
`RunSettles`.

`TaskLifeProofs` proves that the coordinator is no more than what its readers see:

| Theorem | Statement |
|---|---|
| `CoordinatorImplementsLife` | `Spec => ImplementsTaskLife` |

The step simulation uses `IInv` of `TaskCoordinatorProofs` (a run starts with a ticket because of
`UnspentInv` and `MatchInv`) and one more fact, `PrepareInv`: only ask-before-changes tasks have a proposal
prepared, and the thread that publishes one finds the row it has written. Each action maps to the action of
`TaskLife` of its row, or to a stutter if it only takes the lock or calls the executor.

`PlanDraftingProofs` proves, for any files, requests, models, profiles, numbers of turns and any answers:

| Theorem | Statement |
|---|---|
| `TypeCorrect` | `Spec => []TypeOK`, which bounds the loop |
| `OfflineTasksStayLocal` | `Spec => []OfflineStaysLocal` |
| `ReservedWhileAskedOrFailed` | `Spec => []ReservedWhileAsked`: no draft that is answered leaves a reservation |
| `NamedFileIsPlanned` | `Spec => NamedFileIsTarget`, for requests whose names are read as they are meant |
| `PlannedTestHasNoRival` | `Spec => PlannedTestIsDecided`, for such requests and located files |
| `TasksAreNotTalkedAway` | `Spec => TaskIsNotTalkedAway` |
| `RecommendationsAreAccepted` | `Spec => RecommendedIsAccepted` |
| `DraftsRunDown` | `Spec => DraftsAdvance`: a draft ends within `Limit + 3` steps of its own, and an edit of the project does not set it back |

from `FilesAssumption` (finitely many files, tests among the Python files, a file's own name means it; the
patterns may read anything in a name), `PolicyAssumption` and `DraftingAssumption` (types). What a plan may
name is a fact about the drafters alone: `EditDraftIsDecided` says that an edit draft is a refusal or
justified by its text and the disk, and rests on `OnlyIsAll`, that the one candidate returned is all there
is. `RewrittenFiles` carries it over to the request a model has added a file to, and `ReadFiles` from what
is read to what is meant. The inductive invariant adds to the types that a draft belongs to a task submit
has validated and has no answer yet (`SettledInv`), that the merged kind of a task is a task (`KindInv`),
and that advice is the router's for the models available (`AdviceInv`). `DraftsRunDown` is the safety in
`DraftAnswers`: the limit of a draft does not change under it (`LimitStays`), so what is left of its turns
and places is a measure that its steps lower.

`BudgetLedgerProofs` proves, for any calls, costs, prices and cap:

| Theorem | Statement |
|---|---|
| `TypeCorrect` | `Spec => []TypeOK` |
| `OnlySuccessIsCharged` | `Spec => []ChargesAreReal` |
| `SerialBooksMatch` | `Spec => []BooksMatch` |
| `SerialCapHolds` | `Spec => []CapHolds` |

from `LedgerAssumption` (finitely many calls of three disjoint kinds, costs and cap natural numbers, the
unreadable texts no ledgers). What the file says is not inductive: a thread may overwrite it with a text
it computed from an older file. `PagesInv` says of every text on its way to the file what has to hold of
the file, and `AnsweredInv` which calls can have been answered at each place; together they are inductive
for any overlap and any crash. `SerialInv` adds, for histories without an overlap or a crash, that one
thread is in the ledger at a time, that only it can find the file unreadable, and that the file and its
text tell the truth about every call.

`CapInv` carries the cap, for the same histories, from the comparison to the file: what a thread has
checked still holds of the file when it reserves, and the text it is about to write is within the cap as
the file is. What it needs of the spend, which is a sum over a set of calls, are `ExposureLaws`: a
reservation adds its cost, a settled one leaves the sum as it is, a released one does not raise it. A
sum is a fold, and no theorem of the library gives its laws; they are proved here by a smallest
counterexample. Among the sets for which a law fails there would be one of least cardinality (`Smallest`),
and the fold's own equation (`TotalTakes`) contradicts it. The same argument shows that the recursive
function behind the fold exists (`UnrolledExists`) and is the only one (`UnrolledAgree`).

`PatchExecutorProofs` proves, for any runs, files, plans, failures and bounds:

| Theorem | Statement |
|---|---|
| `TypeCorrect` | `Spec => []TypeOK` |
| `OnlyReviewedFilesAreTouched` | `Spec => OnlyReviewedFilesChange` |
| `FailureLeavesNoTrace` | `Spec => []NoTraceOfFailure`, if `DisjointPlans` |
| `RolledBackRunsAreRestored` | `Spec => RolledBackIsRestored`, if `Undisturbed` |
| `SuccessRestsOnTests` | `Spec => SuccessIsTested`, if `Undisturbed` |
| `CommitsAreTested` | `Spec => []CommittedIsTested`, if `Undisturbed` |

from `ExecutorAssumption` (types; the values that stand for special texts are distinct and are no
candidates). `DisjointPlans` says that no two runs may review the same file, `Undisturbed` says in addition
that the user's editor leaves the files of a run alone while it works and that no stale bytecode survives
(`Faults` without `"editor"` and `"cache"`). The code enforces neither: they are the conditions under which
its promises are true, and `MCFalsePassTwoRuns` shows what two runs on one file do to them. Failing writes,
restores and commits and the death of the engine are in all of the theorems.

`PlaceInv` says where a run stands: its plan is one of its own, its candidate too, and its loops are over
reviewed files. It is all `OnlyReviewedFilesAreTouched` needs. `CleanInv` says which of a run's files are
free of its text at each place: all before it applies, the snapshot while it does, and file by file what a
restore has put back; a step of another run does not reach them (`StepFrame`, `MineAreDisjoint`).
`ExactInv` says which text the files hold instead: the candidate behind the writing loop, the snapshot
behind the restoring one. `CommitInv` names for every file of the last commit the run that is past its
tests and to whose reviewed files the commit belongs.

`PatchRefinementProofs` proves that a lone run is one atomic change:

| Theorem | Statement |
|---|---|
| `PatchIsAtomic` | `Spec => ImplementsAtomicPatch`, if `Alone` |

`Alone` is `Undisturbed` with a single run. What the user relies on is the snapshot while the run works on
the files, and the disk otherwise. The last restored file is `Fail` and the reported success is `Succeed`,
both by `ExactInv`; an exception out of the executor and the death of the engine are `Break`; the user's
edits between two applies are `Edit`; every other step is a stutter.

`EventStreamProofs` proves, for any tasks, threads, streams, polls and logs:

| Theorem | Statement |
|---|---|
| `LogsGrowAtTheirEnd` | `Spec => LogGrowsAtItsEnd` |
| `StatusesComeWithHistory` | `Spec => []StatusComesWithHistory` |
| `SentInOrder` | `Spec => []SentIsPrefix` |
| `CompletedWithChanges` | `Spec => []CompletedShowsChanges`: of any task that is not in `TalkTasks` |
| `TypeCorrect` | `Spec => []TypeOK` |
| `StreamsRunDown` | `Spec => StreamsAdvance`: each step of a connected stream brings it nearer to its end, at most four a poll, and nothing else sets it back |
| `StreamsForeseeLife` | `TheLife!Life => LifeIsForeseen`: a status moves in `TaskLife` only as the writers of `EventStream` move it |

from `StreamAssumption`. Three invariants rest on one another.

* `WriterInv`: the log of a task that has not been purged is `Whole` (its numbers are 1 to n), no number is
  given twice, and a number a thread has computed is at most n + 1: the insert of any other number is
  refused by the primary key. A purged task's log may have holes, since a thread that outlives its task
  goes on appending; the invariant only says that it has a newest event.
* `WorkInv`: the log of a completed task that is not a conversation has its `files_changed` event, because a
  thread that is still to record "completed" has appended it or has it earlier in its script. An exception
  cuts off the rest of a script, the status included.
* `StreamInv`: what has been sent is the log up to the number the stream remembers, and the page it has
  read is the log from there on. A status obliges a stream to send what was logged before it; the
  invariant follows this through its three places: in the log when the record has been read, in the page
  when the events have, sent when the message is out.

`ORDER BY seq` is stated as the ascending arrangement of the page, without an algorithm. That there is one,
and that it continues what was sent, is a matter of counting: the place of an event in it is the number
of events up to it, and in a log without a hole that is its own number. `StreamsRunDown` is the safety in
`StreamEnds`. `StreamsForeseeLife` ties the module to the coordinator's: together with
`CoordinatorImplementsLife` it says that `EventStream` leaves out no change of a status that a task can make.

`TaskComposerProofs` proves, for any tasks, plans, proposals, refreshes under way and bounds:

| Theorem | Statement |
|---|---|
| `TypeCorrect` | `Spec => []TypeOK` |
| `RunsApplyWhatWasSeen` | `Spec => OnlySeenIsApplied` |
| `TasksLiveByTaskLife` | `Spec => [][LifeNext]_life`: what the clients, a restart and the threads do to the tasks is one step of `TaskLife` or none |
| `ActiveTasksArePolled` | `Spec => []ActiveIsPolled`: a task that is shown as active has the timer set that asks for it |
| `WaitingComesThrough` | `Spec => ScreenSettles`: while a task waits, the wrong answers about it only become fewer; with none left the next refresh shows what the engine accepts, and nothing undoes it |

from `LifeAssumption` and `ComposerAssumption` (ids grow, and refreshes are told apart from buttons).
`TypeInv` gives every call under way a task where its place needs one. `SeenInv` carries what the user saw
from the button to the run: the digest an approval brings was on the screen (`AskedSeen`); a task that an
execute thread can take up, that is one with a ticket, a thread and the status `accepted`, has as its stored
proposal one that was on the screen (`TakeableSeen`). The second is only true with an exception, which is
why the property alone is not inductive: a proposal that was being drafted when the user approved may be
saved over the approved one. Then its call keeps the lock until it has published it, which makes the task
wait for approval again, so that no thread can take it up in between; a restart in between forgets the
threads.

`TasksLiveByTaskLife` says that the composition is one: it never changes the rows of two tasks in a step,
or a row in a way the engine's abstraction does not allow. `ActiveTasksArePolled` is the safety in
`RestIsShown`: of the callbacks, each of which decides for itself whether to start or to stop the timer,
none leaves an active task without it. The answer to a cancel is the one that is shown without a look at
its status, so the proof needs that it says "canceled" (`CancelSaid`). `WaitingComesThrough` is the safety in
`WaitingIsApprovable`. An answer is late when it says something else than the engine now does, or belongs to
a call whose return leaves the old proposal on the screen (`SubmitReturns`, `ApproveReturns`). While the
engine leaves the task waiting, each step leaves a call, ends it or answers it with the truth (`Calm`); a
task that waits has a proposal (`WaitingInv`), so that a refresh replaces the one on the screen.

Every invariant and every action property that a passing run checks is stated by a theorem. Only
model-checked are

* the liveness properties `RunSettles`, `WorkersReturn`, `StreamEnds`, `RestIsShown`, `WaitingIsApprovable` and
  `DraftAnswers`: fairness and ENABLED are out of the prover's reach. For `StreamEnds` and `DraftAnswers` the
  theorems leave open only that what can take a step is scheduled, for `WorkersReturn` also that the lock a
  thread waits for is some day free for good, for `WaitingIsApprovable` that answers come and the timer fires;
  for `RunSettles` and `RestIsShown` they give the invariant the argument rests on;
* the runs that end in a violation.

## 6. Plan

What is left, in order:

1. The transitivity of what is proved: the streams and the composer beside the coordinator itself, where
   they now stand beside `TaskLife`, which it implements.
2. The provider's question in the composer, when an executor asks one.
3. Qualification's file, if the corpus run comes to matter to a task.
