# Smart Automator: a TLA+ model of its concurrent core

Smart Automator runs LLM-driven browser automations ("runs"). A FastAPI server
keeps the runs and executes each one in a thread of its own; the browser is either
local to the server or the Chrome of the user's desktop, which the *Connect* app
starts on request and tunnels to the server. What is hard to test in this program is
how the pieces interleave: run threads, the event loop that serves HTTP and
WebSockets, and the two threads of the desktop app share a browser, a table of runs and
a handful of flags, and any of them can be cancelled, disconnected or restarted in
the middle. And inside a run an agent, a human and a page take turns with the same browser,
the same history and the same counters. These modules model both; TLC checks them on small
instances and TLAPS proves the main safety properties of the core for every number of runs
and connections, of a human's commands and gestures, and of events.

Paths are those of the repository: `server/` stands for
`src/smart_automator/server/`, `agent/` for `src/smart_automator/agent/` and `connect/`
for `apps/smart-automator-connect/src/`.

## 1. Inventory

| Component | State it keeps | Operations | Talks to | What makes it correct |
|---|---|---|---|---|
| **Connect lease, server** `server/workers.py` | per user a `WorkerConnection`: `browser_state`, `active_run_id`, `stop_deadline`, CDP proxy and URL, three events | `request_browser_start/stop`, `detach_cdp_proxy`, `handle_control_message`, `register`, `unregister`, `expire_stop_if_due`, `status_for_user` | run threads and event loop call it; messages to and from the app | one run at a time owns the browser; the lease always becomes free again; the URL a run gets is its own |
| **Connect runtime, app** `connect/runtime.c`, `chrome.c` | `browser_up`, `chrome_thread_running`, `chrome_job_cancel`, `chrome_result_pending`, the tracked process | poll loop, start thread, stop, flush, reap, reconnect | WebSocket to the server, Chrome | `ready` means that the asked-for Chrome runs; stop always gets an answer; the loop never blocks for ever |
| **Run lifecycle** `server/app.py`, `runner.py`, `run_state.py` | `RunState` per run: status, cancel event, executor; `_runs` (at most 200) | start, read, list, edit replay, cancel, purge, `run_automation` and its `finally` block | handlers and the run thread share the object; rows and replay files | one run at work per user; DELETE reaches it; outcomes survive eviction and restart |
| **Run persistence** `run_store.py`, `replay_store.py`, `storage/websites.py` | row, replay script, `last_trained_run_id` | save, load, delete | run thread and purge | pointer and dependents find their replay |
| **HITL controller** `agent/hitl.py` | intervention flag, deadline, command queue, recorded actions | take and return control, submit command, timeout | event loop enqueues, run thread executes | a command is executed or refused, once; control returns |
| **Executor loop** `agent/executor.py` | step, failure and stuck counters, pause and stop flags | execute, execute_manual, planning interval | HITL, agents, browser | ends after bounded work; stops when told |
| **Run event stream** `run_state.py`, `/ws/runs/{id}/stream` | a queue of 64 events per subscriber | emit, coalesce, drop | run thread to event loop to UI | closing and terminal events get through |
| **Worker outbox** `workers.py` | thread-safe queue with a byte budget, wake flag | enqueue, coalesce, drain | run threads and CDP proxy to event loop | no lost wake-up, order kept per channel |
| **CDP multiplexer** `workers.py`, `connect/worker_ws.c` | channels by number, pending frames | open, data, close, from either end | proxy sockets and Chrome sockets | a frame reaches the channel it was sent on |
| **Projects, tests and what goes with them** `app.py`, `storage/websites.py` | websites, their tasks, the dependents of a replay | create, import, delete; `_runs_for_website`, `_runs_for_website_task`, `_purge_owned_runs` | runs, replay files | a test goes with its runs and what was replayed from them; no script is lost or left |
| **Action recorder** `agent/hitl.py` (script and `HumanActionRecorder`) | what pages hold back, the trace | capture, flush, start, stop | pages, HITL controller | what the human did is replayed, in order, and nothing else |
| **Stuck and done recovery** `agent/stuck_recovery.py`, `executor.py`, `agents/navigator.py` | six counters of `AgentContext` | update, reject, forgive, escalate | navigator, planner, critic | a rejected done neither loops nor ends a run that moved on |
| **Batch of actions** `actions/builder.py`, `agent/compound_integrity.py`, `reporting/` | results, verified fields, commit flags | attempt, verify, retry, block, cut | page, history, report | a commit relies on fields that still hold; a replay is what worked |
| **Element finding** `browser/locators.py`, `history.py`, `page.py` | a recorded locator, the page | capture, resolve, identity gate, remap, pin | replay and batch | the element meant, or none |
| **Replay executor** `reporting/replay_executor.py`, `browser/context.py` | tabs and their ids | open, switch, close, retry | Playwright | each step in the tab it was recorded in |
| **Message history** `agent/messages/service.py` | messages, tokens, summary | add, remove the state, cut | all agents | a model reads the present page, and never loses its task |
| **Model calls** `llm/`, `agents/base.py` | attempts, JSON mode, repair | retry, fall back, repair, abort | run thread; event loop sets the flags | nothing is asked after a cancel |
| **Browser and DOM** `browser/page.py`, `dom.py` | Playwright's | observe, act | a browser | environment of the modules above |
| **Findings, guardrails, prompts, HTML report** | none | text | run thread | no decision reads them, or text only |
| **Auth, settings, database, app shell, web UI, deployment** | database rows, UI state | single-statement transactions, screens, scripts | all of the above | one transaction or one thread each |

`PROJECT.json` lists each of them with its status, and under `hazards` every
place where this code can go wrong in a way a test hardly reaches, with the property
that would show it or the reason why none does.

### Behaviours that are hard

* **Messages without a run id.** `browser.starting`, `browser.ready`, `browser.stopped`
  and `browser.error` are bare (`runtime.c:375-446`); the server has to tell from
  `browser_state` alone whether one concerns the present lease or the one before.
* **Checks outside the lock.** `request_browser_start` checks the lease, probes the proxy
  for up to several seconds without `lease_lock` and returns `worker.cdp_url`, read again.
* **A flag that outlives its start.** `chrome_result_pending` is not cleared by the next
  start; the poll loop then joins a thread that is still at work.
* **Two objects for one run.** Eviction or a restart drops the `RunState`; the next lookup
  makes a second one from the row while the thread may still hold the first.
* **A status several threads write.** The thread's first statement, HITL events, the verdict
  and the handlers all assign `run.status`; the cancel event is tested at a few places only.
* **A `finally` block with effects.** Replay, trained pointer and row are saved one after
  the other, while the run already counts as finished for purges and for the start gate.

* **Two owners of the browser.** A human takes over between any two steps of the agent; the
  commands wait in a queue that only the run thread empties, with callers that give up.
* **What a page holds back.** The capture script reports a text when its field is left and a
  scroll when it has stopped; navigation, keys and hand-back race it.
* **Elements named by what they looked like.** The page changes between observation,
  location, identity check and click.
* **Bytes over one socket.** Streams with ids that restart for each lease share a queue with
  a byte budget, and either end may close, refuse or reset.

## 2. Modules

| Module | Models | Lines of the code |
|---|---|---|
| `ConnectWire` | the control WebSocket: per connection a FIFO each way | `workers.py`, `runtime.c`, `worker_ws.c` |
| `WorkerRegistry` | the server's side of the lease and the run threads inside it | `workers.py:595-934`, `app.py:914-923` |
| `ConnectApp` | poll loop, start thread and Chrome process of the desktop app | `runtime.c:225-562`, `chrome.c:423-570` |
| `ConnectLease` | the two sides joined, start gate, cancel, run threads; properties | `app.py:361-389`, `runner.py:484-524` |
| `LeaseProtocol` | **abstract**: what a lease promises to runs (exclusive, closed before it is free) | — |
| `RunRecords` | `_runs`, rows, replay scripts, trained pointer; eviction and rehydration | `run_state.py`, `run_store.py` |
| `RunLifecycle` | handlers, `run_automation`, restart; properties | `app.py:158-452`, `runner.py:196-763` |
| `HumanControl` | executor loops, HITL command queue, take-over, hand-back, timeout, recorder buffer | `executor.py:207-998`, `hitl.py:821-1712`, `app.py:629-691` |
| `HumanCapture` | capture script per tab, trace, flush at hand-back | `hitl.py:30-820`, `:831-1364` |
| `DoneRecovery` | counters of done and stuck recovery | `executor.py:405-940`, `stuck_recovery.py`, `navigator.py` |
| `ActionBatch` | one batch of actions, verification, commits, what becomes a replay | `builder.py:242-560`, `compound_integrity.py`, `replay_script.py` |
| `ReplayTabs` | tabs of the training and of its replay | `replay_executor.py`, `context.py`, `builder.py` |
| `ElementFinder` | what a locator matches on a page that changes | `locators.py`, `history.py`, `page.py`, `builder.py:55-78` |
| `MessageMemory` | the history of an agent and its cut | `messages/service.py`, its callers |
| `ModelCall` | one turn with the language model | `llm/`, `agents/base.py`, `navigator.py:402-509` |
| `RunStream` | events from the run thread to a page | `run_state.py:13-258`, `app.py:969-1003`, `useRunStream.ts` |
| `CdpTunnel` | outbox, `CdpProxy`, mux frames, channels of the app | `workers.py:173-592`, `worker_ws.c:380-870` |
| `TaskPurge` | projects, tests, their runs and replay scripts, and the deletes of each | `app.py:144-273`, `:395-607`, `:707-878`, `websites.py` |
| `MCComponents` | all of these but `HumanControl`, one at a time, for TLC | — |
| `MCConnectLease`, `MCRunLifecycle` | the symmetry of run ids, for TLC | — |
| `Subsequences` | the elements of a sequence at some of its positions, in their order | — |
| `ConnectLeaseProofs`, `RunLifecycleProofs` | theorems about the modules of these names | — |
| `RunControlProofs` | theorems about `HumanControl` and `RunStream` | — |
| `AgentProofs` | theorems about `ModelCall`, `DoneRecovery` and `MessageMemory` | — |
| `ReplayProofs` | theorems about `ReplayTabs`, `ElementFinder`, `ActionBatch`, `HumanCapture` and `TaskPurge` | — |
| `TunnelQueueProofs`, `TunnelProofs` | lemmas about the queues of `CdpTunnel`, theorems about it | — |
| `SubsequenceProofs` | lemmas about `Subsequences`, for the last three | — |

### How the lease is modelled

`worker[c]` is the `WorkerConnection` object of connection *c*; a reconnect makes a new one
while old run threads and the old WebSocket task still hold the old one, which is why
objects are indexed by connection and not by user. Each critical section under
`lease_lock` is one action; what `request_browser_start` does between two of them is a
program point of the run thread (`busywait`, `readywait`, `probe`, ...). A
`threading.Event` is a flag plus the rule that `set()` releases whoever is waiting, even when
another thread clears the flag before the waiter runs (`Notified`). `proxy` and `url` hold
the run whose call made them instead of a port number: that is all a property needs to tell
a stale URL from a good one.

Time is not counted. `stop_deadline` is the flag `due`, raised by an action of its own; the
120 s deadline of a start and of a busy wait may pass whenever the loop tests it.
`MayExpire = FALSE` is the environment in which the app answers every `browser.stop` in
time; `MayLogout = FALSE` the one in which nobody logs the worker out.

On the app's side one call of `sa_worker_ws_poll` handles any number of queued frames before
`flush_chrome_result` runs (`PollReads` chooses how many); `g_chrome_pid`, which both
threads write without a lock, is the variable `chrome`, and the start thread can be overtaken
between any two of its steps.

Left out of the lease: hello, ping and the profile list (they touch no lease state), the
CDP bytes, the tokens that authenticate a worker, and `sa_runtime_disconnect` and the
ten-attempts limit, which are the loop staying offline.

### How the life of a run is modelled

The HTTP handlers that touch runs have no `await` between their first and last access, so
each is one action, except `_cancel_active_run`, which sets the status, sends
`browser.stop` and then writes the row: `CancelMarks` and `CancelPersists`, with other
handlers excluded in between (`api`) and threads not. The run thread steps between any two
statements. `mem[r]` says what `_runs` holds for *r*: nothing, the thread's own object
(`"own"`), or a copy made from the row, of which only the status matters. Thus
"DELETE acts on a copy" is a state of the model. `source` and `mode` come from the request.

The executor is one alternation of a stop test and a step; what the agents decide is
nondeterministic. Of HITL only what decides how a run ends is kept: asking for a human,
the timeout, the return of control. `status = "fail"` stands for the code's `fail` and
`error`. History, screenshots and reports are read by no decision of the code and left out;
which of several finished runs is evicted first is left open. The browser is local: the
Connect lease can only refuse or delay a start, which `OpenFails` covers. Purges of
several runs at once, through a website or task, are in `TaskPurge`.
Errors of the file system and of the database, which the code logs and ignores, are left
out, except that no replay may be written when a run passes.

`Restart` loses all threads and objects and keeps rows and files. `PurgeLive` says
whether a user may purge a run whose thread is still in its `finally` block, `MayCrash`
whether the server may die.

### How the components of a run are modelled

They are separate modules, each with its own variables, type invariant and specification,
because they share no state that a property is about: what one does to another is a
nondeterministic input. `MCComponents` extends all but `HumanControl`, whose liveness is
checked in a run of its own, and adds a variable `part`, fixed in the initial state: the
component that works, while the others stay where they begin. So one run of TLC checks ten
state spaces side by side, and a property of one component is trivially true in the parts of
the others.

* `HumanControl` keeps the program points of `execute` and `execute_manual` (`at`), the flags
  of `AgentContext`, and the commands with their callers. All commands are executed by the
  run thread, in `process_pending_commands`; a caller whose wait timed out leaves its command in
  the queue. Recorded gestures are numbers, so that a loss, a repetition or a wrong order is
  visible. `MaxFaults` bounds browser errors while the recorder starts or flushes.
* `HumanCapture` numbers gestures too. Popups a human opens are in `Tabs` but not in `OwnTabs`
  (`BrowserContext._pages`): the flush does not ask them, and `TextIsRecorded` speaks of the
  agent's own tabs only.
* `DoneRecovery` has one step for the navigator with every answer the model can give and
  everything a page can do in it; limits are constants. The prompt's "a second failed
  confirmation ends the run" cannot happen: `OneRejectionAtATime`.
* `ActionBatch` follows `_run_action_attempt`: a verified input is held, and a commit looks at all
  held fields again, also when it is retried. `Timeline` pairs results with actions by position,
  as `build_action_timeline` does. Re-typing a field leaves two records in the code, which only
  blocks more commits than needed.
* `ReplayTabs` runs the training and the replay of its steps one after the other.
* `ElementFinder` is a list of look-alike elements, with test ids and names that need not be
  unique. The page may change before every step. `finding.use` tells the replay (locator, then
  identity gate, then click by the same locator) from the batch (remap, then pin). The two
  uses of first and last in a set are not fingerprinted by the code, which is why
  `ReplayedClickHitsTarget` speaks of growth at one end.
* `MessageMemory` gives each kind of message a number of tokens; a cut begins when the limit is
  exceeded. The result of a cut is used from the next call on.
* `ModelCall` blocks the run thread in `sent`; `RunIsTold` is what cancel and take-over do meanwhile.
  The repair after "all actions were rejected" is left out since its condition never holds.
* `RunStream` has one page that comes and goes. `calls` is what `call_soon_threadsafe` still
  holds; `lost` marks the steps whose newest event was trimmed. A page that subscribes to a run
  whose status is stale after a cancel (`StaleRun`) waits for ever; `CloseReachesThePage`
  therefore speaks of terminal statuses.
* `CdpTunnel` knows a chunk by its stream and number; the coalescing of frames concatenates
  them, without the limit of `_OUTBOX_COALESCE_MAX` to the size of a frame. Each lease has a proxy whose ids start at 1. **Environment**: `LateThreads = FALSE` says
  that within the time Chrome takes to start, the threads of the proxy before have ended and
  what they sent has arrived (`Settled`). The code does not enforce it: `stop()` does not join
  the read threads, and with `LateThreads = TRUE` TLC finds a late OPEN, DATA or CLOSE of the old
  proxy that hits the same id of the new one (`StreamsAreNotMixed` fails). A chunk that the
  outbox refuses resets the stream in `worker.cdp_proxy`, which is the new proxy or none when the
  thread belongs to an old one: only for streams of the current proxy the app never misses a
  chunk. The lease itself is in `WorkerRegistry`; here it only orders the frames.
* `TaskPurge` has one user, since every query is filtered by the user. A handler is one step,
  as it has no `await`; the end of a run's thread is one step too, its statements and what a purge
  in the middle of them does being the subject of `RunLifecycle`. `Family` is the `while changed`
  loop of both closures, as the smallest set that is closed. A replay can be put to any run
  (`PUT /api/runs/{id}/replay`), also to an automatic one, which makes chains of sources
  and the loop's second round possible. Which runs without a task bear the name of a deleted
  test is nondeterministic. Left out: the server dying between the rows and the files of a
  purge, after which the script of a run that is gone stays on disk, for nobody.

## 3. Runs

Deadlock is not checked: the systems may rest (all runs over, the app offline for good).
Quiescent states are the subject of `QuiescentLeaseIsFree` and `RestingEndsAgree` instead.

| Run | Question | Bounds | Result |
|---|---|---|---|
| `Lease` | With stops answered in time: is the lease free at rest, is the Chrome behind a ready lease its owner's, does a live run get and keep its own browser? | 2 runs, 2 connections | 1.2 M states, holds |
| `LeaseExpiry` | With expired stops, late messages and logouts: does a proxy ever outlive its lease? | 2 runs, 1 connection | 3 M states, holds |
| `LeaseLive` | Does a lease always end? Does the system implement `LeaseProtocol`? | 2 runs, 1 connection, `FairSpec` | 0.2 M states, holds |
| `LeaseStolen` | Does `request_browser_start` return the caller's own, valid lease? | 2 runs, 1 connection | **violated** |
| `Lifecycle` | One run at work, reachable by DELETE; outcomes persisted; sources keep their replay | 2 runs, memory for 1, purge of live runs, restarts | holds |
| `LifecycleCalm` | Does the trained pointer always find a replay? | 2 runs, restarts, purge when the thread is over | holds |
| `LifecycleLive` | Does a cancelled run end? | 1 run, `FairSpec` | holds |
| `CancelTrains` | Can a cancelled run become the trained one? | 2 runs | **violated** (it can) |
| `PurgeReturns` | Does a purged run stay away? | 2 runs | **violated** |
| `StaleRun` | Does only a run with a thread block a start? | 2 runs, restarts | **violated** |
| `Human` | Do agent, human and clock share the browser as they should? Does an automatic run end? | 2 commands, 3 steps, `FairHumanSpec` | 0.3 M states, holds |
| `Components` | What each of the other components promises (below) | see below | 1.4 M states, holds |

The properties of `Human` (the first four) and `Components`, beside the type invariants:

| Part | Property | Says |
|---|---|---|
| `HumanControl` | `AgentHandsOff` | the agent observes and acts only while no human has the browser |
| | `InterruptHasACause` | the interrupt flag is up only for a take-over still to be executed or ended |
| | `HumanActionsKept` | human actions reach the history once and in order; only a browser error may lose some |
| | `AutoRunEnds` | an automatic run ends, whatever the human does not do |
| `HumanCapture` | `TextIsRecorded` | after the hand-back the trace has every text left in the agent's tabs |
| | `GesturesAreKept` | gestures of a document in their order; the last scroll is where the human left it |
| `DoneRecovery` | `OneRejectionAtATime` | no done is confirmed with a rejection outstanding |
| `ActionBatch` | `CommitsHaveTheirFields` | a commit happens only while all filled fields hold |
| | `RecordedActionsAreReplayed` | the replay has what worked, once, in order |
| `ReplayTabs` | `StepsFindTheirTab` | a step is replayed in the tab that stands for the one it was recorded in |
| `ElementFinder` | `ReplayedClickHitsTarget` | a replayed action hits the recorded element, as far as its locator can tell |
| | `PinnedLooksAsSeen` | an action of a batch hits what looks like the observed element, or nothing |
| `MessageMemory` | `OneStateWhileTold` | one page state in the history while a model is asked, none between |
| | `CutKeepsProtected` | a cut spares task, plans and the human's words, and their order |
| `ModelCall` | `AbortIsHeeded` | no request is begun after a cancel or take-over, and it is not an error of the step |
| `RunStream` | `PageCatchesUp` | a page with nothing left to read shows the run |
| | `CloseReachesThePage` | a page that streams a run that is over is told to close |
| `CdpTunnel` | `StreamsAreNotMixed` | each end of a stream gets what the other sent, in order |
| | `RestingEndsAgree` | at rest nothing sleeps in the outbox, and app and proxy hold the same streams |
| `TaskPurge` | `ScriptsHaveAnOwner` | a replay script is there only for a run, or a run that plays it |
| | `DependentsFindTheirScript` | an automatic run finds the script of its source, gone or not |
| | `RunsHaveTheirTest` | no run names a project or test that has been deleted |
| | `DeletesTakeTheFamily` | with a test goes all that was replayed from it, at any remove, in its site or in none, but no active run and no training of another test |

**Why these bounds.** Two runs are what a conflict takes: an owner and a contender, a source
and a dependent, an evicted and an evicting run. A run thread goes through the lease once,
so two runs also give two successive leases of one connection, with late messages of the
first arriving under the second. Two connections give the replacement of a worker object
that a thread still holds; the late `unregister` of the old one included. With
`MayExpire` the number of messages in flight grows, and one connection is what five
minutes allow; the proof of `ProxyBelongsToLease` covers the others. `MaxMem = 1` makes
eviction happen with two runs; `MaxMem = 2` is used where eviction is not the question.
`MaxConn`, `MaxMem` and `Runs` are the only bounds; they are constants, and the theorems hold
for all of them. Run ids are interchangeable, so the safety runs use `SYMMETRY`; the liveness
runs do not, since it is unsound there. `LifecycleLive` has one run: what ends a cancelled
run is its own thread; no guard of a cancelled run's thread depends on another run, except
that a missing source replay ends it sooner, and handlers and restarts interfere with one
run as well as with two.

For the components: two commands, three steps of the loop and two human actions let a
command that was given up meet a take-over, a hand-back and a flush; three gestures in two
tabs, with two take-overs, put what one take-over left behind into the next; seven
iterations pass every limit of `DoneRecovery` (5 stale pages, 3 empty answers, 3 critics); a
batch of three is a field, another action and a commit; two look-alikes that grow to four
give every position of a set (the module was also checked alone with three, and two
names); a limit of 9 tokens makes three messages one too many; a queue of 2 trims and
coalesces; a tunnel of two leases, two chunks, an outbox, a channel and a pending buffer of
one reaches every refusal; two projects and two tests give a dependent of another project and a
training of another test, and three runs a source, its replay and a replay of that. Two clients of one proxy, beyond what five minutes allow, only
share the outbox and the ids, which a proxy never uses twice. `MaxTurns`, `MaxSteps`,
`MaxHuman`, `MaxFaults`, `Submitted`, `MaxGestures`, `MaxTakeOvers`, `MaxBatch`, `MaxResets`,
`MaxRecorded`, `MaxListed`, `MaxChanges`, `MaxCalls`, `MaxHandBacks`, `MaxShown`, `MaxAsked`,
`MaxLag`, `MaxLeases`, `MaxClients`, `MaxChunks`, `MaxReplies`, `MaxSites`, `MaxTests` and
`MaxLaunched` are bounds of the model; the
other constants are limits of the code, made small.

**Fairness.** `ConnectLease!FairSpec`: weak fairness of each run thread, of the event loop
(message handlers and the end of a WebSocket task), of the app's poll loop and of its start
thread: all are scheduled by the operating system, and every wait in them has a timeout.
Strong fairness of `ReadyTimeout` and `BusyTimeout`: the waiting loops test a fixed
deadline on each iteration, so a loop that goes round for ever is left. Nothing obliges a
user to start or cancel a run, the app to connect, or a socket to break.
`RunLifecycle!FairSpec`: weak fairness of each run thread, whose calls (LLM requests,
replay actions, browser) have timeouts of their own. It covers no human:
`HumanReturns` is not fair, and a cancelled run must end without it.
`FairHumanSpec`: weak fairness of the run thread, whose waits are short polls, and of
the clock (`DeadlinePasses`), none of the human.

### What the violated runs show

* **`LeaseStolen`.** Between the check of the lease and the `return`, a cancel or a lost
  connection ends the lease. The caller gets a URL whose Chrome is being killed, or `None`,
  with which `BrowserContext.launch` opens a browser on the server instead of the user's.
  `LiveRunGetsOwnBrowser` (which holds) shows the extent: a run that nobody cancelled, whose
  app is still there, always works with its own browser.
* **`CancelTrains`.** A cancel that arrives while the run is graded is overwritten by
  the verdict; the run is recorded as passed, its replay saved and the task's trained pointer
  moved to it, although `tests/test_manual_mode.py` wants a cancelled run not to train.
* **`PurgeReturns`.** A cancelled run may be purged at once; its thread then persists it again.
* **`StaleRun`.** After a restart an interrupted run blocks nobody, as
  `tests/test_run_start_gate.py` wants, until someone lists the runs: the rehydrated record
  counts as active and every later start is answered 409 until that run is cancelled.

Three properties are stated in the modules and violated by the code, without a run of their
own: `HandBackReplans` (`HumanControl`: a hand-back between the planning decision and the navigator
is acted on with the old plan), `VerdictIsTheCheckers` (`HumanControl`: an aborted criteria check
becomes the verdict "failed") and `ReplayIsWhatRan` (`ActionBatch`: the notice that a batch was cut
stands where the next action's result would, so that an action which never ran is replayed).
They are listed as hazards. Nor is there a run for the remap between two actions of a batch: an element is looked
up again by the hash of its attributes, and at last by its xpath, before the recorded chain
decides, and the next action may be pinned to one without the recorded test id or name, although
`browser/locators.py:3-7` wants only the captured chain applied. `PinnedLooksAsSeen` holds: what is
pinned looks like what the remap chose.

More was seen while modelling. A queue full of events that must not be dropped drops the
oldest all the same (`run_state.py:89-103`), which is why `CloseReachesThePage` rests on "closed"
being the last. A coalesced `status` keeps the place of the older one and so may overtake an
event between them. Any error of the navigator ends the run at once (`executor.py:878`, `:946`), so that
`max_failures` is never reached by it. Planner and critic swallow every exception, cancel and
take-over included; the loop's next test sees the flag. A tab opened by a failed `open_tab` of the
training consumes an id, and a retried one opens a second tab in the replay. What the human
does in popups is not flushed at the hand-back. `take_control` sets `human_controlling` before
the recorder starts, which may fail; and a failed flush puts the buffer back, which the next
take-over clears.

Two more behaviours were seen while modelling; neither a doc nor a test says otherwise, and
they are listed as hazards. With `MayExpire = TRUE`, `QuiescentLeaseIsFree` fails: the late
`browser.starting` of an expired lease makes an idle worker `starting` with no owner, and the
start gate answers "busy" until the app reconnects. And a stop that arrives between the app's
last cancel test and `posix_spawn` leaves a Chrome at rest (`chrome # NoRun` with an idle
lease); the next start kills it. Also, the pointer to a trained run can dangle when a
purge falls between the save of the replay and the pointer update (`TrainedRunHasReplay` with
`PurgeLive = TRUE`).

### Mutants

Definitions commented "Mutant:" are plausible bugs of the code (a dropped guard, a
missing reset, an event handled in the wrong state), one for each property of a passing run;
put in place of the definition they belong to, each makes TLC find its property violated.
No specification uses them.

## 4. Theorems

All are proved for any set of runs, any `MaxConn`, `MaxMem`, `MaxAttempts`, token limit and
limits of the recovery, any length of a script or a batch, any number of tabs, fields and listed
elements, of projects and tests, of human commands, gestures and steps, of proxies, clients and chunks,
any capacity of a queue, an outbox or a buffer, and every value of the environment constants, unless stated otherwise. The
assumptions are those named in the modules: `WireAssumption`, `EnvironmentAssumption`,
`RecordsAssumption`, `HumanAssumption`, `StreamAssumption`, `ModelCallAssumption`,
`RecoveryAssumption`, `MemoryAssumption`, `ReplayAssumption`, `FinderAssumption`, `BatchAssumption`,
`CaptureAssumption`, `PurgeAssumption`, `TunnelAssumption`.

`ConnectLeaseProofs`

* `TypeCorrectness`: `Spec => []TypeOK`.
* `ProxySafety`: `Spec => []ProxyBelongsToLease`.

Both follow from one inductive invariant, `IInv`. `TypeOK` alone is not inductive: the app's
loop reads the head of a queue, so `LoopInv` says that the frames it still has to handle are
there and that it has a socket while it polls. `ProxyBelongsToLease` becomes a property of
each `WorkerConnection` (`Sound`), so that whatever sets one field of one object is a lemma
about a record; and a thread inside `request_browser_start` must hold a worker object
(`SoundThread`), or acquiring would not be a write to one.

The second half of the module, **all assuming `~MayExpire`**: the app answers a `browser.stop` before the
server's deadline. Without it the server frees a lease that the app still works on
(`LeaseStolen`, section 3), and each of these is false.

* `LeaseGivenBack`: `QuiescentLeaseIsFree`; `ReadyLeaseIsTrue`: `ReadyLeaseHasItsChrome`;
  `OwnBrowser`: `LiveRunGetsOwnBrowser`; `LeaseKept`: `LeaseKeptWhileUsed`, an action property.
* `LeaseImplementsProtocol`: `Spec => LeaseIsExclusive`, the refinement of `LeaseProtocol`. Initial
  states map to initial states, and every step is one step of the protocol for each connection it
  moves, or a stutter (`LeaseMove`).

The invariant, `StreamInv`, says what can be in flight with a lease in each state. A free lease:
nothing (`IdleStream`), and the app is `Quiet`: it has reported its last start and joined the
thread, or will not report it. A held one: its own start at most, and no stop (`HeldStream`). A
closing one: one stop on its way, or its answer behind everything else (`StoppingStream`). So a
late `browser.ready` or `browser.stopped` never meets a later lease. `ChromeInv` then ties the Chrome
of the app to the owner of the lease, `OwnerInv` says where the owner's thread may stand
(`GrantedStream`: once it was granted, only a stop is to come), and `LiveInv` that a run nobody
cancelled has what it was granted.

`RunLifecycleProofs`

* `TypeCorrectness`: `Spec => []TypeOK`.
* `StartGateSafety`, `ControlSafety`: `OneRunAtWork` and `RunAtWorkIsControllable`, which
  are only inductive together (`WorkInv`). The start gate looks at memory; a second run is kept
  out because the run at work is in memory (eviction spares active objects), with its own
  object (rehydration does not replace an object) and with an active status (whatever ends
  the status also ends the work, or is a cancel).
* `OutcomeSafety`: `OutcomeIsPersisted`. The last write of a thread is that of its row
  (`ThreadWritesRowLast`), and a cancel that got in between writes the row itself.
* `SourceSafety`: `SourceReplayIsKept`, an action property: purge deletes a replay only when
  no run of the listing depends on it.
* `TrainedSafety`: `TrainedRunHasReplay`, **assuming `~PurgeLive`**; without it the property
  is false. It rests on `RowInv` (a run with a thread has a row: a purge that lists the
  user's runs therefore sees it) and `TrainedInv` (the trained run has passed, has its
  replay, and its thread will not delete it any more).

`RunControlProofs`, about `HumanControl`

* `HandsOff`: `AgentHandsOff`; `InterruptCause`: `InterruptHasACause`; `ActionsKept`:
  `HumanActionsKept`; `HumanTypeCorrectness`: `HumanTypeOK`.

The invariant, `HumanInv`, has one part for what the run thread is at (`Turned`: where it may stand
while a human is in control, and what the flags are there), one for the commands (`Commanded`: the
run thread alone takes them off the queue, and each is waited for, taken or withdrawn), and one for
what they work on (`Controlled`). `HumanActionsKept` needs `Kept`, which orders the human's entries of
the history against those still in the recorder's buffer: a flush moves the whole buffer to the end
(`KeptByFlush`), and a recorder that is started anew finds the buffer flushed.

`RunControlProofs`, about `RunStream`

* `PageIsClosed`: `CloseReachesThePage`, for a queue of any capacity.
* `PageShowsTheRun`: `PageCatchesUp`, **assuming `Capacity >= 2`** (the code's is 64,
  `run_state.py:14`). A queue of one may lose the final status to the `report_ready` after it: neither
  is ever preferred to the other when the queue is trimmed.

An event is on its way from the run thread through the calls to the event loop to the queue of the
page. `Watched` says of each step what the last event in flight about it has to say, and what the page
shows if there is none (`StepsTold`); `Unique`, that the queue holds one event per step at most, is why
an event that replaces an older one in place still comes last. `Over` and `Closes` say that an ended
run has its "closed" in flight and nothing behind it. `Told` does the same for the status, as long as no
cancel made it jump the queue. Trimming drops the oldest droppable events and remembers them in `lost`,
so what is not `lost` was said.

`AgentProofs`

* `AbortSafety`: `AbortIsHeeded`; `ModelTypeCorrectness`: `ModelTypeOK`, whose bound says that a
  turn makes at most `4 * MaxAttempts` requests. `CountInv` adds up what the loops before this one
  may have made (`Past`: with and without JSON mode, question and repair) and the attempts of this
  one; `HeedInv` says that a request may leave after an abort only if it was on its way then (`ModelInv`).
* `RejectionSafety`: `OneRejectionAtATime`; `RecoveryTypeCorrectness`: `RecoveryTypeOK`. The type
  needs `StaleInv` (a page is stale at most once per iteration), since the count of stale
  pages has no limit of its own; the rejection is inductive as it stands, because a navigator
  step passes a done on only when none is rejected (`RecoveryInv`).
* `StateSafety`: `OneStateWhileTold`. `_summary_message_index` is a position in a list that others insert
  into and remove from, so what `MemoryInv` fixes besides is the order (`Ordered`): the task is first, a
  summary where the index says, and a state only behind both. A state taken out therefore leaves the index
  right, and a cut, which writes its summary at that index, never overwrites anything else. It also needs
  that a plan is never put before the task (`Calls`).
* `CutSafety`: `CutKeepsProtected`, an action property. What a cut must spare is a set of positions
  (`Spared`), and what it keeps of it, `Kept`, the elements there in their order. A cut makes at most
  three kinds of change to the list, each a lemma: an unprotected message goes or is replaced
  (`OneUnprotected`, `OneReplaced`), and a summary is put in. `OldestCutKeeps` applies them as often
  as the cut needs, by a least counterexample.

`ReplayProofs`

* `TabSafety`: `StepsFindTheirTab`. No state of the replay says where the training was, so the
  invariant, `TabsInv`, says that there is a sequence of browsers: the first as launched, each next one made
  of the one before by the recorded step (`AfterStep`), and each step recorded on the current tab of its
  browser (`IsHistory`). The training stands at its end, the replay at its cursor
  (`ReplayFollows`). What leaves a number behind that the other side does not have goes into `drift`.
* `PinSafety`: `PinnedLooksAsSeen`, for any page and any number of changes: what was seen is fixed from the
  remap on, and a handle is pinned only after its identity was compared with it (`PinInv`,
  `PinnedMatches`).
* `CommitSafety`: `CommitsHaveTheirFields`, an action property. Only an attempt carries anything out, at
  the place at work (`OnlyAttemptsRun`), and both attempts of a commit look at the fields.
* `ReplayIsComplete`: `RecordedActionsAreReplayed`. The i-th result is that of the i-th action,
  but for the notice that ends a batch (`InPlace`, `BatchInv`); `ReplayedPlaces` turns that into
  what the steps of the replay are, since they are the replayable results in their order.
* `ReplayHitsTheTarget`: `ReplayedClickHitsTarget`. A locator matches a set of places of the page
  (`Candidates`), so what it means is a matter of counting. `FinderInv` says what the page still has of
  the recorded one: its look (`SameLook`), its front while it only grew at the end (`HasFront`), its end
  while it only grew at the front (`HasEnd`); `FoundIsTarget` draws the conclusion.
* `HandedBackTextIsRecorded`: `TextIsRecorded`; `GesturesStayInOrder`: `GesturesAreKept`;
  `CaptureTypeCorrect`: `CaptureTypeOK`. The invariant, `CaptureInv` (`CaptureInvariant`), orders
  each document's clicks, keys and texts against its age and the count of gestures (`OrderInv`), and
  says of each field that its last text is either in the trace or held back by the page
  (`TextInv`), which only the focused field of a page is (`PageInv`), so that a flush, which
  reports what is held, completes the trace (`TextDone`); `ScrollInv` does the same for scrolls.

`ReplayProofs`, about `TaskPurge`

* `PurgeTypeCorrectness`: `PurgeTypeOK`; `ScriptOwnerSafety`: `ScriptsHaveAnOwner`;
  `DependentSafety`: `DependentsFindTheirScript`; `RunsTestSafety`: `RunsHaveTheirTest`. One
  invariant, `IInv`, holds them all and two facts more. A source is over before an automatic run
  plays it (`SourceInv`), so the end of a training never deletes a script that is played. The
  pointer of a test names a run of that test (`TrainedInv`), so what goes with it is its own.
* `FamilySafety`: `DeletesTakeTheFamily`, an action property. `Family` is the smallest closed set,
  so that every run in it beyond those the delete starts from was replayed (`FamilyFacts`). The
  loop over the runs is stated by what it computes; that it ends there is not proved.

`TunnelProofs`

* `StreamsStayApart`: `StreamsAreNotMixed`; `EndsAgreeAtRest`: `RestingEndsAgree`; `TunnelTypeCorrect`:
  `TunnelTypeOK`. All three **assume `~LateThreads`**: without it the first is false (section 2).

The invariant is `TunnelInv`. Neither property is inductive, since neither end sees under which lease
a frame was sent: a number is used again by the next proxy.

1. `Base` is about the tunnel as a whole: the types (`Shape`), what each thread may be at
   (`ThreadsSound`), how the phase of the lease goes with Chrome and the control frames on their way
   (`PhaseSound`), and `OneEra`: all that is at work or on its way is of one lease, the current one
   as soon as Chrome is up, so that the number of a frame names one stream. `OpenedBySomeone`: a frame
   is of a client that was accepted.
2. The rest is about one stream at a time (`StreamInv`) and about one queue, `InTransit`: the wire to
   the app, then the outbox. `OrderOf`: an OPEN is there once and before all else of the stream, the
   chunks rise, and those in the queue come after those the app has heard. `ContigOf`: no chunk is missing
   between what is heard, what is in the queue and what the client will send next, or a CLOSE is
   behind it. `RepliesOf`: the same for the way back. `AgreeOf`: a stream that is open at one end and
   not at the other, while the lease is ready, has an OPEN or a CLOSE in flight, or a thread that has yet to send it.
3. `DrainSound`: a frame in the outbox has its wake-up, in the event, in a scheduled call or in a drain
   that looks once more.

Of the queues themselves `TunnelQueueProofs` shows what a step does to them, whatever they hold: one
frame is put in (`Grown`) or taken out (`Shrunk`), or neighbours become one (`Merged`). `Merged` gives the
position of each old frame in the new queue and of each old chunk in its frame. The order, the presence and
the absence of frames and chunks are kept by it (`MergedHas`, `MergedOrder`), and
`FlushMerges` says that `_flush_sync_outbox` does just that. Each step of the program is then one of a
few moves of one stream (its section "What a step means for one stream"), and each part is proved move
by move. `RestingEndsAgree` follows from `AgreeOf`, `OneEra` and `DrainSound`, the other from `OrderOf`,
`ContigOf` and `RepliesOf`.

**Only model-checked**: the liveness properties (fairness and ENABLED are out of the prover's reach), and
the types of `ActionBatch`, `ReplayTabs` and `MessageMemory`, which with the proved ones make up `PartsTypeOK`.

## 5. Not modelled, and the plan

Done in this order, the most important behaviour first: (1) the lease, (2) its abstract
protocol and refinement, (3) the life of a run, (4) type and safety proofs of both, (5) the
components of a run, from the human's control to the tunnel, (6) the deletes of projects and tests.

Next:

1. The suite runner of the web UI (`useProjectSuiteRunner.tsx`), one run after the other.
2. What of `StreamsAreNotMixed` is left with `LateThreads`, for the streams of a proxy whose
   predecessor's threads had ended in time.

Not modelled, and why:

* language models, Chrome and Playwright: external; the modules let them answer anything;
* `page.py`, `dom.py`, `observation.py`: what a page looks like to Playwright; their outcome is an
  input of `ActionBatch`, `ElementFinder` and `DoneRecovery`;
* prompts, output schemas, guardrails, findings, HTML reports, the exported script: text, which no
  decision of the modelled code reads;
* auth, settings, database, migration: one SQLite transaction per call;
* the UI apart from the reducer of a watched run, the desktop app's shell, deployment.
