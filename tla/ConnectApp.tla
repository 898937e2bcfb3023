------------------------------ MODULE ConnectApp ------------------------------
(***************************************************************************)
(* apps/smart-automator-connect: runtime.c and chrome.c.                   *)
(*                                                                         *)
(* runtime_worker is one poll loop: sa_worker_ws_poll hands any number of  *)
(* queued text frames to on_ws_text, then flush_chrome_result reports a    *)
(* finished start.  A start runs in chrome_start_worker, a second thread   *)
(* that shares chrome_job_cancel, chrome_result_pending and the tracked    *)
(* Chrome process with the loop.                                           *)
(***************************************************************************)
EXTENDS ConnectWire

VARIABLES
    loop,        \* where the poll loop is: offline, poll, handle, flush or reap
    batch,       \* text frames that the current sa_worker_ws_poll has yet to handle
    starter,     \* chrome_start_worker
    startRun,    \* run_id in chrome_start_worker, NoRun when it has returned
    running,     \* chrome_thread_running: the thread has not been joined
    result,      \* chrome_result_pending and chrome_result_ok
    cancel,      \* chrome_job_cancel and g_chrome_cancel
    browserUp,   \* browser_up
    chrome       \* the run the tracked Chrome process was started for, or NoRun

appVars == <<loop, batch, starter, startRun, running, result, cancel, browserUp, chrome>>

AppTypeOK ==
    /\ loop \in {"offline", "poll", "handle", "flush", "reap"}
    /\ batch \in Nat
    /\ starter \in {"none", "begun", "preparing", "waiting", "launched", "finished"}
    /\ startRun \in RunOrNone
    /\ chrome \in RunOrNone
    /\ running \in BOOLEAN
    /\ result \in {"none", "ok", "failed"}
    /\ cancel \in BOOLEAN /\ browserUp \in BOOLEAN

AppInit ==
    /\ loop = "offline" /\ batch = 0
    /\ starter = "none"
    /\ startRun = NoRun /\ chrome = NoRun
    /\ running = FALSE /\ result = "none"
    /\ cancel = FALSE /\ browserUp = FALSE

\* join_chrome_thread_if_done joins when a result is pending.  The flag may be
\* the previous start's, and then pthread_join blocks the loop until the
\* present thread ends.
pending == result # "none"
JoinIfDone == running /\ pending
JoinBlocks == JoinIfDone /\ starter # "finished"

-----------------------------------------------------------------------------
(* sa_worker_ws_poll and on_ws_text *)

\* One sa_worker_ws_poll reads some of what has arrived and handles all of it
\* before flush_chrome_result runs.
PollReads ==
    /\ loop = "poll"
    /\ batch' \in 1 .. Len(toApp[link])
    /\ loop' = "handle"
    /\ UNCHANGED <<wireVars, starter, startRun, running, result, cancel,
                   browserUp, chrome>>

Incoming(m) ==
    /\ loop = "handle"
    /\ Head(toApp[link]) = m
    /\ ~JoinBlocks
    /\ toApp' = [toApp EXCEPT ![link] = Tail(@)]
    /\ batch' = batch - 1
    /\ loop' = IF batch > 1 THEN "handle" ELSE IF pending THEN "flush" ELSE "poll"

\* queue_browser_start and stop_browser raise cancel before they block in join
CancelBeforeJoin ==
    /\ loop = "handle"
    /\ JoinBlocks
    /\ ~cancel
    /\ cancel' = TRUE
    /\ UNCHANGED <<wireVars, loop, batch, starter, startRun, running, result,
                   browserUp, chrome>>

\* queue_browser_start while the previous start is still running
StartRefused(r) ==
    /\ Incoming([type |-> "start", run |-> r])
    /\ running /\ ~pending
    /\ cancel' = TRUE
    /\ SendText(link, <<"error">>)
    /\ UNCHANGED <<link, made, starter, startRun, running, result,
                   browserUp, chrome>>

\* queue_browser_start; chrome_result_pending is left as it is
StartQueued(r) ==
    /\ Incoming([type |-> "start", run |-> r])
    /\ ~running \/ pending
    /\ cancel' = FALSE
    /\ startRun' = r
    /\ \/ /\ running' = TRUE
          /\ starter' = "begun"
          /\ SendText(link, <<"starting">>)
       \/ /\ running' = FALSE           \* pthread_create failed
          /\ starter' = "none"
          /\ SendText(link, <<"starting", "error">>)
    /\ UNCHANGED <<link, made, result, browserUp, chrome>>

\* Mutant: a start that is under way is not cancelled.
StopWithoutCancel(r) ==
    /\ Incoming([type |-> "stop", run |-> r])
    /\ running' = (running /\ ~pending)
    /\ browserUp' = FALSE
    /\ chrome' = NoRun
    /\ SendText(link, <<"stopped">>)
    /\ UNCHANGED <<link, made, starter, startRun, result, cancel>>

\* Mutant: only an app whose browser is up answers a stop.
StopAnsweredWhenUp(r) ==
    /\ Incoming([type |-> "stop", run |-> r])
    /\ cancel' = TRUE
    /\ running' = (running /\ ~pending)
    /\ browserUp' = FALSE
    /\ chrome' = NoRun
    /\ SendText(link, IF browserUp THEN <<"stopped">> ELSE <<>>)
    /\ UNCHANGED <<link, made, starter, startRun, result>>

\* stop_browser(notify = 1)
StopReceived(r) ==
    /\ Incoming([type |-> "stop", run |-> r])
    /\ cancel' = TRUE
    /\ running' = (running /\ ~pending)
    /\ browserUp' = FALSE
    /\ chrome' = NoRun
    /\ SendText(link, <<"stopped">>)
    /\ UNCHANGED <<link, made, starter, startRun, result>>

\* sa_worker_ws_poll returns without a message and flush_chrome_result finds a result pending
\* (with none pending it returns at once)
PollReturns ==
    /\ loop = "poll"
    /\ pending
    /\ loop' = "flush"
    /\ UNCHANGED <<wireVars, batch, starter, startRun, running, result, cancel,
                   browserUp, chrome>>

-----------------------------------------------------------------------------
(* flush_chrome_result *)

FlushResult ==
    /\ loop = "flush"
    /\ ~JoinBlocks
    /\ loop' = "poll"
    /\ running' = FALSE
    /\ starter' = "none"
    /\ result' = "none"
    /\ \/ /\ cancel                       \* nobody waits for it: silent
          /\ chrome' = IF result = "ok" THEN NoRun ELSE chrome
          /\ UNCHANGED <<browserUp, toServer>>
       \/ /\ ~cancel /\ result = "failed"
          /\ SendText(link, <<"error">>)
          /\ UNCHANGED <<browserUp, chrome>>
       \/ /\ ~cancel /\ result = "ok"
          /\ browserUp' = TRUE
          /\ SendText(link, <<"ready">>)
          /\ UNCHANGED chrome
    /\ UNCHANGED <<toApp, link, made, batch, startRun, cancel>>

-----------------------------------------------------------------------------
(* chrome_start_worker *)

Finish(ok) ==
    /\ starter' = "finished"
    /\ startRun' = NoRun
    /\ result' = IF ok THEN "ok" ELSE "failed"

\* The cancel tests before sa_chrome_start; a previous Chrome is killed here.
StarterBegins ==
    /\ starter = "begun"
    /\ IF cancel THEN Finish(FALSE) /\ UNCHANGED <<browserUp, chrome>>
       ELSE /\ starter' = "preparing"
            /\ browserUp' = FALSE
            /\ chrome' = IF browserUp THEN NoRun ELSE chrome
            /\ UNCHANGED <<startRun, result>>
    /\ UNCHANGED <<wireVars, loop, batch, running, cancel>>

\* chrome_start_internal: profile preparation, kill the tracked process,
\* posix_spawn.  Cancel is not looked at.
StarterSpawns ==
    /\ starter = "preparing"
    /\ starter' = "waiting"
    /\ chrome' = startRun
    /\ UNCHANGED <<wireVars, loop, batch, startRun, running, result, cancel, browserUp>>

StarterCannotSpawn ==
    /\ starter = "preparing"
    /\ Finish(FALSE)
    /\ chrome' \in {chrome, NoRun}
    /\ UNCHANGED <<wireVars, loop, batch, running, cancel, browserUp>>

\* wait_for_chrome_ready: /json/version answered
StarterSeesReady ==
    /\ starter = "waiting"
    /\ chrome = startRun
    /\ starter' = "launched"
    /\ UNCHANGED <<wireVars, loop, batch, startRun, running, result, cancel,
                   browserUp, chrome>>

\* wait_for_chrome_ready: cancelled, or the deadline passed; the process that
\* was spawned is not killed
StarterGivesUp ==
    /\ starter = "waiting"
    /\ Finish(FALSE)
    /\ UNCHANGED <<wireVars, loop, batch, running, cancel, browserUp, chrome>>

StarterEnds ==
    /\ starter = "launched"
    /\ Finish(~cancel)
    /\ chrome' = IF cancel THEN NoRun ELSE chrome
    /\ UNCHANGED <<wireVars, loop, batch, running, cancel, browserUp>>

-----------------------------------------------------------------------------
(* connection *)

\* sa_worker_ws_connect succeeds; the server's side is WorkerRegistry!Register
Connect(c) ==
    /\ loop = "offline"
    /\ made < MaxConn /\ c = made + 1
    /\ loop' = "poll"
    /\ link' = c
    /\ made' = c
    /\ UNCHANGED <<toApp, toServer, batch, starter, startRun, running, result, cancel,
                   browserUp, chrome>>

\* The socket is lost: reap_chrome_after_cancel cancels and kills.
Disconnect ==
    /\ loop \in {"poll", "handle", "flush"}
    /\ loop' = "reap"
    /\ batch' = 0
    /\ toApp' = [toApp EXCEPT ![link] = <<>>]
    /\ link' = NoConn
    /\ cancel' = TRUE
    /\ browserUp' = FALSE
    /\ chrome' = NoRun
    /\ UNCHANGED <<toServer, made, starter, startRun, running, result>>

\* ... and joins the start thread before the loop reconnects
Reaped ==
    /\ loop = "reap"
    /\ running => starter = "finished"
    /\ loop' = "offline"
    /\ running' = FALSE
    /\ starter' = "none"
    /\ result' = "none"
    /\ UNCHANGED <<wireVars, batch, startRun, cancel, browserUp, chrome>>
==============================================================================
