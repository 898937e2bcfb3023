---------------------------- MODULE WorkerRegistry ----------------------------
(***************************************************************************)
(* server/workers.py: the Chrome lease of one user's Connect worker.       *)
(*                                                                         *)
(* A WorkerConnection object is created per WebSocket and holds the lease  *)
(* (browser_state, active_run_id, the CDP proxy and its URL) and two       *)
(* threading.Events.  Run threads block in request_browser_start and       *)
(* request_browser_stop; the event loop runs handle_control_message,       *)
(* register and unregister.  Every critical section under lease_lock is    *)
(* one action.                                                             *)
(*                                                                         *)
(* Time: stop_deadline is the flag "due", raised by an action of its own;  *)
(* the 120 s deadline of a start may pass whenever its loop is at the      *)
(* test.  MayExpire = FALSE is the environment in which the app answers    *)
(* every browser.stop within WORKER_BROWSER_STOP_TIMEOUT_SECONDS, and      *)
(* MayLogout = FALSE the one in which no user logs the worker out.         *)
(***************************************************************************)
EXTENDS ConnectWire, FiniteSets

CONSTANTS MayExpire, MayLogout

ASSUME EnvironmentAssumption == MayExpire \in BOOLEAN /\ MayLogout \in BOOLEAN

VARIABLES
    registered,   \* WorkerRegistry._workers[user], or NoConn
    open,         \* connections whose ws_workers task is still running
    worker,       \* [Conn -> WorkerConnection]
    thread        \* [Runs -> run thread: pc, the worker object it holds, its URL]

registryVars == <<registered, open, worker, thread>>

\* proxy and url name the run whose request_browser_start created the proxy.
WorkerConnection ==
    [online : BOOLEAN, state : {"idle", "starting", "ready", "stopping"},
     owner : RunOrNone, due : BOOLEAN, proxy : RunOrNone, url : RunOrNone,
     ready : BOOLEAN, stopped : BOOLEAN, error : BOOLEAN]

NewWorker ==
    [online |-> TRUE, state |-> "idle", owner |-> NoRun, due |-> FALSE,
     proxy |-> NoRun, url |-> NoRun,
     ready |-> FALSE, stopped |-> FALSE, error |-> FALSE]

\* Where run_automation stands, as far as the lease is concerned.
ThreadPc ==
    {"new", "get", "acquire", "busywait", "readyloop", "readywait", "woken",
     "check", "probe", "return", "abort", "failed",
     "using", "detach", "stop1", "stop2", "stopwait", "stopwoken", "over"}

Thread == [pc : ThreadPc, conn : Conn \cup {NoConn}, got : RunOrNone]

RegistryTypeOK ==
    /\ registered \in Conn \cup {NoConn}
    /\ open \subseteq Conn
    /\ worker \in [Conn -> WorkerConnection]
    /\ thread \in [Runs -> Thread]

RegistryInit ==
    /\ registered = NoConn
    /\ open = {}
    /\ worker = [c \in Conn |-> [NewWorker EXCEPT !.online = FALSE]]
    /\ thread = [r \in Runs |-> [pc |-> "new", conn |-> NoConn, got |-> NoRun]]

\* WorkerRegistry.get
Get == IF registered # NoConn /\ worker[registered].online THEN registered
                                                           ELSE NoConn

\* threading.Event.set(): the flag stays up, and a thread blocked in wait()
\* returns even when another thread clears the flag before it runs.
Notified(t, c, pc, woken) ==
    [q \in Runs |-> IF t[q].pc = pc /\ t[q].conn = c
                      THEN [t[q] EXCEPT !.pc = woken] ELSE t[q]]
NotifyReady(t, c) == Notified(t, c, "readywait", "woken")
NotifyStopped(t, c) == Notified(t, c, "stopwait", "stopwoken")

\* Mutant: the CDP URL survives the lease it was made for.
ReleasedKeepsUrl(w) == [w EXCEPT !.proxy = NoRun, !.state = "idle", !.owner = NoRun,
                                 !.due = FALSE, !.stopped = TRUE]

\* _release_lease_locked
Released(w) == [w EXCEPT !.proxy = NoRun, !.state = "idle", !.owner = NoRun,
                         !.url = NoRun, !.due = FALSE, !.stopped = TRUE]

\* expire_stop_if_due
ExpiryDue(w) == w.state = "stopping" /\ w.due
Expired(w) == IF ExpiryDue(w) THEN Released(w) ELSE w
NotifyExpired(t, c) == IF ExpiryDue(worker[c]) THEN NotifyStopped(t, c) ELSE t

Goto(t, r, pc) == [t EXCEPT ![r].pc = pc]

\* The call returns or raises; the worker object it looked up is out of scope.
Leave(t, r, pc) == [t EXCEPT ![r] = [pc |-> pc, conn |-> NoConn, got |-> NoRun]]

-----------------------------------------------------------------------------
(* request_browser_start: the lease loop *)

\* worker = self.get(user_id); None raises "Connect app offline"
GetWorker(r) ==
    /\ thread[r].pc = "get"
    /\ thread' = [thread EXCEPT ![r].conn = Get,
                                ![r].pc = IF Get = NoConn THEN "failed" ELSE "acquire"]
    /\ UNCHANGED <<registered, open, worker, wireVars>>

\* Mutant: only a closing browser is busy.
LeaseBusyWhenStopping(w, r) == w.state = "stopping"

LeaseBusy(w, r) == \/ w.state = "stopping"
                   \/ w.state # "idle" /\ w.owner \notin {NoRun, r}

AcquireLease(r) ==
    LET c == thread[r].conn  w == Expired(worker[c]) IN
    /\ thread[r].pc = "acquire"
    /\ ~LeaseBusy(w, r)
    /\ worker' = [worker EXCEPT ![c] =
          [w EXCEPT !.error = FALSE, !.ready = FALSE, !.stopped = FALSE, !.due = FALSE,
                    !.state = "starting", !.owner = r, !.proxy = r, !.url = r]]
    /\ thread' = Goto(NotifyExpired(thread, c), r, "readyloop")
    /\ IF w.online THEN EnqueueJson(c, [type |-> "start", run |-> r]) ELSE UNCHANGED toApp
    /\ UNCHANGED <<registered, open, toServer, link, made>>

\* CdpProxy.start() raises: the lease goes back to idle and the error leaves
\* request_browser_start without a browser.stop.
AcquireProxyFails(r) ==
    LET c == thread[r].conn  w == Expired(worker[c]) IN
    /\ thread[r].pc = "acquire"
    /\ ~LeaseBusy(w, r)
    /\ worker' = [worker EXCEPT ![c] =
          [w EXCEPT !.error = FALSE, !.ready = FALSE, !.stopped = FALSE, !.due = FALSE,
                    !.state = "idle", !.owner = NoRun, !.proxy = NoRun, !.url = NoRun]]
    /\ thread' = Leave(NotifyExpired(thread, c), r, "failed")
    /\ UNCHANGED <<registered, open, wireVars>>

LeaseIsBusy(r) ==
    LET c == thread[r].conn  w == Expired(worker[c]) IN
    /\ thread[r].pc = "acquire"
    /\ LeaseBusy(w, r)
    /\ worker' = [worker EXCEPT ![c] = w]
    /\ thread' = Goto(thread, r, "busywait")
    /\ UNCHANGED <<registered, open, wireVars>>

\* stopped_event.wait(<= 1 s) returns, set or not; then stopped_event.clear()
BusyRetry(r) ==
    /\ thread[r].pc = "busywait"
    /\ worker' = [worker EXCEPT ![thread[r].conn].stopped = FALSE]
    /\ thread' = Goto(thread, r, "acquire")
    /\ UNCHANGED <<registered, open, wireVars>>

\* "Connect browser is busy with another run"
BusyTimeout(r) ==
    /\ thread[r].pc = "busywait"
    /\ thread' = Leave(thread, r, "failed")
    /\ UNCHANGED <<registered, open, worker, wireVars>>

-----------------------------------------------------------------------------
(* request_browser_start: waiting for browser.ready *)

ReadyWait(r) ==
    /\ thread[r].pc = "readyloop"
    /\ thread' = Goto(thread, r, IF worker[thread[r].conn].ready THEN "woken"
                                                                 ELSE "readywait")
    /\ UNCHANGED <<registered, open, worker, wireVars>>

ReadySlice(r) ==      \* wait(timeout = 1 s) returned False
    /\ thread[r].pc = "readywait"
    /\ thread' = Goto(thread, r, "readyloop")
    /\ UNCHANGED <<registered, open, worker, wireVars>>

ReadyTimeout(r) ==    \* TimeoutError
    /\ thread[r].pc = "readyloop"
    /\ thread' = Goto(thread, r, "abort")
    /\ UNCHANGED <<registered, open, worker, wireVars>>

ClearReady(r) ==
    /\ thread[r].pc = "woken"
    /\ worker' = [worker EXCEPT ![thread[r].conn].ready = FALSE]
    /\ thread' = Goto(thread, r, "check")
    /\ UNCHANGED <<registered, open, wireVars>>

CheckReady(r) ==
    LET w == worker[thread[r].conn] IN
    /\ thread[r].pc = "check"
    /\ thread' = Goto(thread, r,
          IF w.error THEN "abort"
          ELSE IF w.online /\ w.state = "ready" /\ w.url # NoRun THEN "probe"
          ELSE IF ~w.online THEN "abort"
          ELSE "readyloop")
    /\ UNCHANGED <<registered, open, worker, wireVars>>

\* _wait_json_version gives up, or worker.cdp_url has become None
ProbeFails(r) ==
    /\ thread[r].pc = "probe"
    /\ thread' = Goto(thread, r, "abort")
    /\ UNCHANGED <<registered, open, worker, wireVars>>

\* GET /json/version answers through the proxy; chromeAnswers is the app's side
ProbeAnswers(r, chromeAnswers) ==
    LET c == thread[r].conn IN
    /\ thread[r].pc = "probe"
    /\ worker[c].url # NoRun
    /\ worker[c].proxy = worker[c].url
    /\ link = c /\ chromeAnswers
    /\ thread' = Goto(thread, r, "return")
    /\ UNCHANGED <<registered, open, worker, wireVars>>

\* return worker.cdp_url, read again
ReturnUrl(r) ==
    /\ thread[r].pc = "return"
    /\ thread' = [thread EXCEPT ![r].pc = "using", ![r].got = worker[thread[r].conn].url]
    /\ UNCHANGED <<registered, open, worker, wireVars>>

-----------------------------------------------------------------------------
(* request_browser_stop and detach_cdp_proxy *)

\* Mutant: a stop is honoured whoever asks for it.
NotMineNever(w, r) == FALSE

\* The calls that the lease of the registered worker answers with "not mine".
NotMine(w, r) == w.owner \notin {NoRun, r}
StopIgnored(r) == \/ Get = NoConn
                  \/ NotMine(worker[Get], r)
                  \/ worker[Get].state = "idle" /\ worker[Get].proxy = NoRun

\* The locked part of request_browser_stop(run_id = r)
RequestStop(r) ==
    IF StopIgnored(r) \/ worker[Get].state = "stopping"
      THEN UNCHANGED <<worker, toApp>>
      ELSE /\ worker' = [worker EXCEPT ![Get].state = "stopping", ![Get].due = FALSE,
                                       ![Get].stopped = FALSE]
           /\ EnqueueJson(Get, [type |-> "stop", run |-> r])

\* except Exception: self.request_browser_stop(wait=False); raise
AbortStart(r) ==
    /\ thread[r].pc = "abort"
    /\ RequestStop(r)
    /\ thread' = Leave(thread, r, "failed")
    /\ UNCHANGED <<registered, open, toServer, link, made>>

DetachProxy(r) ==
    /\ thread[r].pc = "detach"
    /\ worker' = IF Get = NoConn \/ NotMine(worker[Get], r) THEN worker
                 ELSE [worker EXCEPT ![Get].proxy = NoRun, ![Get].url = NoRun]
    /\ thread' = Goto(thread, r, "stop1")
    /\ UNCHANGED <<registered, open, wireVars>>

StopNoWait(r) ==      \* then executor.cleanup() / browser_context.close()
    /\ thread[r].pc = "stop1"
    /\ RequestStop(r)
    /\ thread' = Goto(thread, r, "stop2")
    /\ UNCHANGED <<registered, open, toServer, link, made>>

StopAndWait(r) ==
    /\ thread[r].pc = "stop2"
    /\ RequestStop(r)
    /\ thread' = IF StopIgnored(r) THEN Leave(thread, r, "over")
                 ELSE [thread EXCEPT ![r].conn = Get,
                          ![r].pc = IF worker'[Get].stopped THEN "stopwoken"
                                                            ELSE "stopwait"]
    /\ UNCHANGED <<registered, open, toServer, link, made>>

\* stopped_event.wait(remaining) runs out
StopWaitTimeout(r) ==
    /\ thread[r].pc = "stopwait"
    /\ worker[thread[r].conn].due \/ worker[thread[r].conn].state # "stopping"
    /\ thread' = Goto(thread, r, "stopwoken")
    /\ UNCHANGED <<registered, open, worker, wireVars>>

ForceRelease(r) ==
    LET c == thread[r].conn
        force == worker[c].state = "stopping" /\ ~NotMine(worker[c], r) IN
    /\ thread[r].pc = "stopwoken"
    /\ worker' = IF force THEN [worker EXCEPT ![c] = Released(@)] ELSE worker
    /\ thread' = Leave(IF force THEN NotifyStopped(thread, c) ELSE thread, r, "over")
    /\ UNCHANGED <<registered, open, wireVars>>

\* time passes stop_deadline
StopDeadlinePasses(c) ==
    /\ MayExpire
    /\ worker[c].state = "stopping" /\ ~worker[c].due
    /\ worker' = [worker EXCEPT ![c].due = TRUE]
    /\ UNCHANGED <<registered, open, thread, wireVars>>

\* status_for_user, and connect_worker_busy when it answers 409
PollStatus ==
    /\ Get # NoConn
    /\ ExpiryDue(worker[Get])
    /\ worker' = [worker EXCEPT ![Get] = Released(@)]
    /\ thread' = NotifyStopped(thread, Get)
    /\ UNCHANGED <<registered, open, wireVars>>

-----------------------------------------------------------------------------
(* handle_control_message, one action per message type *)

Receive(c, m) ==
    /\ c \in open
    /\ toServer[c] # <<>> /\ Head(toServer[c]) = m
    /\ toServer' = [toServer EXCEPT ![c] = Tail(@)]
    /\ UNCHANGED <<registered, open, toApp, link, made>>

\* Mutant: browser.starting revives a lease that is closing.
OnStartingAlways(c) ==
    /\ Receive(c, "starting")
    /\ worker' = [worker EXCEPT ![c].state = "starting"]
    /\ UNCHANGED thread

OnStarting(c) ==
    /\ Receive(c, "starting")
    /\ worker' = IF worker[c].state = "stopping" THEN worker
                 ELSE [worker EXCEPT ![c].state = "starting"]
    /\ UNCHANGED thread

\* Mutant: browser.ready revives a lease that is closing.
OnReadyAlways(c) ==
    /\ Receive(c, "ready")
    /\ worker' = [worker EXCEPT ![c].state = "ready", ![c].error = FALSE, ![c].ready = TRUE]
    /\ thread' = NotifyReady(thread, c)

OnReady(c) ==
    /\ Receive(c, "ready")
    /\ IF worker[c].state = "stopping" THEN UNCHANGED <<worker, thread>>
       ELSE /\ worker' = [worker EXCEPT ![c].state = "ready", ![c].error = FALSE,
                                        ![c].ready = TRUE]
            /\ thread' = NotifyReady(thread, c)

OnStopped(c) ==
    /\ Receive(c, "stopped")
    /\ IF worker[c].state = "starting"
         THEN /\ worker' = [worker EXCEPT ![c].stopped = TRUE]
              /\ thread' = NotifyStopped(thread, c)
         ELSE /\ worker' = [worker EXCEPT ![c] = [Released(@) EXCEPT !.ready = TRUE]]
              /\ thread' = NotifyReady(NotifyStopped(thread, c), c)

OnError(c) ==
    /\ Receive(c, "error")
    /\ worker' = [worker EXCEPT ![c].error = TRUE, ![c].ready = TRUE, ![c].stopped = TRUE]
    /\ thread' = NotifyReady(NotifyStopped(thread, c), c)

-----------------------------------------------------------------------------
(* connections *)

\* register: replaces a previous connection, which goes offline without its
\* lease being released
Register(c) ==
    /\ registered' = c
    /\ open' = open \cup {c}
    /\ worker' = [d \in Conn |->
          IF d = c THEN NewWorker
          ELSE IF d = registered THEN [worker[d] EXCEPT !.online = FALSE, !.proxy = NoRun]
          ELSE worker[d]]
    /\ UNCHANGED thread

\* POST /api/workers/logout takes the worker offline and closes its socket from
\* the server's side: nothing more is sent.  The lease is left to Unregister.
Logout ==
    /\ MayLogout
    /\ Get # NoConn
    /\ worker' = [worker EXCEPT ![Get].online = FALSE]
    /\ UNCHANGED <<registered, open, thread, wireVars>>

\* the finally block of ws_workers, and unregister
Unregister(c) ==
    /\ c \in open
    /\ link # c \/ ~worker[c].online
    /\ registered' = IF registered = c THEN NoConn ELSE registered
    /\ open' = open \ {c}
    /\ worker' = [worker EXCEPT ![c] = [Released(@) EXCEPT !.online = FALSE, !.ready = TRUE]]
    /\ thread' = NotifyReady(NotifyStopped(thread, c), c)
    /\ toServer' = [toServer EXCEPT ![c] = <<>>]
    /\ UNCHANGED <<toApp, link, made>>
==============================================================================
