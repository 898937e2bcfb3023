----------------------------- MODULE ConnectLease -----------------------------
(***************************************************************************)
(* The whole Chrome lease of one user: the HTTP start gate and cancel      *)
(* (server/app.py), the run threads (server/runner.py), the registry and   *)
(* the Connect app, joined by the control messages.                        *)
(***************************************************************************)
EXTENDS WorkerRegistry, ConnectApp

VARIABLE active    \* runs whose status is pending, running or awaiting_human

leaseVars == <<wireVars, registryVars, appVars, active>>

TypeOK ==
    /\ WireTypeOK
    /\ RegistryTypeOK
    /\ AppTypeOK
    /\ active \subseteq Runs

Init ==
    /\ WireInit
    /\ RegistryInit
    /\ AppInit
    /\ active = {}

-----------------------------------------------------------------------------
(* server/app.py, on the event loop *)

\* start_run: check_run_start_allowed and add_run under user_run_start_lock.
\* connect_worker_busy expires an overdue stop before it looks.
StartRun(r) ==
    /\ thread[r].pc = "new"
    /\ active = {}
    /\ Get # NoConn
    /\ Expired(worker[Get]).state = "idle"
    /\ worker' = [worker EXCEPT ![Get] = Expired(@)]
    /\ thread' = Goto(NotifyExpired(thread, Get), r, "get")
    /\ active' = {r}
    /\ UNCHANGED <<registered, open, wireVars, appVars>>

\* _cancel_active_run
CancelRun(r) ==
    /\ r \in active
    /\ active' = active \ {r}
    /\ RequestStop(r)
    /\ UNCHANGED <<registered, open, thread, toServer, link, made, appVars>>

-----------------------------------------------------------------------------
(* server/runner.py: the rest of a run thread *)

\* request_browser_start raised: no browser was started, nothing to tear down
StartFailed(r) ==
    /\ thread[r].pc = "failed"
    /\ active' = active \ {r}
    /\ thread' = Leave(thread, r, "over")
    /\ UNCHANGED <<registered, open, worker, wireVars, appVars>>

\* The work ends: terminal status, then teardown_connect_and_browser
WorkEnds(r) ==
    /\ thread[r].pc = "using"
    /\ active' = active \ {r}
    /\ thread' = Leave(thread, r, "detach")
    /\ UNCHANGED <<registered, open, worker, wireVars, appVars>>

-----------------------------------------------------------------------------
ConnectWorker == \E c \in Conn : Connect(c) /\ Register(c) /\ UNCHANGED active

ThreadStep(r) ==
    \/ GetWorker(r) \/ AcquireLease(r) \/ AcquireProxyFails(r) \/ LeaseIsBusy(r)
    \/ BusyRetry(r) \/ BusyTimeout(r)
    \/ ReadyWait(r) \/ ReadySlice(r) \/ ReadyTimeout(r) \/ ClearReady(r) \/ CheckReady(r)
    \/ ProbeFails(r) \/ ProbeAnswers(r, browserUp /\ chrome # NoRun) \/ ReturnUrl(r)
    \/ AbortStart(r) \/ DetachProxy(r) \/ StopNoWait(r) \/ StopAndWait(r)
    \/ StopWaitTimeout(r) \/ ForceRelease(r)

ServerStep ==
    \/ \E r \in Runs : ThreadStep(r)
    \/ PollStatus \/ Logout
    \/ \E c \in Conn : \/ StopDeadlinePasses(c)
                       \/ OnStarting(c) \/ OnReady(c) \/ OnStopped(c) \/ OnError(c)
                       \/ Unregister(c)

LoopStep ==
    \/ PollReads \/ CancelBeforeJoin \/ PollReturns \/ FlushResult \/ Reaped
    \/ \E r \in Runs : StartRefused(r) \/ StartQueued(r)
    \/ \E r \in RunOrNone : StopReceived(r)

StarterStep ==
    \/ StarterBegins \/ StarterSpawns \/ StarterCannotSpawn \/ StarterSeesReady
    \/ StarterGivesUp \/ StarterEnds

AppStep == LoopStep \/ StarterStep \/ Disconnect

RunStep(r) == StartRun(r) \/ CancelRun(r) \/ StartFailed(r) \/ WorkEnds(r)

Next ==
    \/ ServerStep /\ UNCHANGED <<appVars, active>>
    \/ AppStep /\ UNCHANGED <<registryVars, active>>
    \/ \E r \in Runs : RunStep(r)
    \/ ConnectWorker

Spec == Init /\ [][Next]_leaseVars

-----------------------------------------------------------------------------
(* Fairness.  Run threads, the event loop, the app's poll loop and its start *)
(* thread are all scheduled; a loop with a fixed deadline is left in the end *)
(* (strong fairness on the two timeouts).  Nothing obliges a user to start   *)
(* or cancel a run, the app to connect, or a socket to break.                *)

RunThreadStep(r) == \/ ThreadStep(r) /\ UNCHANGED <<appVars, active>>
                    \/ StartFailed(r)
                    \/ WorkEnds(r)
DeadlineStep(r) == (ReadyTimeout(r) \/ BusyTimeout(r)) /\ UNCHANGED <<appVars, active>>
EventLoopStep(c) ==
    /\ OnStarting(c) \/ OnReady(c) \/ OnStopped(c) \/ OnError(c) \/ Unregister(c)
    /\ UNCHANGED <<appVars, active>>

Fairness ==
    /\ \A r \in Runs : WF_leaseVars(RunThreadStep(r)) /\ SF_leaseVars(DeadlineStep(r))
    /\ \A c \in Conn : WF_leaseVars(EventLoopStep(c))
    /\ WF_leaseVars(LoopStep /\ UNCHANGED <<registryVars, active>>)
    /\ WF_leaseVars(StarterStep /\ UNCHANGED <<registryVars, active>>)

FairSpec == Spec /\ Fairness

-----------------------------------------------------------------------------
(* Properties *)

\* No run thread is under way, no control message is in flight, and the
\* connected app has nothing left to do.
Quiescent ==
    /\ \A r \in Runs : thread[r].pc \in {"new", "over"}
    /\ loop = "poll" /\ ~running /\ ~pending
    /\ toApp[link] = <<>>
    /\ open = {link} /\ worker[link].online /\ toServer[link] = <<>>

\* At rest the lease is free: the start gate of app.py does not answer "Connect
\* browser is busy with another run" when there is no other run.
QuiescentLeaseIsFree ==
    Quiescent => /\ worker[link].state = "idle"
                 /\ worker[link].owner = NoRun
                 /\ worker[link].proxy = NoRun

\* When the server holds a lease as ready and nothing is on its way to end it,
\* the Chrome that runs on the app's machine is the one the lease owner started.
ReadyLeaseHasItsChrome ==
    \A c \in Conn :
        /\ c = link /\ worker[c].state = "ready"
        /\ toApp[c] = <<>>
        /\ \A i \in DOMAIN toServer[c] : toServer[c][i] \in {"ready", "error"}
        => chrome = worker[c].owner /\ browserUp

\* request_browser_start returns the caller's own browser: its proxy, under a
\* lease that names the caller and is ready.
StartReturnsOwnLease ==
    [][\A r \in Runs :
          ReturnUrl(r) => LET w == worker[thread[r].conn]
                          IN  w.url = r /\ w.owner = r /\ w.state = "ready"]_leaseVars

\* As long as its app stays connected, a run that nobody cancelled works with
\* the browser that it started itself.
LiveRunGetsOwnBrowser ==
    \A r \in active :
        thread[r].pc = "using" /\ worker[thread[r].conn].online => thread[r].got = r

\* Whoever else starts, stops, times out or is cancelled, a run that is using
\* its browser keeps the lease until it ends, is cancelled, or the app is gone.
LeaseKeptWhileUsed ==
    [][\A r \in Runs :
          LET c == thread[r].conn IN
          /\ r \in active /\ r \in active'
          /\ thread[r].pc = "using" /\ thread'[r].pc = "using"
          /\ worker[c].owner = r /\ link' = c /\ worker'[c].online
          => worker'[c].owner = r /\ worker'[c].state = worker[c].state]_leaseVars

\* A lease that is not idle becomes idle, or its app goes offline.
LeaseIsFreedInTheEnd ==
    \A c \in Conn : worker[c].state # "idle" ~> worker[c].state = "idle" \/ ~worker[c].online

\* A CDP proxy lives only under the lease it was made for: request_browser_start
\* can return no URL but one of the present holder, whatever was released,
\* expired, detached, replaced or started in between.
ProxyBelongsToLease ==
    \A c \in Conn : /\ worker[c].proxy \in {NoRun, worker[c].owner}
                    /\ worker[c].url \in {NoRun, worker[c].owner}

\* The registry, the run threads and the app together keep the promise of
\* LeaseProtocol: one run at a time, and nothing between a grant and its close.
leaseOf == [c \in Conn |->
    IF ~worker[c].online THEN [phase |-> "down", run |-> NoRun]
    ELSE [phase |-> CASE worker[c].state = "idle" -> "free"
                      [] worker[c].state = "stopping" -> "closing"
                      [] OTHER -> "held",
          run |-> worker[c].owner]]
Protocol == INSTANCE LeaseProtocol WITH lease <- leaseOf
LeaseIsExclusive == Protocol!LeaseSpec
==============================================================================
