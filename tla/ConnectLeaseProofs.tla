-------------------------- MODULE ConnectLeaseProofs --------------------------
(***************************************************************************)
(* Theorems about ConnectLease, for any number of runs and connections:    *)
(* first those that hold whether or not stops may expire, then, for an app *)
(* that answers every browser.stop in time (~MayExpire), what is in flight *)
(* between server and app at any moment, and why the lease therefore is    *)
(* exclusive, kept and given back.                                         *)
(***************************************************************************)
EXTENDS ConnectLease, SequenceTheorems, TLAPS

\* What the app's loop relies on between two steps: it has a socket while it
\* polls, and the frames it still has to handle are queued there.
LoopInv ==
    /\ loop \in {"poll", "handle", "flush"} => link \in Conn
    /\ loop = "handle" => batch \in 1 .. Len(toApp[link])

\* ProxyBelongsToLease for one WorkerConnection, with its type.
Sound == {w \in WorkerConnection : /\ w.proxy \in {NoRun, w.owner}
                                   /\ w.url \in {NoRun, w.owner}}

\* A run thread inside request_browser_start holds the worker it looked up.
Holding == {"acquire", "busywait", "readyloop", "readywait", "woken", "check", "probe", "return"}
SoundThread == {t \in Thread : t.pc \in Holding => t.conn \in Conn}

RegistryInv ==
    /\ registered \in Conn \cup {NoConn}
    /\ open \subseteq Conn
    /\ worker \in [Conn -> Sound]
    /\ thread \in [Runs -> SoundThread]

IInv ==
    /\ WireTypeOK
    /\ RegistryInv
    /\ AppTypeOK /\ LoopInv
    /\ active \subseteq Runs

\* What any step of the server's side keeps, and what it may do to the queue
\* that the app reads from.
ServerKeeps ==
    /\ RegistryInv'
    /\ toApp' \in [Conn -> Seq(ToAppMsg)]
    /\ \A d \in Conn : Len(toApp[d]) <= Len(toApp'[d])

-----------------------------------------------------------------------------
(* Operators *)

\* A lease that was released or has expired is consistent.
LEMMA ReleasedSound ==
    ASSUME NEW w \in Sound
    PROVE  /\ Released(w) \in Sound
           /\ Expired(w) \in Sound
           /\ [Released(w) EXCEPT !.ready = TRUE] \in Sound
           /\ [Released(w) EXCEPT !.online = FALSE, !.ready = TRUE] \in Sound
<1>1. Released(w) \in Sound
  BY DEF Released, Sound, WorkerConnection, RunOrNone
<1>2. \A v \in Sound : /\ [v EXCEPT !.ready = TRUE] \in Sound
                      /\ [v EXCEPT !.online = FALSE, !.ready = TRUE] \in Sound
  BY DEF Sound, WorkerConnection
<1>3. QED BY <1>1, <1>2 DEF Expired

\* The other updates of a WorkerConnection keep the proxy and the URL of its owner.
LEMMA UpdatedSound ==
    ASSUME NEW w \in Sound
    PROVE  /\ [w EXCEPT !.online = FALSE] \in Sound
           /\ [w EXCEPT !.online = FALSE, !.proxy = NoRun] \in Sound
           /\ [w EXCEPT !.state = "stopping", !.due = FALSE, !.stopped = FALSE] \in Sound
<1>1. [w EXCEPT !.online = FALSE] \in Sound
  BY DEF Sound, WorkerConnection
<1>2. [w EXCEPT !.online = FALSE, !.proxy = NoRun] \in Sound
  BY DEF Sound, WorkerConnection, RunOrNone
<1>3. [w EXCEPT !.state = "stopping", !.due = FALSE, !.stopped = FALSE] \in Sound
  BY DEF Sound, WorkerConnection
<1>4. QED BY <1>1, <1>2, <1>3

\* A run thread that waits for the stop of c, and one that has the URL.
LEMMA UpdatedThread ==
    ASSUME NEW t \in SoundThread
    PROVE  /\ \A c \in Conn, pc \in {"stopwait", "stopwoken"} :
                  [t EXCEPT !.conn = c, !.pc = pc] \in SoundThread
           /\ \A u \in RunOrNone : [t EXCEPT !.pc = "using", !.got = u] \in SoundThread
<1>1. ASSUME NEW c \in Conn, NEW pc \in {"stopwait", "stopwoken"}
      PROVE  [t EXCEPT !.conn = c, !.pc = pc] \in SoundThread
  BY DEF SoundThread, Thread, ThreadPc, Holding
<1>2. ASSUME NEW u \in RunOrNone PROVE [t EXCEPT !.pc = "using", !.got = u] \in SoundThread
  BY DEF SoundThread, Thread, ThreadPc, Holding
<1>3. QED BY <1>1, <1>2

\* threading.Event.set() moves threads to known places and takes no worker away.
LEMMA NotifyType ==
    ASSUME NEW t \in [Runs -> SoundThread], NEW c
    PROVE  /\ NotifyReady(t, c) \in [Runs -> SoundThread]
           /\ NotifyStopped(t, c) \in [Runs -> SoundThread]
<1>1. NotifyReady(t, c) \in [Runs -> SoundThread]
  BY DEF NotifyReady, Notified, SoundThread, Thread, ThreadPc, Holding
<1>2. NotifyStopped(t, c) \in [Runs -> SoundThread]
  BY DEF NotifyStopped, Notified, SoundThread, Thread, ThreadPc, Holding
<1>3. QED BY <1>1, <1>2

LEMMA NotifyExpiredType ==
    ASSUME NEW t \in [Runs -> SoundThread], NEW c
    PROVE  /\ NotifyExpired(t, c) \in [Runs -> SoundThread]
           /\ \A r \in Runs : NotifyExpired(t, c)[r].conn = t[r].conn
<1>1. NotifyExpired(t, c) \in [Runs -> SoundThread]
  BY NotifyType DEF NotifyExpired
<1>2. \A r \in Runs : NotifyStopped(t, c)[r].conn = t[r].conn
  BY DEF NotifyStopped, Notified, SoundThread, Thread
<1>3. QED BY <1>1, <1>2 DEF NotifyExpired

LEMMA GotoType ==
    ASSUME NEW t \in [Runs -> SoundThread], NEW r \in Runs, NEW pc \in ThreadPc
    PROVE  /\ (pc \in Holding => t[r].conn \in Conn) => Goto(t, r, pc) \in [Runs -> SoundThread]
           /\ pc \notin Holding => Leave(t, r, pc) \in [Runs -> SoundThread]
BY DEF Goto, Leave, SoundThread, Thread, RunOrNone

LEMMA GetType ==
    ASSUME RegistryInv
    PROVE  Get \in Conn \/ Get = NoConn
BY DEF Get, RegistryInv

\* enqueue_json appends at most one message, to the app's present socket.
LEMMA EnqueueType ==
    ASSUME WireTypeOK, NEW c, NEW m \in ToAppMsg, EnqueueJson(c, m)
    PROVE  /\ toApp' \in [Conn -> Seq(ToAppMsg)]
           /\ \A d \in Conn : Len(toApp[d]) <= Len(toApp'[d])
<1>1. toApp \in [Conn -> Seq(ToAppMsg)]
  BY DEF WireTypeOK
<1>2. \A d \in Conn : /\ Append(toApp[d], m) \in Seq(ToAppMsg)
                     /\ Len(Append(toApp[d], m)) = Len(toApp[d]) + 1
                     /\ Len(toApp[d]) \in Nat
  BY <1>1, AppendProperties
<1>3. CASE c = link
  <2>1. toApp' = [toApp EXCEPT ![c] = Append(toApp[c], m)]
    BY <1>3 DEF EnqueueJson
  <2>2. toApp' \in [Conn -> Seq(ToAppMsg)]
    BY <1>1, <1>2, <2>1
  <2>3. \A d \in Conn : toApp'[d] \in {toApp[d], Append(toApp[d], m)}
    BY <1>1, <2>1
  <2>4. QED BY <1>2, <2>2, <2>3
<1>4. CASE c # link
  BY <1>1, <1>2, <1>4 DEF EnqueueJson
<1>5. QED BY <1>3, <1>4

LEMMA SendType ==
    ASSUME WireTypeOK, NEW c, NEW ms \in Seq(ToServerMsg), SendText(c, ms)
    PROVE  toServer' \in [Conn -> Seq(ToServerMsg)]
<1>1. toServer \in [Conn -> Seq(ToServerMsg)]
  BY DEF WireTypeOK
<1>2. \A d \in Conn : toServer[d] \o ms \in Seq(ToServerMsg)
  BY <1>1, ConcatProperties
<1>3. QED BY <1>1, <1>2 DEF SendText

\* Changing one WorkerConnection, at an index that may lie outside Conn.
LEMMA WorkerUpdate ==
    ASSUME NEW f \in [Conn -> Sound], NEW c, NEW w, c \in Conn => w \in Sound
    PROVE  [f EXCEPT ![c] = w] \in [Conn -> Sound]
OBVIOUS

LEMMA NoAppend ==
    ASSUME WireTypeOK, UNCHANGED toApp
    PROVE  /\ toApp' \in [Conn -> Seq(ToAppMsg)]
           /\ \A d \in Conn : Len(toApp[d]) <= Len(toApp'[d])
<1>1. \A d \in Conn : Len(toApp[d]) \in Nat
  BY LenProperties DEF WireTypeOK
<1>2. QED BY <1>1 DEF WireTypeOK

\* A step that leaves the app's variables alone and only appends to what the app
\* has to read keeps LoopInv.
LEMMA LoopUndisturbed ==
    ASSUME WireTypeOK, LoopInv, UNCHANGED <<loop, batch, link>>,
           \A d \in Conn : Len(toApp[d]) <= Len(toApp'[d]),
           toApp' \in [Conn -> Seq(ToAppMsg)]
    PROVE  LoopInv'
<1>1. \A d \in Conn : Len(toApp[d]) \in Nat /\ Len(toApp'[d]) \in Nat
  BY LenProperties DEF WireTypeOK
<1>2. QED BY <1>1 DEF LoopInv

-----------------------------------------------------------------------------
(* Run threads *)

\* The locked part of request_browser_stop.
LEMMA RequestStopKeeps ==
    ASSUME WireTypeOK, RegistryInv, NEW r \in Runs, RequestStop(r)
    PROVE  /\ worker' \in [Conn -> Sound]
           /\ toApp' \in [Conn -> Seq(ToAppMsg)]
           /\ \A d \in Conn : Len(toApp[d]) <= Len(toApp'[d])
<1>1. CASE StopIgnored(r) \/ worker[Get].state = "stopping"
  BY <1>1, NoAppend DEF RequestStop, RegistryInv
<1>2. CASE ~(StopIgnored(r) \/ worker[Get].state = "stopping")
  <2>1. Get \in Conn
    BY <1>2, GetType DEF StopIgnored
  <2>2. [type |-> "stop", run |-> r] \in ToAppMsg
    BY DEF ToAppMsg, RunOrNone
  <2>3. EnqueueJson(Get, [type |-> "stop", run |-> r])
    BY <1>2 DEF RequestStop
  <2>4. [worker[Get] EXCEPT !.state = "stopping", !.due = FALSE, !.stopped = FALSE] \in Sound
    BY <2>1, UpdatedSound DEF RegistryInv
  <2>5. worker' = [worker EXCEPT ![Get] =
            [worker[Get] EXCEPT !.state = "stopping", !.due = FALSE, !.stopped = FALSE]]
    BY <1>2, <2>1 DEF RequestStop, RegistryInv, Sound, WorkerConnection
  <2>6. worker' \in [Conn -> Sound]
    BY <2>4, <2>5, WorkerUpdate DEF RegistryInv
  <2>7. QED BY <2>2, <2>3, <2>6, EnqueueType
<1>3. QED BY <1>1, <1>2

\* Every step of request_browser_start and request_browser_stop, one by one.
LEMMA ThreadStepKeeps ==
    ASSUME WireTypeOK, RegistryInv, NEW r \in Runs, ThreadStep(r)
    PROVE  ServerKeeps /\ UNCHANGED <<toServer, link, made>>
<1> DEFINE c == thread[r].conn
           w == Expired(worker[c])
<1> USE DEF ServerKeeps
<1>0. /\ worker \in [Conn -> Sound] /\ thread \in [Runs -> SoundThread]
      /\ c \in Conn => w \in Sound
  BY ReleasedSound DEF RegistryInv
<1>a. \A pc \in ThreadPc :
          /\ c \in Conn \/ pc \notin Holding =>
                /\ Goto(thread, r, pc) \in [Runs -> SoundThread]
                /\ Goto(NotifyExpired(thread, c), r, pc) \in [Runs -> SoundThread]
          /\ pc \notin Holding =>
                /\ Leave(thread, r, pc) \in [Runs -> SoundThread]
                /\ Leave(NotifyExpired(thread, c), r, pc) \in [Runs -> SoundThread]
                /\ Leave(NotifyStopped(thread, c), r, pc) \in [Runs -> SoundThread]
  <2>1. /\ NotifyExpired(thread, c) \in [Runs -> SoundThread]
        /\ NotifyExpired(thread, c)[r].conn = c
        /\ NotifyStopped(thread, c) \in [Runs -> SoundThread]
    BY <1>0, NotifyType, NotifyExpiredType
  <2>2. QED BY <1>0, <2>1, GotoType
<1>b. thread[r].pc \in Holding => c \in Conn
  BY <1>0 DEF SoundThread
<1>1. CASE GetWorker(r)
  <2>1. thread' \in [Runs -> SoundThread]
    BY <1>0, <1>1, GetType DEF GetWorker, SoundThread, Thread, ThreadPc, Holding
  <2>2. QED BY <1>1, <2>1, NoAppend DEF GetWorker, RegistryInv, wireVars
<1>2. CASE AcquireLease(r)
  <2>1. [type |-> "start", run |-> r] \in ToAppMsg
    BY DEF ToAppMsg, RunOrNone
  <2>2. c \in Conn => [w EXCEPT !.error = FALSE, !.ready = FALSE, !.stopped = FALSE, !.due = FALSE,
                            !.state = "starting", !.owner = r, !.proxy = r, !.url = r] \in Sound
    BY <1>0 DEF Sound, WorkerConnection, RunOrNone
  <2>3. worker' \in [Conn -> Sound]
    BY <1>0, <1>2, <2>2, WorkerUpdate DEF AcquireLease
  <2>4. thread' \in [Runs -> SoundThread]
    BY <1>a, <1>b, <1>2 DEF AcquireLease, ThreadPc, Holding
  <2>5. \/ EnqueueJson(c, [type |-> "start", run |-> r])
        \/ UNCHANGED toApp
    BY <1>2 DEF AcquireLease
  <2>6. QED BY <1>2, <2>1, <2>3, <2>4, <2>5, EnqueueType, NoAppend DEF AcquireLease, RegistryInv
<1>3. CASE AcquireProxyFails(r)
  <2>1. c \in Conn => [w EXCEPT !.error = FALSE, !.ready = FALSE, !.stopped = FALSE, !.due = FALSE,
                            !.state = "idle", !.owner = NoRun, !.proxy = NoRun, !.url = NoRun] \in Sound
    BY <1>0 DEF Sound, WorkerConnection, RunOrNone
  <2>2. worker' \in [Conn -> Sound]
    BY <1>0, <1>3, <2>1, WorkerUpdate DEF AcquireProxyFails
  <2>3. thread' \in [Runs -> SoundThread]
    BY <1>a, <1>b, <1>3 DEF AcquireProxyFails, ThreadPc, Holding
  <2>4. QED BY <1>3, <2>2, <2>3, NoAppend DEF AcquireProxyFails, RegistryInv, wireVars
<1>4. CASE LeaseIsBusy(r)
  <2>1. worker' \in [Conn -> Sound]
    BY <1>0, <1>4, WorkerUpdate DEF LeaseIsBusy
  <2>2. thread' \in [Runs -> SoundThread]
    BY <1>a, <1>b, <1>4 DEF LeaseIsBusy, ThreadPc, Holding
  <2>3. QED BY <1>4, <2>1, <2>2, NoAppend DEF LeaseIsBusy, RegistryInv, wireVars
<1>5. CASE BusyRetry(r)
  <2>0. c \in Conn => [worker[c] EXCEPT !.stopped = FALSE] \in Sound
    BY <1>0 DEF Sound, WorkerConnection
  <2>1. worker' \in [Conn -> Sound]
    <3>1. worker' = [worker EXCEPT ![c] = [worker[c] EXCEPT !.stopped = FALSE]]
      BY <1>5 DEF BusyRetry
    <3>2. QED BY <1>0, <2>0, <3>1, WorkerUpdate
  <2>2. thread' \in [Runs -> SoundThread]
    BY <1>a, <1>b, <1>5 DEF BusyRetry, ThreadPc, Holding
  <2>3. QED BY <1>5, <2>1, <2>2, NoAppend DEF BusyRetry, RegistryInv, wireVars
<1>6. CASE BusyTimeout(r)
  BY <1>a, <1>b, <1>6, NoAppend DEF BusyTimeout, RegistryInv, wireVars, ThreadPc, Holding
<1>7. CASE ReadyWait(r)
  BY <1>a, <1>b, <1>7, NoAppend DEF ReadyWait, RegistryInv, wireVars, ThreadPc, Holding
<1>8. CASE ReadySlice(r)
  BY <1>a, <1>b, <1>8, NoAppend DEF ReadySlice, RegistryInv, wireVars, ThreadPc, Holding
<1>9. CASE ReadyTimeout(r)
  BY <1>a, <1>b, <1>9, NoAppend DEF ReadyTimeout, RegistryInv, wireVars, ThreadPc, Holding
<1>10. CASE ClearReady(r)
  <2>0. c \in Conn => [worker[c] EXCEPT !.ready = FALSE] \in Sound
    BY <1>0 DEF Sound, WorkerConnection
  <2>1. worker' \in [Conn -> Sound]
    <3>1. worker' = [worker EXCEPT ![c] = [worker[c] EXCEPT !.ready = FALSE]]
      BY <1>10 DEF ClearReady
    <3>2. QED BY <1>0, <2>0, <3>1, WorkerUpdate
  <2>2. thread' \in [Runs -> SoundThread]
    BY <1>a, <1>b, <1>10 DEF ClearReady, ThreadPc, Holding
  <2>3. QED BY <1>10, <2>1, <2>2, NoAppend DEF ClearReady, RegistryInv, wireVars
<1>11. CASE CheckReady(r)
  BY <1>a, <1>b, <1>11, NoAppend DEF CheckReady, RegistryInv, wireVars, ThreadPc, Holding
<1>12. CASE ProbeFails(r)
  BY <1>a, <1>b, <1>12, NoAppend DEF ProbeFails, RegistryInv, wireVars, ThreadPc, Holding
<1>13. CASE ProbeAnswers(r, browserUp /\ chrome # NoRun)
  BY <1>a, <1>b, <1>13, NoAppend DEF ProbeAnswers, RegistryInv, wireVars, ThreadPc, Holding
<1>14. CASE ReturnUrl(r)
  <2>1. worker[c].url \in RunOrNone
    BY <1>0, <1>b, <1>14 DEF ReturnUrl, Holding, Sound, WorkerConnection
  <2>2. thread' \in [Runs -> SoundThread]
    BY <1>0, <1>14, <2>1, UpdatedThread DEF ReturnUrl
  <2>3. QED BY <1>14, <2>2, NoAppend DEF ReturnUrl, RegistryInv, wireVars
<1>15. CASE AbortStart(r)
  BY <1>a, <1>b, <1>15, RequestStopKeeps DEF AbortStart, RegistryInv, ThreadPc, Holding
<1>16. CASE DetachProxy(r)
  <2>1. worker' \in [Conn -> Sound]
    BY <1>0, <1>16, GetType DEF DetachProxy, Sound, WorkerConnection, RunOrNone
  <2>2. QED BY <1>a, <1>b, <1>16, <2>1, NoAppend DEF DetachProxy, RegistryInv, wireVars, ThreadPc, Holding
<1>17. CASE StopNoWait(r)
  BY <1>a, <1>b, <1>17, RequestStopKeeps DEF StopNoWait, RegistryInv, ThreadPc, Holding
<1>18. CASE StopAndWait(r)
  <2>1. thread' \in [Runs -> SoundThread]
    <3>1. CASE StopIgnored(r)
      BY <1>a, <1>18, <3>1 DEF StopAndWait, ThreadPc, Holding
    <3>2. CASE ~StopIgnored(r)
      <4>1. Get \in Conn
        BY <3>2, GetType DEF StopIgnored
      <4>2. PICK pc \in {"stopwait", "stopwoken"} :
                thread' = [thread EXCEPT ![r].conn = Get, ![r].pc = pc]
        BY <1>18, <3>2 DEF StopAndWait
      <4>3. QED BY <1>0, <4>1, <4>2, UpdatedThread
    <3>3. QED BY <3>1, <3>2
  <2>2. QED BY <1>18, <2>1, RequestStopKeeps DEF StopAndWait, RegistryInv
<1>19. CASE StopWaitTimeout(r)
  BY <1>a, <1>b, <1>19, NoAppend DEF StopWaitTimeout, RegistryInv, wireVars, ThreadPc, Holding
<1>20. CASE ForceRelease(r)
  <2>1. worker' \in [Conn -> Sound]
    BY <1>0, <1>20, ReleasedSound, WorkerUpdate DEF ForceRelease
  <2>2. thread' \in [Runs -> SoundThread]
    BY <1>a, <1>b, <1>20 DEF ForceRelease, ThreadPc, Holding
  <2>3. QED BY <1>20, <2>1, <2>2, NoAppend DEF ForceRelease, RegistryInv, wireVars
<1>21. QED
  BY <1>1, <1>2, <1>3, <1>4, <1>5, <1>6, <1>7, <1>8, <1>9, <1>10, <1>11, <1>12, <1>13, <1>14,
     <1>15, <1>16, <1>17, <1>18, <1>19, <1>20, ThreadStep(r) DEF ThreadStep

-----------------------------------------------------------------------------
(* The event loop and the clock *)

LEMMA ReceiveType ==
    ASSUME WireTypeOK, NEW c \in Conn, NEW m, Receive(c, m)
    PROVE  WireTypeOK'
<1>1. Tail(toServer[c]) \in Seq(ToServerMsg)
  BY HeadTailProperties DEF Receive, WireTypeOK
<1>2. toServer' \in [Conn -> Seq(ToServerMsg)]
  BY <1>1 DEF Receive, WireTypeOK
<1>3. QED BY <1>2 DEF Receive, WireTypeOK

\* handle_control_message, unregister, and a stop that passes its deadline.
LEMMA EventLoopKeeps ==
    ASSUME WireTypeOK, RegistryInv, NEW c \in Conn,
           \/ StopDeadlinePasses(c)
           \/ OnStarting(c) \/ OnReady(c) \/ OnStopped(c) \/ OnError(c)
           \/ Unregister(c)
    PROVE  RegistryInv' /\ WireTypeOK' /\ UNCHANGED <<toApp, link, made>>
<1>0. /\ worker \in [Conn -> Sound] /\ thread \in [Runs -> SoundThread]
      /\ registered \in Conn \cup {NoConn} /\ open \subseteq Conn
      /\ worker[c] \in Sound
  BY DEF RegistryInv
<1>a. /\ NotifyReady(thread, c) \in [Runs -> SoundThread]
      /\ NotifyStopped(thread, c) \in [Runs -> SoundThread]
      /\ NotifyReady(NotifyStopped(thread, c), c) \in [Runs -> SoundThread]
  BY <1>0, NotifyType
<1>1. CASE StopDeadlinePasses(c)
  <2>1. worker' \in [Conn -> Sound]
    BY <1>0, <1>1 DEF StopDeadlinePasses, Sound, WorkerConnection
  <2>2. QED BY <1>1, <2>1 DEF StopDeadlinePasses, RegistryInv, WireTypeOK, wireVars
<1>2. CASE OnStarting(c)
  <2>1. worker' \in [Conn -> Sound]
    BY <1>0, <1>2 DEF OnStarting, Sound, WorkerConnection
  <2>2. QED BY <1>2, <2>1, ReceiveType DEF OnStarting, Receive, RegistryInv
<1>3. CASE OnReady(c)
  <2>1. worker' \in [Conn -> Sound]
    BY <1>0, <1>3 DEF OnReady, Sound, WorkerConnection
  <2>2. QED BY <1>0, <1>a, <1>3, <2>1, ReceiveType DEF OnReady, Receive, RegistryInv
<1>4. CASE OnStopped(c)
  <2>1. worker' \in [Conn -> Sound]
    <3>1. [Released(worker[c]) EXCEPT !.ready = TRUE] \in Sound
      BY <1>0, ReleasedSound
    <3>2. [worker[c] EXCEPT !.stopped = TRUE] \in Sound
      BY <1>0 DEF Sound, WorkerConnection
    <3>3. PICK v \in Sound : worker' = [worker EXCEPT ![c] = v]
      BY <1>4, <3>1, <3>2, Zenon DEF OnStopped
    <3>4. QED BY <1>0, <3>3, WorkerUpdate
  <2>2. QED BY <1>0, <1>a, <1>4, <2>1, ReceiveType DEF OnStopped, Receive, RegistryInv
<1>5. CASE OnError(c)
  <2>1. worker' \in [Conn -> Sound]
    BY <1>0, <1>5 DEF OnError, Sound, WorkerConnection
  <2>2. QED BY <1>0, <1>a, <1>5, <2>1, ReceiveType DEF OnError, Receive, RegistryInv
<1>6. CASE Unregister(c)
  <2>1. [Released(worker[c]) EXCEPT !.online = FALSE, !.ready = TRUE] \in Sound
    BY <1>0, ReleasedSound
  <2>2. worker' \in [Conn -> Sound]
    <3>1. PICK v \in Sound : worker' = [worker EXCEPT ![c] = v]
      BY <1>6, <2>1, Zenon DEF Unregister
    <3>2. QED BY <1>0, <3>1, WorkerUpdate
  <2>3. WireTypeOK'
    BY <1>6, EmptySeq DEF Unregister, WireTypeOK
  <2>4. QED BY <1>0, <1>a, <1>6, <2>2, <2>3 DEF Unregister, RegistryInv
<1>7. QED BY <1>1, <1>2, <1>3, <1>4, <1>5, <1>6

LEMMA PollStatusKeeps ==
    ASSUME WireTypeOK, RegistryInv, PollStatus
    PROVE  RegistryInv' /\ WireTypeOK' /\ UNCHANGED wireVars
<1>1. Get \in Conn
  BY GetType DEF PollStatus
<1>2. worker' \in [Conn -> Sound]
  BY <1>1, ReleasedSound DEF PollStatus, RegistryInv
<1>3. thread' \in [Runs -> SoundThread]
  BY NotifyType DEF PollStatus, RegistryInv
<1>4. QED BY <1>2, <1>3 DEF PollStatus, RegistryInv, WireTypeOK, wireVars

LEMMA LogoutKeeps ==
    ASSUME WireTypeOK, RegistryInv, Logout
    PROVE  RegistryInv' /\ WireTypeOK' /\ UNCHANGED wireVars
<1>1. Get \in Conn
  BY GetType DEF Logout
<1>2. [worker[Get] EXCEPT !.online = FALSE] \in Sound
  BY <1>1, UpdatedSound DEF RegistryInv
<1>3. worker' = [worker EXCEPT ![Get] = [worker[Get] EXCEPT !.online = FALSE]]
  BY DEF Logout
<1>4. worker' \in [Conn -> Sound]
  BY <1>2, <1>3, WorkerUpdate DEF RegistryInv
<1>5. QED BY <1>4 DEF Logout, RegistryInv, WireTypeOK, wireVars

-----------------------------------------------------------------------------
(* The Connect app *)

LEMMA IncomingKeeps ==
    ASSUME WireTypeOK, AppTypeOK, LoopInv, NEW m, Incoming(m), UNCHANGED link
    PROVE  /\ toApp' \in [Conn -> Seq(ToAppMsg)]
           /\ batch' \in Nat
           /\ loop' \in {"poll", "handle", "flush"}
           /\ LoopInv'
           /\ m \in ToAppMsg
<1>1. /\ link \in Conn /\ batch \in 1 .. Len(toApp[link])
      /\ toApp[link] \in Seq(ToAppMsg)
  BY DEF Incoming, LoopInv, WireTypeOK
<1>2. toApp[link] # <<>>
  BY <1>1, EmptySeq
<1>3. /\ Tail(toApp[link]) \in Seq(ToAppMsg)
      /\ Len(Tail(toApp[link])) = Len(toApp[link]) - 1
      /\ Head(toApp[link]) \in ToAppMsg
      /\ Len(toApp[link]) \in Nat
  BY <1>1, <1>2, HeadTailProperties, LenProperties
<1>4. /\ toApp' \in [Conn -> Seq(ToAppMsg)]
      /\ Len(toApp'[link]) = Len(toApp[link]) - 1
  BY <1>1, <1>3 DEF Incoming, WireTypeOK
<1>5. QED BY <1>1, <1>3, <1>4 DEF Incoming, LoopInv, AppTypeOK

\* on_ws_text and the rest of the poll loop, and the loss of the socket.
LEMMA LoopStepKeeps ==
    ASSUME WireTypeOK, AppTypeOK, LoopInv, LoopStep \/ Disconnect
    PROVE  WireTypeOK' /\ AppTypeOK' /\ LoopInv'
<1>0. /\ <<"starting">> \in Seq(ToServerMsg) /\ <<"ready">> \in Seq(ToServerMsg)
      /\ <<"stopped">> \in Seq(ToServerMsg) /\ <<"error">> \in Seq(ToServerMsg)
      /\ <<"starting", "error">> \in Seq(ToServerMsg)
  BY DEF ToServerMsg
<1>a. \A d \in Conn : toApp[d] \in Seq(ToAppMsg) /\ Len(toApp[d]) \in Nat
  BY LenProperties DEF WireTypeOK
<1>1. CASE PollReads
  <2>1. link \in Conn
    BY <1>1 DEF PollReads, LoopInv
  <2>2. batch' \in 1 .. Len(toApp[link]) /\ batch' \in Nat
    BY <1>1, <1>a, <2>1 DEF PollReads
  <2>3. QED BY <1>1, <2>1, <2>2 DEF PollReads, LoopInv, wireVars, WireTypeOK, AppTypeOK
<1>2. CASE CancelBeforeJoin
  BY <1>2 DEF CancelBeforeJoin, LoopInv, wireVars, WireTypeOK, AppTypeOK
<1>3. CASE PollReturns
  BY <1>3 DEF PollReturns, LoopInv, wireVars, WireTypeOK, AppTypeOK
<1>4. CASE FlushResult
  <2>1. toServer' \in [Conn -> Seq(ToServerMsg)]
    BY <1>0, <1>4, SendType DEF FlushResult, WireTypeOK
  <2>2. AppTypeOK'
    BY <1>4 DEF FlushResult, AppTypeOK, RunOrNone
  <2>3. QED BY <1>4, <2>1, <2>2 DEF FlushResult, WireTypeOK, LoopInv
<1>5. CASE Reaped
  BY <1>5 DEF Reaped, LoopInv, wireVars, WireTypeOK, AppTypeOK
<1>6. ASSUME NEW r \in Runs, StartRefused(r)
      PROVE  WireTypeOK' /\ AppTypeOK' /\ LoopInv'
  <2>1. toServer' \in [Conn -> Seq(ToServerMsg)]
    BY <1>0, <1>6, SendType DEF StartRefused
  <2>2. QED BY <1>6, <2>1, IncomingKeeps DEF StartRefused, WireTypeOK, AppTypeOK
<1>7. ASSUME NEW r \in Runs, StartQueued(r)
      PROVE  WireTypeOK' /\ AppTypeOK' /\ LoopInv'
  <2>1. toServer' \in [Conn -> Seq(ToServerMsg)]
    BY <1>0, <1>7, SendType DEF StartQueued
  <2>2. QED BY <1>7, <2>1, IncomingKeeps DEF StartQueued, WireTypeOK, AppTypeOK, RunOrNone
<1>8. ASSUME NEW r \in RunOrNone, StopReceived(r)
      PROVE  WireTypeOK' /\ AppTypeOK' /\ LoopInv'
  <2>1. toServer' \in [Conn -> Seq(ToServerMsg)]
    BY <1>0, <1>8, SendType DEF StopReceived
  <2>2. QED BY <1>8, <2>1, IncomingKeeps DEF StopReceived, WireTypeOK, AppTypeOK, RunOrNone
<1>9. CASE Disconnect
  <2>1. toApp' \in [Conn -> Seq(ToAppMsg)]
    BY <1>9, EmptySeq DEF Disconnect, WireTypeOK
  <2>2. QED BY <1>9, <2>1 DEF Disconnect, LoopInv, WireTypeOK, AppTypeOK, RunOrNone
<1>10. QED BY <1>1, <1>2, <1>3, <1>4, <1>5, <1>6, <1>7, <1>8, <1>9 DEF LoopStep

\* chrome_start_worker
LEMMA StarterStepKeeps ==
    ASSUME WireTypeOK, AppTypeOK, LoopInv, StarterStep
    PROVE  WireTypeOK' /\ AppTypeOK' /\ LoopInv'
<1> USE DEF Finish, WireTypeOK, AppTypeOK, LoopInv, wireVars, RunOrNone
<1>1. CASE StarterBegins
  BY <1>1 DEF StarterBegins
<1>2. CASE StarterSpawns
  BY <1>2 DEF StarterSpawns
<1>3. CASE StarterCannotSpawn
  BY <1>3 DEF StarterCannotSpawn
<1>4. CASE StarterSeesReady
  BY <1>4 DEF StarterSeesReady
<1>5. CASE StarterGivesUp
  BY <1>5 DEF StarterGivesUp
<1>6. CASE StarterEnds
  BY <1>6 DEF StarterEnds
<1>7. QED BY <1>1, <1>2, <1>3, <1>4, <1>5, <1>6 DEF StarterStep

-----------------------------------------------------------------------------
(* Runs and connections *)

LEMMA RunStepKeeps ==
    ASSUME IInv, NEW r \in Runs, RunStep(r)
    PROVE  IInv'
<1>0. worker \in [Conn -> Sound] /\ thread \in [Runs -> SoundThread]
  BY DEF IInv, RegistryInv
<1>1. CASE StartRun(r)
  <2>1. Get \in Conn
    BY <1>1, GetType DEF StartRun, IInv
  <2>2. worker' \in [Conn -> Sound]
    BY <1>0, <1>1, <2>1, ReleasedSound DEF StartRun
  <2>3. thread' \in [Runs -> SoundThread]
    BY <1>0, <1>1, NotifyExpiredType, GotoType DEF StartRun, ThreadPc, Holding
  <2>4. QED BY <1>1, <2>2, <2>3 DEF StartRun, IInv, RegistryInv, WireTypeOK, AppTypeOK, LoopInv,
               wireVars, appVars
<1>2. CASE CancelRun(r)
  <2>1. /\ worker' \in [Conn -> Sound]
        /\ toApp' \in [Conn -> Seq(ToAppMsg)]
        /\ \A d \in Conn : Len(toApp[d]) <= Len(toApp'[d])
    BY <1>2, RequestStopKeeps DEF CancelRun, IInv
  <2>2. LoopInv'
    BY <1>2, <2>1, LoopUndisturbed DEF CancelRun, IInv, appVars
  <2>3. QED BY <1>2, <2>1, <2>2 DEF CancelRun, IInv, RegistryInv, WireTypeOK, AppTypeOK, appVars
<1>3. CASE StartFailed(r) \/ WorkEnds(r)
  <2>1. thread' \in [Runs -> SoundThread]
    BY <1>0, <1>3, GotoType DEF StartFailed, WorkEnds, ThreadPc, Holding
  <2>2. QED BY <1>3, <2>1 DEF StartFailed, WorkEnds, IInv, RegistryInv, WireTypeOK, AppTypeOK,
               LoopInv, wireVars, appVars
<1>4. QED BY <1>1, <1>2, <1>3 DEF RunStep

LEMMA ConnectWorkerKeeps ==
    ASSUME IInv, ConnectWorker
    PROVE  IInv'
<1>1. PICK c \in Conn : Connect(c) /\ Register(c) /\ UNCHANGED active
  BY DEF ConnectWorker
<1>2. NewWorker \in Sound
  BY DEF NewWorker, Sound, WorkerConnection, RunOrNone
<1>3. \A d \in Conn : [worker[d] EXCEPT !.online = FALSE, !.proxy = NoRun] \in Sound
  BY UpdatedSound DEF IInv, RegistryInv
<1>4. worker' \in [Conn -> Sound]
  BY <1>1, <1>2, <1>3 DEF Register, IInv, RegistryInv
<1>5. RegistryInv'
  BY <1>1, <1>4 DEF Register, IInv, RegistryInv
<1>6. made' \in 0 .. MaxConn
  BY <1>1, WireAssumption DEF Connect, Conn
<1>7. QED BY <1>1, <1>5, <1>6 DEF Connect, IInv, WireTypeOK, AppTypeOK, LoopInv

-----------------------------------------------------------------------------
(* The invariant *)

LEMMA InitEstablishes == Init => IInv
<1> SUFFICES ASSUME Init PROVE IInv
  OBVIOUS
<1>1. [NewWorker EXCEPT !.online = FALSE] \in Sound
  BY DEF NewWorker, Sound, WorkerConnection, RunOrNone
<1>2. RegistryInv
  BY <1>1 DEF Init, RegistryInit, RegistryInv, SoundThread, Thread, ThreadPc, Holding, RunOrNone
<1>3. WireTypeOK
  BY WireAssumption, EmptySeq DEF Init, WireInit, WireTypeOK
<1>4. QED BY <1>2, <1>3 DEF Init, AppInit, AppTypeOK, LoopInv, IInv, RunOrNone

LEMMA NextPreserves == IInv /\ [Next]_leaseVars => IInv'
<1> SUFFICES ASSUME IInv, [Next]_leaseVars PROVE IInv'
  OBVIOUS
<1>1. ASSUME NEW r \in Runs, ThreadStep(r), UNCHANGED <<appVars, active>>
      PROVE  IInv'
  <2>1. ServerKeeps /\ UNCHANGED <<toServer, link, made>>
    BY <1>1, ThreadStepKeeps DEF IInv
  <2>2. LoopInv'
    BY <1>1, <2>1, LoopUndisturbed DEF ServerKeeps, IInv, appVars
  <2>3. QED BY <1>1, <2>1, <2>2 DEF ServerKeeps, IInv, WireTypeOK, AppTypeOK, appVars
<1>2. CASE PollStatus /\ UNCHANGED <<appVars, active>>
  BY <1>2, PollStatusKeeps DEF IInv, wireVars, AppTypeOK, LoopInv, appVars
<1>9. CASE Logout /\ UNCHANGED <<appVars, active>>
  BY <1>9, LogoutKeeps DEF IInv, wireVars, AppTypeOK, LoopInv, appVars
<1>3. ASSUME NEW c \in Conn, UNCHANGED <<appVars, active>>,
             \/ StopDeadlinePasses(c)
             \/ OnStarting(c) \/ OnReady(c) \/ OnStopped(c) \/ OnError(c)
             \/ Unregister(c)
      PROVE  IInv'
  BY <1>3, EventLoopKeeps DEF IInv, AppTypeOK, LoopInv, appVars
<1>4. CASE AppStep /\ UNCHANGED <<registryVars, active>>
  BY <1>4, LoopStepKeeps, StarterStepKeeps DEF AppStep, IInv, RegistryInv, registryVars
<1>5. CASE \E r \in Runs : RunStep(r)
  BY <1>5, RunStepKeeps
<1>6. CASE ConnectWorker
  BY <1>6, ConnectWorkerKeeps
<1>7. CASE UNCHANGED leaseVars
  BY <1>7 DEF leaseVars, wireVars, registryVars, appVars, IInv, WireTypeOK, RegistryInv,
              AppTypeOK, LoopInv
<1>8. QED BY <1>1, <1>2, <1>9, <1>3, <1>4, <1>5, <1>6, <1>7 DEF Next, ServerStep

LEMMA InvariantHolds == Spec => []IInv
BY InitEstablishes, NextPreserves, PTL DEF Spec

\* Every variable of the server and of the app keeps its type, in particular no
\* handler reads a frame that has not arrived.
THEOREM TypeCorrectness == Spec => []TypeOK
<1>1. IInv => TypeOK
  BY DEF IInv, TypeOK, RegistryInv, RegistryTypeOK, Sound, SoundThread
<1>2. QED BY <1>1, InvariantHolds, PTL

\* For any number of runs and connections, and whatever expires: the CDP proxy
\* and URL that a WorkerConnection holds belong to the run that owns its lease.
THEOREM ProxySafety == Spec => []ProxyBelongsToLease
<1>1. IInv => ProxyBelongsToLease
  BY DEF IInv, ProxyBelongsToLease, RegistryInv, Sound
<1>2. QED BY <1>1, InvariantHolds, PTL

-----------------------------------------------------------------------------
(* An app that answers in time *)

\* The app is done with its last start: reported, and the thread joined.
Done == result = "none" /\ ~running
\* The app sends nothing unless it is asked to.
Quiet == cancel \/ Done

Numbered ==
    /\ link <= made /\ registered <= made
    /\ \A r \in Runs : thread[r].conn <= made
    /\ \A c \in Conn : c > made => Len(toApp[c]) = 0 /\ Len(toServer[c]) = 0

\* Only the registered connection is online; a lease on one that is closed is
\* free, or was taken without the app.
Connected ==
    \A c \in Conn : /\ worker[c].online => registered = c /\ c \in open
                    /\ c \notin open => worker[c].state \in {"idle", "starting"}
                    /\ ~worker[c].due

\* The app has at most a start and its stop still to handle, and a start finds
\* it quiet.  A start that ended well is reported at once or not at all.
AppInv ==
    /\ loop = "flush" => pending
    /\ loop = "offline" => Done
    /\ loop \in {"offline", "reap"} => link = NoConn
    /\ ~running => starter \in {"none", "finished"}
    /\ running => starter # "none"
    /\ result = "ok" => starter \in {"none", "finished"}
    /\ result = "ok" /\ cancel => loop \in {"flush", "reap"}
    /\ link \in Conn =>
          /\ Len(toApp[link]) <= 2
          /\ Len(toApp[link]) = 2 => toApp[link][1].type = "start" /\ toApp[link][2].type = "stop"
          /\ Len(toApp[link]) = 1 /\ toApp[link][1].type = "start" => Quiet
          /\ Len(toApp[link]) = 2 => Quiet

Held(w) == w.state \in {"starting", "ready"}
HasStopped(in) == \E i \in 1 .. Len(in) : in[i] = "stopped"
OnlyStopped(in) == \A i \in 1 .. Len(in) : in[i] = "stopped"

\* A free lease: nothing is in flight.
IdleStream(c) ==
    worker[c].state = "idle" =>
        /\ Len(toServer[c]) = 0
        /\ c = link => Len(toApp[c]) = 0 /\ Quiet

\* A lease that is held: its start is on its way, or was handled; no stop is.
HeldStream(c) ==
    Held(worker[c]) =>
        /\ ~HasStopped(toServer[c])
        /\ c = link =>
             \/ Len(toApp[c]) = 0
             \/ /\ Len(toApp[c]) = 1 /\ toApp[c][1] = [type |-> "start", run |-> worker[c].owner]
                /\ Len(toServer[c]) = 0 /\ worker[c].state = "starting"

\* A lease that is closing: one stop is on its way, or its answer is, behind
\* everything else.
StoppingStream(c) ==
    worker[c].state = "stopping" =>
        /\ \A i \in 1 .. Len(toServer[c]) : toServer[c][i] = "stopped" => i = Len(toServer[c])
        /\ c = link =>
             \/ /\ Len(toApp[c]) = 2 /\ toApp[c][1] = [type |-> "start", run |-> worker[c].owner]
                /\ Len(toServer[c]) = 0
             \/ /\ Len(toApp[c]) = 1 /\ toApp[c][1].type = "stop"
                /\ ~HasStopped(toServer[c])
             \/ /\ Len(toApp[c]) = 0 /\ HasStopped(toServer[c]) /\ Quiet

\* browser.ready is the last word on a start.
ReadyStream(c) ==
    /\ worker[c].state = "ready" => Len(toServer[c]) = 0 /\ (c = link => Done)
    /\ \A i \in 1 .. Len(toServer[c]) : toServer[c][i] = "ready" =>
           /\ \A j \in i + 1 .. Len(toServer[c]) : toServer[c][j] = "stopped"
           /\ c = link => Done

Stream(c) == IdleStream(c) /\ HeldStream(c) /\ StoppingStream(c) /\ ReadyStream(c)
Streams == \A c \in open : Stream(c)

\* The Chrome that the app starts, and has started, is the lease owner's.
Working == {"begun", "preparing", "waiting", "launched"}
ReadySaid == \/ worker[link].state = "ready"
             \/ \E i \in 1 .. Len(toServer[link]) : toServer[link][i] = "ready"
ChromeInv ==
    link \in open =>
        /\ result = "ok" /\ ~cancel => chrome = worker[link].owner
        /\ starter \in Working /\ ~cancel => startRun = worker[link].owner
        /\ starter = "launched" /\ ~cancel => chrome = startRun
        /\ Held(worker[link]) /\ ReadySaid => chrome = worker[link].owner /\ browserUp

Before == {"new", "get", "acquire", "busywait"}
Waiting == {"readyloop", "readywait", "woken", "check", "probe", "return", "abort"}
\* request_browser_start has seen the lease ready
Granted == {"probe", "return", "using", "detach", "stop1", "stop2", "stopwait", "stopwoken"}

\* A run that was granted the lease of c has nothing but a stop to come.
GrantedStream(c) ==
    /\ worker[c].state \in {"ready", "stopping"}
    /\ worker[c].state = "stopping" => ~worker[c].stopped
    /\ OnlyStopped(toServer[c])
    /\ c = link => Done /\ Len(toApp[c]) <= 1

\* Where the thread of a lease's owner may be
OwnerOK(c, r) ==
    worker[c].owner = r =>
        /\ thread[r].pc \notin Before
        /\ thread[r].pc \in Waiting \cup {"using"} => thread[r].conn = c
        /\ thread[r].pc = "stopwait" /\ thread[r].conn = c => worker[c].state = "stopping"
        /\ thread[r].pc = "stopwoken" => thread[r].conn # c
        /\ worker[c].online /\ Held(worker[c]) =>
               thread[r].pc \in Waiting \cup {"using", "detach", "stop1"}
        /\ c \in open /\ thread[r].pc \in Granted => GrantedStream(c)

OwnerInv ==
    \A c \in Conn : /\ worker[c].state = "idle" <=> worker[c].owner = NoRun
                    /\ \A r \in Runs : OwnerOK(c, r)

\* A run that nobody cancelled keeps the lease it has.
LiveOK(r) ==
    /\ thread[r].pc \in Waiting \cup {"using", "stopwait", "stopwoken"} => thread[r].conn \in Conn
    /\ r \in active /\ thread[r].pc \in Waiting \cup {"using"} /\ worker[thread[r].conn].online =>
           /\ worker[thread[r].conn].owner = r /\ Held(worker[thread[r].conn])
           /\ worker[thread[r].conn].url = r /\ worker[thread[r].conn].proxy = r
           /\ thread[r].pc = "using" => thread[r].got = r
LiveInv == \A r \in Runs : LiveOK(r)

InFlight == Numbered /\ Connected /\ AppInv /\ Streams /\ ChromeInv
StreamInv == IInv /\ InFlight /\ OwnerInv /\ LiveInv

-----------------------------------------------------------------------------
(* Types, as the steps below need them                                       *)

Typed ==
    /\ NoRun \notin Runs
    /\ made \in Nat /\ link \in Nat /\ registered \in Nat /\ open \subseteq Conn
    /\ NoConn \notin Conn /\ Conn \subseteq Nat
    /\ link \in Conn \cup {NoConn} /\ registered \in Conn \cup {NoConn}
    /\ worker \in [Conn -> Sound] /\ thread \in [Runs -> SoundThread]
    /\ \A c \in Conn :
         /\ worker[c] \in WorkerConnection /\ worker[c].owner \in RunOrNone
         /\ worker[c].proxy \in {NoRun, worker[c].owner}
         /\ worker[c].url \in {NoRun, worker[c].owner}
         /\ toApp[c] \in Seq(ToAppMsg) /\ Len(toApp[c]) \in Nat
         /\ toServer[c] \in Seq(ToServerMsg) /\ Len(toServer[c]) \in Nat
         /\ toApp[c] = <<>> <=> Len(toApp[c]) = 0
         /\ toServer[c] = <<>> <=> Len(toServer[c]) = 0
    /\ \A r \in Runs : /\ thread[r] \in Thread /\ thread[r].conn \in Nat
                       /\ thread[r].pc \in Holding => thread[r].conn \in Conn

LEMMA TypeFacts == IInv => Typed
<1> SUFFICES ASSUME IInv PROVE Typed
  OBVIOUS
<1>1. /\ NoRun \notin Runs /\ NoConn \notin Conn /\ Conn \subseteq Nat /\ NoConn \in Nat
      /\ open \subseteq Conn
      /\ made \in Nat /\ link \in Nat /\ registered \in Nat
      /\ link \in Conn \cup {NoConn} /\ registered \in Conn \cup {NoConn}
      /\ worker \in [Conn -> Sound] /\ thread \in [Runs -> SoundThread]
  BY WireAssumption DEF IInv, WireTypeOK, RegistryInv, Conn, NoConn
<1>2. ASSUME NEW c \in Conn
      PROVE  /\ worker[c] \in WorkerConnection /\ worker[c].owner \in RunOrNone
             /\ worker[c].proxy \in {NoRun, worker[c].owner}
             /\ worker[c].url \in {NoRun, worker[c].owner}
             /\ toApp[c] \in Seq(ToAppMsg) /\ Len(toApp[c]) \in Nat
             /\ toServer[c] \in Seq(ToServerMsg) /\ Len(toServer[c]) \in Nat
             /\ toApp[c] = <<>> <=> Len(toApp[c]) = 0
             /\ toServer[c] = <<>> <=> Len(toServer[c]) = 0
  <2>1. worker[c] \in Sound
    BY DEF IInv, RegistryInv
  <2>2. toApp[c] \in Seq(ToAppMsg) /\ toServer[c] \in Seq(ToServerMsg)
    BY DEF IInv, WireTypeOK
  <2>3. /\ Len(toApp[c]) \in Nat /\ Len(toServer[c]) \in Nat
        /\ toApp[c] = <<>> <=> Len(toApp[c]) = 0
        /\ toServer[c] = <<>> <=> Len(toServer[c]) = 0
    BY <2>2, EmptySeq, LenProperties
  <2>4. QED BY <2>1, <2>2, <2>3 DEF Sound, WorkerConnection
<1>3. ASSUME NEW r \in Runs
      PROVE  /\ thread[r] \in Thread /\ thread[r].conn \in Nat
             /\ thread[r].pc \in Holding => thread[r].conn \in Conn
  <2>1. thread[r] \in SoundThread
    BY DEF IInv, RegistryInv
  <2>2. QED BY <1>1, <2>1 DEF SoundThread, Thread
<1>4. QED BY <1>1, <1>2, <1>3 DEF Typed

\* No stop is ever due, so nothing expires.
LEMMA NoExpiry ==
    ASSUME Connected
    PROVE  /\ \A c \in Conn : Expired(worker[c]) = worker[c]
           /\ \A c \in Conn : \A t : NotifyExpired(t, c) = t
BY DEF Connected, Expired, ExpiryDue, NotifyExpired

LEMMA GetIsOnline ==
    ASSUME StreamInv, Get # NoConn
    PROVE  Get \in Conn /\ registered = Get /\ worker[Get].online /\ Get \in open
BY TypeFacts DEF StreamInv, InFlight, Connected, Get, Typed

-----------------------------------------------------------------------------
(* What does not change                                                      *)

\* The lease of c is as it was.
Kept(c) ==
    /\ worker'[c].state = worker[c].state /\ worker'[c].owner = worker[c].owner
    /\ worker'[c].online = worker[c].online /\ worker'[c].due = worker[c].due

\* The lease of c as LeaseProtocol sees it: it is as it was, or it is granted,
\* closes, is released, or goes down with its connection.
Same(c) ==
    \/ ~worker[c].online /\ ~worker'[c].online
    \/ /\ worker[c].online /\ worker'[c].online /\ worker'[c].owner = worker[c].owner
       /\ worker'[c].state = worker[c].state \/ (Held(worker[c]) /\ Held(worker'[c]))
Moved(c) ==
    \/ worker[c].online /\ ~worker'[c].online
    \/ /\ worker[c].online /\ worker'[c].online
       /\ \/ worker[c].state = "idle" /\ worker'[c].state = "starting" /\ worker'[c].owner \in Runs
          \/ /\ Held(worker[c]) /\ worker'[c].state = "stopping"
             /\ worker'[c].owner = worker[c].owner
          \/ /\ worker[c].state = "stopping" /\ worker'[c].state = "idle"
             /\ worker'[c].owner = NoRun

\* c is the connection that the app has just made.
Opened(c) ==
    /\ c > made /\ link' = c /\ thread' = thread
    /\ ~worker[c].online
    /\ worker'[c].online /\ worker'[c].state = "idle" /\ worker'[c].owner = NoRun
    /\ \A d \in Conn : d # c => ~worker'[d].online

\* What a step does to the leases: at most one of them moves, and a run that
\* goes on using its browser keeps its connection.
LeaseMove ==
    /\ \A r \in Runs : thread[r].pc = "using" /\ thread'[r].pc = "using" =>
                           thread'[r].conn = thread[r].conn
    /\ \/ \A c \in Conn : Same(c)
       \/ \E c \in Conn : Moved(c) /\ \A d \in Conn : d # c => Same(d)

\* What is in flight on c is undisturbed if the app, when it has c's socket, is
\* as done and as quiet as before.
LEMMA StreamKept ==
    ASSUME NEW c \in Conn, Stream(c),
           worker'[c].state = worker[c].state, worker'[c].owner = worker[c].owner,
           toServer'[c] = toServer[c],
           c = link' => /\ c = link /\ toApp'[c] = toApp[c]
                        /\ (Done => Done') /\ (Quiet => Quiet')
    PROVE  Stream(c)'
<1>1. IdleStream(c)'
  BY DEF Stream, IdleStream
<1>2. HeldStream(c)'
  BY DEF Stream, HeldStream, Held
<1>3. StoppingStream(c)'
  BY DEF Stream, StoppingStream
<1>4. ReadyStream(c)'
  BY DEF Stream, ReadyStream
<1>5. QED BY <1>1, <1>2, <1>3, <1>4 DEF Stream

LEMMA AllKept ==
    ASSUME StreamInv, UNCHANGED <<registered, open, wireVars, appVars>>,
           \A c \in Conn : Kept(c), \A r \in Runs : thread'[r].conn <= made
    PROVE  InFlight'
<1>0. /\ UNCHANGED <<toApp, toServer, link, made>>
      /\ UNCHANGED <<loop, batch, starter, startRun, running, result, cancel, browserUp, chrome>>
  BY DEF wireVars, appVars
<1>1. Numbered'
  BY <1>0 DEF StreamInv, InFlight, Numbered
<1>2. Connected'
  BY DEF StreamInv, InFlight, Connected, Kept
<1>3. AppInv'
  BY <1>0 DEF StreamInv, InFlight, AppInv, pending, Quiet, Done
<1>4. Streams'
  <2> SUFFICES ASSUME NEW c \in open PROVE Stream(c)'
    BY DEF Streams
  <2>1. c \in Conn /\ Stream(c)
    BY TypeFacts DEF StreamInv, InFlight, Streams, Typed
  <2>2. (Done => Done') /\ (Quiet => Quiet')
    BY <1>0 DEF Quiet, Done
  <2>3. QED BY <1>0, <2>1, <2>2, StreamKept DEF Kept
<1>5. ChromeInv'
  <2> SUFFICES ASSUME link \in open PROVE ChromeInv'
    BY <1>0 DEF ChromeInv
  <2>1. link \in Conn
    BY TypeFacts DEF StreamInv, InFlight, Typed
  <2>2. QED BY <1>0, <2>1 DEF StreamInv, InFlight, ChromeInv, Kept, Held, ReadySaid
<1>6. QED BY <1>1, <1>2, <1>3, <1>4, <1>5 DEF InFlight

-----------------------------------------------------------------------------
(* Run threads that change no lease                                          *)

\* A step of r's thread that leaves every lease alone keeps the rest if r
\* itself is where its lease allows.
LEMMA ThreadMove ==
    ASSUME StreamInv, NEW r \in Runs,
           UNCHANGED <<registered, open, wireVars, appVars>>,
           \A c \in Conn : /\ Kept(c) /\ (worker'[c].stopped => worker[c].stopped)
                           /\ worker[c].owner \in Runs \ {r} =>
                                 worker'[c].proxy = worker[c].proxy /\ worker'[c].url = worker[c].url,
           thread'[r].conn <= made,
           thread[r].pc = "using" => thread'[r].pc # "using",
           \A q \in Runs \ {r} : thread'[q] = thread[q],
           active' \subseteq active \cup {r},
           \A c \in Conn : OwnerOK(c, r)',
           LiveOK(r)'
    PROVE  InFlight' /\ OwnerInv' /\ LiveInv' /\ LeaseMove
<1>0. Typed /\ UNCHANGED <<toApp, toServer, link, running, result>>
  BY TypeFacts DEF StreamInv, wireVars, appVars
<1>1. InFlight'
  <2>1. \A q \in Runs : thread'[q].conn <= made
    BY DEF StreamInv, InFlight, Numbered
  <2>2. QED BY <2>1, AllKept
<1>2. OwnerInv'
  <2>1. ASSUME NEW c \in Conn PROVE worker'[c].state = "idle" <=> worker'[c].owner = NoRun
    BY DEF StreamInv, OwnerInv, Kept
  <2>2. ASSUME NEW c \in Conn, NEW q \in Runs \ {r} PROVE OwnerOK(c, q)'
    <3>1. OwnerOK(c, q) /\ Kept(c) /\ thread'[q] = thread[q]
      BY DEF StreamInv, OwnerInv
    <3>2. GrantedStream(c) => GrantedStream(c)'
      BY <1>0 DEF Kept, GrantedStream, Done
    <3>3. QED BY <3>1, <3>2 DEF OwnerOK, Kept, Held
  <2>3. QED BY <2>1, <2>2 DEF OwnerInv
<1>3. LiveInv'
  <2>1. ASSUME NEW q \in Runs \ {r} PROVE LiveOK(q)'
    <3>1. LiveOK(q) /\ thread'[q] = thread[q]
      BY DEF StreamInv, LiveInv
    <3>2. QED BY <3>1 DEF LiveOK, Kept, Held
  <2>2. QED BY <2>1 DEF LiveInv
<1>4. LeaseMove
  <2>1. \A c \in Conn : Same(c)
    BY DEF Same, Kept, Typed
  <2>2. QED BY <2>1 DEF LeaseMove
<1>5. QED BY <1>1, <1>2, <1>3, <1>4

\* The steps of a run thread, and of its run, that change no lease: the waits,
\* the checks, the returns, and ForceRelease, which finds nothing to force.
LEMMA QuietSteps ==
    ASSUME StreamInv, NEW r \in Runs, UNCHANGED appVars,
           \/ /\ UNCHANGED active
              /\ \/ GetWorker(r) \/ AcquireProxyFails(r) \/ LeaseIsBusy(r)
                 \/ BusyRetry(r) \/ BusyTimeout(r)
                 \/ ReadyWait(r) \/ ReadySlice(r) \/ ReadyTimeout(r) \/ ClearReady(r) \/ CheckReady(r)
                 \/ ProbeFails(r) \/ ProbeAnswers(r, browserUp /\ chrome # NoRun) \/ ReturnUrl(r)
                 \/ StopWaitTimeout(r) \/ ForceRelease(r)
           \/ StartRun(r) \/ StartFailed(r) \/ WorkEnds(r)
    PROVE  InFlight' /\ OwnerInv' /\ LiveInv' /\ LeaseMove
<1> DEFINE c == thread[r].conn
<1>1. Typed /\ thread \in [Runs -> SoundThread] /\ worker \in [Conn -> Sound]
  BY TypeFacts DEF StreamInv, IInv, RegistryInv
<1>2. /\ \A d \in Conn : Expired(worker[d]) = worker[d]
      /\ \A d \in Conn : \A t : NotifyExpired(t, d) = t
  BY NoExpiry DEF StreamInv, InFlight
<1>3. /\ \A d \in Conn : OwnerOK(d, r)
      /\ \A d \in Conn : worker[d].state = "idle" <=> worker[d].owner = NoRun
      /\ \A d \in Conn : ~worker[d].due
      /\ \A d \in Conn : worker[d].online => registered = d /\ d \in open
      /\ LiveOK(r)
      /\ c <= made /\ NoConn <= made /\ registered <= made
  BY <1>1 DEF StreamInv, InFlight, OwnerInv, LiveInv, Connected, Numbered, Typed, NoConn
<1>4. ASSUME ForceRelease(r)
      PROVE  worker' = worker /\ thread' = Leave(thread, r, "over")
  <2>1. c \in Conn /\ thread[r].pc = "stopwoken"
    BY <1>3, <1>4 DEF ForceRelease, LiveOK
  <2>2. ~(worker[c].state = "stopping" /\ ~NotMine(worker[c], r))
    BY <1>3, <2>1 DEF OwnerOK, NotMine
  <2>3. QED BY <1>4, <2>1, <2>2 DEF ForceRelease
<1>5. ASSUME AcquireProxyFails(r)
      PROVE  /\ worker' = [worker EXCEPT ![c] = [worker[c] EXCEPT !.error = FALSE, !.ready = FALSE,
                               !.stopped = FALSE, !.due = FALSE, !.state = "idle", !.owner = NoRun,
                               !.proxy = NoRun, !.url = NoRun]]
             /\ thread' = Leave(thread, r, "failed")
             /\ c \in Conn /\ worker[c].state = "idle" /\ worker[c].owner = NoRun
             /\ worker[c].proxy = NoRun /\ worker[c].url = NoRun
  <2>1. c \in Conn /\ thread[r].pc = "acquire"
    BY <1>1, <1>5 DEF AcquireProxyFails, Typed, Holding
  <2>2. worker[c].owner # r /\ ~LeaseBusy(worker[c], r)
    BY <1>2, <1>3, <1>5, <2>1 DEF OwnerOK, Before, AcquireProxyFails
  <2>3. worker[c].state = "idle" /\ worker[c].owner = NoRun
    BY <1>1, <1>3, <2>1, <2>2 DEF LeaseBusy, Typed, WorkerConnection
  <2>4. QED BY <1>1, <1>2, <1>5, <2>1, <2>3 DEF AcquireProxyFails, Typed
<1>6. /\ UNCHANGED <<registered, open, wireVars, appVars>>
      /\ \A d \in Conn : /\ Kept(d)
                         /\ worker'[d].proxy = worker[d].proxy /\ worker'[d].url = worker[d].url
                         /\ worker'[d].stopped => worker[d].stopped
  <2> USE DEF Kept
  <2>1. CASE AcquireProxyFails(r)
    <3>1. UNCHANGED <<registered, open, wireVars, appVars>>
      BY <2>1 DEF AcquireProxyFails
    <3>2. worker[c] \in WorkerConnection /\ worker[c].due = FALSE
      BY <1>1, <1>3, <1>5, <2>1 DEF Typed, WorkerConnection
    <3>3. PICK v \in WorkerConnection :
             /\ worker' = [worker EXCEPT ![c] = v]
             /\ v.online = worker[c].online /\ v.state = "idle" /\ v.owner = NoRun
             /\ v.due = FALSE /\ v.proxy = NoRun /\ v.url = NoRun /\ v.stopped = FALSE
      <4> DEFINE v == [worker[c] EXCEPT !.error = FALSE, !.ready = FALSE, !.stopped = FALSE,
                           !.due = FALSE, !.state = "idle", !.owner = NoRun, !.proxy = NoRun,
                           !.url = NoRun]
      <4>1. /\ v.online = worker[c].online /\ v.state = "idle" /\ v.owner = NoRun
            /\ v.due = FALSE /\ v.proxy = NoRun /\ v.url = NoRun /\ v.stopped = FALSE
            /\ v \in WorkerConnection
        BY <3>2 DEF WorkerConnection, RunOrNone
      <4>2. worker' = [worker EXCEPT ![c] = v]
        BY <1>5, <2>1
      <4>3. QED BY <4>1, <4>2
    <3>4. QED BY <1>1, <1>5, <2>1, <3>1, <3>2, <3>3
  <2>2. CASE LeaseIsBusy(r) \/ BusyRetry(r) \/ ClearReady(r)
    <3>1. c \in Conn /\ worker[c] \in WorkerConnection
      BY <1>1, <2>2 DEF Typed, Holding, LeaseIsBusy, BusyRetry, ClearReady
    <3>2. QED BY <1>1, <1>2, <2>2, <3>1 DEF LeaseIsBusy, BusyRetry, ClearReady, WorkerConnection
  <2>3. CASE StartRun(r)
    <3>1. Get \in Conn
      BY <1>1, <2>3 DEF StartRun, Get, Typed
    <3>2. QED BY <1>1, <1>2, <2>3, <3>1 DEF StartRun
  <2>4. CASE ForceRelease(r)
    BY <1>4, <2>4 DEF ForceRelease
  <2>5. CASE /\ UNCHANGED active
             /\ \/ GetWorker(r) \/ BusyTimeout(r)
                \/ ReadyWait(r) \/ ReadySlice(r) \/ ReadyTimeout(r) \/ CheckReady(r)
                \/ ProbeFails(r) \/ ProbeAnswers(r, browserUp /\ chrome # NoRun) \/ ReturnUrl(r)
                \/ StopWaitTimeout(r)
    BY <2>5 DEF GetWorker, BusyTimeout, ReadyWait, ReadySlice, ReadyTimeout, CheckReady,
                ProbeFails, ProbeAnswers, ReturnUrl, StopWaitTimeout
  <2>6. CASE StartFailed(r) \/ WorkEnds(r)
    BY <2>6 DEF StartFailed, WorkEnds
  <2>7. QED BY <2>1, <2>2, <2>3, <2>4, <2>5, <2>6
<1>7. /\ thread'[r].conn <= made
      /\ \A q \in Runs \ {r} : thread'[q] = thread[q]
      /\ active' \subseteq active \cup {r}
  <2>1. Get <= made
    BY <1>3 DEF Get
  <2>2. CASE StartRun(r)
    BY <1>1, <1>2, <1>3, <2>2 DEF StartRun, Get, Goto, Typed
  <2>3. CASE UNCHANGED active /\ (LeaseIsBusy(r) \/ BusyRetry(r) \/ BusyTimeout(r) \/ GetWorker(r))
    <3>1. CASE GetWorker(r)
      BY <1>1, <1>3, <2>1, <2>3, <3>1 DEF GetWorker, SoundThread, Thread
    <3>2. CASE LeaseIsBusy(r) \/ BusyRetry(r) \/ BusyTimeout(r)
      BY <1>1, <1>3, <2>3, <3>2 DEF LeaseIsBusy, BusyRetry, BusyTimeout, Goto, Leave,
                                    SoundThread, Thread
    <3>3. QED BY <2>3, <3>1, <3>2
  <2>4. CASE /\ UNCHANGED active
             /\ \/ ReadyWait(r) \/ ReadySlice(r) \/ ReadyTimeout(r) \/ ClearReady(r) \/ CheckReady(r)
                \/ ProbeFails(r) \/ ProbeAnswers(r, browserUp /\ chrome # NoRun) \/ ReturnUrl(r)
                \/ StopWaitTimeout(r)
    <3>1. \A pc : LET t == Goto(thread, r, pc)
                 IN  t[r].conn = c /\ \A q \in Runs \ {r} : t[q] = thread[q]
      BY <1>1 DEF Goto, SoundThread, Thread
    <3>2. CASE ReturnUrl(r)
      BY <1>1, <1>3, <2>4, <3>2 DEF ReturnUrl, SoundThread, Thread
    <3>3. QED BY <1>1, <1>3, <2>4, <3>1, <3>2
          DEF ReadyWait, ReadySlice, ReadyTimeout, ClearReady, CheckReady,
              ProbeFails, ProbeAnswers, StopWaitTimeout
  <2>5. CASE \/ UNCHANGED active /\ (AcquireProxyFails(r) \/ ForceRelease(r))
             \/ StartFailed(r) \/ WorkEnds(r)
    <3>1. \A pc : LET t == Leave(thread, r, pc)
                 IN  t[r].conn = NoConn /\ \A q \in Runs \ {r} : t[q] = thread[q]
      BY <1>1 DEF Leave
    <3>2. QED BY <1>3, <1>4, <1>5, <2>5, <3>1 DEF StartFailed, WorkEnds
  <2>6. QED BY <2>2, <2>3, <2>4, <2>5
<1>8. ASSUME NEW d \in Conn PROVE OwnerOK(d, r)'
  <2>1. worker'[d].owner = worker[d].owner /\ worker'[d].state = worker[d].state
        /\ worker'[d].online = worker[d].online
    BY <1>6 DEF Kept
  <2>2. GrantedStream(d) => GrantedStream(d)'
    BY <1>1, <1>6 DEF Kept, GrantedStream, Typed, wireVars, appVars, Done
  <2>3. CASE thread[r].pc \in Before
    BY <1>3, <2>1, <2>3 DEF OwnerOK
  <2>4. CASE CheckReady(r)
    <3>1. thread[r].pc = "check" /\ thread'[r].conn = c /\ c \in Conn
      BY <1>1, <2>4 DEF CheckReady, Goto, SoundThread, Thread, Holding
    <3>2. thread'[r].pc \in {"abort", "readyloop", "probe"}
      BY <1>1, <2>4 DEF CheckReady, Goto, SoundThread, Thread
    <3>3. ASSUME thread'[r].pc = "probe" PROVE GrantedStream(c)
      <4>1. worker[c].online /\ worker[c].state = "ready"
        BY <1>1, <2>4, <3>3 DEF CheckReady, Goto, SoundThread, Thread
      <4>2. c \in open /\ ReadyStream(c) /\ HeldStream(c)
        BY <1>3, <3>1, <4>1 DEF StreamInv, InFlight, Streams, Stream
      <4>3. Len(toServer[c]) = 0 /\ (c = link => Done /\ Len(toApp[c]) = 0)
        BY <4>1, <4>2 DEF ReadyStream, HeldStream, Held
      <4>4. QED BY <4>1, <4>3 DEF GrantedStream, OnlyStopped
    <3>4. QED
      BY <1>3, <1>6, <2>1, <2>2, <3>1, <3>2, <3>3
      DEF OwnerOK, Before, Waiting, Granted, Held
  <2>5. CASE StopWaitTimeout(r)
    <3>1. /\ thread[r].pc = "stopwait" /\ thread'[r].pc = "stopwoken" /\ thread'[r].conn = c
          /\ worker[c].due \/ worker[c].state # "stopping"
      BY <1>1, <2>5 DEF StopWaitTimeout, Goto, SoundThread, Thread
    <3>2. worker[d].owner = r => c # d
      BY <1>3, <3>1 DEF OwnerOK
    <3>3. QED
      BY <1>3, <1>6, <2>1, <2>2, <3>1, <3>2 DEF OwnerOK, Before, Waiting, Granted, Held
  <2>6. CASE ReturnUrl(r)
    <3>1. thread[r].pc = "return" /\ thread'[r].pc = "using" /\ thread'[r].conn = c
      BY <1>1, <2>6 DEF ReturnUrl, SoundThread, Thread
    <3>2. QED
      BY <1>3, <1>6, <2>1, <2>2, <3>1 DEF OwnerOK, Before, Waiting, Granted, Held
  <2>7. CASE ReadyWait(r) \/ ReadySlice(r) \/ ReadyTimeout(r) \/ ClearReady(r)
             \/ ProbeFails(r) \/ ProbeAnswers(r, browserUp /\ chrome # NoRun)
    <3>1. /\ thread[r].pc \in Waiting /\ thread'[r].pc \in Waiting /\ thread'[r].conn = c
          /\ thread'[r].pc \in Granted => thread[r].pc \in Granted
      <4>1. CASE ReadyWait(r) \/ ReadySlice(r) \/ ReadyTimeout(r)
        BY <1>1, <4>1 DEF ReadyWait, ReadySlice, ReadyTimeout, Goto, SoundThread, Thread, Waiting, Granted
      <4>2. CASE ClearReady(r) \/ ProbeFails(r)
        BY <1>1, <4>2 DEF ClearReady, ProbeFails, Goto, SoundThread, Thread, Waiting, Granted
      <4>3. CASE ProbeAnswers(r, browserUp /\ chrome # NoRun)
        BY <1>1, <4>3 DEF ProbeAnswers, Goto, SoundThread, Thread, Waiting, Granted
      <4>4. QED BY <2>7, <4>1, <4>2, <4>3
    <3>2. QED
      BY <1>3, <1>6, <2>1, <2>2, <3>1 DEF OwnerOK, Before, Waiting, Held
  <2>8. CASE ForceRelease(r) \/ StartFailed(r) \/ WorkEnds(r)
    <3>1. /\ thread[r].pc \in {"stopwoken", "failed", "using"}
          /\ thread'[r].pc = IF thread[r].pc = "using" THEN "detach" ELSE "over"
      <4>1. CASE ForceRelease(r)
        BY <1>1, <1>4, <4>1 DEF ForceRelease, Leave
      <4>2. CASE StartFailed(r)
        BY <1>1, <4>2 DEF StartFailed, Leave
      <4>3. CASE WorkEnds(r)
        BY <1>1, <4>3 DEF WorkEnds, Leave
      <4>4. QED BY <2>8, <4>1, <4>2, <4>3
    <3>2. QED
      BY <1>3, <1>6, <2>1, <2>2, <3>1 DEF OwnerOK, Before, Waiting, Granted, Held
  <2>9. QED
    BY <2>3, <2>4, <2>5, <2>6, <2>7, <2>8
    DEF Before, GetWorker, AcquireProxyFails, LeaseIsBusy, BusyRetry, BusyTimeout, StartRun
<1>9. LiveOK(r)'
  <2>1. CASE thread'[r].pc \notin Waiting \cup {"using", "stopwait", "stopwoken"}
    BY <2>1 DEF LiveOK
  <2>2. CASE UNCHANGED active /\ ReturnUrl(r)
    <3>1. /\ thread[r].pc = "return" /\ thread'[r].pc = "using"
          /\ thread'[r].conn = c /\ thread'[r].got = worker[c].url /\ c \in Conn
      BY <1>1, <2>2 DEF ReturnUrl, SoundThread, Thread, Holding
    <3>2. QED BY <1>3, <1>6, <2>2, <3>1 DEF LiveOK, Waiting, Kept, Held
  <2>3. CASE /\ UNCHANGED active
             /\ \/ ReadyWait(r) \/ ReadySlice(r) \/ ReadyTimeout(r) \/ ClearReady(r) \/ CheckReady(r)
                \/ ProbeFails(r) \/ ProbeAnswers(r, browserUp /\ chrome # NoRun)
    <3>1. thread[r].pc \in Waiting /\ thread'[r].pc \in Waiting /\ thread'[r].conn = c
      BY <1>1, <2>3 DEF ReadyWait, ReadySlice, ReadyTimeout, ClearReady, CheckReady, ProbeFails,
                        ProbeAnswers, Goto, SoundThread, Thread, Waiting
    <3>2. c \in Conn /\ thread'[r].pc # "using"
      BY <1>3, <3>1 DEF LiveOK, Waiting
    <3>3. QED BY <1>3, <1>6, <2>3, <3>1, <3>2 DEF LiveOK, Kept, Held
  <2>4. CASE StopWaitTimeout(r)
    <3>1. thread[r].pc = "stopwait" /\ thread'[r].pc = "stopwoken" /\ thread'[r].conn = c
      BY <1>1, <2>4 DEF StopWaitTimeout, Goto, SoundThread, Thread
    <3>2. QED BY <1>3, <3>1 DEF LiveOK, Waiting
  <2>5. CASE \/ GetWorker(r) \/ AcquireProxyFails(r) \/ LeaseIsBusy(r) \/ BusyRetry(r) \/ BusyTimeout(r)
             \/ ForceRelease(r) \/ StartRun(r) \/ StartFailed(r) \/ WorkEnds(r)
    <3>1. thread'[r].pc \in {"failed", "acquire", "busywait", "over", "get", "detach"}
      <4>1. CASE GetWorker(r)
        BY <1>1, <4>1 DEF GetWorker, SoundThread, Thread
      <4>2. CASE StartRun(r)
        <5>1. Get \in Conn
          BY <1>1, <4>2 DEF StartRun, Get, Typed
        <5>2. QED BY <1>1, <1>2, <4>2, <5>1 DEF StartRun, Goto, SoundThread, Thread
      <4>3. CASE AcquireProxyFails(r) \/ ForceRelease(r) \/ BusyTimeout(r) \/ StartFailed(r) \/ WorkEnds(r)
        BY <1>1, <1>4, <1>5, <4>3 DEF BusyTimeout, StartFailed, WorkEnds, Leave
      <4>4. CASE LeaseIsBusy(r) \/ BusyRetry(r)
        BY <1>1, <4>4 DEF LeaseIsBusy, BusyRetry, Goto, SoundThread, Thread
      <4>5. QED BY <2>5, <4>1, <4>2, <4>3, <4>4
    <3>2. QED BY <2>1, <3>1 DEF Waiting
  <2>6. QED BY <2>2, <2>3, <2>4, <2>5
<1>10. thread[r].pc = "using" => thread'[r].pc # "using"
  <2>1. CASE WorkEnds(r)
    BY <1>1, <2>1 DEF WorkEnds, Leave
  <2>2. CASE ~WorkEnds(r)
    BY <2>2 DEF GetWorker, AcquireProxyFails, LeaseIsBusy, BusyRetry, BusyTimeout,
                ReadyWait, ReadySlice, ReadyTimeout, ClearReady, CheckReady,
                ProbeFails, ProbeAnswers, ReturnUrl, StopWaitTimeout, ForceRelease,
                StartRun, StartFailed
  <2>3. QED BY <2>1, <2>2
<1>11. QED BY <1>6, <1>7, <1>8, <1>9, <1>10, ThreadMove

-----------------------------------------------------------------------------
(* browser.stop                                                              *)

\* enqueue_json on the wire
LEMMA EnqueueFacts ==
    ASSUME IInv, NEW c \in Conn, NEW m \in ToAppMsg, EnqueueJson(c, m)
    PROVE  /\ \A d \in Conn : c # link \/ d # link => toApp'[d] = toApp[d]
           /\ c = link => /\ Len(toApp'[c]) = Len(toApp[c]) + 1
                          /\ \A i \in 1 .. Len(toApp[c]) : toApp'[c][i] = toApp[c][i]
                          /\ toApp'[c][Len(toApp[c]) + 1] = m
<1>1. toApp \in [Conn -> Seq(ToAppMsg)]
  BY DEF IInv, WireTypeOK
<1>2. CASE c # link
  BY <1>2 DEF EnqueueJson
<1>3. CASE c = link
  <2>1. toApp' = [toApp EXCEPT ![c] = Append(toApp[c], m)]
    BY <1>3 DEF EnqueueJson
  <2>2. toApp'[c] = Append(toApp[c], m) /\ \A d \in Conn : d # c => toApp'[d] = toApp[d]
    BY <1>1, <2>1
  <2>3. toApp[c] \in Seq(ToAppMsg)
    BY <1>1
  <2>4. QED BY <1>3, <2>2, <2>3, AppendProperties
<1>4. QED BY <1>2, <1>3

\* What request_browser_stop does to the leases and to what is in flight:
\* whatever lease r has on the registered connection is closing afterwards.
LEMMA StopKeeps ==
    ASSUME StreamInv, NEW r \in Runs, RequestStop(r),
           UNCHANGED <<registered, open, toServer, link, made, appVars>>,
           \A q \in Runs : thread'[q].conn <= made
    PROVE  /\ InFlight'
           /\ \A c \in Conn :
                /\ worker'[c].owner = worker[c].owner /\ worker'[c].online = worker[c].online
                /\ worker'[c].proxy = worker[c].proxy /\ worker'[c].url = worker[c].url
                /\ \/ worker'[c].state = worker[c].state
                   \/ worker[c].owner = r /\ Held(worker[c]) /\ worker'[c].state = "stopping"
                /\ worker[c].owner = r /\ worker[c].online => worker'[c].state = "stopping" /\ c = Get
                /\ c \in open /\ GrantedStream(c) => GrantedStream(c)'
<1>a. UNCHANGED <<loop, batch, starter, startRun, running, result, cancel, browserUp, chrome>>
  BY DEF appVars
<1>1. Typed /\ worker \in [Conn -> Sound]
  BY TypeFacts DEF StreamInv, IInv, RegistryInv
<1>2. /\ \A c \in Conn : worker[c].state = "idle" <=> worker[c].owner = NoRun
      /\ \A c \in Conn : worker[c].online => registered = c /\ c \in open
      /\ \A c \in Conn : ~worker[c].due
      /\ \A c \in open : Stream(c)
  BY DEF StreamInv, InFlight, OwnerInv, Connected, Streams
<1>3. ASSUME NEW c \in Conn, worker[c].owner = r, worker[c].online
      PROVE  c = Get /\ ~StopIgnored(r)
  BY <1>1, <1>2, <1>3 DEF Get, StopIgnored, NotMine, Typed
<1>4. CASE StopIgnored(r) \/ worker[Get].state = "stopping"
  <2>1. UNCHANGED <<worker, toApp>>
    BY <1>4 DEF RequestStop
  <2>2. InFlight'
    BY <1>a, <1>1, <2>1, AllKept DEF Kept, wireVars
  <2>3. \A c \in Conn : GrantedStream(c) => GrantedStream(c)'
    BY <1>a, <2>1 DEF GrantedStream, Done
  <2>4. QED BY <1>3, <1>4, <2>1, <2>2, <2>3
<1>5. CASE ~(StopIgnored(r) \/ worker[Get].state = "stopping")
  <2>1. PICK g \in Conn : g = Get /\ g \in open /\ worker[g].online /\ registered = g
    BY <1>5, GetIsOnline DEF StopIgnored
  <2>a. worker[g] \in WorkerConnection /\ Len(toApp[g]) \in Nat
    BY <1>1, <2>1 DEF Typed
  <2>2. worker[g].owner = r /\ Held(worker[g])
    BY <1>1, <1>2, <1>5, <2>1 DEF StopIgnored, NotMine, Typed, WorkerConnection, Held
  <2>3. PICK v \in WorkerConnection :
           /\ worker' = [worker EXCEPT ![g] = v]
           /\ v.state = "stopping" /\ v.due = FALSE /\ v.stopped = FALSE
           /\ v.owner = worker[g].owner /\ v.online = worker[g].online
           /\ v.proxy = worker[g].proxy /\ v.url = worker[g].url
    <3> DEFINE v == [worker[g] EXCEPT !.state = "stopping", !.due = FALSE, !.stopped = FALSE]
    <3>1. /\ v.state = "stopping" /\ v.due = FALSE /\ v.stopped = FALSE
          /\ v.owner = worker[g].owner /\ v.online = worker[g].online
          /\ v.proxy = worker[g].proxy /\ v.url = worker[g].url
          /\ v \in WorkerConnection
      BY <2>a DEF WorkerConnection
    <3>2. worker' = [worker EXCEPT ![g] = v]
      BY <1>1, <1>5, <2>1 DEF RequestStop, Sound, WorkerConnection
    <3>3. QED BY <3>1, <3>2
  <2>4. /\ \A d \in Conn : g # link \/ d # link => toApp'[d] = toApp[d]
        /\ g = link => /\ Len(toApp'[g]) = Len(toApp[g]) + 1
                       /\ \A i \in 1 .. Len(toApp[g]) : toApp'[g][i] = toApp[g][i]
                       /\ toApp'[g][Len(toApp[g]) + 1] = [type |-> "stop", run |-> r]
    <3>1. [type |-> "stop", run |-> r] \in ToAppMsg /\ IInv
      BY DEF ToAppMsg, RunOrNone, StreamInv
    <3>2. EnqueueJson(g, [type |-> "stop", run |-> r])
      BY <1>5, <2>1 DEF RequestStop
    <3>3. QED BY <2>1, <3>1, <3>2, EnqueueFacts
  <2>5. /\ Stream(g)
        /\ \A d \in Conn : d # g => worker'[d] = worker[d]
        /\ worker'[g] = v
        /\ (Done => Done') /\ (Quiet => Quiet')
    BY <1>a, <1>1, <1>2, <2>1, <2>3 DEF Done, Quiet
  <2>6. g = link =>
          /\ Len(toApp[g]) = 0 => Len(toApp'[g]) = 1 /\ toApp'[g][1].type = "stop"
          /\ Len(toApp[g]) = 1 =>
                Len(toApp'[g]) = 2 /\ toApp'[g][1] = toApp[g][1] /\ toApp'[g][2].type = "stop"
    <3>1. ASSUME g = link, Len(toApp[g]) = 0
          PROVE  Len(toApp'[g]) = 1 /\ toApp'[g][1].type = "stop"
      BY <2>4, <3>1
    <3>2. ASSUME g = link, Len(toApp[g]) = 1
          PROVE  Len(toApp'[g]) = 2 /\ toApp'[g][1] = toApp[g][1] /\ toApp'[g][2].type = "stop"
      BY <2>4, <3>2
    <3>3. QED BY <3>1, <3>2
  <2>13. Numbered'
    BY <1>1, <2>1, <2>4 DEF StreamInv, InFlight, Numbered, Typed
  <2>7. Connected'
    BY <1>1, <2>1, <2>3, <2>5 DEF StreamInv, InFlight, Connected
  <2>8. AppInv'
    <3>1. AppInv /\ (pending' <=> pending) /\ (Quiet' <=> Quiet) /\ (Done' <=> Done)
      BY <1>a DEF StreamInv, InFlight, pending, Quiet, Done
    <3>2. CASE g # link
      <4>1. link \in Conn => toApp'[link] = toApp[link]
        BY <2>4, <3>2
      <4>2. QED BY <1>a, <3>1, <4>1 DEF AppInv
    <3>3. CASE g = link
      <4>1. /\ Len(toApp[g]) = 0 \/ Len(toApp[g]) = 1
            /\ Len(toApp[g]) = 1 => toApp[g][1].type = "start" /\ Quiet
        BY <1>1, <2>1, <2>2, <2>5, <3>1, <3>3 DEF Stream, HeldStream, AppInv
      <4>2. CASE Len(toApp[g]) = 0
        <5>1. Len(toApp'[g]) = 1 /\ toApp'[g][1].type = "stop"
          BY <2>6, <3>3, <4>2
        <5>2. QED BY <1>a, <3>1, <3>3, <5>1 DEF AppInv
      <4>3. CASE Len(toApp[g]) = 1
        <5>1. /\ Len(toApp'[g]) = 2 /\ toApp'[g][1].type = "start" /\ toApp'[g][2].type = "stop"
              /\ Quiet
          BY <2>6, <3>3, <4>1, <4>3
        <5>2. QED BY <1>a, <3>1, <3>3, <5>1 DEF AppInv
      <4>4. QED BY <4>1, <4>2, <4>3
    <3>4. QED BY <3>2, <3>3
  <2>9. Streams'
    <3> SUFFICES ASSUME NEW c \in open PROVE Stream(c)'
      BY DEF Streams
    <3>1. CASE c # g
      <4>1. c \in Conn /\ Stream(c) /\ worker'[c] = worker[c]
        BY <1>1, <1>2, <2>5, <3>1 DEF Typed
      <4>2. toApp'[c] = toApp[c] \/ c = link
        BY <2>4, <4>1
      <4>3. toApp'[c] = toApp[c]
        BY <2>4, <3>1, <4>1, <4>2
      <4>4. QED BY <2>5, <4>1, <4>3, StreamKept
    <3>2. CASE c = g
      <4>1. /\ IdleStream(g)' /\ HeldStream(g)'
            /\ worker'[g].state = "stopping" /\ worker'[g].owner = worker[g].owner
        BY <2>3, <2>5 DEF IdleStream, HeldStream, Held
      <4>2. ReadyStream(g)'
        BY <2>5, <4>1 DEF ReadyStream, Stream
      <4>3. /\ ~HasStopped(toServer[g])
            /\ g = link =>
                 \/ Len(toApp[g]) = 0
                 \/ /\ Len(toApp[g]) = 1 /\ toApp[g][1] = [type |-> "start", run |-> worker[g].owner]
                    /\ Len(toServer[g]) = 0
        BY <2>2, <2>5 DEF Stream, HeldStream
      <4>4. g = link =>
                 \/ /\ Len(toApp'[g]) = 2 /\ toApp'[g][1] = [type |-> "start", run |-> worker[g].owner]
                    /\ Len(toServer[g]) = 0
                 \/ Len(toApp'[g]) = 1 /\ toApp'[g][1].type = "stop"
        BY <2>6, <4>3
      <4>5. StoppingStream(g)'
        BY <4>1, <4>3, <4>4 DEF StoppingStream, HasStopped
      <4>6. QED BY <3>2, <4>1, <4>2, <4>5 DEF Stream
    <3>3. QED BY <3>1, <3>2
  <2>10. ChromeInv'
    <3>1. ASSUME link \in open PROVE worker'[link].owner = worker[link].owner
      BY <1>1, <2>3, <2>5, <3>1 DEF Typed
    <3>2. ASSUME link \in open, Held(worker'[link]), ReadySaid' PROVE Held(worker[link]) /\ ReadySaid
      BY <1>1, <2>3, <2>5, <3>2 DEF Typed, Held, ReadySaid
    <3>3. ChromeInv
      BY DEF StreamInv, InFlight
    <3>4. QED BY <1>a, <3>1, <3>2, <3>3 DEF ChromeInv
  <2>11. ASSUME NEW c \in open, GrantedStream(c) PROVE GrantedStream(c)'
    <3>1. CASE c # g
      <4>1. toApp'[c] = toApp[c] /\ worker'[c] = worker[c]
        BY <1>1, <2>4, <2>5, <3>1 DEF Typed
      <4>2. QED BY <1>a, <2>11, <4>1 DEF GrantedStream, Done
    <3>2. CASE c = g
      <4>1. worker[g].state = "ready" /\ OnlyStopped(toServer[g]) /\ (g = link => Done)
        BY <2>2, <2>11, <3>2 DEF GrantedStream, Held
      <4>2. g = link => Len(toApp[g]) = 0
        BY <2>5, <4>1 DEF Stream, HeldStream, Held
      <4>3. ASSUME g = link PROVE Len(toApp'[g]) <= 1
        <5>1. Len(toApp'[g]) = 1
          BY <2>6, <4>2, <4>3
        <5>2. QED BY <5>1
      <4>4. GrantedStream(g)'
        BY <2>3, <2>5, <4>1, <4>3 DEF GrantedStream
      <4>5. QED BY <3>2, <4>4
    <3>3. QED BY <3>1, <3>2
  <2>12. InFlight'
    BY <2>13, <2>7, <2>8, <2>9, <2>10 DEF InFlight
  <2>14. QED
    <3> SUFFICES ASSUME NEW c \in Conn
                 PROVE  /\ worker'[c].owner = worker[c].owner /\ worker'[c].online = worker[c].online
                        /\ worker'[c].proxy = worker[c].proxy /\ worker'[c].url = worker[c].url
                        /\ \/ worker'[c].state = worker[c].state
                           \/ worker[c].owner = r /\ Held(worker[c]) /\ worker'[c].state = "stopping"
                        /\ worker[c].owner = r /\ worker[c].online =>
                              worker'[c].state = "stopping" /\ c = Get
                        /\ c \in open /\ GrantedStream(c) => GrantedStream(c)'
      BY <2>12
    <3>1. CASE c = g
      BY <2>1, <2>2, <2>3, <2>5, <2>11, <3>1
    <3>2. CASE c # g
      BY <1>3, <2>1, <2>5, <2>11, <3>2
    <3>3. QED BY <3>1, <3>2
<1>6. QED BY <1>4, <1>5

\* The three places where a run thread asks for its browser to be stopped, and
\* the cancel of a run.
LEMMA StopSteps ==
    ASSUME StreamInv, NEW r \in Runs, UNCHANGED appVars,
           \/ UNCHANGED active /\ (AbortStart(r) \/ StopNoWait(r) \/ StopAndWait(r))
           \/ CancelRun(r)
    PROVE  InFlight' /\ OwnerInv' /\ LiveInv' /\ LeaseMove
<1>1. Typed /\ thread \in [Runs -> SoundThread]
  BY TypeFacts DEF StreamInv, IInv, RegistryInv
<1>2. /\ \A c \in Conn, q \in Runs : OwnerOK(c, q)
      /\ \A q \in Runs : LiveOK(q) /\ thread[q].conn <= made
      /\ \A c \in Conn : worker[c].state = "idle" <=> worker[c].owner = NoRun
      /\ \A c \in Conn : worker[c].online => registered = c /\ c \in open
      /\ NoConn <= made /\ Get <= made
  <2>1. InFlight /\ OwnerInv /\ LiveInv
    BY DEF StreamInv
  <2>2. /\ \A c \in Conn, q \in Runs : OwnerOK(c, q)
        /\ \A c \in Conn : worker[c].state = "idle" <=> worker[c].owner = NoRun
    BY <2>1 DEF OwnerInv
  <2>3. \A q \in Runs : LiveOK(q) /\ thread[q].conn <= made
    BY <2>1 DEF LiveInv, InFlight, Numbered
  <2>4. \A c \in Conn : worker[c].online => registered = c /\ c \in open
    BY <2>1 DEF InFlight, Connected
  <2>5. NoConn <= made /\ Get <= made
    BY <1>1, <2>1 DEF InFlight, Numbered, Typed, NoConn, Get
  <2>6. QED BY <2>2, <2>3, <2>4, <2>5
<1>3. RequestStop(r) /\ UNCHANGED <<registered, open, toServer, link, made, appVars>>
  BY DEF AbortStart, StopNoWait, StopAndWait, CancelRun
<1>4. active' \subseteq active /\ (CancelRun(r) => r \notin active')
  BY DEF CancelRun
<1>5. ASSUME StopAndWait(r)
      PROVE  /\ thread[r].pc = "stop2"
             /\ \A q \in Runs \ {r} : thread'[q] = thread[q]
             /\ \/ thread'[r].pc = "over" /\ thread'[r].conn = NoConn
                \/ /\ Get \in Conn /\ thread'[r].conn = Get
                   /\ thread'[r].pc = IF worker'[Get].stopped THEN "stopwoken" ELSE "stopwait"
  <2>1. CASE StopIgnored(r)
    BY <1>1, <1>5, <2>1 DEF StopAndWait, Leave
  <2>2. CASE ~StopIgnored(r)
    <3>1. Get \in Conn
      BY <1>1, <2>2 DEF StopIgnored, Get, Typed
    <3>2. QED BY <1>1, <1>5, <2>2, <3>1 DEF StopAndWait, SoundThread, Thread
  <2>3. QED BY <2>1, <2>2
<1>6. ASSUME AbortStart(r)
      PROVE  /\ thread'[r].pc = "failed" /\ thread'[r].conn = NoConn
             /\ \A q \in Runs \ {r} : thread'[q] = thread[q]
  BY <1>1, <1>6 DEF AbortStart, Leave
<1>7. ASSUME StopNoWait(r)
      PROVE  /\ thread[r].pc = "stop1"
             /\ thread'[r].pc = "stop2" /\ thread'[r].conn = thread[r].conn
             /\ \A q \in Runs \ {r} : thread'[q] = thread[q]
  BY <1>1, <1>7 DEF StopNoWait, Goto, SoundThread, Thread
<1>8. CancelRun(r) => thread' = thread
  BY DEF CancelRun
<1>9. \A q \in Runs : thread'[q].conn <= made /\ (q # r => thread'[q] = thread[q])
  BY <1>2, <1>5, <1>6, <1>7, <1>8
<1>10. /\ InFlight'
       /\ \A c \in Conn :
            /\ worker'[c].owner = worker[c].owner /\ worker'[c].online = worker[c].online
            /\ worker'[c].proxy = worker[c].proxy /\ worker'[c].url = worker[c].url
            /\ \/ worker'[c].state = worker[c].state
               \/ worker[c].owner = r /\ Held(worker[c]) /\ worker'[c].state = "stopping"
            /\ worker[c].owner = r /\ worker[c].online => worker'[c].state = "stopping" /\ c = Get
            /\ c \in open /\ GrantedStream(c) => GrantedStream(c)'
  BY <1>3, <1>9, StopKeeps, Zenon
<1>11. OwnerInv'
  <2>1. ASSUME NEW c \in Conn PROVE worker'[c].state = "idle" <=> worker'[c].owner = NoRun
    BY <1>1, <1>2, <1>10 DEF Held, Typed
  <2>2. ASSUME NEW c \in Conn, NEW q \in Runs, q # r PROVE OwnerOK(c, q)'
    <3>1. OwnerOK(c, q) /\ thread'[q] = thread[q] /\ open' = open
      BY <1>2, <1>3, <1>9, <2>2
    <3>2. worker'[c].owner = q => worker'[c].state = worker[c].state
      BY <1>10, <2>2
    <3>3. QED BY <1>10, <3>1, <3>2 DEF OwnerOK, Held
  <2>3. ASSUME NEW c \in Conn PROVE OwnerOK(c, r)'
    <3>1. OwnerOK(c, r) /\ open' = open
      BY <1>2, <1>3
    <3>2. worker'[c].owner = r /\ worker'[c].online => ~Held(worker'[c])
      BY <1>10 DEF Held
    <3>3. CASE AbortStart(r)
      BY <1>6, <3>2, <3>3 DEF OwnerOK, Before, Waiting, Granted
    <3>4. CASE StopNoWait(r)
      BY <1>7, <1>10, <3>1, <3>2, <3>4 DEF OwnerOK, Before, Waiting, Granted
    <3>5. CASE CancelRun(r)
      BY <1>8, <1>10, <3>1, <3>2, <3>5 DEF OwnerOK
    <3>6. CASE StopAndWait(r)
      <4> SUFFICES ASSUME worker[c].owner = r PROVE OwnerOK(c, r)'
        BY <1>10 DEF OwnerOK
      <4>1. c \in open => GrantedStream(c)'
        BY <1>5, <1>10, <3>1, <3>6 DEF OwnerOK, Granted
      <4>2. CASE thread'[r].pc = "over"
        BY <3>2, <4>2 DEF OwnerOK, Before, Waiting, Granted
      <4>3. CASE thread'[r].pc # "over"
        <5>1. /\ Get \in Conn /\ thread'[r].conn = Get
              /\ thread'[r].pc = IF worker'[Get].stopped THEN "stopwoken" ELSE "stopwait"
          BY <1>5, <3>6, <4>3
        <5>2. c = Get => worker[c].online /\ c \in open
          BY <1>1, <5>1, GetIsOnline DEF Typed
        <5>3. c = Get => worker'[c].state = "stopping" /\ ~worker'[c].stopped
          BY <1>10, <4>1, <5>2 DEF GrantedStream
        <5>4. QED BY <3>1, <3>2, <4>1, <5>1, <5>3 DEF OwnerOK, Before, Waiting, Granted
      <4>4. QED BY <4>2, <4>3
    <3>7. QED BY <3>3, <3>4, <3>5, <3>6
  <2>4. QED BY <2>1, <2>2, <2>3 DEF OwnerInv
<1>12. LiveInv'
  <2>1. ASSUME NEW q \in Runs, q # r PROVE LiveOK(q)'
    <3>1. LiveOK(q) /\ thread'[q] = thread[q] /\ active' \subseteq active
      BY <1>2, <1>4, <1>9, <2>1
    <3>2. QED BY <1>10, <2>1, <3>1 DEF LiveOK, Held
  <2>2. LiveOK(r)'
    <3>1. CASE CancelRun(r)
      BY <1>2, <1>4, <1>8, <3>1 DEF LiveOK
    <3>2. CASE AbortStart(r) \/ StopNoWait(r)
      BY <1>6, <1>7, <3>2 DEF LiveOK, Waiting
    <3>3. CASE StopAndWait(r)
      BY <1>5, <3>3 DEF LiveOK, Waiting
    <3>4. QED BY <3>1, <3>2, <3>3
  <2>3. QED BY <2>1, <2>2 DEF LiveInv
<1>13. LeaseMove
  <2>1. \A q \in Runs : thread[q].pc = "using" /\ thread'[q].pc = "using" =>
                             thread'[q].conn = thread[q].conn
    BY <1>5, <1>6, <1>7, <1>8, <1>9 DEF AbortStart
  <2>2. ASSUME NEW c \in Conn PROVE Same(c) \/ (Moved(c) /\ worker[c].owner = r /\ worker[c].online)
    BY <1>1, <1>10 DEF Same, Moved, Typed, WorkerConnection
  <2>3. \A c, d \in Conn : worker[c].online /\ worker[d].online => c = d
    BY <1>2
  <2>4. QED BY <2>1, <2>2, <2>3 DEF LeaseMove
<1>14. QED BY <1>10, <1>11, <1>12, <1>13

-----------------------------------------------------------------------------
(* Taking a lease, and detaching its proxy                                   *)

LEMMA DetachKeeps ==
    ASSUME StreamInv, NEW r \in Runs, UNCHANGED <<appVars, active>>, DetachProxy(r)
    PROVE  InFlight' /\ OwnerInv' /\ LiveInv' /\ LeaseMove
<1>1. Typed /\ thread \in [Runs -> SoundThread] /\ worker \in [Conn -> Sound]
  BY TypeFacts DEF StreamInv, IInv, RegistryInv
<1>2. \A d \in Conn : OwnerOK(d, r)
  BY DEF StreamInv, OwnerInv
<1>3. /\ thread[r].pc = "detach" /\ thread'[r].pc = "stop1" /\ thread'[r].conn = thread[r].conn
      /\ \A q \in Runs \ {r} : thread'[q] = thread[q]
  BY <1>1 DEF DetachProxy, Goto, SoundThread, Thread
<1>4. \A c \in Conn : /\ Kept(c) /\ (worker'[c].stopped => worker[c].stopped)
                      /\ worker[c].owner \in Runs \ {r} =>
                            worker'[c].proxy = worker[c].proxy /\ worker'[c].url = worker[c].url
  <2>1. CASE Get = NoConn \/ NotMine(worker[Get], r)
    BY <2>1 DEF DetachProxy, Kept
  <2>2. CASE ~(Get = NoConn \/ NotMine(worker[Get], r))
    <3>1. Get \in Conn /\ worker[Get] \in WorkerConnection /\ worker[Get].owner \in {NoRun, r}
      BY <1>1, <2>2 DEF Get, Typed, NotMine
    <3>2. worker' = [worker EXCEPT ![Get].proxy = NoRun, ![Get].url = NoRun]
      BY <2>2 DEF DetachProxy
    <3>3. QED BY <1>1, <3>1, <3>2 DEF Kept, Sound, WorkerConnection, Typed
  <2>3. QED BY <2>1, <2>2
<1>5. ASSUME NEW d \in Conn PROVE OwnerOK(d, r)'
  <2>1. GrantedStream(d) => GrantedStream(d)'
    BY <1>1, <1>4 DEF Kept, GrantedStream, Typed, DetachProxy, wireVars, appVars, Done
  <2>2. /\ worker'[d].owner = worker[d].owner /\ worker'[d].state = worker[d].state
        /\ worker'[d].online = worker[d].online
        /\ worker'[d].stopped => worker[d].stopped
    BY <1>4 DEF Kept
  <2>3. OwnerOK(d, r) /\ open' = open
    BY <1>2 DEF DetachProxy
  <2>4. QED
    BY <1>3, <2>1, <2>2, <2>3 DEF OwnerOK, Held, Before, Waiting, Granted
<1>6. LiveOK(r)'
  BY <1>3 DEF LiveOK, Waiting
<1>7. UNCHANGED <<registered, open, wireVars, appVars>> /\ thread'[r].conn <= made
  BY <1>3 DEF DetachProxy, StreamInv, InFlight, Numbered
<1>8. thread[r].pc # "using"
  BY <1>3
<1>9. QED BY <1>3, <1>4, <1>5, <1>6, <1>7, <1>8, ThreadMove

LEMMA AcquireKeeps ==
    ASSUME StreamInv, NEW r \in Runs, UNCHANGED <<appVars, active>>, AcquireLease(r)
    PROVE  InFlight' /\ OwnerInv' /\ LiveInv' /\ LeaseMove
<1>a. UNCHANGED <<loop, batch, starter, startRun, running, result, cancel, browserUp, chrome,
                  registered, open, toServer, link, made, active>>
  BY DEF appVars, AcquireLease
<1>b. (Done <=> Done') /\ (Quiet <=> Quiet') /\ (pending <=> pending')
  BY <1>a DEF Done, Quiet, pending
<1>1. Typed /\ thread \in [Runs -> SoundThread] /\ worker \in [Conn -> Sound]
  BY TypeFacts DEF StreamInv, IInv, RegistryInv
<1>2. /\ \A d \in Conn, q \in Runs : OwnerOK(d, q)
      /\ \A q \in Runs : LiveOK(q)
      /\ \A d \in Conn : worker[d].state = "idle" <=> worker[d].owner = NoRun
      /\ \A d \in Conn : worker[d].online => registered = d /\ d \in open
      /\ \A d \in open : Stream(d)
  BY DEF StreamInv, InFlight, OwnerInv, LiveInv, Connected, Streams
<1>3. PICK c \in Conn : c = thread[r].conn /\ thread[r].pc = "acquire"
  BY <1>1 DEF AcquireLease, Typed, Holding
<1>4. /\ Expired(worker[c]) = worker[c] /\ NotifyExpired(thread, c) = thread
      /\ worker[c] \in WorkerConnection /\ c \in Nat
  BY <1>1, NoExpiry DEF StreamInv, InFlight, Typed
<1>5. \A d \in Conn : worker[d].owner # r
  BY <1>2, <1>3 DEF OwnerOK, Before
<1>6. worker[c].state = "idle" /\ worker[c].owner = NoRun
  <2>1. ~LeaseBusy(worker[c], r)
    BY <1>3, <1>4 DEF AcquireLease
  <2>2. QED BY <1>2, <1>4, <1>5, <2>1 DEF LeaseBusy, WorkerConnection
<1>7. PICK v \in WorkerConnection :
        /\ worker' = [worker EXCEPT ![c] = v]
        /\ v.online = worker[c].online /\ v.state = "starting" /\ v.owner = r
        /\ v.due = FALSE /\ v.proxy = r /\ v.url = r
  <2> DEFINE v == [worker[c] EXCEPT !.error = FALSE, !.ready = FALSE, !.stopped = FALSE,
                       !.due = FALSE, !.state = "starting", !.owner = r, !.proxy = r, !.url = r]
  <2>1. /\ v.online = worker[c].online /\ v.state = "starting" /\ v.owner = r
        /\ v.due = FALSE /\ v.proxy = r /\ v.url = r
        /\ v \in WorkerConnection
    BY <1>4 DEF WorkerConnection, RunOrNone
  <2>2. worker' = [worker EXCEPT ![c] = v]
    BY <1>3, <1>4 DEF AcquireLease
  <2>3. QED BY <2>1, <2>2
<1>8. /\ worker'[c] = v /\ \A d \in Conn : d # c => worker'[d] = worker[d]
      /\ thread'[r].pc = "readyloop" /\ thread'[r].conn = c
      /\ \A q \in Runs \ {r} : thread'[q] = thread[q]
  <2>1. thread' = Goto(thread, r, "readyloop")
    BY <1>3, <1>4 DEF AcquireLease
  <2>2. QED BY <1>1, <1>3, <1>7, <2>1 DEF Goto, SoundThread, Thread
<1>9. /\ \A d \in Conn : d # c \/ c # link \/ ~worker[c].online => toApp'[d] = toApp[d]
      /\ c = link /\ worker[c].online /\ Len(toApp[c]) = 0 =>
            Len(toApp'[c]) = 1 /\ toApp'[c][1] = [type |-> "start", run |-> r]
  <2>1. CASE ~worker[c].online
    BY <1>3, <1>4, <2>1 DEF AcquireLease
  <2>2. CASE worker[c].online
    <3>1. EnqueueJson(c, [type |-> "start", run |-> r])
      BY <1>3, <1>4, <2>2 DEF AcquireLease
    <3>2. [type |-> "start", run |-> r] \in ToAppMsg /\ IInv
      BY DEF ToAppMsg, RunOrNone, StreamInv
    <3>3. /\ \A d \in Conn : c # link \/ d # link => toApp'[d] = toApp[d]
          /\ c = link => /\ Len(toApp'[c]) = Len(toApp[c]) + 1
                         /\ toApp'[c][Len(toApp[c]) + 1] = [type |-> "start", run |-> r]
      BY <3>1, <3>2, EnqueueFacts
    <3>4. ASSUME c = link, Len(toApp[c]) = 0
          PROVE  Len(toApp'[c]) = 1 /\ toApp'[c][1] = [type |-> "start", run |-> r]
      BY <3>3, <3>4
    <3>5. QED BY <2>2, <3>3, <3>4
  <2>3. QED BY <2>1, <2>2
<1>10. c \in open =>
          /\ Len(toServer[c]) = 0
          /\ c = link => Len(toApp[c]) = 0 /\ Quiet
  BY <1>2, <1>6 DEF Stream, IdleStream
<1>11. Numbered'
  <2>1. \A q \in Runs : thread'[q].conn <= made
    BY <1>3, <1>8 DEF StreamInv, InFlight, Numbered
  <2>2. Numbered /\ UNCHANGED <<registered, open, toServer, link, made>>
    BY <1>a DEF StreamInv, InFlight
  <2>3. \A d \in Conn : d > made => toApp'[d] = toApp[d]
    BY <1>1, <1>3, <1>9, <2>2 DEF Numbered, Typed
  <2>4. QED BY <2>1, <2>2, <2>3 DEF Numbered
<1>12. Connected'
  BY <1>a, <1>7, <1>8 DEF StreamInv, InFlight, Connected
<1>13. AppInv'
  <2>1. AppInv
    BY DEF StreamInv, InFlight
  <2>2. CASE c # link \/ ~worker[c].online
    <3>1. link \in Conn => toApp'[link] = toApp[link]
      BY <1>9, <2>2
    <3>2. QED BY <1>a, <1>b, <2>1, <3>1 DEF AppInv
  <2>3. CASE c = link /\ worker[c].online
    <3>1. Len(toApp'[c]) = 1 /\ Quiet
      BY <1>2, <1>9, <1>10, <2>3
    <3>2. QED BY <1>a, <1>b, <2>1, <2>3, <3>1 DEF AppInv
  <2>4. QED BY <2>2, <2>3
<1>14. Streams'
  <2> SUFFICES ASSUME NEW d \in open PROVE Stream(d)'
    BY <1>a DEF Streams
  <2>1. CASE d # c
    <3>1. d \in Conn /\ Stream(d) /\ worker'[d] = worker[d] /\ toApp'[d] = toApp[d]
      BY <1>1, <1>2, <1>8, <1>9, <2>1 DEF Typed
    <3>2. QED BY <1>a, <1>b, <3>1, StreamKept
  <2>2. CASE d = c
    <3>1. worker'[c].state = "starting" /\ worker'[c].owner = r /\ Len(toServer'[c]) = 0
      BY <1>a, <1>7, <1>8, <1>10, <2>2
    <3>2. IdleStream(c)' /\ StoppingStream(c)'
      BY <3>1 DEF IdleStream, StoppingStream
    <3>3. ReadyStream(c)'
      BY <3>1 DEF ReadyStream
    <3>4. ~HasStopped(toServer'[c])
      BY <3>1 DEF HasStopped
    <3>5. c = link =>
             \/ Len(toApp'[c]) = 0
             \/ Len(toApp'[c]) = 1 /\ toApp'[c][1] = [type |-> "start", run |-> r]
      BY <1>9, <1>10, <2>2
    <3>6. HeldStream(c)'
      BY <1>a, <3>1, <3>4, <3>5 DEF HeldStream
    <3>7. QED BY <2>2, <3>2, <3>3, <3>6 DEF Stream
  <2>3. QED BY <2>1, <2>2
<1>15. ChromeInv'
  <2>1. ChromeInv /\ AppInv
    BY DEF StreamInv, InFlight
  <2>2. CASE link # c
    <3>1. link \in open => worker'[link] = worker[link]
      BY <1>1, <1>8, <2>2 DEF Typed
    <3>2. QED BY <1>a, <2>1, <3>1 DEF ChromeInv, ReadySaid
  <2>3. CASE link = c
    <3> SUFFICES ASSUME link \in open PROVE ChromeInv'
      BY <1>a DEF ChromeInv
    <3>1. cancel \/ (result = "none" /\ starter \in {"none", "finished"})
      <4>1. Quiet
        BY <1>10, <2>3
      <4>2. ~running => starter \in {"none", "finished"}
        BY <2>1 DEF AppInv
      <4>3. QED BY <4>1, <4>2 DEF Quiet, Done
    <3>2. ~ReadySaid'
      BY <1>a, <1>7, <1>8, <1>10, <2>3 DEF ReadySaid
    <3>3. QED BY <1>a, <3>1, <3>2 DEF ChromeInv, Working
  <2>4. QED BY <2>2, <2>3
<1>16. OwnerInv'
  <2>1. ASSUME NEW d \in Conn PROVE worker'[d].state = "idle" <=> worker'[d].owner = NoRun
    BY <1>1, <1>2, <1>7, <1>8 DEF Typed
  <2>2. ASSUME NEW d \in Conn, NEW q \in Runs, d # c, q # r PROVE OwnerOK(d, q)'
    <3>1. /\ worker'[d] = worker[d] /\ toApp'[d] = toApp[d] /\ thread'[q] = thread[q]
          /\ OwnerOK(d, q)
      BY <1>2, <1>8, <1>9, <2>2
    <3>2. GrantedStream(d) => GrantedStream(d)'
      BY <1>a, <1>b, <3>1 DEF GrantedStream
    <3>3. QED BY <1>a, <3>1, <3>2 DEF OwnerOK
  <2>3. ASSUME NEW d \in Conn, d # c PROVE OwnerOK(d, r)'
    BY <1>5, <1>8, <2>3 DEF OwnerOK
  <2>4. ASSUME NEW q \in Runs, q # r PROVE OwnerOK(c, q)'
    BY <1>7, <1>8, <2>4 DEF OwnerOK
  <2>5. OwnerOK(c, r)'
    BY <1>8 DEF OwnerOK, Before, Waiting, Granted
  <2>6. QED BY <2>1, <2>2, <2>3, <2>4, <2>5 DEF OwnerInv
<1>17. LiveInv'
  <2>1. ASSUME NEW q \in Runs, q # r PROVE LiveOK(q)'
    <3>1. LiveOK(q) /\ thread'[q] = thread[q]
      BY <1>2, <1>8, <2>1
    <3>2. QED BY <1>a, <1>1, <1>6, <1>7, <1>8, <3>1 DEF LiveOK, Held, Typed
  <2>2. LiveOK(r)'
    BY <1>7, <1>8 DEF LiveOK, Held
  <2>3. QED BY <2>1, <2>2 DEF LiveInv
<1>18. LeaseMove
  <2>1. Same(c) \/ Moved(c)
    BY <1>6, <1>7, <1>8 DEF Same, Moved, WorkerConnection
  <2>2. \A d \in Conn : d # c => Same(d)
    BY <1>1, <1>8 DEF Same, Typed, WorkerConnection
  <2>3. QED BY <1>8, <2>1, <2>2 DEF LeaseMove
<1>19. QED BY <1>11, <1>12, <1>13, <1>14, <1>15, <1>16, <1>17, <1>18 DEF InFlight

-----------------------------------------------------------------------------
(* The event loop                                                            *)

\* The threads that Event.set() on a flag of c lets go on.
Woken(c) ==
    \A q \in Runs :
        /\ thread'[q].conn = thread[q].conn /\ thread'[q].got = thread[q].got
        /\ \/ thread'[q].pc = thread[q].pc
           \/ thread[q].conn = c /\ thread[q].pc = "readywait" /\ thread'[q].pc = "woken"
           \/ thread[q].conn = c /\ thread[q].pc = "stopwait" /\ thread'[q].pc = "stopwoken"

LEMMA WokenFacts ==
    ASSUME Typed, NEW c \in Conn,
           thread' \in {thread, NotifyReady(thread, c), NotifyReady(NotifyStopped(thread, c), c)}
    PROVE  Woken(c)
<1>1. thread \in [Runs -> SoundThread]
  BY DEF Typed
<1>2. /\ thread' = NotifyReady(thread, c) => Woken(c)
      /\ thread' = thread => Woken(c)
  BY <1>1 DEF NotifyReady, Notified, Woken, SoundThread, Thread
<1>3. ASSUME thread' = NotifyReady(NotifyStopped(thread, c), c) PROVE Woken(c)
  <2> DEFINE t == NotifyStopped(thread, c)
  <2>1. \A q \in Runs :
          /\ t[q] \in Thread /\ t[q].conn = thread[q].conn /\ t[q].got = thread[q].got
          /\ t[q].pc = IF thread[q].pc = "stopwait" /\ thread[q].conn = c THEN "stopwoken"
                                                                          ELSE thread[q].pc
    BY <1>1 DEF NotifyStopped, Notified, SoundThread, Thread, ThreadPc
  <2>2. \A q \in Runs :
          /\ thread'[q].conn = t[q].conn /\ thread'[q].got = t[q].got
          /\ thread'[q].pc = IF t[q].pc = "readywait" /\ t[q].conn = c THEN "woken" ELSE t[q].pc
    <3> HIDE DEF t
    <3>1. thread' = NotifyReady(t, c)
      BY <1>3 DEF t
    <3>2. QED BY <2>1, <3>1 DEF NotifyReady, Notified, Thread
  <2>3. QED
    <3> HIDE DEF t
    <3>1. QED BY <2>1, <2>2 DEF Woken
<1>4. QED BY <1>2, <1>3

\* One lease changes: it is given back, or it stays with its owner and is
\* perhaps ready now.  Whom that wakes is in order.
LEMMA EventMove ==
    ASSUME StreamInv, NEW c \in Conn, Woken(c), UNCHANGED <<active, link, toApp, appVars>>,
           open' \subseteq open,
           \A d \in Conn : d # c => worker'[d] = worker[d] /\ toServer'[d] = toServer[d],
           worker'[c].online => worker[c].online,
           \/ /\ worker'[c].state = "idle" /\ worker'[c].owner = NoRun
              /\ worker'[c].online => ~Held(worker[c])
           \/ /\ worker'[c].owner = worker[c].owner
              /\ worker'[c].proxy = worker[c].proxy /\ worker'[c].url = worker[c].url
              /\ \/ worker'[c].state = worker[c].state
                 \/ worker[c].state = "starting" /\ worker'[c].state = "ready"
              /\ c \in open /\ GrantedStream(c) =>
                    GrantedStream(c)' /\ \A q \in Runs : thread'[q].pc = "stopwoken" => thread'[q] = thread[q]
              /\ c \notin open => \A q \in Runs : thread'[q].pc = "stopwoken" => thread'[q] = thread[q]
    PROVE  OwnerInv' /\ LiveInv' /\ LeaseMove
<1>1. Typed
  BY TypeFacts DEF StreamInv
<1>2. /\ \A d \in Conn, q \in Runs : OwnerOK(d, q)
      /\ \A q \in Runs : LiveOK(q)
      /\ \A d \in Conn : worker[d].state = "idle" <=> worker[d].owner = NoRun
  BY DEF StreamInv, OwnerInv, LiveInv
<1>3. ASSUME NEW d \in Conn PROVE worker'[d].state = "idle" <=> worker'[d].owner = NoRun
  BY <1>2
<1>4. ASSUME NEW d \in Conn, NEW q \in Runs, d # c PROVE OwnerOK(d, q)'
  <2>1. GrantedStream(d) => GrantedStream(d)'
    BY <1>4 DEF GrantedStream, Done, appVars
  <2>2. OwnerOK(d, q) /\ worker'[d] = worker[d]
    BY <1>2, <1>4
  <2>3. QED BY <1>4, <2>1, <2>2 DEF OwnerOK, Woken, Before, Waiting, Granted, Held
<1>5. ASSUME NEW q \in Runs PROVE OwnerOK(c, q)'
  <2>1. CASE worker'[c].owner = NoRun
    BY <1>1, <2>1 DEF OwnerOK, Typed
  <2>2. CASE worker'[c].owner # NoRun
    <3> SUFFICES ASSUME worker'[c].owner = q PROVE OwnerOK(c, q)'
      BY DEF OwnerOK
    <3>1. /\ OwnerOK(c, q) /\ worker[c].owner = q
          /\ Held(worker'[c]) => Held(worker[c])
      BY <1>2, <2>2 DEF Held
    <3>2. /\ thread'[q].pc \notin Before
          /\ thread'[q].pc \in Waiting \cup {"using"} => thread'[q].conn = c
          /\ thread'[q].pc = "stopwait" /\ thread'[q].conn = c => worker'[c].state = "stopping"
          /\ worker'[c].online /\ Held(worker'[c]) =>
               thread'[q].pc \in Waiting \cup {"using", "detach", "stop1"}
      BY <2>2, <3>1 DEF OwnerOK, Woken, Before, Waiting
    <3>3. thread'[q].pc \in Granted => thread[q].pc \in Granted
      BY DEF Woken, Granted
    <3>4. c \in open' /\ thread'[q].pc \in Granted => GrantedStream(c)'
      BY <2>2, <3>1, <3>3 DEF OwnerOK
    <3>5. thread'[q].pc = "stopwoken" => thread'[q].conn # c
      BY <2>2, <3>1, <3>3 DEF OwnerOK, Granted
    <3>6. QED BY <3>2, <3>4, <3>5 DEF OwnerOK
  <2>3. QED BY <2>1, <2>2
<1>6. ASSUME NEW q \in Runs PROVE LiveOK(q)'
  <2>1. LiveOK(q)
    BY <1>2
  <2>2. QED BY <1>1, <2>1 DEF LiveOK, Woken, Waiting, Held, Typed
<1>7. LeaseMove
  <2>1. \A d \in Conn : d # c => Same(d)
    BY <1>1 DEF Same, Typed, WorkerConnection
  <2>2. Same(c) \/ Moved(c)
    <3>1. worker[c] \in WorkerConnection
      BY <1>1 DEF Typed
    <3>2. QED BY <1>2, <3>1 DEF Same, Moved, Held, WorkerConnection
  <2>3. \A r \in Runs : thread'[r].conn = thread[r].conn
    BY DEF Woken
  <2>4. QED BY <2>1, <2>2, <2>3 DEF LeaseMove
<1>8. QED BY <1>3, <1>4, <1>5, <1>6, <1>7 DEF OwnerInv, LiveInv

\* handle_control_message takes the first message that the app sent.
LEMMA ReceiveFacts ==
    ASSUME IInv, NEW c \in Conn, NEW m, Receive(c, m)
    PROVE  /\ c \in open /\ Len(toServer[c]) >= 1 /\ toServer[c][1] = m
           /\ Len(toServer'[c]) = Len(toServer[c]) - 1
           /\ \A i \in 1 .. Len(toServer'[c]) : toServer'[c][i] = toServer[c][i + 1]
           /\ \A d \in Conn : d # c => toServer'[d] = toServer[d]
           /\ UNCHANGED <<registered, open, toApp, link, made>>
<1>1. toServer \in [Conn -> Seq(ToServerMsg)]
  BY DEF IInv, WireTypeOK
<1>2. toServer[c] \in Seq(ToServerMsg) /\ toServer[c] # <<>> /\ Head(toServer[c]) = m
  BY <1>1 DEF Receive
<1>3. /\ Len(Tail(toServer[c])) = Len(toServer[c]) - 1
      /\ \A i \in 1 .. Len(Tail(toServer[c])) : Tail(toServer[c])[i] = toServer[c][i + 1]
      /\ Len(toServer[c]) \in Nat /\ Len(toServer[c]) # 0
      /\ Head(toServer[c]) = toServer[c][1]
  BY <1>2, HeadTailProperties, LenProperties, EmptySeq
<1>4. toServer'[c] = Tail(toServer[c]) /\ \A d \in Conn : d # c => toServer'[d] = toServer[d]
  BY <1>1 DEF Receive
<1>5. c \in open /\ UNCHANGED <<registered, open, toApp, link, made>>
  BY DEF Receive
<1>6. Len(toServer[c]) >= 1
  BY <1>3
<1>7. /\ toServer[c][1] = m
      /\ Len(toServer'[c]) = Len(toServer[c]) - 1
      /\ \A i \in 1 .. Len(toServer'[c]) : toServer'[c][i] = toServer[c][i + 1]
  BY <1>2, <1>3, <1>4, Zenon
<1>8. QED BY <1>4, <1>5, <1>6, <1>7

\* What is in flight from c loses its first message; the leases are as before.
LEMMA StreamShrinks ==
    ASSUME NEW c \in Conn, Stream(c), Len(toServer[c]) \in Nat, Len(toServer[c]) >= 1,
           toServer[c][1] # "stopped",
           Len(toServer'[c]) = Len(toServer[c]) - 1,
           \A i \in 1 .. Len(toServer'[c]) : toServer'[c][i] = toServer[c][i + 1],
           worker'[c].state = worker[c].state, worker'[c].owner = worker[c].owner,
           UNCHANGED <<toApp, link, running, result, cancel>>
    PROVE  Stream(c)'
<1>1. worker[c].state \notin {"idle", "ready"}
  BY DEF Stream, IdleStream, ReadyStream
<1>2. \A i \in 1 .. Len(toServer'[c]) :
          i + 1 \in 1 .. Len(toServer[c]) /\ toServer'[c][i] = toServer[c][i + 1]
  OBVIOUS
<1>3. HasStopped(toServer'[c]) <=> HasStopped(toServer[c])
  <2>1. HasStopped(toServer'[c]) => HasStopped(toServer[c])
    BY <1>2 DEF HasStopped
  <2>2. ASSUME NEW i \in 1 .. Len(toServer[c]), toServer[c][i] = "stopped"
        PROVE  HasStopped(toServer'[c])
    <3>1. i # 1
      BY <2>2
    <3>2. PICK k \in 1 .. Len(toServer'[c]) : k + 1 = i
      <4>1. i - 1 \in 1 .. Len(toServer'[c]) /\ (i - 1) + 1 = i
        BY <3>1
      <4>2. QED BY <4>1
    <3>3. QED BY <1>2, <2>2, <3>2 DEF HasStopped
  <2>3. QED BY <2>1, <2>2 DEF HasStopped
<1>4. IdleStream(c)'
  BY <1>1 DEF IdleStream
<1>5. HeldStream(c)'
  BY <1>3 DEF Stream, HeldStream, Held
<1>6. StoppingStream(c)'
  <2>1. ASSUME worker[c].state = "stopping", NEW i \in 1 .. Len(toServer'[c]), toServer'[c][i] = "stopped"
        PROVE  i = Len(toServer'[c])
    <3>1. i + 1 \in 1 .. Len(toServer[c]) /\ toServer[c][i + 1] = "stopped"
      BY <1>2, <2>1
    <3>2. StoppingStream(c)
      BY DEF Stream
    <3>3. i + 1 = Len(toServer[c])
      BY <2>1, <3>1, <3>2 DEF StoppingStream
    <3>4. QED BY <3>3
  <2>2. QED BY <1>3, <2>1 DEF Stream, StoppingStream, Quiet, Done
<1>7. ReadyStream(c)'
  <2>1. ASSUME NEW i \in 1 .. Len(toServer'[c]), toServer'[c][i] = "ready"
        PROVE  /\ \A j \in i + 1 .. Len(toServer'[c]) : toServer'[c][j] = "stopped"
               /\ c = link => Done
    <3>a. i + 1 \in 1 .. Len(toServer[c]) /\ toServer[c][i + 1] = "ready"
      BY <1>2, <2>1
    <3>b. /\ \A j \in (i + 1) + 1 .. Len(toServer[c]) : toServer[c][j] = "stopped"
          /\ c = link => Done
      BY <3>a DEF Stream, ReadyStream
    <3>1. /\ \A j \in i + 2 .. Len(toServer[c]) : toServer[c][j] = "stopped"
          /\ c = link => Done
      BY <3>b
    <3>2. ASSUME NEW j \in i + 1 .. Len(toServer'[c]) PROVE toServer'[c][j] = "stopped"
      <4>1. j \in 1 .. Len(toServer'[c]) /\ j + 1 \in i + 2 .. Len(toServer[c])
        BY <2>1, <3>2
      <4>2. toServer'[c][j] = toServer[c][j + 1]
        BY <1>2, <4>1
      <4>3. QED BY <3>1, <4>1, <4>2
    <3>3. QED BY <3>1, <3>2
  <2>2. QED BY <1>1, <2>1 DEF ReadyStream, Done
<1>8. QED BY <1>4, <1>5, <1>6, <1>7 DEF Stream

\* What the app says and what the event loop does leave the app's own state, the
\* socket and the frames towards the app alone.
LEMMA AppUndisturbed ==
    ASSUME StreamInv, UNCHANGED <<appVars, toApp, link, made>>,
           registered' \in {registered, NoConn},
           \A q \in Runs : thread'[q].conn = thread[q].conn,
           \A d \in Conn : Len(toServer'[d]) = Len(toServer[d]) \/ Len(toServer'[d]) = 0 \/ d <= made
    PROVE  /\ Numbered' /\ AppInv'
           /\ UNCHANGED <<loop, batch, starter, startRun, running, result, cancel, browserUp, chrome>>
<1>1. UNCHANGED <<loop, batch, starter, startRun, running, result, cancel, browserUp, chrome>>
  BY DEF appVars
<1>2. AppInv'
  BY <1>1 DEF StreamInv, InFlight, AppInv, pending, Quiet, Done
<1>3. Numbered'
  <2>1. Numbered /\ Typed
    BY TypeFacts DEF StreamInv, InFlight
  <2>2. registered' <= made
    BY <2>1 DEF Numbered, NoConn, Typed
  <2>3. ASSUME NEW d \in Conn, d > made PROVE Len(toServer'[d]) = 0
    BY <2>1, <2>3 DEF Numbered, Typed
  <2>4. QED BY <2>1, <2>2, <2>3 DEF Numbered
<1>4. QED BY <1>1, <1>2, <1>3

\* browser.starting, browser.error, and a browser.ready that comes too late: the
\* lease stays as it is.
LEMMA MessageKeeps ==
    ASSUME StreamInv, NEW c \in Conn, UNCHANGED <<appVars, active>>,
           \/ OnStarting(c)
           \/ OnError(c)
           \/ OnReady(c) /\ worker[c].state = "stopping"
    PROVE  InFlight' /\ OwnerInv' /\ LiveInv' /\ LeaseMove
<1>1. /\ Typed /\ IInv /\ worker \in [Conn -> Sound]
      /\ worker[c] \in WorkerConnection /\ Len(toServer[c]) \in Nat /\ c \in Nat /\ made \in Nat
  BY TypeFacts DEF StreamInv, IInv, RegistryInv, Typed
<1>2. PICK m \in {"starting", "error", "ready"} : Receive(c, m)
  BY DEF OnStarting, OnError, OnReady
<1>3. /\ c \in open /\ Len(toServer[c]) >= 1 /\ toServer[c][1] = m
      /\ Len(toServer'[c]) = Len(toServer[c]) - 1
      /\ \A i \in 1 .. Len(toServer'[c]) : toServer'[c][i] = toServer[c][i + 1]
      /\ \A d \in Conn : d # c => toServer'[d] = toServer[d]
      /\ UNCHANGED <<registered, open, toApp, link, made>>
  BY <1>1, <1>2, ReceiveFacts
<1>4. Stream(c) /\ worker[c].state \notin {"idle", "ready"}
  <2>1. Stream(c)
    BY <1>3 DEF StreamInv, InFlight, Streams
  <2>2. QED BY <1>1, <1>3, <2>1 DEF Stream, IdleStream, ReadyStream
<1>5. PICK v \in WorkerConnection :
        /\ worker' = [worker EXCEPT ![c] = v]
        /\ v.state = worker[c].state /\ v.owner = worker[c].owner /\ v.online = worker[c].online
        /\ v.proxy = worker[c].proxy /\ v.url = worker[c].url /\ v.due = worker[c].due
  <2>1. CASE OnStarting(c)
    <3>1. worker' = worker
      BY <1>1, <1>4, <2>1 DEF OnStarting, WorkerConnection
    <3>2. QED BY <1>1, <3>1
  <2>2. CASE OnError(c)
    <3> DEFINE v == [worker[c] EXCEPT !.error = TRUE, !.ready = TRUE, !.stopped = TRUE]
    <3>1. /\ v.state = worker[c].state /\ v.owner = worker[c].owner /\ v.online = worker[c].online
          /\ v.proxy = worker[c].proxy /\ v.url = worker[c].url /\ v.due = worker[c].due
          /\ v \in WorkerConnection
      BY <1>1 DEF WorkerConnection
    <3>2. worker' = [worker EXCEPT ![c] = v]
      BY <1>1, <2>2 DEF OnError, Sound, WorkerConnection
    <3>3. QED BY <3>1, <3>2
  <2>3. CASE OnReady(c) /\ worker[c].state = "stopping"
    <3>1. worker' = worker
      BY <2>3 DEF OnReady
    <3>2. QED BY <1>1, <3>1
  <2>4. QED BY <2>1, <2>2, <2>3
<1>6. worker'[c] = v /\ \A d \in Conn : d # c => worker'[d] = worker[d]
  BY <1>1, <1>5
<1>7. Woken(c)
  <2>1. thread' \in {thread, NotifyReady(thread, c), NotifyReady(NotifyStopped(thread, c), c)}
    BY DEF OnStarting, OnError, OnReady
  <2>2. QED BY <1>1, <2>1, WokenFacts
<1>8. ~GrantedStream(c)
  BY <1>2, <1>3 DEF GrantedStream, OnlyStopped
<1>9. OwnerInv' /\ LiveInv' /\ LeaseMove
  BY <1>3, <1>5, <1>6, <1>7, <1>8, EventMove
<1>10. c <= made
  BY <1>1, <1>3 DEF StreamInv, InFlight, Numbered
<1>11. /\ Numbered' /\ AppInv'
       /\ UNCHANGED <<loop, batch, starter, startRun, running, result, cancel, browserUp, chrome>>
  BY <1>3, <1>7, <1>10, AppUndisturbed DEF Woken
<1>12. Connected'
  BY <1>3, <1>5, <1>6 DEF StreamInv, InFlight, Connected
<1>13. Streams'
  <2> SUFFICES ASSUME NEW d \in open PROVE Stream(d)'
    BY <1>3 DEF Streams
  <2>1. CASE d # c
    <3>1. d \in Conn /\ Stream(d) /\ worker'[d] = worker[d] /\ toServer'[d] = toServer[d]
      BY <1>1, <1>3, <1>6, <2>1 DEF StreamInv, InFlight, Streams, Typed
    <3>2. QED BY <1>3, <1>11, <3>1, StreamKept DEF Done, Quiet
  <2>2. CASE d = c
    <3>1. Stream(c)'
      BY <1>1, <1>2, <1>3, <1>4, <1>5, <1>6, <1>11, StreamShrinks
    <3>2. QED BY <2>2, <3>1
  <2>3. QED BY <2>1, <2>2
<1>14. ChromeInv'
  <2>1. ChromeInv
    BY DEF StreamInv, InFlight
  <2>2. \A d \in Conn : /\ worker'[d].state = worker[d].state /\ worker'[d].owner = worker[d].owner
                        /\ worker'[d].online = worker[d].online
    BY <1>5, <1>6
  <2>3. link \in open /\ ReadySaid' => ReadySaid
    <3> SUFFICES ASSUME link \in open, ReadySaid' PROVE ReadySaid
      OBVIOUS
    <3>1. link \in Conn
      BY <1>1 DEF Typed
    <3>2. CASE worker'[link].state = "ready"
      BY <1>3, <2>2, <3>1, <3>2 DEF ReadySaid
    <3>3. CASE link # c /\ worker'[link].state # "ready"
      BY <1>3, <3>1, <3>3 DEF ReadySaid
    <3>4. CASE link = c /\ worker'[link].state # "ready"
      <4>1. PICK i \in 1 .. Len(toServer'[c]) : toServer'[c][i] = "ready"
        BY <1>3, <3>4 DEF ReadySaid
      <4>2. i + 1 \in 1 .. Len(toServer[c]) /\ toServer[c][i + 1] = "ready"
        BY <1>1, <1>3, <4>1
      <4>3. QED BY <3>4, <4>2 DEF ReadySaid
    <3>5. QED BY <3>2, <3>3, <3>4
  <2>4. QED BY <1>1, <1>3, <1>11, <2>1, <2>2, <2>3 DEF ChromeInv, Held, Typed
<1>15. QED BY <1>9, <1>11, <1>12, <1>13, <1>14 DEF InFlight

\* browser.ready for a lease that is starting: it is the last word of the start.
LEMMA ReadyKeeps ==
    ASSUME StreamInv, NEW c \in Conn, UNCHANGED <<appVars, active>>,
           OnReady(c), worker[c].state # "stopping"
    PROVE  InFlight' /\ OwnerInv' /\ LiveInv' /\ LeaseMove
<1>1. /\ Typed /\ IInv /\ worker \in [Conn -> Sound]
      /\ worker[c] \in WorkerConnection /\ Len(toServer[c]) \in Nat /\ c \in Nat /\ made \in Nat
  BY TypeFacts DEF StreamInv, IInv, RegistryInv, Typed
<1>2. Receive(c, "ready")
  BY DEF OnReady
<1>3. /\ c \in open /\ Len(toServer[c]) >= 1 /\ toServer[c][1] = "ready"
      /\ Len(toServer'[c]) = Len(toServer[c]) - 1
      /\ \A d \in Conn : d # c => toServer'[d] = toServer[d]
      /\ UNCHANGED <<registered, open, toApp, link, made>>
  BY <1>1, <1>2, ReceiveFacts
<1>4. /\ Stream(c) /\ worker[c].state = "starting"
      /\ Len(toServer[c]) = 1 /\ Len(toServer'[c]) = 0
      /\ c = link => Done /\ Len(toApp[c]) = 0
  <2>1. Stream(c)
    BY <1>3 DEF StreamInv, InFlight, Streams
  <2>2. worker[c].state = "starting"
    BY <1>1, <1>3, <2>1 DEF Stream, IdleStream, ReadyStream, WorkerConnection
  <2>3. /\ 1 \in 1 .. Len(toServer[c])
        /\ \A j \in 2 .. Len(toServer[c]) : toServer[c][j] = "stopped"
        /\ c = link => Done
    <3>1. 1 \in 1 .. Len(toServer[c])
      BY <1>1, <1>3
    <3>2. /\ \A j \in 1 + 1 .. Len(toServer[c]) : toServer[c][j] = "stopped"
          /\ c = link => Done
      BY <1>3, <2>1, <3>1 DEF Stream, ReadyStream
    <3>3. QED BY <3>1, <3>2
  <2>4. ~HasStopped(toServer[c]) /\ (c = link => Len(toApp[c]) = 0)
    BY <1>3, <2>1, <2>2 DEF Stream, HeldStream, Held
  <2>5. Len(toServer[c]) = 1
    <3>1. Len(toServer[c]) >= 2 => 2 \in 1 .. Len(toServer[c]) /\ 2 \in 2 .. Len(toServer[c])
      BY <1>1
    <3>2. ~(Len(toServer[c]) >= 2)
      BY <2>3, <2>4, <3>1 DEF HasStopped
    <3>3. \A n \in Nat : n >= 1 /\ ~(n >= 2) => n = 1
      OBVIOUS
    <3>4. QED BY <1>1, <1>3, <3>2, <3>3, Zenon
  <2>6. QED BY <1>3, <2>1, <2>2, <2>3, <2>4, <2>5
<1>5. PICK v \in WorkerConnection :
        /\ worker' = [worker EXCEPT ![c] = v]
        /\ v.state = "ready" /\ v.owner = worker[c].owner /\ v.online = worker[c].online
        /\ v.proxy = worker[c].proxy /\ v.url = worker[c].url /\ v.due = worker[c].due
  <2> DEFINE v == [worker[c] EXCEPT !.state = "ready", !.error = FALSE, !.ready = TRUE]
  <2>1. /\ v.state = "ready" /\ v.owner = worker[c].owner /\ v.online = worker[c].online
        /\ v.proxy = worker[c].proxy /\ v.url = worker[c].url /\ v.due = worker[c].due
        /\ v \in WorkerConnection
    BY <1>1 DEF WorkerConnection
  <2>2. worker' = [worker EXCEPT ![c] = v]
    BY <1>1 DEF OnReady, Sound, WorkerConnection
  <2>3. QED BY <2>1, <2>2
<1>6. worker'[c] = v /\ \A d \in Conn : d # c => worker'[d] = worker[d]
  BY <1>1, <1>5
<1>7. Woken(c)
  BY <1>1, WokenFacts DEF OnReady
<1>8. ~GrantedStream(c)
  BY <1>4 DEF GrantedStream
<1>9. OwnerInv' /\ LiveInv' /\ LeaseMove
  BY <1>3, <1>4, <1>5, <1>6, <1>7, <1>8, EventMove
<1>10. c <= made
  BY <1>1, <1>3 DEF StreamInv, InFlight, Numbered
<1>11. /\ Numbered' /\ AppInv'
       /\ UNCHANGED <<loop, batch, starter, startRun, running, result, cancel, browserUp, chrome>>
  BY <1>3, <1>7, <1>10, AppUndisturbed DEF Woken
<1>12. Connected'
  BY <1>3, <1>5, <1>6 DEF StreamInv, InFlight, Connected
<1>13. Streams'
  <2> SUFFICES ASSUME NEW d \in open PROVE Stream(d)'
    BY <1>3 DEF Streams
  <2>1. CASE d # c
    <3>1. d \in Conn /\ Stream(d) /\ worker'[d] = worker[d] /\ toServer'[d] = toServer[d]
      BY <1>1, <1>3, <1>6, <2>1 DEF StreamInv, InFlight, Streams, Typed
    <3>2. QED BY <1>3, <1>11, <3>1, StreamKept DEF Done, Quiet
  <2>2. CASE d = c
    <3>1. worker'[c].state = "ready" /\ Len(toServer'[c]) = 0
      BY <1>4, <1>5, <1>6
    <3>2. IdleStream(c)' /\ StoppingStream(c)'
      BY <3>1 DEF IdleStream, StoppingStream
    <3>3. HeldStream(c)'
      BY <1>3, <1>4, <3>1 DEF HeldStream, HasStopped
    <3>4. ReadyStream(c)'
      BY <1>3, <1>4, <1>11, <3>1 DEF ReadyStream, Done
    <3>5. QED BY <2>2, <3>2, <3>3, <3>4 DEF Stream
  <2>3. QED BY <2>1, <2>2
<1>14. ChromeInv'
  <2>1. ChromeInv
    BY DEF StreamInv, InFlight
  <2>2. CASE link # c
    <3>1. link \in open => worker'[link] = worker[link] /\ toServer'[link] = toServer[link]
      BY <1>1, <1>3, <1>6, <2>2 DEF Typed
    <3>2. QED BY <1>3, <1>11, <2>1, <3>1 DEF ChromeInv, ReadySaid
  <2>3. CASE link = c
    <3>1. worker'[link].owner = worker[link].owner
      BY <1>3, <1>5, <1>6, <2>3
    <3>2. Held(worker[link]) /\ ReadySaid
      <4>1. 1 \in 1 .. Len(toServer[link]) /\ toServer[link][1] = "ready"
        BY <1>3, <1>4, <2>3
      <4>2. ReadySaid
        BY <4>1 DEF ReadySaid
      <4>3. QED BY <1>4, <2>3, <4>2 DEF Held
    <3>3. QED BY <1>3, <1>11, <2>1, <3>1, <3>2 DEF ChromeInv
  <2>4. QED BY <2>2, <2>3
<1>15. QED BY <1>9, <1>11, <1>12, <1>13, <1>14 DEF InFlight

\* browser.stopped: only a lease that is closing gets it, and gives it back.
LEMMA StoppedKeeps ==
    ASSUME StreamInv, NEW c \in Conn, UNCHANGED <<appVars, active>>, OnStopped(c)
    PROVE  /\ InFlight' /\ OwnerInv' /\ LiveInv' /\ LeaseMove
           /\ worker[c].state = "stopping" /\ c \in open /\ UNCHANGED link
           /\ worker' = [worker EXCEPT ![c] = [Released(@) EXCEPT !.ready = TRUE]]
<1>1. /\ Typed /\ IInv /\ worker \in [Conn -> Sound]
      /\ worker[c] \in WorkerConnection /\ Len(toServer[c]) \in Nat /\ c \in Nat /\ made \in Nat
  BY TypeFacts DEF StreamInv, IInv, RegistryInv, Typed
<1>2. Receive(c, "stopped")
  BY DEF OnStopped
<1>3. /\ c \in open /\ Len(toServer[c]) >= 1 /\ toServer[c][1] = "stopped"
      /\ Len(toServer'[c]) = Len(toServer[c]) - 1
      /\ \A d \in Conn : d # c => toServer'[d] = toServer[d]
      /\ UNCHANGED <<registered, open, toApp, link, made>>
  BY <1>1, <1>2, ReceiveFacts
<1>4. /\ worker[c].state = "stopping"
      /\ Len(toServer'[c]) = 0
      /\ c = link => Len(toApp[c]) = 0 /\ Quiet
  <2>1. Stream(c)
    BY <1>3 DEF StreamInv, InFlight, Streams
  <2>2. 1 \in 1 .. Len(toServer[c]) /\ HasStopped(toServer[c])
    <3>1. 1 \in 1 .. Len(toServer[c])
      BY <1>1, <1>3
    <3>2. QED BY <1>3, <3>1 DEF HasStopped
  <2>3. worker[c].state = "stopping"
    BY <1>1, <1>3, <2>1, <2>2 DEF Stream, IdleStream, ReadyStream, HeldStream, Held, WorkerConnection
  <2>4. Len(toServer[c]) = 1 /\ (c = link => Len(toApp[c]) = 0 /\ Quiet)
    <3>1. StoppingStream(c)
      BY <2>1 DEF Stream
    <3>2. Len(toServer[c]) = 1
      BY <1>3, <2>2, <2>3, <3>1 DEF StoppingStream
    <3>3. QED BY <2>2, <2>3, <3>1, <3>2 DEF StoppingStream
  <2>5. QED BY <1>3, <2>3, <2>4
<1>5. PICK v \in WorkerConnection :
        /\ worker' = [worker EXCEPT ![c] = v]
        /\ v.state = "idle" /\ v.owner = NoRun /\ v.online = worker[c].online /\ v.due = FALSE
  <2> DEFINE v == [Released(worker[c]) EXCEPT !.ready = TRUE]
  <2>1. /\ v.state = "idle" /\ v.owner = NoRun /\ v.online = worker[c].online /\ v.due = FALSE
        /\ v \in WorkerConnection
    BY <1>1 DEF Released, WorkerConnection, RunOrNone
  <2>2. worker' = [worker EXCEPT ![c] = v]
    BY <1>4 DEF OnStopped
  <2>3. QED BY <2>1, <2>2
<1>6. worker'[c] = v /\ \A d \in Conn : d # c => worker'[d] = worker[d]
  BY <1>1, <1>5
<1>7. Woken(c)
  <2>1. thread' = NotifyReady(NotifyStopped(thread, c), c)
    BY <1>4 DEF OnStopped
  <2>2. QED BY <1>1, <2>1, WokenFacts
<1>9. OwnerInv' /\ LiveInv' /\ LeaseMove
  BY <1>3, <1>4, <1>5, <1>6, <1>7, EventMove DEF Held
<1>10. c <= made
  BY <1>1, <1>3 DEF StreamInv, InFlight, Numbered
<1>11. /\ Numbered' /\ AppInv'
       /\ UNCHANGED <<loop, batch, starter, startRun, running, result, cancel, browserUp, chrome>>
  BY <1>3, <1>7, <1>10, AppUndisturbed DEF Woken
<1>12. Connected'
  BY <1>3, <1>5, <1>6 DEF StreamInv, InFlight, Connected
<1>13. Streams'
  <2> SUFFICES ASSUME NEW d \in open PROVE Stream(d)'
    BY <1>3 DEF Streams
  <2>1. CASE d # c
    <3>1. d \in Conn /\ Stream(d) /\ worker'[d] = worker[d] /\ toServer'[d] = toServer[d]
      BY <1>1, <1>3, <1>6, <2>1 DEF StreamInv, InFlight, Streams, Typed
    <3>2. QED BY <1>3, <1>11, <3>1, StreamKept DEF Done, Quiet
  <2>2. CASE d = c
    <3>1. worker'[c].state = "idle" /\ Len(toServer'[c]) = 0
      BY <1>4, <1>5, <1>6
    <3>2. HeldStream(c)' /\ StoppingStream(c)' /\ ReadyStream(c)'
      BY <3>1 DEF HeldStream, StoppingStream, ReadyStream, Held
    <3>3. IdleStream(c)'
      BY <1>3, <1>4, <1>11, <3>1 DEF IdleStream, Quiet, Done
    <3>4. QED BY <2>2, <3>2, <3>3 DEF Stream
  <2>3. QED BY <2>1, <2>2
<1>14. ChromeInv'
  <2>1. ChromeInv /\ AppInv
    BY DEF StreamInv, InFlight
  <2>2. CASE link # c
    <3>1. link \in open => worker'[link] = worker[link] /\ toServer'[link] = toServer[link]
      BY <1>1, <1>3, <1>6, <2>2 DEF Typed
    <3>2. QED BY <1>3, <1>11, <2>1, <3>1 DEF ChromeInv, ReadySaid
  <2>3. CASE link = c
    <3>1. cancel \/ (result = "none" /\ starter \in {"none", "finished"})
      <4>1. Quiet
        BY <1>4, <2>3
      <4>2. ~running => starter \in {"none", "finished"}
        BY <2>1 DEF AppInv
      <4>3. QED BY <4>1, <4>2 DEF Quiet, Done
    <3>2. ~Held(worker'[link])
      BY <1>3, <1>5, <1>6, <2>3 DEF Held
    <3>3. QED BY <1>3, <1>11, <3>1, <3>2 DEF ChromeInv, Working
  <2>4. QED BY <2>2, <2>3
<1>15. worker' = [worker EXCEPT ![c] = [Released(@) EXCEPT !.ready = TRUE]]
  BY <1>4 DEF OnStopped
<1>16. InFlight'
  BY <1>11, <1>12, <1>13, <1>14 DEF InFlight
<1>17. QED BY <1>3, <1>4, <1>9, <1>15, <1>16

\* The socket's task ends, or the user logs the worker out.
LEMMA GoneKeeps ==
    ASSUME StreamInv, UNCHANGED <<appVars, active>>,
           Logout \/ \E c \in Conn : Unregister(c)
    PROVE  InFlight' /\ OwnerInv' /\ LiveInv' /\ LeaseMove
<1>1. Typed /\ IInv /\ worker \in [Conn -> Sound]
  BY TypeFacts DEF StreamInv, IInv, RegistryInv, Typed
<1>2. /\ \A d \in open : Stream(d)
      /\ ChromeInv /\ Connected
      /\ \A d \in Conn : d > made => Len(toServer[d]) = 0
  BY DEF StreamInv, InFlight, Streams, Numbered
<1>3. CASE Logout
  <2>1. PICK c \in Conn : c = Get /\ c \in open
    BY <1>1, <1>3, GetIsOnline DEF Logout
  <2>2. PICK v \in WorkerConnection :
          /\ worker' = [worker EXCEPT ![c] = v]
          /\ v = [worker[c] EXCEPT !.online = FALSE]
          /\ v.online = FALSE /\ v.state = worker[c].state /\ v.owner = worker[c].owner
          /\ v.due = worker[c].due /\ v.proxy = worker[c].proxy /\ v.url = worker[c].url
          /\ v.stopped = worker[c].stopped
    <3> DEFINE v == [worker[c] EXCEPT !.online = FALSE]
    <3>0. worker[c] \in WorkerConnection
      BY <1>1 DEF Typed
    <3>1. /\ v.online = FALSE /\ v.state = worker[c].state /\ v.owner = worker[c].owner
          /\ v.due = worker[c].due /\ v.proxy = worker[c].proxy /\ v.url = worker[c].url
          /\ v.stopped = worker[c].stopped
          /\ v \in WorkerConnection
      BY <3>0 DEF WorkerConnection
    <3>2. worker' = [worker EXCEPT ![c] = v]
      BY <1>3, <2>1 DEF Logout
    <3>3. QED BY <3>1, <3>2
  <2>3. worker'[c] = v /\ \A d \in Conn : d # c => worker'[d] = worker[d]
    BY <1>1, <2>2
  <2>4. UNCHANGED <<registered, open, thread, toApp, toServer, link, made, active>>
    BY <1>3 DEF Logout, wireVars
  <2>5. Woken(c)
    BY <2>4 DEF Woken
  <2>6. GrantedStream(c) => GrantedStream(c)'
    BY <2>2, <2>3, <2>4 DEF GrantedStream, Done, appVars
  <2>7. OwnerInv' /\ LiveInv' /\ LeaseMove
    BY <2>2, <2>3, <2>4, <2>5, <2>6, EventMove
  <2>8. /\ Numbered' /\ AppInv'
        /\ UNCHANGED <<loop, batch, starter, startRun, running, result, cancel, browserUp, chrome>>
    BY <2>4, AppUndisturbed
  <2>9. Connected'
    BY <1>2, <2>2, <2>3, <2>4 DEF Connected
  <2>10. Streams'
    <3> SUFFICES ASSUME NEW d \in open PROVE Stream(d)'
      BY <2>4 DEF Streams
    <3>1. /\ d \in Conn /\ Stream(d)
          /\ worker'[d].state = worker[d].state /\ worker'[d].owner = worker[d].owner
      BY <1>1, <1>2, <2>2, <2>3 DEF Typed
    <3>2. QED BY <2>4, <2>8, <3>1, StreamKept DEF Done, Quiet
  <2>11. ChromeInv'
    <3>1. link \in open => /\ worker'[link].state = worker[link].state
                           /\ worker'[link].owner = worker[link].owner
      BY <1>1, <2>2, <2>3 DEF Typed
    <3>2. QED BY <1>2, <2>4, <2>8, <3>1 DEF ChromeInv, ReadySaid, Held
  <2>12. QED BY <2>7, <2>8, <2>9, <2>10, <2>11 DEF InFlight
<1>4. ASSUME NEW c \in Conn, Unregister(c) PROVE InFlight' /\ OwnerInv' /\ LiveInv' /\ LeaseMove
  <2>1. /\ c \in open /\ (link # c \/ ~worker[c].online) /\ open' = open \ {c}
        /\ registered' \in {registered, NoConn} /\ UNCHANGED <<toApp, link, made>>
        /\ registered' = IF registered = c THEN NoConn ELSE registered
        /\ thread' = NotifyReady(NotifyStopped(thread, c), c)
    BY <1>4 DEF Unregister
  <2>2. PICK v \in WorkerConnection :
          /\ worker' = [worker EXCEPT ![c] = v]
          /\ v.online = FALSE /\ v.state = "idle" /\ v.owner = NoRun /\ v.due = FALSE
    <3> DEFINE v == [Released(worker[c]) EXCEPT !.online = FALSE, !.ready = TRUE]
    <3>0. worker[c] \in WorkerConnection
      BY <1>1 DEF Typed
    <3>1. /\ v.online = FALSE /\ v.state = "idle" /\ v.owner = NoRun /\ v.due = FALSE
          /\ v \in WorkerConnection
      BY <3>0 DEF WorkerConnection, Released, RunOrNone
    <3>2. worker' = [worker EXCEPT ![c] = v]
      BY <1>4 DEF Unregister
    <3>3. QED BY <3>1, <3>2
  <2>3. /\ worker'[c] = v /\ \A d \in Conn : d # c => worker'[d] = worker[d]
        /\ Len(toServer'[c]) = 0 /\ \A d \in Conn : d # c => toServer'[d] = toServer[d]
    <3>1. toServer \in [Conn -> Seq(ToServerMsg)]
      BY <1>1 DEF IInv, WireTypeOK
    <3>2. toServer' = [toServer EXCEPT ![c] = <<>>]
      BY <1>4 DEF Unregister
    <3>3. QED BY <1>1, <2>2, <3>1, <3>2
  <2>4. Woken(c)
    BY <1>1, <2>1, WokenFacts
  <2>5. OwnerInv' /\ LiveInv' /\ LeaseMove
    BY <2>1, <2>2, <2>3, <2>4, EventMove
  <2>6. /\ Numbered' /\ AppInv'
        /\ UNCHANGED <<loop, batch, starter, startRun, running, result, cancel, browserUp, chrome>>
    BY <2>1, <2>3, <2>4, AppUndisturbed DEF Woken
  <2>7. Connected'
    BY <1>2, <2>1, <2>2, <2>3 DEF Connected
  <2>8. Streams'
    <3> SUFFICES ASSUME NEW d \in open, d # c PROVE Stream(d)'
      BY <2>1 DEF Streams
    <3>1. /\ d \in Conn /\ Stream(d) /\ worker'[d] = worker[d] /\ toServer'[d] = toServer[d]
      BY <1>1, <1>2, <2>3 DEF Typed
    <3>2. QED BY <2>1, <2>6, <3>1, StreamKept DEF Done, Quiet
  <2>9. ChromeInv'
    <3>1. link \in open' => /\ link \in open /\ worker'[link] = worker[link]
                            /\ toServer'[link] = toServer[link]
      BY <1>1, <2>1, <2>3 DEF Typed
    <3>2. QED BY <1>2, <2>1, <2>6, <3>1 DEF ChromeInv, ReadySaid
  <2>10. QED BY <2>5, <2>6, <2>7, <2>8, <2>9 DEF InFlight
<1>5. QED BY <1>3, <1>4

-----------------------------------------------------------------------------
(* The Connect app: its own steps                                            *)

\* The registry does not notice what the app does.
LEMMA AppMove ==
    ASSUME StreamInv, UNCHANGED <<registryVars, active>>,
           \A c \in open : GrantedStream(c) => GrantedStream(c)'
    PROVE  Connected' /\ OwnerInv' /\ LiveInv'
<1>1. UNCHANGED <<registered, open, worker, thread, active>>
  BY DEF registryVars
<1>2. Connected'
  BY <1>1 DEF StreamInv, InFlight, Connected
<1>3. OwnerInv'
  <2>1. ASSUME NEW c \in Conn, NEW q \in Runs PROVE OwnerOK(c, q)'
    <3>1. OwnerOK(c, q)
      BY DEF StreamInv, OwnerInv
    <3>2. QED BY <1>1, <3>1 DEF OwnerOK
  <2>2. QED BY <1>1, <2>1 DEF StreamInv, OwnerInv
<1>4. LiveInv'
  BY <1>1 DEF StreamInv, LiveInv, LiveOK
<1>5. QED BY <1>2, <1>3, <1>4

\* Neither socket is touched, and the app is as done and as quiet as before.
LEMMA AppAlone ==
    ASSUME StreamInv, UNCHANGED <<registryVars, active, wireVars>>,
           Done => Done', Quiet => Quiet'
    PROVE  Numbered' /\ Connected' /\ Streams' /\ OwnerInv' /\ LiveInv'
<1>1. UNCHANGED <<registered, open, worker, thread, active, toApp, toServer, link, made>>
  BY DEF registryVars, wireVars
<1>2. Connected' /\ OwnerInv' /\ LiveInv'
  <2>1. \A c \in open : GrantedStream(c) => GrantedStream(c)'
    BY <1>1 DEF GrantedStream
  <2>2. QED BY <2>1, AppMove
<1>3. Numbered'
  BY <1>1 DEF StreamInv, InFlight, Numbered
<1>4. Streams'
  <2> SUFFICES ASSUME NEW c \in open PROVE Stream(c)'
    BY <1>1 DEF Streams
  <2>1. c \in Conn /\ Stream(c)
    BY TypeFacts DEF StreamInv, InFlight, Streams, Typed
  <2>2. QED BY <1>1, <2>1, StreamKept
<1>5. QED BY <1>2, <1>3, <1>4

LEMMA StarterKeeps ==
    ASSUME StreamInv, UNCHANGED <<registryVars, active>>, StarterStep
    PROVE  InFlight' /\ OwnerInv' /\ LiveInv'
<1>1. /\ starter \in Working /\ running /\ result # "ok" /\ ~Done
      /\ loop \notin {"offline"}
      /\ starter' \in Working \/ (starter' = "finished" /\ result' # "none")
      /\ starter' \in Working => result' = result
      /\ UNCHANGED <<wireVars, loop, batch, running, cancel>>
  <2>1. AppInv
    BY DEF StreamInv, InFlight
  <2>2. starter \in Working
    BY DEF StarterStep, StarterBegins, StarterSpawns, StarterCannotSpawn, StarterSeesReady,
           StarterGivesUp, StarterEnds, Working
  <2>3. running /\ result # "ok" /\ ~Done /\ loop \notin {"offline"}
    BY <2>1, <2>2 DEF AppInv, Working, Done
  <2>4. /\ starter' \in Working \/ (starter' = "finished" /\ result' # "none")
        /\ starter' \in Working => result' = result
        /\ UNCHANGED <<wireVars, loop, batch, running, cancel>>
    BY DEF StarterStep, StarterBegins, StarterSpawns, StarterCannotSpawn, StarterSeesReady,
           StarterGivesUp, StarterEnds, Working, Finish
  <2>5. QED BY <2>2, <2>3, <2>4
<1>2. UNCHANGED <<registered, open, worker, toApp, toServer, link, made>>
  BY <1>1 DEF registryVars, wireVars
<1>3. (Done => Done') /\ (Quiet => Quiet')
  BY <1>1 DEF Quiet
<1>4. Numbered' /\ Connected' /\ Streams' /\ OwnerInv' /\ LiveInv'
  BY <1>1, <1>3, AppAlone
<1>5. result' = "ok" => ~cancel /\ starter' = "finished"
  BY <1>1 DEF StarterStep, StarterBegins, StarterSpawns, StarterCannotSpawn, StarterSeesReady,
              StarterGivesUp, StarterEnds, Finish
<1>6. AppInv'
  <2>1. AppInv
    BY DEF StreamInv, InFlight
  <2>2. pending => pending'
    BY <1>1 DEF pending
  <2>3. QED BY <1>1, <1>2, <1>3, <1>5, <2>1, <2>2 DEF AppInv, Working
<1>7. ChromeInv'
  <2> SUFFICES ASSUME link \in open PROVE ChromeInv'
    BY <1>2 DEF ChromeInv
  <2>1. ChromeInv /\ ReadyStream(link)
    BY DEF StreamInv, InFlight, Streams, Stream
  <2>2. ~ReadySaid /\ ~ReadySaid'
    BY <1>1, <1>2, <2>1 DEF ReadyStream, ReadySaid
  <2>3. starter' \in Working /\ ~cancel => startRun' = worker[link].owner
    BY <1>1, <2>1 DEF ChromeInv, StarterStep, StarterBegins, StarterSpawns, StarterCannotSpawn,
          StarterSeesReady, StarterGivesUp, StarterEnds, Finish, Working
  <2>4. starter' = "launched" => chrome' = startRun'
    BY DEF StarterStep, StarterBegins, StarterSpawns, StarterCannotSpawn,
          StarterSeesReady, StarterGivesUp, StarterEnds, Finish
  <2>5. result' = "ok" => chrome' = worker[link].owner
    BY <1>1, <2>1 DEF ChromeInv, StarterStep, StarterBegins, StarterSpawns, StarterCannotSpawn,
          StarterSeesReady, StarterGivesUp, StarterEnds, Finish, Working
  <2>6. QED BY <1>1, <1>2, <2>2, <2>3, <2>4, <2>5 DEF ChromeInv
<1>8. QED BY <1>4, <1>6, <1>7 DEF InFlight

\* The poll loop without a message.
LEMMA LoopKeeps ==
    ASSUME StreamInv, UNCHANGED <<registryVars, active>>,
           PollReads \/ CancelBeforeJoin \/ PollReturns \/ Reaped
    PROVE  InFlight' /\ OwnerInv' /\ LiveInv'
<1>1. UNCHANGED <<wireVars, registered, open, worker, toApp, toServer, link, made, startRun, browserUp, chrome>>
  BY DEF PollReads, CancelBeforeJoin, PollReturns, Reaped, registryVars, wireVars
<1>2. /\ AppInv /\ ChromeInv /\ link \in Conn \cup {NoConn}
      /\ NoConn \notin open /\ NoConn \notin Conn
  BY TypeFacts DEF StreamInv, InFlight, Typed
<1>3. CASE Reaped
  <2>1. Done' /\ Quiet' /\ loop = "reap" /\ loop' = "offline" /\ starter' = "none" /\ ~running'
        /\ result' = "none" /\ link = NoConn
    BY <1>2, <1>3 DEF Reaped, Done, Quiet, AppInv
  <2>2. AppInv'
    BY <1>1, <1>2, <2>1 DEF AppInv
  <2>3. ChromeInv'
    BY <1>1, <1>2, <2>1 DEF ChromeInv
  <2>4. Numbered' /\ Connected' /\ Streams' /\ OwnerInv' /\ LiveInv'
    BY <1>1, <2>1, AppAlone
  <2>5. QED BY <2>2, <2>3, <2>4 DEF InFlight
<1>4. CASE PollReads \/ CancelBeforeJoin \/ PollReturns
  <2>1. /\ UNCHANGED <<starter, running, result>>
        /\ cancel => cancel'
        /\ loop \in {"poll", "handle"} /\ loop' \in {"handle", "flush"}
        /\ loop' = "flush" => pending
    BY <1>4 DEF PollReads, CancelBeforeJoin, PollReturns
  <2>2. (Done => Done') /\ (Quiet => Quiet') /\ (pending => pending')
    BY <2>1 DEF Done, Quiet, pending
  <2>3. result = "ok" /\ cancel' => loop' \in {"flush", "reap"}
    BY <1>2, <1>4, <2>1 DEF AppInv, PollReads, CancelBeforeJoin, PollReturns, JoinBlocks, JoinIfDone
  <2>4. AppInv'
    BY <1>1, <1>2, <2>1, <2>2, <2>3 DEF AppInv
  <2>5. ChromeInv'
    BY <1>1, <1>2, <2>1 DEF ChromeInv, ReadySaid
  <2>6. Numbered' /\ Connected' /\ Streams' /\ OwnerInv' /\ LiveInv'
    BY <1>1, <2>2, AppAlone
  <2>7. QED BY <2>4, <2>5, <2>6 DEF InFlight
<1>5. QED BY <1>3, <1>4

-----------------------------------------------------------------------------
(* The Connect app: what it says                                             *)

\* sa_worker_ws_send_text of one message
LEMMA SendFacts ==
    ASSUME IInv, NEW c \in Conn, NEW m \in ToServerMsg, SendText(c, <<m>>)
    PROVE  /\ Len(toServer'[c]) = Len(toServer[c]) + 1
           /\ \A i \in 1 .. Len(toServer[c]) : toServer'[c][i] = toServer[c][i]
           /\ toServer'[c][Len(toServer[c]) + 1] = m
           /\ \A d \in Conn : d # c => toServer'[d] = toServer[d]
<1>1. toServer \in [Conn -> Seq(ToServerMsg)]
  BY DEF IInv, WireTypeOK
<1>2. toServer[c] \in Seq(ToServerMsg)
  BY <1>1
<1>3. toServer'[c] = toServer[c] \o <<m>> /\ \A d \in Conn : d # c => toServer'[d] = toServer[d]
  BY <1>1 DEF SendText
<1>4. toServer[c] \o <<m>> = Append(toServer[c], m)
  BY <1>2, AppendIsConcat
<1>5. QED BY <1>2, <1>3, <1>4, AppendProperties

\* on_ws_text takes the first frame of a poll.
LEMMA IncomingFacts ==
    ASSUME IInv, NEW c \in Conn, c = link, NEW m, Incoming(m)
    PROVE  /\ loop = "handle" /\ ~JoinBlocks
           /\ batch \in 1 .. Len(toApp[c])
           /\ Len(toApp[c]) >= 1 /\ toApp[c][1] = m
           /\ Len(toApp'[c]) = Len(toApp[c]) - 1
           /\ \A i \in 1 .. Len(toApp'[c]) : toApp'[c][i] = toApp[c][i + 1]
           /\ \A d \in Conn : d # c => toApp'[d] = toApp[d]
           /\ loop' = IF batch > 1 THEN "handle" ELSE IF pending THEN "flush" ELSE "poll"
<1>1. toApp \in [Conn -> Seq(ToAppMsg)] /\ toApp[c] \in Seq(ToAppMsg)
  BY DEF IInv, WireTypeOK
<1>2. /\ loop = "handle" /\ ~JoinBlocks /\ batch \in 1 .. Len(toApp[c])
      /\ toApp' = [toApp EXCEPT ![c] = Tail(toApp[c])]
      /\ Head(toApp[c]) = m
      /\ loop' = IF batch > 1 THEN "handle" ELSE IF pending THEN "flush" ELSE "poll"
  BY DEF Incoming, IInv, LoopInv
<1>3. Len(toApp[c]) \in Nat /\ toApp[c] # <<>>
  BY <1>1, <1>2, EmptySeq, LenProperties
<1>4. /\ Len(Tail(toApp[c])) = Len(toApp[c]) - 1
      /\ \A i \in 1 .. Len(Tail(toApp[c])) : Tail(toApp[c])[i] = toApp[c][i + 1]
      /\ Head(toApp[c]) = toApp[c][1]
  BY <1>1, <1>3, HeadTailProperties
<1>5. toApp'[c] = Tail(toApp[c]) /\ \A d \in Conn : d # c => toApp'[d] = toApp[d]
  BY <1>1, <1>2
<1>6. Len(toApp[c]) >= 1
  BY <1>2, <1>3
<1>7. /\ toApp[c][1] = m
      /\ Len(toApp'[c]) = Len(toApp[c]) - 1
      /\ \A i \in 1 .. Len(toApp'[c]) : toApp'[c][i] = toApp[c][i + 1]
  BY <1>2, <1>4, <1>5, Zenon
<1>8. QED BY <1>2, <1>5, <1>6, <1>7

\* What another connection has in flight, and all of it when the app has lost
\* its socket, is not touched by a step of the app.
LEMMA OthersKept ==
    ASSUME StreamInv, NEW c \in Conn, c \notin open \/ Stream(c)', c \notin open \/ ChromeInv',
           link = c, UNCHANGED <<registryVars, active, link, made>>,
           \A d \in Conn : d # c => toApp'[d] = toApp[d] /\ toServer'[d] = toServer[d],
           c \in open /\ GrantedStream(c) => GrantedStream(c)',
           AppInv'
    PROVE  InFlight' /\ OwnerInv' /\ LiveInv'
<1>1. Typed /\ UNCHANGED <<registered, open, worker, thread>>
  BY TypeFacts DEF StreamInv, registryVars
<1>2. Connected' /\ OwnerInv' /\ LiveInv'
  <2>1. ASSUME NEW d \in open, d # c, GrantedStream(d) PROVE GrantedStream(d)'
    <3>1. d \in Conn
      BY <1>1 DEF Typed
    <3>2. worker'[d] = worker[d] /\ toServer'[d] = toServer[d] /\ d # link'
      BY <1>1, <2>1, <3>1
    <3>3. QED BY <2>1, <3>2 DEF GrantedStream
  <2>2. QED BY <2>1, AppMove
<1>3. Numbered'
  <2>1. c <= made /\ Numbered /\ c \in Nat /\ made \in Nat
    BY <1>1 DEF StreamInv, InFlight, Numbered, Typed
  <2>2. ASSUME NEW d \in Conn, d > made PROVE Len(toApp'[d]) = 0 /\ Len(toServer'[d]) = 0
    <3>1. d # c
      BY <2>1, <2>2
    <3>2. QED BY <2>1, <2>2, <3>1 DEF Numbered
  <2>3. QED BY <1>1, <2>1, <2>2 DEF Numbered
<1>4. Streams'
  <2> SUFFICES ASSUME NEW d \in open, d # c PROVE Stream(d)'
    BY <1>1 DEF Streams
  <2>1. d \in Conn /\ Stream(d)
    BY <1>1 DEF StreamInv, InFlight, Streams, Typed
  <2>2. /\ worker'[d] = worker[d] /\ toApp'[d] = toApp[d] /\ toServer'[d] = toServer[d]
        /\ d # link'
    BY <1>1, <2>1
  <2>3. QED BY <2>1, <2>2, StreamKept
<1>5. ChromeInv'
  BY <1>1 DEF ChromeInv
<1>6. QED BY <1>2, <1>3, <1>4, <1>5 DEF InFlight

\* flush_chrome_result: what it reports is the last word on the start that is
\* under way, and it reports it to the lease that start belongs to.
LEMMA FlushKeeps ==
    ASSUME StreamInv, UNCHANGED <<registryVars, active>>, FlushResult
    PROVE  InFlight' /\ OwnerInv' /\ LiveInv'
<1>1. Typed /\ IInv /\ AppInv /\ ChromeInv /\ link \in Conn
  BY TypeFacts DEF StreamInv, InFlight, IInv, LoopInv, FlushResult
<1>2. PICK c \in Conn : c = link
  BY <1>1
<1>3. /\ pending /\ ~Done /\ loop' = "poll" /\ result' = "none" /\ starter' = "none" /\ ~running'
      /\ Done' /\ Quiet'
      /\ UNCHANGED <<toApp, link, made, cancel, registered, open, worker, thread>>
  BY <1>1 DEF FlushResult, AppInv, Done, Quiet, pending, registryVars
<1>4. AppInv'
  BY <1>1, <1>3 DEF AppInv, Typed
<1>5. c \in open => Stream(c) /\ ~GrantedStream(c)
  BY <1>2, <1>3 DEF GrantedStream, StreamInv, InFlight, Streams
<1>6. CASE cancel /\ UNCHANGED toServer
  <2>1. c \in open => Stream(c)'
    BY <1>2, <1>3, <1>5, <1>6, StreamKept
  <2>2. c \in open => ChromeInv'
    <3> SUFFICES ASSUME c \in open PROVE ~(Held(worker[c]) /\ ReadySaid)
      BY <1>2, <1>3, <1>6 DEF ChromeInv, Working, ReadySaid, Held
    <3>1. QED BY <1>2, <1>3, <1>5 DEF Stream, ReadyStream, ReadySaid
  <2>3. QED BY <1>2, <1>3, <1>4, <1>5, <1>6, <2>1, <2>2, OthersKept
<1>7. CASE ~cancel
  <2>1. PICK m \in {"error", "ready"} :
           /\ SendText(c, <<m>>)
           /\ m = "ready" => result = "ok" /\ browserUp' /\ UNCHANGED chrome
    BY <1>2, <1>7 DEF FlushResult
  <2>2. /\ Len(toServer'[c]) = Len(toServer[c]) + 1
        /\ \A i \in 1 .. Len(toServer[c]) : toServer'[c][i] = toServer[c][i]
        /\ toServer'[c][Len(toServer[c]) + 1] = m
        /\ \A d \in Conn : d # c => toServer'[d] = toServer[d]
    BY <1>1, <2>1, SendFacts DEF ToServerMsg
  <2>3. Len(toServer[c]) \in Nat /\ Len(toApp[c]) \in Nat /\ worker[c] \in WorkerConnection
    BY <1>1 DEF Typed
  <2>4. ASSUME c \in open
        PROVE  /\ ~HasStopped(toServer[c])
               /\ \A i \in 1 .. Len(toServer[c]) : toServer[c][i] # "ready"
               /\ worker[c].state \in {"starting", "stopping"}
               /\ worker[c].state = "starting" => Len(toApp[c]) = 0
               /\ worker[c].state = "stopping" => Len(toApp[c]) = 1 /\ toApp[c][1].type = "stop"
    <3>1. ~Quiet
      BY <1>3, <1>7 DEF Quiet
    <3>2. ~(Len(toApp[c]) = 2) /\ ~(Len(toApp[c]) = 1 /\ toApp[c][1].type = "start")
      BY <1>1, <1>2, <3>1 DEF AppInv
    <3>3. /\ \A i \in 1 .. Len(toServer[c]) : toServer[c][i] # "ready"
          /\ worker[c].state \notin {"idle", "ready"}
      BY <1>2, <1>3, <1>5, <2>4, <3>1 DEF Stream, ReadyStream, IdleStream
    <3>4. worker[c].state = "starting" => Len(toApp[c]) = 0 /\ ~HasStopped(toServer[c])
      BY <1>2, <1>5, <2>4, <3>2 DEF Stream, HeldStream, Held
    <3>5. worker[c].state = "stopping" =>
             Len(toApp[c]) = 1 /\ toApp[c][1].type = "stop" /\ ~HasStopped(toServer[c])
      BY <1>2, <1>5, <2>4, <3>1, <3>2 DEF Stream, StoppingStream
    <3>6. QED BY <2>3, <3>3, <3>4, <3>5 DEF WorkerConnection
  <2>5. ASSUME c \in open PROVE ~HasStopped(toServer'[c])
    <3>1. ASSUME NEW i \in 1 .. Len(toServer'[c]) PROVE toServer'[c][i] # "stopped"
      <4>1. CASE i \in 1 .. Len(toServer[c])
        BY <2>2, <2>4, <2>5, <4>1 DEF HasStopped
      <4>2. CASE i = Len(toServer[c]) + 1
        BY <2>2, <4>2
      <4>3. QED BY <2>2, <2>3, <4>1, <4>2
    <3>2. QED BY <3>1 DEF HasStopped
  <2>6. c \in open => Stream(c)'
    <3> SUFFICES ASSUME c \in open PROVE Stream(c)'
      OBVIOUS
    <3>1. IdleStream(c)'
      BY <1>3, <2>4 DEF IdleStream
    <3>2. HeldStream(c)'
      BY <1>2, <1>3, <2>4, <2>5 DEF HeldStream, Held
    <3>3. StoppingStream(c)'
      BY <1>2, <1>3, <2>4, <2>5 DEF StoppingStream, HasStopped
    <3>4. ReadyStream(c)'
      <4>1. ASSUME NEW i \in 1 .. Len(toServer'[c]), toServer'[c][i] = "ready"
            PROVE  \A j \in i + 1 .. Len(toServer'[c]) : toServer'[c][j] = "stopped"
        <5>1. i \notin 1 .. Len(toServer[c])
          BY <2>2, <2>4, <4>1
        <5>2. \A n \in Nat : \A k \in 1 .. n + 1 : k \in 1 .. n \/ k = n + 1
          OBVIOUS
        <5>3. i = Len(toServer'[c]) /\ Len(toServer'[c]) \in Nat
          BY <2>2, <2>3, <4>1, <5>1, <5>2
        <5>4. QED BY <5>3
      <4>2. QED BY <1>2, <1>3, <2>4, <4>1 DEF ReadyStream
    <3>5. QED BY <3>1, <3>2, <3>3, <3>4 DEF Stream
  <2>7. c \in open => ChromeInv'
    <3> SUFFICES ASSUME c \in open, Held(worker[c]), ReadySaid'
                 PROVE  chrome' = worker[c].owner /\ browserUp'
      BY <1>2, <1>3 DEF ChromeInv, Working, Held
    <3>1. PICK i \in 1 .. Len(toServer'[c]) : toServer'[c][i] = "ready"
      BY <1>2, <1>3, <2>4 DEF ReadySaid
    <3>2. m = "ready"
      <4>1. i \notin 1 .. Len(toServer[c])
        BY <2>2, <2>4, <3>1
      <4>2. \A n \in Nat : \A k \in 1 .. n + 1 : k \in 1 .. n \/ k = n + 1
        OBVIOUS
      <4>3. i = Len(toServer[c]) + 1
        BY <2>2, <2>3, <3>1, <4>1, <4>2
      <4>4. QED BY <2>2, <3>1, <4>3
    <3>3. QED BY <1>1, <1>2, <1>7, <2>1, <3>2 DEF ChromeInv
  <2>8. QED BY <1>2, <1>3, <1>4, <1>5, <2>2, <2>6, <2>7, OthersKept
<1>8. cancel => UNCHANGED toServer
  BY DEF FlushResult
<1>9. QED BY <1>6, <1>7, <1>8

\* queue_browser_start, refused or not: the frame is the start of the run whose
\* lease it is, and the app owes no answer to an earlier one.
LEMMA StartFacts ==
    ASSUME StreamInv, NEW c \in Conn, c = link, NEW r, Incoming([type |-> "start", run |-> r])
    PROVE  /\ Quiet /\ result # "ok"
           /\ Len(toApp'[c]) \in {0, 1}
           /\ Len(toApp'[c]) = 1 => toApp'[c][1].type = "stop"
           /\ \A d \in Conn : d # c => toApp'[d] = toApp[d]
           /\ loop' = "flush" => pending
           /\ loop' \in {"poll", "handle", "flush"}
           /\ c \in open =>
                 /\ r = worker[c].owner /\ Len(toServer[c]) = 0 /\ ~GrantedStream(c)
                 /\ worker[c].state \in {"starting", "stopping"}
                 /\ worker[c].state = "starting" => Len(toApp'[c]) = 0
                 /\ worker[c].state = "stopping" => Len(toApp'[c]) = 1
<1> DEFINE m == [type |-> "start", run |-> r]
<1>1. Typed /\ IInv /\ AppInv
  BY TypeFacts DEF StreamInv, InFlight
<1>2. m.type = "start" /\ m.run = r
  OBVIOUS
<1>3. /\ loop = "handle" /\ Len(toApp[c]) >= 1 /\ toApp[c][1] = m
      /\ Len(toApp'[c]) = Len(toApp[c]) - 1
      /\ \A i \in 1 .. Len(toApp'[c]) : toApp'[c][i] = toApp[c][i + 1]
      /\ \A d \in Conn : d # c => toApp'[d] = toApp[d]
      /\ loop' = IF batch > 1 THEN "handle" ELSE IF pending THEN "flush" ELSE "poll"
  BY <1>1, IncomingFacts
<1>4. Len(toApp[c]) \in Nat /\ worker[c] \in WorkerConnection
  BY <1>1 DEF Typed
<1> HIDE DEF m
<1>5. toApp[c][1].type = "start"
  BY <1>2, <1>3
<1>6. /\ Len(toApp[c]) \in {1, 2} /\ Quiet
      /\ Len(toApp[c]) = 2 => toApp[c][2].type = "stop"
  <2>1. /\ Len(toApp[c]) <= 2
        /\ Len(toApp[c]) = 2 => toApp[c][2].type = "stop"
        /\ Len(toApp[c]) = 1 /\ toApp[c][1].type = "start" => Quiet
        /\ Len(toApp[c]) = 2 => Quiet
    BY <1>1 DEF AppInv
  <2>2. \A n \in Nat : n >= 1 /\ n <= 2 => n = 1 \/ n = 2
    OBVIOUS
  <2>3. Len(toApp[c]) = 1 \/ Len(toApp[c]) = 2
    BY <1>3, <1>4, <2>1, <2>2, Zenon
  <2>4. QED BY <1>5, <2>1, <2>3, Zenon
<1>7. Len(toApp'[c]) \in {0, 1} /\ (Len(toApp'[c]) = 1 => toApp'[c][1].type = "stop")
  <2>1. CASE Len(toApp[c]) = 1
    BY <1>3, <2>1
  <2>2. CASE Len(toApp[c]) = 2
    <3>1. Len(toApp'[c]) = 1
      BY <1>3, <2>2
    <3>2. toApp'[c][1] = toApp[c][2]
      <4>1. 1 \in 1 .. Len(toApp'[c]) /\ 1 + 1 = 2
        BY <3>1
      <4>2. toApp'[c][1] = toApp[c][1 + 1]
        BY <1>3, <4>1, Zenon
      <4>3. QED BY <4>1, <4>2
    <3>3. QED BY <1>6, <2>2, <3>1, <3>2
  <2>3. QED BY <1>6, <2>1, <2>2
<1>8. result # "ok"
  BY <1>1, <1>3, <1>6 DEF AppInv, Quiet, Done
<1>9. ASSUME c \in open
      PROVE  /\ r = worker[c].owner /\ Len(toServer[c]) = 0 /\ ~GrantedStream(c)
             /\ worker[c].state \in {"starting", "stopping"}
             /\ worker[c].state = "starting" => Len(toApp[c]) = 1
             /\ worker[c].state = "stopping" => Len(toApp[c]) = 2
  <2>1. Stream(c)
    BY <1>9 DEF StreamInv, InFlight, Streams
  <2>2. CASE worker[c].state = "idle"
    BY <1>6, <2>1, <2>2 DEF Stream, IdleStream
  <2>3. CASE Held(worker[c])
    <3>1. /\ Len(toApp[c]) = 1 /\ toApp[c][1] = [type |-> "start", run |-> worker[c].owner]
          /\ Len(toServer[c]) = 0 /\ worker[c].state = "starting"
      BY <1>6, <2>1, <2>3 DEF Stream, HeldStream
    <3>2. toApp[c][1].run = worker[c].owner
      BY <3>1
    <3>3. QED BY <1>2, <1>3, <3>1, <3>2 DEF GrantedStream
  <2>4. CASE worker[c].state = "stopping"
    <3>1. /\ Len(toApp[c]) = 2 /\ toApp[c][1] = [type |-> "start", run |-> worker[c].owner]
          /\ Len(toServer[c]) = 0
      BY <1>5, <1>6, <2>1, <2>4 DEF Stream, StoppingStream
    <3>2. toApp[c][1].run = worker[c].owner
      BY <3>1
    <3>3. ~GrantedStream(c)
      BY <3>1 DEF GrantedStream
    <3>4. QED BY <1>2, <1>3, <2>4, <3>1, <3>2, <3>3
  <2>5. QED BY <1>4, <2>2, <2>3, <2>4 DEF WorkerConnection, Held
<1>10. c \in open => /\ worker[c].state = "starting" => Len(toApp'[c]) = 0
                     /\ worker[c].state = "stopping" => Len(toApp'[c]) = 1
  BY <1>3, <1>9
<1>11. QED BY <1>3, <1>6, <1>7, <1>8, <1>9, <1>10

LEMMA StartKeeps ==
    ASSUME StreamInv, UNCHANGED <<registryVars, active>>, NEW r \in Runs,
           StartRefused(r) \/ StartQueued(r)
    PROVE  InFlight' /\ OwnerInv' /\ LiveInv'
<1>1. Typed /\ IInv /\ AppInv /\ link \in Conn /\ Incoming([type |-> "start", run |-> r])
  BY TypeFacts DEF StreamInv, InFlight, IInv, LoopInv, Incoming, StartRefused, StartQueued
<1>2. PICK c \in Conn : c = link
  BY <1>1
<1>3. /\ Quiet /\ result # "ok"
      /\ Len(toApp'[c]) \in {0, 1}
      /\ Len(toApp'[c]) = 1 => toApp'[c][1].type = "stop"
      /\ \A d \in Conn : d # c => toApp'[d] = toApp[d]
      /\ loop' = "flush" => pending
      /\ loop' \in {"poll", "handle", "flush"}
  BY <1>1, <1>2, StartFacts
<1>4. ASSUME c \in open
      PROVE  /\ r = worker[c].owner /\ Len(toServer[c]) = 0 /\ ~GrantedStream(c)
             /\ worker[c].state \in {"starting", "stopping"}
             /\ worker[c].state = "starting" => Len(toApp'[c]) = 0
             /\ worker[c].state = "stopping" => Len(toApp'[c]) = 1
  BY <1>1, <1>2, <1>4, StartFacts
<1>5. /\ UNCHANGED <<link, made, result, browserUp, chrome>>
      /\ UNCHANGED <<registered, open, worker, thread>>
  BY DEF StartRefused, StartQueued, registryVars
<1>6. PICK ms \in {<<"error">>, <<"starting">>, <<"starting", "error">>} : SendText(c, ms)
  BY <1>2 DEF StartRefused, StartQueued
<1>7. \A i \in 1 .. Len(ms) : ms[i] \in {"starting", "error"}
  BY <1>6
<1>8. /\ \A d \in Conn : d # c => toServer'[d] = toServer[d]
      /\ c \in open => toServer'[c] = ms
  <2>1. toServer \in [Conn -> Seq(ToServerMsg)] /\ toServer[c] \in Seq(ToServerMsg)
    BY <1>1 DEF IInv, WireTypeOK
  <2>2. toServer'[c] = toServer[c] \o ms /\ \A d \in Conn : d # c => toServer'[d] = toServer[d]
    BY <1>6, <2>1 DEF SendText
  <2>3. c \in open => toServer[c] = <<>>
    BY <1>1, <1>4 DEF Typed
  <2>4. <<>> \o ms = ms
    BY <1>6
  <2>5. QED BY <2>2, <2>3, <2>4
<1>9. c \in open => \A i \in 1 .. Len(toServer'[c]) : toServer'[c][i] \in {"starting", "error"}
  BY <1>7, <1>8
<1>10. AppInv'
  <2>1. pending => pending'
    BY <1>5 DEF pending
  <2>2. /\ ~running' => starter' \in {"none", "finished"}
        /\ running' => starter' # "none"
    BY <1>1 DEF AppInv, StartRefused, StartQueued
  <2>3. /\ Len(toApp'[c]) <= 2 /\ Len(toApp'[c]) # 2
        /\ ~(Len(toApp'[c]) = 1 /\ toApp'[c][1].type = "start")
    <3>1. \A n \in {0, 1} : n <= 2 /\ n # 2
      OBVIOUS
    <3>2. ~(Len(toApp'[c]) = 1 /\ toApp'[c][1].type = "start")
      <4>1. "stop" # "start"
        OBVIOUS
      <4>2. QED BY <1>3, <4>1, Zenon
    <3>3. QED BY <1>3, <3>1, <3>2, Zenon
  <2>4. /\ loop' = "flush" => pending'
        /\ loop' \notin {"offline", "reap"}
        /\ result' # "ok"
    BY <1>3, <1>5, <2>1
  <2>5. link' = c
    BY <1>2, <1>5
  <2>6. QED BY <2>2, <2>3, <2>4, <2>5 DEF AppInv
<1>11. ASSUME c \in open PROVE Stream(c)'
  <2>1. /\ ~HasStopped(toServer'[c])
        /\ \A i \in 1 .. Len(toServer'[c]) : toServer'[c][i] # "ready"
    BY <1>9, <1>11 DEF HasStopped
  <2>2. IdleStream(c)' /\ HeldStream(c)' /\ ReadyStream(c)'
    BY <1>4, <1>5, <1>11, <2>1 DEF IdleStream, HeldStream, ReadyStream, Held, HasStopped
  <2>3. StoppingStream(c)'
    BY <1>3, <1>4, <1>5, <1>11, <2>1 DEF StoppingStream, HasStopped
  <2>4. QED BY <2>2, <2>3 DEF Stream
<1>12. ASSUME c \in open PROVE ChromeInv'
  <2>1. ~ReadySaid'
    BY <1>2, <1>4, <1>5, <1>9, <1>12 DEF ReadySaid
  <2>2. starter' \in Working /\ ~cancel' => startRun' = worker'[c].owner /\ starter' # "launched"
    BY <1>4, <1>5, <1>12 DEF StartRefused, StartQueued, Working
  <2>3. QED BY <1>2, <1>3, <1>5, <2>1, <2>2 DEF ChromeInv, Working
<1>13. QED BY <1>2, <1>3, <1>4, <1>5, <1>8, <1>10, <1>11, <1>12, OthersKept

\* stop_browser: it answers the one stop that is under way, and whatever the app
\* was doing is cancelled.
LEMMA StopHandled ==
    ASSUME StreamInv, UNCHANGED <<registryVars, active>>, NEW r \in RunOrNone, StopReceived(r)
    PROVE  InFlight' /\ OwnerInv' /\ LiveInv'
<1>1. Typed /\ IInv /\ AppInv /\ link \in Conn /\ Incoming([type |-> "stop", run |-> r])
  BY TypeFacts DEF StreamInv, InFlight, IInv, LoopInv, Incoming, StopReceived
<1>2. PICK c \in Conn : c = link
  BY <1>1
<1>3. PICK m : m = [type |-> "stop", run |-> r] /\ m.type = "stop" /\ Incoming(m)
  BY <1>1
<1>4. /\ ~JoinBlocks /\ batch \in 1 .. Len(toApp[c])
      /\ Len(toApp[c]) >= 1 /\ toApp[c][1] = m
      /\ Len(toApp'[c]) = Len(toApp[c]) - 1
      /\ \A d \in Conn : d # c => toApp'[d] = toApp[d]
      /\ loop' = IF batch > 1 THEN "handle" ELSE IF pending THEN "flush" ELSE "poll"
  BY <1>1, <1>2, <1>3, IncomingFacts
<1>5. /\ cancel' /\ running' = (running /\ ~pending) /\ ~browserUp' /\ SendText(c, <<"stopped">>)
      /\ UNCHANGED <<link, made, starter, startRun, result>>
      /\ UNCHANGED <<registered, open, worker, thread>>
  BY <1>2 DEF StopReceived, registryVars
<1>6. /\ Len(toApp[c]) \in Nat /\ Len(toServer[c]) \in Nat /\ worker[c] \in WorkerConnection
      /\ link \notin {NoConn}
  BY <1>1 DEF Typed
<1>7. Len(toApp[c]) = 1 /\ Len(toApp'[c]) = 0 /\ toApp[c][1].type # "start"
  <2>1. toApp[c][1].type # "start"
    BY <1>3, <1>4
  <2>2. Len(toApp[c]) <= 2 /\ Len(toApp[c]) # 2
    BY <1>1, <1>2, <2>1 DEF AppInv
  <2>3. \A n \in Nat : n >= 1 /\ n <= 2 /\ n # 2 => n = 1
    OBVIOUS
  <2>4. Len(toApp[c]) = 1
    BY <1>4, <1>6, <2>2, <2>3, Zenon
  <2>5. QED BY <1>4, <2>1, <2>4
<1>8. loop' = IF pending THEN "flush" ELSE "poll"
  BY <1>4, <1>7
<1>9. /\ Len(toServer'[c]) = Len(toServer[c]) + 1
      /\ \A i \in 1 .. Len(toServer[c]) : toServer'[c][i] = toServer[c][i]
      /\ toServer'[c][Len(toServer[c]) + 1] = "stopped"
      /\ \A d \in Conn : d # c => toServer'[d] = toServer[d]
  BY <1>1, <1>5, SendFacts DEF ToServerMsg
<1>10. \A i \in 1 .. Len(toServer'[c]) : i \in 1 .. Len(toServer[c]) \/ i = Len(toServer'[c])
  BY <1>6, <1>9
<1>11. AppInv'
  <2>1. /\ ~running' => starter' \in {"none", "finished"}
        /\ running' => starter' # "none"
        /\ result' = "ok" => starter' \in {"none", "finished"}
    BY <1>1, <1>4, <1>5 DEF AppInv, JoinBlocks, JoinIfDone
  <2>2. /\ loop' = "flush" => pending'
        /\ loop' \notin {"offline", "reap"}
        /\ result' = "ok" => loop' = "flush"
    BY <1>5, <1>8 DEF pending
  <2>3. link' = c
    BY <1>2, <1>5
  <2>4. QED BY <1>7, <2>1, <2>2, <2>3 DEF AppInv
<1>12. (Done => Done') /\ Quiet'
  BY <1>5 DEF Done, Quiet
<1>13. ASSUME c \in open
       PROVE  Stream(c) /\ worker[c].state = "stopping" /\ ~HasStopped(toServer[c])
  <2>1. Stream(c)
    BY <1>13 DEF StreamInv, InFlight, Streams
  <2>2. worker[c].state # "idle"
    BY <1>2, <1>7, <2>1 DEF Stream, IdleStream
  <2>3. ~Held(worker[c])
    <3> SUFFICES ASSUME Held(worker[c]) PROVE FALSE
      OBVIOUS
    <3>1. toApp[c][1] = [type |-> "start", run |-> worker[c].owner]
      BY <1>2, <1>7, <2>1 DEF Stream, HeldStream
    <3>2. QED BY <1>7, <3>1
  <2>4. worker[c].state = "stopping"
    BY <1>6, <2>2, <2>3 DEF WorkerConnection, Held
  <2>5. QED BY <1>2, <1>7, <2>1, <2>4 DEF Stream, StoppingStream
<1>14. ASSUME c \in open PROVE Stream(c)'
  <2>1. \A i \in 1 .. Len(toServer'[c]) : toServer'[c][i] = "stopped" => i = Len(toServer'[c])
    BY <1>9, <1>10, <1>13, <1>14 DEF HasStopped
  <2>2. HasStopped(toServer'[c])
    <3>1. Len(toServer[c]) + 1 \in 1 .. Len(toServer'[c])
      BY <1>6, <1>9
    <3>2. QED BY <1>9, <3>1 DEF HasStopped
  <2>3. IdleStream(c)' /\ HeldStream(c)'
    BY <1>5, <1>13, <1>14 DEF IdleStream, HeldStream, Held
  <2>4. StoppingStream(c)'
    BY <1>7, <1>12, <2>1, <2>2 DEF StoppingStream
  <2>5. ReadyStream(c)'
    <3>1. ASSUME NEW i \in 1 .. Len(toServer'[c]), toServer'[c][i] = "ready"
          PROVE  Done' /\ \A j \in i + 1 .. Len(toServer'[c]) : toServer'[c][j] = "stopped"
      <4>1. i \in 1 .. Len(toServer[c]) /\ toServer[c][i] = "ready"
        BY <1>9, <1>10, <3>1
      <4>2. /\ c = link => Done
            /\ \A j \in i + 1 .. Len(toServer[c]) : toServer[c][j] = "stopped"
        BY <1>13, <1>14, <4>1 DEF Stream, ReadyStream
      <4>3. ASSUME NEW j \in i + 1 .. Len(toServer'[c]) PROVE toServer'[c][j] = "stopped"
        <5>1. CASE j = Len(toServer[c]) + 1
          BY <1>9, <5>1
        <5>2. CASE j # Len(toServer[c]) + 1
          <6>1. j \in i + 1 .. Len(toServer[c]) /\ j \in 1 .. Len(toServer[c])
            BY <1>6, <1>9, <3>1, <4>3, <5>2
          <6>2. QED BY <1>9, <4>2, <6>1
        <5>3. QED BY <5>1, <5>2
      <4>4. QED BY <1>2, <1>12, <4>2, <4>3
    <3>2. QED BY <1>5, <1>13, <1>14, <3>1 DEF ReadyStream
  <2>6. QED BY <2>3, <2>4, <2>5 DEF Stream
<1>15. c \in open => ChromeInv'
  BY <1>2, <1>5, <1>13 DEF ChromeInv, Held
<1>16. ASSUME c \in open, GrantedStream(c) PROVE GrantedStream(c)'
  <2>1. OnlyStopped(toServer'[c])
    BY <1>9, <1>10, <1>16 DEF OnlyStopped, GrantedStream
  <2>2. QED BY <1>2, <1>5, <1>7, <1>12, <1>16, <2>1 DEF GrantedStream
<1>17. QED BY <1>2, <1>4, <1>5, <1>9, <1>11, <1>14, <1>15, <1>16, OthersKept

-----------------------------------------------------------------------------
(* Connections                                                               *)

\* The socket breaks: what was on its way to the app is lost with it.
LEMMA DisconnectKeeps ==
    ASSUME StreamInv, UNCHANGED <<registryVars, active>>, Disconnect
    PROVE  InFlight' /\ OwnerInv' /\ LiveInv'
<1>1. Typed /\ IInv /\ AppInv /\ link \in Conn /\ NoConn <= made
  BY TypeFacts DEF StreamInv, InFlight, IInv, LoopInv, Disconnect, Typed, NoConn
<1>2. /\ loop' = "reap" /\ link' = NoConn /\ cancel'
      /\ UNCHANGED <<toServer, made, starter, startRun, running, result>>
      /\ UNCHANGED <<registered, open, worker, thread>>
  BY DEF Disconnect, registryVars
<1>3. /\ Len(toApp'[link]) = 0
      /\ \A d \in Conn : d # link => toApp'[d] = toApp[d]
  <2>1. toApp \in [Conn -> Seq(ToAppMsg)] /\ toApp' = [toApp EXCEPT ![link] = <<>>]
    BY <1>1 DEF IInv, WireTypeOK, Disconnect
  <2>2. QED BY <1>1, <2>1
<1>4. \A d \in Conn : d # link'
  BY <1>1, <1>2 DEF Typed
<1>5. Numbered'
  BY <1>1, <1>2, <1>3 DEF StreamInv, InFlight, Numbered
<1>6. AppInv'
  BY <1>1, <1>2, <1>4 DEF AppInv
<1>7. Streams'
  <2> SUFFICES ASSUME NEW d \in open PROVE Stream(d)'
    BY <1>2 DEF Streams
  <2>1. d \in Conn /\ Stream(d)
    BY <1>1 DEF StreamInv, InFlight, Streams, Typed
  <2>2. QED BY <1>2, <1>4, <2>1, StreamKept
<1>8. ChromeInv'
  BY <1>1, <1>2, <1>4 DEF ChromeInv, Typed
<1>9. Connected' /\ OwnerInv' /\ LiveInv'
  <2>1. \A d \in open : GrantedStream(d) => GrantedStream(d)'
    BY <1>1, <1>2, <1>4 DEF GrantedStream, Typed
  <2>2. QED BY <2>1, AppMove
<1>10. QED BY <1>5, <1>6, <1>7, <1>8, <1>9 DEF InFlight

\* The app connects anew: nothing is in flight on the new connection, and the
\* leases of older ones are of no use any more.
LEMMA ConnectKeeps ==
    ASSUME StreamInv, ConnectWorker
    PROVE  InFlight' /\ OwnerInv' /\ LiveInv' /\ \E c \in Conn : Opened(c)
<1>1. /\ Typed /\ IInv /\ AppInv /\ Connected /\ OwnerInv /\ LiveInv
      /\ Numbered /\ \A d \in open : Stream(d)
  BY TypeFacts DEF StreamInv, InFlight, Streams
<1>2. PICK c \in Conn : Connect(c) /\ Register(c) /\ UNCHANGED active
  BY DEF ConnectWorker
<1>3. /\ loop = "offline" /\ loop' = "poll" /\ link' = c /\ made' = c /\ c = made + 1
      /\ UNCHANGED <<toApp, toServer, batch, starter, startRun, running, result, cancel,
                     browserUp, chrome, thread, active>>
      /\ registered' = c /\ open' = open \cup {c}
      /\ worker' = [d \in Conn |->
            IF d = c THEN NewWorker
            ELSE IF d = registered THEN [worker[d] EXCEPT !.online = FALSE, !.proxy = NoRun]
            ELSE worker[d]]
  BY <1>2 DEF Connect, Register
<1>4. Done /\ Done' /\ Quiet' /\ link = NoConn
  BY <1>1, <1>3 DEF AppInv, Done, Quiet
<1>5. c \in Nat /\ made \in Nat /\ c > made /\ c <= c
  <2>1. c \in Nat /\ made \in Nat
    BY <1>1 DEF Typed
  <2>2. c = made + 1
    BY <1>3
  <2>3. QED BY <2>1, <2>2
<1>6. Len(toApp[c]) = 0 /\ Len(toServer[c]) = 0
  BY <1>1, <1>5 DEF Numbered
<1>7. worker'[c] = NewWorker
  BY <1>3
<1>8. \A d \in Conn : d # c =>
         /\ worker'[d].state = worker[d].state /\ worker'[d].owner = worker[d].owner
         /\ worker'[d].due = worker[d].due /\ worker'[d].stopped = worker[d].stopped
         /\ worker'[d].online => worker[d].online /\ d # registered
  <2> SUFFICES ASSUME NEW d \in Conn, d # c
               PROVE /\ worker'[d].state = worker[d].state /\ worker'[d].owner = worker[d].owner
                     /\ worker'[d].due = worker[d].due /\ worker'[d].stopped = worker[d].stopped
                     /\ worker'[d].online => worker[d].online /\ d # registered
    OBVIOUS
  <2>1. worker[d] \in WorkerConnection
    BY <1>1 DEF Typed
  <2>2. CASE d = registered
    <3>1. worker'[d] = [worker[d] EXCEPT !.online = FALSE, !.proxy = NoRun]
      BY <1>3, <2>2
    <3>2. QED BY <2>1, <3>1 DEF WorkerConnection
  <2>3. CASE d # registered
    BY <1>3, <2>3
  <2>4. QED BY <2>2, <2>3
<1>9. \A d \in Conn : d # c => ~worker'[d].online
  BY <1>1, <1>8 DEF Connected
<1>10. Numbered'
  <2>1. \A n \in Nat : n <= made => n <= c
    BY <1>5
  <2>2. \A d \in Conn : d > c => d > made
    BY <1>1, <1>5 DEF Typed
  <2>3. \A r \in Runs : thread'[r].conn <= made'
    BY <1>1, <1>3, <2>1 DEF Numbered, Typed
  <2>4. \A d \in Conn : d > c => Len(toApp'[d]) = 0 /\ Len(toServer'[d]) = 0
    BY <1>1, <1>3, <2>2 DEF Numbered
  <2>5. link' <= made' /\ registered' <= made' /\ made' = c
    BY <1>3, <1>5
  <2>6. QED BY <2>3, <2>4, <2>5 DEF Numbered
<1>11. Connected'
  <2> SUFFICES ASSUME NEW d \in Conn
               PROVE  /\ worker'[d].online => registered' = d /\ d \in open'
                      /\ d \notin open' => worker'[d].state \in {"idle", "starting"}
                      /\ ~worker'[d].due
    BY DEF Connected
  <2>1. CASE d = c
    BY <1>3, <1>7, <2>1 DEF NewWorker
  <2>2. CASE d # c
    BY <1>1, <1>3, <1>8, <1>9, <2>2 DEF Connected
  <2>3. QED BY <2>1, <2>2
<1>12. AppInv'
  <2>1. Len(toApp'[link']) = 0
    BY <1>3, <1>6
  <2>2. result' = "none" /\ ~running' /\ starter' \in {"none", "finished"}
    BY <1>1, <1>3, <1>4 DEF AppInv, Done
  <2>3. loop' = "poll"
    BY <1>3
  <2>4. Len(toApp'[link']) <= 2 /\ Len(toApp'[link']) # 1 /\ Len(toApp'[link']) # 2
    BY <2>1
  <2>5. QED BY <2>2, <2>3, <2>4 DEF AppInv
<1>13. Streams'
  <2> SUFFICES ASSUME NEW d \in open' PROVE Stream(d)'
    BY DEF Streams
  <2>1. CASE d = c
    <3>1. worker'[c].state = "idle" /\ Len(toApp'[c]) = 0 /\ Len(toServer'[c]) = 0
      BY <1>3, <1>6, <1>7 DEF NewWorker
    <3>2. QED BY <1>4, <2>1, <3>1
          DEF Stream, IdleStream, HeldStream, StoppingStream, ReadyStream, Held
  <2>2. CASE d # c
    <3>1. d \in Conn /\ Stream(d) /\ d # link'
      BY <1>1, <1>3, <2>2 DEF Typed
    <3>2. QED BY <1>3, <1>8, <2>2, <3>1, StreamKept
  <2>3. QED BY <2>1, <2>2
<1>14. ChromeInv'
  <2>1. starter \in {"none", "finished"} /\ result = "none"
    BY <1>1, <1>4 DEF AppInv, Done
  <2>2. ~Held(worker'[c])
    BY <1>7 DEF Held, NewWorker
  <2>3. QED BY <1>3, <2>1, <2>2 DEF ChromeInv, Working
<1>15. OwnerInv'
  <2>1. ASSUME NEW d \in Conn
        PROVE  /\ worker'[d].state = "idle" <=> worker'[d].owner = NoRun
               /\ \A r \in Runs : OwnerOK(d, r)'
    <3>1. CASE d = c
      <4>1. worker'[c].state = "idle" /\ worker'[c].owner = NoRun /\ \A r \in Runs : r # NoRun
        BY <1>1, <1>7 DEF NewWorker, Typed
      <4>2. QED BY <3>1, <4>1 DEF OwnerOK
    <3>2. CASE d # c
      <4>1. ASSUME NEW r \in Runs PROVE OwnerOK(d, r)'
        <5>1. OwnerOK(d, r)
          BY <1>1 DEF OwnerInv
        <5>2. d \in open' => d \in open
          BY <1>3, <3>2
        <5>3. d \in open /\ GrantedStream(d) => GrantedStream(d)'
          BY <1>3, <1>8, <3>2 DEF GrantedStream
        <5>4. QED BY <1>3, <1>8, <1>9, <3>2, <5>1, <5>2, <5>3 DEF OwnerOK
      <4>2. QED BY <1>1, <1>8, <3>2, <4>1 DEF OwnerInv
    <3>3. QED BY <3>1, <3>2
  <2>2. QED BY <2>1 DEF OwnerInv
<1>16. LiveInv'
  <2> SUFFICES ASSUME NEW r \in Runs PROVE LiveOK(r)'
    BY DEF LiveInv
  <2>1. LiveOK(r) /\ thread[r].conn # c
    BY <1>1, <1>5 DEF LiveInv, Numbered, Typed
  <2>2. thread[r].conn \in Conn => ~worker'[thread[r].conn].online
    BY <1>9, <2>1
  <2>3. QED BY <1>3, <2>1, <2>2 DEF LiveOK
<1>17. Opened(c)
  <2>1. registered # c
    BY <1>1, <1>5 DEF Numbered, Typed
  <2>2. ~worker[c].online
    BY <1>1, <2>1 DEF Connected
  <2>3. QED BY <1>3, <1>5, <1>7, <1>9, <2>2 DEF Opened, NewWorker
<1>18. QED BY <1>10, <1>11, <1>12, <1>13, <1>14, <1>15, <1>16, <1>17 DEF InFlight

-----------------------------------------------------------------------------
(* The invariant                                                             *)

LEMMA StreamInit == Init => StreamInv
<1> SUFFICES ASSUME Init PROVE StreamInv
  OBVIOUS
<1>1. IInv /\ NoRun \notin Runs
  BY InitEstablishes, WireAssumption
<1>2. /\ made = 0 /\ link = 0 /\ registered = 0 /\ open = {} /\ active = {}
      /\ toApp = [c \in Conn |-> <<>>] /\ toServer = [c \in Conn |-> <<>>]
      /\ worker = [c \in Conn |-> [NewWorker EXCEPT !.online = FALSE]]
      /\ thread = [r \in Runs |-> [pc |-> "new", conn |-> NoConn, got |-> NoRun]]
      /\ loop = "offline" /\ starter = "none" /\ running = FALSE /\ result = "none"
  BY DEF Init, WireInit, RegistryInit, AppInit, NoConn
<1>3. \A c \in Conn : /\ ~worker[c].online /\ worker[c].state = "idle" /\ worker[c].owner = NoRun
                      /\ worker[c].due = FALSE
  BY <1>2 DEF NewWorker
<1>4. \A r \in Runs : thread[r].pc = "new" /\ thread[r].conn = 0
  BY <1>2 DEF NoConn
<1>5. 0 \notin Conn
  BY DEF Conn
<1>6. Numbered
  <2>1. \A c \in Conn : Len(toApp[c]) = 0 /\ Len(toServer[c]) = 0
    BY <1>2
  <2>2. QED BY <1>2, <1>4, <2>1 DEF Numbered
<1>7. Connected /\ Streams /\ ChromeInv
  BY <1>2, <1>3 DEF Connected, Streams, ChromeInv
<1>8. AppInv
  BY <1>2, <1>5 DEF AppInv, Done, NoConn
<1>9. OwnerInv
  BY <1>1, <1>3 DEF OwnerInv, OwnerOK
<1>10. LiveInv
  BY <1>2, <1>4 DEF LiveInv, LiveOK, Waiting
<1>11. QED BY <1>1, <1>6, <1>7, <1>8, <1>9, <1>10 DEF StreamInv, InFlight

LEMMA ThreadsKeep ==
    ASSUME StreamInv, NEW r \in Runs, ThreadStep(r), UNCHANGED <<appVars, active>>
    PROVE  InFlight' /\ OwnerInv' /\ LiveInv' /\ LeaseMove
<1>1. CASE AcquireLease(r)
  BY <1>1, AcquireKeeps
<1>2. CASE DetachProxy(r)
  BY <1>2, DetachKeeps
<1>3. CASE AbortStart(r) \/ StopNoWait(r) \/ StopAndWait(r)
  BY <1>3, StopSteps
<1>4. CASE \/ GetWorker(r) \/ AcquireProxyFails(r) \/ LeaseIsBusy(r)
           \/ BusyRetry(r) \/ BusyTimeout(r)
           \/ ReadyWait(r) \/ ReadySlice(r) \/ ReadyTimeout(r) \/ ClearReady(r) \/ CheckReady(r)
           \/ ProbeFails(r) \/ ProbeAnswers(r, browserUp /\ chrome # NoRun) \/ ReturnUrl(r)
           \/ StopWaitTimeout(r) \/ ForceRelease(r)
  BY <1>4, QuietSteps
<1>5. QED BY <1>1, <1>2, <1>3, <1>4 DEF ThreadStep

LEMMA AppKeeps ==
    ASSUME StreamInv, AppStep, UNCHANGED <<registryVars, active>>
    PROVE  InFlight' /\ OwnerInv' /\ LiveInv'
<1>1. CASE PollReads \/ CancelBeforeJoin \/ PollReturns \/ Reaped
  BY <1>1, LoopKeeps
<1>2. CASE FlushResult
  BY <1>2, FlushKeeps
<1>3. ASSUME NEW r \in Runs, StartRefused(r) \/ StartQueued(r) PROVE InFlight' /\ OwnerInv' /\ LiveInv'
  BY <1>3, StartKeeps
<1>4. ASSUME NEW r \in RunOrNone, StopReceived(r) PROVE InFlight' /\ OwnerInv' /\ LiveInv'
  BY <1>4, StopHandled
<1>5. CASE StarterStep
  BY <1>5, StarterKeeps
<1>6. CASE Disconnect
  BY <1>6, DisconnectKeeps
<1>7. QED BY <1>1, <1>2, <1>3, <1>4, <1>5, <1>6 DEF AppStep, LoopStep

LEMMA StreamInductive ==
    ASSUME ~MayExpire
    PROVE  StreamInv /\ [Next]_leaseVars => StreamInv'
<1> SUFFICES ASSUME StreamInv, [Next]_leaseVars PROVE StreamInv'
  OBVIOUS
<1>1. IInv'
  BY NextPreserves DEF StreamInv
<1>2. ASSUME NEW r \in Runs, ThreadStep(r), UNCHANGED <<appVars, active>>
      PROVE  InFlight' /\ OwnerInv' /\ LiveInv'
  BY <1>2, ThreadsKeep
<1>3. ~PollStatus
  <2> SUFFICES ASSUME PollStatus PROVE FALSE
    OBVIOUS
  <2>1. Get \in Conn /\ worker[Get].due
    BY GetIsOnline DEF PollStatus, ExpiryDue
  <2>2. QED BY <2>1 DEF StreamInv, InFlight, Connected
<1>4. ASSUME NEW c \in Conn, UNCHANGED <<appVars, active>>,
             \/ StopDeadlinePasses(c)
             \/ OnStarting(c) \/ OnReady(c) \/ OnStopped(c) \/ OnError(c)
             \/ Unregister(c)
      PROVE  InFlight' /\ OwnerInv' /\ LiveInv'
  <2>1. ~StopDeadlinePasses(c)
    BY DEF StopDeadlinePasses
  <2>2. CASE OnStarting(c) \/ OnError(c) \/ (OnReady(c) /\ worker[c].state = "stopping")
    BY <1>4, <2>2, MessageKeeps
  <2>3. CASE OnReady(c) /\ worker[c].state # "stopping"
    BY <1>4, <2>3, ReadyKeeps
  <2>4. CASE OnStopped(c)
    BY <1>4, <2>4, StoppedKeeps
  <2>5. CASE Unregister(c)
    BY <1>4, <2>5, GoneKeeps
  <2>6. QED BY <1>4, <2>1, <2>2, <2>3, <2>4, <2>5
<1>5. CASE ServerStep /\ UNCHANGED <<appVars, active>>
  <2>0. UNCHANGED <<appVars, active>> /\ ServerStep
    BY <1>5
  <2>1. ASSUME Logout PROVE InFlight' /\ OwnerInv' /\ LiveInv'
    BY <2>0, <2>1, GoneKeeps
  <2>2. ASSUME NEW r \in Runs, ThreadStep(r) PROVE InFlight' /\ OwnerInv' /\ LiveInv'
    BY <1>2, <1>5, <2>2
  <2>3. ASSUME NEW c \in Conn,
               \/ StopDeadlinePasses(c)
               \/ OnStarting(c) \/ OnReady(c) \/ OnStopped(c) \/ OnError(c)
               \/ Unregister(c)
        PROVE  InFlight' /\ OwnerInv' /\ LiveInv'
    BY <1>4, <1>5, <2>3
  <2>4. InFlight' /\ OwnerInv' /\ LiveInv'
    BY <1>3, <2>0, <2>1, <2>2, <2>3 DEF ServerStep
  <2>5. QED BY <1>1, <2>4 DEF StreamInv
<1>6. CASE AppStep /\ UNCHANGED <<registryVars, active>>
  BY <1>1, <1>6, AppKeeps DEF StreamInv
<1>7. CASE \E r \in Runs : RunStep(r)
  <2>1. PICK r \in Runs : RunStep(r)
    BY <1>7
  <2>2. UNCHANGED appVars
    BY <2>1 DEF RunStep, StartRun, CancelRun, StartFailed, WorkEnds
  <2>3. CASE CancelRun(r)
    BY <1>1, <2>2, <2>3, StopSteps DEF StreamInv
  <2>4. CASE StartRun(r) \/ StartFailed(r) \/ WorkEnds(r)
    BY <1>1, <2>2, <2>4, QuietSteps DEF StreamInv
  <2>5. QED BY <2>1, <2>3, <2>4 DEF RunStep
<1>8. CASE ConnectWorker
  BY <1>1, <1>8, ConnectKeeps DEF StreamInv
<1>9. CASE UNCHANGED leaseVars
  <2>1. /\ UNCHANGED <<registered, open, wireVars, appVars, worker, thread, active>>
    BY <1>9 DEF leaseVars, registryVars
  <2>2. (Done => Done') /\ (Quiet => Quiet')
    BY <2>1 DEF appVars, Done, Quiet
  <2>3. UNCHANGED <<registryVars, active, wireVars>>
    BY <1>9 DEF leaseVars
  <2>4. Numbered' /\ Connected' /\ Streams' /\ OwnerInv' /\ LiveInv'
    BY <2>2, <2>3, AppAlone
  <2>5. AppInv' /\ ChromeInv'
    BY <2>1 DEF StreamInv, InFlight, AppInv, ChromeInv, pending, Quiet, Done, ReadySaid,
                appVars, wireVars
  <2>6. QED BY <1>1, <2>4, <2>5 DEF StreamInv, InFlight
<1>10. QED BY <1>5, <1>6, <1>7, <1>8, <1>9 DEF Next

LEMMA StreamHolds ==
    ASSUME ~MayExpire
    PROVE  Spec => []StreamInv
<1>1. StreamInv /\ [Next]_leaseVars => StreamInv'
  BY StreamInductive
<1>2. QED BY <1>1, StreamInit, PTL DEF Spec

-----------------------------------------------------------------------------
(* The theorems                                                              *)

\* With no run thread under way and nothing in flight the lease is free, so that
\* the start gate of app.py never answers "Connect browser is busy with another
\* run" when there is no other run.
THEOREM LeaseGivenBack ==
    ASSUME ~MayExpire
    PROVE  Spec => []QuiescentLeaseIsFree
<1>1. StreamInv => QuiescentLeaseIsFree
  <2> SUFFICES ASSUME StreamInv, Quiescent
               PROVE  /\ worker[link].state = "idle" /\ worker[link].owner = NoRun
                      /\ worker[link].proxy = NoRun
    BY DEF QuiescentLeaseIsFree
  <2>1. Typed /\ link \in open /\ link \in Conn
    BY TypeFacts DEF StreamInv, Quiescent, Typed
  <2>2. Len(toApp[link]) = 0 /\ Len(toServer[link]) = 0
    BY <2>1 DEF Typed, Quiescent
  <2>3. worker[link].state = "idle"
    <3>1. Stream(link)
      BY <2>1 DEF StreamInv, InFlight, Streams
    <3>2. worker[link].state # "stopping"
      BY <2>2, <3>1 DEF Stream, StoppingStream, HasStopped
    <3>3. ~Held(worker[link])
      <4> SUFFICES ASSUME Held(worker[link]) PROVE FALSE
        OBVIOUS
      <4>1. PICK r \in Runs : worker[link].owner = r
        BY <2>1 DEF Typed, StreamInv, OwnerInv, Held, RunOrNone
      <4>2. OwnerOK(link, r) /\ thread[r].pc \in {"new", "over"} /\ worker[link].online
        BY <2>1, <4>1 DEF StreamInv, OwnerInv, Quiescent
      <4>3. QED BY <4>1, <4>2 DEF OwnerOK, Waiting
    <3>4. QED BY <2>1, <3>2, <3>3 DEF Typed, WorkerConnection, Held
  <2>4. QED BY <2>1, <2>3 DEF StreamInv, OwnerInv, Typed
<1>2. QED BY <1>1, StreamHolds, PTL

\* When the server holds a lease as ready and nothing is on its way to end it,
\* the Chrome on the app's machine is the one that the lease's owner started.
THEOREM ReadyLeaseIsTrue ==
    ASSUME ~MayExpire
    PROVE  Spec => []ReadyLeaseHasItsChrome
<1>1. StreamInv => ReadyLeaseHasItsChrome
  <2> SUFFICES ASSUME StreamInv, NEW c \in Conn, c = link, worker[c].state = "ready"
               PROVE  chrome = worker[c].owner /\ browserUp
    BY DEF ReadyLeaseHasItsChrome
  <2>1. c \in open
    BY DEF StreamInv, InFlight, Connected
  <2>2. QED BY <2>1 DEF StreamInv, InFlight, ChromeInv, Held, ReadySaid
<1>2. QED BY <1>1, StreamHolds, PTL

\* As long as its app stays connected, a run that nobody cancelled works with the
\* browser that request_browser_start made for it.
THEOREM OwnBrowser ==
    ASSUME ~MayExpire
    PROVE  Spec => []LiveRunGetsOwnBrowser
<1>1. StreamInv => LiveRunGetsOwnBrowser
  BY DEF StreamInv, LiveInv, LiveOK, LiveRunGetsOwnBrowser, IInv
<1>2. QED BY <1>1, StreamHolds, PTL

-----------------------------------------------------------------------------
(* What a step may do to the leases                                          *)

LEMMA LeaseMoves ==
    ASSUME ~MayExpire, StreamInv, [Next]_leaseVars
    PROVE  LeaseMove \/ \E c \in Conn : Opened(c)
<1>1. UNCHANGED <<worker, thread>> => LeaseMove
  <2> SUFFICES ASSUME UNCHANGED <<worker, thread>> PROVE LeaseMove
    OBVIOUS
  <2>1. Typed
    BY TypeFacts DEF StreamInv
  <2>2. \A c \in Conn : Same(c)
    BY <2>1 DEF Same, Typed, WorkerConnection
  <2>3. QED BY <2>2 DEF LeaseMove
<1>2. ~PollStatus
  <2> SUFFICES ASSUME PollStatus PROVE FALSE
    OBVIOUS
  <2>1. Get \in Conn /\ worker[Get].due
    BY GetIsOnline DEF PollStatus, ExpiryDue
  <2>2. QED BY <2>1 DEF StreamInv, InFlight, Connected
<1>3. CASE ServerStep /\ UNCHANGED <<appVars, active>>
  <2>0. UNCHANGED <<appVars, active>> /\ ServerStep
    BY <1>3
  <2>1. ASSUME Logout PROVE LeaseMove
    BY <2>0, <2>1, GoneKeeps
  <2>2. ASSUME NEW r \in Runs, ThreadStep(r) PROVE LeaseMove
    BY <2>0, <2>2, ThreadsKeep
  <2>3. ASSUME NEW c \in Conn,
               \/ StopDeadlinePasses(c)
               \/ OnStarting(c) \/ OnReady(c) \/ OnStopped(c) \/ OnError(c)
               \/ Unregister(c)
        PROVE  LeaseMove
    <3>1. ~StopDeadlinePasses(c)
      BY DEF StopDeadlinePasses
    <3>2. ASSUME OnStarting(c) \/ OnError(c) \/ (OnReady(c) /\ worker[c].state = "stopping")
          PROVE  LeaseMove
      BY <2>0, <3>2, MessageKeeps
    <3>3. ASSUME OnReady(c) /\ worker[c].state # "stopping" PROVE LeaseMove
      BY <2>0, <3>3, ReadyKeeps
    <3>4. ASSUME OnStopped(c) PROVE LeaseMove
      BY <2>0, <3>4, StoppedKeeps
    <3>5. ASSUME Unregister(c) PROVE LeaseMove
      BY <2>0, <3>5, GoneKeeps
    <3>6. QED BY <2>3, <3>1, <3>2, <3>3, <3>4, <3>5
  <2>4. QED BY <1>2, <2>0, <2>1, <2>2, <2>3 DEF ServerStep
<1>4. CASE AppStep /\ UNCHANGED <<registryVars, active>>
  BY <1>1, <1>4 DEF registryVars
<1>5. CASE \E r \in Runs : RunStep(r)
  <2>1. PICK r \in Runs : RunStep(r)
    BY <1>5
  <2>2. UNCHANGED appVars
    BY <2>1 DEF RunStep, StartRun, CancelRun, StartFailed, WorkEnds
  <2>3. ASSUME CancelRun(r) PROVE LeaseMove
    BY <2>2, <2>3, StopSteps
  <2>4. ASSUME StartRun(r) \/ StartFailed(r) \/ WorkEnds(r) PROVE LeaseMove
    BY <2>2, <2>4, QuietSteps
  <2>5. QED BY <2>1, <2>3, <2>4 DEF RunStep
<1>6. CASE ConnectWorker
  BY <1>6, ConnectKeeps
<1>7. CASE UNCHANGED leaseVars
  BY <1>1, <1>7 DEF leaseVars, registryVars
<1>8. QED BY <1>3, <1>4, <1>5, <1>6, <1>7 DEF Next

\* Whoever else starts, stops, times out or is cancelled, a run that is using its
\* browser keeps the lease until it ends, is cancelled, or the app is gone.
THEOREM LeaseKept ==
    ASSUME ~MayExpire
    PROVE  Spec => LeaseKeptWhileUsed
<1> DEFINE Keeps(r) == LET c == thread[r].conn IN
          /\ r \in active /\ r \in active'
          /\ thread[r].pc = "using" /\ thread'[r].pc = "using"
          /\ worker[c].owner = r /\ link' = c /\ worker'[c].online
          => worker'[c].owner = r /\ worker'[c].state = worker[c].state
<1>1. StreamInv /\ StreamInv' /\ [Next]_leaseVars => [\A r \in Runs : Keeps(r)]_leaseVars
  <2> SUFFICES ASSUME StreamInv, StreamInv', [Next]_leaseVars, NEW r \in Runs,
                      r \in active, r \in active',
                      thread[r].pc = "using", thread'[r].pc = "using",
                      NEW c \in {thread[r].conn},
                      worker[c].owner = r, link' = c, worker'[c].online
               PROVE  worker'[c].owner = r /\ worker'[c].state = worker[c].state
    OBVIOUS
  <2>1. Typed /\ c \in Conn /\ c <= made
    BY TypeFacts DEF StreamInv, InFlight, Numbered, LiveInv, LiveOK
  <2>2. LeaseMove
    <3>1. \A d \in Conn : ~Opened(d)
      BY <2>1 DEF Opened, Typed
    <3>2. QED BY <3>1, LeaseMoves
  <2>3. thread'[r].conn = c /\ worker[c].online
    BY <2>1, <2>2 DEF LeaseMove, Same, Moved
  <2>4. worker[c].state = "ready"
    <3>1. c \in open /\ OwnerOK(c, r) /\ LiveOK(r)
      BY <2>1, <2>3 DEF StreamInv, InFlight, Connected, OwnerInv, LiveInv
    <3>2. Held(worker[c]) /\ GrantedStream(c)
      BY <2>3, <3>1 DEF LiveOK, OwnerOK, Granted
    <3>3. QED BY <3>2 DEF Held, GrantedStream
  <2>5. worker'[c].owner = r /\ worker'[c].state = "ready"
    <3>1. c \in open' /\ OwnerOK(c, r)' /\ LiveOK(r)'
      BY <2>1 DEF StreamInv, InFlight, Connected, OwnerInv, LiveInv
    <3>2. worker'[c].owner = r /\ Held(worker'[c])
      BY <2>3, <3>1 DEF LiveOK
    <3>3. GrantedStream(c)'
      BY <3>1, <3>2 DEF OwnerOK, Granted
    <3>4. QED BY <3>2, <3>3 DEF Held, GrantedStream
  <2>6. QED BY <2>4, <2>5
<1>2. QED BY <1>1, StreamHolds, PTL DEF Spec, LeaseKeptWhileUsed

-----------------------------------------------------------------------------
(* The lease protocol                                                        *)

\* leaseOf, for one WorkerConnection
Seen(w) ==
    IF ~w.online THEN [phase |-> "down", run |-> NoRun]
    ELSE [phase |-> CASE w.state = "idle" -> "free"
                      [] w.state = "stopping" -> "closing"
                      [] OTHER -> "held",
          run |-> w.owner]

LEMMA SeenFacts ==
    ASSUME NEW w \in WorkerConnection
    PROVE  /\ ~w.online => Seen(w) = [phase |-> "down", run |-> NoRun]
           /\ w.online => Seen(w).run = w.owner
           /\ w.online /\ w.state = "idle" => Seen(w) = [phase |-> "free", run |-> w.owner]
           /\ w.online /\ w.state = "stopping" => Seen(w) = [phase |-> "closing", run |-> w.owner]
           /\ w.online /\ Held(w) => Seen(w) = [phase |-> "held", run |-> w.owner]
<1>1. w.state \in {"idle", "starting", "ready", "stopping"}
  BY DEF WorkerConnection
<1>2. CASE w.state = "idle"
  BY <1>2 DEF Seen, Held
<1>3. CASE w.state = "stopping"
  BY <1>3 DEF Seen, Held
<1>4. CASE w.state \in {"starting", "ready"}
  BY <1>4 DEF Seen, Held
<1>5. QED BY <1>1, <1>2, <1>3, <1>4

\* One lease of leaseOf changes if the others look the same.
LEMMA OneLease ==
    ASSUME NEW c \in Conn, \A d \in Conn : d # c => Seen(worker'[d]) = Seen(worker[d])
    PROVE  leaseOf' = [leaseOf EXCEPT ![c] = Seen(worker'[c])]
<1>1. leaseOf = [d \in Conn |-> Seen(worker[d])]
  BY DEF leaseOf, Seen
<1>2. leaseOf' = [d \in Conn |-> Seen(worker'[d])]
  BY DEF leaseOf, Seen
<1>3. QED BY <1>1, <1>2

\* A connection whose lease moves makes a step of the protocol.
LEMMA MovedIsAStep ==
    ASSUME Typed, Typed', NEW c \in Conn, Moved(c), \A d \in Conn : d # c => Same(d),
           \A d \in Conn : worker[d].state = "idle" => worker[d].owner = NoRun
    PROVE  Protocol!LeaseNext
<1> DEFINE l == Seen(worker'[c])
<1>1. worker[c] \in WorkerConnection /\ worker'[c] \in WorkerConnection
  BY DEF Typed
<1>2. leaseOf[c] = Seen(worker[c])
  BY DEF leaseOf, Seen
<1>3. leaseOf' = [leaseOf EXCEPT ![c] = Seen(worker'[c])]
  <2>1. ASSUME NEW d \in Conn, d # c PROVE Seen(worker'[d]) = Seen(worker[d])
    <3>1. Same(d) /\ worker[d] \in WorkerConnection /\ worker'[d] \in WorkerConnection
      BY <2>1 DEF Typed
    <3>2. QED BY <3>1, SeenFacts DEF Same, WorkerConnection, Held
  <2>2. QED BY <2>1, OneLease
<1>4. /\ ~worker[c].online => Seen(worker[c]) = [phase |-> "down", run |-> NoRun]
      /\ worker[c].online => Seen(worker[c]).run = worker[c].owner
      /\ worker[c].online /\ worker[c].state = "idle" =>
            Seen(worker[c]) = [phase |-> "free", run |-> worker[c].owner]
      /\ worker[c].online /\ worker[c].state = "stopping" =>
            Seen(worker[c]) = [phase |-> "closing", run |-> worker[c].owner]
      /\ worker[c].online /\ Held(worker[c]) =>
            Seen(worker[c]) = [phase |-> "held", run |-> worker[c].owner]
  BY <1>1, SeenFacts
<1>5. /\ ~worker'[c].online => Seen(worker'[c]) = [phase |-> "down", run |-> NoRun]
      /\ worker'[c].online /\ worker'[c].state = "idle" =>
            Seen(worker'[c]) = [phase |-> "free", run |-> worker'[c].owner]
      /\ worker'[c].online /\ worker'[c].state = "stopping" =>
            Seen(worker'[c]) = [phase |-> "closing", run |-> worker'[c].owner]
      /\ worker'[c].online /\ Held(worker'[c]) =>
            Seen(worker'[c]) = [phase |-> "held", run |-> worker'[c].owner]
  BY <1>1, SeenFacts
<1>6. CASE worker[c].online /\ ~worker'[c].online
  <2>1. leaseOf' = [leaseOf EXCEPT ![c] = [phase |-> "down", run |-> NoRun]]
    BY <1>3, <1>5, <1>6
  <2>2. leaseOf[c].phase \in {"free", "held", "closing"}
    <3>1. worker[c].state = "idle" \/ worker[c].state = "stopping" \/ Held(worker[c])
      BY <1>1 DEF WorkerConnection, Held
    <3>2. QED BY <1>2, <1>4, <1>6, <3>1
  <2>3. Protocol!Drop(c)
    BY <2>1, <2>2 DEF Protocol!Drop, Protocol!Move
  <2>4. QED BY <2>3 DEF Protocol!LeaseNext
<1>7. CASE /\ worker[c].online /\ worker'[c].online
           /\ worker[c].state = "idle" /\ worker'[c].state = "starting"
           /\ worker'[c].owner \in Runs
  <2>1. PICK r \in Runs : worker'[c].owner = r
    BY <1>7
  <2>2. leaseOf' = [leaseOf EXCEPT ![c] = [phase |-> "held", run |-> r]]
    BY <1>3, <1>5, <1>7, <2>1 DEF Held
  <2>3. leaseOf[c].phase = "free"
    BY <1>2, <1>4, <1>7
  <2>4. Protocol!Grant(c, r)
    BY <2>2, <2>3 DEF Protocol!Grant, Protocol!Move
  <2>5. QED BY <2>4 DEF Protocol!LeaseNext
<1>8. CASE /\ worker[c].online /\ worker'[c].online
           /\ Held(worker[c]) /\ worker'[c].state = "stopping"
           /\ worker'[c].owner = worker[c].owner
  <2>1. leaseOf' = [leaseOf EXCEPT ![c] = [phase |-> "closing", run |-> worker[c].owner]]
    BY <1>3, <1>5, <1>8
  <2>2. leaseOf[c].phase = "held" /\ leaseOf[c].run = worker[c].owner
    BY <1>2, <1>4, <1>8
  <2>3. Protocol!Close(c)
    BY <2>1, <2>2 DEF Protocol!Close, Protocol!Move
  <2>4. QED BY <2>3 DEF Protocol!LeaseNext
<1>9. CASE /\ worker[c].online /\ worker'[c].online
           /\ worker[c].state = "stopping" /\ worker'[c].state = "idle"
           /\ worker'[c].owner = NoRun
  <2>1. leaseOf' = [leaseOf EXCEPT ![c] = [phase |-> "free", run |-> NoRun]]
    BY <1>3, <1>5, <1>9
  <2>2. leaseOf[c].phase = "closing"
    BY <1>2, <1>4, <1>9
  <2>3. Protocol!Release(c)
    BY <2>1, <2>2 DEF Protocol!Release, Protocol!Move
  <2>4. QED BY <2>3 DEF Protocol!LeaseNext
<1>10. QED BY <1>6, <1>7, <1>8, <1>9 DEF Moved

\* The registry, the run threads and the app together implement LeaseProtocol,
\* for any number of runs and connections: a browser goes to one run at a time,
\* and is closed before anyone else gets it.
THEOREM LeaseImplementsProtocol ==
    ASSUME ~MayExpire
    PROVE  Spec => LeaseIsExclusive
<1>1. Init => Protocol!LeaseInit
  <2> SUFFICES ASSUME Init PROVE Protocol!LeaseInit
    OBVIOUS
  <2>1. \A c \in Conn : ~worker[c].online
    BY DEF Init, RegistryInit, NewWorker
  <2>2. QED BY <2>1 DEF leaseOf, Protocol!LeaseInit
<1>2. StreamInv /\ StreamInv' /\ [Next]_leaseVars => [Protocol!LeaseNext]_leaseOf
  <2> SUFFICES ASSUME StreamInv, StreamInv', [Next]_leaseVars
               PROVE  Protocol!LeaseNext \/ leaseOf' = leaseOf
    OBVIOUS
  <2>1. /\ Typed /\ Typed'
        /\ \A d \in Conn : worker[d].state = "idle" => worker[d].owner = NoRun
    <3>1. Typed
      BY TypeFacts DEF StreamInv
    <3>2. IInv' => Typed'
      BY TypeFacts, PTL
    <3>3. QED BY <3>1, <3>2 DEF StreamInv, OwnerInv
  <2>2. CASE \A c \in Conn : Same(c)
    <3>1. ASSUME NEW c \in Conn PROVE Seen(worker'[c]) = Seen(worker[c])
      <4>1. Same(c) /\ worker[c] \in WorkerConnection /\ worker'[c] \in WorkerConnection
        BY <2>1, <2>2 DEF Typed
      <4>2. QED BY <4>1, SeenFacts DEF Same, WorkerConnection, Held
    <3>2. QED BY <3>1 DEF leaseOf, Seen
  <2>3. ASSUME NEW c \in Conn, Moved(c), \A d \in Conn : d # c => Same(d)
        PROVE  Protocol!LeaseNext
    BY <2>1, <2>3, MovedIsAStep
  <2>4. ASSUME NEW c \in Conn, Opened(c) PROVE Protocol!LeaseNext
    <3>1. /\ worker[c] \in WorkerConnection
          /\ \A d \in Conn : worker'[d] \in WorkerConnection
      BY <2>1 DEF Typed
    <3>2. leaseOf[c].phase = "down"
      BY <2>4 DEF Opened, leaseOf
    <3>3. leaseOf' = [d \in Conn |-> [phase |-> IF d = c THEN "free" ELSE "down", run |-> NoRun]]
      <4>1. ASSUME NEW d \in Conn
            PROVE  Seen(worker'[d]) = [phase |-> IF d = c THEN "free" ELSE "down", run |-> NoRun]
        BY <2>4, <3>1, SeenFacts DEF Opened
      <4>2. leaseOf' = [d \in Conn |-> Seen(worker'[d])]
        BY DEF leaseOf, Seen
      <4>3. QED BY <4>1, <4>2
    <3>4. Protocol!Open(c)
      BY <3>2, <3>3 DEF Protocol!Open
    <3>5. QED BY <3>4 DEF Protocol!LeaseNext
  <2>5. LeaseMove \/ \E c \in Conn : Opened(c)
    BY LeaseMoves
  <2>6. QED BY <2>2, <2>3, <2>4, <2>5 DEF LeaseMove
<1>3. QED BY <1>1, <1>2, StreamHolds, PTL DEF Spec, LeaseIsExclusive, Protocol!LeaseSpec
===============================================================================
