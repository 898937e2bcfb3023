------------------------------ MODULE CdpTunnel ------------------------------
(***************************************************************************)
(* The CDP tunnel: a run's Playwright dials a local port of the server,    *)
(* and its bytes travel as mux frames over the worker's WebSocket to the   *)
(* Connect app, which dials Chrome (CdpProxy and the outbox of             *)
(* WorkerConnection in server/workers.py; the channels of worker_ws.c).    *)
(*                                                                         *)
(* Every lease has a CdpProxy of its own, whose connection ids start at 1. *)
(* Its accept thread and one read thread per client put frames in the      *)
(* outbox, which drain_outbox empties on the event loop.  A stop closes    *)
(* the clients one by one and does not join the read threads.              *)
(*                                                                         *)
(* A stream is a client of the proxy of a lease; a chunk is what one recv  *)
(* returns, known by its stream and its number.  The lease itself is the   *)
(* subject of WorkerRegistry; here it goes through its phases once more,   *)
(* as far as they order the frames.                                        *)
(***************************************************************************)
EXTENDS Naturals, SequencesExt, Subsequences

CONSTANTS
    MaxLeases,    \* bound: leases, one after the other
    MaxClients,   \* bound: clients of a proxy
    MaxChunks,    \* bound: chunks a client sends
    MaxReplies,   \* bound: chunks Chrome sends on a channel
    OutboxMax,    \* _OUTBOX_MAX_BYTES, in frames
    BatchItems,   \* _OUTBOX_BATCH_ITEMS
    MaxChannels,  \* SA_MAX_CDP_CHANNELS
    PendingMax,   \* SA_CDP_PENDING_MAX, in chunks
    LateThreads   \* may a thread of a stopped proxy be slower than a start of Chrome

ASSUME TunnelAssumption ==
    /\ {MaxLeases, MaxClients, MaxChunks, MaxReplies, PendingMax, MaxChannels} \subseteq Nat
    /\ {OutboxMax, BatchItems} \subseteq Nat \ {0}
    /\ LateThreads \in BOOLEAN

VARIABLES
    lease,    \* the phase of the current lease, their number, worker.cdp_proxy (0: None)
    client,   \* [Stream -> the client and its read thread]
    proxies,  \* [lease -> its CdpProxy: accept thread and stop()]
    outbox,   \* _sync_outbox
    drain,    \* drain_outbox and its wake-up
    toApp, toServer,  \* the WebSocket, both ways
    app       \* the app: Chrome and the channels to it

tunnelVars == <<lease, client, proxies, outbox, drain, toApp, toServer, app>>

Lease == 1..MaxLeases
Id == 1..MaxClients
Stream == Lease \X Id
Chunk == [of : Stream, n : Nat]

Frame == [kind : {"start", "stop", "open", "close", "data"}, id : Id \cup {0},
          of : Lease, chunks : Seq(Chunk)]
AppFrame == [kind : {"ready", "stopped", "close", "data"}, id : Id \cup {0}, chunks : Seq(Chunk)]

\* registered: in CdpProxy._clients; at: the read thread, which closes a client
\* of the proxy "closes"
Client == [registered : BOOLEAN, closes : Lease \cup {0}, sent : 0..MaxChunks,
           got : Seq(Chunk),
           at : {"none", "accepted", "read", "holds", "overflow", "closing", "leaving", "done"}]

NewClient == [registered |-> FALSE, closes |-> 0, sent |-> 0, got |-> <<>>, at |-> "none"]

\* opening: the client whose OPEN the accept thread has yet to send; left: the
\* clients that stop() has yet to close
Proxy == [opening : Id \cup {0}, stopped : BOOLEAN, left : SUBSET Id]

Channel == [id : Id, of : Stream, connecting : BOOLEAN, heard : Seq(Chunk), replies : Nat]

TunnelTypeOK ==
    /\ lease \in [n : 0..MaxLeases, proxy : 0..MaxLeases,
                  phase : {"idle", "starting", "ready", "detaching", "stopping"}]
    /\ client \in [Stream -> Client]
    /\ proxies \in [Lease -> Proxy]
    /\ outbox \in Seq(Frame) /\ toApp \in Seq(Frame) /\ toServer \in Seq(AppFrame)
    /\ drain \in [at : {"flush", "recheck", "wait"}, event : BOOLEAN,
                  pending : BOOLEAN, scheduled : BOOLEAN]
    /\ app \in [chrome : {"down", "starting", "up"}, channels : SUBSET Channel]

TunnelInit ==
    /\ lease = [n |-> 0, proxy |-> 0, phase |-> "idle"]
    /\ client = [s \in Stream |-> NewClient]
    /\ proxies = [p \in Lease |-> [opening |-> 0, stopped |-> FALSE, left |-> {}]]
    /\ outbox = <<>> /\ toApp = <<>> /\ toServer = <<>>
    /\ drain = [at |-> "flush", event |-> FALSE, pending |-> FALSE, scheduled |-> FALSE]
    /\ app = [chrome |-> "down", channels |-> {}]

-----------------------------------------------------------------------------
(* The outbox                                                                *)

Control(kind, p) == [kind |-> kind, id |-> 0, of |-> p, chunks |-> <<>>]
Mux(kind, s) == [kind |-> kind, id |-> s[2], of |-> s[1], chunks |-> <<>>]

\* _signal_outbox: one _wake is on its way at most
Signalled == IF drain.pending THEN drain
             ELSE [drain EXCEPT !.pending = TRUE, !.scheduled = TRUE]

\* enqueue_json; enqueue_binary of an OPEN or CLOSE, which is always accepted
EnqueueFrame(frame) == outbox' = Append(outbox, frame) /\ drain' = Signalled

\* Mutant: a wake-up that has run is still taken to be on its way.
WokenOnce == [drain EXCEPT !.scheduled = FALSE, !.event = TRUE]

\* _wake
Woken == [drain EXCEPT !.scheduled = FALSE, !.pending = FALSE, !.event = TRUE]

\* The event loop runs _wake while drain_outbox awaits
Wake ==
    /\ drain.scheduled /\ drain.at # "recheck"
    /\ drain' = Woken
    /\ UNCHANGED <<lease, client, proxies, outbox, toApp, toServer, app>>

\* _coalesce_outbox_items: neighbouring DATA of one connection, each of one chunk,
\* becomes one frame.  Frames that join belong to the last one that starts anew.
Joins(f, g) == f.kind = "data" /\ g.kind = "data" /\ f.id = g.id
CoalescedItems(frames) ==
    LET starts == {i \in DOMAIN frames : i = 1 \/ ~Joins(frames[i - 1], frames[i])}
        Joined(k) == Picked(frames, {i \in DOMAIN frames : Rank(starts, i) = k})
        Item(fs) == IF fs[1].kind = "data"
                    THEN [fs[1] EXCEPT !.chunks = [i \in DOMAIN fs |-> fs[i].chunks[1]]]
                    ELSE fs[1]
    IN [k \in 1..Cardinality(starts) |-> Item(Joined(k))]

\* _flush_sync_outbox: a batch at most
NextBatch == SubSeq(outbox, 1, IF Len(outbox) < BatchItems THEN Len(outbox) ELSE BatchItems)
Flush ==
    /\ toApp' = toApp \o CoalescedItems(NextBatch)
    /\ outbox' = SubSeq(outbox, Len(NextBatch) + 1, Len(outbox))

\* drain_outbox: flush, clear the event once there is nothing, look again, wait.
\* The ping after 30 s, which starts it over, is left out: the wake-ups alone have
\* to do.
DrainFlushes ==
    /\ drain.at = "flush"
    /\ Flush
    /\ drain' = IF outbox = <<>> THEN [drain EXCEPT !.at = "recheck", !.event = FALSE]
                ELSE drain
    /\ UNCHANGED <<lease, client, proxies, toServer, app>>

DrainRechecks ==
    /\ drain.at = "recheck"
    /\ Flush
    /\ drain' = [drain EXCEPT !.at = IF outbox = <<>> THEN "wait" ELSE "flush"]
    /\ UNCHANGED <<lease, client, proxies, toServer, app>>

DrainAwakes ==
    /\ drain.at = "wait" /\ drain.event
    /\ Flush
    /\ drain' = [drain EXCEPT !.at = "flush", !.event = FALSE]
    /\ UNCHANGED <<lease, client, proxies, toServer, app>>

-----------------------------------------------------------------------------
(* CdpProxy: the accept thread and the read threads                          *)

Clients(p) == {i \in Id : client[<<p, i>>].registered}
NextId(p, i) == \A j \in Id : client[<<p, j>>].at = "none" <=> i <= j

\* _accept_loop: the client is registered, then OPEN is sent and its thread started.
\* Whoever dials does so once the browser is ready, and a stop waits for one accept.
Accept(p) ==
    /\ lease.n = p /\ proxies[p].opening = 0
    /\ lease.phase \in {"ready", "detaching"}
    /\ \E i \in Id :
        /\ NextId(p, i)
        /\ client' = [client EXCEPT ![<<p, i>>].registered = TRUE, ![<<p, i>>].at = "accepted"]
        /\ proxies' = [proxies EXCEPT ![p].opening = i]
    /\ UNCHANGED <<lease, outbox, drain, toApp, toServer, app>>

\* while not self._stop.is_set()
ReadOn(s) == IF proxies[s[1]].stopped THEN "leaving" ELSE "read"

SendOpen(p) ==
    /\ proxies[p].opening # 0
    /\ EnqueueFrame(Mux("open", <<p, proxies[p].opening>>))
    /\ client' = [client EXCEPT ![<<p, proxies[p].opening>>].at = ReadOn(<<p, proxies[p].opening>>)]
    /\ proxies' = [proxies EXCEPT ![p].opening = 0]
    /\ UNCHANGED <<lease, toApp, toServer, app>>

\* The socket of a stream is open until _close_client or stop() closes it.
SocketOpen(s) == IF proxies[s[1]].stopped THEN s[2] \in proxies[s[1]].left
                                          ELSE client[s].registered

\* _client_read_loop: recv returns
ReadChunk(s) ==
    /\ client[s].at = "read" /\ SocketOpen(s)
    /\ client[s].sent < MaxChunks
    /\ client' = [client EXCEPT ![s].at = "holds", ![s].sent = @ + 1]
    /\ UNCHANGED <<lease, proxies, outbox, drain, toApp, toServer, app>>

OutboxFull == Len(SelectSeq(outbox, LAMBDA f : f.kind \notin {"start", "stop"})) >= OutboxMax
Data(s) == [Mux("data", s) EXCEPT !.chunks = <<[of |-> s, n |-> client[s].sent]>>]

\* Mutant: a chunk that finds the outbox full is dropped.
SendChunkOrDrop(s) ==
    /\ client[s].at = "holds"
    /\ client' = [client EXCEPT ![s].at = ReadOn(s)]
    /\ IF OutboxFull THEN UNCHANGED <<outbox, drain>> ELSE EnqueueFrame(Data(s))
    /\ UNCHANGED <<lease, proxies, toApp, toServer, app>>

\* enqueue_binary of DATA
SendChunk(s) ==
    /\ client[s].at = "holds"
    /\ IF OutboxFull
       THEN client' = [client EXCEPT ![s].at = "overflow"] /\ UNCHANGED <<outbox, drain>>
       ELSE client' = [client EXCEPT ![s].at = ReadOn(s)] /\ EnqueueFrame(Data(s))
    /\ UNCHANGED <<lease, proxies, toApp, toServer, app>>

\* The thread has ended, and nothing of the client is left
Over == [NewClient EXCEPT !.at = "done"]

\* _close_client by the thread of s, of the client of that id of proxy p: it is
\* taken out and closed here, CLOSE follows; otherwise the thread is there at once
PopClient(s, p, otherwise) ==
    LET v == <<p, s[2]>> IN
    IF p # 0 /\ client[v].registered
    THEN client' = [c \in Stream |->
             [client[c] EXCEPT !.registered = @ /\ c # v,
                               !.at = IF c = s THEN "closing" ELSE @,
                               !.closes = IF c = s THEN p ELSE @]]
    ELSE client' = [client EXCEPT ![s] = otherwise]

\* enqueue_binary resets the stream: in the proxy that the worker has now
ResetStream(s) ==
    /\ client[s].at = "overflow"
    /\ PopClient(s, lease.proxy, [client[s] EXCEPT !.at = ReadOn(s)])
    /\ UNCHANGED <<lease, proxies, outbox, drain, toApp, toServer, app>>

\* recv returns nothing or fails, or stop() was called; the finally
ReaderEnds(s) ==
    /\ client[s].at \in {"read", "leaving"}
    /\ PopClient(s, s[1], Over)
    /\ UNCHANGED <<lease, proxies, outbox, drain, toApp, toServer, app>>

SendClose(s) ==
    /\ client[s].at = "closing"
    /\ EnqueueFrame(Mux("close", <<client[s].closes, s[2]>>))
    /\ client' = [client EXCEPT ![s] =
          IF SocketOpen(s) THEN [@ EXCEPT !.at = ReadOn(s), !.closes = 0] ELSE Over]
    /\ UNCHANGED <<lease, proxies, toApp, toServer, app>>

-----------------------------------------------------------------------------
(* The lease, as far as it starts and stops proxies                          *)

\* The worker has given the proxy of lease p up (_teardown_proxy)
GivenUp(p) == p <= lease.n /\ p # lease.proxy

\* CdpProxy.stop(), in the run's thread or in one of its own: all clients are
\* taken out
StopProxy(p) ==
    /\ GivenUp(p) /\ ~proxies[p].stopped
    /\ client' = [s \in Stream |-> [client[s] EXCEPT !.registered = @ /\ s[1] # p]]
    /\ proxies' = [proxies EXCEPT ![p].stopped = TRUE, ![p].left = Clients(p)]
    /\ UNCHANGED <<lease, outbox, drain, toApp, toServer, app>>

\* ... and closed one by one
StopClient(p) ==
    /\ \E i \in proxies[p].left :
        /\ \A j \in proxies[p].left : i <= j
        /\ proxies' = [proxies EXCEPT ![p].left = @ \ {i}]
        /\ EnqueueFrame(Mux("close", <<p, i>>))
    /\ UNCHANGED <<lease, client, toApp, toServer, app>>

\* request_browser_start
AcquireProxy ==
    /\ lease.phase = "idle" /\ lease.n < MaxLeases
    /\ lease' = [phase |-> "starting", n |-> lease.n + 1, proxy |-> lease.n + 1]
    /\ EnqueueFrame(Control("start", lease.n + 1))
    /\ UNCHANGED <<client, proxies, toApp, toServer, app>>

\* detach_cdp_proxy at the end of the run, under lease_lock
Detach ==
    /\ lease.phase = "ready"
    /\ lease' = [lease EXCEPT !.phase = "detaching", !.proxy = 0]
    /\ UNCHANGED <<client, proxies, outbox, drain, toApp, toServer, app>>

AllStopped(p) ==
    proxies[p].stopped /\ proxies[p].left = {} /\ proxies[p].opening = 0

\* request_browser_stop, once the detach has joined the accept thread
StopAfterDetach ==
    /\ lease.phase = "detaching"
    /\ AllStopped(lease.n)
    /\ lease' = [lease EXCEPT !.phase = "stopping"]
    /\ EnqueueFrame(Control("stop", lease.n))
    /\ UNCHANGED <<client, proxies, toApp, toServer, app>>

\* request_browser_stop of a start that failed: the proxy is still at work
StopFailedStart ==
    /\ lease.phase \in {"starting", "ready"}
    /\ lease' = [lease EXCEPT !.phase = "stopping"]
    /\ EnqueueFrame(Control("stop", lease.n))
    /\ UNCHANGED <<client, proxies, toApp, toServer, app>>

-----------------------------------------------------------------------------
(* What the server receives                                                  *)

FromApp(kind) ==
    /\ toServer # <<>> /\ Head(toServer).kind = kind
    /\ toServer' = Tail(toServer)
    /\ UNCHANGED <<toApp, app>>

\* handle_control_message
OnBrowserReady ==
    /\ FromApp("ready")
    /\ lease' = [lease EXCEPT !.phase = IF @ = "starting" THEN "ready" ELSE @]
    /\ UNCHANGED <<client, proxies, outbox, drain>>

\* _release_lease_locked: a thread of its own stops the proxy that is left
OnBrowserStopped ==
    /\ FromApp("stopped")
    /\ lease' = IF lease.phase = "stopping" THEN [lease EXCEPT !.phase = "idle", !.proxy = 0]
                ELSE lease
    /\ UNCHANGED <<client, proxies, outbox, drain>>

\* handle_binary, CdpProxy.handle_mux_frame
Known(i) == lease.proxy # 0 /\ client[<<lease.proxy, i>>].registered
OnData ==
    /\ FromApp("data")
    /\ LET f == Head(toServer)  s == <<lease.proxy, f.id>> IN
        \/ /\ ~Known(f.id)
           /\ UNCHANGED <<client, outbox, drain>>
        \/ /\ Known(f.id)
           /\ client' = [client EXCEPT ![s].got = @ \o f.chunks]
           /\ UNCHANGED <<outbox, drain>>
        \/ /\ Known(f.id)       \* the writer's queue is full
           /\ client' = [client EXCEPT ![s].registered = FALSE]
           /\ EnqueueFrame(Mux("close", s))
    /\ UNCHANGED <<lease, proxies>>

OnClose ==
    /\ FromApp("close")
    /\ client' = IF Known(Head(toServer).id)
                 THEN [client EXCEPT ![<<lease.proxy, Head(toServer).id>>].registered = FALSE]
                 ELSE client
    /\ UNCHANGED <<lease, proxies, outbox, drain>>

-----------------------------------------------------------------------------
(* The app: worker_ws.c, and runtime.c for start and stop                    *)

FromServer(kind) ==
    /\ toApp # <<>> /\ Head(toApp).kind = kind
    /\ toApp' = Tail(toApp)
    /\ UNCHANGED <<lease, client, proxies, outbox, drain>>

Tell(kind, i, chunks) == toServer' = Append(toServer, [kind |-> kind, id |-> i, chunks |-> chunks])
Silent == UNCHANGED toServer

Named(i) == {ch \in app.channels : ch.id = i}       \* find_channel
Others(i) == app.channels \ Named(i)

AppStart ==
    /\ FromServer("start")
    /\ app' = [app EXCEPT !.chrome = "starting"]
    /\ Silent

\* Within the time Chrome takes to start, the threads of the proxy before end
\* and what they sent arrives.
Settled ==
    /\ \A s \in Stream : s[1] < lease.n => client[s].at \in {"none", "done"}
    /\ \A p \in Lease : p < lease.n => AllStopped(p)
    /\ \A i \in DOMAIN outbox : outbox[i].of = lease.n
    /\ \A i \in DOMAIN toApp : toApp[i].of = lease.n

\* flush_chrome_result: the channels of the browser before are closed, unannounced
AppReady ==
    /\ app.chrome = "starting" /\ (LateThreads \/ Settled)
    /\ app' = [chrome |-> "up", channels |-> {}]
    /\ Tell("ready", 0, <<>>)
    /\ UNCHANGED <<lease, client, proxies, outbox, drain, toApp>>

\* stop_browser
AppStop ==
    /\ FromServer("stop")
    /\ app' = [chrome |-> "down", channels |-> {}]
    /\ Tell("stopped", 0, <<>>)

\* handle_mux_frame of OPEN: a channel that is there is taken over, and Chrome is
\* dialled, which may fail at once
AppOpen ==
    /\ FromServer("open")
    /\ LET f == Head(toApp)
           ch == [id |-> f.id, of |-> <<f.of, f.id>>, connecting |-> TRUE,
                  heard |-> <<>>, replies |-> 0]
       IN  \/ /\ Named(f.id) # {} \/ Cardinality(app.channels) < MaxChannels
              /\ app' = [app EXCEPT !.channels = Others(f.id) \cup {ch}]
              /\ Silent
           \/ /\ app.chrome # "up"
              /\ app' = [app EXCEPT !.channels = Others(f.id)]
              /\ Tell("close", f.id, <<>>)
           \/ /\ Named(f.id) = {} /\ Cardinality(app.channels) >= MaxChannels
              /\ UNCHANGED app
              /\ Tell("close", f.id, <<>>)

\* fail_channel_open and close_channel: the socket is gone, the server is told
CloseChannel(ch) ==
    /\ app' = [app EXCEPT !.channels = @ \ {ch}]
    /\ Tell("close", ch.id, <<>>)

\* complete_chrome_connect, flush_channel_pending
AppConnected ==
    /\ \E ch \in app.channels :
        /\ ch.connecting
        /\ \/ /\ app.chrome = "up"
              /\ app' = [app EXCEPT !.channels = Others(ch.id) \cup {[ch EXCEPT !.connecting = FALSE]}]
              /\ Silent
           \/ CloseChannel(ch)
    /\ UNCHANGED <<lease, client, proxies, outbox, drain, toApp>>

\* handle_mux_frame of DATA: kept for a channel that is connecting, else sent
AppData ==
    /\ FromServer("data")
    /\ LET f == Head(toApp) IN
        \/ /\ Named(f.id) = {}
           /\ UNCHANGED app /\ Silent
        \/ \E ch \in Named(f.id) :
            \/ /\ ch.connecting => Len(ch.heard) + Len(f.chunks) <= PendingMax
               /\ app' = [app EXCEPT !.channels =
                             Others(f.id) \cup {[ch EXCEPT !.heard = @ \o f.chunks]}]
               /\ Silent
            \/ /\ ch.connecting => Len(ch.heard) + Len(f.chunks) > PendingMax
               /\ CloseChannel(ch)

AppClose ==
    /\ FromServer("close")
    /\ app' = [app EXCEPT !.channels = Others(Head(toApp).id)]
    /\ Silent

\* pump_cdp_channel: Chrome sends, or closes the socket
AppPumps ==
    /\ \E ch \in app.channels :
        /\ ~ch.connecting
        /\ \/ /\ ch.replies < MaxReplies
              /\ app' = [app EXCEPT !.channels = Others(ch.id) \cup {[ch EXCEPT !.replies = @ + 1]}]
              /\ Tell("data", ch.id, <<[of |-> ch.of, n |-> ch.replies + 1]>>)
           \/ CloseChannel(ch)
    /\ UNCHANGED <<lease, client, proxies, outbox, drain, toApp>>

TunnelNext ==
    \/ Wake \/ DrainFlushes \/ DrainRechecks \/ DrainAwakes
    \/ \E p \in Lease : Accept(p) \/ SendOpen(p) \/ StopProxy(p) \/ StopClient(p)
    \/ \E s \in Stream :
        ReadChunk(s) \/ SendChunk(s) \/ ResetStream(s) \/ ReaderEnds(s) \/ SendClose(s)
    \/ AcquireProxy \/ Detach \/ StopAfterDetach \/ StopFailedStart
    \/ OnBrowserReady \/ OnBrowserStopped \/ OnData \/ OnClose
    \/ AppStart \/ AppReady \/ AppStop \/ AppOpen \/ AppConnected \/ AppData \/ AppClose
    \/ AppPumps

TunnelSpec == TunnelInit /\ [][TunnelNext]_tunnelVars

-----------------------------------------------------------------------------
\* Whatever was refused, merged or cut off, one end of a stream receives what the
\* other end of the same stream has sent, in its order: nothing of another client
\* or lease, and no chunk is missing before another (once the worker has given its
\* proxy up a stream may lose some: nobody is left to reset it).
InOrder(chunks, s) ==
    /\ \A j \in DOMAIN chunks : chunks[j].of = s /\ chunks[j].n >= j
    /\ \A j, k \in DOMAIN chunks : j < k => chunks[j].n < chunks[k].n
Whole(chunks) == \A j \in DOMAIN chunks : chunks[j].n = j
StreamsAreNotMixed ==
    /\ \A ch \in app.channels :
        InOrder(ch.heard, ch.of) /\ (ch.of[1] = lease.proxy => Whole(ch.heard))
    /\ \A s \in Stream : InOrder(client[s].got, s) /\ Whole(client[s].got)

\* No thread is between two steps, nothing is on the wire, and the event loop sleeps.
AtRest ==
    /\ drain.at = "wait" /\ ~drain.event /\ ~drain.scheduled
    /\ toApp = <<>> /\ toServer = <<>>
    /\ lease.phase \in {"idle", "ready"}
    /\ \A p \in Lease : proxies[p].opening = 0 /\ (GivenUp(p) => AllStopped(p))
    /\ \A s \in Stream :
        client[s].at \in {"none", "done"} \/ (client[s].at = "read" /\ SocketOpen(s))
    /\ \A ch \in app.channels : ~ch.connecting

\* At rest nothing sleeps in the outbox, and the two ends agree: the app holds a
\* socket to Chrome for every client of the proxy and for no other.
RestingEndsAgree ==
    AtRest =>
        /\ outbox = <<>>
        /\ {ch.of : ch \in app.channels} =
               {s \in Stream : s[1] = lease.proxy /\ client[s].registered}
==============================================================================
