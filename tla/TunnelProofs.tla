---------------------------- MODULE TunnelProofs -----------------------------
(*****************************************************************************)
(* Theorems about CdpTunnel, for any number of leases, clients and chunks    *)
(* and buffers of any size, if the threads of a stopped proxy end while the  *)
(* next Chrome starts (~LateThreads): the two ends of a stream read what     *)
(* the other end of the same stream has sent, and at rest they agree on the  *)
(* streams there are.                                                        *)
(*                                                                           *)
(* The invariant is TunnelInv. Its first part, Base, is about the clients,   *)
(* the proxies and the lease as a whole; the others are about one stream     *)
(* each: the order of its chunks, that none is missing before another, what  *)
(* its client gets, and what its two ends and the queues between them know   *)
(* of it.                                                                    *)
(*****************************************************************************)
EXTENDS TunnelQueueProofs

-----------------------------------------------------------------------------
(* The invariant, first part: what has which form, and how the clients, the  *)
(* proxies and the lease hang together                                       *)

Shape ==
    /\ lease \in [n : 0..MaxLeases, proxy : 0..MaxLeases,
                  phase : {"idle", "starting", "ready", "detaching", "stopping"}]
    /\ client \in [Stream -> Client]
    /\ proxies \in [Lease -> Proxy]
    /\ toApp \in Seq(SoundFrame) /\ outbox \in Seq(Enqueued) /\ toServer \in Seq(SoundAnswer)
    /\ drain \in [at : {"flush", "recheck", "wait"}, event : BOOLEAN,
                  pending : BOOLEAN, scheduled : BOOLEAN]
    /\ app \in [chrome : {"down", "starting", "up"}, channels : SUBSET Channel]
    /\ \A ch \in app.channels : ch.of[2] = ch.id
    /\ \A ch, ch2 \in app.channels : ch.id = ch2.id => ch = ch2

LeaseSound ==
    /\ lease.proxy \in {0, lease.n}
    /\ lease.phase \in {"starting", "ready"} => lease.proxy = lease.n
    /\ lease.phase \in {"idle", "detaching"} => lease.proxy = 0
    /\ lease.phase # "idle" => lease.n # 0

ClientSound(s) ==
    /\ client[s].at = "none" => client[s] = NewClient
    /\ s[1] > lease.n => client[s].at = "none"
    /\ lease.phase = "starting" /\ s[1] = lease.n => client[s].at = "none"
    /\ client[s].registered => client[s].at \notin {"none", "done", "closing"}
    /\ client[s].at = "accepted" <=> proxies[s[1]].opening = s[2]
    /\ client[s].at = "accepted" => client[s].sent = 0
    /\ client[s].at = "holds" => client[s].sent # 0
    /\ client[s].at = "closing" => client[s].closes = s[1]

ProxySound(p) ==
    /\ p > lease.n => proxies[p] = [opening |-> 0, stopped |-> FALSE, left |-> {}]
    /\ proxies[p].stopped => GivenUp(p)
    /\ proxies[p].left # {} => proxies[p].stopped
    /\ \A i \in proxies[p].left : client[<<p, i>>].at # "none"

ThreadsSound ==
    /\ LeaseSound
    /\ \A s \in Stream : ClientSound(s)
    /\ \A p \in Lease : ProxySound(p)

\* One answer "ready" is on its way, behind all others
ReadyLast == \E r \in DOMAIN toServer :
    toServer[r].kind = "ready" /\ \A q \in DOMAIN toServer : q # r => q < r /\ toServer[q].kind # "ready"

\* Where the start and the stop of the current lease are
PhaseSound ==
    /\ app.chrome # "up" => \A ch \in app.channels : ch.connecting
    /\ Once(InTransit, "start") /\ Once(InTransit, "stop") /\ Once(toServer, "stopped")
    /\ lease.phase = "idle" =>
        /\ Lacks(InTransit, "start") /\ Lacks(InTransit, "stop") /\ app.chrome = "down"
        /\ Lacks(toServer, "ready") /\ Lacks(toServer, "stopped")
    /\ lease.phase = "starting" =>
        /\ Lacks(InTransit, "stop") /\ Lacks(toServer, "stopped")
        /\ app.chrome # "up" => Lacks(toServer, "ready")
        /\ app.chrome # "down" => Lacks(InTransit, "start")
        /\ app.chrome = "down" => ~Lacks(InTransit, "start")
        /\ app.chrome = "up" =>
              (\A kind : Lacks(InTransit, kind)) /\ app.channels = {} /\ ReadyLast
    /\ lease.phase \in {"ready", "detaching"} =>
        /\ Lacks(InTransit, "start") /\ Lacks(InTransit, "stop") /\ app.chrome = "up"
        /\ Lacks(toServer, "ready") /\ Lacks(toServer, "stopped")
    /\ lease.phase = "stopping" =>
        \/ /\ ~Lacks(InTransit, "stop") /\ Lacks(toServer, "stopped")
           /\ Precedes(InTransit, "start", "stop")
           /\ app.chrome # "down" => Lacks(InTransit, "start")
           /\ app.chrome = "down" => ~Lacks(InTransit, "start")
        \/ /\ Lacks(InTransit, "start") /\ Lacks(InTransit, "stop") /\ app.chrome = "down"
           /\ Precedes(toServer, "ready", "stopped")

\* Whatever is at work or on its way is of lease e
AllOf(e) ==
    /\ \A s \in Stream : s[1] # e => client[s].at \in {"none", "done"}
    /\ \A kind \in MuxKind, s \in Stream : Has(InTransit, kind, s) => s[1] = e
    /\ \A ch \in app.channels : ch.of[1] = e
    /\ \A p \in Lease : p # e => proxies[p].opening = 0 /\ proxies[p].left = {}
OneEra == \E e \in 0..lease.n : AllOf(e) /\ (app.chrome = "up" => e = lease.n)
OpenedBySomeone ==
    \A kind \in MuxKind, s \in Stream : Has(InTransit, kind, s) => client[s].at # "none"

Base == Shape /\ ThreadsSound /\ PhaseSound /\ OneEra /\ OpenedBySomeone

-----------------------------------------------------------------------------
(* What the steps do to the queues                                           *)

LEMMA ClientFrames ==
    ASSUME NEW s \in Stream
    PROVE  /\ Mux("open", s) \in Enqueued /\ Mux("close", s) \in Enqueued
           /\ \A kind : Mux(kind, s).kind = kind /\ Tag(Mux(kind, s)) = s /\ Mux(kind, s).chunks = <<>>
<1>1. s[1] \in Lease /\ s[2] \in Id /\ s = <<s[1], s[2]>>
  BY DEF Stream
<1>2. <<>> \in Seq(Chunk) /\ Len(<<>>) = 0
  OBVIOUS
<1>. QED BY <1>1, <1>2 DEF Mux, Enqueued, SoundFrame, Frame, MuxKind, Tag

LEMMA DataFrames ==
    ASSUME Shape, NEW s \in Stream
    PROVE  /\ Data(s) \in Enqueued /\ Data(s).kind = "data" /\ Tag(Data(s)) = s
           /\ \A t, n : Holds(Data(s), t, n) <=> t = s /\ n = client[s].sent
           /\ \A t : Rising(Data(s), t)
<1>1. s[1] \in Lease /\ s[2] \in Id /\ s = <<s[1], s[2]>>
  BY DEF Stream
<1>2. client[s].sent \in Nat
  BY DEF Shape, Client
<1>. DEFINE c == [of |-> s, n |-> client[s].sent]
<1>3. c \in Chunk /\ c.of = s /\ c.n = client[s].sent
  BY <1>2 DEF Chunk
<1>4. Data(s) = [kind |-> "data", id |-> s[2], of |-> s[1], chunks |-> <<c>>]
  BY DEF Data, Mux
<1>. HIDE DEF c
<1>5. <<c>> \in Seq(Chunk) /\ Len(<<c>>) = 1 /\ DOMAIN <<c>> = {1} /\ <<c>>[1] = c
  BY <1>3
<1>6. Data(s).kind = "data" /\ Tag(Data(s)) = s /\ Data(s).chunks = <<c>>
  BY <1>1, <1>4 DEF Tag
<1>7. Data(s) \in Enqueued
  BY <1>1, <1>3, <1>4, <1>5 DEF Enqueued, SoundFrame, Frame, MuxKind, Tag
<1>8. \A t, n : Holds(Data(s), t, n) <=> t = s /\ n = client[s].sent
  BY <1>3, <1>5, <1>6 DEF Holds
<1>9. \A t : Rising(Data(s), t)
  BY <1>5, <1>6 DEF Rising
<1>. QED BY <1>6, <1>7, <1>8, <1>9

LEMMA ControlFrames ==
    ASSUME NEW p \in Lease, NEW kind \in {"start", "stop"}
    PROVE  Control(kind, p) \in Enqueued /\ Control(kind, p).kind = kind /\ Control(kind, p).chunks = <<>>
<1>1. <<>> \in Seq(Chunk) /\ Len(<<>>) = 0
  OBVIOUS
<1>. QED BY <1>1 DEF Control, Enqueued, SoundFrame, Frame, MuxKind, Tag

LEMMA Sent ==
    ASSUME Shape, NEW f \in Enqueued, EnqueueFrame(f), toApp' = toApp
    PROVE  /\ outbox' \in Seq(Enqueued)
           /\ drain' \in [at : {"flush", "recheck", "wait"}, event : BOOLEAN,
                          pending : BOOLEAN, scheduled : BOOLEAN]
           /\ Grown(InTransit, InTransit', f)
<1>1. toApp \in Seq(SoundFrame) /\ outbox \in Seq(Enqueued)
  BY DEF Shape
<1>2. Append(outbox, f) \in Seq(Enqueued) /\ Grown(toApp \o outbox, toApp \o Append(outbox, f), f)
  BY <1>1, EnqueueGrows
<1>3. drain' \in [at : {"flush", "recheck", "wait"}, event : BOOLEAN,
                  pending : BOOLEAN, scheduled : BOOLEAN]
  BY DEF Shape, EnqueueFrame, Signalled
<1>. QED BY <1>2, <1>3 DEF EnqueueFrame, InTransit

LEMMA Taken ==
    ASSUME Shape, NEW kind, FromServer(kind)
    PROVE  /\ toApp' \in Seq(SoundFrame) /\ Head(toApp) \in SoundFrame /\ Head(toApp).kind = kind
           /\ Shrunk(InTransit, InTransit', Head(toApp))
<1>1. toApp \in Seq(SoundFrame) /\ outbox \in Seq(Enqueued) /\ toApp # <<>>
  BY DEF Shape, FromServer
<1>2. /\ Tail(toApp) \in Seq(SoundFrame) /\ Head(toApp) \in SoundFrame
      /\ Shrunk(toApp \o outbox, Tail(toApp) \o outbox, Head(toApp))
  BY <1>1, TakingShrinks
<1>. QED BY <1>2 DEF FromServer, InTransit

LEMMA Heard ==
    ASSUME Shape, NEW kind, FromApp(kind)
    PROVE  /\ toServer' \in Seq(SoundAnswer) /\ Head(toServer) \in SoundAnswer
           /\ Head(toServer).kind = kind
           /\ Shrunk(toServer, toServer', Head(toServer))
<1>1. toServer \in Seq(SoundAnswer) /\ toServer # <<>>
  BY DEF Shape, FromApp
<1>2. Tail(toServer) \in Seq(SoundAnswer)
  BY <1>1, HeadTailProperties
<1>. QED BY <1>1, <1>2, TailShrinks DEF FromApp

LEMMA Answered ==
    ASSUME Shape, NEW kind, NEW i, NEW chunks,
           [kind |-> kind, id |-> i, chunks |-> chunks] \in SoundAnswer, Tell(kind, i, chunks)
    PROVE  /\ toServer' \in Seq(SoundAnswer)
           /\ Grown(toServer, toServer', [kind |-> kind, id |-> i, chunks |-> chunks])
<1>. DEFINE a == [kind |-> kind, id |-> i, chunks |-> chunks]
<1>1. toServer \in Seq(SoundAnswer) /\ a \in SoundAnswer /\ toServer' = Append(toServer, a)
  BY DEF Shape, Tell
<1>. HIDE DEF a
<1>. QED BY <1>1, AppendGrows, AppendProperties DEF a

LEMMA Announcements ==
    /\ \A i \in Id : [kind |-> "close", id |-> i, chunks |-> <<>>] \in SoundAnswer
    /\ [kind |-> "ready", id |-> 0, chunks |-> <<>>] \in SoundAnswer
    /\ [kind |-> "stopped", id |-> 0, chunks |-> <<>>] \in SoundAnswer
<1>1. <<>> \in Seq(Chunk)
  OBVIOUS
<1>. QED BY <1>1 DEF SoundAnswer, AppFrame, MuxKind

LEMMA Replies ==
    ASSUME NEW s \in Stream, NEW i \in Id, NEW n \in Nat, s[2] = i
    PROVE  [kind |-> "data", id |-> i, chunks |-> <<[of |-> s, n |-> n]>>] \in SoundAnswer
<1>1. <<[of |-> s, n |-> n]>> \in Seq(Chunk) /\ Len(<<[of |-> s, n |-> n]>>) = 1
      /\ <<[of |-> s, n |-> n]>>[1].of[2] = i
  BY DEF Chunk
<1>. QED BY <1>1 DEF SoundAnswer, AppFrame, MuxKind

LEMMA TransitIs ==
    ASSUME Shape
    PROVE  /\ InTransit \in Seq(SoundFrame) /\ DOMAIN InTransit = 1..Len(InTransit) /\ Len(InTransit) \in Nat
           /\ \A q \in DOMAIN toApp : \E r \in DOMAIN InTransit : InTransit[r] = toApp[q]
           /\ \A q \in DOMAIN outbox : \E r \in DOMAIN InTransit : InTransit[r] = outbox[q]
           /\ \A r \in DOMAIN InTransit : \/ \E q \in DOMAIN toApp : InTransit[r] = toApp[q]
                                          \/ \E q \in DOMAIN outbox : InTransit[r] = outbox[q]
<1>1. Enqueued \subseteq SoundFrame /\ toApp \in Seq(SoundFrame) /\ outbox \in Seq(Enqueued)
  BY DEF Enqueued, Shape
<1>2. outbox \in Seq(SoundFrame)
  BY <1>1, WiderSeq
<1>3. PICK x, y : x = toApp /\ y = outbox
  OBVIOUS
<1>. DEFINE Q == x \o y
            n == Len(x)
            m == Len(y)
<1>4. /\ n \in Nat /\ m \in Nat /\ Q \in Seq(SoundFrame) /\ DOMAIN Q = 1..(n + m)
      /\ DOMAIN x = 1..n /\ DOMAIN y = 1..m
      /\ \A i \in 1..n : Q[i] = x[i]
      /\ \A i \in 1..m : Q[n + i] = y[i]
  BY <1>1, <1>2, <1>3, Joint
<1>5. Len(Q) \in Nat /\ DOMAIN Q = 1..Len(Q)
  BY <1>4, LenProperties
<1>. HIDE DEF Q, n, m
<1>6. ASSUME NEW q \in DOMAIN x PROVE \E r \in DOMAIN Q : Q[r] = x[q]
  <2>1. q \in DOMAIN Q /\ Q[q] = x[q]
    BY <1>4
  <2>. QED BY <2>1
<1>7. ASSUME NEW q \in DOMAIN y PROVE \E r \in DOMAIN Q : Q[r] = y[q]
  <2>1. n + q \in DOMAIN Q /\ Q[n + q] = y[q]
    BY <1>4
  <2>. QED BY <2>1
<1>8. ASSUME NEW r \in DOMAIN Q PROVE (\E q \in DOMAIN x : Q[r] = x[q]) \/ (\E q \in DOMAIN y : Q[r] = y[q])
  <2>1. CASE r \in 1..n
    BY <2>1, <1>4
  <2>2. CASE r \notin 1..n
    <3>1. r - n \in 1..m /\ r = n + (r - n)
      BY <2>2, <1>4
    <3>. QED BY <3>1, <1>4
  <2>. QED BY <2>1, <2>2
<1>9. Q = InTransit
  BY <1>3 DEF InTransit, Q
<1>. QED BY <1>3, <1>4, <1>5, <1>6, <1>7, <1>8, <1>9

LEMMA FrameTags ==
    ASSUME NEW f \in SoundFrame, f.kind \in MuxKind
    PROVE  Tag(f) \in Stream /\ Tag(f)[1] = f.of /\ Tag(f)[2] = f.id
BY DEF SoundFrame, Frame, Tag, Stream

\* The chunks of a frame are of the stream of the frame, which carries DATA.
LEMMA HeldBy ==
    ASSUME NEW f \in SoundFrame, NEW s, NEW n, Holds(f, s, n)
    PROVE  f.kind = "data" /\ Tag(f) = s /\ s \in Stream /\ n \in Nat
<1>1. PICK k \in DOMAIN f.chunks : f.chunks[k].of = s /\ f.chunks[k].n = n
  BY DEF Holds
<1>2. f.chunks \in Seq(Chunk) /\ (f.kind # "data" => f.chunks = <<>>) /\ f.chunks[k].of = Tag(f)
  BY <1>1 DEF SoundFrame, Frame
<1>3. f.chunks[k] \in Chunk
  <2>1. k \in 1..Len(f.chunks)
    BY <1>1, <1>2, LenProperties
  <2>. QED BY <1>2, <2>1, ElementOfSeq
<1>4. f.kind = "data"
  <2>1. f.chunks # <<>>
    BY <1>1
  <2>. QED BY <1>2, <2>1
<1>. QED BY <1>1, <1>2, <1>3, <1>4 DEF Chunk

LEMMA CarriedOnes ==
    ASSUME Shape, NEW s, NEW n, Carries(InTransit, s, n)
    PROVE  Has(InTransit, "data", s) /\ n \in Nat /\ s \in Stream
<1>1. PICK q \in DOMAIN InTransit : Holds(InTransit[q], s, n)
  BY DEF Carries
<1>2. InTransit[q] \in SoundFrame
  BY TransitIs, ElementOfSeq
<1>. QED BY <1>1, <1>2, HeldBy DEF Has

LEMMA OutboxHasOneOwner == ASSUME Shape, OneEra PROVE OneOwner(outbox)
<1>1. PICK e \in 0..lease.n : AllOf(e)
  BY DEF OneEra
<1>2. ASSUME NEW q \in DOMAIN outbox, outbox[q].kind = "data" PROVE outbox[q].of = e
  <2>1. outbox \in Seq(Enqueued)
    BY DEF Shape
  <2>2. outbox[q] \in SoundFrame
    BY <2>1, LenProperties, ElementOfSeq DEF Enqueued
  <2>3. PICK r \in DOMAIN InTransit : InTransit[r] = outbox[q]
    BY TransitIs
  <2>4. Tag(outbox[q]) \in Stream /\ Tag(outbox[q])[1] = outbox[q].of
    BY <1>2, <2>2, FrameTags DEF MuxKind
  <2>5. Has(InTransit, "data", Tag(outbox[q]))
    BY <1>2, <2>3 DEF Has
  <2>6. "data" \in MuxKind
    BY DEF MuxKind
  <2>. QED BY <1>1, <2>4, <2>5, <2>6 DEF AllOf
<1>. QED BY <1>2 DEF OneOwner

LEMMA Flushed ==
    ASSUME Shape, OneEra, Flush
    PROVE  /\ toApp' \in Seq(SoundFrame) /\ outbox' \in Seq(Enqueued)
           /\ Merged(InTransit, InTransit')
<1>1. toApp \in Seq(SoundFrame) /\ outbox \in Seq(Enqueued) /\ OneOwner(outbox)
  BY OutboxHasOneOwner DEF Shape
<1>2. BatchItems \in Nat /\ Len(outbox) \in Nat
  BY <1>1, LenProperties, TunnelAssumption
<1>. DEFINE n == IF Len(outbox) < BatchItems THEN Len(outbox) ELSE BatchItems
<1>3. n \in 0..Len(outbox) /\ n \in Nat
  BY <1>2
<1>4. NextBatch = SubSeq(outbox, 1, n)
  BY DEF NextBatch
<1>. HIDE DEF n
<1>5. Len(NextBatch) = n
  <2>1. \A i \in 1..n : outbox[i] \in Enqueued
    <3>1. \A i \in 1..n : i \in 1..Len(outbox)
      BY <1>2, <1>3
    <3>. QED BY <1>1, <3>1, ElementOfSeq
  <2>2. Len(SubSeq(outbox, 1, n)) = IF 1 <= n THEN n - 1 + 1 ELSE 0
    BY <2>1, <1>3, SubSeqProperties
  <2>. QED BY <1>3, <1>4, <2>2
<1>6. /\ toApp \o CoalescedItems(SubSeq(outbox, 1, n)) \in Seq(SoundFrame)
      /\ SubSeq(outbox, n + 1, Len(outbox)) \in Seq(Enqueued)
      /\ Merged(toApp \o outbox,
                (toApp \o CoalescedItems(SubSeq(outbox, 1, n))) \o SubSeq(outbox, n + 1, Len(outbox)))
  BY <1>1, <1>3, FlushMerges
<1>. QED BY <1>4, <1>5, <1>6 DEF Flush, InTransit

-----------------------------------------------------------------------------
(* What the steps do to the clients                                          *)

OnlyClient(s) == client' \in [Stream -> Client] /\ \A t \in Stream : t # s => client'[t] = client[t]
SameProxies == proxies' = proxies

LEMMA ClientSet ==
    ASSUME Shape, NEW s \in Stream, NEW c \in Client, client' = [client EXCEPT ![s] = c]
    PROVE  OnlyClient(s) /\ client'[s] = c
BY DEF Shape, OnlyClient

LEMMA Accepted ==
    ASSUME Shape, NEW p \in Lease, Accept(p)
    PROVE  \E s \in Stream :
             /\ s[1] = p /\ lease.n = p /\ proxies[p].opening = 0 /\ lease.phase \in {"ready", "detaching"}
             /\ client[s].at = "none"
             /\ OnlyClient(s) /\ client'[s] = [client[s] EXCEPT !.registered = TRUE, !.at = "accepted"]
             /\ proxies' = [proxies EXCEPT ![p].opening = s[2]]
             /\ UNCHANGED <<lease, outbox, drain, toApp, toServer, app>>
<1>1. PICK i \in Id : /\ NextId(p, i)
                      /\ client' = [client EXCEPT ![<<p, i>>].registered = TRUE,
                                                  ![<<p, i>>].at = "accepted"]
                      /\ proxies' = [proxies EXCEPT ![p].opening = i]
  BY DEF Accept
<1>2. PICK s \in Stream : s = <<p, i>> /\ s[1] = p /\ s[2] = i
  <2>1. <<p, i>> \in Stream
    BY DEF Stream
  <2>. QED BY <2>1
<1>3. client[s].at = "none"
  <2>1. i <= i
    BY TunnelAssumption DEF Id
  <2>. QED BY <1>1, <1>2, <2>1 DEF NextId
<1>4. client[s] \in Client
  BY DEF Shape
<1>. DEFINE c == [client[s] EXCEPT !.registered = TRUE, !.at = "accepted"]
<1>5. c \in Client
  BY <1>4 DEF Client
<1>6. client' = [client EXCEPT ![s] = c]
  BY <1>1, <1>2, <1>4 DEF Shape
<1>7. OnlyClient(s) /\ client'[s] = c
  BY <1>5, <1>6, ClientSet
<1>. QED BY <1>1, <1>2, <1>3, <1>7 DEF Accept

DrainTyped == drain' \in [at : {"flush", "recheck", "wait"}, event : BOOLEAN,
                          pending : BOOLEAN, scheduled : BOOLEAN]

\* A frame f goes to the outbox, or nothing does
Sends(f) == outbox' \in Seq(Enqueued) /\ DrainTyped /\ Grown(InTransit, InTransit', f)

LEMMA SendsFrame ==
    ASSUME Shape, NEW f \in Enqueued, EnqueueFrame(f), toApp' = toApp PROVE Sends(f)
BY Sent DEF Sends, DrainTyped

LEMMA OpenSent ==
    ASSUME Base, NEW p \in Lease, SendOpen(p)
    PROVE  \E s \in Stream :
             /\ s[1] = p /\ proxies[p].opening = s[2] /\ client[s].at = "accepted"
             /\ OnlyClient(s) /\ client'[s] = [client[s] EXCEPT !.at = ReadOn(s)]
             /\ proxies' = [proxies EXCEPT ![p].opening = 0]
             /\ Sends(Mux("open", s))
             /\ UNCHANGED <<lease, toApp, toServer, app>>
<1>0. Shape
  BY DEF Base
<1>1. proxies[p].opening \in Id
  BY <1>0 DEF SendOpen, Shape, Proxy
<1>2. PICK s \in Stream : s = <<p, proxies[p].opening>> /\ s[1] = p /\ s[2] = proxies[p].opening
  <2>1. <<p, proxies[p].opening>> \in Stream
    BY <1>1 DEF Stream
  <2>. QED BY <2>1
<1>3. client[s].at = "accepted"
  BY <1>2 DEF Base, ThreadsSound, ClientSound
<1>4. client[s] \in Client
  BY <1>0 DEF Shape
<1>. DEFINE c == [client[s] EXCEPT !.at = ReadOn(s)]
<1>5. c \in Client
  BY <1>4 DEF Client, ReadOn
<1>6. client' = [client EXCEPT ![s] = c]
  BY <1>2, <1>4 DEF SendOpen
<1>7. OnlyClient(s) /\ client'[s] = c
  BY <1>0, <1>5, <1>6, ClientSet
<1>8. Sends(Mux("open", s))
  <2>1. EnqueueFrame(Mux("open", s)) /\ toApp' = toApp
    BY <1>2 DEF SendOpen
  <2>2. Mux("open", s) \in Enqueued
    BY ClientFrames
  <2>. QED BY <1>0, <2>1, <2>2, SendsFrame
<1>. QED BY <1>2, <1>3, <1>7, <1>8 DEF SendOpen

LEMMA ChunkRead ==
    ASSUME Shape, NEW s \in Stream, ReadChunk(s)
    PROVE  /\ client[s].at = "read" /\ SocketOpen(s)
           /\ OnlyClient(s)
           /\ client'[s] = [client[s] EXCEPT !.at = "holds", !.sent = client[s].sent + 1]
           /\ UNCHANGED <<lease, proxies, outbox, drain, toApp, toServer, app>>
<1>4. client[s] \in Client
  BY DEF Shape
<1>. DEFINE c == [client[s] EXCEPT !.at = "holds", !.sent = client[s].sent + 1]
<1>5. c \in Client
  <2>1. client[s].sent + 1 \in 0..MaxChunks
    BY <1>4, TunnelAssumption DEF ReadChunk, Client
  <2>. QED BY <1>4, <2>1 DEF Client
<1>6. client' = [client EXCEPT ![s] = c]
  BY <1>4 DEF ReadChunk
<1>7. OnlyClient(s) /\ client'[s] = c
  BY <1>5, <1>6, ClientSet
<1>. QED BY <1>7 DEF ReadChunk

LEMMA ChunkSent ==
    ASSUME Shape, NEW s \in Stream, SendChunk(s)
    PROVE  /\ client[s].at = "holds" /\ OnlyClient(s)
           /\ \/ /\ client'[s] = [client[s] EXCEPT !.at = "overflow"]
                 /\ UNCHANGED <<outbox, drain>>
              \/ /\ client'[s] = [client[s] EXCEPT !.at = ReadOn(s)]
                 /\ Sends(Data(s))
           /\ UNCHANGED <<lease, proxies, toApp, toServer, app>>
<1>4. client[s] \in Client
  BY DEF Shape
<1>1. CASE OutboxFull
  <2>. DEFINE c == [client[s] EXCEPT !.at = "overflow"]
  <2>1. c \in Client
    BY <1>4 DEF Client
  <2>2. client' = [client EXCEPT ![s] = c]
    BY <1>1, <1>4 DEF SendChunk
  <2>3. OnlyClient(s) /\ client'[s] = c
    BY <2>1, <2>2, ClientSet
  <2>. QED BY <1>1, <2>3 DEF SendChunk
<1>2. CASE ~OutboxFull
  <2>. DEFINE c == [client[s] EXCEPT !.at = ReadOn(s)]
  <2>1. c \in Client
    BY <1>4 DEF Client, ReadOn
  <2>2. client' = [client EXCEPT ![s] = c]
    BY <1>2, <1>4 DEF SendChunk
  <2>3. OnlyClient(s) /\ client'[s] = c
    BY <2>1, <2>2, ClientSet
  <2>4. EnqueueFrame(Data(s)) /\ toApp' = toApp /\ Data(s) \in Enqueued
    BY <1>2, DataFrames DEF SendChunk
  <2>5. Sends(Data(s))
    BY <2>4, SendsFrame
  <2>. QED BY <2>3, <2>5 DEF SendChunk
<1>. QED BY <1>1, <1>2

\* The proxy whose client a thread closes is that of its own stream.
LEMMA Popped ==
    ASSUME Base, NEW s \in Stream, client[s].at \notin {"none", "done"}, NEW p \in Lease \cup {0},
           NEW c \in Client, PopClient(s, p, c)
    PROVE  /\ OnlyClient(s)
           /\ \/ /\ client[s].registered
                 /\ client'[s] = [client[s] EXCEPT !.registered = FALSE, !.at = "closing", !.closes = s[1]]
              \/ client'[s] = c /\ (p = s[1] => ~client[s].registered)
<1>0. Shape /\ OneEra /\ \A t \in Stream : ClientSound(t)
  BY DEF Base, ThreadsSound
<1>1. client[s] \in Client
  BY <1>0 DEF Shape
<1>2. CASE p # 0 /\ client[<<p, s[2]>>].registered
  <2>1. PICK v \in Stream : v = <<p, s[2]>>
    BY <1>2 DEF Stream
  <2>2. PICK e : AllOf(e)
    BY <1>0 DEF OneEra
  <2>3. client[v].at \notin {"none", "done"}
    BY <1>0, <1>2, <2>1 DEF ClientSound
  <2>4. s[1] = e /\ v[1] = e
    BY <2>2, <2>3 DEF AllOf
  <2>5. v = s /\ p = s[1]
    BY <2>1, <2>4 DEF Stream
  <2>. DEFINE d == [client[s] EXCEPT !.registered = FALSE, !.at = "closing", !.closes = s[1]]
  <2>6. d \in Client
    BY <1>1 DEF Client, Stream
  <2>7. \A t \in Stream : t # s =>
            [client[t] EXCEPT !.registered = client[t].registered /\ t # v,
                              !.at = IF t = s THEN "closing" ELSE client[t].at,
                              !.closes = IF t = s THEN p ELSE client[t].closes] = client[t]
    <3>1. ASSUME NEW t \in Stream, t # s
          PROVE  [client[t] EXCEPT !.registered = client[t].registered /\ t # v,
                              !.at = IF t = s THEN "closing" ELSE client[t].at,
                              !.closes = IF t = s THEN p ELSE client[t].closes] = client[t]
      <4>1. client[t] \in Client
        BY <1>0 DEF Shape
      <4>2. (client[t].registered /\ t # v) = client[t].registered
        BY <3>1, <2>5, <4>1 DEF Client
      <4>. QED BY <3>1, <4>1, <4>2 DEF Client
    <3>. QED BY <3>1
  <2>8. client' = [t \in Stream |->
            [client[t] EXCEPT !.registered = client[t].registered /\ t # v,
                              !.at = IF t = s THEN "closing" ELSE client[t].at,
                              !.closes = IF t = s THEN p ELSE client[t].closes]]
    BY <1>2, <2>1 DEF PopClient
  <2>9. client'[s] = d
    BY <1>1, <2>5, <2>8 DEF Client
  <2>10. \A t \in Stream : t # s => client'[t] = client[t]
    BY <2>7, <2>8
  <2>11. client' \in [Stream -> Client]
    <3>1. \A t \in Stream : client[t] \in Client
      BY <1>0 DEF Shape
    <3>2. \A t \in Stream : client'[t] \in Client
      BY <2>6, <2>9, <2>10, <3>1, Zenon
    <3>. QED BY <2>8, <3>2
  <2>. QED BY <1>2, <2>1, <2>5, <2>9, <2>10, <2>11 DEF OnlyClient
<1>3. CASE ~(p # 0 /\ client[<<p, s[2]>>].registered)
  <2>1. client' = [client EXCEPT ![s] = c]
    BY <1>3 DEF PopClient
  <2>2. p = s[1] => ~client[s].registered
    <3>1. s = <<s[1], s[2]>> /\ s[1] \in Lease /\ s[1] # 0
      BY TunnelAssumption DEF Stream, Lease
    <3>. QED BY <1>3, <3>1
  <2>. QED BY <1>0, <2>1, <2>2, ClientSet
<1>. QED BY <1>2, <1>3

LEMMA StreamReset ==
    ASSUME Base, NEW s \in Stream, ResetStream(s)
    PROVE  /\ client[s].at = "overflow" /\ OnlyClient(s)
           /\ \/ /\ client[s].registered
                 /\ client'[s] = [client[s] EXCEPT !.registered = FALSE, !.at = "closing", !.closes = s[1]]
              \/ /\ client'[s] = [client[s] EXCEPT !.at = ReadOn(s)]
                 /\ lease.proxy = s[1] => ~client[s].registered
           /\ UNCHANGED <<lease, proxies, outbox, drain, toApp, toServer, app>>
<1>1. client[s] \in Client /\ lease.proxy \in 0..MaxLeases
  BY DEF Base, Shape
<1>2. lease.proxy \in Lease \cup {0}
  BY <1>1, TunnelAssumption DEF Lease
<1>3. [client[s] EXCEPT !.at = ReadOn(s)] \in Client
  BY <1>1 DEF Client, ReadOn
<1>4. PopClient(s, lease.proxy, [client[s] EXCEPT !.at = ReadOn(s)]) /\ client[s].at = "overflow"
  BY DEF ResetStream
<1>5. client[s].at \notin {"none", "done"}
  BY <1>4
<1>6. PICK p \in Lease \cup {0} : p = lease.proxy
  BY <1>2
<1>7. PICK c \in Client : c = [client[s] EXCEPT !.at = ReadOn(s)]
  BY <1>3
<1>8. PopClient(s, p, c)
  BY <1>4, <1>6, <1>7
<1>9. /\ OnlyClient(s)
      /\ \/ /\ client[s].registered
            /\ client'[s] = [client[s] EXCEPT !.registered = FALSE, !.at = "closing", !.closes = s[1]]
         \/ client'[s] = c /\ (p = s[1] => ~client[s].registered)
  BY <1>5, <1>8, Popped
<1>. QED BY <1>4, <1>6, <1>7, <1>9 DEF ResetStream

LEMMA OverIsClient == Over \in Client /\ ~Over.registered /\ Over.at = "done"
<1>1. <<>> \in Seq(Chunk) /\ 0 \in 0..MaxChunks
  BY TunnelAssumption
<1>4. NewClient \in Client
  BY <1>1 DEF Client, NewClient
<1>5. ~NewClient.registered
  BY DEF NewClient
<1>2. PICK c \in Client : c = NewClient /\ ~c.registered
  BY <1>4, <1>5
<1>3. Over = [c EXCEPT !.at = "done"]
  BY <1>2 DEF Over
<1>. QED BY <1>2, <1>3 DEF Client

LEMMA ReaderEnded ==
    ASSUME Base, NEW s \in Stream, ReaderEnds(s)
    PROVE  /\ client[s].at \in {"read", "leaving"} /\ OnlyClient(s)
           /\ \/ /\ client[s].registered
                 /\ client'[s] = [client[s] EXCEPT !.registered = FALSE, !.at = "closing", !.closes = s[1]]
              \/ client'[s] = Over /\ ~client[s].registered
           /\ UNCHANGED <<lease, proxies, outbox, drain, toApp, toServer, app>>
<1>1. Over \in Client
  BY OverIsClient
<1>2. s[1] \in Lease \cup {0}
  BY DEF Stream
<1>3. PopClient(s, s[1], Over) /\ client[s].at \in {"read", "leaving"}
  BY DEF ReaderEnds
<1>4. client[s].at \notin {"none", "done"}
  BY <1>3
<1>. QED BY <1>1, <1>2, <1>3, <1>4, Popped DEF ReaderEnds

LEMMA CloseSent ==
    ASSUME Base, NEW s \in Stream, SendClose(s)
    PROVE  /\ client[s].at = "closing" /\ OnlyClient(s)
           /\ \/ /\ SocketOpen(s) /\ ReadOn(s) = "leaving"
                 /\ client'[s] = [client[s] EXCEPT !.at = "leaving", !.closes = 0]
              \/ ~SocketOpen(s) /\ client'[s] = Over
           /\ Sends(Mux("close", s))
           /\ UNCHANGED <<lease, proxies, toApp, toServer, app>>
<1>0. Shape /\ client[s] \in Client /\ client[s].at = "closing"
  BY DEF Base, Shape, SendClose
<1>1. client[s].closes = s[1] /\ ~client[s].registered
  BY <1>0 DEF Base, ThreadsSound, ClientSound
<1>2. Sends(Mux("close", s))
  <2>1. <<client[s].closes, s[2]>> = s
    BY <1>1 DEF Stream
  <2>2. EnqueueFrame(Mux("close", s)) /\ toApp' = toApp /\ Mux("close", s) \in Enqueued
    BY <2>1, ClientFrames DEF SendClose
  <2>. QED BY <1>0, <2>2, SendsFrame
<1>3. CASE SocketOpen(s)
  <2>1. ReadOn(s) = "leaving"
    BY <1>1, <1>3 DEF SocketOpen, ReadOn
  <2>. DEFINE c == [client[s] EXCEPT !.at = "leaving", !.closes = 0]
  <2>2. c \in Client
    BY <1>0 DEF Client
  <2>3. client' = [client EXCEPT ![s] = c]
    BY <1>0, <1>3, <2>1 DEF SendClose
  <2>. QED BY <1>0, <1>2, <1>3, <2>1, <2>2, <2>3, ClientSet DEF SendClose
<1>4. CASE ~SocketOpen(s)
  <2>1. client' = [client EXCEPT ![s] = Over]
    BY <1>4 DEF SendClose
  <2>2. Over \in Client
    BY OverIsClient
  <2>. QED BY <1>0, <1>2, <1>4, <2>1, <2>2, ClientSet DEF SendClose
<1>. QED BY <1>3, <1>4

LEMMA ProxyStopped ==
    ASSUME Shape, NEW p \in Lease, StopProxy(p)
    PROVE  /\ GivenUp(p) /\ ~proxies[p].stopped
           /\ client' \in [Stream -> Client]
           /\ \A t \in Stream : client'[t] = IF t[1] = p THEN [client[t] EXCEPT !.registered = FALSE]
                                                         ELSE client[t]
           /\ proxies' = [proxies EXCEPT ![p] = [proxies[p] EXCEPT !.stopped = TRUE, !.left = Clients(p)]]
           /\ proxies' \in [Lease -> Proxy]
           /\ \A i \in Clients(p) : i \in Id /\ client[<<p, i>>].registered
           /\ UNCHANGED <<lease, outbox, drain, toApp, toServer, app>>
<1>1. \A t \in Stream : client[t] \in Client
  BY DEF Shape
<1>2. \A t \in Stream :
        [client[t] EXCEPT !.registered = client[t].registered /\ t[1] # p]
            = IF t[1] = p THEN [client[t] EXCEPT !.registered = FALSE] ELSE client[t]
  <2>1. TAKE t \in Stream
  <2>2. CASE t[1] = p
    <3>1. (client[t].registered /\ t[1] # p) = FALSE
      BY <2>2
    <3>. QED BY <2>2, <3>1
  <2>3. CASE t[1] # p
    <3>1. (client[t].registered /\ t[1] # p) = client[t].registered
      BY <1>1, <2>3 DEF Client
    <3>2. [client[t] EXCEPT !.registered = client[t].registered] = client[t]
      BY <1>1 DEF Client
    <3>. QED BY <2>3, <3>1, <3>2
  <2>. QED BY <2>2, <2>3
<1>3. client' = [t \in Stream |-> [client[t] EXCEPT !.registered = client[t].registered /\ t[1] # p]]
  BY DEF StopProxy
<1>4. \A t \in Stream : client'[t] = IF t[1] = p THEN [client[t] EXCEPT !.registered = FALSE]
                                                 ELSE client[t]
  BY <1>2, <1>3
<1>5. \A t \in Stream : [client[t] EXCEPT !.registered = FALSE] \in Client
  BY <1>1 DEF Client
<1>6. client' \in [Stream -> Client]
  <2>1. \A t \in Stream : client'[t] \in Client
    BY <1>1, <1>4, <1>5
  <2>. QED BY <1>3, <2>1
<1>7. proxies[p] \in Proxy /\ Clients(p) \in SUBSET Id
  BY DEF Shape, Clients
<1>8. [proxies[p] EXCEPT !.stopped = TRUE, !.left = Clients(p)] \in Proxy
  BY <1>7 DEF Proxy
<1>9. proxies' = [proxies EXCEPT ![p] = [proxies[p] EXCEPT !.stopped = TRUE, !.left = Clients(p)]]
  BY <1>7 DEF StopProxy, Shape
<1>10. proxies' \in [Lease -> Proxy]
  BY <1>8, <1>9 DEF Shape
<1>. QED BY <1>4, <1>6, <1>9, <1>10 DEF StopProxy, Clients

LEMMA ClientStopped ==
    ASSUME Base, NEW p \in Lease, StopClient(p)
    PROVE  \E s \in Stream :
             /\ s[1] = p /\ s[2] \in proxies[p].left /\ proxies[p].stopped
             /\ client[s].at # "none" /\ GivenUp(p)
             /\ proxies' = [proxies EXCEPT ![p].left = proxies[p].left \ {s[2]}]
             /\ proxies' \in [Lease -> Proxy]
             /\ Sends(Mux("close", s))
             /\ UNCHANGED <<lease, client, toApp, toServer, app>>
<1>0. Shape /\ ProxySound(p)
  BY DEF Base, ThreadsSound
<1>1. PICK i \in proxies[p].left : /\ proxies' = [proxies EXCEPT ![p].left = proxies[p].left \ {i}]
                                   /\ EnqueueFrame(Mux("close", <<p, i>>))
  BY DEF StopClient
<1>2. proxies[p] \in Proxy
  BY <1>0 DEF Shape
<1>3. i \in Id
  BY <1>2 DEF Proxy
<1>4. PICK s \in Stream : s = <<p, i>> /\ s[1] = p /\ s[2] = i
  <2>1. <<p, i>> \in Stream
    BY <1>3 DEF Stream
  <2>. QED BY <2>1
<1>5. [proxies[p] EXCEPT !.left = proxies[p].left \ {i}] \in Proxy
  BY <1>2 DEF Proxy
<1>6. proxies' \in [Lease -> Proxy]
  BY <1>0, <1>1, <1>5 DEF Shape
<1>7. Sends(Mux("close", s))
  BY <1>0, <1>1, <1>4, ClientFrames, SendsFrame DEF StopClient
<1>8. proxies[p].stopped /\ GivenUp(p) /\ client[s].at # "none"
  BY <1>0, <1>1, <1>4 DEF ProxySound
<1>. QED BY <1>1, <1>4, <1>6, <1>7, <1>8 DEF StopClient

KnownStream(s) == lease.proxy = s[1] /\ client[s].registered

LEMMA KnownIs ==
    ASSUME Shape, NEW i \in Id
    PROVE  /\ Known(i) => <<lease.proxy, i>> \in Stream /\ KnownStream(<<lease.proxy, i>>)
           /\ \A s \in Stream : KnownStream(s) /\ s[2] = i => Known(i) /\ s = <<lease.proxy, i>>
<1>1. lease.proxy \in 0..MaxLeases
  BY DEF Shape
<1>2. lease.proxy # 0 => lease.proxy \in Lease
  BY <1>1, TunnelAssumption DEF Lease
<1>3. \A s \in Stream : s = <<s[1], s[2]>> /\ s[1] \in Lease /\ s[1] # 0
  BY TunnelAssumption DEF Stream, Lease
<1>. QED BY <1>2, <1>3 DEF Known, KnownStream, Stream

AppSame == UNCHANGED <<toApp, app>>

LEMMA DataHeard ==
    ASSUME Base, OnData
    PROVE  /\ Head(toServer).kind = "data" /\ Head(toServer) \in SoundAnswer
           /\ toServer' \in Seq(SoundAnswer) /\ Shrunk(toServer, toServer', Head(toServer))
           /\ \/ /\ ~Known(Head(toServer).id)
                 /\ UNCHANGED <<client, outbox, drain>>
              \/ \E s \in Stream :
                   /\ KnownStream(s) /\ s[2] = Head(toServer).id
                   /\ OnlyClient(s)
                   /\ \/ /\ client'[s] = [client[s] EXCEPT !.got = client[s].got \o Head(toServer).chunks]
                         /\ UNCHANGED <<outbox, drain>>
                      \/ /\ client'[s] = [client[s] EXCEPT !.registered = FALSE]
                         /\ Sends(Mux("close", s))
           /\ UNCHANGED <<lease, proxies, toApp, app>>
<1>0. Shape /\ FromApp("data") /\ toApp' = toApp
  BY DEF Base, OnData, FromApp
<1>1. PICK f : f = Head(toServer)
  OBVIOUS
<1>2. /\ toServer' \in Seq(SoundAnswer) /\ f \in SoundAnswer /\ f.kind = "data"
      /\ Shrunk(toServer, toServer', f)
  BY <1>0, <1>1, Heard
<1>3. f.id \in Id /\ f.chunks \in Seq(Chunk)
  BY <1>2 DEF SoundAnswer, AppFrame, MuxKind
<1>4. CASE ~Known(f.id)
  BY <1>1, <1>2, <1>4 DEF OnData, FromApp
<1>5. CASE Known(f.id)
  <2>1. PICK s \in Stream : s = <<lease.proxy, f.id>> /\ KnownStream(s) /\ s[2] = f.id
    BY <1>0, <1>3, <1>5, KnownIs
  <2>2. client[s] \in Client
    BY <1>0 DEF Shape
  <2>3. \/ /\ client' = [client EXCEPT ![s].got = client[s].got \o f.chunks]
           /\ UNCHANGED <<outbox, drain>>
        \/ /\ client' = [client EXCEPT ![s].registered = FALSE]
           /\ EnqueueFrame(Mux("close", s))
    BY <1>1, <1>5, <2>1 DEF OnData
  <2>4. CASE client' = [client EXCEPT ![s].got = client[s].got \o f.chunks] /\ UNCHANGED <<outbox, drain>>
    <3>. DEFINE c == [client[s] EXCEPT !.got = client[s].got \o f.chunks]
    <3>1. client[s].got \o f.chunks \in Seq(Chunk)
      BY <1>3, <2>2, ConcatProperties DEF Client
    <3>2. c \in Client
      BY <2>2, <3>1 DEF Client
    <3>3. client' = [client EXCEPT ![s] = c]
      BY <2>2, <2>4 DEF Shape
    <3>4. OnlyClient(s) /\ client'[s] = c
      BY <1>0, <3>2, <3>3, ClientSet
    <3>. QED BY <1>1, <1>2, <2>1, <2>4, <3>4 DEF OnData, FromApp
  <2>5. CASE client' = [client EXCEPT ![s].registered = FALSE] /\ EnqueueFrame(Mux("close", s))
    <3>. DEFINE c == [client[s] EXCEPT !.registered = FALSE]
    <3>2. c \in Client
      BY <2>2 DEF Client
    <3>3. client' = [client EXCEPT ![s] = c]
      BY <2>2, <2>5 DEF Shape
    <3>4. OnlyClient(s) /\ client'[s] = c
      BY <1>0, <3>2, <3>3, ClientSet
    <3>5. Sends(Mux("close", s))
      BY <1>0, <2>5, ClientFrames, SendsFrame
    <3>. QED BY <1>1, <1>2, <2>1, <2>5, <3>4, <3>5 DEF OnData, FromApp
  <2>. QED BY <2>3, <2>4, <2>5
<1>. QED BY <1>4, <1>5

LEMMA CloseHeard ==
    ASSUME Base, OnClose
    PROVE  /\ Head(toServer).kind = "close" /\ Head(toServer) \in SoundAnswer
           /\ toServer' \in Seq(SoundAnswer) /\ Shrunk(toServer, toServer', Head(toServer))
           /\ \/ /\ ~Known(Head(toServer).id)
                 /\ UNCHANGED client
              \/ \E s \in Stream :
                   /\ KnownStream(s) /\ s[2] = Head(toServer).id
                   /\ OnlyClient(s)
                   /\ client'[s] = [client[s] EXCEPT !.registered = FALSE]
           /\ UNCHANGED <<lease, proxies, outbox, drain, toApp, app>>
<1>0. Shape /\ FromApp("close")
  BY DEF Base, OnClose
<1>1. PICK f : f = Head(toServer)
  OBVIOUS
<1>2. /\ toServer' \in Seq(SoundAnswer) /\ f \in SoundAnswer /\ f.kind = "close"
      /\ Shrunk(toServer, toServer', f)
  BY <1>0, <1>1, Heard
<1>3. f.id \in Id
  BY <1>2 DEF SoundAnswer, AppFrame, MuxKind
<1>4. CASE ~Known(f.id)
  BY <1>1, <1>2, <1>4 DEF OnClose, FromApp
<1>5. CASE Known(f.id)
  <2>1. PICK s \in Stream : s = <<lease.proxy, f.id>> /\ KnownStream(s) /\ s[2] = f.id
    BY <1>0, <1>3, <1>5, KnownIs
  <2>2. client[s] \in Client
    BY <1>0 DEF Shape
  <2>. DEFINE c == [client[s] EXCEPT !.registered = FALSE]
  <2>3. c \in Client
    BY <2>2 DEF Client
  <2>4. client' = [client EXCEPT ![s] = c]
    BY <1>1, <1>5, <2>1, <2>2 DEF OnClose, Shape
  <2>5. OnlyClient(s) /\ client'[s] = c
    BY <1>0, <2>3, <2>4, ClientSet
  <2>. QED BY <1>1, <1>2, <2>1, <2>5 DEF OnClose, FromApp
<1>. QED BY <1>4, <1>5

-----------------------------------------------------------------------------
(* What the steps of the app do to the channels                              *)

ChannelsSound(C) ==
    /\ C \in SUBSET Channel
    /\ \A ch \in C : ch.of[2] = ch.id
    /\ \A ch, ch2 \in C : ch.id = ch2.id => ch = ch2
Answer(kind, i, chunks) == [kind |-> kind, id |-> i, chunks |-> chunks]
Answers(a) == toServer' \in Seq(SoundAnswer) /\ Grown(toServer, toServer', a)
Channels(C) == app' = [chrome |-> app.chrome, channels |-> C] /\ ChannelsSound(C)
NotOf(i) == {ch \in app.channels : ch.id # i}
Takes(kind) == /\ toApp' \in Seq(SoundFrame) /\ Head(toApp) \in SoundFrame /\ Head(toApp).kind = kind
               /\ Shrunk(InTransit, InTransit', Head(toApp))
               /\ UNCHANGED <<lease, client, proxies, outbox, drain>>
NothingTaken == UNCHANGED <<lease, client, proxies, outbox, drain, toApp>>

LEMMA ChannelFacts ==
    ASSUME Shape
    PROVE  /\ ChannelsSound(app.channels) /\ app = [chrome |-> app.chrome, channels |-> app.channels]
           /\ \A i : Others(i) = NotOf(i) /\ Named(i) = {ch \in app.channels : ch.id = i}
           /\ \A i : ChannelsSound(NotOf(i))
           /\ \A ch \in app.channels : /\ Others(ch.id) = app.channels \ {ch}
                                       /\ ChannelsSound(app.channels \ {ch})
                                       /\ ch \in Channel /\ ch.id \in Id /\ ch.of \in Stream /\ ch.id = ch.of[2]
<1>1. ChannelsSound(app.channels) /\ app = [chrome |-> app.chrome, channels |-> app.channels]
  BY DEF Shape, ChannelsSound
<1>2. \A i : Others(i) = NotOf(i) /\ Named(i) = {ch \in app.channels : ch.id = i}
  BY DEF Others, Named, NotOf
<1>3. \A i : ChannelsSound(NotOf(i))
  BY <1>1 DEF ChannelsSound, NotOf
<1>4. ASSUME NEW ch \in app.channels
      PROVE  /\ Others(ch.id) = app.channels \ {ch}
             /\ ChannelsSound(app.channels \ {ch})
             /\ ch \in Channel /\ ch.id \in Id /\ ch.of \in Stream /\ ch.id = ch.of[2]
  <2>1. ch \in Channel /\ ch.of[2] = ch.id
    BY <1>1 DEF ChannelsSound
  <2>2. Others(ch.id) = app.channels \ {ch}
    BY <1>1 DEF ChannelsSound, Others, Named
  <2>3. ChannelsSound(app.channels \ {ch})
    BY <1>1 DEF ChannelsSound
  <2>. QED BY <2>1, <2>2, <2>3 DEF Channel
<1>. QED BY <1>1, <1>2, <1>3, <1>4

LEMMA ChannelReplaced ==
    ASSUME NEW C, ChannelsSound(C), NEW ch \in C, NEW d \in Channel, d.id = ch.id, d.of = ch.of
    PROVE  ChannelsSound((C \ {ch}) \cup {d})
BY DEF ChannelsSound

LEMMA AnswersFrame ==
    ASSUME Shape, NEW kind, NEW i, NEW chunks, Answer(kind, i, chunks) \in SoundAnswer, Tell(kind, i, chunks)
    PROVE  Answers(Answer(kind, i, chunks))
BY Answered DEF Answer, Answers

LEMMA ChannelClosed ==
    ASSUME Shape, NEW ch \in app.channels, CloseChannel(ch)
    PROVE  Channels(app.channels \ {ch}) /\ Answers(Answer("close", ch.id, <<>>))
<1>1. app' = [app EXCEPT !.channels = app.channels \ {ch}] /\ Tell("close", ch.id, <<>>)
  BY DEF CloseChannel
<1>2. app' = [chrome |-> app.chrome, channels |-> app.channels \ {ch}]
  BY <1>1 DEF Shape
<1>3. Answer("close", ch.id, <<>>) \in SoundAnswer
  BY ChannelFacts, Announcements DEF Answer
<1>. QED BY <1>1, <1>2, <1>3, ChannelFacts, AnswersFrame DEF Channels

LEMMA FrameTaken ==
    ASSUME Shape, NEW kind, FromServer(kind) PROVE Takes(kind)
BY Taken DEF Takes, FromServer

LEMMA OpenTaken ==
    ASSUME Base, AppOpen
    PROVE  \E s \in Stream :
             /\ Takes("open") /\ Tag(Head(toApp)) = s
             /\ \/ /\ \E d \in Channel : /\ d.id = s[2] /\ d.of = s /\ d.connecting /\ d.heard = <<>>
                                         /\ d.replies = 0 /\ Channels(NotOf(s[2]) \cup {d})
                   /\ toServer' = toServer
                \/ /\ app.chrome # "up" /\ Channels(NotOf(s[2]))
                   /\ Answers(Answer("close", s[2], <<>>))
                \/ /\ \A ch \in app.channels : ch.id # s[2]
                   /\ Channels(app.channels)
                   /\ Answers(Answer("close", s[2], <<>>))
<1>0. Shape /\ Takes("open")
  BY FrameTaken DEF Base, AppOpen
<1>1. PICK f \in SoundFrame : f = Head(toApp) /\ f.kind = "open"
  BY <1>0 DEF Takes
<1>2. PICK s \in Stream : s = Tag(f) /\ s[1] = f.of /\ s[2] = f.id /\ s = <<f.of, f.id>>
  BY <1>1, FrameTags DEF MuxKind, Tag
<1>. DEFINE d == [id |-> f.id, of |-> <<f.of, f.id>>, connecting |-> TRUE, heard |-> <<>>, replies |-> 0]
<1>3. /\ d \in Channel /\ d.id = s[2] /\ d.of = s /\ d.connecting /\ d.heard = <<>> /\ d.replies = 0
  <2>1. <<>> \in Seq(Chunk) /\ 0 \in Nat /\ s[2] \in Id
    BY DEF Stream
  <2>. QED BY <1>2, <2>1 DEF Channel
<1>4. \/ /\ app' = [app EXCEPT !.channels = Others(f.id) \cup {d}]
         /\ Silent
      \/ /\ app.chrome # "up"
         /\ app' = [app EXCEPT !.channels = Others(f.id)]
         /\ Tell("close", f.id, <<>>)
      \/ /\ Named(f.id) = {}
         /\ UNCHANGED app
         /\ Tell("close", f.id, <<>>)
  BY <1>1 DEF AppOpen
<1>. HIDE DEF d
<1>5. /\ Others(f.id) = NotOf(s[2]) /\ ChannelsSound(NotOf(s[2])) /\ ChannelsSound(app.channels)
      /\ app = [chrome |-> app.chrome, channels |-> app.channels]
      /\ Named(f.id) = {ch \in app.channels : ch.id = s[2]}
  BY <1>0, <1>2, ChannelFacts
<1>6. ChannelsSound(NotOf(s[2]) \cup {d})
  BY <1>3, <1>5 DEF ChannelsSound, NotOf
<1>7. Answer("close", s[2], <<>>) \in SoundAnswer /\ s[2] \in Id
  BY Announcements DEF Answer, Stream
<1>8. CASE app' = [app EXCEPT !.channels = Others(f.id) \cup {d}] /\ Silent
  <2>1. Channels(NotOf(s[2]) \cup {d}) /\ toServer' = toServer
    BY <1>5, <1>6, <1>8 DEF Channels, Silent
  <2>. QED BY <1>0, <1>1, <1>2, <1>3, <2>1
<1>9. CASE app.chrome # "up" /\ app' = [app EXCEPT !.channels = Others(f.id)] /\ Tell("close", f.id, <<>>)
  <2>1. Channels(NotOf(s[2]))
    BY <1>5, <1>9 DEF Channels
  <2>2. Answers(Answer("close", s[2], <<>>))
    BY <1>0, <1>2, <1>7, <1>9, AnswersFrame
  <2>. QED BY <1>0, <1>1, <1>2, <1>9, <2>1, <2>2
<1>10. CASE Named(f.id) = {} /\ UNCHANGED app /\ Tell("close", f.id, <<>>)
  <2>1. Channels(app.channels) /\ \A ch \in app.channels : ch.id # s[2]
    BY <1>5, <1>10 DEF Channels
  <2>2. Answers(Answer("close", s[2], <<>>))
    BY <1>0, <1>2, <1>7, <1>10, AnswersFrame
  <2>. QED BY <1>0, <1>1, <1>2, <2>1, <2>2
<1>. QED BY <1>4, <1>8, <1>9, <1>10

LEMMA ConnectedIs ==
    ASSUME Base, AppConnected
    PROVE  /\ NothingTaken
           /\ \E ch \in app.channels :
                /\ ch.connecting
                /\ \/ /\ app.chrome = "up" /\ toServer' = toServer
                      /\ Channels((app.channels \ {ch}) \cup {[ch EXCEPT !.connecting = FALSE]})
                   \/ /\ Channels(app.channels \ {ch})
                      /\ Answers(Answer("close", ch.id, <<>>))
<1>0. Shape
  BY DEF Base
<1>1. PICK ch \in app.channels :
        /\ ch.connecting
        /\ \/ /\ app.chrome = "up"
              /\ app' = [app EXCEPT !.channels = Others(ch.id) \cup {[ch EXCEPT !.connecting = FALSE]}]
              /\ Silent
           \/ CloseChannel(ch)
  BY DEF AppConnected
<1>2. ch \in Channel /\ Others(ch.id) = app.channels \ {ch} /\ ChannelsSound(app.channels)
      /\ app = [chrome |-> app.chrome, channels |-> app.channels]
  BY <1>0, ChannelFacts
<1>3. [ch EXCEPT !.connecting = FALSE] \in Channel /\ [ch EXCEPT !.connecting = FALSE].id = ch.id
      /\ [ch EXCEPT !.connecting = FALSE].of = ch.of
  BY <1>2 DEF Channel
<1>4. ChannelsSound((app.channels \ {ch}) \cup {[ch EXCEPT !.connecting = FALSE]})
  BY <1>2, <1>3, ChannelReplaced
<1>5. CASE CloseChannel(ch)
  BY <1>0, <1>1, <1>5, ChannelClosed DEF AppConnected, NothingTaken
<1>6. CASE /\ app.chrome = "up"
           /\ app' = [app EXCEPT !.channels = Others(ch.id) \cup {[ch EXCEPT !.connecting = FALSE]}]
           /\ Silent
  <2>1. Channels((app.channels \ {ch}) \cup {[ch EXCEPT !.connecting = FALSE]})
    BY <1>2, <1>4, <1>6 DEF Channels
  <2>. QED BY <1>1, <1>6, <2>1 DEF AppConnected, NothingTaken, Silent
<1>. QED BY <1>1, <1>5, <1>6

LEMMA DataTaken ==
    ASSUME Base, AppData
    PROVE  /\ Takes("data") /\ Tag(Head(toApp)) \in Stream
           /\ \/ /\ \A ch \in app.channels : ch.id # Tag(Head(toApp))[2]
                 /\ app' = app /\ toServer' = toServer
              \/ \E ch \in app.channels :
                   /\ ch.id = Tag(Head(toApp))[2]
                   /\ \/ /\ Channels((app.channels \ {ch}) \cup
                                        {[ch EXCEPT !.heard = ch.heard \o Head(toApp).chunks]})
                         /\ toServer' = toServer
                      \/ /\ Channels(app.channels \ {ch})
                         /\ Answers(Answer("close", ch.id, <<>>))
<1>0. Shape /\ Takes("data")
  BY FrameTaken DEF Base, AppData
<1>1. PICK f \in SoundFrame : f = Head(toApp) /\ f.kind = "data"
  BY <1>0 DEF Takes
<1>2. Tag(f) \in Stream /\ Tag(f)[2] = f.id /\ f.chunks \in Seq(Chunk)
  BY <1>1, FrameTags DEF MuxKind, SoundFrame, Frame
<1>3. \/ Named(f.id) = {} /\ UNCHANGED app /\ Silent
      \/ \E ch \in Named(f.id) :
            \/ /\ app' = [app EXCEPT !.channels = Others(f.id) \cup {[ch EXCEPT !.heard = ch.heard \o f.chunks]}]
               /\ Silent
            \/ CloseChannel(ch)
  BY <1>1 DEF AppData
<1>4. Named(f.id) = {ch \in app.channels : ch.id = f.id}
  BY DEF Named
<1>5. CASE Named(f.id) = {} /\ UNCHANGED app /\ Silent
  BY <1>0, <1>1, <1>2, <1>4, <1>5 DEF Silent
<1>6. CASE \E ch \in Named(f.id) :
            \/ /\ app' = [app EXCEPT !.channels = Others(f.id) \cup {[ch EXCEPT !.heard = ch.heard \o f.chunks]}]
               /\ Silent
            \/ CloseChannel(ch)
  <2>1. PICK ch \in app.channels :
            /\ ch.id = f.id
            /\ \/ /\ app' = [app EXCEPT !.channels = Others(f.id) \cup {[ch EXCEPT !.heard = ch.heard \o f.chunks]}]
                  /\ Silent
               \/ CloseChannel(ch)
    BY <1>4, <1>6
  <2>2. ch \in Channel /\ Others(f.id) = app.channels \ {ch} /\ ChannelsSound(app.channels)
        /\ app = [chrome |-> app.chrome, channels |-> app.channels]
    BY <1>0, <2>1, ChannelFacts
  <2>3. ch.heard \o f.chunks \in Seq(Chunk)
    BY <1>2, <2>2, ConcatProperties DEF Channel
  <2>. DEFINE d == [ch EXCEPT !.heard = ch.heard \o f.chunks]
  <2>4. d \in Channel /\ d.id = ch.id /\ d.of = ch.of
    BY <2>2, <2>3 DEF Channel
  <2>. HIDE DEF d
  <2>5. ChannelsSound((app.channels \ {ch}) \cup {d})
    BY <2>2, <2>4, ChannelReplaced
  <2>6. CASE CloseChannel(ch)
    BY <1>0, <1>1, <1>2, <2>1, <2>6, ChannelClosed
  <2>7. CASE app' = [app EXCEPT !.channels = Others(f.id) \cup {d}] /\ Silent
    <3>1. Channels((app.channels \ {ch}) \cup {d})
      BY <2>2, <2>5, <2>7 DEF Channels
    <3>. QED BY <1>0, <1>1, <1>2, <2>1, <2>7, <3>1 DEF Silent, d
  <2>. QED BY <2>1, <2>6, <2>7 DEF d
<1>. QED BY <1>3, <1>5, <1>6

LEMMA CloseTaken ==
    ASSUME Base, AppClose
    PROVE  /\ Takes("close") /\ Tag(Head(toApp)) \in Stream
           /\ Channels(NotOf(Tag(Head(toApp))[2])) /\ toServer' = toServer
<1>0. Shape /\ Takes("close")
  BY FrameTaken DEF Base, AppClose
<1>1. PICK f \in SoundFrame : f = Head(toApp) /\ f.kind = "close"
  BY <1>0 DEF Takes
<1>2. Tag(f) \in Stream /\ Tag(f)[2] = f.id
  BY <1>1, FrameTags DEF MuxKind
<1>3. app' = [app EXCEPT !.channels = Others(f.id)] /\ Silent
  BY <1>1 DEF AppClose
<1>4. /\ Others(f.id) = NotOf(f.id) /\ ChannelsSound(NotOf(f.id))
      /\ app = [chrome |-> app.chrome, channels |-> app.channels]
  BY <1>0, ChannelFacts
<1>5. Channels(NotOf(f.id))
  BY <1>3, <1>4 DEF Channels
<1>. QED BY <1>0, <1>1, <1>2, <1>3, <1>5 DEF Silent

LEMMA PumpedIs ==
    ASSUME Base, AppPumps
    PROVE  /\ NothingTaken
           /\ \E ch \in app.channels :
                /\ ~ch.connecting
                /\ \/ /\ Channels((app.channels \ {ch}) \cup {[ch EXCEPT !.replies = ch.replies + 1]})
                      /\ Answers(Answer("data", ch.id, <<[of |-> ch.of, n |-> ch.replies + 1]>>))
                   \/ /\ Channels(app.channels \ {ch})
                      /\ Answers(Answer("close", ch.id, <<>>))
<1>0. Shape
  BY DEF Base
<1>1. PICK ch \in app.channels :
        /\ ~ch.connecting
        /\ \/ /\ app' = [app EXCEPT !.channels = Others(ch.id) \cup {[ch EXCEPT !.replies = ch.replies + 1]}]
              /\ Tell("data", ch.id, <<[of |-> ch.of, n |-> ch.replies + 1]>>)
           \/ CloseChannel(ch)
  BY DEF AppPumps
<1>2. ch \in Channel /\ Others(ch.id) = app.channels \ {ch} /\ ChannelsSound(app.channels)
      /\ app = [chrome |-> app.chrome, channels |-> app.channels]
      /\ ch.id \in Id /\ ch.of \in Stream /\ ch.of[2] = ch.id
  BY <1>0, ChannelFacts
<1>6. ch.replies + 1 \in Nat
  BY <1>2 DEF Channel
<1>3. [ch EXCEPT !.replies = ch.replies + 1] \in Channel /\ [ch EXCEPT !.replies = ch.replies + 1].id = ch.id
      /\ [ch EXCEPT !.replies = ch.replies + 1].of = ch.of
  BY <1>2, <1>6 DEF Channel
<1>4. ChannelsSound((app.channels \ {ch}) \cup {[ch EXCEPT !.replies = ch.replies + 1]})
  BY <1>2, <1>3, ChannelReplaced
<1>5. CASE CloseChannel(ch)
  BY <1>0, <1>1, <1>5, ChannelClosed DEF AppPumps, NothingTaken
<1>7. CASE /\ app' = [app EXCEPT !.channels = Others(ch.id) \cup {[ch EXCEPT !.replies = ch.replies + 1]}]
           /\ Tell("data", ch.id, <<[of |-> ch.of, n |-> ch.replies + 1]>>)
  <2>1. Channels((app.channels \ {ch}) \cup {[ch EXCEPT !.replies = ch.replies + 1]})
    BY <1>2, <1>4, <1>7 DEF Channels
  <2>2. Answer("data", ch.id, <<[of |-> ch.of, n |-> ch.replies + 1]>>) \in SoundAnswer
    BY <1>2, <1>6, Replies DEF Answer
  <2>3. Answers(Answer("data", ch.id, <<[of |-> ch.of, n |-> ch.replies + 1]>>))
    BY <1>0, <1>7, <2>2, AnswersFrame
  <2>. QED BY <1>1, <2>1, <2>3 DEF AppPumps, NothingTaken
<1>. QED BY <1>1, <1>5, <1>7

-----------------------------------------------------------------------------
(* Types are kept                                                            *)

AppTyped ==
    /\ app' \in [chrome : {"down", "starting", "up"}, channels : SUBSET Channel]
    /\ \A ch \in app'.channels : ch.of[2] = ch.id
    /\ \A ch, ch2 \in app'.channels : ch.id = ch2.id => ch = ch2
LeaseTyped == lease' \in [n : 0..MaxLeases, proxy : 0..MaxLeases,
                          phase : {"idle", "starting", "ready", "detaching", "stopping"}]
QueuesTyped == toApp' \in Seq(SoundFrame) /\ outbox' \in Seq(Enqueued) /\ toServer' \in Seq(SoundAnswer)

LEMMA ShapeFrom ==
    ASSUME LeaseTyped, client' \in [Stream -> Client], proxies' \in [Lease -> Proxy], QueuesTyped,
           DrainTyped, AppTyped
    PROVE  Shape'
BY DEF Shape, LeaseTyped, QueuesTyped, DrainTyped, AppTyped

LEMMA ChannelsTyped == ASSUME Shape, NEW C, Channels(C) PROVE AppTyped /\ app'.channels = C /\ app'.chrome = app.chrome
BY DEF Channels, ChannelsSound, AppTyped, Shape

LEMMA SameTyped ==
    ASSUME Shape
    PROVE  /\ lease' = lease => LeaseTyped
           /\ client' = client => client' \in [Stream -> Client]
           /\ proxies' = proxies => proxies' \in [Lease -> Proxy]
           /\ toApp' = toApp => toApp' \in Seq(SoundFrame)
           /\ outbox' = outbox => outbox' \in Seq(Enqueued)
           /\ toServer' = toServer => toServer' \in Seq(SoundAnswer)
           /\ drain' = drain => DrainTyped
           /\ app' = app => AppTyped
<1>1. /\ lease' = lease => LeaseTyped
      /\ client' = client => client' \in [Stream -> Client]
      /\ proxies' = proxies => proxies' \in [Lease -> Proxy]
      /\ toApp' = toApp => toApp' \in Seq(SoundFrame)
      /\ outbox' = outbox => outbox' \in Seq(Enqueued)
      /\ toServer' = toServer => toServer' \in Seq(SoundAnswer)
      /\ drain' = drain => DrainTyped
  BY DEF Shape, LeaseTyped, DrainTyped
<1>2. app' = app => AppTyped
  BY DEF Shape, AppTyped
<1>. QED BY <1>1, <1>2

\* What a lease step sends is a control frame of the lease it leaves behind.
LEMMA LeaseStepSends ==
    ASSUME Base
    PROVE  /\ AcquireProxy => /\ Sends(Control("start", lease.n + 1)) /\ LeaseTyped
                              /\ lease'.n = lease.n + 1 /\ lease'.proxy = lease.n + 1
                              /\ lease'.phase = "starting"
           /\ StopAfterDetach \/ StopFailedStart =>
                /\ Sends(Control("stop", lease.n)) /\ LeaseTyped
                /\ lease'.n = lease.n /\ lease'.proxy = lease.proxy /\ lease'.phase = "stopping"
<1>0. Shape /\ LeaseSound /\ lease.n \in 0..MaxLeases /\ MaxLeases \in Nat
  BY TunnelAssumption DEF Base, ThreadsSound, Shape
<1>1. ASSUME AcquireProxy
      PROVE  /\ Sends(Control("start", lease.n + 1)) /\ LeaseTyped
             /\ lease'.n = lease.n + 1 /\ lease'.proxy = lease.n + 1
             /\ lease'.phase = "starting"
  <2>1. PICK p \in Lease : p = lease.n + 1
    BY <1>0, <1>1 DEF AcquireProxy, Lease
  <2>2. EnqueueFrame(Control("start", p)) /\ toApp' = toApp /\ Control("start", p) \in Enqueued
    BY <1>1, <2>1, ControlFrames DEF AcquireProxy
  <2>3. Sends(Control("start", p))
    BY <1>0, <2>2, SendsFrame
  <2>4. p \in 0..MaxLeases
    BY <1>0 DEF Lease
  <2>5. LeaseTyped /\ lease'.n = p /\ lease'.proxy = p /\ lease'.phase = "starting"
    BY <1>1, <2>1, <2>4 DEF AcquireProxy, LeaseTyped
  <2>. QED BY <2>1, <2>3, <2>5
<1>2. ASSUME StopAfterDetach \/ StopFailedStart
      PROVE  /\ Sends(Control("stop", lease.n)) /\ LeaseTyped
             /\ lease'.n = lease.n /\ lease'.proxy = lease.proxy /\ lease'.phase = "stopping"
  <2>1. lease.phase # "idle" /\ EnqueueFrame(Control("stop", lease.n)) /\ toApp' = toApp
        /\ lease' = [lease EXCEPT !.phase = "stopping"]
    BY <1>2 DEF StopAfterDetach, StopFailedStart
  <2>2. PICK p \in Lease : p = lease.n
    BY <1>0, <2>1 DEF LeaseSound, Lease
  <2>3. Sends(Control("stop", p))
    BY <1>0, <2>1, <2>2, ControlFrames, SendsFrame
  <2>4. LeaseTyped /\ lease'.n = lease.n /\ lease'.proxy = lease.proxy /\ lease'.phase = "stopping"
    BY <1>0, <2>1 DEF Shape, LeaseTyped
  <2>. QED BY <2>2, <2>3, <2>4
<1>. QED BY <1>1, <1>2

LEMMA ShapeKept == ASSUME Base, TunnelNext PROVE Shape'
<1>0. Shape /\ OneEra
  BY DEF Base
<1>1. /\ lease' = lease => LeaseTyped
      /\ client' = client => client' \in [Stream -> Client]
      /\ proxies' = proxies => proxies' \in [Lease -> Proxy]
      /\ toApp' = toApp => toApp' \in Seq(SoundFrame)
      /\ outbox' = outbox => outbox' \in Seq(Enqueued)
      /\ toServer' = toServer => toServer' \in Seq(SoundAnswer)
      /\ drain' = drain => DrainTyped
      /\ app' = app => AppTyped
  BY <1>0, SameTyped
<1>2. CASE Wake
  <2>1. DrainTyped
    BY <1>0, <1>2 DEF Wake, Woken, Shape, DrainTyped
  <2>. QED BY <1>1, <1>2, <2>1, ShapeFrom DEF Wake, QueuesTyped
<1>3. CASE DrainFlushes \/ DrainRechecks \/ DrainAwakes
  <2>0. drain \in [at : {"flush", "recheck", "wait"}, event : BOOLEAN,
                   pending : BOOLEAN, scheduled : BOOLEAN]
    BY <1>0 DEF Shape
  <2>1. Flush /\ DrainTyped /\ UNCHANGED <<lease, client, proxies, toServer, app>>
    <3>1. CASE DrainFlushes
      BY <2>0, <3>1 DEF DrainFlushes, DrainTyped
    <3>2. CASE DrainRechecks
      BY <2>0, <3>2 DEF DrainRechecks, DrainTyped
    <3>3. CASE DrainAwakes
      BY <2>0, <3>3 DEF DrainAwakes, DrainTyped
    <3>. QED BY <1>3, <3>1, <3>2, <3>3
  <2>2. toApp' \in Seq(SoundFrame) /\ outbox' \in Seq(Enqueued)
    BY <1>0, <2>1, Flushed
  <2>. QED BY <1>1, <2>1, <2>2, ShapeFrom DEF QueuesTyped
<1>4. ASSUME NEW p \in Lease, Accept(p) PROVE Shape'
  <2>1. PICK s \in Stream : /\ OnlyClient(s) /\ proxies' = [proxies EXCEPT ![p].opening = s[2]]
                            /\ UNCHANGED <<lease, outbox, drain, toApp, toServer, app>>
    BY <1>0, <1>4, Accepted
  <2>2. proxies' \in [Lease -> Proxy]
    <3>1. s[2] \in Id
      BY DEF Stream
    <3>2. proxies \in [Lease -> Proxy]
      BY <1>0 DEF Shape
    <3>. QED BY <2>1, <3>1, <3>2 DEF Proxy
  <2>. QED BY <1>1, <2>1, <2>2, ShapeFrom DEF QueuesTyped, OnlyClient
<1>5. ASSUME NEW p \in Lease, SendOpen(p) PROVE Shape'
  <2>1. PICK s \in Stream : /\ OnlyClient(s) /\ proxies' = [proxies EXCEPT ![p].opening = 0]
                            /\ Sends(Mux("open", s))
                            /\ UNCHANGED <<lease, toApp, toServer, app>>
    BY <1>5, OpenSent
  <2>2. proxies' \in [Lease -> Proxy]
    <3>1. proxies \in [Lease -> Proxy]
      BY <1>0 DEF Shape
    <3>. QED BY <2>1, <3>1 DEF Proxy
  <2>. QED BY <1>1, <2>1, <2>2, ShapeFrom DEF QueuesTyped, OnlyClient, Sends
<1>6. ASSUME NEW p \in Lease, StopProxy(p) PROVE Shape'
  <2>1. /\ client' \in [Stream -> Client] /\ proxies' \in [Lease -> Proxy]
        /\ UNCHANGED <<lease, outbox, drain, toApp, toServer, app>>
    BY <1>0, <1>6, ProxyStopped
  <2>. QED BY <1>1, <2>1, ShapeFrom DEF QueuesTyped
<1>7. ASSUME NEW p \in Lease, StopClient(p) PROVE Shape'
  <2>1. PICK s \in Stream : /\ proxies' \in [Lease -> Proxy] /\ Sends(Mux("close", s))
                            /\ UNCHANGED <<lease, client, toApp, toServer, app>>
    BY <1>7, ClientStopped
  <2>. QED BY <1>1, <2>1, ShapeFrom DEF QueuesTyped, Sends
<1>8. ASSUME NEW s \in Stream, ReadChunk(s) PROVE Shape'
  <2>1. OnlyClient(s) /\ UNCHANGED <<lease, proxies, outbox, drain, toApp, toServer, app>>
    BY <1>0, <1>8, ChunkRead
  <2>. QED BY <1>1, <2>1, ShapeFrom DEF QueuesTyped, OnlyClient
<1>9. ASSUME NEW s \in Stream, SendChunk(s) PROVE Shape'
  <2>1. /\ OnlyClient(s) /\ UNCHANGED <<lease, proxies, toApp, toServer, app>>
        /\ UNCHANGED <<outbox, drain>> \/ Sends(Data(s))
    BY <1>0, <1>9, ChunkSent
  <2>. QED BY <1>1, <2>1, ShapeFrom DEF QueuesTyped, OnlyClient, Sends
<1>10. ASSUME NEW s \in Stream, ResetStream(s) PROVE Shape'
  <2>1. OnlyClient(s) /\ UNCHANGED <<lease, proxies, outbox, drain, toApp, toServer, app>>
    BY <1>10, StreamReset
  <2>. QED BY <1>1, <2>1, ShapeFrom DEF QueuesTyped, OnlyClient
<1>11. ASSUME NEW s \in Stream, ReaderEnds(s) PROVE Shape'
  <2>1. OnlyClient(s) /\ UNCHANGED <<lease, proxies, outbox, drain, toApp, toServer, app>>
    BY <1>11, ReaderEnded
  <2>. QED BY <1>1, <2>1, ShapeFrom DEF QueuesTyped, OnlyClient
<1>12. ASSUME NEW s \in Stream, SendClose(s) PROVE Shape'
  <2>1. /\ OnlyClient(s) /\ UNCHANGED <<lease, proxies, toApp, toServer, app>>
        /\ Sends(Mux("close", s))
    BY <1>12, CloseSent
  <2>. QED BY <1>1, <2>1, ShapeFrom DEF QueuesTyped, OnlyClient, Sends
<1>13. CASE AcquireProxy
  <2>1. /\ Sends(Control("start", lease.n + 1)) /\ LeaseTyped
        /\ UNCHANGED <<client, proxies, toApp, toServer, app>>
    BY <1>13, LeaseStepSends DEF AcquireProxy
  <2>. QED BY <1>1, <2>1, ShapeFrom DEF QueuesTyped, Sends
<1>14. CASE Detach
  <2>1. LeaseTyped
    <3>1. 0 \in 0..MaxLeases
      BY TunnelAssumption
    <3>. QED BY <1>0, <1>14, <3>1 DEF Detach, LeaseTyped, Shape
  <2>. QED BY <1>1, <1>14, <2>1, ShapeFrom DEF Detach, QueuesTyped
<1>15. CASE StopAfterDetach \/ StopFailedStart
  <2>1. /\ Sends(Control("stop", lease.n)) /\ LeaseTyped
        /\ UNCHANGED <<client, proxies, toApp, toServer, app>>
    BY <1>15, LeaseStepSends DEF StopAfterDetach, StopFailedStart
  <2>. QED BY <1>1, <2>1, ShapeFrom DEF QueuesTyped, Sends
<1>16. CASE OnBrowserReady
  <2>1. LeaseTyped
    BY <1>0, <1>16 DEF OnBrowserReady, LeaseTyped, Shape
  <2>2. toServer' \in Seq(SoundAnswer) /\ toApp' = toApp /\ app' = app
    BY <1>0, <1>16, Heard DEF OnBrowserReady, FromApp
  <2>. QED BY <1>1, <1>16, <2>1, <2>2, ShapeFrom DEF OnBrowserReady, QueuesTyped
<1>17. CASE OnBrowserStopped
  <2>1. LeaseTyped
    <3>1. 0 \in 0..MaxLeases
      BY TunnelAssumption
    <3>. QED BY <1>0, <1>17, <3>1 DEF OnBrowserStopped, LeaseTyped, Shape
  <2>2. toServer' \in Seq(SoundAnswer) /\ toApp' = toApp /\ app' = app
    BY <1>0, <1>17, Heard DEF OnBrowserStopped, FromApp
  <2>. QED BY <1>1, <1>17, <2>1, <2>2, ShapeFrom DEF OnBrowserStopped, QueuesTyped
<1>18. CASE OnData
  <2>1. /\ toServer' \in Seq(SoundAnswer) /\ UNCHANGED <<lease, proxies, toApp, app>>
        /\ \/ UNCHANGED <<client, outbox, drain>>
           \/ \E s \in Stream : OnlyClient(s) /\ (UNCHANGED <<outbox, drain>> \/ Sends(Mux("close", s)))
    BY <1>18, DataHeard
  <2>. QED BY <1>1, <2>1, ShapeFrom DEF QueuesTyped, OnlyClient, Sends
<1>19. CASE OnClose
  <2>1. /\ toServer' \in Seq(SoundAnswer) /\ UNCHANGED <<lease, proxies, outbox, drain, toApp, app>>
        /\ UNCHANGED client \/ \E s \in Stream : OnlyClient(s)
    BY <1>19, CloseHeard
  <2>. QED BY <1>1, <2>1, ShapeFrom DEF QueuesTyped, OnlyClient
<1>20. CASE AppStart
  <2>1. Takes("start") /\ toServer' = toServer /\ app' = [app EXCEPT !.chrome = "starting"]
    BY <1>0, <1>20, FrameTaken DEF AppStart, Silent
  <2>2. AppTyped
    BY <1>0, <2>1 DEF Shape, AppTyped
  <2>. QED BY <1>1, <2>1, <2>2, ShapeFrom DEF QueuesTyped, Takes
<1>21. CASE AppReady
  <2>1. app' = [chrome |-> "up", channels |-> {}] /\ Tell("ready", 0, <<>>)
        /\ UNCHANGED <<lease, client, proxies, outbox, drain, toApp>>
    BY <1>21 DEF AppReady
  <2>2. AppTyped
    BY <2>1 DEF AppTyped
  <2>3. toServer' \in Seq(SoundAnswer)
    BY <1>0, <2>1, Announcements, Answered
  <2>. QED BY <1>1, <2>1, <2>2, <2>3, ShapeFrom DEF QueuesTyped
<1>22. CASE AppStop
  <2>1. Takes("stop") /\ app' = [chrome |-> "down", channels |-> {}] /\ Tell("stopped", 0, <<>>)
    BY <1>0, <1>22, FrameTaken DEF AppStop
  <2>2. AppTyped
    BY <2>1 DEF AppTyped
  <2>3. toServer' \in Seq(SoundAnswer)
    BY <1>0, <2>1, Announcements, Answered
  <2>. QED BY <1>1, <2>1, <2>2, <2>3, ShapeFrom DEF QueuesTyped, Takes
<1>23. CASE AppOpen
  <2>1. /\ Takes("open") /\ \E C : Channels(C)
        /\ toServer' = toServer \/ \E a : Answers(a)
    BY <1>23, OpenTaken
  <2>2. AppTyped
    BY <1>0, <2>1, ChannelsTyped
  <2>. QED BY <1>1, <2>1, <2>2, ShapeFrom DEF QueuesTyped, Takes, Answers
<1>24. CASE AppConnected
  <2>1. /\ NothingTaken /\ \E C : Channels(C)
        /\ toServer' = toServer \/ \E a : Answers(a)
    BY <1>24, ConnectedIs
  <2>2. AppTyped
    BY <1>0, <2>1, ChannelsTyped
  <2>. QED BY <1>1, <2>1, <2>2, ShapeFrom DEF QueuesTyped, NothingTaken, Answers
<1>25. CASE AppData
  <2>1. /\ Takes("data") /\ (app' = app \/ \E C : Channels(C))
        /\ toServer' = toServer \/ \E a : Answers(a)
    BY <1>25, DataTaken
  <2>2. AppTyped
    BY <1>0, <1>1, <2>1, ChannelsTyped
  <2>. QED BY <1>1, <2>1, <2>2, ShapeFrom DEF QueuesTyped, Takes, Answers
<1>26. CASE AppClose
  <2>1. Takes("close") /\ (\E C : Channels(C)) /\ toServer' = toServer
    BY <1>26, CloseTaken
  <2>2. AppTyped
    BY <1>0, <2>1, ChannelsTyped
  <2>. QED BY <1>1, <2>1, <2>2, ShapeFrom DEF QueuesTyped, Takes
<1>27. CASE AppPumps
  <2>1. /\ NothingTaken /\ \E C : Channels(C)
        /\ toServer' = toServer \/ \E a : Answers(a)
    BY <1>27, PumpedIs
  <2>2. AppTyped
    BY <1>0, <2>1, ChannelsTyped
  <2>. QED BY <1>1, <2>1, <2>2, ShapeFrom DEF QueuesTyped, NothingTaken, Answers
<1>. QED BY <1>2, <1>3, <1>4, <1>5, <1>6, <1>7, <1>8, <1>9, <1>10, <1>11, <1>12, <1>13, <1>14, <1>15,
            <1>16, <1>17, <1>18, <1>19, <1>20, <1>21, <1>22, <1>23, <1>24, <1>25, <1>26, <1>27
         DEF TunnelNext

-----------------------------------------------------------------------------
(* Clients, proxies and the lease stay as they hang together                 *)

LEMMA SameClient ==
    ASSUME NEW t \in Stream, ClientSound(t), lease' = lease, client'[t] = client[t],
           proxies'[t[1]].opening = proxies[t[1]].opening
    PROVE  ClientSound(t)'
BY DEF ClientSound

LEMMA SameProxy ==
    ASSUME NEW p \in Lease, ProxySound(p), lease' = lease, proxies'[p] = proxies[p],
           \A i \in proxies[p].left : client[<<p, i>>].at # "none" => client'[<<p, i>>].at # "none"
    PROVE  ProxySound(p)'
BY DEF ProxySound, GivenUp

LEMMA SameThreads ==
    ASSUME ThreadsSound, lease' = lease, client' = client, proxies' = proxies
    PROVE  ThreadsSound'
BY DEF ThreadsSound, LeaseSound, ClientSound, ProxySound, GivenUp

\* One client goes on, which is at work before and after.
LEMMA OneThread ==
    ASSUME Shape, ThreadsSound, lease' = lease, NEW s \in Stream, OnlyClient(s), client[s].at # "none",
           client'[s].at # "none", ClientSound(s)',
           \A p \in Lease : p # s[1] => proxies'[p] = proxies[p], ProxySound(s[1])',
           \A t \in Stream : t # s => proxies'[t[1]].opening = proxies[t[1]].opening
    PROVE  ThreadsSound'
<1>1. LeaseSound'
  BY DEF ThreadsSound, LeaseSound
<1>2. ASSUME NEW t \in Stream PROVE ClientSound(t)'
  <2>1. t # s => client'[t] = client[t] /\ ClientSound(t) /\ proxies'[t[1]].opening = proxies[t[1]].opening
    BY DEF OnlyClient, ThreadsSound
  <2>. QED BY <2>1, SameClient
<1>3. ASSUME NEW p \in Lease PROVE ProxySound(p)'
  <2>1. CASE p = s[1]
    BY <2>1
  <2>2. CASE p # s[1]
    <3>1. ProxySound(p) /\ proxies'[p] = proxies[p] /\ proxies[p].left \subseteq Id
      BY <2>2 DEF ThreadsSound, Shape, Proxy
    <3>2. \A i \in proxies[p].left : client'[<<p, i>>] = client[<<p, i>>]
      BY <2>2, <3>1 DEF OnlyClient, Stream
    <3>. QED BY <3>1, <3>2, SameProxy
  <2>. QED BY <2>1, <2>2
<1>. QED BY <1>1, <1>2, <1>3 DEF ThreadsSound

\* ... and no proxy changes.
LEMMA OneReader ==
    ASSUME Shape, ThreadsSound, lease' = lease, proxies' = proxies, NEW s \in Stream, OnlyClient(s),
           client[s].at # "none", client'[s].at # "none", ClientSound(s)'
    PROVE  ThreadsSound'
<1>1. ProxySound(s[1])'
  <2>1. s[1] \in Lease /\ proxies[s[1]] \in Proxy
    BY DEF Stream, Shape
  <2>2. ProxySound(s[1]) /\ proxies[s[1]].left \subseteq Id
    BY <2>1 DEF ThreadsSound, Proxy
  <2>3. \A i \in proxies[s[1]].left : client[<<s[1], i>>].at # "none" => client'[<<s[1], i>>].at # "none"
    <3>1. TAKE i \in proxies[s[1]].left
    <3>2. PICK v \in Stream : v = <<s[1], i>>
      BY <2>1, <2>2 DEF Stream
    <3>. QED BY <3>2 DEF OnlyClient
  <2>. QED BY <2>1, <2>2, <2>3, SameProxy
<1>. QED BY <1>1, OneThread

LEMMA ThreadsKept == ASSUME Base, TunnelNext PROVE ThreadsSound'
<1>0. Shape /\ ThreadsSound /\ LeaseSound /\ (\A s \in Stream : ClientSound(s)) /\ \A p \in Lease : ProxySound(p)
  BY DEF Base, ThreadsSound
<1>1. \A s \in Stream : client[s] \in Client /\ s[1] \in Lease /\ s[2] \in Id /\ s[2] # 0
  BY <1>0, TunnelAssumption DEF Shape, Stream, Id
<1>2. lease.n \in Nat /\ lease.proxy \in Nat /\ \A p \in Lease : p \in Nat /\ p # 0 /\ proxies[p] \in Proxy
  BY <1>0, TunnelAssumption DEF Shape, Lease
<1>. USE DEF ReadOn
<1>3. CASE UNCHANGED <<lease, client, proxies>>
  BY <1>0, <1>3, SameThreads
<1>4. ASSUME NEW p \in Lease, Accept(p) PROVE ThreadsSound'
  <2>1. PICK s \in Stream :
             /\ s[1] = p /\ lease.n = p /\ proxies[p].opening = 0 /\ lease.phase \in {"ready", "detaching"}
             /\ client[s].at = "none"
             /\ OnlyClient(s) /\ client'[s] = [client[s] EXCEPT !.registered = TRUE, !.at = "accepted"]
             /\ proxies' = [proxies EXCEPT ![p].opening = s[2]]
             /\ UNCHANGED <<lease, outbox, drain, toApp, toServer, app>>
    BY <1>0, <1>4, Accepted
  <2>2. /\ client'[s].at = "accepted" /\ client'[s].sent = client[s].sent /\ client'[s].closes = client[s].closes
        /\ client'[s].registered
    BY <1>1, <2>1 DEF Client
  <2>3. /\ \A q \in Lease : q # p => proxies'[q] = proxies[q]
        /\ proxies'[p].opening = s[2] /\ proxies'[p].stopped = proxies[p].stopped
        /\ proxies'[p].left = proxies[p].left
    BY <1>0, <1>2, <2>1 DEF Shape, Proxy
  <2>4. ASSUME NEW t \in Stream PROVE ClientSound(t)'
    <3>1. CASE t = s
      <4>1. client[s].sent = 0
        BY <1>0, <2>1 DEF ClientSound, NewClient
      <4>2. ~(t[1] > lease.n)
        BY <1>2, <2>1, <3>1
      <4>3. client'[t].sent = 0 /\ lease' = lease /\ lease.phase # "starting" /\ proxies'[t[1]].opening = t[2]
        BY <2>1, <2>2, <2>3, <3>1, <4>1
      <4>. QED BY <2>2, <3>1, <4>2, <4>3 DEF ClientSound
    <3>2. CASE t # s /\ t[1] # p
      BY <1>0, <1>1, <2>1, <2>3, <3>2, SameClient DEF OnlyClient
    <3>3. CASE t # s /\ t[1] = p
      <4>1. t[2] # s[2]
        BY <2>1, <3>3 DEF Stream
      <4>2. client'[t] = client[t] /\ lease' = lease
        BY <2>1, <3>3 DEF OnlyClient
      <4>3. client[t].at # "accepted"
        BY <1>0, <1>1, <2>1, <3>3 DEF ClientSound
      <4>. QED BY <1>0, <2>3, <3>3, <4>1, <4>2, <4>3 DEF ClientSound
    <3>. QED BY <3>1, <3>2, <3>3
  <2>5. ASSUME NEW q \in Lease PROVE ProxySound(q)'
    <3>1. \A i \in proxies[q].left : client[<<q, i>>].at # "none" => client'[<<q, i>>].at # "none"
      <4>1. TAKE i \in proxies[q].left
      <4>2. PICK v \in Stream : v = <<q, i>>
        BY <1>2 DEF Stream, Proxy
      <4>. QED BY <2>1, <2>2, <4>2 DEF OnlyClient
    <3>2. CASE q # p
      BY <1>0, <2>1, <2>3, <3>1, <3>2, SameProxy
    <3>3. CASE q = p
      BY <1>0, <1>2, <2>1, <2>3, <3>1, <3>3 DEF ProxySound, GivenUp
    <3>. QED BY <3>2, <3>3
  <2>6. LeaseSound'
    BY <1>0, <2>1 DEF LeaseSound
  <2>. QED BY <2>4, <2>5, <2>6 DEF ThreadsSound
<1>5. ASSUME NEW p \in Lease, SendOpen(p) PROVE ThreadsSound'
  <2>1. PICK s \in Stream :
             /\ s[1] = p /\ proxies[p].opening = s[2] /\ client[s].at = "accepted"
             /\ OnlyClient(s) /\ client'[s] = [client[s] EXCEPT !.at = ReadOn(s)]
             /\ proxies' = [proxies EXCEPT ![p].opening = 0]
             /\ UNCHANGED <<lease, toApp, toServer, app>>
    BY <1>5, OpenSent
  <2>2. /\ client'[s].at \in {"read", "leaving"} /\ client'[s].sent = client[s].sent
        /\ client'[s].closes = client[s].closes /\ client'[s].registered = client[s].registered
    BY <1>1, <2>1 DEF Client
  <2>3. /\ \A q \in Lease : q # p => proxies'[q] = proxies[q]
        /\ proxies'[p].opening = 0 /\ proxies'[p].stopped = proxies[p].stopped
        /\ proxies'[p].left = proxies[p].left
    BY <1>0, <1>2, <2>1 DEF Shape, Proxy
  <2>4. ASSUME NEW t \in Stream PROVE ClientSound(t)'
    <3>1. CASE t = s
      <4>1. ~(t[1] > lease.n) /\ ~(lease.phase = "starting" /\ t[1] = lease.n)
        BY <1>0, <2>1, <3>1 DEF ClientSound
      <4>2. lease' = lease /\ proxies'[t[1]].opening = 0 /\ t[2] # 0
        BY <1>1, <2>1, <2>3, <3>1
      <4>. QED BY <2>2, <3>1, <4>1, <4>2 DEF ClientSound
    <3>2. CASE t # s /\ t[1] # p
      BY <1>0, <1>1, <2>1, <2>3, <3>2, SameClient DEF OnlyClient
    <3>3. CASE t # s /\ t[1] = p
      <4>1. t[2] # s[2]
        BY <2>1, <3>3 DEF Stream
      <4>2. client'[t] = client[t] /\ lease' = lease
        BY <2>1, <3>3 DEF OnlyClient
      <4>3. client[t].at # "accepted"
        BY <1>0, <2>1, <3>3, <4>1 DEF ClientSound
      <4>. QED BY <1>0, <1>1, <2>3, <3>3, <4>1, <4>2, <4>3 DEF ClientSound
    <3>. QED BY <3>1, <3>2, <3>3
  <2>5. ASSUME NEW q \in Lease PROVE ProxySound(q)'
    <3>1. \A i \in proxies[q].left : client[<<q, i>>].at # "none" => client'[<<q, i>>].at # "none"
      <4>1. TAKE i \in proxies[q].left
      <4>2. PICK v \in Stream : v = <<q, i>>
        BY <1>2 DEF Stream, Proxy
      <4>. QED BY <2>1, <2>2, <4>2 DEF OnlyClient
    <3>2. CASE q # p
      BY <1>0, <2>1, <2>3, <3>1, <3>2, SameProxy
    <3>3. CASE q = p
      <4>1. ~(p > lease.n)
        BY <1>0, <2>1 DEF ClientSound
      <4>. QED BY <1>0, <2>1, <2>3, <3>1, <3>3, <4>1 DEF ProxySound, GivenUp
    <3>. QED BY <3>2, <3>3
  <2>6. LeaseSound'
    BY <1>0, <2>1 DEF LeaseSound
  <2>. QED BY <2>4, <2>5, <2>6 DEF ThreadsSound
<1>6. ASSUME NEW p \in Lease, StopProxy(p) PROVE ThreadsSound'
  <2>1. /\ GivenUp(p) /\ ~proxies[p].stopped
        /\ \A t \in Stream : client'[t] = IF t[1] = p THEN [client[t] EXCEPT !.registered = FALSE]
                                                      ELSE client[t]
        /\ proxies' = [proxies EXCEPT ![p] = [proxies[p] EXCEPT !.stopped = TRUE, !.left = Clients(p)]]
        /\ \A i \in Clients(p) : i \in Id /\ client[<<p, i>>].registered
        /\ lease' = lease
    BY <1>0, <1>6, ProxyStopped
  <2>2. \A t \in Stream : /\ client'[t].at = client[t].at /\ client'[t].sent = client[t].sent
                          /\ client'[t].closes = client[t].closes
                          /\ client'[t].registered => client[t].registered
                          /\ client[t] = NewClient => client'[t] = NewClient
    <3>1. TAKE t \in Stream
    <3>2. client[t] \in Client
      BY <1>1
    <3>3. client[t] = NewClient => [client[t] EXCEPT !.registered = FALSE] = client[t]
      <4>1. NewClient.registered = FALSE
        BY DEF NewClient
      <4>. QED BY <3>2, <4>1 DEF Client
    <3>4. CASE t[1] = p
      <4>1. client'[t] = [client[t] EXCEPT !.registered = FALSE]
        BY <2>1, <3>4
      <4>2. client[t] = NewClient => client'[t] = NewClient
        BY <3>3, <4>1
      <4>. QED BY <3>2, <4>1, <4>2 DEF Client
    <3>5. CASE t[1] # p
      BY <2>1, <3>5
    <3>. QED BY <3>4, <3>5
  <2>3. /\ \A q \in Lease : q # p => proxies'[q] = proxies[q]
        /\ \A q \in Lease : proxies'[q].opening = proxies[q].opening
        /\ proxies'[p].left = Clients(p)
    BY <1>0, <1>2, <2>1 DEF Shape, Proxy
  <2>4. ASSUME NEW t \in Stream PROVE ClientSound(t)'
    BY <1>0, <1>1, <2>1, <2>2, <2>3 DEF ClientSound
  <2>5. ASSUME NEW q \in Lease PROVE ProxySound(q)'
    <3>2. CASE q # p
      <4>1. \A i \in proxies[q].left : client[<<q, i>>].at # "none" => client'[<<q, i>>].at # "none"
        <5>1. TAKE i \in proxies[q].left
        <5>2. PICK v \in Stream : v = <<q, i>>
          BY <1>2 DEF Stream, Proxy
        <5>. QED BY <2>2, <5>2
      <4>. QED BY <1>0, <2>1, <2>3, <3>2, <4>1, SameProxy
    <3>3. CASE q = p
      <4>1. \A i \in Clients(p) : client'[<<p, i>>].at # "none"
        <5>1. TAKE i \in Clients(p)
        <5>2. PICK v \in Stream : v = <<p, i>>
          BY <2>1 DEF Stream
        <5>. QED BY <1>0, <2>1, <2>2, <5>2 DEF ClientSound
      <4>2. p <= lease.n /\ ~(p > lease.n)
        BY <1>2, <2>1 DEF GivenUp
      <4>3. proxies'[p].stopped
        BY <1>0, <2>1 DEF Shape, Proxy
      <4>4. GivenUp(p)'
        BY <2>1 DEF GivenUp
      <4>. QED BY <2>1, <2>3, <3>3, <4>1, <4>2, <4>3, <4>4 DEF ProxySound
    <3>. QED BY <3>2, <3>3
  <2>6. LeaseSound'
    BY <1>0, <2>1 DEF LeaseSound
  <2>. QED BY <2>4, <2>5, <2>6 DEF ThreadsSound
<1>7. ASSUME NEW p \in Lease, StopClient(p) PROVE ThreadsSound'
  <2>1. PICK s \in Stream :
             /\ s[1] = p /\ proxies[p].stopped /\ GivenUp(p)
             /\ proxies' = [proxies EXCEPT ![p].left = proxies[p].left \ {s[2]}]
             /\ UNCHANGED <<lease, client, toApp, toServer, app>>
    BY <1>7, ClientStopped
  <2>3. /\ \A q \in Lease : q # p => proxies'[q] = proxies[q]
        /\ \A q \in Lease : proxies'[q].opening = proxies[q].opening
        /\ proxies'[p].left = proxies[p].left \ {s[2]} /\ proxies'[p].stopped = proxies[p].stopped
    BY <1>0, <1>2, <2>1 DEF Shape, Proxy
  <2>4. ASSUME NEW t \in Stream PROVE ClientSound(t)'
    BY <1>0, <1>1, <2>1, <2>3, SameClient
  <2>5. ASSUME NEW q \in Lease PROVE ProxySound(q)'
    <3>2. CASE q # p
      BY <1>0, <2>1, <2>3, <3>2, SameProxy
    <3>3. CASE q = p
      <4>1. ~(p > lease.n)
        BY <1>2, <2>1 DEF GivenUp
      <4>. QED BY <1>0, <2>1, <2>3, <3>3, <4>1 DEF ProxySound, GivenUp
    <3>. QED BY <3>2, <3>3
  <2>6. LeaseSound'
    BY <1>0, <2>1 DEF LeaseSound
  <2>. QED BY <2>4, <2>5, <2>6 DEF ThreadsSound
<1>8. ASSUME NEW s \in Stream, ReadChunk(s) PROVE ThreadsSound'
  <2>1. /\ client[s].at = "read" /\ OnlyClient(s)
        /\ client'[s] = [client[s] EXCEPT !.at = "holds", !.sent = client[s].sent + 1]
        /\ lease' = lease /\ proxies' = proxies
    BY <1>0, <1>8, ChunkRead
  <2>2. /\ client'[s].at = "holds" /\ client'[s].sent = client[s].sent + 1 /\ client[s].sent \in Nat
        /\ client'[s].closes = client[s].closes /\ client'[s].registered = client[s].registered
    BY <1>1, <2>1 DEF Client
  <2>3. ClientSound(s)'
    BY <1>0, <1>1, <2>1, <2>2 DEF ClientSound
  <2>. QED BY <1>0, <2>1, <2>2, <2>3, OneReader
<1>9. ASSUME NEW s \in Stream, SendChunk(s) PROVE ThreadsSound'
  <2>1. /\ client[s].at = "holds" /\ OnlyClient(s)
        /\ \/ client'[s] = [client[s] EXCEPT !.at = "overflow"]
           \/ client'[s] = [client[s] EXCEPT !.at = ReadOn(s)]
        /\ lease' = lease /\ proxies' = proxies
    BY <1>0, <1>9, ChunkSent
  <2>2. /\ client'[s].at \in {"overflow", "read", "leaving"} /\ client'[s].sent = client[s].sent
        /\ client'[s].closes = client[s].closes /\ client'[s].registered = client[s].registered
    BY <1>1, <2>1 DEF Client
  <2>3. ClientSound(s)'
    BY <1>0, <1>1, <2>1, <2>2 DEF ClientSound
  <2>4. client'[s].at # "none" /\ client[s].at # "none"
    BY <2>1, <2>2
  <2>. QED BY <1>0, <2>1, <2>3, <2>4, OneReader
<1>10. ASSUME NEW s \in Stream, ResetStream(s) PROVE ThreadsSound'
  <2>1. /\ client[s].at = "overflow" /\ OnlyClient(s)
        /\ \/ client'[s] = [client[s] EXCEPT !.registered = FALSE, !.at = "closing", !.closes = s[1]]
           \/ client'[s] = [client[s] EXCEPT !.at = ReadOn(s)]
        /\ lease' = lease /\ proxies' = proxies
    BY <1>10, StreamReset
  <2>2. /\ client'[s].at \in {"closing", "read", "leaving"} /\ client'[s].sent = client[s].sent
        /\ client'[s].at = "closing" => client'[s].closes = s[1] /\ ~client'[s].registered
    BY <1>1, <2>1 DEF Client
  <2>3. ClientSound(s)'
    BY <1>0, <1>1, <2>1, <2>2 DEF ClientSound
  <2>4. client'[s].at # "none" /\ client[s].at # "none"
    BY <2>1, <2>2
  <2>. QED BY <1>0, <2>1, <2>3, <2>4, OneReader
<1>11. ASSUME NEW s \in Stream, ReaderEnds(s) PROVE ThreadsSound'
  <2>1. /\ client[s].at \in {"read", "leaving"} /\ OnlyClient(s)
        /\ \/ client'[s] = [client[s] EXCEPT !.registered = FALSE, !.at = "closing", !.closes = s[1]]
           \/ client'[s] = Over
        /\ lease' = lease /\ proxies' = proxies
    BY <1>11, ReaderEnded
  <2>2. /\ client'[s].at \in {"closing", "done"} /\ ~client'[s].registered
        /\ client'[s].at = "closing" => client'[s].closes = s[1]
    BY <1>1, <2>1 DEF Client, Over, NewClient
  <2>3. ClientSound(s)'
    BY <1>0, <1>1, <2>1, <2>2 DEF ClientSound
  <2>4. client'[s].at # "none" /\ client[s].at # "none"
    BY <2>1, <2>2
  <2>. QED BY <1>0, <2>1, <2>3, <2>4, OneReader
<1>12. ASSUME NEW s \in Stream, SendClose(s) PROVE ThreadsSound'
  <2>1. /\ client[s].at = "closing" /\ OnlyClient(s)
        /\ \/ client'[s] = [client[s] EXCEPT !.at = "leaving", !.closes = 0]
           \/ client'[s] = Over
        /\ lease' = lease /\ proxies' = proxies
    BY <1>12, CloseSent
  <2>2. client'[s].at \in {"leaving", "done"} /\ ~client'[s].registered
    <3>1. client[s] \in Client /\ ~client[s].registered
      BY <1>0, <1>1, <2>1 DEF ClientSound
    <3>2. CASE client'[s] = [client[s] EXCEPT !.at = "leaving", !.closes = 0]
      BY <3>1, <3>2 DEF Client
    <3>3. CASE client'[s] = Over
      BY <3>3 DEF Over, NewClient
    <3>. QED BY <2>1, <3>2, <3>3
  <2>3. ClientSound(s)'
    BY <1>0, <1>1, <2>1, <2>2 DEF ClientSound
  <2>4. client'[s].at # "none" /\ client[s].at # "none"
    BY <2>1, <2>2
  <2>. QED BY <1>0, <2>1, <2>3, <2>4, OneReader
<1>13. CASE AcquireProxy
  <2>1. /\ lease'.n = lease.n + 1 /\ lease'.proxy = lease.n + 1 /\ lease'.phase = "starting"
        /\ lease.phase = "idle" /\ UNCHANGED <<client, proxies>>
    BY <1>13, LeaseStepSends DEF AcquireProxy
  <2>2. LeaseSound'
    BY <1>2, <2>1 DEF LeaseSound
  <2>3. ASSUME NEW t \in Stream PROVE ClientSound(t)'
    <3>1. t[1] \in Nat
      BY <1>1, <1>2
    <3>. QED BY <1>0, <1>2, <2>1, <3>1 DEF ClientSound
  <2>4. ASSUME NEW p \in Lease PROVE ProxySound(p)'
    BY <1>0, <1>2, <2>1 DEF ProxySound, GivenUp
  <2>. QED BY <2>2, <2>3, <2>4 DEF ThreadsSound
<1>14. CASE Detach \/ StopAfterDetach \/ StopFailedStart \/ OnBrowserReady \/ OnBrowserStopped
  <2>0. LeaseSound
    BY <1>0
  <2>1. /\ (lease'.n = lease.n /\ lease'.proxy \in {0, lease.proxy} /\ lease'.phase # "starting") \/ lease' = lease
        /\ UNCHANGED <<client, proxies>>
    BY <1>0, <1>14 DEF Detach, StopAfterDetach, StopFailedStart, OnBrowserReady, OnBrowserStopped, Shape
  <2>2. LeaseSound'
    <3>1. lease \in [n : 0..MaxLeases, proxy : 0..MaxLeases,
                     phase : {"idle", "starting", "ready", "detaching", "stopping"}]
      BY <1>0 DEF Shape
    <3>2. CASE Detach
      BY <2>0, <3>1, <3>2 DEF LeaseSound, Detach
    <3>3. CASE StopAfterDetach
      BY <2>0, <3>1, <3>3 DEF LeaseSound, StopAfterDetach
    <3>4. CASE StopFailedStart
      BY <2>0, <3>1, <3>4 DEF LeaseSound, StopFailedStart
    <3>5. CASE OnBrowserReady
      BY <2>0, <3>1, <3>5 DEF LeaseSound, OnBrowserReady
    <3>6. CASE OnBrowserStopped
      BY <2>0, <3>1, <3>6 DEF LeaseSound, OnBrowserStopped
    <3>. QED BY <1>14, <3>2, <3>3, <3>4, <3>5, <3>6
  <2>3. ASSUME NEW t \in Stream PROVE ClientSound(t)'
    BY <1>0, <2>1 DEF ClientSound
  <2>4. ASSUME NEW p \in Lease PROVE ProxySound(p)'
    BY <1>0, <1>2, <2>1 DEF ProxySound, GivenUp
  <2>. QED BY <2>2, <2>3, <2>4 DEF ThreadsSound
<1>15. CASE OnData
  <2>0. lease' = lease /\ proxies' = proxies
    BY <1>15, DataHeard
  <2>1. CASE client' = client
    BY <2>0, <2>1, <1>3
  <2>2. ASSUME NEW s \in Stream, KnownStream(s), OnlyClient(s),
               \/ client'[s] = [client[s] EXCEPT !.got = client[s].got \o Head(toServer).chunks]
               \/ client'[s] = [client[s] EXCEPT !.registered = FALSE]
        PROVE  ThreadsSound'
    <3>1. /\ client[s].at \notin {"none", "done", "closing"} /\ client'[s].at = client[s].at
          /\ client'[s].sent = client[s].sent
      BY <1>0, <1>1, <2>2 DEF Client, KnownStream, ClientSound
    <3>2. ClientSound(s)'
      BY <1>0, <1>1, <2>0, <3>1 DEF ClientSound
    <3>3. client'[s].at # "none" /\ client[s].at # "none"
      BY <3>1
    <3>. QED BY <1>0, <2>0, <2>2, <3>2, <3>3, OneReader
  <2>. QED BY <1>15, <2>1, <2>2, DataHeard
<1>16. CASE OnClose
  <2>0. lease' = lease /\ proxies' = proxies
    BY <1>16, CloseHeard
  <2>1. CASE client' = client
    BY <2>0, <2>1, <1>3
  <2>2. ASSUME NEW s \in Stream, KnownStream(s), OnlyClient(s),
               client'[s] = [client[s] EXCEPT !.registered = FALSE]
        PROVE  ThreadsSound'
    <3>1. /\ client[s].at \notin {"none", "done", "closing"} /\ client'[s].at = client[s].at
          /\ client'[s].sent = client[s].sent
      BY <1>0, <1>1, <2>2 DEF Client, KnownStream, ClientSound
    <3>2. ClientSound(s)'
      BY <1>0, <1>1, <2>0, <3>1 DEF ClientSound
    <3>3. client'[s].at # "none" /\ client[s].at # "none"
      BY <3>1
    <3>. QED BY <1>0, <2>0, <2>2, <3>2, <3>3, OneReader
  <2>. QED BY <1>16, <2>1, <2>2, CloseHeard
<1>17. CASE AppStart \/ AppStop \/ AppOpen \/ AppData \/ AppClose
  BY <1>3, <1>17 DEF AppStart, AppStop, AppOpen, AppData, AppClose, FromServer
<1>18. CASE Wake \/ DrainFlushes \/ DrainRechecks \/ DrainAwakes \/ AppReady \/ AppConnected \/ AppPumps
  BY <1>3, <1>18 DEF Wake, DrainFlushes, DrainRechecks, DrainAwakes, AppReady, AppConnected, AppPumps
<1>. QED BY <1>4, <1>5, <1>6, <1>7, <1>8, <1>9, <1>10, <1>11, <1>12, <1>13, <1>14, <1>15, <1>16, <1>17, <1>18
         DEF TunnelNext

-----------------------------------------------------------------------------
(* The start and the stop of a lease, and the era, stay where they are       *)

LEMMA MergedKeeps ==
    ASSUME NEW Q \in Seq(SoundFrame), NEW R \in Seq(SoundFrame), Merged(Q, R)
    PROVE  /\ \A kind, s : Has(Q, kind, s) <=> Has(R, kind, s)
           /\ \A kind : Lacks(Q, kind) <=> Lacks(R, kind)
           /\ \A s, n : Carries(Q, s, n) <=> Carries(R, s, n)
           /\ \A kind : kind # "data" /\ Once(Q, kind) => Once(R, kind)
           /\ \A one, other : one # other /\ Precedes(Q, one, other) => Precedes(R, one, other)
           /\ \A s : Ordered(Q, s) => Ordered(R, s)
           /\ \A s : OpenFirst(Q, s) => OpenFirst(R, s)
           /\ \A s : OpenBeforeClose(Q, s) => OpenBeforeClose(R, s)
<1>1. PICK m \in Nat : m = Len(Q) /\ DOMAIN Q = 1..m
  BY LenProperties
<1>2. PICK l \in Nat : DOMAIN R = 1..l
  BY LenProperties
<1>3. ASSUME NEW q \in DOMAIN Q, NEW k \in DOMAIN Q[q].chunks
      PROVE  k \in Nat /\ Q[q].chunks[k].n \in Nat
  <2>1. Q[q] \in SoundFrame
    BY <1>1, ElementOfSeq
  <2>2. PICK c \in Seq(Chunk) : c = Q[q].chunks
    BY <2>1 DEF SoundFrame, Frame
  <2>3. k \in 1..Len(c) /\ Len(c) \in Nat
    BY <1>3, <2>2, LenProperties
  <2>4. c[k] \in Chunk
    BY <2>3, ElementOfSeq
  <2>. QED BY <2>2, <2>3, <2>4 DEF Chunk
<1>4. /\ \A kind, s : Has(Q, kind, s) <=> Has(R, kind, s)
      /\ \A kind : Lacks(Q, kind) <=> Lacks(R, kind)
      /\ \A s, i : Carries(Q, s, i) <=> Carries(R, s, i)
  BY MergedHas
<1>5. /\ \A kind : kind # "data" /\ Once(Q, kind) => Once(R, kind)
      /\ \A one, other : one # other /\ Precedes(Q, one, other) => Precedes(R, one, other)
      /\ \A s : Ordered(Q, s) => Ordered(R, s)
      /\ \A s : OpenFirst(Q, s) => OpenFirst(R, s)
      /\ \A s : OpenBeforeClose(Q, s) => OpenBeforeClose(R, s)
  BY <1>1, <1>2, <1>3, MergedOrder
<1>. QED BY <1>4, <1>5

\* The control frames of R are where those of Q are
SameControls(Q, R) ==
    /\ \A kind \in {"start", "stop"} : (Lacks(Q, kind) <=> Lacks(R, kind)) /\ (Once(Q, kind) => Once(R, kind))
    /\ Precedes(Q, "start", "stop") => Precedes(R, "start", "stop")
NoNewNotices(Q, R) ==
    /\ Lacks(Q, "ready") => Lacks(R, "ready")
    /\ Lacks(Q, "stopped") => Lacks(R, "stopped")
    /\ Once(Q, "stopped") => Once(R, "stopped")
    /\ Precedes(Q, "ready", "stopped") => Precedes(R, "ready", "stopped")

LEMMA ControlsStay ==
    ASSUME NEW Q, NEW R, NEW f
    PROVE  /\ Grown(Q, R, f) /\ f.kind \in MuxKind => SameControls(Q, R)
           /\ Shrunk(Q, R, f) /\ f.kind \in MuxKind => SameControls(Q, R)
           /\ Grown(Q, R, f) /\ f.kind \in MuxKind => NoNewNotices(Q, R)
           /\ Shrunk(Q, R, f) => NoNewNotices(Q, R)
<1>1. ASSUME Grown(Q, R, f), f.kind \in MuxKind PROVE SameControls(Q, R) /\ NoNewNotices(Q, R)
  <2>1. f.kind \notin {"start", "stop", "ready", "stopped"}
    BY <1>1 DEF MuxKind
  <2>2. \A kind \in {"start", "stop", "ready", "stopped"} :
            (Lacks(Q, kind) <=> Lacks(R, kind)) /\ (Once(Q, kind) => Once(R, kind))
    BY <1>1, <2>1, GrownHas, GrownOrder
  <2>3. Precedes(Q, "start", "stop") => Precedes(R, "start", "stop")
    BY <1>1, <2>1, GrownOrder
  <2>4. Precedes(Q, "ready", "stopped") => Precedes(R, "ready", "stopped")
    BY <1>1, <2>1, GrownOrder
  <2>. QED BY <2>2, <2>3, <2>4 DEF SameControls, NoNewNotices
<1>2. ASSUME Shrunk(Q, R, f), f.kind \in MuxKind PROVE SameControls(Q, R)
  <2>1. f.kind \notin {"start", "stop"}
    BY <1>2 DEF MuxKind
  <2>2. \A kind \in {"start", "stop"} :
            (Lacks(Q, kind) <=> Lacks(R, kind)) /\ (Once(Q, kind) => Once(R, kind))
    BY <1>2, <2>1, ShrunkHas, ShrunkOrder
  <2>3. Precedes(Q, "start", "stop") => Precedes(R, "start", "stop")
    BY <1>2, <2>1, ShrunkOrder
  <2>. QED BY <2>2, <2>3 DEF SameControls
<1>3. ASSUME Shrunk(Q, R, f) PROVE NoNewNotices(Q, R)
  BY <1>3, ShrunkHas, ShrunkOrder DEF NoNewNotices
<1>. QED BY <1>1, <1>2, <1>3

LEMMA PhaseStays ==
    ASSUME PhaseSound, lease'.phase = lease.phase, app'.chrome = app.chrome,
           app.chrome # "up" => \A ch \in app'.channels : ch.connecting,
           SameControls(InTransit, InTransit'), NoNewNotices(toServer, toServer'),
           lease.phase = "starting" /\ app.chrome = "up" =>
              (\A kind : Lacks(InTransit', kind)) /\ app'.channels = {} /\ ReadyLast'
    PROVE  PhaseSound'
<1>1. /\ \A kind \in {"start", "stop"} : Lacks(InTransit, kind) <=> Lacks(InTransit', kind)
      /\ Once(InTransit, "start") => Once(InTransit', "start")
      /\ Once(InTransit, "stop") => Once(InTransit', "stop")
      /\ Precedes(InTransit, "start", "stop") => Precedes(InTransit', "start", "stop")
  BY DEF SameControls
<1>2. /\ Lacks(toServer, "ready") => Lacks(toServer', "ready")
      /\ Lacks(toServer, "stopped") => Lacks(toServer', "stopped")
      /\ Once(toServer, "stopped") => Once(toServer', "stopped")
      /\ Precedes(toServer, "ready", "stopped") => Precedes(toServer', "ready", "stopped")
  BY DEF NoNewNotices
<1>. QED BY <1>1, <1>2 DEF PhaseSound

LEMMA SameQueues ==
    ASSUME NEW Q
    PROVE  SameControls(Q, Q) /\ NoNewNotices(Q, Q)
BY DEF SameControls, NoNewNotices

\* While Chrome is up for a lease that does not know it yet, nobody is at work.
LEMMA NobodyAtWork ==
    ASSUME Base, lease.phase = "starting", app.chrome = "up"
    PROVE  /\ \A s \in Stream : client[s].at \in {"none", "done"} /\ ~client[s].registered
           /\ \A p \in Lease : proxies[p].opening = 0 /\ proxies[p].left = {}
<1>1. AllOf(lease.n)
  BY DEF Base, OneEra
<1>2. \A s \in Stream : client[s].at \in {"none", "done"}
  BY <1>1 DEF Base, ThreadsSound, ClientSound, AllOf
<1>3. \A s \in Stream : ~client[s].registered
  BY <1>2 DEF Base, ThreadsSound, ClientSound
<1>4. ASSUME NEW p \in Lease PROVE proxies[p].opening = 0 /\ proxies[p].left = {}
  <2>1. CASE p # lease.n
    BY <1>1, <2>1 DEF AllOf
  <2>2. CASE p = lease.n
    <3>1. proxies[p].left = {}
      BY <2>2 DEF Base, ThreadsSound, ProxySound, LeaseSound, GivenUp
    <3>2. ASSUME proxies[p].opening # 0 PROVE FALSE
      <4>1. proxies[p].opening \in Id
        BY <3>2 DEF Base, Shape, Proxy
      <4>2. <<p, proxies[p].opening>> \in Stream
        BY <4>1 DEF Stream
      <4>3. PICK s \in Stream : s[1] = p /\ s[2] = proxies[p].opening
        BY <4>2
      <4>4. client[s].at = "accepted"
        BY <4>3 DEF Base, ThreadsSound, ClientSound
      <4>. QED BY <4>4, <1>2
    <3>. QED BY <3>1, <3>2
  <2>. QED BY <2>1, <2>2
<1>. QED BY <1>2, <1>3, <1>4

\* A thread of stream s is at work: s is of the era, and Chrome is not up unknown.
IsCurrent(s) == \A e \in 0..lease.n : AllOf(e) /\ (app.chrome = "up" => e = lease.n) => s[1] = e
Work(s) ==
    /\ UNCHANGED <<lease, toServer, app>>
    /\ \A t \in Stream : t # s => client'[t].at = client[t].at
    /\ client'[s].at # "none"
    /\ IsCurrent(s) /\ ~(lease.phase = "starting" /\ app.chrome = "up")
    /\ \/ InTransit' = InTransit
       \/ \E f \in Enqueued : f.kind \in MuxKind /\ Tag(f) = s /\ Grown(InTransit, InTransit', f)
    /\ \A p \in Lease : p # s[1] => proxies'[p] = proxies[p]

LEMMA CurrentOnes ==
    ASSUME Base, NEW s \in Stream
    PROVE  /\ client[s].at \notin {"none", "done"} =>
                IsCurrent(s) /\ ~(lease.phase = "starting" /\ app.chrome = "up")
           /\ client[s].registered =>
                IsCurrent(s) /\ ~(lease.phase = "starting" /\ app.chrome = "up")
           /\ s[2] \in proxies[s[1]].left =>
                IsCurrent(s) /\ ~(lease.phase = "starting" /\ app.chrome = "up")
           /\ lease.phase \in {"ready", "detaching"} /\ s[1] = lease.n =>
                IsCurrent(s) /\ ~(lease.phase = "starting" /\ app.chrome = "up")
           /\ \A kind \in MuxKind : Has(InTransit, kind, s) =>
                IsCurrent(s) /\ ~(lease.phase = "starting" /\ app.chrome = "up")
           /\ \A ch \in app.channels : ch.of = s =>
                IsCurrent(s) /\ ~(lease.phase = "starting" /\ app.chrome = "up")
<1>1. s[1] \in Lease
  BY DEF Stream
<1>2. client[s].at \notin {"none", "done"} => IsCurrent(s) /\ ~(lease.phase = "starting" /\ app.chrome = "up")
  BY NobodyAtWork DEF IsCurrent, AllOf
<1>3. client[s].registered => client[s].at \notin {"none", "done"}
  BY DEF Base, ThreadsSound, ClientSound
<1>4. s[2] \in proxies[s[1]].left => IsCurrent(s) /\ ~(lease.phase = "starting" /\ app.chrome = "up")
  BY <1>1, NobodyAtWork DEF IsCurrent, AllOf
<1>5. lease.phase \in {"ready", "detaching"} /\ s[1] = lease.n =>
          IsCurrent(s) /\ ~(lease.phase = "starting" /\ app.chrome = "up")
  BY DEF IsCurrent, Base, PhaseSound
<1>6. ASSUME NEW kind \in MuxKind, Has(InTransit, kind, s)
      PROVE  IsCurrent(s) /\ ~(lease.phase = "starting" /\ app.chrome = "up")
  <2>1. ~Lacks(InTransit, kind)
    BY <1>6 DEF Has, Lacks
  <2>. QED BY <1>6, <2>1 DEF IsCurrent, AllOf, Base, PhaseSound
<1>7. ASSUME NEW ch \in app.channels, ch.of = s
      PROVE  IsCurrent(s) /\ ~(lease.phase = "starting" /\ app.chrome = "up")
  BY <1>7 DEF IsCurrent, AllOf, Base, PhaseSound
<1>. QED BY <1>2, <1>3, <1>4, <1>5, <1>6, <1>7

LEMMA ThreadsWork ==
    ASSUME Base
    PROVE  /\ \A p \in Lease : Accept(p) \/ SendOpen(p) \/ StopClient(p) => \E s \in Stream : Work(s)
           /\ \A s \in Stream : ReadChunk(s) \/ SendChunk(s) \/ ResetStream(s) \/ ReaderEnds(s) \/ SendClose(s)
                => Work(s)
<1>0. Shape /\ \A t \in Stream : client[t] \in Client
  BY DEF Base, Shape
<1>1. \A s \in Stream, kind \in MuxKind : Mux(kind, s).kind \in MuxKind /\ Tag(Mux(kind, s)) = s
  BY ClientFrames
<1>2. outbox' = outbox /\ toApp' = toApp => InTransit' = InTransit
  BY DEF InTransit
<1>3. ASSUME NEW p \in Lease, Accept(p) PROVE \E s \in Stream : Work(s)
  <2>1. PICK s \in Stream :
             /\ s[1] = p /\ lease.n = p /\ lease.phase \in {"ready", "detaching"}
             /\ OnlyClient(s) /\ client'[s] = [client[s] EXCEPT !.registered = TRUE, !.at = "accepted"]
             /\ proxies' = [proxies EXCEPT ![p].opening = s[2]]
             /\ UNCHANGED <<lease, outbox, drain, toApp, toServer, app>>
    BY <1>0, <1>3, Accepted
  <2>2. client'[s].at = "accepted"
    BY <1>0, <2>1 DEF Client
  <2>3. \A q \in Lease : q # s[1] => proxies'[q] = proxies[q]
    BY <1>0, <2>1 DEF Shape
  <2>4. IsCurrent(s) /\ ~(lease.phase = "starting" /\ app.chrome = "up")
    BY <2>1, CurrentOnes
  <2>. QED BY <1>2, <2>1, <2>2, <2>3, <2>4 DEF Work, OnlyClient
<1>4. ASSUME NEW p \in Lease, SendOpen(p) PROVE \E s \in Stream : Work(s)
  <2>1. PICK s \in Stream :
             /\ s[1] = p /\ client[s].at = "accepted"
             /\ OnlyClient(s) /\ client'[s] = [client[s] EXCEPT !.at = ReadOn(s)]
             /\ proxies' = [proxies EXCEPT ![p].opening = 0]
             /\ Sends(Mux("open", s))
             /\ UNCHANGED <<lease, toApp, toServer, app>>
    BY <1>4, OpenSent
  <2>2. client'[s].at # "none"
    BY <1>0, <2>1 DEF Client, ReadOn
  <2>3. \A q \in Lease : q # s[1] => proxies'[q] = proxies[q]
    BY <1>0, <2>1 DEF Shape
  <2>4. IsCurrent(s) /\ ~(lease.phase = "starting" /\ app.chrome = "up")
    BY <2>1, CurrentOnes
  <2>5. \E f \in Enqueued : f.kind \in MuxKind /\ Tag(f) = s /\ Grown(InTransit, InTransit', f)
    BY <1>1, <2>1, ClientFrames DEF Sends, MuxKind
  <2>. QED BY <2>1, <2>2, <2>3, <2>4, <2>5 DEF Work, OnlyClient
<1>5. ASSUME NEW p \in Lease, StopClient(p) PROVE \E s \in Stream : Work(s)
  <2>1. PICK s \in Stream :
             /\ s[1] = p /\ s[2] \in proxies[p].left
             /\ client[s].at # "none"
             /\ proxies' = [proxies EXCEPT ![p].left = proxies[p].left \ {s[2]}]
             /\ Sends(Mux("close", s))
             /\ UNCHANGED <<lease, client, toApp, toServer, app>>
    BY <1>5, ClientStopped
  <2>3. \A q \in Lease : q # s[1] => proxies'[q] = proxies[q]
    BY <1>0, <2>1 DEF Shape
  <2>4. IsCurrent(s) /\ ~(lease.phase = "starting" /\ app.chrome = "up")
    BY <2>1, CurrentOnes
  <2>5. \E f \in Enqueued : f.kind \in MuxKind /\ Tag(f) = s /\ Grown(InTransit, InTransit', f)
    BY <1>1, <2>1, ClientFrames DEF Sends, MuxKind
  <2>. QED BY <2>1, <2>3, <2>4, <2>5 DEF Work
<1>6. ASSUME NEW s \in Stream, ReadChunk(s) PROVE Work(s)
  <2>1. /\ client[s].at = "read" /\ OnlyClient(s)
        /\ client'[s] = [client[s] EXCEPT !.at = "holds", !.sent = client[s].sent + 1]
        /\ UNCHANGED <<lease, proxies, outbox, drain, toApp, toServer, app>>
    BY <1>0, <1>6, ChunkRead
  <2>2. client'[s].at # "none"
    BY <1>0, <2>1 DEF Client
  <2>4. IsCurrent(s) /\ ~(lease.phase = "starting" /\ app.chrome = "up")
    BY <2>1, CurrentOnes
  <2>. QED BY <1>2, <2>1, <2>2, <2>4 DEF Work, OnlyClient
<1>7. ASSUME NEW s \in Stream, SendChunk(s) PROVE Work(s)
  <2>1. /\ client[s].at = "holds" /\ OnlyClient(s)
        /\ \/ /\ client'[s] = [client[s] EXCEPT !.at = "overflow"]
              /\ UNCHANGED <<outbox, drain>>
           \/ /\ client'[s] = [client[s] EXCEPT !.at = ReadOn(s)]
              /\ Sends(Data(s))
        /\ UNCHANGED <<lease, proxies, toApp, toServer, app>>
    BY <1>0, <1>7, ChunkSent
  <2>2. client'[s].at # "none"
    BY <1>0, <2>1 DEF Client, ReadOn
  <2>4. IsCurrent(s) /\ ~(lease.phase = "starting" /\ app.chrome = "up")
    BY <2>1, CurrentOnes
  <2>5. \/ InTransit' = InTransit
        \/ \E f \in Enqueued : f.kind \in MuxKind /\ Tag(f) = s /\ Grown(InTransit, InTransit', f)
    BY <1>0, <1>2, <2>1, DataFrames DEF Sends, MuxKind
  <2>. QED BY <2>1, <2>2, <2>4, <2>5 DEF Work, OnlyClient
<1>8. ASSUME NEW s \in Stream, ResetStream(s) PROVE Work(s)
  <2>1. /\ client[s].at = "overflow" /\ OnlyClient(s)
        /\ \/ client'[s] = [client[s] EXCEPT !.registered = FALSE, !.at = "closing", !.closes = s[1]]
           \/ client'[s] = [client[s] EXCEPT !.at = ReadOn(s)]
        /\ UNCHANGED <<lease, proxies, outbox, drain, toApp, toServer, app>>
    BY <1>8, StreamReset
  <2>2. client'[s].at # "none"
    BY <1>0, <2>1 DEF Client, ReadOn
  <2>4. IsCurrent(s) /\ ~(lease.phase = "starting" /\ app.chrome = "up")
    BY <2>1, CurrentOnes
  <2>. QED BY <1>2, <2>1, <2>2, <2>4 DEF Work, OnlyClient
<1>9. ASSUME NEW s \in Stream, ReaderEnds(s) PROVE Work(s)
  <2>1. /\ client[s].at \in {"read", "leaving"} /\ OnlyClient(s)
        /\ \/ client'[s] = [client[s] EXCEPT !.registered = FALSE, !.at = "closing", !.closes = s[1]]
           \/ client'[s] = Over
        /\ UNCHANGED <<lease, proxies, outbox, drain, toApp, toServer, app>>
    BY <1>9, ReaderEnded
  <2>2. client'[s].at # "none"
    BY <1>0, <2>1, OverIsClient DEF Client
  <2>4. IsCurrent(s) /\ ~(lease.phase = "starting" /\ app.chrome = "up")
    BY <2>1, CurrentOnes
  <2>. QED BY <1>2, <2>1, <2>2, <2>4 DEF Work, OnlyClient
<1>10. ASSUME NEW s \in Stream, SendClose(s) PROVE Work(s)
  <2>1. /\ client[s].at = "closing" /\ OnlyClient(s)
        /\ \/ client'[s] = [client[s] EXCEPT !.at = "leaving", !.closes = 0]
           \/ client'[s] = Over
        /\ Sends(Mux("close", s))
        /\ UNCHANGED <<lease, proxies, toApp, toServer, app>>
    BY <1>10, CloseSent
  <2>2. client'[s].at # "none"
    BY <1>0, <2>1, OverIsClient DEF Client
  <2>4. IsCurrent(s) /\ ~(lease.phase = "starting" /\ app.chrome = "up")
    BY <2>1, CurrentOnes
  <2>5. \E f \in Enqueued : f.kind \in MuxKind /\ Tag(f) = s /\ Grown(InTransit, InTransit', f)
    BY <1>1, <2>1, ClientFrames DEF Sends, MuxKind
  <2>. QED BY <2>1, <2>2, <2>4, <2>5 DEF Work, OnlyClient
<1>. QED BY <1>3, <1>4, <1>5, <1>6, <1>7, <1>8, <1>9, <1>10

\* ReadyLast of a queue of answers
LastIs(Q, kind) == \E r \in DOMAIN Q :
    Q[r].kind = kind /\ \A q \in DOMAIN Q : q # r => q < r /\ Q[q].kind # kind

LEMMA LastOnes ==
    ASSUME NEW Q, NEW R, NEW f, NEW kind
    PROVE  /\ Shrunk(Q, R, f) /\ LastIs(Q, kind) /\ f.kind # kind => LastIs(R, kind)
           /\ Shrunk(Q, R, f) /\ LastIs(Q, kind) /\ f.kind = kind => \A other : Lacks(R, other)
           /\ Grown(Q, R, f) /\ Lacks(Q, kind) /\ f.kind = kind => LastIs(R, kind)
<1>1. ASSUME Shrunk(Q, R, f), LastIs(Q, kind), f.kind # kind PROVE LastIs(R, kind)
  <2>1. PICK z \in Nat : /\ DOMAIN Q = 1..(z + 1) /\ DOMAIN R = 1..z /\ Q[1] = f
                         /\ \A q \in 1..z : R[q] = Q[q + 1]
    BY <1>1 DEF Shrunk
  <2>2. PICK r \in 1..(z + 1) : Q[r].kind = kind /\ \A q \in 1..(z + 1) : q # r => q < r /\ Q[q].kind # kind
    BY <1>1, <2>1 DEF LastIs
  <2>3. r # 1
    BY <1>1, <2>1, <2>2
  <2>4. PICK i \in 1..z : i = r - 1 /\ r = i + 1
    BY <2>2, <2>3
  <2>5. R[i].kind = kind
    BY <2>1, <2>2, <2>4
  <2>6. ASSUME NEW q \in 1..z, q # i PROVE q < i /\ R[q].kind # kind
    <3>1. q + 1 \in 1..(z + 1) /\ q + 1 # r
      BY <2>4, <2>6
    <3>2. q + 1 < r /\ Q[q + 1].kind # kind
      BY <2>2, <3>1
    <3>. QED BY <2>1, <2>4, <3>2
  <2>. QED BY <2>1, <2>5, <2>6 DEF LastIs
<1>2. ASSUME Shrunk(Q, R, f), LastIs(Q, kind), f.kind = kind, NEW other PROVE Lacks(R, other)
  <2>1. PICK z \in Nat : /\ DOMAIN Q = 1..(z + 1) /\ DOMAIN R = 1..z /\ Q[1] = f
                         /\ \A q \in 1..z : R[q] = Q[q + 1]
    BY <1>2 DEF Shrunk
  <2>2. PICK r \in 1..(z + 1) : \A q \in 1..(z + 1) : q # r => q < r /\ Q[q].kind # kind
    BY <1>2, <2>1 DEF LastIs
  <2>3. 1 = r
    BY <1>2, <2>1, <2>2
  <2>4. z = 0
    <3>1. z + 1 \in 1..(z + 1)
      BY <2>1
    <3>2. z + 1 # r => z + 1 < r
      BY <2>2, <3>1
    <3>. QED BY <2>3, <3>2
  <2>5. DOMAIN R = {}
    BY <2>1, <2>4
  <2>. QED BY <2>5 DEF Lacks
<1>3. ASSUME Grown(Q, R, f), Lacks(Q, kind), f.kind = kind PROVE LastIs(R, kind)
  <2>1. PICK z \in Nat : /\ DOMAIN Q = 1..z /\ DOMAIN R = 1..(z + 1) /\ R[z + 1] = f
                         /\ \A q \in 1..z : R[q] = Q[q]
    BY <1>3 DEF Grown
  <2>2. ASSUME NEW q \in 1..(z + 1), q # z + 1 PROVE q < z + 1 /\ R[q].kind # kind
    <3>1. q \in 1..z
      BY <2>2
    <3>. QED BY <3>1, <2>1, <1>3 DEF Lacks
  <2>3. z + 1 \in 1..(z + 1) /\ R[z + 1].kind = kind
    BY <1>3, <2>1
  <2>. QED BY <2>1, <2>2, <2>3 DEF LastIs
<1>. QED BY <1>1, <1>2, <1>3

LEMMA ReadyIsLast == ReadyLast <=> LastIs(toServer, "ready")
BY DEF ReadyLast, LastIs

LEMMA GrownOnce ==
    ASSUME NEW Q, NEW R, NEW f, Grown(Q, R, f)
    PROVE  /\ \A kind : f.kind # kind => (Lacks(Q, kind) <=> Lacks(R, kind)) /\ (Once(Q, kind) => Once(R, kind))
           /\ ~Lacks(R, f.kind) /\ (Lacks(Q, f.kind) => Once(R, f.kind))
           /\ \A one, other : one # other /\ Lacks(Q, one) => Precedes(R, one, other) \/ f.kind = one
           /\ \A one : one # f.kind /\ Lacks(Q, f.kind) => Precedes(R, one, f.kind)
<1>1. \A kind : Lacks(R, kind) <=> Lacks(Q, kind) /\ f.kind # kind
  BY GrownHas
<1>2. \A kind : Once(Q, kind) /\ (f.kind = kind => Lacks(Q, kind)) => Once(R, kind)
  BY GrownOrder
<1>3. \A one, other : Precedes(Q, one, other) /\ one # other /\ (f.kind = one => Lacks(Q, other))
          => Precedes(R, one, other)
  BY GrownOrder
<1>4. \A kind : Lacks(Q, kind) => Once(Q, kind)
  BY DEF Lacks, Once
<1>5. \A one, other : Lacks(Q, one) => Precedes(Q, one, other)
  BY DEF Lacks, Precedes
<1>6. \A one, other : Lacks(Q, other) => Precedes(Q, one, other)
  BY DEF Lacks, Precedes
<1>. QED BY <1>1, <1>2, <1>3, <1>4, <1>5, <1>6

\* The frame that is taken out is of kind k: it was there.
LEMMA ShrunkHad ==
    ASSUME NEW Q, NEW R, NEW f, Shrunk(Q, R, f)
    PROVE  /\ ~Lacks(Q, f.kind) /\ Has(Q, f.kind, Tag(f))
           /\ \A kind : Lacks(Q, kind) => Lacks(R, kind)
           /\ \A kind : kind # f.kind => (Lacks(Q, kind) <=> Lacks(R, kind))
           /\ \A kind : Once(Q, kind) => Once(R, kind) /\ (f.kind = kind => Lacks(R, kind))
           /\ \A one, other : Precedes(Q, one, other) =>
                 Precedes(R, one, other) /\ (f.kind = other => Lacks(R, one))
BY ShrunkHas, ShrunkOrder

\* A thread that is at work disturbs neither.
LEMMA PhaseOfThreads == ASSUME Base, NEW s \in Stream, Work(s) PROVE PhaseSound'
<1>1. lease' = lease /\ app' = app /\ toServer' = toServer /\ ~(lease.phase = "starting" /\ app.chrome = "up")
  BY DEF Work
<1>2. SameControls(InTransit, InTransit')
  BY ControlsStay, SameQueues DEF Work
<1>3. NoNewNotices(toServer, toServer')
  BY <1>1, SameQueues
<1>. QED BY <1>1, <1>2, <1>3, PhaseStays DEF Base, PhaseSound

LEMMA PhaseOfSame ==
    ASSUME Base, UNCHANGED <<lease, outbox, toApp, toServer, app>>
    PROVE  PhaseSound'
<1>1. lease' = lease /\ app' = app /\ toServer' = toServer /\ InTransit' = InTransit
  BY DEF InTransit
<1>. QED BY <1>1 DEF Base, PhaseSound, ReadyLast

LEMMA PhaseOfDrain ==
    ASSUME Base, Flush, UNCHANGED <<lease, client, proxies, toServer, app>>
    PROVE  PhaseSound'
<1>1. Merged(InTransit, InTransit') /\ InTransit \in Seq(SoundFrame) /\ InTransit' \in Seq(SoundFrame)
  <2>1. toApp' \in Seq(SoundFrame) /\ outbox' \in Seq(Enqueued) /\ Merged(InTransit, InTransit')
    BY Flushed DEF Base
  <2>2. outbox' \in Seq(SoundFrame) /\ outbox \in Seq(SoundFrame) /\ toApp \in Seq(SoundFrame)
    BY <2>1, WiderSeq DEF Enqueued, Base, Shape
  <2>. QED BY <2>1, <2>2 DEF InTransit
<1>2. /\ \A kind : Lacks(InTransit, kind) <=> Lacks(InTransit', kind)
      /\ \A kind : kind # "data" /\ Once(InTransit, kind) => Once(InTransit', kind)
      /\ \A one, other : one # other /\ Precedes(InTransit, one, other) => Precedes(InTransit', one, other)
  BY <1>1, MergedKeeps
<1>3. SameControls(InTransit, InTransit')
  BY <1>2 DEF SameControls
<1>4. NoNewNotices(toServer, toServer')
  BY SameQueues
<1>5. app' = app /\ lease' = lease /\ (ReadyLast => ReadyLast')
  BY DEF ReadyLast
<1>. QED BY <1>2, <1>3, <1>4, <1>5, PhaseStays DEF Base, PhaseSound

\* The server hears DATA or CLOSE.
LEMMA PhaseOfAnswers == ASSUME Base, OnData \/ OnClose PROVE PhaseSound'
<1>1. /\ Shrunk(toServer, toServer', Head(toServer)) /\ Head(toServer).kind # "ready"
      /\ lease' = lease /\ app' = app
      /\ \/ InTransit' = InTransit
         \/ \E s \in Stream : KnownStream(s) /\ Grown(InTransit, InTransit', Mux("close", s))
  <2>1. outbox' = outbox /\ toApp' = toApp => InTransit' = InTransit
    BY DEF InTransit
  <2>2. CASE OnData
    BY <2>1, <2>2, DataHeard DEF Sends
  <2>3. CASE OnClose
    BY <2>1, <2>3, CloseHeard
  <2>. QED BY <2>2, <2>3
<1>2. SameControls(InTransit, InTransit')
  <2>1. CASE InTransit' = InTransit
    BY <2>1, SameQueues
  <2>2. CASE InTransit' # InTransit
    BY <1>1, <2>2, ClientFrames, ControlsStay DEF MuxKind
  <2>. QED BY <2>1, <2>2
<1>3. NoNewNotices(toServer, toServer')
  BY <1>1, ControlsStay
<1>4. ASSUME lease.phase = "starting", app.chrome = "up"
      PROVE  (\A kind : Lacks(InTransit', kind)) /\ app'.channels = {} /\ ReadyLast'
  <2>1. InTransit' = InTransit
    BY <1>1, <1>4, CurrentOnes DEF KnownStream
  <2>2. (\A kind : Lacks(InTransit, kind)) /\ app.channels = {} /\ ReadyLast
    BY <1>4 DEF Base, PhaseSound
  <2>3. LastIs(toServer, "ready")
    BY <2>2, ReadyIsLast
  <2>4. LastIs(toServer', "ready")
    BY <1>1, <2>3, LastOnes
  <2>5. ReadyLast'
    BY <2>4 DEF ReadyLast, LastIs
  <2>. QED BY <1>1, <2>1, <2>2, <2>5
<1>. QED BY <1>1, <1>2, <1>3, <1>4, PhaseStays DEF Base, PhaseSound

\* The app changes a channel of a frame's stream, or one that is there.
LEMMA PhaseOfChannels ==
    ASSUME Base, AppOpen \/ AppConnected \/ AppData \/ AppClose \/ AppPumps PROVE PhaseSound'
<1>1. /\ lease' = lease /\ app'.chrome = app.chrome
      /\ ~(lease.phase = "starting" /\ app.chrome = "up")
      /\ SameControls(InTransit, InTransit')
      /\ toServer' = toServer \/ \E a : a.kind \in MuxKind /\ Grown(toServer, toServer', a)
      /\ app.chrome # "up" => \A ch \in app'.channels : ch.connecting
  <2>0. app.chrome # "up" => \A ch \in app.channels : ch.connecting
    BY DEF Base, PhaseSound
  <2>a. Shape
    BY DEF Base
  <2>b. \A i \in Id : Answer("close", i, <<>>).kind \in MuxKind
    BY DEF Answer, MuxKind
  <2>1. ASSUME NEW kind \in MuxKind, Takes(kind)
        PROVE  /\ SameControls(InTransit, InTransit') /\ lease' = lease
               /\ ~(lease.phase = "starting" /\ app.chrome = "up")
    <3>1. Shrunk(InTransit, InTransit', Head(toApp)) /\ Head(toApp) \in SoundFrame /\ Head(toApp).kind = kind
      BY <2>1 DEF Takes
    <3>2. ~Lacks(InTransit, kind)
      BY <3>1, ShrunkHad
    <3>3. ~(lease.phase = "starting" /\ app.chrome = "up")
      BY <3>2 DEF Base, PhaseSound
    <3>. QED BY <2>1, <3>1, <3>3, ControlsStay DEF Takes
  <2>2. ASSUME NothingTaken, NEW ch \in app.channels
        PROVE  /\ SameControls(InTransit, InTransit') /\ lease' = lease
               /\ ~(lease.phase = "starting" /\ app.chrome = "up")
    BY <2>2, SameQueues DEF NothingTaken, InTransit, Base, PhaseSound
  <2>3. CASE AppOpen
    <3>1. PICK s \in Stream :
             /\ Takes("open")
             /\ \/ /\ \E d \in Channel : d.connecting /\ Channels(NotOf(s[2]) \cup {d})
                   /\ toServer' = toServer
                \/ /\ app.chrome # "up" /\ Channels(NotOf(s[2]))
                   /\ Answers(Answer("close", s[2], <<>>))
                \/ /\ Channels(app.channels)
                   /\ Answers(Answer("close", s[2], <<>>))
      BY <2>3, OpenTaken
    <3>2. app'.chrome = app.chrome /\ (app.chrome # "up" => \A ch \in app'.channels : ch.connecting)
      <4>1. PICK C : /\ app' = [chrome |-> app.chrome, channels |-> C]
                     /\ \A ch \in C : ch \in app.channels \/ ch.connecting \/ app.chrome = "up"
        BY <3>1 DEF Channels, NotOf
      <4>2. app'.chrome = app.chrome /\ app'.channels = C
        BY <4>1
      <4>. QED BY <2>0, <4>1, <4>2
    <3>3. s[2] \in Id
      BY DEF Stream
    <3>4. toServer' = toServer \/ Grown(toServer, toServer', Answer("close", s[2], <<>>))
      BY <3>1 DEF Answers
    <3>. QED BY <2>1, <2>b, <3>1, <3>2, <3>3, <3>4 DEF MuxKind
  <2>4. CASE AppConnected
    <3>1. NothingTaken
      BY <2>4, ConnectedIs
    <3>2. PICK ch \in app.channels :
             \/ /\ app.chrome = "up" /\ toServer' = toServer
                /\ Channels((app.channels \ {ch}) \cup {[ch EXCEPT !.connecting = FALSE]})
             \/ /\ Channels(app.channels \ {ch})
                /\ Answers(Answer("close", ch.id, <<>>))
      BY <2>4, ConnectedIs
    <3>3. ch.id \in Id
      BY <2>a, ChannelFacts
    <3>4. app'.chrome = app.chrome /\ (app.chrome # "up" => \A c \in app'.channels : c.connecting)
      BY <2>0, <3>2 DEF Channels
    <3>5. toServer' = toServer \/ Grown(toServer, toServer', Answer("close", ch.id, <<>>))
      BY <3>2 DEF Answers
    <3>. QED BY <2>2, <2>b, <3>1, <3>3, <3>4, <3>5
  <2>5. CASE AppData
    <3>1. Takes("data")
      BY <2>5, DataTaken
    <3>2. CASE app' = app /\ toServer' = toServer
      BY <2>0, <2>1, <3>1, <3>2 DEF MuxKind
    <3>3. CASE \E ch \in app.channels :
                    \/ /\ Channels((app.channels \ {ch}) \cup {[ch EXCEPT !.heard = ch.heard \o Head(toApp).chunks]})
                       /\ toServer' = toServer
                    \/ /\ Channels(app.channels \ {ch})
                       /\ Answers(Answer("close", ch.id, <<>>))
      <4>1. PICK ch \in app.channels :
                    \/ /\ Channels((app.channels \ {ch}) \cup {[ch EXCEPT !.heard = ch.heard \o Head(toApp).chunks]})
                       /\ toServer' = toServer
                    \/ /\ Channels(app.channels \ {ch})
                       /\ Answers(Answer("close", ch.id, <<>>))
        BY <3>3
      <4>2. ch.id \in Id /\ ch \in Channel
        BY <2>a, ChannelFacts
      <4>3. [ch EXCEPT !.heard = ch.heard \o Head(toApp).chunks].connecting = ch.connecting
        BY <4>2 DEF Channel
      <4>4. app'.chrome = app.chrome /\ (app.chrome # "up" => \A c \in app'.channels : c.connecting)
        <5>1. PICK C : /\ app' = [chrome |-> app.chrome, channels |-> C]
                       /\ \A c \in C : c \in app.channels \/ c.connecting = ch.connecting
          BY <4>1, <4>3 DEF Channels
        <5>2. app'.chrome = app.chrome /\ app'.channels = C
          BY <5>1
        <5>. QED BY <2>0, <5>1, <5>2
      <4>5. toServer' = toServer \/ Grown(toServer, toServer', Answer("close", ch.id, <<>>))
        BY <4>1 DEF Answers
      <4>. QED BY <2>1, <2>b, <3>1, <4>2, <4>4, <4>5 DEF MuxKind
    <3>. QED BY <2>5, <3>2, <3>3, DataTaken
  <2>6. CASE AppClose
    BY <2>0, <2>1, <2>6, CloseTaken DEF Channels, NotOf, MuxKind
  <2>7. CASE AppPumps
    <3>1. NothingTaken
      BY <2>7, PumpedIs
    <3>2. PICK ch \in app.channels :
             /\ ~ch.connecting
             /\ \/ /\ Channels((app.channels \ {ch}) \cup {[ch EXCEPT !.replies = ch.replies + 1]})
                   /\ Answers(Answer("data", ch.id, <<[of |-> ch.of, n |-> ch.replies + 1]>>))
                \/ /\ Channels(app.channels \ {ch})
                   /\ Answers(Answer("close", ch.id, <<>>))
      BY <2>7, PumpedIs
    <3>3. app'.chrome = app.chrome /\ app.chrome = "up"
      BY <2>0, <3>2 DEF Channels
    <3>4. \E a : a.kind \in MuxKind /\ Grown(toServer, toServer', a)
      <4>1. Answer("data", ch.id, <<[of |-> ch.of, n |-> ch.replies + 1]>>).kind \in MuxKind
        BY DEF Answer, MuxKind
      <4>2. Answer("close", ch.id, <<>>).kind \in MuxKind
        BY DEF Answer, MuxKind
      <4>. QED BY <3>2, <4>1, <4>2 DEF Answers
    <3>. QED BY <2>2, <3>1, <3>3, <3>4
  <2>. QED BY <2>3, <2>4, <2>5, <2>6, <2>7
<1>2. NoNewNotices(toServer, toServer')
  BY <1>1, SameQueues, ControlsStay
<1>. QED BY <1>1, <1>2, PhaseStays DEF Base

\* The lease goes on.
LEMMA PhaseOfLease ==
    ASSUME Base, AcquireProxy \/ Detach \/ StopAfterDetach \/ StopFailedStart PROVE PhaseSound'
<1>0. Shape /\ PhaseSound /\ app' = app /\ toServer' = toServer
  BY DEF Base, AcquireProxy, Detach, StopAfterDetach, StopFailedStart
<1>1. CASE AcquireProxy
  <2>1. /\ lease.phase = "idle" /\ lease'.phase = "starting"
        /\ Grown(InTransit, InTransit', Control("start", lease.n + 1))
    BY <1>1, LeaseStepSends DEF AcquireProxy, Sends
  <2>2. Control("start", lease.n + 1).kind = "start"
    BY DEF Control
  <2>3. Lacks(InTransit, "start") /\ Lacks(InTransit, "stop") /\ app.chrome = "down" /\ Lacks(toServer, "stopped")
    BY <1>0, <2>1 DEF PhaseSound
  <2>4. /\ ~Lacks(InTransit', "start") /\ Lacks(InTransit', "stop")
        /\ Once(InTransit', "start") /\ Once(InTransit', "stop")
    BY <1>0, <2>1, <2>2, <2>3, GrownOnce DEF PhaseSound
  <2>. QED BY <1>0, <2>1, <2>3, <2>4 DEF PhaseSound
<1>2. CASE Detach
  <2>1. lease.phase = "ready" /\ lease'.phase = "detaching"
    BY <1>0, <1>2 DEF Detach, Shape
  <2>2. InTransit' = InTransit
    BY <1>2 DEF Detach, InTransit
  <2>. QED BY <1>0, <2>1, <2>2 DEF PhaseSound
<1>3. CASE StopAfterDetach \/ StopFailedStart
  <2>1. /\ lease.phase \in {"starting", "ready", "detaching"} /\ lease'.phase = "stopping"
        /\ Grown(InTransit, InTransit', Control("stop", lease.n))
    BY <1>3, LeaseStepSends DEF StopAfterDetach, StopFailedStart, Sends
  <2>2. Control("stop", lease.n).kind = "stop"
    BY DEF Control
  <2>3. Lacks(InTransit, "stop") /\ Lacks(toServer, "stopped")
    BY <1>0, <2>1 DEF PhaseSound
  <2>4. app.chrome = "down" <=> ~Lacks(InTransit, "start")
    BY <1>0, <2>1 DEF PhaseSound
  <2>5. /\ Lacks(InTransit, "start") <=> Lacks(InTransit', "start")
        /\ Once(InTransit', "start") /\ Once(InTransit', "stop") /\ ~Lacks(InTransit', "stop")
        /\ Precedes(InTransit', "start", "stop")
    BY <1>0, <2>1, <2>2, <2>3, GrownOnce DEF PhaseSound
  <2>. QED BY <1>0, <2>1, <2>3, <2>4, <2>5 DEF PhaseSound
<1>. QED BY <1>1, <1>2, <1>3

\* The server hears what became of a start or a stop.
LEMMA PhaseOfNotices == ASSUME Base, OnBrowserReady \/ OnBrowserStopped PROVE PhaseSound'
<1>0. Shape /\ PhaseSound /\ app' = app /\ InTransit' = InTransit
  BY DEF Base, OnBrowserReady, OnBrowserStopped, FromApp, InTransit
<1>1. CASE OnBrowserReady
  <2>1. /\ Shrunk(toServer, toServer', Head(toServer)) /\ Head(toServer).kind = "ready"
        /\ lease'.phase = IF lease.phase = "starting" THEN "ready" ELSE lease.phase
    BY <1>0, <1>1, Heard DEF OnBrowserReady, Shape
  <2>2. ~Lacks(toServer, "ready")
    BY <2>1, ShrunkHad
  <2>3. CASE lease.phase = "starting"
    <3>1. app.chrome = "up" /\ ReadyLast /\ \A kind : Lacks(InTransit, kind)
      BY <1>0, <2>2, <2>3 DEF PhaseSound
    <3>2. \A kind : Lacks(toServer', kind)
      BY <2>1, <3>1, LastOnes, ReadyIsLast
    <3>3. Once(toServer', "stopped")
      BY <3>2 DEF Once, Lacks
    <3>. QED BY <1>0, <2>1, <2>3, <3>1, <3>2, <3>3 DEF PhaseSound
  <2>4. CASE lease.phase # "starting"
    <3>1. SameControls(InTransit, InTransit') /\ NoNewNotices(toServer, toServer')
      BY <1>0, <2>1, SameQueues, ControlsStay
    <3>. QED BY <1>0, <2>1, <2>4, <3>1, PhaseStays DEF PhaseSound
  <2>. QED BY <2>3, <2>4
<1>2. CASE OnBrowserStopped
  <2>1. Shrunk(toServer, toServer', Head(toServer)) /\ Head(toServer).kind = "stopped"
    BY <1>0, <1>2, Heard DEF OnBrowserStopped
  <2>2. ~Lacks(toServer, "stopped")
    BY <2>1, ShrunkHad
  <2>3. lease.phase = "stopping"
    BY <1>0, <2>2 DEF PhaseSound, Shape
  <2>4. lease'.phase = "idle"
    BY <1>0, <1>2, <2>3 DEF OnBrowserStopped, Shape
  <2>5. /\ Lacks(InTransit, "start") /\ Lacks(InTransit, "stop") /\ app.chrome = "down"
        /\ Precedes(toServer, "ready", "stopped") /\ Once(toServer, "stopped")
    BY <1>0, <2>2, <2>3 DEF PhaseSound
  <2>6. Lacks(toServer', "ready") /\ Lacks(toServer', "stopped") /\ Once(toServer', "stopped")
    BY <2>1, <2>5, ShrunkHad
  <2>. QED BY <1>0, <2>4, <2>5, <2>6 DEF PhaseSound
<1>. QED BY <1>1, <1>2

\* A lease whose start is still to be announced has sent nothing else.
LEMMA SettledIsSilent ==
    ASSUME Base, Settled, lease.phase = "starting", app.chrome = "starting"
    PROVE  \A kind : Lacks(InTransit, kind)
<1>1. SUFFICES ASSUME NEW q \in DOMAIN InTransit PROVE FALSE
  BY DEF Lacks
<1>2. InTransit[q] \in SoundFrame
  BY TransitIs DEF Base
<1>3. InTransit[q].of = lease.n
  BY TransitIs DEF Settled, Base
<1>4. InTransit[q].kind \notin {"start", "stop"}
  BY DEF Base, PhaseSound, Lacks
<1>5. InTransit[q].kind \in MuxKind
  BY <1>2, <1>4 DEF SoundFrame, Frame, MuxKind
<1>6. PICK s \in Stream : s = Tag(InTransit[q]) /\ s[1] = InTransit[q].of
  BY <1>2, <1>5, FrameTags
<1>7. Has(InTransit, InTransit[q].kind, s)
  BY <1>6 DEF Has
<1>8. client[s].at # "none"
  BY <1>5, <1>7 DEF Base, OpenedBySomeone
<1>. QED BY <1>3, <1>6, <1>8 DEF Base, ThreadsSound, ClientSound

\* Chrome starts, is up, or is stopped.
LEMMA PhaseOfChrome == ASSUME Base, ~LateThreads, AppStart \/ AppReady \/ AppStop PROVE PhaseSound'
<1>0. Shape /\ PhaseSound /\ lease' = lease
  BY DEF Base, AppStart, AppReady, AppStop, FromServer
<1>1. CASE AppStart
  <2>1. /\ Shrunk(InTransit, InTransit', Head(toApp)) /\ Head(toApp).kind = "start"
        /\ toServer' = toServer
    BY <1>0, <1>1, Taken DEF AppStart, Silent
  <2>2. app'.chrome = "starting" /\ app'.channels = app.channels
    BY <1>0, <1>1 DEF AppStart, Shape
  <2>3. ~Lacks(InTransit, "start")
    BY <2>1, ShrunkHad
  <2>4. app.chrome = "down" /\ lease.phase \in {"starting", "stopping"}
    BY <1>0, <2>3 DEF PhaseSound, Shape
  <2>5. /\ Lacks(InTransit', "start") /\ (Lacks(InTransit, "stop") <=> Lacks(InTransit', "stop"))
        /\ Once(InTransit', "start") /\ Once(InTransit', "stop")
        /\ Precedes(InTransit, "start", "stop") => Precedes(InTransit', "start", "stop")
    BY <1>0, <2>1, ShrunkHad DEF PhaseSound
  <2>6. \A ch \in app'.channels : ch.connecting
    BY <1>0, <2>2, <2>4 DEF PhaseSound
  <2>. QED BY <1>0, <2>1, <2>2, <2>3, <2>4, <2>5, <2>6 DEF PhaseSound
<1>2. CASE AppReady
  <2>1. /\ app.chrome = "starting" /\ Settled /\ InTransit' = InTransit
        /\ app'.chrome = "up" /\ app'.channels = {}
    BY <1>2 DEF AppReady, InTransit
  <2>2. Grown(toServer, toServer', Answer("ready", 0, <<>>)) /\ Answer("ready", 0, <<>>).kind = "ready"
    BY <1>0, <1>2, AnswersFrame, Announcements DEF AppReady, Answers, Answer
  <2>3. lease.phase \in {"starting", "stopping"}
    BY <1>0, <2>1 DEF PhaseSound, Shape
  <2>4. /\ Lacks(toServer, "stopped") <=> Lacks(toServer', "stopped")
        /\ Once(toServer', "stopped")
    BY <1>0, <2>2, GrownOnce DEF PhaseSound
  <2>5. CASE lease.phase = "starting"
    <3>1. \A kind : Lacks(InTransit', kind)
      BY <2>1, <2>5, SettledIsSilent
    <3>2. Lacks(toServer, "ready") /\ Lacks(toServer, "stopped")
      BY <1>0, <2>1, <2>5 DEF PhaseSound
    <3>3. LastIs(toServer', "ready")
      BY <2>2, <3>2, LastOnes
    <3>4. ReadyLast'
      BY <3>3 DEF ReadyLast, LastIs
    <3>. QED BY <1>0, <2>1, <2>4, <2>5, <3>1, <3>2, <3>4 DEF PhaseSound
  <2>6. CASE lease.phase = "stopping"
    BY <1>0, <2>1, <2>4, <2>6 DEF PhaseSound
  <2>. QED BY <2>3, <2>5, <2>6
<1>3. CASE AppStop
  <2>1. Shrunk(InTransit, InTransit', Head(toApp)) /\ Head(toApp).kind = "stop"
    BY <1>0, <1>3, Taken DEF AppStop
  <2>2. app'.chrome = "down" /\ app'.channels = {}
    BY <1>3 DEF AppStop
  <2>3. Grown(toServer, toServer', Answer("stopped", 0, <<>>)) /\ Answer("stopped", 0, <<>>).kind = "stopped"
    BY <1>0, <1>3, AnswersFrame, Announcements DEF AppStop, Answers, Answer
  <2>4. ~Lacks(InTransit, "stop")
    BY <2>1, ShrunkHad
  <2>5. lease.phase = "stopping"
    BY <1>0, <2>4 DEF PhaseSound, Shape
  <2>6. Lacks(toServer, "stopped") /\ Precedes(InTransit, "start", "stop")
    BY <1>0, <2>4, <2>5 DEF PhaseSound
  <2>7. /\ Lacks(InTransit', "start") /\ Lacks(InTransit', "stop")
        /\ Once(InTransit', "start") /\ Once(InTransit', "stop")
    BY <1>0, <2>1, <2>6, ShrunkHad DEF PhaseSound
  <2>8. Once(toServer', "stopped") /\ Precedes(toServer', "ready", "stopped")
    <3>1. PICK a : a = Answer("stopped", 0, <<>>)
      OBVIOUS
    <3>2. Grown(toServer, toServer', a) /\ a.kind = "stopped"
      BY <2>3, <3>1
    <3>3. /\ Lacks(toServer, a.kind) => Once(toServer', a.kind)
          /\ \A one : one # a.kind /\ Lacks(toServer, a.kind) => Precedes(toServer', one, a.kind)
      BY <3>2, GrownOnce, Zenon
    <3>. QED BY <2>6, <3>2, <3>3
  <2>. QED BY <1>0, <2>2, <2>5, <2>7, <2>8 DEF PhaseSound
<1>. QED BY <1>1, <1>2, <1>3

LEMMA PhaseKept == ASSUME Base, ~LateThreads, TunnelNext PROVE PhaseSound'
<1>1. CASE Wake
  BY <1>1, PhaseOfSame DEF Wake
<1>2. CASE DrainFlushes \/ DrainRechecks \/ DrainAwakes
  BY <1>2, PhaseOfDrain DEF DrainFlushes, DrainRechecks, DrainAwakes
<1>3. ASSUME NEW p \in Lease, Accept(p) \/ SendOpen(p) \/ StopClient(p) PROVE PhaseSound'
  BY <1>3, ThreadsWork, PhaseOfThreads
<1>4. ASSUME NEW p \in Lease, StopProxy(p) PROVE PhaseSound'
  BY <1>4, PhaseOfSame DEF StopProxy
<1>5. ASSUME NEW s \in Stream, ReadChunk(s) \/ SendChunk(s) \/ ResetStream(s) \/ ReaderEnds(s) \/ SendClose(s)
      PROVE  PhaseSound'
  BY <1>5, ThreadsWork, PhaseOfThreads
<1>. QED BY <1>1, <1>2, <1>3, <1>4, <1>5, PhaseOfLease, PhaseOfNotices, PhaseOfAnswers, PhaseOfChannels,
            PhaseOfChrome DEF TunnelNext

\* Whoever is new is of the era.
LEMMA EraStays ==
    ASSUME Base, lease' \in [n : 0..MaxLeases, proxy : 0..MaxLeases,
                   phase : {"idle", "starting", "ready", "detaching", "stopping"}],
           lease.n <= lease'.n, app'.chrome = "up" => app.chrome = "up" /\ lease'.n = lease.n,
           \A t \in Stream : client'[t].at = client[t].at \/ (client'[t].at # "none" /\ IsCurrent(t)),
           \A kind \in MuxKind, t \in Stream :
               Has(InTransit', kind, t) => Has(InTransit, kind, t) \/ (client'[t].at # "none" /\ IsCurrent(t)),
           \A ch \in app'.channels : ch.of \in Stream /\ IsCurrent(ch.of),
           \A p \in Lease : proxies'[p].opening # 0 \/ proxies'[p].left # {} =>
               \/ proxies[p].opening # 0 \/ proxies[p].left # {}
               \/ \E t \in Stream : t[1] = p /\ IsCurrent(t)
    PROVE  OneEra' /\ OpenedBySomeone'
<1>1. PICK e \in 0..lease.n : AllOf(e) /\ (app.chrome = "up" => e = lease.n)
  BY DEF Base, OneEra
<1>2. \A t : IsCurrent(t) => t[1] = e
  BY <1>1 DEF IsCurrent
<1>3. e \in 0..lease'.n
  <2>1. lease.n \in Nat /\ lease'.n \in Nat
    BY DEF Base, Shape
  <2>2. lease.n <= lease'.n
    OBVIOUS
  <2>. QED BY <2>1, <2>2
<1>4. app'.chrome = "up" => e = lease'.n
  BY <1>1
<1>5. AllOf(e)'
  <2>1. \A s \in Stream : s[1] # e => client'[s].at \in {"none", "done"}
    BY <1>1, <1>2 DEF AllOf
  <2>2. \A kind \in MuxKind, s \in Stream : Has(InTransit', kind, s) => s[1] = e
    BY <1>1, <1>2 DEF AllOf
  <2>3. \A ch \in app'.channels : ch.of[1] = e
    BY <1>2
  <2>4. \A p \in Lease : p # e => proxies'[p].opening = 0 /\ proxies'[p].left = {}
    BY <1>1, <1>2 DEF AllOf
  <2>. QED BY <2>1, <2>2, <2>3, <2>4 DEF AllOf
<1>6. OneEra'
  BY <1>3, <1>4, <1>5 DEF OneEra
<1>7. OpenedBySomeone'
  BY DEF OpenedBySomeone, Base
<1>. QED BY <1>6, <1>7

\* What is there already is of the era.
LEMMA EraOfSame ==
    ASSUME Base
    PROVE  /\ \A ch \in app.channels : ch.of \in Stream /\ IsCurrent(ch.of)
           /\ app' = app => \A ch \in app'.channels : ch.of \in Stream /\ IsCurrent(ch.of)
           /\ lease' = lease => lease' \in [n : 0..MaxLeases, proxy : 0..MaxLeases,
                   phase : {"idle", "starting", "ready", "detaching", "stopping"}] /\ lease.n <= lease'.n
<1>1. \A ch \in app.channels : ch.of \in Stream /\ IsCurrent(ch.of)
  BY CurrentOnes, ChannelFacts DEF Base
<1>2. lease' = lease => lease' \in [n : 0..MaxLeases, proxy : 0..MaxLeases,
                   phase : {"idle", "starting", "ready", "detaching", "stopping"}] /\ lease.n <= lease'.n
  <2>1. lease.n \in Nat /\ lease.n <= lease.n
    BY DEF Base, Shape
  <2>. QED BY <2>1 DEF Base, Shape
<1>. QED BY <1>1, <1>2

LEMMA EraOfThreads == ASSUME Base, NEW s \in Stream, Work(s) PROVE OneEra' /\ OpenedBySomeone'
<1>1. /\ lease' = lease /\ app' = app
      /\ \A t \in Stream : t # s => client'[t].at = client[t].at
      /\ client'[s].at # "none" /\ IsCurrent(s)
      /\ \A p \in Lease : p # s[1] => proxies'[p] = proxies[p]
  BY DEF Work
<1>2. \A kind, t : Has(InTransit', kind, t) => Has(InTransit, kind, t) \/ t = s
  <2>1. CASE InTransit' = InTransit
    BY <2>1
  <2>2. CASE \E f \in Enqueued : Tag(f) = s /\ Grown(InTransit, InTransit', f)
    BY <2>2, GrownHas
  <2>. QED BY <2>1, <2>2 DEF Work
<1>. QED BY <1>1, <1>2, EraOfSame, EraStays

\* Nobody starts to work.
LEMMA EraOfOthers ==
    ASSUME Base, lease' = lease, client' = client, proxies' = proxies, app'.chrome = "up" => app.chrome = "up",
           \A kind \in MuxKind, t \in Stream : Has(InTransit', kind, t) => Has(InTransit, kind, t),
           \A ch \in app'.channels : ch.of \in Stream /\ IsCurrent(ch.of)
    PROVE  OneEra' /\ OpenedBySomeone'
BY EraOfSame, EraStays

LEMMA EraOfDrain ==
    ASSUME Base, Flush, UNCHANGED <<lease, client, proxies, toServer, app>>
    PROVE  OneEra' /\ OpenedBySomeone'
<1>1. \A kind, s : Has(InTransit, kind, s) <=> Has(InTransit', kind, s)
  BY Flushed, MergedHas DEF Base
<1>. QED BY <1>1, EraOfSame, EraOfOthers

LEMMA EraOfLease ==
    ASSUME Base, \/ AcquireProxy \/ Detach \/ StopAfterDetach \/ StopFailedStart
                 \/ OnBrowserReady \/ OnBrowserStopped
    PROVE  OneEra' /\ OpenedBySomeone'
<1>1. app' = app /\ client' = client /\ proxies' = proxies
  BY DEF AcquireProxy, Detach, StopAfterDetach, StopFailedStart, OnBrowserReady, OnBrowserStopped, FromApp
<1>2. /\ lease' \in [n : 0..MaxLeases, proxy : 0..MaxLeases,
                   phase : {"idle", "starting", "ready", "detaching", "stopping"}]
      /\ lease.n <= lease'.n
      /\ app'.chrome = "up" => lease'.n = lease.n
  <2>0. lease.n \in Nat /\ lease.n <= lease.n /\ lease.n <= lease.n + 1
    BY DEF Base, Shape
  <2>1. CASE AcquireProxy
    <3>1. LeaseTyped /\ lease'.n = lease.n + 1 /\ lease.phase = "idle"
      BY <2>1, LeaseStepSends DEF AcquireProxy
    <3>2. app.chrome = "down"
      BY <3>1 DEF Base, PhaseSound
    <3>3. lease.n <= lease'.n
      BY <2>0, <3>1
    <3>. QED BY <1>1, <3>1, <3>2, <3>3 DEF LeaseTyped
  <2>2. CASE ~AcquireProxy
    <3>1. LeaseTyped
      BY <2>2, ShapeKept DEF TunnelNext, Shape, LeaseTyped
    <3>2. lease'.n = lease.n
      BY <2>2, LeaseStepSends DEF Base, Shape, Detach, OnBrowserReady, OnBrowserStopped
    <3>3. lease.n <= lease'.n
      BY <2>0, <3>2
    <3>. QED BY <3>1, <3>2, <3>3 DEF LeaseTyped
  <2>. QED BY <2>1, <2>2
<1>3. \A kind \in MuxKind : \A t : Has(InTransit', kind, t) => Has(InTransit, kind, t)
  <2>1. CASE outbox' = outbox /\ toApp' = toApp
    BY <2>1 DEF InTransit
  <2>2. CASE \E f : f.kind \notin MuxKind /\ Sends(f)
    BY <2>2, GrownHas DEF Sends
  <2>3. Control("start", lease.n + 1).kind \notin MuxKind /\ Control("stop", lease.n).kind \notin MuxKind
    BY DEF Control, MuxKind
  <2>. QED BY <2>1, <2>2, <2>3, LeaseStepSends DEF Detach, OnBrowserReady, OnBrowserStopped, FromApp
<1>. QED BY <1>1, <1>2, <1>3, EraOfSame, EraStays

LEMMA EraOfStop == ASSUME Base, NEW p \in Lease, StopProxy(p) PROVE OneEra' /\ OpenedBySomeone'
<1>0. Shape
  BY DEF Base
<1>1. /\ \A t \in Stream : client'[t] = IF t[1] = p THEN [client[t] EXCEPT !.registered = FALSE]
                                                    ELSE client[t]
      /\ proxies' = [proxies EXCEPT ![p] = [proxies[p] EXCEPT !.stopped = TRUE, !.left = Clients(p)]]
      /\ \A i \in Clients(p) : i \in Id /\ client[<<p, i>>].registered
      /\ UNCHANGED <<lease, outbox, drain, toApp, toServer, app>>
  BY <1>0, ProxyStopped
<1>2. \A t \in Stream : client'[t].at = client[t].at
  <2>1. \A t \in Stream : client[t] \in Client
    BY <1>0 DEF Shape
  <2>. QED BY <1>1, <2>1 DEF Client
<1>3. \A q \in Lease : q # p => proxies'[q] = proxies[q]
  BY <1>0, <1>1 DEF Shape
<1>4. proxies'[p].opening = proxies[p].opening /\ proxies'[p].left = Clients(p)
  BY <1>0, <1>1 DEF Shape, Proxy
<1>5. ASSUME Clients(p) # {} PROVE \E t \in Stream : t[1] = p /\ IsCurrent(t)
  <2>1. PICK i \in Clients(p) : i \in Id /\ client[<<p, i>>].registered
    BY <1>1, <1>5
  <2>2. <<p, i>> \in Stream /\ <<p, i>>[1] = p
    BY <2>1 DEF Stream
  <2>. QED BY <2>1, <2>2, CurrentOnes
<1>6. \A q \in Lease : proxies'[q].opening # 0 \/ proxies'[q].left # {} =>
               \/ proxies[q].opening # 0 \/ proxies[q].left # {}
               \/ \E t \in Stream : t[1] = q /\ IsCurrent(t)
  BY <1>3, <1>4, <1>5
<1>7. InTransit' = InTransit /\ lease' = lease /\ app' = app
  BY <1>1 DEF InTransit
<1>. QED BY <1>2, <1>6, <1>7, EraOfSame, EraStays

LEMMA EraOfAnswers == ASSUME Base, OnData \/ OnClose PROVE OneEra' /\ OpenedBySomeone'
<1>0. Shape /\ \A t \in Stream : client[t] \in Client
  BY DEF Base, Shape
<1>1. lease' = lease /\ app' = app /\ proxies' = proxies
  BY DataHeard, CloseHeard
<1>2. \/ client' = client /\ InTransit' = InTransit
      \/ \E s \in Stream :
           /\ client[s].registered /\ OnlyClient(s) /\ client'[s].at = client[s].at
           /\ InTransit' = InTransit \/ Grown(InTransit, InTransit', Mux("close", s))
  <2>1. outbox' = outbox /\ toApp' = toApp => InTransit' = InTransit
    BY DEF InTransit
  <2>2. CASE OnData
    <3>1. toApp' = toApp
      BY <2>2, DataHeard
    <3>2. CASE UNCHANGED <<client, outbox, drain>>
      BY <2>1, <3>1, <3>2
    <3>3. ASSUME NEW s \in Stream, KnownStream(s), OnlyClient(s),
                 \/ /\ client'[s] = [client[s] EXCEPT !.got = client[s].got \o Head(toServer).chunks]
                    /\ UNCHANGED <<outbox, drain>>
                 \/ /\ client'[s] = [client[s] EXCEPT !.registered = FALSE]
                    /\ Sends(Mux("close", s))
          PROVE  /\ client[s].registered /\ client'[s].at = client[s].at
                 /\ InTransit' = InTransit \/ Grown(InTransit, InTransit', Mux("close", s))
      <4>1. client'[s].at = client[s].at
        BY <1>0, <3>3 DEF Client
      <4>. QED BY <2>1, <3>1, <3>3, <4>1 DEF KnownStream, Sends
    <3>. QED BY <2>2, <3>2, <3>3, DataHeard
  <2>3. CASE OnClose
    <3>1. InTransit' = InTransit
      BY <2>1, <2>3, CloseHeard
    <3>2. CASE UNCHANGED client
      BY <3>1, <3>2
    <3>3. ASSUME NEW s \in Stream, KnownStream(s), OnlyClient(s),
                 client'[s] = [client[s] EXCEPT !.registered = FALSE]
          PROVE  client[s].registered /\ client'[s].at = client[s].at
      BY <1>0, <3>3 DEF Client, KnownStream
    <3>. QED BY <2>3, <3>1, <3>2, <3>3, CloseHeard
  <2>. QED BY <2>2, <2>3
<1>3. CASE client' = client /\ InTransit' = InTransit
  BY <1>1, <1>3, EraOfSame, EraOfOthers
<1>4. ASSUME NEW s \in Stream, client[s].registered, OnlyClient(s), client'[s].at = client[s].at,
             InTransit' = InTransit \/ Grown(InTransit, InTransit', Mux("close", s))
      PROVE  OneEra' /\ OpenedBySomeone'
  <2>1. IsCurrent(s) /\ client'[s].at # "none"
    BY <1>4, CurrentOnes DEF Base, ThreadsSound, ClientSound
  <2>2. \A kind, t : Has(InTransit', kind, t) => Has(InTransit, kind, t) \/ t = s
    BY <1>4, ClientFrames, GrownHas
  <2>. QED BY <1>1, <1>4, <2>1, <2>2, EraOfSame, EraStays DEF OnlyClient
<1>. QED BY <1>2, <1>3, <1>4

LEMMA EraOfChannels ==
    ASSUME Base, AppOpen \/ AppConnected \/ AppData \/ AppClose \/ AppPumps PROVE OneEra' /\ OpenedBySomeone'
<1>0. Shape /\ (\A ch \in app.channels : ch.of \in Stream /\ IsCurrent(ch.of))
      /\ \A ch \in app.channels : ch \in Channel
  BY EraOfSame DEF Base, Shape
<1>1. ASSUME NEW kind, Takes(kind)
      PROVE  /\ \A k, t : Has(InTransit', k, t) => Has(InTransit, k, t)
             /\ lease' = lease /\ client' = client /\ proxies' = proxies
  BY <1>1, ShrunkHas DEF Takes
<1>2. NothingTaken => /\ InTransit' = InTransit
                      /\ lease' = lease /\ client' = client /\ proxies' = proxies
  BY DEF NothingTaken, InTransit
<1>3. /\ \A k, t : Has(InTransit', k, t) => Has(InTransit, k, t)
      /\ lease' = lease /\ client' = client /\ proxies' = proxies
  BY <1>1, <1>2, OpenTaken, ConnectedIs, DataTaken, CloseTaken, PumpedIs
<1>4. app'.chrome = app.chrome /\ \A ch \in app'.channels : ch.of \in Stream /\ IsCurrent(ch.of)
  <2>0. ASSUME NEW C, Channels(C), \A c \in C : c.of \in Stream /\ IsCurrent(c.of)
        PROVE  app'.chrome = app.chrome /\ \A ch \in app'.channels : ch.of \in Stream /\ IsCurrent(ch.of)
    BY <1>0, <2>0, ChannelsTyped
  <2>1. CASE AppOpen
    <3>1. PICK s \in Stream :
             /\ Takes("open") /\ Tag(Head(toApp)) = s
             /\ \/ \E d \in Channel : d.of = s /\ Channels(NotOf(s[2]) \cup {d})
                \/ Channels(NotOf(s[2]))
                \/ Channels(app.channels)
      BY <2>1, OpenTaken
    <3>2. Has(InTransit, "open", s)
      <4>1. Shrunk(InTransit, InTransit', Head(toApp)) /\ Head(toApp).kind = "open"
        BY <3>1 DEF Takes
      <4>. QED BY <3>1, <4>1, ShrunkHas
    <3>3. IsCurrent(s)
      BY <3>2, CurrentOnes DEF MuxKind
    <3>. QED BY <1>0, <2>0, <3>1, <3>3 DEF NotOf
  <2>2. CASE AppConnected
    <3>1. PICK ch \in app.channels :
             \/ Channels((app.channels \ {ch}) \cup {[ch EXCEPT !.connecting = FALSE]})
             \/ Channels(app.channels \ {ch})
      BY <2>2, ConnectedIs
    <3>2. [ch EXCEPT !.connecting = FALSE].of = ch.of
      BY <1>0 DEF Channel
    <3>. QED BY <1>0, <2>0, <3>1, <3>2
  <2>3. CASE AppData
    <3>1. CASE app' = app
      BY <1>0, <3>1
    <3>2. ASSUME NEW ch \in app.channels,
                 \/ Channels((app.channels \ {ch}) \cup {[ch EXCEPT !.heard = ch.heard \o Head(toApp).chunks]})
                 \/ Channels(app.channels \ {ch})
          PROVE  app'.chrome = app.chrome /\ \A c \in app'.channels : c.of \in Stream /\ IsCurrent(c.of)
      <4>1. [ch EXCEPT !.heard = ch.heard \o Head(toApp).chunks].of = ch.of
        BY <1>0 DEF Channel
      <4>. QED BY <1>0, <2>0, <3>2, <4>1
    <3>. QED BY <2>3, <3>1, <3>2, DataTaken
  <2>4. CASE AppClose
    <3>1. Channels(NotOf(Tag(Head(toApp))[2]))
      BY <2>4, CloseTaken
    <3>. QED BY <1>0, <2>0, <3>1 DEF NotOf
  <2>5. CASE AppPumps
    <3>1. PICK ch \in app.channels :
             \/ Channels((app.channels \ {ch}) \cup {[ch EXCEPT !.replies = ch.replies + 1]})
             \/ Channels(app.channels \ {ch})
      BY <2>5, PumpedIs
    <3>2. [ch EXCEPT !.replies = ch.replies + 1].of = ch.of
      BY <1>0 DEF Channel
    <3>. QED BY <1>0, <2>0, <3>1, <3>2
  <2>. QED BY <2>1, <2>2, <2>3, <2>4, <2>5
<1>. QED BY <1>3, <1>4, EraOfOthers

LEMMA EraOfChrome == ASSUME Base, ~LateThreads, AppStart \/ AppReady \/ AppStop PROVE OneEra' /\ OpenedBySomeone'
<1>0. Shape /\ lease' = lease /\ client' = client /\ proxies' = proxies
  BY DEF Base, AppStart, AppReady, AppStop, FromServer
<1>1. CASE AppStart \/ AppStop
  <2>1. \A k, t : Has(InTransit', k, t) => Has(InTransit, k, t)
    BY <1>0, <1>1, FrameTaken, ShrunkHas DEF AppStart, AppStop, Takes
  <2>2. app'.chrome # "up" /\ \A ch \in app'.channels : ch \in app.channels
    BY <1>0, <1>1 DEF AppStart, AppStop, Shape
  <2>. QED BY <1>0, <2>1, <2>2, EraOfSame, EraOfOthers
<1>2. CASE AppReady
  <2>1. Settled /\ InTransit' = InTransit /\ app'.chrome = "up" /\ app'.channels = {}
    BY <1>2 DEF AppReady, InTransit
  <2>2. \A s \in Stream : s[1] # lease.n => client[s].at \in {"none", "done"}
    <3>1. ASSUME NEW s \in Stream, s[1] # lease.n PROVE s[1] < lease.n \/ s[1] > lease.n
      <4>1. s[1] \in Nat /\ lease.n \in Nat
        BY <1>0 DEF Stream, Lease, Shape
      <4>. QED BY <3>1, <4>1
    <3>. QED BY <2>1, <3>1 DEF Settled, Base, ThreadsSound, ClientSound
  <2>3. \A p \in Lease : p # lease.n => proxies[p].opening = 0 /\ proxies[p].left = {}
    <3>1. ASSUME NEW p \in Lease, p # lease.n PROVE p < lease.n \/ p > lease.n
      <4>1. p \in Nat /\ lease.n \in Nat
        BY <1>0 DEF Lease, Shape
      <4>. QED BY <3>1, <4>1
    <3>. QED BY <2>1, <3>1 DEF Settled, AllStopped, Base, ThreadsSound, ProxySound
  <2>4. \A kind \in MuxKind, s \in Stream : Has(InTransit, kind, s) => s[1] = lease.n
    <3>1. \A q \in DOMAIN InTransit : InTransit[q].of = lease.n
      BY <1>0, <2>1, TransitIs DEF Settled
    <3>. QED BY <3>1 DEF Has, Tag
  <2>5. AllOf(lease.n)'
    BY <1>0, <2>1, <2>2, <2>3, <2>4 DEF AllOf
  <2>6. lease.n \in 0..lease.n
    BY <1>0 DEF Shape
  <2>7. OneEra'
    BY <1>0, <2>5, <2>6 DEF OneEra
  <2>. QED BY <1>0, <2>1, <2>7 DEF Base, OpenedBySomeone
<1>. QED BY <1>1, <1>2

LEMMA EraKept == ASSUME Base, ~LateThreads, TunnelNext PROVE OneEra' /\ OpenedBySomeone'
<1>1. CASE Wake
  <2>1. lease' = lease /\ client' = client /\ proxies' = proxies /\ app' = app /\ InTransit' = InTransit
    BY <1>1 DEF Wake, InTransit
  <2>. QED BY <2>1, EraOfSame, EraOfOthers
<1>2. CASE DrainFlushes \/ DrainRechecks \/ DrainAwakes
  BY <1>2, EraOfDrain DEF DrainFlushes, DrainRechecks, DrainAwakes
<1>3. ASSUME NEW p \in Lease, Accept(p) \/ SendOpen(p) \/ StopClient(p) PROVE OneEra' /\ OpenedBySomeone'
  BY <1>3, ThreadsWork, EraOfThreads
<1>4. ASSUME NEW p \in Lease, StopProxy(p) PROVE OneEra' /\ OpenedBySomeone'
  BY <1>4, EraOfStop
<1>5. ASSUME NEW s \in Stream, ReadChunk(s) \/ SendChunk(s) \/ ResetStream(s) \/ ReaderEnds(s) \/ SendClose(s)
      PROVE  OneEra' /\ OpenedBySomeone'
  BY <1>5, ThreadsWork, EraOfThreads
<1>. QED BY <1>1, <1>2, <1>3, <1>4, <1>5, EraOfLease, EraOfAnswers, EraOfChannels, EraOfChrome DEF TunnelNext

-----------------------------------------------------------------------------
(* The first part holds                                                      *)

LEMMA BaseKept == ASSUME Base, ~LateThreads, [TunnelNext]_tunnelVars PROVE Base'
<1>1. CASE TunnelNext
  BY <1>1, ShapeKept, ThreadsKept, PhaseKept, EraKept DEF Base
<1>2. CASE UNCHANGED tunnelVars
  <2>1. InTransit' = InTransit
    BY <1>2 DEF tunnelVars, InTransit
  <2>2. Shape'
    BY <1>2 DEF tunnelVars, Base, Shape
  <2>3. ThreadsSound'
    BY <1>2, SameThreads DEF tunnelVars, Base
  <2>4. PhaseSound'
    BY <1>2, PhaseOfSame DEF tunnelVars
  <2>. QED BY <1>2, <2>1, <2>2, <2>3, <2>4, EraOfSame, EraOfOthers DEF tunnelVars, Base
<1>. QED BY <1>1, <1>2

LEMMA BaseAtFirst == ASSUME TunnelInit PROVE Base
<1>0. MaxLeases \in Nat /\ 0 \in 0..MaxLeases /\ MaxChunks \in Nat /\ 0 \in 0..MaxChunks
  BY TunnelAssumption
<1>1. NewClient \in Client /\ ~NewClient.registered /\ NewClient.at = "none"
  <2>1. <<>> \in Seq(Chunk)
    OBVIOUS
  <2>. QED BY <1>0, <2>1 DEF NewClient, Client
<1>2. \A s \in Stream : client[s] = NewClient /\ s[1] \in Lease /\ s[2] \in Id /\ s[2] # 0
  BY DEF TunnelInit, Stream, Id
<1>3. InTransit = <<>> /\ DOMAIN InTransit = {} /\ DOMAIN toServer = {}
  <2>1. <<>> \o <<>> = <<>>
    OBVIOUS
  <2>. QED BY <2>1 DEF TunnelInit, InTransit
<1>4. \A p \in Lease : /\ proxies[p] = [opening |-> 0, stopped |-> FALSE, left |-> {}]
                       /\ proxies[p].opening = 0 /\ proxies[p].left = {} /\ ~proxies[p].stopped
  BY DEF TunnelInit
<1>5. Shape
  <2>1. client \in [Stream -> Client]
    BY <1>1 DEF TunnelInit
  <2>2. [opening |-> 0, stopped |-> FALSE, left |-> {}] \in Proxy
    BY DEF Proxy
  <2>3. proxies \in [Lease -> Proxy]
    BY <2>2 DEF TunnelInit
  <2>4. toApp \in Seq(SoundFrame) /\ outbox \in Seq(Enqueued) /\ toServer \in Seq(SoundAnswer)
    BY DEF TunnelInit
  <2>5. lease \in [n : 0..MaxLeases, proxy : 0..MaxLeases,
                   phase : {"idle", "starting", "ready", "detaching", "stopping"}]
    BY <1>0 DEF TunnelInit
  <2>. QED BY <2>1, <2>3, <2>4, <2>5 DEF Shape, TunnelInit
<1>6. ThreadsSound
  <2>1. LeaseSound
    BY DEF LeaseSound, TunnelInit
  <2>2. \A s \in Stream : ClientSound(s)
    BY <1>1, <1>2, <1>4 DEF ClientSound
  <2>3. \A p \in Lease : ProxySound(p)
    BY <1>4 DEF ProxySound
  <2>. QED BY <2>1, <2>2, <2>3 DEF ThreadsSound
<1>7. PhaseSound
  BY <1>3 DEF PhaseSound, TunnelInit, Once, Lacks
<1>8. OneEra
  <2>1. AllOf(0)
    BY <1>1, <1>2, <1>3, <1>4 DEF AllOf, Has, TunnelInit
  <2>2. 0 \in 0..lease.n
    BY DEF TunnelInit
  <2>. QED BY <2>1, <2>2 DEF OneEra, TunnelInit
<1>9. OpenedBySomeone
  BY <1>3 DEF OpenedBySomeone, Has
<1>. QED BY <1>5, <1>6, <1>7, <1>8, <1>9 DEF Base

-----------------------------------------------------------------------------
(* One stream: what its two ends and the two queues hold of it               *)

\* For stream s the frames of R are those of Q
AlikeQ(Q, R, s) ==
    /\ \A kind \in MuxKind : Has(Q, kind, s) <=> Has(R, kind, s)
    /\ \A n : Carries(Q, s, n) <=> Carries(R, s, n)
    /\ Ordered(Q, s) => Ordered(R, s)
    /\ OpenFirst(Q, s) => OpenFirst(R, s)
    /\ OpenBeforeClose(Q, s) => OpenBeforeClose(R, s)

LEMMA HeldAlone ==
    ASSUME NEW f \in SoundFrame, NEW s, f.kind \in MuxKind => Tag(f) # s
    PROVE  (\A n : ~Holds(f, s, n)) /\ Rising(f, s)
<1>1. \A n : ~Holds(f, s, n)
  BY HeldBy DEF MuxKind
<1>2. \A k \in DOMAIN f.chunks : f.chunks[k].of = Tag(f)
  BY DEF SoundFrame
<1>3. \A k \in DOMAIN f.chunks : f.chunks[k].of # s
  BY <1>1 DEF Holds
<1>. QED BY <1>1, <1>3 DEF Rising

LEMMA AlikeGrown ==
    ASSUME NEW Q, NEW R, NEW f \in SoundFrame, NEW s, f.kind \in MuxKind => Tag(f) # s, Grown(Q, R, f)
    PROVE  AlikeQ(Q, R, s)
<1>1. (\A n : ~Holds(f, s, n)) /\ Rising(f, s)
  BY HeldAlone
<1>2. \A kind \in MuxKind : Has(Q, kind, s) <=> Has(R, kind, s)
  BY GrownHas
<1>3. \A n : Carries(Q, s, n) <=> Carries(R, s, n)
  BY <1>1, GrownHas
<1>4. Ordered(Q, s) => Ordered(R, s)
  BY <1>1, GrownOrder
<1>5. f.kind = "open" => Tag(f) # s
  BY DEF MuxKind
<1>6. /\ OpenFirst(Q, s) => OpenFirst(R, s)
      /\ OpenBeforeClose(Q, s) => OpenBeforeClose(R, s)
  BY <1>5, GrownOrder
<1>. QED BY <1>2, <1>3, <1>4, <1>6 DEF AlikeQ

LEMMA AlikeShrunk ==
    ASSUME NEW Q, NEW R, NEW f \in SoundFrame, NEW s, f.kind \in MuxKind => Tag(f) # s, Shrunk(Q, R, f)
    PROVE  AlikeQ(Q, R, s)
<1>1. \A n : ~Holds(f, s, n)
  BY HeldAlone
<1>2. \A kind \in MuxKind : Has(Q, kind, s) <=> Has(R, kind, s)
  BY ShrunkHas
<1>3. \A n : Carries(Q, s, n) <=> Carries(R, s, n)
  BY <1>1, ShrunkHas
<1>4. /\ Ordered(Q, s) => Ordered(R, s)
      /\ OpenFirst(Q, s) => OpenFirst(R, s)
      /\ OpenBeforeClose(Q, s) => OpenBeforeClose(R, s)
  BY ShrunkOrder
<1>. QED BY <1>2, <1>3, <1>4 DEF AlikeQ

LEMMA AlikeMerged ==
    ASSUME NEW Q \in Seq(SoundFrame), NEW R \in Seq(SoundFrame), Merged(Q, R), NEW s
    PROVE  AlikeQ(Q, R, s)
BY MergedKeeps DEF AlikeQ

LEMMA AlikeSame == \A Q, s : AlikeQ(Q, Q, s)
BY DEF AlikeQ

\* What the answers T say of stream s, or of a client of its id
Told(T, kind, i) == \E p \in DOMAIN T : T[p].kind = kind /\ T[p].id = i
Mine(T, s) == \A p \in DOMAIN T : T[p].kind = "data" /\ T[p].id = s[2] => T[p].chunks[1].of = s
AlikeT(T, U, s) ==
    /\ Told(T, "data", s[2]) <=> Told(U, "data", s[2])
    /\ Mine(T, s) => Mine(U, s)
    /\ \A n : Carries(T, s, n) <=> Carries(U, s, n)
    /\ Ordered(T, s) => Ordered(U, s)

\* An answer holds one chunk, of a stream of its id.
LEMMA HeldByAnswer ==
    ASSUME NEW a \in SoundAnswer, NEW s
    PROVE  /\ \A n : Holds(a, s, n) => a.kind = "data" /\ a.id = s[2]
           /\ a.kind = "data" => DOMAIN a.chunks = {1} /\ a.chunks[1] \in Chunk
           /\ a.kind = "data" => \A n : Holds(a, s, n) <=> a.chunks[1].of = s /\ a.chunks[1].n = n
           /\ Rising(a, s)
<1>1. a.kind # "data" => DOMAIN a.chunks = {}
  BY DEF SoundAnswer
<1>2. ASSUME a.kind = "data" PROVE DOMAIN a.chunks = {1} /\ a.chunks[1] \in Chunk /\ a.chunks[1].of[2] = a.id
  <2>1. Len(a.chunks) = 1 /\ a.chunks \in Seq(Chunk) /\ a.chunks[1].of[2] = a.id
    BY <1>2 DEF SoundAnswer, AppFrame
  <2>. QED BY <2>1
<1>3. a.kind = "data" => \A n : Holds(a, s, n) <=> a.chunks[1].of = s /\ a.chunks[1].n = n
  BY <1>2 DEF Holds
<1>4. \A n : Holds(a, s, n) => a.kind = "data" /\ a.id = s[2]
  BY <1>1, <1>2, <1>3 DEF Holds
<1>5. Rising(a, s)
  BY <1>1, <1>2 DEF Rising
<1>. QED BY <1>2, <1>3, <1>4, <1>5

LEMMA ToldGrown ==
    ASSUME NEW T, NEW U, NEW a, Grown(T, U, a)
    PROVE  /\ \A kind, i : Told(U, kind, i) <=> Told(T, kind, i) \/ (a.kind = kind /\ a.id = i)
           /\ \A s : Mine(T, s) /\ (a.kind = "data" /\ a.id = s[2] => a.chunks[1].of = s) => Mine(U, s)
<1>1. PICK n \in Nat : /\ DOMAIN T = 1..n /\ DOMAIN U = 1..(n + 1) /\ U[n + 1] = a
                       /\ \A q \in 1..n : U[q] = T[q]
  BY DEF Grown
<1>2. DOMAIN U = DOMAIN T \cup {n + 1} /\ U[n + 1] = a /\ \A q \in DOMAIN T : U[q] = T[q]
  BY <1>1
<1>. QED BY <1>2 DEF Told, Mine

LEMMA ToldShrunk ==
    ASSUME NEW T, NEW U, NEW a, Shrunk(T, U, a)
    PROVE  /\ \A kind, i : Told(T, kind, i) <=> Told(U, kind, i) \/ (a.kind = kind /\ a.id = i)
           /\ \A s : Mine(T, s) => Mine(U, s) /\ (a.kind = "data" /\ a.id = s[2] => a.chunks[1].of = s)
<1>1. PICK n \in Nat : /\ DOMAIN T = 1..(n + 1) /\ DOMAIN U = 1..n /\ T[1] = a
                       /\ \A q \in 1..n : U[q] = T[q + 1]
  BY DEF Shrunk
<1>2. 1 \in DOMAIN T /\ \A q \in DOMAIN U : q + 1 \in DOMAIN T /\ U[q] = T[q + 1]
  BY <1>1
<1>3. \A p \in DOMAIN T : T[p] = a \/ \E q \in DOMAIN U : U[q] = T[p]
  <2>1. TAKE p \in DOMAIN T
  <2>2. p = 1 \/ (p - 1 \in DOMAIN U /\ (p - 1) + 1 = p)
    BY <1>1
  <2>. QED BY <1>1, <2>2
<1>4. T[1] = a
  BY <1>1
<1>. QED BY <1>2, <1>3, <1>4 DEF Told, Mine

LEMMA AlikeAnswers ==
    ASSUME NEW T, NEW U, NEW a \in SoundAnswer, NEW s
    PROVE  /\ Grown(T, U, a) \/ Shrunk(T, U, a) =>
                /\ a.kind # "data" \/ a.id # s[2] => AlikeT(T, U, s)
                /\ a.kind # "close" \/ a.id # s[2] => (Told(T, "close", s[2]) <=> Told(U, "close", s[2]))
           /\ AlikeT(T, T, s)
<1>1. ASSUME Grown(T, U, a), a.kind # "data" \/ a.id # s[2] PROVE AlikeT(T, U, s)
  <2>1. (\A n : ~Holds(a, s, n)) /\ Rising(a, s)
    BY <1>1, HeldByAnswer
  <2>2. \A n : Carries(T, s, n) <=> Carries(U, s, n)
    BY <1>1, <2>1, GrownHas
  <2>3. Ordered(T, s) => Ordered(U, s)
    BY <1>1, <2>1, GrownOrder
  <2>. QED BY <1>1, <2>2, <2>3, ToldGrown DEF AlikeT
<1>2. ASSUME Shrunk(T, U, a), a.kind # "data" \/ a.id # s[2] PROVE AlikeT(T, U, s)
  <2>1. \A n : ~Holds(a, s, n)
    BY <1>2, HeldByAnswer
  <2>2. \A n : Carries(T, s, n) <=> Carries(U, s, n)
    BY <1>2, <2>1, ShrunkHas
  <2>3. Ordered(T, s) => Ordered(U, s)
    BY <1>2, ShrunkOrder
  <2>. QED BY <1>2, <2>2, <2>3, ToldShrunk DEF AlikeT
<1>3. AlikeT(T, T, s)
  BY DEF AlikeT
<1>. QED BY <1>1, <1>2, <1>3, ToldGrown, ToldShrunk

\* The channels C have none of stream s, or one, which has heard h and sent r replies
NoChannel(C, s) == \A ch \in C : ch.of # s
OneChannel(C, s, h, r) ==
    /\ \E ch \in C : ch.of = s
    /\ \A ch \in C : ch.of = s => ch.heard = h /\ ch.replies = r
AlikeC(C, D, s) ==
    \/ NoChannel(C, s) /\ NoChannel(D, s)
    \/ \E h \in Seq(Chunk), r \in Nat : OneChannel(C, s, h, r) /\ OneChannel(D, s, h, r)

LEMMA ChannelOf ==
    ASSUME Base, NEW s \in Stream
    PROVE  /\ \A ch \in app.channels : ch.of = s =>
                 OneChannel(app.channels, s, ch.heard, ch.replies) /\ ch.heard \in Seq(Chunk) /\ ch.replies \in Nat
           /\ AlikeC(app.channels, app.channels, s)
           /\ \A ch \in app.channels : ch.of # s => \A d \in Channel : d.of = ch.of =>
                 AlikeC(app.channels, (app.channels \ {ch}) \cup {d}, s)
           /\ \A ch \in app.channels : ch.of # s => AlikeC(app.channels, app.channels \ {ch}, s)
           /\ \A ch \in app.channels : ch.of = s => NoChannel(app.channels \ {ch}, s)
<1>0. Shape
  BY DEF Base
<1>1. \A ch, c \in app.channels : ch.of = s /\ c.of = s => c = ch
  BY <1>0, ChannelFacts DEF ChannelsSound
<1>2. \A ch \in app.channels : ch.heard \in Seq(Chunk) /\ ch.replies \in Nat
  BY <1>0, ChannelFacts DEF Channel
<1>3. \A ch \in app.channels : ch.of = s => OneChannel(app.channels, s, ch.heard, ch.replies)
  BY <1>1 DEF OneChannel
<1>4. ASSUME NEW D, NEW ch \in app.channels, ch.of # s, app.channels \ {ch} \subseteq D,
             \A c \in D : c \in app.channels \/ c.of = ch.of
      PROVE  AlikeC(app.channels, D, s)
  <2>1. CASE NoChannel(app.channels, s)
    BY <1>4, <2>1 DEF AlikeC, NoChannel
  <2>2. ASSUME NEW c \in app.channels, c.of = s PROVE AlikeC(app.channels, D, s)
    <3>1. c \in D
      BY <1>4, <2>2
    <3>2. \A b \in D : b.of = s => b = c
      BY <1>1, <1>4, <2>2
    <3>3. OneChannel(D, s, c.heard, c.replies)
      BY <2>2, <3>1, <3>2 DEF OneChannel
    <3>. QED BY <1>2, <1>3, <2>2, <3>3 DEF AlikeC
  <2>. QED BY <2>1, <2>2 DEF NoChannel
<1>5. AlikeC(app.channels, app.channels, s)
  BY <1>2, <1>3 DEF AlikeC, NoChannel
<1>6. \A ch \in app.channels : ch.of = s => NoChannel(app.channels \ {ch}, s)
  BY <1>1 DEF NoChannel
<1>7. ASSUME NEW ch \in app.channels, ch.of # s, NEW d, d.of = ch.of
      PROVE  AlikeC(app.channels, (app.channels \ {ch}) \cup {d}, s)
  BY <1>4, <1>7
<1>8. ASSUME NEW ch \in app.channels, ch.of # s PROVE AlikeC(app.channels, app.channels \ {ch}, s)
  BY <1>4, <1>8
<1>. QED BY <1>2, <1>3, <1>5, <1>6, <1>7, <1>8

-----------------------------------------------------------------------------
(* What a step means for one stream                                          *)

Quiet(s) ==
    /\ client'[s] = client[s]
    /\ AlikeQ(InTransit, InTransit', s)
    /\ AlikeC(app.channels, app'.channels, s)
    /\ s[1] = lease.n => /\ AlikeT(toServer, toServer', s)
                         /\ app.chrome = "up" =>
                               (Told(toServer, "close", s[2]) <=> Told(toServer', "close", s[2]))

Became(s, registered, at, sent, got) ==
    /\ client'[s].registered = registered /\ client'[s].at = at
    /\ client'[s].sent = sent /\ client'[s].got = got
Unsaid == InTransit' = InTransit
Says(f) == Grown(InTransit, InTransit', f)

\* ... if it is one of its threads or of the proxy's
OnItsOwn == lease' = lease /\ app' = app /\ toServer' = toServer
Accepts(s) ==
    /\ client[s].at = "none" /\ lease.n = s[1] /\ lease.phase \in {"ready", "detaching"}
    /\ Unsaid /\ Became(s, TRUE, "accepted", client[s].sent, client[s].got)
Opens(s) ==
    /\ client[s].at = "accepted" /\ Says(Mux("open", s))
    /\ Became(s, client[s].registered, ReadOn(s), client[s].sent, client[s].got)
Reads(s) ==
    /\ client[s].at = "read" /\ SocketOpen(s) /\ Unsaid
    /\ Became(s, client[s].registered, "holds", client[s].sent + 1, client[s].got)
Fills(s) ==
    /\ client[s].at = "holds" /\ Unsaid
    /\ Became(s, client[s].registered, "overflow", client[s].sent, client[s].got)
Puts(s) ==
    /\ client[s].at = "holds" /\ Says(Data(s))
    /\ Became(s, client[s].registered, ReadOn(s), client[s].sent, client[s].got)
Pops(s) ==
    /\ client[s].registered /\ client[s].at \in {"overflow", "read", "leaving"} /\ Unsaid
    /\ Became(s, FALSE, "closing", client[s].sent, client[s].got)
GoesOn(s) ==
    /\ client[s].at = "overflow" /\ Unsaid /\ (lease.proxy = s[1] => ~client[s].registered)
    /\ Became(s, client[s].registered, ReadOn(s), client[s].sent, client[s].got)
Ends(s) ==
    /\ client[s].at \in {"read", "leaving"} /\ ~client[s].registered /\ Unsaid
    /\ Became(s, FALSE, "done", 0, <<>>)
Closes(s) ==
    /\ client[s].at = "closing" /\ Says(Mux("close", s))
    /\ \/ Became(s, FALSE, "leaving", client[s].sent, client[s].got)
       \/ Became(s, FALSE, "done", 0, <<>>)
IsDropped(s) ==
    /\ GivenUp(s[1]) /\ Unsaid
    /\ Became(s, FALSE, client[s].at, client[s].sent, client[s].got)
IsClosed(s) ==
    /\ GivenUp(s[1]) /\ client[s].at # "none" /\ Says(Mux("close", s)) /\ client'[s] = client[s]
ThreadMoves(s) ==
    /\ OnItsOwn
    /\ \/ Accepts(s) \/ Opens(s) \/ Reads(s) \/ Fills(s) \/ Puts(s) \/ Pops(s) \/ GoesOn(s)
       \/ Ends(s) \/ Closes(s) \/ IsDropped(s) \/ IsClosed(s)

\* ... if the server hears an answer a
Gets(s, a) ==
    /\ a.kind = "data" /\ KnownStream(s) /\ Unsaid
    /\ Became(s, TRUE, client[s].at, client[s].sent, client[s].got \o a.chunks)
Bursts(s, a) ==
    /\ a.kind = "data" /\ KnownStream(s) /\ Says(Mux("close", s))
    /\ Became(s, FALSE, client[s].at, client[s].sent, client[s].got)
Misses(s, a) ==
    /\ a.kind \in {"data", "close"} /\ ~KnownStream(s) /\ Unsaid /\ client'[s] = client[s]
IsTold(s, a) ==
    /\ a.kind = "close" /\ KnownStream(s) /\ Unsaid
    /\ Became(s, FALSE, client[s].at, client[s].sent, client[s].got)
HearMoves(s) ==
    /\ lease' = lease /\ app' = app
    /\ \E a \in SoundAnswer :
        /\ a.id = s[2] /\ Shrunk(toServer, toServer', a)
        /\ Gets(s, a) \/ Bursts(s, a) \/ Misses(s, a) \/ IsTold(s, a)

\* ... if it is one of the app
TakesOf(s, kind, f) == f \in SoundFrame /\ f.kind = kind /\ Tag(f) = s /\ Shrunk(InTransit, InTransit', f)
ToldNothing == toServer' = toServer
ToldClosed(s) == \E a \in SoundAnswer : a.kind = "close" /\ a.id = s[2] /\ Grown(toServer, toServer', a)
ChannelOpens(s) ==
    /\ \E f : TakesOf(s, "open", f)
    /\ \/ OneChannel(app'.channels, s, <<>>, 0) /\ ToldNothing
       \/ NoChannel(app'.channels, s) /\ ToldClosed(s)
Passes(s) ==
    \E f : /\ TakesOf(s, "data", f)
           /\ \/ NoChannel(app.channels, s) /\ NoChannel(app'.channels, s) /\ ToldNothing
              \/ \E h \in Seq(Chunk), r \in Nat :
                    /\ OneChannel(app.channels, s, h, r)
                    /\ \/ OneChannel(app'.channels, s, h \o f.chunks, r) /\ ToldNothing
                       \/ NoChannel(app'.channels, s) /\ ToldClosed(s)
ChannelCloses(s) ==
    (\E f : TakesOf(s, "close", f)) /\ NoChannel(app'.channels, s) /\ ToldNothing
ChannelEnds(s) ==
    Unsaid /\ ~NoChannel(app.channels, s) /\ NoChannel(app'.channels, s) /\ ToldClosed(s)
Pumps(s) ==
    /\ Unsaid /\ app.chrome = "up"
    /\ \E h \in Seq(Chunk), r \in Nat, a \in SoundAnswer :
        /\ OneChannel(app.channels, s, h, r) /\ OneChannel(app'.channels, s, h, r + 1)
        /\ a.kind = "data" /\ a.id = s[2] /\ a.chunks[1].of = s /\ a.chunks[1].n = r + 1
        /\ Grown(toServer, toServer', a)
AppMoves(s) ==
    /\ lease' = lease /\ client'[s] = client[s] /\ app'.chrome = app.chrome
    /\ ChannelOpens(s) \/ Passes(s) \/ ChannelCloses(s) \/ ChannelEnds(s) \/ Pumps(s)
ChromeMoves(s) ==
    /\ lease' = lease /\ client'[s] = client[s] /\ lease.phase # "ready"
    /\ AlikeQ(InTransit, InTransit', s) /\ NoChannel(app'.channels, s)
    /\ AlikeT(toServer, toServer', s)

Moves(s) == Quiet(s) \/ ThreadMoves(s) \/ HearMoves(s) \/ AppMoves(s) \/ ChromeMoves(s)

LEMMA QuietOnes ==
    ASSUME Base, NEW s \in Stream, client'[s] = client[s], app' = app, toServer' = toServer,
           \/ Unsaid
           \/ \E f \in SoundFrame : (f.kind \in MuxKind => Tag(f) # s) /\ Says(f)
    PROVE  Quiet(s)
<1>1. AlikeQ(InTransit, InTransit', s)
  <2>1. CASE Unsaid
    BY <2>1, AlikeSame DEF Unsaid
  <2>2. CASE \E f \in SoundFrame : (f.kind \in MuxKind => Tag(f) # s) /\ Says(f)
    BY <2>2, AlikeGrown DEF Says
  <2>. QED BY <2>1, <2>2
<1>2. AlikeC(app.channels, app'.channels, s)
  BY ChannelOf
<1>3. AlikeT(toServer, toServer', s)
  BY DEF AlikeT
<1>. QED BY <1>1, <1>2, <1>3 DEF Quiet

LEMMA MovesOfThreads ==
    ASSUME Base, NEW s \in Stream
    PROVE  /\ \A p \in Lease : Accept(p) \/ SendOpen(p) \/ StopClient(p) => Moves(s)
           /\ \A t \in Stream : ReadChunk(t) \/ SendChunk(t) \/ ResetStream(t) \/ ReaderEnds(t) \/ SendClose(t)
                => Moves(s)
<1>0. Shape /\ \A t \in Stream : client[t] \in Client
  BY DEF Base, Shape
<1>1. \A t \in Stream, kind \in {"open", "close"} : Mux(kind, t) \in SoundFrame /\ Tag(Mux(kind, t)) = t
  BY ClientFrames DEF Enqueued
<1>2. outbox' = outbox /\ toApp' = toApp => Unsaid
  BY DEF InTransit, Unsaid
<1>q. ASSUME NEW t \in Stream, t # s, OnlyClient(t) \/ client' = client, app' = app, toServer' = toServer,
             Unsaid \/ \E f \in SoundFrame : Tag(f) = t /\ Says(f)
      PROVE  Moves(s)
  <2>1. client'[s] = client[s]
    BY <1>q DEF OnlyClient
  <2>. QED BY <1>q, <2>1, QuietOnes DEF Moves
<1>3. ASSUME NEW p \in Lease, Accept(p) PROVE Moves(s)
  <2>1. PICK t \in Stream :
             /\ t[1] = p /\ lease.n = p /\ lease.phase \in {"ready", "detaching"} /\ client[t].at = "none"
             /\ OnlyClient(t) /\ client'[t] = [client[t] EXCEPT !.registered = TRUE, !.at = "accepted"]
             /\ UNCHANGED <<lease, outbox, drain, toApp, toServer, app>>
    BY <1>0, <1>3, Accepted
  <2>2. Became(t, TRUE, "accepted", client[t].sent, client[t].got)
    BY <1>0, <2>1 DEF Client, Became
  <2>3. CASE t = s
    BY <1>2, <2>1, <2>2, <2>3 DEF Accepts, ThreadMoves, OnItsOwn, Moves
  <2>. QED BY <1>2, <1>q, <2>1, <2>3
<1>4. ASSUME NEW p \in Lease, SendOpen(p) PROVE Moves(s)
  <2>1. PICK t \in Stream :
             /\ client[t].at = "accepted"
             /\ OnlyClient(t) /\ client'[t] = [client[t] EXCEPT !.at = ReadOn(t)]
             /\ Sends(Mux("open", t))
             /\ UNCHANGED <<lease, toApp, toServer, app>>
    BY <1>4, OpenSent
  <2>2. Became(t, client[t].registered, ReadOn(t), client[t].sent, client[t].got)
    BY <1>0, <2>1 DEF Client, Became
  <2>3. CASE t = s
    BY <2>1, <2>2, <2>3 DEF Opens, ThreadMoves, OnItsOwn, Moves, Sends, Says
  <2>4. Says(Mux("open", t))
    BY <2>1 DEF Sends, Says
  <2>. QED BY <1>1, <1>q, <2>1, <2>3, <2>4
<1>5. ASSUME NEW p \in Lease, StopClient(p) PROVE Moves(s)
  <2>1. PICK t \in Stream :
             /\ t[1] = p /\ client[t].at # "none" /\ GivenUp(p)
             /\ Sends(Mux("close", t))
             /\ UNCHANGED <<lease, client, toApp, toServer, app>>
    BY <1>5, ClientStopped
  <2>2. Says(Mux("close", t))
    BY <2>1 DEF Sends, Says
  <2>3. CASE t = s
    BY <2>1, <2>2, <2>3 DEF IsClosed, ThreadMoves, OnItsOwn, Moves
  <2>. QED BY <1>1, <1>q, <2>1, <2>2, <2>3
<1>6. ASSUME NEW t \in Stream, ReadChunk(t) PROVE Moves(s)
  <2>1. /\ client[t].at = "read" /\ SocketOpen(t) /\ OnlyClient(t)
        /\ client'[t] = [client[t] EXCEPT !.at = "holds", !.sent = client[t].sent + 1]
        /\ UNCHANGED <<lease, proxies, outbox, drain, toApp, toServer, app>>
    BY <1>0, <1>6, ChunkRead
  <2>2. Became(t, client[t].registered, "holds", client[t].sent + 1, client[t].got)
    BY <1>0, <2>1 DEF Client, Became
  <2>3. CASE t = s
    BY <1>2, <2>1, <2>2, <2>3 DEF Reads, ThreadMoves, OnItsOwn, Moves
  <2>. QED BY <1>2, <1>q, <2>1, <2>3
<1>7. ASSUME NEW t \in Stream, SendChunk(t) PROVE Moves(s)
  <2>0. /\ client[t].at = "holds" /\ OnlyClient(t)
        /\ \/ /\ client'[t] = [client[t] EXCEPT !.at = "overflow"]
              /\ UNCHANGED <<outbox, drain>>
           \/ /\ client'[t] = [client[t] EXCEPT !.at = ReadOn(t)]
              /\ Sends(Data(t))
        /\ UNCHANGED <<lease, proxies, toApp, toServer, app>>
    BY <1>0, <1>7, ChunkSent
  <2>1. CASE client'[t] = [client[t] EXCEPT !.at = "overflow"] /\ UNCHANGED <<outbox, drain>>
    <3>1. Became(t, client[t].registered, "overflow", client[t].sent, client[t].got)
      BY <1>0, <2>1 DEF Client, Became
    <3>2. CASE t = s
      BY <1>2, <2>0, <2>1, <3>1, <3>2 DEF Fills, ThreadMoves, OnItsOwn, Moves
    <3>. QED BY <1>2, <1>q, <2>0, <2>1, <3>2
  <2>2. CASE client'[t] = [client[t] EXCEPT !.at = ReadOn(t)] /\ Sends(Data(t))
    <3>1. Became(t, client[t].registered, ReadOn(t), client[t].sent, client[t].got)
      BY <1>0, <2>2 DEF Client, Became
    <3>2. Says(Data(t)) /\ Data(t) \in SoundFrame /\ Tag(Data(t)) = t
      BY <1>0, <2>2, DataFrames DEF Sends, Says, Enqueued
    <3>3. CASE t = s
      BY <2>0, <3>1, <3>2, <3>3 DEF Puts, ThreadMoves, OnItsOwn, Moves
    <3>. QED BY <1>q, <2>0, <3>2, <3>3
  <2>. QED BY <2>0, <2>1, <2>2
<1>8. ASSUME NEW t \in Stream, ResetStream(t) PROVE Moves(s)
  <2>1. /\ client[t].at = "overflow" /\ OnlyClient(t)
        /\ \/ /\ client[t].registered
              /\ client'[t] = [client[t] EXCEPT !.registered = FALSE, !.at = "closing", !.closes = t[1]]
           \/ /\ client'[t] = [client[t] EXCEPT !.at = ReadOn(t)]
              /\ lease.proxy = t[1] => ~client[t].registered
        /\ UNCHANGED <<lease, proxies, outbox, drain, toApp, toServer, app>>
    BY <1>8, StreamReset
  <2>2. /\ client'[t] = [client[t] EXCEPT !.registered = FALSE, !.at = "closing", !.closes = t[1]] =>
             Became(t, FALSE, "closing", client[t].sent, client[t].got)
        /\ client'[t] = [client[t] EXCEPT !.at = ReadOn(t)] =>
             Became(t, client[t].registered, ReadOn(t), client[t].sent, client[t].got)
    BY <1>0 DEF Client, Became
  <2>3. CASE t = s
    BY <1>2, <2>1, <2>2, <2>3 DEF Pops, GoesOn, ThreadMoves, OnItsOwn, Moves
  <2>. QED BY <1>2, <1>q, <2>1, <2>3
<1>9. ASSUME NEW t \in Stream, ReaderEnds(t) PROVE Moves(s)
  <2>1. /\ client[t].at \in {"read", "leaving"} /\ OnlyClient(t)
        /\ \/ /\ client[t].registered
              /\ client'[t] = [client[t] EXCEPT !.registered = FALSE, !.at = "closing", !.closes = t[1]]
           \/ client'[t] = Over /\ ~client[t].registered
        /\ UNCHANGED <<lease, proxies, outbox, drain, toApp, toServer, app>>
    BY <1>9, ReaderEnded
  <2>2. /\ client'[t] = [client[t] EXCEPT !.registered = FALSE, !.at = "closing", !.closes = t[1]] =>
             Became(t, FALSE, "closing", client[t].sent, client[t].got)
        /\ client'[t] = Over => Became(t, FALSE, "done", 0, <<>>)
    BY <1>0 DEF Client, Became, Over, NewClient
  <2>3. CASE t = s
    BY <1>2, <2>1, <2>2, <2>3 DEF Pops, Ends, ThreadMoves, OnItsOwn, Moves
  <2>. QED BY <1>2, <1>q, <2>1, <2>3
<1>10. ASSUME NEW t \in Stream, SendClose(t) PROVE Moves(s)
  <2>1. /\ client[t].at = "closing" /\ OnlyClient(t)
        /\ \/ client'[t] = [client[t] EXCEPT !.at = "leaving", !.closes = 0]
           \/ client'[t] = Over
        /\ Sends(Mux("close", t))
        /\ UNCHANGED <<lease, proxies, toApp, toServer, app>>
    BY <1>10, CloseSent
  <2>0. ~client[t].registered
    BY <2>1 DEF Base, ThreadsSound, ClientSound
  <2>2. /\ client'[t] = [client[t] EXCEPT !.at = "leaving", !.closes = 0] =>
             Became(t, FALSE, "leaving", client[t].sent, client[t].got)
        /\ client'[t] = Over => Became(t, FALSE, "done", 0, <<>>)
    BY <1>0, <2>0 DEF Client, Became, Over, NewClient
  <2>3. Says(Mux("close", t))
    BY <2>1 DEF Sends, Says
  <2>4. CASE t = s
    BY <2>1, <2>2, <2>3, <2>4 DEF Closes, ThreadMoves, OnItsOwn, Moves
  <2>. QED BY <1>1, <1>q, <2>1, <2>3, <2>4
<1>. QED BY <1>3, <1>4, <1>5, <1>6, <1>7, <1>8, <1>9, <1>10

LEMMA MovesOfServer ==
    ASSUME Base, NEW s \in Stream,
           \/ Wake \/ DrainFlushes \/ DrainRechecks \/ DrainAwakes \/ (\E p \in Lease : StopProxy(p))
           \/ AcquireProxy \/ Detach \/ StopAfterDetach \/ StopFailedStart
           \/ OnBrowserReady \/ OnBrowserStopped
    PROVE  Moves(s)
<1>0. Shape /\ \A t \in Stream : client[t] \in Client
  BY DEF Base, Shape
<1>1. AlikeC(app.channels, app.channels, s)
  BY ChannelOf
<1>2. AlikeT(toServer, toServer, s)
  BY DEF AlikeT
<1>3. outbox' = outbox /\ toApp' = toApp => Unsaid
  BY DEF InTransit, Unsaid
<1>4. CASE Wake \/ Detach
  BY <1>3, <1>4, QuietOnes DEF Wake, Detach, Moves
<1>5. CASE DrainFlushes \/ DrainRechecks \/ DrainAwakes
  <2>1. Flush /\ UNCHANGED <<client, toServer, app>>
    BY <1>5 DEF DrainFlushes, DrainRechecks, DrainAwakes
  <2>2. toApp' \in Seq(SoundFrame) /\ outbox' \in Seq(Enqueued) /\ Merged(InTransit, InTransit')
    BY <2>1, Flushed DEF Base
  <2>3. outbox' \in Seq(SoundFrame) /\ outbox \in Seq(SoundFrame) /\ toApp \in Seq(SoundFrame)
    BY <1>0, <2>2, WiderSeq DEF Enqueued, Shape
  <2>4. AlikeQ(InTransit, InTransit', s)
    <3>1. InTransit \in Seq(SoundFrame) /\ InTransit' \in Seq(SoundFrame)
      BY <2>2, <2>3 DEF InTransit
    <3>. QED BY <2>2, <3>1, AlikeMerged
  <2>. QED BY <1>1, <1>2, <2>1, <2>4 DEF Moves, Quiet
<1>6. ASSUME NEW p \in Lease, StopProxy(p) PROVE Moves(s)
  <2>1. /\ GivenUp(p)
        /\ client'[s] = IF s[1] = p THEN [client[s] EXCEPT !.registered = FALSE] ELSE client[s]
        /\ UNCHANGED <<lease, outbox, drain, toApp, toServer, app>>
    BY <1>0, <1>6, ProxyStopped
  <2>2. CASE s[1] = p
    <3>1. Became(s, FALSE, client[s].at, client[s].sent, client[s].got)
      BY <1>0, <2>1, <2>2 DEF Client, Became
    <3>. QED BY <1>3, <2>1, <2>2, <3>1 DEF IsDropped, ThreadMoves, OnItsOwn, Moves
  <2>3. CASE s[1] # p
    BY <1>3, <2>1, <2>3, QuietOnes DEF Moves
  <2>. QED BY <2>2, <2>3
<1>7. CASE AcquireProxy \/ StopAfterDetach \/ StopFailedStart
  <2>1. client' = client /\ app' = app /\ toServer' = toServer
    BY <1>7 DEF AcquireProxy, StopAfterDetach, StopFailedStart
  <2>2. PICK p \in Nat, kind \in {"start", "stop"} : p \in Lease /\ Says(Control(kind, p))
    <3>1. CASE AcquireProxy
      <4>1. lease.n + 1 \in Lease
        BY <1>0, <3>1, TunnelAssumption DEF AcquireProxy, Shape, Lease
      <4>. QED BY <3>1, <4>1, LeaseStepSends DEF Sends, Says, Lease
    <3>2. CASE StopAfterDetach \/ StopFailedStart
      <4>1. lease.n # 0
        BY <3>2 DEF StopAfterDetach, StopFailedStart, Base, ThreadsSound, LeaseSound
      <4>2. lease.n \in Lease
        BY <1>0, <4>1, TunnelAssumption DEF Shape, Lease
      <4>. QED BY <3>2, <4>2, LeaseStepSends DEF Sends, Says, Lease
    <3>. QED BY <1>7, <3>1, <3>2
  <2>3. Control(kind, p) \in SoundFrame /\ Control(kind, p).kind \notin MuxKind
    BY <2>2, ControlFrames DEF Enqueued, MuxKind
  <2>. QED BY <2>1, <2>2, <2>3, QuietOnes DEF Moves
<1>8. CASE OnBrowserReady \/ OnBrowserStopped
  <2>1. client' = client /\ app' = app /\ Unsaid
    BY <1>3, <1>8 DEF OnBrowserReady, OnBrowserStopped, FromApp
  <2>2. PICK a \in SoundAnswer : a.kind \in {"ready", "stopped"} /\ Shrunk(toServer, toServer', a)
    BY <1>0, <1>8, Heard DEF OnBrowserReady, OnBrowserStopped
  <2>3. /\ AlikeT(toServer, toServer', s)
        /\ Told(toServer, "close", s[2]) <=> Told(toServer', "close", s[2])
    BY <2>2, AlikeAnswers
  <2>4. AlikeQ(InTransit, InTransit', s)
    BY <2>1, AlikeSame DEF Unsaid
  <2>. QED BY <1>1, <2>1, <2>3, <2>4 DEF Moves, Quiet
<1>. QED BY <1>4, <1>5, <1>6, <1>7, <1>8

LEMMA MovesOfAnswers == ASSUME Base, NEW s \in Stream, OnData \/ OnClose PROVE Moves(s)
<1>0. Shape /\ \A t \in Stream : client[t] \in Client
  BY DEF Base, Shape
<1>1. PICK a \in SoundAnswer : a = Head(toServer) /\ Shrunk(toServer, toServer', a)
  BY DataHeard, CloseHeard
<1>2. lease' = lease /\ app' = app
  BY DataHeard, CloseHeard
<1>3. outbox' = outbox /\ toApp' = toApp => Unsaid
  BY DEF InTransit, Unsaid
<1>4. a.kind \in {"data", "close"} /\ a.id \in Id
  <2>1. a.kind \in {"data", "close"}
    BY <1>1, DataHeard, CloseHeard
  <2>. QED BY <2>1 DEF SoundAnswer, MuxKind
<1>5. \/ ~Known(a.id) /\ client' = client /\ Unsaid
      \/ \E t \in Stream :
           /\ KnownStream(t) /\ t[2] = a.id /\ OnlyClient(t)
           /\ \/ Gets(t, a)
              \/ Bursts(t, a)
              \/ IsTold(t, a)
  <2>1. CASE OnData
    <3>0. toApp' = toApp /\ a.kind = "data"
      BY <1>1, <2>1, DataHeard
    <3>1. CASE ~Known(a.id) /\ UNCHANGED <<client, outbox, drain>>
      BY <1>3, <3>0, <3>1
    <3>2. ASSUME NEW t \in Stream, KnownStream(t), OnlyClient(t),
                 \/ /\ client'[t] = [client[t] EXCEPT !.got = client[t].got \o a.chunks]
                    /\ UNCHANGED <<outbox, drain>>
                 \/ /\ client'[t] = [client[t] EXCEPT !.registered = FALSE]
                    /\ Sends(Mux("close", t))
          PROVE  Gets(t, a) \/ Bursts(t, a)
      <4>1. client'[t] = [client[t] EXCEPT !.got = client[t].got \o a.chunks] =>
                 Became(t, TRUE, client[t].at, client[t].sent, client[t].got \o a.chunks)
        <5>1. client[t] \in Client /\ client[t].registered
          BY <1>0, <3>2 DEF KnownStream
        <5>. QED BY <5>1, Zenon DEF Client, Became
      <4>2. client'[t] = [client[t] EXCEPT !.registered = FALSE] =>
                 Became(t, FALSE, client[t].at, client[t].sent, client[t].got)
        BY <1>0 DEF Client, Became
      <4>. QED BY <1>3, <3>0, <3>2, <4>1, <4>2 DEF Gets, Bursts, Sends, Says
    <3>. QED BY <1>1, <2>1, <3>1, <3>2, DataHeard
  <2>2. CASE OnClose
    <3>0. Unsaid /\ a.kind = "close"
      BY <1>1, <1>3, <2>2, CloseHeard
    <3>1. ASSUME NEW t \in Stream, KnownStream(t), client'[t] = [client[t] EXCEPT !.registered = FALSE]
          PROVE  IsTold(t, a)
      <4>1. Became(t, FALSE, client[t].at, client[t].sent, client[t].got)
        BY <1>0, <3>1 DEF Client, Became
      <4>. QED BY <3>0, <3>1, <4>1 DEF IsTold
    <3>. QED BY <1>1, <2>2, <3>0, <3>1, CloseHeard
  <2>. QED BY <2>1, <2>2
<1>q. AlikeQ(InTransit, InTransit', s) \/ (KnownStream(s) /\ s[2] = a.id)
  <2>1. CASE Unsaid
    BY <2>1, AlikeSame DEF Unsaid
  <2>2. ASSUME NEW t \in Stream, t # s, Says(Mux("close", t)) PROVE AlikeQ(InTransit, InTransit', s)
    BY <2>2, AlikeGrown, ClientFrames DEF Says, Enqueued
  <2>. QED BY <1>5, <2>1, <2>2 DEF Gets, Bursts, IsTold
<1>c. AlikeC(app.channels, app'.channels, s)
  BY <1>2, ChannelOf
<1>6. CASE a.id = s[2] /\ ~KnownStream(s)
  <2>1. CASE ~Known(a.id)
    <3>1. client' = client /\ Unsaid
      BY <1>0, <1>4, <1>5, <2>1, KnownIs
    <3>. QED BY <1>1, <1>2, <1>4, <1>6, <3>1 DEF Misses, HearMoves, Moves
  <2>2. CASE Known(a.id)
    <3>1. <<lease.proxy, a.id>> \in Stream /\ lease.proxy # 0 /\ KnownStream(<<lease.proxy, a.id>>)
      BY <1>0, <1>4, <2>2, KnownIs DEF Known
    <3>2. s = <<s[1], s[2]>>
      BY DEF Stream
    <3>3. s[1] # lease.proxy
      BY <1>6, <3>1, <3>2
    <3>4. s[1] # lease.n
      BY <3>1, <3>3 DEF Base, ThreadsSound, LeaseSound
    <3>5. client'[s] = client[s]
      BY <1>5, <1>6 DEF OnlyClient
    <3>. QED BY <1>6, <1>q, <1>c, <3>4, <3>5 DEF Moves, Quiet
  <2>. QED BY <2>1, <2>2
<1>7. CASE a.id = s[2] /\ KnownStream(s)
  <2>1. Known(a.id)
    BY <1>0, <1>4, <1>7, KnownIs
  <2>2. PICK t \in Stream : /\ KnownStream(t) /\ t[2] = a.id
                            /\ Gets(t, a) \/ Bursts(t, a) \/ IsTold(t, a)
    BY <1>5, <2>1
  <2>3. t = s
    BY <1>0, <1>4, <1>7, <2>2, KnownIs
  <2>. QED BY <1>1, <1>2, <1>7, <2>2, <2>3 DEF HearMoves, Moves
<1>8. CASE a.id # s[2]
  <2>1. client'[s] = client[s]
    BY <1>5, <1>8 DEF OnlyClient
  <2>2. /\ AlikeT(toServer, toServer', s)
        /\ Told(toServer, "close", s[2]) <=> Told(toServer', "close", s[2])
    BY <1>1, <1>8, AlikeAnswers
  <2>3. AlikeQ(InTransit, InTransit', s)
    BY <1>8, <1>q
  <2>. QED BY <1>c, <2>1, <2>2, <2>3 DEF Moves, Quiet
<1>. QED BY <1>6, <1>7, <1>8

\* Of what is current, the id tells the stream.
LEMMA IdsTell ==
    ASSUME Base, NEW t \in Stream, IsCurrent(t)
    PROVE  /\ \A ch \in app.channels : ch.id = t[2] <=> ch.of = t
           /\ \A s \in Stream : app.chrome = "up" /\ s[1] = lease.n /\ s[2] = t[2] => s = t
<1>1. PICK e \in 0..lease.n : AllOf(e) /\ (app.chrome = "up" => e = lease.n)
  BY DEF Base, OneEra
<1>2. t[1] = e
  BY <1>1 DEF IsCurrent
<1>3. \A s, u \in Stream : s[1] = u[1] /\ s[2] = u[2] => s = u
  BY DEF Stream
<1>4. \A ch \in app.channels : ch.of \in Stream /\ ch.of[2] = ch.id /\ ch.of[1] = e
  BY <1>1, ChannelFacts DEF Base, AllOf
<1>. QED BY <1>1, <1>2, <1>3, <1>4

LEMMA MovesOfChrome == ASSUME Base, NEW s \in Stream, AppStart \/ AppReady \/ AppStop PROVE Moves(s)
<1>0. Shape
  BY DEF Base
<1>1. client'[s] = client[s] /\ lease' = lease
  BY DEF AppStart, AppReady, AppStop, FromServer
<1>2. CASE AppStart
  <2>1. Takes("start") /\ toServer' = toServer
    BY <1>0, <1>2, FrameTaken DEF AppStart, Silent
  <2>2. app'.channels = app.channels
    BY <1>0, <1>2 DEF AppStart, Shape
  <2>3. AlikeQ(InTransit, InTransit', s)
    BY <2>1, AlikeShrunk DEF Takes, MuxKind
  <2>4. AlikeC(app.channels, app'.channels, s) /\ AlikeT(toServer, toServer', s)
    BY <2>1, <2>2, ChannelOf DEF AlikeT
  <2>. QED BY <1>1, <2>1, <2>3, <2>4 DEF Moves, Quiet
<1>3. CASE AppReady \/ AppStop
  <2>1. app'.channels = {}
    BY <1>3 DEF AppReady, AppStop
  <2>2. AlikeQ(InTransit, InTransit', s) /\ lease.phase # "ready"
    <3>1. CASE AppReady
      <4>1. InTransit' = InTransit
        BY <3>1 DEF AppReady, InTransit
      <4>. QED BY <3>1, <4>1, AlikeSame DEF AppReady, Base, PhaseSound
    <3>2. CASE AppStop
      <4>1. Takes("stop")
        BY <1>0, <3>2, FrameTaken DEF AppStop
      <4>2. AlikeQ(InTransit, InTransit', s)
        BY <4>1, AlikeShrunk DEF Takes, MuxKind
      <4>3. ~Lacks(InTransit, "stop")
        BY <4>1, ShrunkHad DEF Takes
      <4>. QED BY <4>2, <4>3 DEF Base, PhaseSound
    <3>. QED BY <1>3, <3>1, <3>2
  <2>3. AlikeT(toServer, toServer', s)
    <3>1. CASE AppReady
      <4>1. Answers(Answer("ready", 0, <<>>)) /\ Answer("ready", 0, <<>>) \in SoundAnswer
        BY <1>0, <3>1, Announcements, AnswersFrame DEF AppReady, Answer
      <4>2. Answer("ready", 0, <<>>).kind = "ready"
        BY DEF Answer
      <4>. QED BY <4>1, <4>2, AlikeAnswers DEF Answers
    <3>2. CASE AppStop
      <4>1. Answers(Answer("stopped", 0, <<>>)) /\ Answer("stopped", 0, <<>>) \in SoundAnswer
        BY <1>0, <3>2, Announcements, AnswersFrame DEF AppStop, Answer
      <4>2. Answer("stopped", 0, <<>>).kind = "stopped"
        BY DEF Answer
      <4>. QED BY <4>1, <4>2, AlikeAnswers DEF Answers
    <3>. QED BY <1>3, <3>1, <3>2
  <2>. QED BY <1>1, <2>1, <2>2, <2>3 DEF ChromeMoves, Moves, NoChannel
<1>. QED BY <1>2, <1>3

\* The app closes a channel of t, or refuses one, and says so.
LEMMA SaidClosed ==
    ASSUME Base, NEW t \in Stream, IsCurrent(t), Answers(Answer("close", t[2], <<>>)), NEW s \in Stream
    PROVE  /\ ToldClosed(t)
           /\ t # s => /\ AlikeT(toServer, toServer', s)
                       /\ s[1] = lease.n /\ app.chrome = "up" =>
                             (Told(toServer, "close", s[2]) <=> Told(toServer', "close", s[2]))
<1>1. PICK a : a = Answer("close", t[2], <<>>)
  OBVIOUS
<1>2. a \in SoundAnswer /\ a.kind = "close" /\ a.id = t[2] /\ Grown(toServer, toServer', a)
  BY <1>1, Announcements DEF Answer, Answers, Stream
<1>3. AlikeT(toServer, toServer', s)
  BY <1>2, AlikeAnswers
<1>4. a.id # s[2] => (Told(toServer, "close", s[2]) <=> Told(toServer', "close", s[2]))
  BY <1>2, AlikeAnswers
<1>. QED BY <1>2, <1>3, <1>4, IdsTell DEF ToldClosed

LEMMA MovesOfApp ==
    ASSUME Base, NEW s \in Stream, AppOpen \/ AppConnected \/ AppData \/ AppClose \/ AppPumps PROVE Moves(s)
<1>0. Shape
  BY DEF Base
<1>1. client'[s] = client[s] /\ lease' = lease /\ app'.chrome = app.chrome
  <2>1. client' = client /\ lease' = lease
    BY OpenTaken, ConnectedIs, DataTaken, CloseTaken, PumpedIs DEF Takes, NothingTaken
  <2>2. \A C : Channels(C) => app'.chrome = app.chrome
    BY DEF Channels
  <2>. QED BY <2>1, <2>2, OpenTaken, ConnectedIs, DataTaken, CloseTaken, PumpedIs
<1>2. \A C : Channels(C) => app'.channels = C
  BY DEF Channels
<1>3. AlikeC(app.channels, app.channels, s) /\ AlikeT(toServer, toServer, s)
  BY ChannelOf DEF AlikeT
<1>4. \A ch \in app.channels : /\ ch.of \in Stream /\ ch.id = ch.of[2] /\ IsCurrent(ch.of) /\ ch \in Channel
                               /\ ch.heard \in Seq(Chunk) /\ ch.replies \in Nat
  BY <1>0, EraOfSame, ChannelFacts DEF Channel
\* Frame f is at the head, of stream t
<1>5. ASSUME NEW kind \in MuxKind, Takes(kind)
      PROVE  /\ Head(toApp) \in SoundFrame /\ Head(toApp).kind = kind
             /\ Shrunk(InTransit, InTransit', Head(toApp))
             /\ Tag(Head(toApp)) \in Stream /\ IsCurrent(Tag(Head(toApp)))
             /\ Tag(Head(toApp)) = s => TakesOf(s, kind, Head(toApp))
             /\ Tag(Head(toApp)) # s => AlikeQ(InTransit, InTransit', s)
  <2>1. Head(toApp) \in SoundFrame /\ Head(toApp).kind = kind /\ Shrunk(InTransit, InTransit', Head(toApp))
    BY <1>5 DEF Takes
  <2>2. Tag(Head(toApp)) \in Stream
    BY <2>1, FrameTags
  <2>3. Has(InTransit, kind, Tag(Head(toApp)))
    BY <2>1, ShrunkHad
  <2>4. IsCurrent(Tag(Head(toApp)))
    BY <2>2, <2>3, CurrentOnes
  <2>. QED BY <2>1, <2>2, <2>4, AlikeShrunk DEF TakesOf
<1>6. NothingTaken => Unsaid /\ AlikeQ(InTransit, InTransit', s)
  <2>1. NothingTaken => Unsaid
    BY DEF NothingTaken, InTransit, Unsaid
  <2>. QED BY <2>1, AlikeSame DEF Unsaid
<1>7. CASE AppOpen
  <2>1. PICK t \in Stream :
             /\ Takes("open") /\ Tag(Head(toApp)) = t
             /\ \/ /\ \E d \in Channel : /\ d.id = t[2] /\ d.of = t /\ d.connecting /\ d.heard = <<>>
                                         /\ d.replies = 0 /\ Channels(NotOf(t[2]) \cup {d})
                   /\ toServer' = toServer
                \/ /\ app.chrome # "up" /\ Channels(NotOf(t[2]))
                   /\ Answers(Answer("close", t[2], <<>>))
                \/ /\ \A ch \in app.channels : ch.id # t[2]
                   /\ Channels(app.channels)
                   /\ Answers(Answer("close", t[2], <<>>))
    BY <1>7, OpenTaken
  <2>2. IsCurrent(t)
    BY <1>5, <2>1 DEF MuxKind
  <2>3. NotOf(t[2]) = {ch \in app.channels : ch.of # t}
    BY <2>2, IdsTell DEF NotOf
  <2>4. CASE t = s
    <3>1. TakesOf(s, "open", Head(toApp))
      BY <1>5, <2>1, <2>4 DEF MuxKind
    <3>2. CASE toServer' = toServer /\ \E d \in Channel : d.of = t /\ d.heard = <<>> /\ d.replies = 0
                                                         /\ Channels(NotOf(t[2]) \cup {d})
      <4>1. OneChannel(app'.channels, s, <<>>, 0)
        BY <1>2, <2>3, <2>4, <3>2 DEF OneChannel
      <4>. QED BY <1>1, <3>1, <3>2, <4>1 DEF ChannelOpens, ToldNothing, AppMoves, Moves
    <3>3. CASE /\ Channels(NotOf(t[2])) \/ (Channels(app.channels) /\ \A ch \in app.channels : ch.id # t[2])
               /\ Answers(Answer("close", t[2], <<>>))
      <4>1. NoChannel(app'.channels, s)
        BY <1>2, <1>4, <2>3, <2>4, <3>3 DEF NoChannel
      <4>2. ToldClosed(s)
        BY <2>2, <2>4, <3>3, SaidClosed
      <4>. QED BY <1>1, <3>1, <4>1, <4>2 DEF ChannelOpens, AppMoves, Moves
    <3>. QED BY <2>1, <3>2, <3>3
  <2>5. CASE t # s
    <3>1. AlikeQ(InTransit, InTransit', s)
      BY <1>5, <2>1, <2>5 DEF MuxKind
    <3>2. AlikeC(app.channels, app'.channels, s)
      <4>1. ASSUME NEW D, app'.channels = D, {ch \in app.channels : ch.of # t} \subseteq D,
                   \A ch \in D : ch \in app.channels \/ ch.of = t
            PROVE  AlikeC(app.channels, app'.channels, s)
        <5>1. CASE NoChannel(app.channels, s)
          BY <2>5, <4>1, <5>1 DEF NoChannel, AlikeC
        <5>2. ASSUME NEW ch \in app.channels, ch.of = s PROVE AlikeC(app.channels, app'.channels, s)
          <6>1. OneChannel(app.channels, s, ch.heard, ch.replies)
            BY <5>2, ChannelOf
          <6>2. OneChannel(app'.channels, s, ch.heard, ch.replies)
            BY <2>5, <4>1, <5>2, <6>1 DEF OneChannel
          <6>. QED BY <1>4, <6>1, <6>2 DEF AlikeC
        <5>. QED BY <5>1, <5>2 DEF NoChannel
      <4>2. CASE \E d : d.of = t /\ app'.channels = NotOf(t[2]) \cup {d}
        BY <2>3, <4>1, <4>2
      <4>3. CASE app'.channels = NotOf(t[2]) \/ app'.channels = app.channels
        BY <2>3, <4>1, <4>3
      <4>. QED BY <1>2, <2>1, <4>2, <4>3
    <3>3. /\ AlikeT(toServer, toServer', s)
          /\ s[1] = lease.n /\ app.chrome = "up" =>
                (Told(toServer, "close", s[2]) <=> Told(toServer', "close", s[2]))
      BY <1>3, <2>1, <2>2, <2>5, SaidClosed
    <3>. QED BY <1>1, <3>1, <3>2, <3>3 DEF Moves, Quiet
  <2>. QED BY <2>4, <2>5
\* A channel ch is closed, and the server is told
<1>8. ASSUME NEW ch \in app.channels, Channels(app.channels \ {ch}), Answers(Answer("close", ch.id, <<>>)),
             NEW h, NEW r, h = ch.heard, r = ch.replies
      PROVE  /\ ch.of = s => OneChannel(app.channels, s, h, r) /\ NoChannel(app'.channels, s) /\ ToldClosed(s)
             /\ ch.of # s =>
                  /\ AlikeC(app.channels, app'.channels, s) /\ AlikeT(toServer, toServer', s)
                  /\ s[1] = lease.n /\ app.chrome = "up" =>
                        (Told(toServer, "close", s[2]) <=> Told(toServer', "close", s[2]))
  <2>1. app'.channels = app.channels \ {ch}
    BY <1>2, <1>8
  <2>2. ch.of \in Stream /\ IsCurrent(ch.of) /\ ch.id = ch.of[2] /\ Answers(Answer("close", ch.of[2], <<>>))
    BY <1>4, <1>8
  <2>. QED BY <1>8, <2>1, <2>2, ChannelOf, SaidClosed
<1>9. CASE AppConnected
  <2>1. NothingTaken
    BY <1>9, ConnectedIs
  <2>2. PICK ch \in app.channels :
                \/ /\ toServer' = toServer
                   /\ Channels((app.channels \ {ch}) \cup {[ch EXCEPT !.connecting = FALSE]})
                \/ /\ Channels(app.channels \ {ch})
                   /\ Answers(Answer("close", ch.id, <<>>))
    BY <1>9, ConnectedIs
  <2>3. CASE /\ toServer' = toServer
             /\ Channels((app.channels \ {ch}) \cup {[ch EXCEPT !.connecting = FALSE]})
    <3>1. PICK d \in Channel : /\ d = [ch EXCEPT !.connecting = FALSE] /\ d.of = ch.of
                               /\ d.heard = ch.heard /\ d.replies = ch.replies
      <4>1. ch \in Channel
        BY <1>4
      <4>2. [ch EXCEPT !.connecting = FALSE] \in Channel
        BY <4>1 DEF Channel
      <4>. QED BY <4>1, <4>2, Zenon DEF Channel
    <3>2. app'.channels = (app.channels \ {ch}) \cup {d}
      BY <1>2, <2>3, <3>1
    <3>3. CASE ch.of = s
      <4>1. NoChannel(app.channels \ {ch}, s) /\ OneChannel(app.channels, s, ch.heard, ch.replies)
        BY <3>3, ChannelOf
      <4>2. OneChannel(app'.channels, s, ch.heard, ch.replies)
        BY <3>1, <3>2, <3>3, <4>1 DEF OneChannel, NoChannel
      <4>3. AlikeC(app.channels, app'.channels, s)
        BY <1>4, <4>1, <4>2 DEF AlikeC
      <4>. QED BY <1>1, <1>3, <1>6, <2>1, <2>3, <4>3 DEF Moves, Quiet
    <3>4. CASE ch.of # s
      <4>1. AlikeC(app.channels, app'.channels, s)
        <5>1. AlikeC(app.channels, (app.channels \ {ch}) \cup {d}, s)
          BY <3>1, <3>4, ChannelOf
        <5>. QED BY <3>2, <5>1
      <4>. QED BY <1>1, <1>3, <1>6, <2>1, <2>3, <4>1 DEF Moves, Quiet
    <3>. QED BY <3>3, <3>4
  <2>4. CASE Channels(app.channels \ {ch}) /\ Answers(Answer("close", ch.id, <<>>))
    <3>1. CASE ch.of = s
      <4>1. ~NoChannel(app.channels, s)
        BY <3>1 DEF NoChannel
      <4>. QED BY <1>1, <1>6, <1>8, <2>1, <2>4, <3>1, <4>1 DEF ChannelEnds, AppMoves, Moves
    <3>2. CASE ch.of # s
      BY <1>1, <1>6, <1>8, <2>1, <2>4, <3>2 DEF Moves, Quiet
    <3>. QED BY <3>1, <3>2
  <2>. QED BY <2>2, <2>3, <2>4
<1>10. CASE AppClose
  <2>1. Takes("close") /\ Channels(NotOf(Tag(Head(toApp))[2])) /\ toServer' = toServer
    BY <1>10, CloseTaken
  <2>2. PICK t \in Stream : t = Tag(Head(toApp)) /\ IsCurrent(t)
    BY <1>5, <2>1 DEF MuxKind
  <2>3. app'.channels = {ch \in app.channels : ch.of # t}
    BY <1>2, <2>1, <2>2, IdsTell DEF NotOf
  <2>4. CASE t = s
    <3>1. TakesOf(s, "close", Head(toApp))
      BY <1>5, <2>1, <2>2, <2>4 DEF MuxKind
    <3>2. NoChannel(app'.channels, s)
      BY <2>3, <2>4 DEF NoChannel
    <3>. QED BY <1>1, <2>1, <3>1, <3>2 DEF ChannelCloses, ToldNothing, AppMoves, Moves
  <2>5. CASE t # s
    <3>1. AlikeQ(InTransit, InTransit', s)
      BY <1>5, <2>1, <2>2, <2>5 DEF MuxKind
    <3>2. AlikeC(app.channels, app'.channels, s)
      <4>1. CASE \E ch \in app.channels : ch.of = t
        <5>1. PICK ch \in app.channels : ch.of = t
          BY <4>1
        <5>2. app'.channels = app.channels \ {ch}
          <6>1. \A c \in app.channels : c.of = t => c = ch
            BY <1>0, <1>4, <5>1, ChannelFacts DEF ChannelsSound
          <6>. QED BY <2>3, <5>1, <6>1
        <5>. QED BY <2>5, <5>1, <5>2, ChannelOf
      <4>2. CASE ~\E ch \in app.channels : ch.of = t
        <5>1. app'.channels = app.channels
          BY <2>3, <4>2
        <5>. QED BY <1>3, <5>1
      <4>. QED BY <4>1, <4>2
    <3>. QED BY <1>1, <1>3, <2>1, <3>1, <3>2 DEF Moves, Quiet
  <2>. QED BY <2>4, <2>5
<1>11. CASE AppData
  <2>1. Takes("data") /\ \/ /\ \A ch \in app.channels : ch.id # Tag(Head(toApp))[2]
                            /\ app' = app /\ toServer' = toServer
                         \/ \E ch \in app.channels :
                              /\ ch.id = Tag(Head(toApp))[2]
                              /\ \/ /\ Channels((app.channels \ {ch}) \cup
                                                   {[ch EXCEPT !.heard = ch.heard \o Head(toApp).chunks]})
                                    /\ toServer' = toServer
                                 \/ /\ Channels(app.channels \ {ch})
                                    /\ Answers(Answer("close", ch.id, <<>>))
    BY <1>11, DataTaken
  <2>2. PICK t \in Stream : t = Tag(Head(toApp)) /\ IsCurrent(t)
    BY <1>5, <2>1 DEF MuxKind
  <2>3. t = s => TakesOf(s, "data", Head(toApp))
    BY <1>5, <2>1, <2>2 DEF MuxKind
  <2>4. t # s => AlikeQ(InTransit, InTransit', s)
    BY <1>5, <2>1, <2>2 DEF MuxKind
  <2>5. CASE (\A ch \in app.channels : ch.id # t[2]) /\ app' = app /\ toServer' = toServer
    <3>1. CASE t = s
      <4>1. NoChannel(app.channels, s)
        BY <1>4, <2>5, <3>1 DEF NoChannel
      <4>. QED BY <1>1, <2>3, <2>5, <3>1, <4>1 DEF Passes, ToldNothing, AppMoves, Moves
    <3>2. CASE t # s
      BY <1>1, <1>3, <2>4, <2>5, <3>2 DEF Moves, Quiet
    <3>. QED BY <3>1, <3>2
  <2>6. ASSUME NEW ch \in app.channels, ch.id = t[2],
               \/ /\ Channels((app.channels \ {ch}) \cup {[ch EXCEPT !.heard = ch.heard \o Head(toApp).chunks]})
                  /\ toServer' = toServer
               \/ /\ Channels(app.channels \ {ch})
                  /\ Answers(Answer("close", ch.id, <<>>))
        PROVE  Moves(s)
    <3>1. ch.of = t
      BY <2>2, <2>6, IdsTell
    <3>2. CASE Channels(app.channels \ {ch}) /\ Answers(Answer("close", ch.id, <<>>))
      <4>1. CASE t = s
        <5>1. OneChannel(app.channels, s, ch.heard, ch.replies) /\ NoChannel(app'.channels, s) /\ ToldClosed(s)
          BY <1>8, <3>1, <3>2, <4>1
        <5>. QED BY <1>1, <1>4, <2>3, <4>1, <5>1 DEF Passes, AppMoves, Moves
      <4>2. CASE t # s
        BY <1>1, <1>8, <2>4, <3>1, <3>2, <4>2 DEF Moves, Quiet
      <4>. QED BY <4>1, <4>2
    <3>3. CASE /\ Channels((app.channels \ {ch}) \cup {[ch EXCEPT !.heard = ch.heard \o Head(toApp).chunks]})
               /\ toServer' = toServer
      <4>0. ch \in Channel /\ Channels((app.channels \ {ch}) \cup {[ch EXCEPT !.heard = ch.heard \o Head(toApp).chunks]})
        BY <1>4, <3>3
      <4>1. PICK d \in Channel : /\ d = [ch EXCEPT !.heard = ch.heard \o Head(toApp).chunks] /\ d.of = ch.of
                                 /\ d.heard = ch.heard \o Head(toApp).chunks /\ d.replies = ch.replies
        <5>1. [ch EXCEPT !.heard = ch.heard \o Head(toApp).chunks] \in Channel
          BY <4>0 DEF Channels, ChannelsSound
        <5>. QED BY <4>0, <5>1, Zenon DEF Channel
      <4>2. app'.channels = (app.channels \ {ch}) \cup {d}
        BY <1>2, <3>3, <4>1
      <4>3. CASE t = s
        <5>1. NoChannel(app.channels \ {ch}, s) /\ OneChannel(app.channels, s, ch.heard, ch.replies)
          BY <3>1, <4>3, ChannelOf
        <5>2. OneChannel(app'.channels, s, ch.heard \o Head(toApp).chunks, ch.replies)
          BY <3>1, <4>1, <4>2, <4>3, <5>1 DEF OneChannel, NoChannel
        <5>. QED BY <1>1, <1>4, <2>3, <3>3, <4>3, <5>1, <5>2 DEF Passes, ToldNothing, AppMoves, Moves
      <4>4. CASE t # s
        <5>1. AlikeC(app.channels, app'.channels, s)
          <6>1. AlikeC(app.channels, (app.channels \ {ch}) \cup {d}, s)
            BY <3>1, <4>1, <4>4, ChannelOf
          <6>. QED BY <4>2, <6>1
        <5>. QED BY <1>1, <1>3, <2>4, <3>3, <4>4, <5>1 DEF Moves, Quiet
      <4>. QED BY <4>3, <4>4
    <3>. QED BY <2>6, <3>2, <3>3
  <2>. QED BY <2>1, <2>2, <2>5, <2>6
<1>12. CASE AppPumps
  <2>1. NothingTaken
    BY <1>12, PumpedIs
  <2>2. PICK ch \in app.channels :
             /\ ~ch.connecting
             /\ \/ /\ Channels((app.channels \ {ch}) \cup {[ch EXCEPT !.replies = ch.replies + 1]})
                   /\ Answers(Answer("data", ch.id, <<[of |-> ch.of, n |-> ch.replies + 1]>>))
                \/ /\ Channels(app.channels \ {ch})
                   /\ Answers(Answer("close", ch.id, <<>>))
    BY <1>12, PumpedIs
  <2>3. CASE Channels(app.channels \ {ch}) /\ Answers(Answer("close", ch.id, <<>>))
    <3>1. CASE ch.of = s
      <4>1. ~NoChannel(app.channels, s)
        BY <3>1 DEF NoChannel
      <4>. QED BY <1>1, <1>6, <1>8, <2>1, <2>3, <3>1, <4>1 DEF ChannelEnds, AppMoves, Moves
    <3>2. CASE ch.of # s
      BY <1>1, <1>6, <1>8, <2>1, <2>3, <3>2 DEF Moves, Quiet
    <3>. QED BY <3>1, <3>2
  <2>4. CASE /\ Channels((app.channels \ {ch}) \cup {[ch EXCEPT !.replies = ch.replies + 1]})
             /\ Answers(Answer("data", ch.id, <<[of |-> ch.of, n |-> ch.replies + 1]>>))
    <3>0. app.chrome = "up"
      BY <2>2 DEF Base, PhaseSound
    <3>1. PICK a \in SoundAnswer :
               /\ a.kind = "data" /\ a.id = ch.of[2] /\ a.chunks[1].of = ch.of /\ a.chunks[1].n = ch.replies + 1
               /\ Grown(toServer, toServer', a)
      <4>1. ch.of \in Stream /\ ch.id = ch.of[2] /\ ch.of[2] \in Id /\ ch.replies + 1 \in Nat
        BY <1>4 DEF Stream
      <4>2. PICK a : a = Answer("data", ch.id, <<[of |-> ch.of, n |-> ch.replies + 1]>>)
        OBVIOUS
      <4>3. a \in SoundAnswer
        BY <4>1, <4>2, Replies DEF Answer
      <4>4. a.kind = "data" /\ a.id = ch.id /\ a.chunks[1] = [of |-> ch.of, n |-> ch.replies + 1]
        BY <4>2 DEF Answer
      <4>5. Grown(toServer, toServer', a)
        BY <2>4, <4>2 DEF Answers
      <4>. QED BY <4>1, <4>3, <4>4, <4>5
    <3>2. PICK d \in Channel : /\ d = [ch EXCEPT !.replies = ch.replies + 1] /\ d.of = ch.of
                               /\ d.heard = ch.heard /\ d.replies = ch.replies + 1
      <4>1. ch.replies + 1 \in Nat /\ ch \in Channel
        BY <1>4
      <4>2. [ch EXCEPT !.replies = ch.replies + 1] \in Channel
        BY <4>1 DEF Channel
      <4>. QED BY <4>1, <4>2, Zenon DEF Channel
    <3>3. app'.channels = (app.channels \ {ch}) \cup {d}
      BY <1>2, <2>4, <3>2
    <3>4. CASE ch.of = s
      <4>1. NoChannel(app.channels \ {ch}, s) /\ OneChannel(app.channels, s, ch.heard, ch.replies)
        BY <3>4, ChannelOf
      <4>2. OneChannel(app'.channels, s, ch.heard, ch.replies + 1)
        BY <3>2, <3>3, <3>4, <4>1 DEF OneChannel, NoChannel
      <4>3. Pumps(s)
        BY <1>4, <1>6, <2>1, <3>0, <3>1, <3>4, <4>1, <4>2 DEF Pumps
      <4>. QED BY <1>1, <4>3 DEF AppMoves, Moves
    <3>5. CASE ch.of # s
      <4>1. AlikeC(app.channels, app'.channels, s)
        <5>1. AlikeC(app.channels, (app.channels \ {ch}) \cup {d}, s)
          BY <3>2, <3>5, ChannelOf
        <5>. QED BY <3>3, <5>1
      <4>2. s[1] = lease.n => a.id # s[2]
        BY <1>4, <3>0, <3>1, <3>5, IdsTell
      <4>3. /\ s[1] = lease.n => AlikeT(toServer, toServer', s)
            /\ Told(toServer, "close", s[2]) <=> Told(toServer', "close", s[2])
        BY <3>1, <4>2, AlikeAnswers
      <4>. QED BY <1>1, <1>6, <2>1, <4>1, <4>3 DEF Moves, Quiet
    <3>. QED BY <3>4, <3>5
  <2>. QED BY <2>2, <2>3, <2>4
<1>. QED BY <1>7, <1>9, <1>10, <1>11, <1>12

LEMMA StreamMoves == ASSUME Base, TunnelNext, NEW s \in Stream PROVE Moves(s)
BY MovesOfThreads, MovesOfServer, MovesOfAnswers, MovesOfChrome, MovesOfApp DEF TunnelNext

-----------------------------------------------------------------------------
(* The invariant, second part: the chunks of a stream keep their order       *)

\* The chunks that s has put in the outbox so far
Put(s) == IF client[s].at = "holds" THEN client[s].sent - 1 ELSE client[s].sent
Unsent(s) == client[s].at \in {"none", "accepted"}

\* What a channel of s has heard is in order, and older than what is on its way
HeardSound(s, h) ==
    /\ ~Has(InTransit, "open", s)
    /\ InOrder(h, s)
    /\ client[s].at # "done" => \A j \in DOMAIN h : h[j].n <= Put(s)
    /\ \A j \in DOMAIN h, n \in Nat : Carries(InTransit, s, n) => h[j].n < n

OrderOf(s) ==
    /\ Unsent(s) => ~Has(InTransit, "open", s) /\ ~Has(InTransit, "data", s) /\ NoChannel(app.channels, s)
    /\ \A n \in Nat : Carries(InTransit, s, n) => 1 <= n /\ (client[s].at # "done" => n <= Put(s))
    /\ Ordered(InTransit, s) /\ OpenFirst(InTransit, s)
    /\ \A h \in Seq(Chunk), r \in Nat : OneChannel(app.channels, s, h, r) => HeardSound(s, h)

LEMMA PutRange ==
    ASSUME Base, NEW s \in Stream
    PROVE  /\ Put(s) \in Nat /\ client[s].sent \in Nat /\ client[s] \in Client
           /\ client[s].at = "holds" => Put(s) + 1 = client[s].sent
           /\ client[s].at # "holds" => Put(s) = client[s].sent
           /\ Unsent(s) => client[s].sent = 0
<1>1. client[s] \in Client
  BY DEF Base, Shape
<1>2. client[s].sent \in Nat
  BY <1>1, TunnelAssumption DEF Client
<1>3. client[s].at = "holds" => client[s].sent # 0
  BY DEF Base, ThreadsSound, ClientSound
<1>4. client[s].at = "none" => client[s].sent = 0
  BY DEF Base, ThreadsSound, ClientSound, NewClient
<1>5. client[s].at = "accepted" => client[s].sent = 0
  BY DEF Base, ThreadsSound, ClientSound
<1>. QED BY <1>1, <1>2, <1>3, <1>4, <1>5 DEF Put, Unsent

\* A channel is what it is; so are those that are alike.
LEMMA OneAndNoOther ==
    ASSUME NEW C, NEW s, NEW g, NEW q, OneChannel(C, s, g, q)
    PROVE  \A h, r : OneChannel(C, s, h, r) => h = g /\ r = q
BY DEF OneChannel

LEMMA OneOnly ==
    ASSUME NEW C, NEW s
    PROVE  /\ \A h, r, g, q : OneChannel(C, s, h, r) /\ OneChannel(C, s, g, q) => g = h /\ q = r
           /\ \A h, r : OneChannel(C, s, h, r) => ~NoChannel(C, s)
           /\ \A D : AlikeC(C, D, s) => /\ NoChannel(C, s) <=> NoChannel(D, s)
                                        /\ \A h, r : OneChannel(C, s, h, r) <=> OneChannel(D, s, h, r)
<1>1. \A B, h, r, g, q : OneChannel(B, s, h, r) /\ OneChannel(B, s, g, q) => g = h /\ q = r
  BY DEF OneChannel
<1>2. \A B, h, r : OneChannel(B, s, h, r) => ~NoChannel(B, s)
  BY DEF OneChannel, NoChannel
<1>3. ASSUME NEW D, AlikeC(C, D, s)
      PROVE  /\ NoChannel(C, s) <=> NoChannel(D, s)
             /\ \A h, r : OneChannel(C, s, h, r) <=> OneChannel(D, s, h, r)
  <2>1. CASE NoChannel(C, s) /\ NoChannel(D, s)
    BY <1>2, <2>1
  <2>2. CASE \E h \in Seq(Chunk), r \in Nat : OneChannel(C, s, h, r) /\ OneChannel(D, s, h, r)
    BY <1>1, <1>2, <2>2
  <2>. QED BY <1>3, <2>1, <2>2 DEF AlikeC
<1>. QED BY <1>1, <1>2, <1>3

\* Of s there is no more in R than in Q
Less(Q, R, s) ==
    /\ Has(R, "open", s) => Has(Q, "open", s)
    /\ Has(R, "data", s) => Has(Q, "data", s)
    /\ \A n : Carries(R, s, n) => Carries(Q, s, n)
    /\ Ordered(Q, s) => Ordered(R, s)
    /\ OpenFirst(Q, s) => OpenFirst(R, s)

LEMMA LessOnes ==
    ASSUME NEW Q, NEW R, NEW s \in Stream
    PROVE  /\ AlikeQ(Q, R, s) => Less(Q, R, s)
           /\ Grown(Q, R, Mux("close", s)) => Less(Q, R, s)
           /\ \A f : Shrunk(Q, R, f) => Less(Q, R, s)
           /\ Less(Q, Q, s)
<1>1. AlikeQ(Q, R, s) => Less(Q, R, s)
  BY DEF AlikeQ, Less, MuxKind
<1>2. ASSUME Grown(Q, R, Mux("close", s)) PROVE Less(Q, R, s)
  <2>1. PICK f : f = Mux("close", s)
    OBVIOUS
  <2>2. f.kind = "close" /\ f.chunks = <<>>
    BY <2>1, ClientFrames
  <2>3. (\A n : ~Holds(f, s, n)) /\ Rising(f, s)
    BY <2>2 DEF Holds, Rising
  <2>. QED BY <1>2, <2>1, <2>2, <2>3, GrownHas, GrownOrder DEF Less
<1>3. ASSUME NEW f, Shrunk(Q, R, f) PROVE Less(Q, R, s)
  BY <1>3, ShrunkHas, ShrunkOrder DEF Less
<1>. QED BY <1>1, <1>2, <1>3 DEF Less

LEMMA OrderStays ==
    ASSUME Base, Base', NEW s \in Stream, OrderOf(s),
           Unsent(s)' => Unsent(s),
           client'[s].at # "done" => client[s].at # "done" /\ Put(s) <= Put(s)',
           Less(InTransit, InTransit', s),
           NoChannel(app.channels, s) => NoChannel(app'.channels, s),
           \A h \in Seq(Chunk), r \in Nat :
               OneChannel(app'.channels, s, h, r) => \E q \in Nat : OneChannel(app.channels, s, h, q)
    PROVE  OrderOf(s)'
<1>0. Put(s) \in Nat /\ Put(s)' \in Nat
  <2>1. Put(s) \in Nat
    BY PutRange
  <2>2. Put(s)' \in Nat
    <3>1. client'[s] \in Client
      BY DEF Base, Shape
    <3>2. client'[s].sent \in Nat
      BY <3>1, TunnelAssumption DEF Client
    <3>3. client'[s].at = "holds" => client'[s].sent # 0
      BY DEF Base, ThreadsSound, ClientSound
    <3>. QED BY <3>2, <3>3 DEF Put
  <2>. QED BY <2>1, <2>2
<1>1. Unsent(s)' => ~Has(InTransit', "open", s) /\ ~Has(InTransit', "data", s) /\ NoChannel(app'.channels, s)
  BY DEF OrderOf, Less
<1>2. ASSUME NEW n \in Nat, Carries(InTransit', s, n)
      PROVE  1 <= n /\ (client'[s].at # "done" => n <= Put(s)')
  <2>1. 1 <= n /\ (client[s].at # "done" => n <= Put(s))
    BY <1>2 DEF OrderOf, Less
  <2>2. ASSUME n <= Put(s), Put(s) <= Put(s)' PROVE n <= Put(s)'
    BY <1>0, <2>2
  <2>. QED BY <2>1, <2>2
<1>3. Ordered(InTransit', s) /\ OpenFirst(InTransit', s)
  BY DEF OrderOf, Less
<1>4. ASSUME NEW h \in Seq(Chunk), NEW r \in Nat, OneChannel(app'.channels, s, h, r)
      PROVE  HeardSound(s, h)'
  <2>1. HeardSound(s, h)
    BY <1>4 DEF OrderOf
  <2>2. ASSUME client'[s].at # "done", NEW j \in DOMAIN h PROVE h[j].n <= Put(s)'
    <3>1. h[j].n <= Put(s) /\ Put(s) <= Put(s)'
      BY <2>1, <2>2 DEF HeardSound
    <3>2. h[j].n \in Nat
      <4>1. h[j] \in Chunk
        OBVIOUS
      <4>. QED BY <4>1 DEF Chunk
    <3>. QED BY <1>0, <3>1, <3>2
  <2>3. ~Has(InTransit', "open", s) /\ InOrder(h, s)
        /\ \A j \in DOMAIN h, n \in Nat : Carries(InTransit', s, n) => h[j].n < n
    BY <2>1 DEF HeardSound, Less
  <2>. QED BY <2>2, <2>3 DEF HeardSound
<1>. QED BY <1>1, <1>2, <1>3, <1>4 DEF OrderOf

\* Numbers that grow from 1 are not behind their places.
LEMMA RisingIsFar ==
    ASSUME NEW x \in Seq(Chunk), \A j, k \in DOMAIN x : j < k => x[j].n < x[k].n,
           \A j \in DOMAIN x : 1 <= x[j].n
    PROVE  \A j \in DOMAIN x : x[j].n >= j
<1> DEFINE T == {j \in DOMAIN x : ~(x[j].n >= j)}
<1>0. \A j \in DOMAIN x : x[j].n \in Nat
  <2>1. \A j \in DOMAIN x : x[j] \in Chunk
    OBVIOUS
  <2>. QED BY <2>1 DEF Chunk
<1>1. SUFFICES T = {}
  OBVIOUS
<1>2. DOMAIN x = 1..Len(x) /\ Len(x) \in Nat /\ T \in SUBSET Nat
  OBVIOUS
<1>3. SUFFICES ASSUME T # {} PROVE FALSE
  OBVIOUS
<1>4. PICK i \in T : \A j \in T : i <= j
  BY <1>2, <1>3, Smallest
<1>5. i \in 1..Len(x) /\ ~(x[i].n >= i) /\ x[i].n \in Nat /\ 1 <= x[i].n
  BY <1>0, <1>2, <1>4
<1>6. i # 1
  BY <1>5
<1>7. i - 1 \in 1..Len(x) /\ i - 1 < i /\ i \in Nat
  BY <1>2, <1>5, <1>6
<1>8. i - 1 \notin T
  BY <1>4, <1>7
<1>9. x[i - 1].n \in Nat /\ x[i - 1].n >= i - 1 /\ x[i - 1].n < x[i].n
  BY <1>0, <1>2, <1>5, <1>7, <1>8
<1>. QED BY <1>5, <1>7, <1>9

\* What is heard and what comes next, one behind the other
LEMMA InOrderJoins ==
    ASSUME NEW s \in Stream, NEW h \in Seq(Chunk), InOrder(h, s), NEW f \in SoundFrame, Rising(f, s), Tag(f) = s,
           \A m \in Nat : Holds(f, s, m) => 1 <= m /\ \A j \in DOMAIN h : h[j].n < m
    PROVE  /\ InOrder(h \o f.chunks, s) /\ h \o f.chunks \in Seq(Chunk)
           /\ \A i \in DOMAIN (h \o f.chunks) :
                 \/ i \in DOMAIN h /\ (h \o f.chunks)[i] = h[i]
                 \/ \E k \in DOMAIN f.chunks : i = Len(h) + k /\ (h \o f.chunks)[i] = f.chunks[k]
                                               /\ Holds(f, s, (h \o f.chunks)[i].n)
           /\ \A k \in DOMAIN f.chunks : f.chunks[k] \in Chunk /\ Holds(f, s, f.chunks[k].n)
<1>0. f.chunks \in Seq(Chunk) /\ \A k \in DOMAIN f.chunks : f.chunks[k].of = s
  BY DEF SoundFrame, Frame
<1>1. \A k \in DOMAIN f.chunks : f.chunks[k] \in Chunk /\ Holds(f, s, f.chunks[k].n)
  <2>1. \A k \in DOMAIN f.chunks : f.chunks[k] \in Chunk
    BY <1>0
  <2>. QED BY <1>0, <2>1 DEF Holds
<1>2. PICK x \in Seq(Chunk) : x = h \o f.chunks
  <2>1. h \o f.chunks \in Seq(Chunk)
    BY <1>0
  <2>. QED BY <2>1
<1>3. /\ Len(h) \in Nat /\ Len(f.chunks) \in Nat /\ DOMAIN h = 1..Len(h) /\ DOMAIN f.chunks = 1..Len(f.chunks)
      /\ DOMAIN x = 1..(Len(h) + Len(f.chunks))
      /\ \A i \in 1..Len(h) : x[i] = h[i]
      /\ \A i \in 1..Len(f.chunks) : x[Len(h) + i] = f.chunks[i]
  BY <1>0, <1>2, Joint
<1>4. ASSUME NEW i \in DOMAIN x
      PROVE  \/ i \in DOMAIN h /\ x[i] = h[i]
             \/ \E k \in DOMAIN f.chunks : i = Len(h) + k /\ x[i] = f.chunks[k] /\ Holds(f, s, x[i].n)
  <2>1. i \in 1..Len(h) \/ (i - Len(h) \in 1..Len(f.chunks) /\ i = Len(h) + (i - Len(h)))
    BY <1>3
  <2>2. CASE i \in 1..Len(h)
    BY <1>3, <2>2
  <2>3. CASE i - Len(h) \in 1..Len(f.chunks) /\ i = Len(h) + (i - Len(h))
    <3>1. PICK k \in 1..Len(f.chunks) : k = i - Len(h) /\ i = Len(h) + k
      BY <2>3
    <3>2. x[i] = f.chunks[k]
      BY <1>3, <3>1
    <3>. QED BY <1>1, <1>3, <3>1, <3>2
  <2>. QED BY <2>1, <2>2, <2>3
<1>5. \A i \in DOMAIN x : x[i] \in Chunk /\ x[i].n \in Nat
  <2>1. \A i \in DOMAIN x : x[i] \in Chunk
    OBVIOUS
  <2>. QED BY <2>1 DEF Chunk
<1>6. ASSUME NEW i \in DOMAIN x PROVE x[i].of = s /\ 1 <= x[i].n
  <2>1. CASE i \in DOMAIN h /\ x[i] = h[i]
    <3>1. h[i].of = s /\ h[i].n >= i
      BY <2>1 DEF InOrder
    <3>2. i \in Nat /\ 1 <= i
      BY <1>3, <2>1
    <3>3. x[i].n >= i /\ x[i].n \in Nat
      BY <1>5, <2>1, <3>1
    <3>4. 1 <= x[i].n
      BY <3>2, <3>3
    <3>. QED BY <2>1, <3>1, <3>4
  <2>2. CASE \E k \in DOMAIN f.chunks : x[i] = f.chunks[k] /\ Holds(f, s, x[i].n)
    BY <1>0, <1>5, <2>2
  <2>. QED BY <1>4, <2>1, <2>2
<1>7. ASSUME NEW i \in DOMAIN x, NEW j \in DOMAIN x, i < j PROVE x[i].n < x[j].n
  <2>0. i \in Nat /\ j \in Nat
    BY <1>3
  <2>1. CASE i \in DOMAIN h /\ x[i] = h[i] /\ j \in DOMAIN h /\ x[j] = h[j]
    BY <1>7, <2>1 DEF InOrder
  <2>2. CASE i \in DOMAIN h /\ x[i] = h[i] /\ Holds(f, s, x[j].n)
    <3>1. x[j].n \in Nat
      BY <1>5
    <3>. QED BY <2>2, <3>1
  <2>3. ASSUME NEW k \in DOMAIN f.chunks, i = Len(h) + k, x[i] = f.chunks[k],
               NEW l \in DOMAIN f.chunks, j = Len(h) + l, x[j] = f.chunks[l]
        PROVE  x[i].n < x[j].n
    <3>1. k \in Nat /\ l \in Nat /\ Len(h) \in Nat
      BY <1>3
    <3>2. k < l
      BY <1>7, <2>3, <3>1
    <3>. QED BY <1>0, <2>3, <3>2 DEF Rising
  <2>4. ASSUME NEW k \in DOMAIN f.chunks, i = Len(h) + k, j \in DOMAIN h PROVE FALSE
    <3>1. k \in Nat /\ Len(h) \in Nat /\ j <= Len(h) /\ 1 <= k
      BY <1>3, <2>4
    <3>. QED BY <1>7, <2>0, <2>4, <3>1
  <2>. QED BY <1>4, <2>1, <2>2, <2>3, <2>4
<1>8. \A j \in DOMAIN x : x[j].n >= j
  BY <1>6, <1>7, RisingIsFar
<1>9. InOrder(x, s)
  BY <1>6, <1>7, <1>8 DEF InOrder
<1>. QED BY <1>1, <1>2, <1>4, <1>9

LEMMA OrderOfThreads ==
    ASSUME Base, Base', NEW s \in Stream, OrderOf(s), ThreadMoves(s) PROVE OrderOf(s)'
<1>0. /\ Put(s) \in Nat /\ client[s].sent \in Nat
      /\ client[s].at = "holds" => Put(s) + 1 = client[s].sent
      /\ client[s].at # "holds" => Put(s) = client[s].sent
  BY PutRange
<1>1. app' = app /\ lease' = lease
  BY DEF ThreadMoves, OnItsOwn
<1>2. \A n \in Nat : n <= n
  OBVIOUS
<1>3. ReadOn(s) \in {"read", "leaving"}
  BY DEF ReadOn
<1>4. CASE Opens(s)
  <2>1. PICK f : f = Mux("open", s) /\ f.kind = "open" /\ Tag(f) = s /\ f.chunks = <<>>
    BY ClientFrames
  <2>2. Grown(InTransit, InTransit', f)
    BY <1>4, <2>1 DEF Opens, Says
  <2>3. (\A n : ~Holds(f, s, n)) /\ Rising(f, s)
    BY <2>1 DEF Holds, Rising
  <2>4. Unsent(s) /\ ~Unsent(s)' /\ Put(s)' = Put(s)
    BY <1>0, <1>3, <1>4 DEF Opens, Became, Unsent, Put
  <2>5. ~Has(InTransit, "open", s) /\ ~Has(InTransit, "data", s) /\ NoChannel(app.channels, s)
    BY <2>4 DEF OrderOf
  <2>6. \A n : Carries(InTransit', s, n) <=> Carries(InTransit, s, n)
    BY <2>2, <2>3, GrownHas
  <2>7. Ordered(InTransit', s) /\ OpenFirst(InTransit', s)
    BY <2>2, <2>3, <2>5, GrownOrder DEF OrderOf
  <2>8. \A h, r : ~OneChannel(app'.channels, s, h, r)
    BY <1>1, <2>5, OneOnly
  <2>9. client[s].at # "done"
    BY <1>4 DEF Opens
  <2>. QED BY <2>4, <2>6, <2>7, <2>8, <2>9 DEF OrderOf
<1>5. CASE Puts(s)
  <2>1. PICK f : f = Data(s)
    OBVIOUS
  <2>2. Grown(InTransit, InTransit', f) /\ f.kind = "data"
        /\ (\A n : Holds(f, s, n) <=> n = client[s].sent) /\ Rising(f, s)
    BY <1>5, <2>1, DataFrames DEF Base, Puts, Says
  <2>3. client[s].at = "holds" /\ ~Unsent(s)' /\ Put(s)' = client[s].sent
    BY <1>3, <1>5 DEF Puts, Became, Unsent, Put
  <2>4. Put(s) + 1 = client[s].sent
    BY <1>0, <2>3
  <2>5. \A n : Carries(InTransit', s, n) <=> Carries(InTransit, s, n) \/ n = client[s].sent
    BY <2>2, GrownHas
  <2>6. \A n \in Nat : Carries(InTransit, s, n) => 1 <= n /\ n <= Put(s)
    BY <2>3 DEF OrderOf
  <2>7. \A n \in Nat : n <= Put(s) => n < client[s].sent /\ n <= client[s].sent
    BY <1>0, <2>4
  <2>8. 1 <= client[s].sent /\ client[s].sent <= client[s].sent
    BY <1>0, <2>4
  <2>9. \A n \in Nat : Carries(InTransit', s, n) => 1 <= n /\ n <= Put(s)'
    BY <2>3, <2>5, <2>6, <2>7, <2>8
  <2>10. Ordered(InTransit', s)
    <3>1. \A m, n \in Nat : Carries(InTransit, s, m) /\ Holds(f, s, n) => m < n
      BY <2>2, <2>6, <2>7
    <3>. QED BY <2>2, <3>1, GrownOrder DEF OrderOf
  <2>11. OpenFirst(InTransit', s)
    BY <2>2, GrownOrder DEF OrderOf
  <2>12. Has(InTransit', "open", s) => Has(InTransit, "open", s)
    BY <2>2, GrownHas
  <2>13. ASSUME NEW h \in Seq(Chunk), NEW r \in Nat, OneChannel(app'.channels, s, h, r) PROVE HeardSound(s, h)'
    <3>1. HeardSound(s, h)
      BY <1>1, <2>13 DEF OrderOf
    <3>2. ASSUME NEW j \in DOMAIN h PROVE h[j].n \in Nat /\ h[j].n <= Put(s)
      <4>1. h[j] \in Chunk
        OBVIOUS
      <4>. QED BY <2>3, <3>1, <4>1 DEF HeardSound, Chunk
    <3>3. \A j \in DOMAIN h : h[j].n < client[s].sent /\ h[j].n <= client[s].sent
      BY <2>7, <3>2
    <3>. QED BY <2>3, <2>5, <2>12, <3>1, <3>3 DEF HeardSound
  <2>. QED BY <2>3, <2>9, <2>10, <2>11, <2>13 DEF OrderOf
<1>6. CASE Accepts(s) \/ Reads(s) \/ Fills(s) \/ Pops(s) \/ GoesOn(s) \/ Ends(s) \/ IsDropped(s)
  <2>1. Less(InTransit, InTransit', s)
    BY <1>6, LessOnes DEF Accepts, Reads, Fills, Pops, GoesOn, Ends, IsDropped, Unsaid
  <2>2. Unsent(s)' => Unsent(s)
    BY <1>3, <1>6 DEF Accepts, Reads, Fills, Pops, GoesOn, Ends, IsDropped, Became, Unsent
  <2>3. client'[s].at # "done" => client[s].at # "done"
    BY <1>6 DEF Accepts, Reads, Fills, Pops, GoesOn, Ends, IsDropped, Became
  <2>4. client'[s].at # "done" => Put(s) <= Put(s)'
    <3>1. CASE Accepts(s) \/ Pops(s) \/ GoesOn(s)
      <4>1. Put(s)' = Put(s)
        BY <1>0, <1>3, <3>1 DEF Accepts, Pops, GoesOn, Became, Put
      <4>. QED BY <1>0, <4>1
    <3>2. CASE Reads(s)
      <4>1. Put(s)' = (client[s].sent + 1) - 1 /\ Put(s) = client[s].sent
        BY <1>0, <3>2 DEF Reads, Became, Put
      <4>. QED BY <1>0, <4>1
    <3>3. CASE Fills(s)
      <4>1. Put(s)' = client[s].sent /\ Put(s) + 1 = client[s].sent
        BY <1>0, <3>3 DEF Fills, Became, Put
      <4>. QED BY <1>0, <4>1
    <3>4. CASE Ends(s)
      BY <3>4 DEF Ends, Became
    <3>5. CASE IsDropped(s)
      <4>1. Put(s)' = Put(s)
        BY <3>5 DEF IsDropped, Became, Put
      <4>. QED BY <1>0, <4>1
    <3>. QED BY <1>6, <3>1, <3>2, <3>3, <3>4, <3>5
  <2>. QED BY <1>1, <2>1, <2>2, <2>3, <2>4, OrderStays
<1>7. CASE Closes(s) \/ IsClosed(s)
  <2>1. Less(InTransit, InTransit', s)
    BY <1>7, LessOnes DEF Closes, IsClosed, Says
  <2>2. Unsent(s)' => Unsent(s)
    BY <1>7 DEF Closes, IsClosed, Became, Unsent
  <2>3. client'[s].at # "done" => client[s].at # "done" /\ Put(s)' = Put(s)
    BY <1>0, <1>7 DEF Closes, IsClosed, Became, Put
  <2>4. Put(s) <= Put(s)
    BY <1>0
  <2>. QED BY <1>1, <2>1, <2>2, <2>3, <2>4, OrderStays
<1>. QED BY <1>4, <1>5, <1>6, <1>7 DEF ThreadMoves

LEMMA OrderOfOthers ==
    ASSUME Base, Base', NEW s \in Stream, OrderOf(s), Quiet(s) \/ HearMoves(s) \/ ChromeMoves(s) PROVE OrderOf(s)'
<1>0. Put(s) \in Nat /\ Put(s) <= Put(s)
  BY PutRange
<1>1. client'[s].at = client[s].at /\ client'[s].sent = client[s].sent
  BY DEF Quiet, ChromeMoves, HearMoves, Gets, Bursts, Misses, IsTold, Became
<1>2. Unsent(s)' = Unsent(s) /\ Put(s)' = Put(s)
  BY <1>1 DEF Unsent, Put
<1>3. Less(InTransit, InTransit', s)
  BY LessOnes DEF Quiet, ChromeMoves, HearMoves, Gets, Bursts, Misses, IsTold, Unsaid, Says
<1>4. /\ NoChannel(app.channels, s) => NoChannel(app'.channels, s)
      /\ \A h \in Seq(Chunk), r \in Nat :
            OneChannel(app'.channels, s, h, r) => \E q \in Nat : OneChannel(app.channels, s, h, q)
  BY OneOnly DEF Quiet, ChromeMoves, HearMoves
<1>. QED BY <1>0, <1>1, <1>2, <1>3, <1>4, OrderStays

LEMMA OrderOfApp ==
    ASSUME Base, Base', NEW s \in Stream, OrderOf(s), AppMoves(s) PROVE OrderOf(s)'
<1>0. Put(s) \in Nat /\ Put(s) <= Put(s)
  BY PutRange
<1>1. client'[s] = client[s] /\ Unsent(s)' = Unsent(s) /\ Put(s)' = Put(s)
  BY DEF AppMoves, Unsent, Put
<1>2. Less(InTransit, InTransit', s)
  BY LessOnes DEF AppMoves, ChannelOpens, Passes, ChannelCloses, ChannelEnds, Pumps, TakesOf, Unsaid
<1>3. CASE NoChannel(app'.channels, s)
  BY <1>0, <1>1, <1>2, <1>3, OneOnly, OrderStays
<1>4. CASE Pumps(s)
  <2>1. PICK h \in Seq(Chunk), r \in Nat :
             OneChannel(app.channels, s, h, r) /\ OneChannel(app'.channels, s, h, r + 1)
    BY <1>4 DEF Pumps
  <2>2. ~NoChannel(app.channels, s)
    BY <2>1, OneOnly
  <2>3. \A g \in Seq(Chunk), q \in Nat :
           OneChannel(app'.channels, s, g, q) => \E q2 \in Nat : OneChannel(app.channels, s, g, q2)
    <3>1. \A g, q : OneChannel(app'.channels, s, g, q) => g = h
      BY <2>1, OneAndNoOther
    <3>. QED BY <2>1, <3>1
  <2>4. (Unsent(s)' => Unsent(s)) /\ (client'[s].at # "done" => client[s].at # "done" /\ Put(s) <= Put(s)')
    BY <1>0, <1>1
  <2>. QED BY <1>2, <2>2, <2>3, <2>4, OrderStays
<1>5. CASE (\E f : TakesOf(s, "open", f)) /\ OneChannel(app'.channels, s, <<>>, 0)
  <2>1. PICK f : TakesOf(s, "open", f)
    BY <1>5
  <2>2. Has(InTransit, "open", s) /\ ~Has(InTransit', "open", s)
    BY <2>1, ShrunkHad, ShrunkOrder DEF TakesOf, OrderOf
  <2>3. ~Unsent(s)
    BY <2>2 DEF OrderOf
  <2>4. HeardSound(s, <<>>)'
    BY <2>2 DEF HeardSound, InOrder
  <2>5. \A h, r : OneChannel(app'.channels, s, h, r) => h = <<>>
    BY <1>5, OneAndNoOther
  <2>. QED BY <1>1, <1>2, <2>3, <2>4, <2>5 DEF OrderOf, Less
<1>6. ASSUME NEW f, TakesOf(s, "data", f), NEW h \in Seq(Chunk), NEW r \in Nat, OneChannel(app.channels, s, h, r),
             OneChannel(app'.channels, s, h \o f.chunks, r)
      PROVE  OrderOf(s)'
  <2>0. f \in SoundFrame /\ f.kind = "data" /\ Tag(f) = s /\ Shrunk(InTransit, InTransit', f)
    BY <1>6 DEF TakesOf
  <2>1. HeardSound(s, h)
    BY <1>6 DEF OrderOf
  <2>2. ~NoChannel(app.channels, s) /\ ~Unsent(s)
    BY <1>6, OneOnly DEF OrderOf
  <2>3. /\ Rising(f, s) /\ \A n : Holds(f, s, n) => Carries(InTransit, s, n)
        /\ \A m, n \in Nat : Holds(f, s, m) /\ Carries(InTransit', s, n) => m < n
    BY <2>0, ShrunkHas, ShrunkOrder DEF OrderOf
  <2>4. \A m \in Nat : Holds(f, s, m) => /\ 1 <= m /\ \A j \in DOMAIN h : h[j].n < m
                                         /\ client[s].at # "done" => m <= Put(s)
    BY <2>1, <2>3 DEF OrderOf, HeardSound
  <2>5. PICK x \in Seq(Chunk) :
             /\ x = h \o f.chunks /\ InOrder(x, s)
             /\ \A i \in DOMAIN x : (i \in DOMAIN h /\ x[i] = h[i]) \/ Holds(f, s, x[i].n)
    <3>1. InOrder(h, s)
      BY <2>1 DEF HeardSound
    <3>2. \A m \in Nat : Holds(f, s, m) => 1 <= m /\ \A j \in DOMAIN h : h[j].n < m
      BY <2>4
    <3>3. /\ InOrder(h \o f.chunks, s) /\ h \o f.chunks \in Seq(Chunk)
          /\ \A i \in DOMAIN (h \o f.chunks) :
                \/ i \in DOMAIN h /\ (h \o f.chunks)[i] = h[i]
                \/ \E k \in DOMAIN f.chunks : i = Len(h) + k /\ (h \o f.chunks)[i] = f.chunks[k]
                                              /\ Holds(f, s, (h \o f.chunks)[i].n)
      BY <2>0, <2>3, <3>1, <3>2, InOrderJoins
    <3>. QED BY <3>3
  <2>6. \A i \in DOMAIN x : x[i].n \in Nat
    <3>1. \A i \in DOMAIN x : x[i] \in Chunk
      OBVIOUS
    <3>. QED BY <3>1 DEF Chunk
  <2>7. HeardSound(s, x)'
    <3>1. ~Has(InTransit', "open", s)
      BY <1>2, <2>1 DEF HeardSound, Less
    <3>2. ASSUME client'[s].at # "done", NEW i \in DOMAIN x PROVE x[i].n <= Put(s)'
      BY <1>1, <2>1, <2>4, <2>5, <2>6, <3>2 DEF HeardSound
    <3>3. ASSUME NEW i \in DOMAIN x, NEW n \in Nat, Carries(InTransit', s, n) PROVE x[i].n < n
      BY <1>2, <2>1, <2>3, <2>5, <2>6, <3>3 DEF HeardSound, Less
    <3>. QED BY <2>5, <3>1, <3>2, <3>3 DEF HeardSound
  <2>8. \A g, q : OneChannel(app'.channels, s, g, q) => g = x
    <3>1. OneChannel(app'.channels, s, x, r)
      BY <1>6, <2>5, Zenon
    <3>. QED BY <3>1, OneAndNoOther
  <2>. QED BY <1>1, <1>2, <2>2, <2>7, <2>8 DEF OrderOf, Less
<1>. QED BY <1>3, <1>4, <1>5, <1>6 DEF AppMoves, ChannelOpens, Passes, ChannelCloses, ChannelEnds

LEMMA OrderKept ==
    ASSUME Base, Base', NEW s \in Stream, OrderOf(s), Moves(s) PROVE OrderOf(s)'
BY OrderOfThreads, OrderOfOthers, OrderOfApp DEF Moves

-----------------------------------------------------------------------------
(* The invariant, third part: no chunk is missing before another             *)

\* Of the chunks of s behind the first h, none is missing in Q before another;
\* p is the last one
NoGap(Q, s, h) == \A n \in Nat : Carries(Q, s, n) => 1 <= n /\ (n = h + 1 \/ Carries(Q, s, n - 1))
UpTo(Q, s, h, p) == p = h \/ Carries(Q, s, p)

\* The frame at the head continues what was read, and the rest continues the frame.
LEMMA PassesOn ==
    ASSUME NEW s \in Stream, NEW Q, NEW R, NEW f, Shrunk(Q, R, f), f.chunks \in Seq(Chunk),
           \A k \in DOMAIN f.chunks : f.chunks[k].of = s,
           Ordered(Q, s), NEW h \in Nat, NoGap(Q, s, h)
    PROVE  /\ \A k \in DOMAIN f.chunks : f.chunks[k].n = h + k
           /\ NoGap(R, s, h + Len(f.chunks))
           /\ \A p \in Nat : UpTo(Q, s, h, p) /\ (\A n \in Nat : Carries(Q, s, n) => n <= p)
                => UpTo(R, s, h + Len(f.chunks), p)
<1>0. PICK x \in Seq(Chunk) : x = f.chunks
  OBVIOUS
<1>1. PICK l \in Nat : l = Len(x) /\ DOMAIN x = 1..l
  OBVIOUS
<1>2. \A k \in 1..l : x[k].n \in Nat /\ x[k].of = s
  <2>1. \A k \in 1..l : x[k] \in Chunk
    BY <1>1
  <2>. QED BY <1>0, <1>1, <2>1 DEF Chunk
<1>3. \A n : Holds(f, s, n) <=> \E k \in 1..l : x[k].n = n
  BY <1>0, <1>1, <1>2 DEF Holds
<1>4. \A n : Carries(Q, s, n) <=> Carries(R, s, n) \/ \E k \in 1..l : x[k].n = n
  BY <1>3, ShrunkHas
<1>5. \A k \in 1..l, n \in Nat : Carries(R, s, n) => x[k].n < n
  BY <1>2, <1>3, ShrunkOrder
<1>6. \A k, j \in 1..l : k < j => x[k].n < x[j].n
  <2>1. Rising(f, s)
    BY ShrunkOrder
  <2>. QED BY <1>0, <1>1, <1>2, <2>1 DEF Rising
<1>7. \A n \in Nat : Carries(Q, s, n) => 1 <= n /\ (n = h + 1 \/ Carries(Q, s, n - 1))
  BY DEF NoGap
<1>8. ASSUME NEW k \in 1..l, x[k].n # h + 1
      PROVE  \E j \in 1..l : x[j].n + 1 = x[k].n /\ j < k
  <2>1. x[k].n \in Nat /\ 1 <= x[k].n /\ Carries(Q, s, x[k].n - 1)
    BY <1>2, <1>4, <1>7, <1>8
  <2>2. x[k].n - 1 \in Nat /\ ~(x[k].n < x[k].n - 1)
    BY <2>1
  <2>3. PICK j \in 1..l : x[j].n = x[k].n - 1
    BY <1>4, <1>5, <2>1, <2>2
  <2>4. x[j].n + 1 = x[k].n /\ x[j].n \in Nat
    BY <2>1, <2>3
  <2>5. j < k
    <3>1. ~(k < j)
      BY <1>6, <2>1, <2>4
    <3>2. j # k
      BY <2>1, <2>4
    <3>. QED BY <3>1, <3>2
  <2>. QED BY <2>4, <2>5
<1>9. \A k \in 1..l : x[k].n = h + k
  <2> DEFINE T == {k \in 1..l : x[k].n # h + k}
  <2>1. SUFFICES ASSUME T # {} PROVE FALSE
    OBVIOUS
  <2>2. PICK k \in T : \A j \in T : k <= j
    <3>1. T \in SUBSET Nat
      OBVIOUS
    <3>. QED BY <2>1, <3>1, Smallest
  <2>3. k \in 1..l /\ k \in Nat /\ x[k].n \in Nat /\ x[k].n # h + k
    BY <1>2, <2>2
  <2>4. \A j \in 1..l : j < k => x[j].n = h + j
    BY <2>2, <2>3
  <2>5. CASE x[k].n = h + 1
    <3>1. k # 1
      BY <2>3, <2>5
    <3>2. k - 1 \in 1..l /\ k - 1 < k
      BY <2>3, <3>1
    <3>3. x[k - 1].n = h + (k - 1) /\ x[k - 1].n < x[k].n
      BY <1>6, <2>4, <3>2
    <3>. QED BY <2>3, <2>5, <3>1, <3>3
  <2>6. CASE x[k].n # h + 1
    <3>1. PICK j \in 1..l : x[j].n + 1 = x[k].n /\ j < k
      BY <1>8, <2>3, <2>6
    <3>2. x[j].n = h + j
      BY <2>4, <3>1
    <3>3. CASE j = k - 1
      BY <2>3, <3>1, <3>2, <3>3
    <3>4. CASE j # k - 1
      <4>1. j < k - 1 /\ k - 1 \in 1..l /\ k - 1 < k
        BY <2>3, <3>1, <3>4
      <4>2. x[j].n < x[k - 1].n /\ x[k - 1].n < x[k].n /\ x[k - 1].n \in Nat /\ x[j].n \in Nat
        BY <1>2, <1>6, <2>3, <4>1
      <4>. QED BY <2>3, <3>1, <4>2
    <3>. QED BY <3>3, <3>4
  <2>. QED BY <2>5, <2>6
<1>10. ASSUME NEW n \in Nat, Carries(R, s, n)
       PROVE  1 <= n /\ (n = (h + l) + 1 \/ Carries(R, s, n - 1))
  <2>1. 1 <= n /\ (n = h + 1 \/ Carries(R, s, n - 1) \/ \E k \in 1..l : x[k].n = n - 1)
    BY <1>4, <1>7, <1>10
  <2>2. CASE n = h + 1
    <3>1. CASE l = 0
      BY <2>1, <2>2, <3>1
    <3>2. CASE l # 0
      <4>1. 1 \in 1..l
        BY <3>2
      <4>2. x[1].n = h + 1 /\ x[1].n < n
        BY <1>5, <1>9, <1>10, <4>1
      <4>. QED BY <2>2, <4>2
    <3>. QED BY <3>1, <3>2
  <2>3. CASE \E k \in 1..l : x[k].n = n - 1
    <3>1. PICK k \in 1..l : h + k = n - 1
      BY <1>9, <2>3
    <3>2. CASE k = l
      BY <2>1, <3>1, <3>2
    <3>3. CASE k # l
      <4>1. k + 1 \in 1..l
        BY <3>3
      <4>2. x[k + 1].n = h + (k + 1) /\ x[k + 1].n < n
        BY <1>5, <1>9, <1>10, <4>1
      <4>. QED BY <3>1, <4>2
    <3>. QED BY <3>2, <3>3
  <2>. QED BY <2>1, <2>2, <2>3
<1>11. ASSUME NEW p \in Nat, p = h \/ Carries(Q, s, p), \A n \in Nat : Carries(Q, s, n) => n <= p
       PROVE  p = h + l \/ Carries(R, s, p)
  <2>0. ASSUME NEW k \in 1..l PROVE h + k <= p
    <3>1. x[k].n \in Nat /\ Carries(Q, s, x[k].n)
      BY <1>2, <1>4
    <3>. QED BY <1>9, <1>11, <3>1
  <2>1. l = 0 \/ h + l <= p
    <3>1. l # 0 => l \in 1..l
      OBVIOUS
    <3>. QED BY <2>0, <3>1
  <2>2. CASE p = h
    BY <2>1, <2>2
  <2>3. CASE \E k \in 1..l : x[k].n = p
    <3>1. PICK k \in 1..l : h + k = p
      BY <1>9, <2>3
    <3>. QED BY <2>1, <3>1
  <2>. QED BY <1>4, <1>11, <2>2, <2>3
<1>. QED BY <1>0, <1>1, <1>9, <1>10, <1>11 DEF NoGap, UpTo

\* Of what s has sent, a channel that has heard h chunks will hear all
Complete(s, h) ==
    /\ NoGap(InTransit, s, h)
    /\ client[s].at = "holds" \/ (client[s].at = "read" /\ client[s].registered) =>
          UpTo(InTransit, s, h, Put(s))
ContigOf(s) == s[1] = lease.proxy =>
    /\ Has(InTransit, "open", s) => Complete(s, 0)
    /\ \A h \in Seq(Chunk), r \in Nat :
          OneChannel(app.channels, s, h, r) => Whole(h) /\ Complete(s, Len(h))

\* A stream that becomes one of the worker's proxy has no client yet.
LEMMA LeaseGoes ==
    ASSUME Base, Base', TunnelNext, NEW s \in Stream, s[1] = lease'.proxy
    PROVE  s[1] = lease.proxy \/ client'[s].at = "none"
<1>0. s[1] \in Lease /\ s[1] # 0
  BY TunnelAssumption DEF Stream, Lease
<1>1. CASE AcquireProxy
  <2>1. lease'.phase = "starting" /\ lease'.n = lease'.proxy
    BY <1>1 DEF AcquireProxy
  <2>. QED BY <2>1 DEF Base, ThreadsSound, ClientSound
<1>2. CASE Detach \/ OnBrowserStopped \/ StopAfterDetach \/ StopFailedStart \/ OnBrowserReady
  <2>1. lease \in [n : 0..MaxLeases, proxy : 0..MaxLeases,
                   phase : {"idle", "starting", "ready", "detaching", "stopping"}]
    BY DEF Base, Shape
  <2>2. lease'.proxy \in {0, lease.proxy}
    BY <1>2, <2>1 DEF Detach, OnBrowserStopped, StopAfterDetach, StopFailedStart, OnBrowserReady
  <2>. QED BY <1>0, <2>2
<1>3. CASE lease' = lease
  BY <1>3
<1>4. lease' = lease \/ AcquireProxy \/ Detach \/ OnBrowserStopped \/ StopAfterDetach \/ StopFailedStart \/ OnBrowserReady
  BY DEF TunnelNext, Wake, DrainFlushes, DrainRechecks, DrainAwakes, Accept, SendOpen, StopProxy, StopClient,
         ReadChunk, SendChunk, ResetStream, ReaderEnds, SendClose, OnData, OnClose, AppStart, AppReady, AppStop,
         AppOpen, AppConnected, AppData, AppClose, AppPumps, FromServer
<1>. QED BY <1>1, <1>2, <1>3, <1>4

LEMMA ContigStays ==
    ASSUME Base, NEW s \in Stream, ContigOf(s), s[1] = lease.proxy,
           Has(InTransit', "open", s) => Has(InTransit, "open", s),
           \A n : Carries(InTransit', s, n) <=> Carries(InTransit, s, n),
           client'[s].at = "holds" \/ (client'[s].at = "read" /\ client'[s].registered) =>
               /\ Put(s)' = Put(s)
               /\ client[s].at = "holds" \/ (client[s].at = "read" /\ client[s].registered),
           \A h \in Seq(Chunk), r \in Nat :
               OneChannel(app'.channels, s, h, r) => \E q \in Nat : OneChannel(app.channels, s, h, q)
    PROVE  ContigOf(s)'
<1>1. \A h : Complete(s, h) => Complete(s, h)'
  BY DEF Complete, NoGap, UpTo
<1>2. \A h : Complete(s, Len(h)) => Complete(s, Len(h))'
  BY <1>1
<1>. QED BY <1>1, <1>2 DEF ContigOf

LEMMA ContigOfThreads ==
    ASSUME Base, Base', NEW s \in Stream, OrderOf(s), OrderOf(s)', ContigOf(s), ThreadMoves(s) PROVE ContigOf(s)'
<1>0. /\ Put(s) \in Nat /\ client[s].sent \in Nat
      /\ client[s].at = "holds" => Put(s) + 1 = client[s].sent
      /\ client[s].at # "holds" => Put(s) = client[s].sent
      /\ Unsent(s) => client[s].sent = 0
  BY PutRange
<1>1. app' = app /\ lease' = lease
  BY DEF ThreadMoves, OnItsOwn
<1>2. SUFFICES ASSUME s[1] = lease.proxy PROVE ContigOf(s)'
  BY <1>1 DEF ContigOf
<1>3. ReadOn(s) \in {"read", "leaving"} /\ (SocketOpen(s) => client[s].registered)
  <2>1. ~proxies[s[1]].stopped
    <3>1. s[1] \in Lease
      BY DEF Stream
    <3>. QED BY <1>2, <3>1 DEF Base, ThreadsSound, ProxySound, GivenUp
  <2>. QED BY <2>1 DEF ReadOn, SocketOpen
<1>4. CASE Accepts(s)
  <2>1. Unsent(s)'
    BY <1>4 DEF Accepts, Became, Unsent
  <2>. QED BY <2>1, OneOnly DEF OrderOf, ContigOf
<1>5. CASE Opens(s)
  <2>1. PICK f : f = Mux("open", s) /\ f.kind = "open" /\ Tag(f) = s /\ f.chunks = <<>>
    BY ClientFrames
  <2>2. Grown(InTransit, InTransit', f)
    BY <1>5, <2>1 DEF Opens, Says
  <2>3. \A n : ~Holds(f, s, n)
    BY <2>1 DEF Holds
  <2>4. Unsent(s) /\ Put(s)' = 0
    BY <1>0, <1>3, <1>5 DEF Opens, Became, Unsent, Put
  <2>5. ~Has(InTransit, "data", s) /\ NoChannel(app.channels, s)
    BY <2>4 DEF OrderOf
  <2>6. \A n : ~Carries(InTransit', s, n)
    <3>1. \A n : ~Carries(InTransit, s, n)
      BY <2>5, CarriedOnes DEF Base
    <3>. QED BY <2>2, <2>3, <3>1, GrownHas
  <2>7. Complete(s, 0)'
    BY <2>4, <2>6 DEF Complete, NoGap, UpTo
  <2>8. \A h, r : ~OneChannel(app'.channels, s, h, r)
    BY <1>1, <2>5, OneOnly
  <2>. QED BY <2>7, <2>8 DEF ContigOf
<1>6. CASE Puts(s)
  <2>1. PICK f : f = Data(s)
    OBVIOUS
  <2>2. Grown(InTransit, InTransit', f) /\ f.kind = "data" /\ (\A n : Holds(f, s, n) <=> n = client[s].sent)
    BY <1>6, <2>1, DataFrames DEF Base, Puts, Says
  <2>3. client[s].at = "holds" /\ Put(s)' = client[s].sent
    BY <1>3, <1>6 DEF Puts, Became, Put
  <2>4. Put(s) + 1 = client[s].sent /\ client[s].sent - 1 = Put(s) /\ 1 <= client[s].sent
    BY <1>0, <2>3
  <2>5. \A n : Carries(InTransit', s, n) <=> Carries(InTransit, s, n) \/ n = client[s].sent
    BY <2>2, GrownHas
  <2>6. ASSUME NEW h, Complete(s, h) PROVE Complete(s, h)'
    <3>1. NoGap(InTransit, s, h) /\ UpTo(InTransit, s, h, Put(s))
      BY <2>3, <2>6 DEF Complete
    <3>2. UpTo(InTransit', s, h, Put(s)')
      BY <2>3, <2>5 DEF UpTo
    <3>3. ASSUME NEW n \in Nat, Carries(InTransit', s, n)
          PROVE  1 <= n /\ (n = h + 1 \/ Carries(InTransit', s, n - 1))
      <4>1. CASE Carries(InTransit, s, n)
        BY <2>5, <3>1, <4>1 DEF NoGap
      <4>2. CASE n = client[s].sent
        BY <2>4, <2>5, <3>1, <4>2 DEF UpTo
      <4>. QED BY <2>5, <3>3, <4>1, <4>2
    <3>. QED BY <3>2, <3>3 DEF Complete, NoGap
  <2>7. \A h : Complete(s, Len(h)) => Complete(s, Len(h))'
    BY <2>6
  <2>8. Has(InTransit', "open", s) => Has(InTransit, "open", s)
    BY <2>2, GrownHas
  <2>. QED BY <1>1, <1>2, <2>6, <2>7, <2>8 DEF ContigOf
<1>7. CASE Reads(s) \/ Fills(s) \/ Pops(s) \/ GoesOn(s) \/ Ends(s)
  <2>1. InTransit' = InTransit
    BY <1>7 DEF Reads, Fills, Pops, GoesOn, Ends, Unsaid
  <2>2. client'[s].at = "holds" \/ (client'[s].at = "read" /\ client'[s].registered) =>
            /\ Put(s)' = Put(s)
            /\ client[s].at = "holds" \/ (client[s].at = "read" /\ client[s].registered)
    <3>1. CASE Reads(s)
      <4>1. Put(s)' = (client[s].sent + 1) - 1 /\ Put(s) = client[s].sent
        BY <1>0, <3>1 DEF Reads, Became, Put
      <4>2. Put(s)' = Put(s)
        BY <1>0, <4>1
      <4>. QED BY <1>3, <3>1, <4>2 DEF Reads
    <3>2. CASE Fills(s) \/ Pops(s) \/ Ends(s)
      BY <3>2 DEF Fills, Pops, Ends, Became
    <3>3. CASE GoesOn(s)
      BY <1>2, <1>3, <3>3 DEF GoesOn, Became
    <3>. QED BY <1>7, <3>1, <3>2, <3>3
  <2>. QED BY <1>1, <1>2, <2>1, <2>2, ContigStays
<1>8. CASE Closes(s)
  <2>1. PICK f : f = Mux("close", s) /\ f.kind = "close" /\ f.chunks = <<>>
    BY ClientFrames
  <2>2. Grown(InTransit, InTransit', f)
    BY <1>8, <2>1 DEF Closes, Says
  <2>3. \A n : ~Holds(f, s, n)
    BY <2>1 DEF Holds
  <2>4. /\ Has(InTransit', "open", s) => Has(InTransit, "open", s)
        /\ \A n : Carries(InTransit', s, n) <=> Carries(InTransit, s, n)
    BY <2>1, <2>2, <2>3, GrownHas
  <2>5. client'[s].at \notin {"holds", "read"}
    BY <1>8 DEF Closes, Became
  <2>. QED BY <1>1, <1>2, <2>4, <2>5, ContigStays
<1>9. ~IsDropped(s) /\ ~IsClosed(s)
  BY <1>2 DEF IsDropped, IsClosed, GivenUp
<1>. QED BY <1>4, <1>5, <1>6, <1>7, <1>8, <1>9 DEF ThreadMoves

LEMMA ContigOfOthers ==
    ASSUME Base, NEW s \in Stream, OrderOf(s), ContigOf(s), s[1] = lease.proxy,
           Quiet(s) \/ HearMoves(s) \/ ChromeMoves(s)
    PROVE  ContigOf(s)'
<1>1. /\ client'[s].at = client[s].at /\ client'[s].sent = client[s].sent
      /\ client'[s].registered => client[s].registered
  BY DEF Quiet, ChromeMoves, HearMoves, Gets, Bursts, Misses, IsTold, Became, KnownStream
<1>2. Put(s)' = Put(s)
  BY <1>1 DEF Put
<1>3. /\ Has(InTransit', "open", s) => Has(InTransit, "open", s)
      /\ \A n : Carries(InTransit', s, n) <=> Carries(InTransit, s, n)
  <2>1. CASE AlikeQ(InTransit, InTransit', s)
    BY <2>1 DEF AlikeQ, MuxKind
  <2>2. CASE InTransit' = InTransit
    BY <2>2
  <2>3. CASE Says(Mux("close", s))
    <3>1. PICK f : f = Mux("close", s) /\ f.kind = "close" /\ f.chunks = <<>>
      BY ClientFrames
    <3>2. Grown(InTransit, InTransit', f)
      BY <2>3, <3>1 DEF Says
    <3>3. \A n : ~Holds(f, s, n)
      BY <3>1 DEF Holds
    <3>. QED BY <3>1, <3>2, <3>3, GrownHas
  <2>. QED BY <2>1, <2>2, <2>3 DEF Quiet, ChromeMoves, HearMoves, Gets, Bursts, Misses, IsTold, Unsaid
<1>4. \A h \in Seq(Chunk), r \in Nat :
         OneChannel(app'.channels, s, h, r) => \E q \in Nat : OneChannel(app.channels, s, h, q)
  BY OneOnly DEF Quiet, ChromeMoves, HearMoves
<1>. QED BY <1>1, <1>2, <1>3, <1>4, ContigStays

LEMMA ContigOfApp ==
    ASSUME Base, NEW s \in Stream, OrderOf(s), ContigOf(s), s[1] = lease.proxy, AppMoves(s)
    PROVE  ContigOf(s)'
<1>1. client'[s] = client[s] /\ Put(s)' = Put(s) /\ Put(s) \in Nat
  BY PutRange DEF AppMoves, Put
<1>2. CASE NoChannel(app'.channels, s) /\ ~Has(InTransit', "open", s)
  BY <1>2, OneOnly DEF ContigOf
<1>3. CASE ChannelEnds(s)
  <2>1. PICK h \in Seq(Chunk), r \in Nat : OneChannel(app.channels, s, h, r)
    <3>1. PICK ch \in app.channels : ch.of = s
      BY <1>3 DEF ChannelEnds, NoChannel
    <3>. QED BY <3>1, ChannelOf
  <2>2. ~Has(InTransit, "open", s)
    BY <2>1 DEF OrderOf, HeardSound
  <2>. QED BY <1>2, <1>3, <2>2 DEF ChannelEnds, Unsaid
<1>4. CASE Pumps(s)
  <2>1. PICK h \in Seq(Chunk), r \in Nat :
             OneChannel(app.channels, s, h, r) /\ OneChannel(app'.channels, s, h, r + 1)
    BY <1>4 DEF Pumps
  <2>2. \A g \in Seq(Chunk), q \in Nat :
           OneChannel(app'.channels, s, g, q) => \E q2 \in Nat : OneChannel(app.channels, s, g, q2)
    <3>1. \A g, q : OneChannel(app'.channels, s, g, q) => g = h
      BY <2>1, OneAndNoOther
    <3>. QED BY <2>1, <3>1
  <2>. QED BY <1>1, <1>4, <2>2, ContigStays DEF Pumps, Unsaid
<1>5. ASSUME NEW f, f.kind \in {"open", "close"}, TakesOf(s, f.kind, f)
      PROVE  /\ Has(InTransit', "open", s) => Has(InTransit, "open", s)
             /\ \A n : Carries(InTransit', s, n) <=> Carries(InTransit, s, n)
  <2>1. f \in SoundFrame /\ Shrunk(InTransit, InTransit', f)
    BY <1>5 DEF TakesOf
  <2>2. \A n : ~Holds(f, s, n)
    BY <1>5, <2>1, HeldBy
  <2>. QED BY <2>1, <2>2, ShrunkHas
<1>6. CASE ChannelCloses(s)
  <2>1. PICK f : TakesOf(s, "close", f)
    BY <1>6 DEF ChannelCloses
  <2>2. f.kind = "close"
    BY <2>1 DEF TakesOf
  <2>3. /\ Has(InTransit', "open", s) => Has(InTransit, "open", s)
        /\ \A n : Carries(InTransit', s, n) <=> Carries(InTransit, s, n)
    BY <1>5, <2>1, <2>2
  <2>4. \A h, r : ~OneChannel(app'.channels, s, h, r)
    BY <1>6, OneOnly DEF ChannelCloses
  <2>. QED BY <1>1, <2>3, <2>4, ContigStays
<1>7. CASE ChannelOpens(s)
  <2>1. PICK f : TakesOf(s, "open", f)
    BY <1>7 DEF ChannelOpens
  <2>2. f.kind = "open" /\ Tag(f) = s /\ Shrunk(InTransit, InTransit', f)
    BY <2>1 DEF TakesOf
  <2>3. Has(InTransit, "open", s) /\ ~Has(InTransit', "open", s)
    BY <2>2, ShrunkHad, ShrunkOrder DEF OrderOf
  <2>4. \A n : Carries(InTransit', s, n) <=> Carries(InTransit, s, n)
    BY <1>5, <2>1, <2>2
  <2>5. Complete(s, 0)
    BY <2>3 DEF ContigOf
  <2>6. Complete(s, 0)'
    BY <1>1, <2>4, <2>5 DEF Complete, NoGap, UpTo
  <2>7. Whole(<<>>) /\ Len(<<>>) = 0
    BY DEF Whole
  <2>8. \A h, r : OneChannel(app'.channels, s, h, r) => h = <<>>
    BY <1>7, OneOnly DEF ChannelOpens
  <2>. QED BY <2>3, <2>6, <2>7, <2>8 DEF ContigOf
<1>8. CASE Passes(s)
  <2>1. PICK f : /\ TakesOf(s, "data", f)
                 /\ \/ NoChannel(app'.channels, s)
                    \/ \E h \in Seq(Chunk), r \in Nat :
                          OneChannel(app.channels, s, h, r) /\ OneChannel(app'.channels, s, h \o f.chunks, r)
    BY <1>8 DEF Passes
  <2>2. f \in SoundFrame /\ f.kind = "data" /\ Tag(f) = s /\ Shrunk(InTransit, InTransit', f)
    BY <2>1 DEF TakesOf
  <2>3. ~Has(InTransit', "open", s)
    BY <2>2, ShrunkOrder DEF OrderOf
  <2>4. CASE NoChannel(app'.channels, s)
    BY <1>2, <2>3, <2>4
  <2>5. ASSUME NEW h \in Seq(Chunk), NEW r \in Nat,
               OneChannel(app.channels, s, h, r), OneChannel(app'.channels, s, h \o f.chunks, r)
        PROVE  ContigOf(s)'
    <3>1. Whole(h) /\ Complete(s, Len(h))
      BY <2>5 DEF ContigOf
    <3>2. f.chunks \in Seq(Chunk) /\ \A k \in DOMAIN f.chunks : f.chunks[k].of = s
      BY <2>2 DEF SoundFrame, Frame
    <3>3. Len(h) \in Nat /\ Ordered(InTransit, s) /\ NoGap(InTransit, s, Len(h))
      BY <3>1 DEF Complete, OrderOf
    <3>4. /\ \A k \in DOMAIN f.chunks : f.chunks[k].n = Len(h) + k
          /\ NoGap(InTransit', s, Len(h) + Len(f.chunks))
          /\ \A p \in Nat :
                UpTo(InTransit, s, Len(h), p) /\ (\A n \in Nat : Carries(InTransit, s, n) => n <= p)
                => UpTo(InTransit', s, Len(h) + Len(f.chunks), p)
      BY <2>2, <3>2, <3>3, PassesOn
    <3>5. PICK x \in Seq(Chunk) : x = h \o f.chunks
      <4>1. h \o f.chunks \in Seq(Chunk)
        BY <3>2
      <4>. QED BY <4>1
    <3>6. Whole(x) /\ Len(x) = Len(h) + Len(f.chunks)
      <4>1. /\ Len(h) \in Nat /\ Len(f.chunks) \in Nat /\ DOMAIN h = 1..Len(h) /\ DOMAIN f.chunks = 1..Len(f.chunks)
            /\ DOMAIN x = 1..(Len(h) + Len(f.chunks)) /\ Len(x) \in Nat /\ DOMAIN x = 1..Len(x)
            /\ \A i \in 1..Len(h) : x[i] = h[i]
            /\ \A i \in 1..Len(f.chunks) : x[Len(h) + i] = f.chunks[i]
        BY <3>2, <3>5, Joint
      <4>2. ASSUME NEW i \in DOMAIN x PROVE x[i].n = i
        <5>1. CASE i \in 1..Len(h)
          BY <3>1, <4>1, <5>1 DEF Whole
        <5>2. CASE i - Len(h) \in 1..Len(f.chunks)
          <6>1. PICK k \in 1..Len(f.chunks) : k = i - Len(h)
            BY <5>2
          <6>2. i = Len(h) + k
            BY <4>1, <6>1
          <6>. QED BY <3>4, <4>1, <6>2
        <5>3. i \in 1..Len(h) \/ i - Len(h) \in 1..Len(f.chunks)
          BY <4>1
        <5>. QED BY <5>1, <5>2, <5>3
      <4>3. Len(x) = Len(h) + Len(f.chunks)
        BY <4>1
      <4>. QED BY <4>2, <4>3 DEF Whole
    <3>7. Complete(s, Len(x))'
      <4>1. ASSUME client'[s].at = "holds" \/ (client'[s].at = "read" /\ client'[s].registered)
            PROVE  UpTo(InTransit', s, Len(x), Put(s)')
        <5>1. UpTo(InTransit, s, Len(h), Put(s)) /\ \A n \in Nat : Carries(InTransit, s, n) => n <= Put(s)
          BY <1>1, <3>1, <4>1 DEF Complete, OrderOf
        <5>. QED BY <1>1, <3>4, <3>6, <5>1
      <4>. QED BY <3>4, <3>6, <4>1 DEF Complete
    <3>8. \A g, q : OneChannel(app'.channels, s, g, q) => g = x
      <4>1. OneChannel(app'.channels, s, x, r)
        BY <2>5, <3>5
      <4>. QED BY <4>1, OneOnly
    <3>. QED BY <2>3, <3>6, <3>7, <3>8 DEF ContigOf
  <2>. QED BY <2>1, <2>4, <2>5
<1>. QED BY <1>3, <1>4, <1>6, <1>7, <1>8 DEF AppMoves

LEMMA ContigKept ==
    ASSUME Base, Base', TunnelNext, NEW s \in Stream, OrderOf(s), OrderOf(s)', ContigOf(s), Moves(s)
    PROVE  ContigOf(s)'
<1>1. CASE client'[s].at = "none"
  <2>1. Unsent(s)'
    BY <1>1 DEF Unsent
  <2>. QED BY <2>1, OneOnly DEF OrderOf, ContigOf
<1>2. CASE s[1] = lease.proxy
  BY <1>2, ContigOfThreads, ContigOfOthers, ContigOfApp DEF Moves
<1>3. CASE s[1] # lease'.proxy
  BY <1>3 DEF ContigOf
<1>. QED BY <1>1, <1>2, <1>3, LeaseGoes

-----------------------------------------------------------------------------
(* The invariant, fourth part: what a client gets                            *)

\* The worker hears what Chrome sends to s
Cares(s) == s[1] = lease.proxy /\ (lease.phase = "ready" \/ client[s].at # "none")

RepliesIn(s) ==
    /\ Mine(toServer, s) /\ Ordered(toServer, s)
    /\ Unsent(s) \/ Has(InTransit, "open", s) => ~Told(toServer, "data", s[2]) /\ client[s].got = <<>>
    /\ client[s].registered => NoGap(toServer, s, Len(client[s].got))
    /\ \A h \in Seq(Chunk), r \in Nat : OneChannel(app.channels, s, h, r) =>
          /\ \A n \in Nat : Carries(toServer, s, n) => n <= r
          /\ client[s].registered => UpTo(toServer, s, Len(client[s].got), r)

RepliesOf(s) ==
    /\ InOrder(client[s].got, s) /\ Whole(client[s].got)
    /\ Cares(s) => RepliesIn(s)

\* Of the new Chrome there is nothing yet
Fresh(s) ==
    /\ client[s] = NewClient /\ app.channels = {}
    /\ \A kind : Lacks(InTransit, kind) /\ Lacks(toServer, kind)

\* A chunk in the answers is told as data.
LEMMA CarriedBack ==
    ASSUME Shape, NEW s
    PROVE  \A n : Carries(toServer, s, n) => Told(toServer, "data", s[2]) /\ n \in Nat
<1>1. ASSUME NEW n, NEW q \in DOMAIN toServer, Holds(toServer[q], s, n)
      PROVE  toServer[q].kind = "data" /\ toServer[q].id = s[2] /\ n \in Nat
  <2>1. PICK a \in SoundAnswer : a = toServer[q]
    BY DEF Shape
  <2>2. a.kind = "data" /\ a.id = s[2]
    BY <1>1, <2>1, HeldByAnswer
  <2>3. a.chunks[1] \in Chunk /\ a.chunks[1].n = n
    BY <1>1, <2>1, <2>2, HeldByAnswer
  <2>. QED BY <2>1, <2>2, <2>3 DEF Chunk
<1>. QED BY <1>1 DEF Carries, Told

LEMMA FreshIs ==
    ASSUME Base, NEW s \in Stream, OnBrowserReady, lease.phase = "starting", s[1] = lease.proxy
    PROVE  Fresh(s)'
<1>1. PICK a : a = Head(toServer) /\ a.kind = "ready" /\ Shrunk(toServer, toServer', a)
  BY Heard DEF OnBrowserReady, Base
<1>2. ~Lacks(toServer, "ready")
  BY <1>1, ShrunkHad
<1>3. app.chrome = "up" /\ (\A kind : Lacks(InTransit, kind)) /\ app.channels = {} /\ ReadyLast
  BY <1>2 DEF Base, PhaseSound
<1>4. \A kind : Lacks(toServer', kind)
  BY <1>1, <1>3, LastOnes, ReadyIsLast
<1>5. client' = client /\ app' = app /\ outbox' = outbox /\ toApp' = toApp
  BY DEF OnBrowserReady, FromApp
<1>6. InTransit' = InTransit
  BY <1>5 DEF InTransit
<1>7. lease.proxy = lease.n
  BY DEF Base, ThreadsSound, LeaseSound
<1>8. client[s] = NewClient
  BY <1>7 DEF Base, ThreadsSound, ClientSound
<1>. QED BY <1>3, <1>4, <1>5, <1>6, <1>8 DEF Fresh

LEMMA FreshReplies == ASSUME NEW s \in Stream, Fresh(s), Shape PROVE RepliesOf(s)
<1>1. client[s].got = <<>> /\ ~client[s].registered
  BY DEF Fresh, NewClient
<1>2. InOrder(<<>>, s) /\ Whole(<<>>)
  BY DEF InOrder, Whole
<1>3. DOMAIN toServer = {}
  BY DEF Fresh, Lacks
<1>4. Mine(toServer, s) /\ Ordered(toServer, s) /\ ~Told(toServer, "data", s[2])
  BY <1>3 DEF Mine, Ordered, Told
<1>5. \A h, r : ~OneChannel(app.channels, s, h, r)
  BY DEF Fresh, OneChannel
<1>. QED BY <1>1, <1>2, <1>4, <1>5 DEF RepliesOf, RepliesIn

\* The lease becomes ready in one way.
LEMMA ReadyGoes ==
    ASSUME Base, TunnelNext, NEW s \in Stream, lease'.phase = "ready", s[1] = lease'.proxy
    PROVE  (lease.phase = "ready" /\ s[1] = lease.proxy) \/ Fresh(s)'
<1>1. CASE lease' = lease
  BY <1>1
<1>2. CASE OnBrowserReady
  <2>1. lease \in [n : 0..MaxLeases, proxy : 0..MaxLeases,
                   phase : {"idle", "starting", "ready", "detaching", "stopping"}]
    BY DEF Base, Shape
  <2>2. lease'.proxy = lease.proxy /\ (lease.phase = "ready" \/ lease.phase = "starting")
    BY <1>2, <2>1 DEF OnBrowserReady
  <2>. QED BY <1>2, <2>2, FreshIs
<1>3. CASE AcquireProxy \/ Detach \/ OnBrowserStopped \/ StopAfterDetach \/ StopFailedStart
  <2>1. lease \in [n : 0..MaxLeases, proxy : 0..MaxLeases,
                   phase : {"idle", "starting", "ready", "detaching", "stopping"}]
    BY DEF Base, Shape
  <2>2. CASE OnBrowserStopped
    BY <2>1, <2>2 DEF OnBrowserStopped
  <2>3. ~AcquireProxy
    BY DEF AcquireProxy
  <2>4. ~Detach /\ ~StopAfterDetach /\ ~StopFailedStart
    BY <2>1 DEF Detach, StopAfterDetach, StopFailedStart
  <2>. QED BY <1>1, <1>3, <2>2, <2>3, <2>4
<1>4. lease' = lease \/ AcquireProxy \/ Detach \/ OnBrowserStopped \/ StopAfterDetach \/ StopFailedStart \/ OnBrowserReady
  BY DEF TunnelNext, Wake, DrainFlushes, DrainRechecks, DrainAwakes, Accept, SendOpen, StopProxy, StopClient,
         ReadChunk, SendChunk, ResetStream, ReaderEnds, SendClose, OnData, OnClose, AppStart, AppReady, AppStop,
         AppOpen, AppConnected, AppData, AppClose, AppPumps, FromServer
<1>. QED BY <1>1, <1>2, <1>3, <1>4

\* A client comes to life by being accepted.
LEMMA ComesToLife ==
    ASSUME NEW s \in Stream, Moves(s), client[s].at = "none", client'[s].at # "none"
    PROVE  ThreadMoves(s) /\ Accepts(s)
<1>1. ~Quiet(s) /\ ~AppMoves(s) /\ ~ChromeMoves(s)
  BY DEF Quiet, AppMoves, ChromeMoves
<1>2. ~HearMoves(s)
  BY DEF HearMoves, Gets, Bursts, Misses, IsTold, Became
<1>3. ThreadMoves(s)
  BY <1>1, <1>2 DEF Moves
<1>4. Accepts(s)
  BY <1>3 DEF ThreadMoves, Opens, Reads, Fills, Puts, Pops, GoesOn, Ends, Closes, IsDropped, IsClosed, Became
<1>. QED BY <1>3, <1>4

LEMMA CaresGoes ==
    ASSUME Base, Base', TunnelNext, NEW s \in Stream, Moves(s), Cares(s)'
    PROVE  Cares(s) \/ Fresh(s)'
<1>1. CASE lease'.phase = "ready"
  BY <1>1, ReadyGoes DEF Cares
<1>2. CASE client'[s].at # "none"
  <2>1. s[1] = lease.proxy
    BY <1>2, LeaseGoes DEF Cares
  <2>2. CASE client[s].at = "none"
    <3>1. lease.phase \in {"ready", "detaching"}
      BY <1>2, <2>2, ComesToLife DEF Accepts
    <3>2. s[1] \in Lease /\ s[1] # 0
      BY TunnelAssumption DEF Stream, Lease
    <3>3. lease.phase # "detaching"
      BY <2>1, <3>2 DEF Base, ThreadsSound, LeaseSound
    <3>. QED BY <2>1, <3>1, <3>3 DEF Cares
  <2>. QED BY <2>1, <2>2 DEF Cares
<1>. QED BY <1>1, <1>2 DEF Cares

\* What the answers hold of s is as before, and so is the client, unless it is gone.
LEMMA RepliesStay ==
    ASSUME NEW s \in Stream, RepliesIn(s), AlikeT(toServer, toServer', s),
           Unsent(s)' \/ Has(InTransit', "open", s) => Unsent(s) \/ Has(InTransit, "open", s),
           client'[s].registered => client[s].registered,
           client'[s].got = client[s].got \/ (client'[s].got = <<>> /\ ~client'[s].registered),
           \A h \in Seq(Chunk), r \in Nat :
               OneChannel(app'.channels, s, h, r) => \E g \in Seq(Chunk) : OneChannel(app.channels, s, g, r)
    PROVE  RepliesIn(s)'
<1>1. Mine(toServer', s) /\ Ordered(toServer', s)
  BY DEF RepliesIn, AlikeT
<1>2. Unsent(s)' \/ Has(InTransit', "open", s) => ~Told(toServer', "data", s[2]) /\ client'[s].got = <<>>
  BY DEF RepliesIn, AlikeT
<1>3. \A n : Carries(toServer', s, n) <=> Carries(toServer, s, n)
  BY DEF AlikeT
<1>4. client'[s].registered => NoGap(toServer', s, Len(client'[s].got))
  BY <1>3 DEF RepliesIn, NoGap
<1>5. ASSUME NEW h \in Seq(Chunk), NEW r \in Nat, OneChannel(app'.channels, s, h, r)
      PROVE  /\ \A n \in Nat : Carries(toServer', s, n) => n <= r
             /\ client'[s].registered => UpTo(toServer', s, Len(client'[s].got), r)
  <2>1. PICK g \in Seq(Chunk) : OneChannel(app.channels, s, g, r)
    BY <1>5
  <2>2. /\ \A n \in Nat : Carries(toServer, s, n) => n <= r
        /\ client[s].registered => UpTo(toServer, s, Len(client[s].got), r)
    BY <2>1 DEF RepliesIn
  <2>. QED BY <1>3, <2>2 DEF UpTo
<1>. QED BY <1>1, <1>2, <1>4, <1>5 DEF RepliesIn

LEMMA RepliesOfThreads ==
    ASSUME Base, NEW s \in Stream, OrderOf(s), RepliesIn(s), ThreadMoves(s) PROVE RepliesIn(s)'
<1>1. app' = app /\ toServer' = toServer /\ AlikeT(toServer, toServer', s)
  BY DEF ThreadMoves, OnItsOwn, AlikeT
<1>2. ReadOn(s) \in {"read", "leaving"}
  BY DEF ReadOn
<1>3. CASE Accepts(s)
  <2>1. Unsent(s) /\ Unsent(s)' /\ client'[s].got = client[s].got
    BY <1>3 DEF Accepts, Became, Unsent
  <2>2. ~Told(toServer, "data", s[2]) /\ client[s].got = <<>> /\ NoChannel(app.channels, s)
    BY <2>1 DEF RepliesIn, OrderOf
  <2>3. \A n : ~Carries(toServer, s, n)
    BY <2>2, CarriedBack DEF Base
  <2>4. \A h, r : ~OneChannel(app.channels, s, h, r)
    BY <2>2, OneOnly
  <2>5. NoGap(toServer', s, Len(client'[s].got))
    BY <1>1, <2>3 DEF NoGap
  <2>. QED BY <1>1, <2>1, <2>2, <2>4, <2>5 DEF RepliesIn
<1>4. CASE Opens(s)
  <2>1. Unsent(s)
    BY <1>4 DEF Opens, Unsent
  <2>. QED BY <1>1, <1>4, <2>1, RepliesStay DEF Opens, Became
<1>5. CASE Puts(s) \/ Closes(s) \/ IsClosed(s)
  <2>1. PICK f : f.kind # "open" /\ Grown(InTransit, InTransit', f)
    <3>1. Mux("close", s).kind = "close" /\ Data(s).kind = "data"
      BY ClientFrames, DataFrames DEF Base
    <3>. QED BY <1>5, <3>1 DEF Puts, Closes, IsClosed, Says
  <2>2. Has(InTransit', "open", s) => Has(InTransit, "open", s)
    BY <2>1, GrownHas
  <2>3. Unsent(s)' => Unsent(s)
    BY <1>2, <1>5 DEF Puts, Closes, IsClosed, Became, Unsent
  <2>4. /\ client'[s].registered => client[s].registered
        /\ client'[s].got = client[s].got \/ (client'[s].got = <<>> /\ ~client'[s].registered)
    BY <1>5 DEF Puts, Closes, IsClosed, Became
  <2>. QED BY <1>1, <2>2, <2>3, <2>4, RepliesStay
<1>6. CASE Reads(s) \/ Fills(s) \/ Pops(s) \/ GoesOn(s) \/ Ends(s) \/ IsDropped(s)
  <2>1. InTransit' = InTransit
    BY <1>6 DEF Reads, Fills, Pops, GoesOn, Ends, IsDropped, Unsaid
  <2>2. Unsent(s)' => Unsent(s)
    BY <1>2, <1>6 DEF Reads, Fills, Pops, GoesOn, Ends, IsDropped, Became, Unsent
  <2>3. /\ client'[s].registered => client[s].registered
        /\ client'[s].got = client[s].got \/ (client'[s].got = <<>> /\ ~client'[s].registered)
    BY <1>6 DEF Reads, Fills, Pops, GoesOn, Ends, IsDropped, Became
  <2>. QED BY <1>1, <2>1, <2>2, <2>3, RepliesStay
<1>. QED BY <1>3, <1>4, <1>5, <1>6 DEF ThreadMoves

LEMMA RepliesOfOthers ==
    ASSUME Base, NEW s \in Stream, RepliesIn(s), s[1] = lease.proxy, Quiet(s) \/ ChromeMoves(s) PROVE RepliesIn(s)'
<1>1. s[1] = lease.n
  <2>1. s[1] \in Lease /\ s[1] # 0
    BY TunnelAssumption DEF Stream, Lease
  <2>. QED BY <2>1 DEF Base, ThreadsSound, LeaseSound
<1>2. client'[s] = client[s] /\ AlikeT(toServer, toServer', s) /\ (Unsent(s)' <=> Unsent(s))
  BY <1>1 DEF Quiet, ChromeMoves, Unsent
<1>3. Has(InTransit', "open", s) => Has(InTransit, "open", s)
  BY DEF Quiet, ChromeMoves, AlikeQ, MuxKind
<1>4. \A h \in Seq(Chunk), r \in Nat :
         OneChannel(app'.channels, s, h, r) => \E g \in Seq(Chunk) : OneChannel(app.channels, s, g, r)
  BY OneOnly DEF Quiet, ChromeMoves
<1>. QED BY <1>2, <1>3, <1>4, RepliesStay

\* The next chunk is received: it is the next one that was sent.
LEMMA ChunksJoin ==
    \A x, y \in Seq(Chunk) :
        /\ DOMAIN (x \o y) = 1..(Len(x) + Len(y))
        /\ \A i \in 1..Len(x) : (x \o y)[i] = x[i]
        /\ \A i \in 1..Len(y) : (x \o y)[Len(x) + i] = y[i]
BY Joint

LEMMA GotNext ==
    ASSUME Base, NEW s \in Stream, NEW a \in SoundAnswer, a.id = s[2], a.kind = "data",
           Shrunk(toServer, toServer', a), RepliesIn(s), client[s].registered,
           InOrder(client[s].got, s), Whole(client[s].got),
           client'[s].got = client[s].got \o a.chunks
    PROVE  /\ InOrder(client'[s].got, s) /\ Whole(client'[s].got)
           /\ NoGap(toServer', s, Len(client'[s].got))
           /\ \A p \in Nat : UpTo(toServer, s, Len(client[s].got), p)
                             /\ (\A n \in Nat : Carries(toServer, s, n) => n <= p)
                => UpTo(toServer', s, Len(client'[s].got), p)
<1>1. a.chunks \in Seq(Chunk) /\ Len(a.chunks) = 1 /\ DOMAIN a.chunks = {1}
  BY HeldByAnswer DEF SoundAnswer, AppFrame
<1>2. a.chunks[1].of = s
  BY ToldShrunk DEF RepliesIn
<1>3. PICK g \in Seq(Chunk) : g = client[s].got
  <2>1. client[s] \in Client
    BY DEF Base, Shape
  <2>. QED BY <2>1 DEF Client
<1>4. PICK l \in Nat : l = Len(g) /\ DOMAIN g = 1..l
  OBVIOUS
<1>5. NoGap(toServer, s, l) /\ Ordered(toServer, s)
  BY <1>3, <1>4 DEF RepliesIn
<1>6. /\ a.chunks[1].n = l + 1
      /\ NoGap(toServer', s, l + 1)
      /\ \A p \in Nat : UpTo(toServer, s, l, p) /\ (\A n \in Nat : Carries(toServer, s, n) => n <= p)
           => UpTo(toServer', s, l + 1, p)
  <2>1. \A k \in DOMAIN a.chunks : a.chunks[k].of = s
    BY <1>1, <1>2
  <2>2. /\ \A k \in DOMAIN a.chunks : a.chunks[k].n = l + k
        /\ NoGap(toServer', s, l + Len(a.chunks))
        /\ \A p \in Nat : UpTo(toServer, s, l, p) /\ (\A n \in Nat : Carries(toServer, s, n) => n <= p)
             => UpTo(toServer', s, l + Len(a.chunks), p)
    BY <1>1, <1>5, <2>1, PassesOn
  <2>. QED BY <1>1, <2>2
<1>7. PICK x \in Seq(Chunk) : x = g \o a.chunks
  <2>1. g \o a.chunks \in Seq(Chunk)
    BY <1>1
  <2>. QED BY <2>1
<1>8. /\ DOMAIN x = 1..(l + 1) /\ Len(x) = l + 1
      /\ \A i \in 1..l : x[i] = g[i]
      /\ x[l + 1] = a.chunks[1]
  <2>1. /\ DOMAIN x = 1..(l + 1)
        /\ \A i \in 1..l : x[i] = g[i]
        /\ \A i \in 1..1 : x[l + i] = a.chunks[i]
    <3>1. /\ DOMAIN (g \o a.chunks) = 1..(Len(g) + Len(a.chunks))
          /\ \A i \in 1..Len(g) : (g \o a.chunks)[i] = g[i]
          /\ \A i \in 1..Len(a.chunks) : (g \o a.chunks)[Len(g) + i] = a.chunks[i]
      BY <1>1, ChunksJoin, Zenon
    <3>2. /\ DOMAIN x = 1..(Len(g) + Len(a.chunks))
          /\ \A i \in 1..Len(g) : x[i] = g[i]
          /\ \A i \in 1..Len(a.chunks) : x[Len(g) + i] = a.chunks[i]
      BY <1>7, <3>1, Zenon
    <3>3. Len(g) = l /\ Len(a.chunks) = 1
      BY <1>1, <1>4
    <3>. QED BY <3>2, <3>3, Zenon
  <2>2. Len(x) \in Nat /\ DOMAIN x = 1..Len(x)
    OBVIOUS
  <2>. QED BY <2>1, <2>2
<1>9. \A i \in 1..(l + 1) : x[i].n = i /\ x[i].of = s
  <2>1. \A i \in 1..l : g[i].n = i /\ g[i].of = s
    BY <1>3, <1>4 DEF InOrder, Whole
  <2>2. \A i \in 1..(l + 1) : i \in 1..l \/ i = l + 1
    OBVIOUS
  <2>. QED BY <1>2, <1>6, <1>8, <2>1, <2>2
<1>10. InOrder(x, s) /\ Whole(x)
  BY <1>8, <1>9 DEF InOrder, Whole
<1>11. client'[s].got = x
  BY <1>3, <1>7
<1>. QED BY <1>3, <1>4, <1>6, <1>8, <1>10, <1>11

LEMMA RepliesOfHearing ==
    ASSUME Base, NEW s \in Stream, RepliesIn(s), s[1] = lease.proxy,
           InOrder(client[s].got, s), Whole(client[s].got), HearMoves(s)
    PROVE  RepliesIn(s)' /\ InOrder(client'[s].got, s) /\ Whole(client'[s].got)
<1>1. PICK a \in SoundAnswer :
         /\ a.id = s[2] /\ Shrunk(toServer, toServer', a)
         /\ Gets(s, a) \/ Bursts(s, a) \/ Misses(s, a) \/ IsTold(s, a)
  BY DEF HearMoves
<1>2. app' = app
  BY DEF HearMoves
<1>3. /\ Mine(toServer', s) /\ Ordered(toServer', s)
      /\ Told(toServer', "data", s[2]) => Told(toServer, "data", s[2])
      /\ \A n : Carries(toServer', s, n) => Carries(toServer, s, n)
  BY <1>1, ToldShrunk, ShrunkHas, ShrunkOrder DEF RepliesIn
<1>4. Unsent(s)' <=> Unsent(s)
  BY <1>1 DEF Gets, Bursts, Misses, IsTold, Became, Unsent
<1>5. Has(InTransit', "open", s) => Has(InTransit, "open", s)
  <2>1. CASE InTransit' = InTransit
    BY <2>1
  <2>2. CASE Says(Mux("close", s))
    <3>1. PICK f : f.kind = "close" /\ Grown(InTransit, InTransit', f)
      BY <2>2, ClientFrames DEF Says
    <3>. QED BY <3>1, GrownHas
  <2>. QED BY <1>1, <2>1, <2>2 DEF Gets, Bursts, Misses, IsTold, Unsaid
<1>6. CASE Gets(s, a)
  <2>1. /\ a.kind = "data" /\ client[s].registered
        /\ client'[s].got = client[s].got \o a.chunks
    BY <1>6 DEF Gets, KnownStream, Became
  <2>2. Told(toServer, "data", s[2])
    BY <1>1, <2>1, ToldShrunk
  <2>3. ~Unsent(s)' /\ ~Has(InTransit', "open", s)
    BY <1>4, <1>5, <2>2 DEF RepliesIn
  <2>4. /\ InOrder(client'[s].got, s) /\ Whole(client'[s].got)
        /\ NoGap(toServer', s, Len(client'[s].got))
        /\ \A p \in Nat : UpTo(toServer, s, Len(client[s].got), p)
                          /\ (\A n \in Nat : Carries(toServer, s, n) => n <= p)
             => UpTo(toServer', s, Len(client'[s].got), p)
    BY <1>1, <2>1, GotNext
  <2>. QED BY <1>2, <1>3, <2>1, <2>3, <2>4 DEF RepliesIn
<1>7. CASE Bursts(s, a) \/ Misses(s, a) \/ IsTold(s, a)
  <2>1. ~client'[s].registered /\ client'[s].got = client[s].got
    BY <1>7 DEF Bursts, Misses, IsTold, Became, KnownStream
  <2>. QED BY <1>2, <1>3, <1>4, <1>5, <2>1 DEF RepliesIn
<1>. QED BY <1>1, <1>6, <1>7

LEMMA RepliesOfPumps ==
    ASSUME Base, NEW s \in Stream, OrderOf(s), RepliesIn(s), client'[s] = client[s], Pumps(s) PROVE RepliesIn(s)'
<1>1. PICK h \in Seq(Chunk), r \in Nat, a \in SoundAnswer :
         /\ OneChannel(app.channels, s, h, r) /\ OneChannel(app'.channels, s, h, r + 1)
         /\ a.kind = "data" /\ a.id = s[2] /\ a.chunks[1].of = s /\ a.chunks[1].n = r + 1
         /\ Grown(toServer, toServer', a)
  BY DEF Pumps
<1>2. /\ \A n \in Nat : Carries(toServer, s, n) => n <= r
      /\ client[s].registered => UpTo(toServer, s, Len(client[s].got), r)
  BY <1>1 DEF RepliesIn
<1>3. \A n : Holds(a, s, n) <=> n = r + 1
  BY <1>1, HeldByAnswer
<1>4. \A n : Carries(toServer', s, n) <=> Carries(toServer, s, n) \/ n = r + 1
  BY <1>1, <1>3, GrownHas
<1>5. Mine(toServer', s)
  BY <1>1, ToldGrown DEF RepliesIn
<1>6. Ordered(toServer', s)
  <2>1. Rising(a, s) /\ Ordered(toServer, s)
    BY HeldByAnswer DEF RepliesIn
  <2>2. \A m \in Nat : m <= r => m < r + 1
    OBVIOUS
  <2>3. \A m, n \in Nat : Carries(toServer, s, m) /\ Holds(a, s, n) => m < n
    BY <1>2, <1>3, <2>2
  <2>. QED BY <1>1, <2>1, <2>3, GrownOrder
<1>7. ~NoChannel(app.channels, s) /\ ~Has(InTransit, "open", s)
  BY <1>1, OneOnly DEF OrderOf, HeardSound
<1>8. ~Unsent(s)' /\ ~Has(InTransit', "open", s)
  BY <1>7 DEF OrderOf, Pumps, Unsaid, Unsent
<1>9. r + 1 \in Nat /\ (r + 1) - 1 = r /\ 1 <= r + 1 /\ \A n \in Nat : n <= r => n <= r + 1
  OBVIOUS
<1>10. ASSUME client[s].registered PROVE NoGap(toServer', s, Len(client[s].got))
  <2>1. ASSUME NEW n \in Nat, Carries(toServer', s, n)
        PROVE  1 <= n /\ (n = Len(client[s].got) + 1 \/ Carries(toServer', s, n - 1))
    <3>1. CASE Carries(toServer, s, n)
      BY <1>4, <1>10, <3>1 DEF RepliesIn, NoGap
    <3>2. CASE n = r + 1
      BY <1>2, <1>4, <1>9, <1>10, <3>2 DEF UpTo
    <3>. QED BY <1>4, <2>1, <3>1, <3>2
  <2>. QED BY <2>1 DEF NoGap
<1>11. \A n \in Nat : Carries(toServer', s, n) => n <= r + 1
  <2>1. r + 1 <= r + 1
    OBVIOUS
  <2>. QED BY <1>2, <1>4, <1>9, <2>1
<1>12. \A h2 : UpTo(toServer', s, h2, r + 1)
  BY <1>4 DEF UpTo
<1>13. \A g, q : OneChannel(app'.channels, s, g, q) => q = r + 1
  BY <1>1 DEF OneChannel
<1>. QED BY <1>5, <1>6, <1>8, <1>10, <1>11, <1>12, <1>13 DEF RepliesIn

LEMMA RepliesOfApp ==
    ASSUME Base, NEW s \in Stream, OrderOf(s), RepliesIn(s), AppMoves(s) PROVE RepliesIn(s)'
<1>1. client'[s] = client[s] /\ (Unsent(s)' <=> Unsent(s))
  BY DEF AppMoves, Unsent
<1>2. CASE Pumps(s)
  BY <1>1, <1>2, RepliesOfPumps
<1>3. CASE ChannelOpens(s) \/ Passes(s) \/ ChannelCloses(s) \/ ChannelEnds(s)
  <2>1. AlikeT(toServer, toServer', s)
    <3>1. CASE ToldNothing
      BY <3>1 DEF ToldNothing, AlikeT
    <3>2. CASE ToldClosed(s)
      <4>1. PICK a \in SoundAnswer : a.kind # "data" /\ Grown(toServer, toServer', a)
        BY <3>2 DEF ToldClosed
      <4>. QED BY <4>1, AlikeAnswers
    <3>. QED BY <1>3, <3>1, <3>2 DEF ChannelOpens, Passes, ChannelCloses, ChannelEnds
  <2>2. Has(InTransit', "open", s) => Has(InTransit, "open", s)
    <3>1. CASE \E f, kind : TakesOf(s, kind, f)
      BY <3>1, ShrunkHas DEF TakesOf
    <3>2. CASE Unsaid
      BY <3>2 DEF Unsaid
    <3>. QED BY <1>3, <3>1, <3>2 DEF ChannelOpens, Passes, ChannelCloses, ChannelEnds
  <2>3. CASE \A h, r : OneChannel(app'.channels, s, h, r) =>
                          \E g \in Seq(Chunk) : OneChannel(app.channels, s, g, r)
    BY <1>1, <2>1, <2>2, <2>3, RepliesStay
  <2>4. CASE NoChannel(app'.channels, s)
    BY <2>3, <2>4, OneOnly
  <2>5. CASE ChannelOpens(s) /\ OneChannel(app'.channels, s, <<>>, 0)
    <3>1. Has(InTransit, "open", s)
      <4>1. PICK f : TakesOf(s, "open", f)
        BY <2>5 DEF ChannelOpens
      <4>2. Shrunk(InTransit, InTransit', f) /\ f.kind = "open" /\ Tag(f) = s
        BY <4>1 DEF TakesOf
      <4>. QED BY <4>2, ShrunkHas
    <3>2. ~Told(toServer, "data", s[2]) /\ client[s].got = <<>>
      BY <3>1 DEF RepliesIn
    <3>3. ~Told(toServer', "data", s[2])
      BY <2>1, <3>2 DEF AlikeT
    <3>4. \A n : ~Carries(toServer', s, n)
      BY <2>1, <3>2, CarriedBack DEF AlikeT, Base
    <3>5. Mine(toServer', s) /\ Ordered(toServer', s)
      BY <2>1 DEF AlikeT, RepliesIn
    <3>6. Len(client'[s].got) = 0 /\ client'[s].got = <<>>
      BY <1>1, <3>2
    <3>7. \A h, r : OneChannel(app'.channels, s, h, r) => r = 0
      BY <2>5, OneOnly
    <3>. QED BY <3>3, <3>4, <3>5, <3>6, <3>7 DEF RepliesIn, NoGap, UpTo
  <2>6. ASSUME NEW f, NEW h \in Seq(Chunk), NEW r \in Nat, OneChannel(app.channels, s, h, r),
               OneChannel(app'.channels, s, h \o f.chunks, r)
        PROVE  RepliesIn(s)'
    <3>1. \A g, q : OneChannel(app'.channels, s, g, q) => q = r
      BY <2>6 DEF OneChannel
    <3>. QED BY <2>3, <2>6, <3>1
  <2>. QED BY <1>3, <2>4, <2>5, <2>6 DEF ChannelOpens, Passes, ChannelCloses, ChannelEnds
<1>. QED BY <1>2, <1>3 DEF AppMoves

LEMMA RepliesKept ==
    ASSUME Base, Base', TunnelNext, NEW s \in Stream, OrderOf(s), RepliesOf(s), Moves(s)
    PROVE  RepliesOf(s)'
<1>1. CASE Fresh(s)'
  <2>1. Shape'
    BY DEF Base
  <2>2. client'[s].got = <<>> /\ ~client'[s].registered
    BY <1>1 DEF Fresh, NewClient
  <2>3. InOrder(<<>>, s) /\ Whole(<<>>)
    BY DEF InOrder, Whole
  <2>4. DOMAIN toServer' = {}
    BY <1>1 DEF Fresh, Lacks
  <2>5. Mine(toServer', s) /\ Ordered(toServer', s) /\ ~Told(toServer', "data", s[2])
    BY <2>4 DEF Mine, Ordered, Told
  <2>6. \A h, r : ~OneChannel(app'.channels, s, h, r)
    BY <1>1 DEF Fresh, OneChannel
  <2>. QED BY <2>2, <2>3, <2>5, <2>6 DEF RepliesOf, RepliesIn
<1>2. CASE HearMoves(s) /\ KnownStream(s)
  <2>1. s[1] = lease.proxy /\ client[s].at # "none"
    BY <1>2 DEF KnownStream, Base, ThreadsSound, ClientSound
  <2>. QED BY <1>2, <2>1, RepliesOfHearing DEF RepliesOf, Cares
<1>3. CASE ~(HearMoves(s) /\ KnownStream(s)) /\ ~Fresh(s)'
  <2>1. client'[s].got = client[s].got \/ client'[s].got = <<>>
    BY <1>3 DEF Moves, Quiet, ThreadMoves, HearMoves, AppMoves, ChromeMoves, Accepts, Opens, Reads, Fills, Puts, Pops,
         GoesOn, Ends, Closes, IsDropped, IsClosed, Gets, Bursts, Misses, IsTold, Became
  <2>2. InOrder(client'[s].got, s) /\ Whole(client'[s].got)
    BY <2>1 DEF RepliesOf, InOrder, Whole
  <2>3. ASSUME Cares(s)' PROVE RepliesIn(s)'
    <3>1. Cares(s)
      BY <1>3, <2>3, CaresGoes
    <3>2. s[1] = lease.proxy /\ RepliesIn(s) /\ InOrder(client[s].got, s) /\ Whole(client[s].got)
      BY <3>1 DEF Cares, RepliesOf
    <3>. QED BY <3>2, RepliesOfThreads, RepliesOfOthers, RepliesOfHearing, RepliesOfApp DEF Moves
  <2>. QED BY <2>2, <2>3 DEF RepliesOf
<1>. QED BY <1>1, <1>2, <1>3

-----------------------------------------------------------------------------
(* The invariant, fifth part: the two ends know of the same streams          *)

AgreeIn(s) ==
    /\ client[s].registered =>
        \/ client[s].at = "accepted" \/ Has(InTransit, "open", s) \/ Told(toServer, "close", s[2])
        \/ ~NoChannel(app.channels, s)
    /\ Has(InTransit, "open", s) \/ ~NoChannel(app.channels, s) =>
        client[s].registered \/ client[s].at = "closing" \/ Has(InTransit, "close", s)
    /\ Told(toServer, "close", s[2]) =>
        ~Has(InTransit, "open", s) /\ ~Unsent(s) /\ NoChannel(app.channels, s)
    /\ Has(InTransit, "close", s) => ~client[s].registered /\ ~Unsent(s)
    /\ client[s].at = "accepted" => client[s].registered
    /\ OpenBeforeClose(InTransit, s)
AgreeOf(s) == lease.phase = "ready" /\ s[1] = lease.n => AgreeIn(s)

LEMMA AgreeOfThreads ==
    ASSUME Base, NEW s \in Stream, OrderOf(s), AgreeIn(s), s[1] = lease.proxy, ThreadMoves(s) PROVE AgreeIn(s)'
<1>1. app' = app /\ toServer' = toServer
  BY DEF ThreadMoves, OnItsOwn
<1>2. ReadOn(s) \in {"read", "leaving"}
  BY DEF ReadOn
<1>3. ~IsDropped(s) /\ ~IsClosed(s)
  BY DEF IsDropped, IsClosed, GivenUp
<1>4. CASE Accepts(s)
  <2>1. Unsent(s) /\ InTransit' = InTransit /\ client'[s].registered /\ client'[s].at = "accepted"
    BY <1>4 DEF Accepts, Became, Unsent, Unsaid
  <2>2. ~Has(InTransit, "open", s) /\ NoChannel(app.channels, s)
    BY <2>1 DEF OrderOf
  <2>3. ~Told(toServer, "close", s[2]) /\ ~Has(InTransit, "close", s) /\ OpenBeforeClose(InTransit, s)
    BY <2>1 DEF AgreeIn
  <2>. QED BY <1>1, <2>1, <2>2, <2>3 DEF AgreeIn
<1>5. CASE Opens(s)
  <2>1. PICK f : f.kind = "open" /\ Tag(f) = s /\ Grown(InTransit, InTransit', f)
    BY <1>5, ClientFrames DEF Opens, Says
  <2>2. client[s].registered /\ Unsent(s) /\ OpenBeforeClose(InTransit, s)
    BY <1>5 DEF Opens, AgreeIn, Unsent
  <2>3. ~Told(toServer, "close", s[2]) /\ ~Has(InTransit, "close", s)
    BY <2>2 DEF AgreeIn
  <2>4. Has(InTransit', "open", s) /\ ~Has(InTransit', "close", s) /\ OpenBeforeClose(InTransit', s)
    BY <2>1, <2>2, <2>3, GrownHas, GrownOrder
  <2>5. client'[s].registered /\ client'[s].at # "accepted"
    BY <1>2, <1>5, <2>2 DEF Opens, Became
  <2>. QED BY <1>1, <2>3, <2>4, <2>5 DEF AgreeIn
<1>6. CASE Closes(s)
  <2>1. PICK f : f.kind = "close" /\ Tag(f) = s /\ Grown(InTransit, InTransit', f)
    BY <1>6, ClientFrames DEF Closes, Says
  <2>2. Has(InTransit', "close", s) /\ (Has(InTransit', "open", s) => Has(InTransit, "open", s))
    BY <2>1, GrownHas
  <2>3. OpenBeforeClose(InTransit', s)
    BY <2>1, GrownOrder DEF AgreeIn
  <2>4. ~client'[s].registered /\ ~Unsent(s)' /\ client'[s].at # "accepted"
    BY <1>6 DEF Closes, Became, Unsent
  <2>. QED BY <1>1, <2>2, <2>3, <2>4 DEF AgreeIn
<1>7. CASE Reads(s) \/ Fills(s) \/ Puts(s) \/ GoesOn(s)
  <2>1. /\ \A kind \in {"open", "close"} : Has(InTransit', kind, s) <=> Has(InTransit, kind, s)
        /\ OpenBeforeClose(InTransit', s)
    <3>1. CASE InTransit' = InTransit
      BY <3>1 DEF AgreeIn
    <3>2. CASE Says(Data(s))
      <4>1. PICK f : f.kind = "data" /\ Grown(InTransit, InTransit', f)
        BY <3>2, DataFrames DEF Says, Base
      <4>. QED BY <4>1, GrownHas, GrownOrder DEF AgreeIn
    <3>. QED BY <1>7, <3>1, <3>2 DEF Reads, Fills, Puts, GoesOn, Unsaid
  <2>2. /\ client[s].at \notin {"none", "accepted", "closing"} /\ client'[s].at \notin {"none", "accepted"}
        /\ client'[s].registered = client[s].registered
    BY <1>2, <1>7 DEF Reads, Fills, Puts, GoesOn, Became
  <2>. QED BY <1>1, <2>1, <2>2 DEF AgreeIn, Unsent
<1>8. CASE Pops(s)
  <2>1. InTransit' = InTransit /\ client[s].registered /\ ~client'[s].registered /\ client'[s].at = "closing"
    BY <1>8 DEF Pops, Unsaid, Became
  <2>. QED BY <1>1, <2>1 DEF AgreeIn, Unsent
<1>9. CASE Ends(s)
  <2>1. /\ InTransit' = InTransit /\ ~client[s].registered /\ ~client'[s].registered /\ client'[s].at = "done"
        /\ client[s].at # "closing"
    BY <1>9 DEF Ends, Unsaid, Became
  <2>. QED BY <1>1, <2>1 DEF AgreeIn, Unsent
<1>. QED BY <1>3, <1>4, <1>5, <1>6, <1>7, <1>8, <1>9 DEF ThreadMoves

LEMMA AgreeOfHearing ==
    ASSUME Base, NEW s \in Stream, RepliesIn(s), AgreeIn(s), s[1] = lease.proxy, HearMoves(s) PROVE AgreeIn(s)'
<1>1. PICK a \in SoundAnswer :
         /\ a.id = s[2] /\ Shrunk(toServer, toServer', a)
         /\ Gets(s, a) \/ Bursts(s, a) \/ Misses(s, a) \/ IsTold(s, a)
  BY DEF HearMoves
<1>2. app' = app
  BY DEF HearMoves
<1>3. /\ Told(toServer', "close", s[2]) => Told(toServer, "close", s[2])
      /\ a.kind = "data" => /\ Told(toServer, "data", s[2])
                            /\ Told(toServer, "close", s[2]) <=> Told(toServer', "close", s[2])
      /\ a.kind = "close" => Told(toServer, "close", s[2])
  BY <1>1, ToldShrunk
<1>4. CASE Gets(s, a)
  BY <1>2, <1>3, <1>4 DEF Gets, KnownStream, Unsaid, Became, AgreeIn, Unsent
<1>5. CASE Bursts(s, a)
  <2>1. PICK f : f.kind = "close" /\ Tag(f) = s /\ Grown(InTransit, InTransit', f)
    BY <1>5, ClientFrames DEF Bursts, Says
  <2>2. Has(InTransit', "close", s) /\ (Has(InTransit', "open", s) => Has(InTransit, "open", s))
    BY <2>1, GrownHas
  <2>3. OpenBeforeClose(InTransit', s)
    BY <2>1, GrownOrder DEF AgreeIn
  <2>4. ~Unsent(s)
    BY <1>3, <1>5 DEF Bursts, RepliesIn
  <2>5. ~client'[s].registered /\ client'[s].at = client[s].at
    BY <1>5 DEF Bursts, Became
  <2>. QED BY <1>2, <1>3, <2>2, <2>3, <2>4, <2>5 DEF AgreeIn, Unsent
<1>6. CASE Misses(s, a)
  <2>1. InTransit' = InTransit /\ client'[s] = client[s] /\ ~client[s].registered
    BY <1>6 DEF Misses, KnownStream, Unsaid
  <2>. QED BY <1>2, <1>3, <2>1 DEF AgreeIn, Unsent
<1>7. CASE IsTold(s, a)
  <2>1. InTransit' = InTransit /\ ~client'[s].registered /\ client'[s].at = client[s].at
        /\ Told(toServer, "close", s[2])
    BY <1>3, <1>7 DEF IsTold, Became, Unsaid
  <2>. QED BY <1>2, <1>3, <2>1 DEF AgreeIn, Unsent
<1>. QED BY <1>1, <1>4, <1>5, <1>6, <1>7

LEMMA AgreeOfApp ==
    ASSUME Base, NEW s \in Stream, OrderOf(s), AgreeIn(s), AppMoves(s) PROVE AgreeIn(s)'
<1>1. client'[s] = client[s] /\ (Unsent(s)' <=> Unsent(s))
  BY DEF AppMoves, Unsent
<1>2. \A h, r : OneChannel(app'.channels, s, h, r) => ~NoChannel(app'.channels, s)
  BY OneOnly
<1>3. ToldNothing => (Told(toServer', "close", s[2]) <=> Told(toServer, "close", s[2]))
  BY DEF ToldNothing
<1>4. ToldClosed(s) => Told(toServer', "close", s[2])
  BY ToldGrown DEF ToldClosed
<1>5. ~NoChannel(app.channels, s) => ~Has(InTransit, "open", s) /\ ~Unsent(s)
  <2>1. ASSUME ~NoChannel(app.channels, s)
        PROVE  \E h \in Seq(Chunk), r \in Nat : OneChannel(app.channels, s, h, r)
    BY <2>1, ChannelOf DEF NoChannel
  <2>. QED BY <2>1 DEF OrderOf, HeardSound
<1>6. CASE ChannelOpens(s)
  <2>1. PICK f : f.kind = "open" /\ Tag(f) = s /\ Shrunk(InTransit, InTransit', f)
    BY <1>6 DEF ChannelOpens, TakesOf
  <2>2. /\ Has(InTransit, "open", s) /\ ~Has(InTransit', "open", s)
        /\ Has(InTransit', "close", s) <=> Has(InTransit, "close", s)
        /\ OpenBeforeClose(InTransit', s)
    BY <2>1, ShrunkHas, ShrunkOrder DEF OrderOf, AgreeIn
  <2>3. ~Unsent(s)
    BY <2>2 DEF OrderOf
  <2>4. CASE OneChannel(app'.channels, s, <<>>, 0) /\ ToldNothing
    BY <1>1, <1>2, <1>3, <2>2, <2>3, <2>4 DEF AgreeIn, Unsent
  <2>5. CASE NoChannel(app'.channels, s) /\ ToldClosed(s)
    BY <1>1, <1>4, <2>2, <2>3, <2>5 DEF AgreeIn, Unsent
  <2>. QED BY <1>6, <2>4, <2>5 DEF ChannelOpens
<1>7. CASE Passes(s)
  <2>1. PICK f : TakesOf(s, "data", f) /\
             (\/ NoChannel(app.channels, s) /\ NoChannel(app'.channels, s) /\ ToldNothing
              \/ \E h \in Seq(Chunk), r \in Nat :
                    /\ OneChannel(app.channels, s, h, r)
                    /\ \/ OneChannel(app'.channels, s, h \o f.chunks, r) /\ ToldNothing
                       \/ NoChannel(app'.channels, s) /\ ToldClosed(s))
    BY <1>7 DEF Passes
  <2>2. f.kind = "data" /\ Shrunk(InTransit, InTransit', f)
    BY <2>1 DEF TakesOf
  <2>3. /\ \A kind \in {"open", "close"} : Has(InTransit', kind, s) <=> Has(InTransit, kind, s)
        /\ OpenBeforeClose(InTransit', s)
    BY <2>2, ShrunkHas, ShrunkOrder DEF AgreeIn
  <2>4. CASE NoChannel(app.channels, s) /\ NoChannel(app'.channels, s) /\ ToldNothing
    BY <1>1, <1>3, <2>3, <2>4 DEF AgreeIn, Unsent
  <2>5. ASSUME NEW h \in Seq(Chunk), NEW r \in Nat, OneChannel(app.channels, s, h, r),
               OneChannel(app'.channels, s, h \o f.chunks, r), ToldNothing
        PROVE  AgreeIn(s)'
    <3>1. ~NoChannel(app.channels, s) /\ ~NoChannel(app'.channels, s)
      BY <2>5 DEF OneChannel, NoChannel
    <3>. QED BY <1>1, <1>3, <2>3, <2>5, <3>1 DEF AgreeIn, Unsent
  <2>6. ASSUME NEW h \in Seq(Chunk), NEW r \in Nat, OneChannel(app.channels, s, h, r),
               NoChannel(app'.channels, s), ToldClosed(s)
        PROVE  AgreeIn(s)'
    <3>1. ~NoChannel(app.channels, s)
      BY <2>6 DEF OneChannel, NoChannel
    <3>. QED BY <1>1, <1>4, <1>5, <2>3, <2>6, <3>1 DEF AgreeIn, Unsent
  <2>. QED BY <2>1, <2>4, <2>5, <2>6
<1>8. CASE ChannelCloses(s)
  <2>1. PICK f : f.kind = "close" /\ Tag(f) = s /\ Shrunk(InTransit, InTransit', f)
    BY <1>8 DEF ChannelCloses, TakesOf
  <2>2. /\ Has(InTransit, "close", s) /\ ~Has(InTransit', "open", s)
        /\ Has(InTransit', "close", s) => Has(InTransit, "close", s)
        /\ OpenBeforeClose(InTransit', s)
    BY <2>1, ShrunkHas, ShrunkOrder DEF AgreeIn
  <2>3. NoChannel(app'.channels, s) /\ ToldNothing
    BY <1>8 DEF ChannelCloses
  <2>. QED BY <1>1, <1>3, <2>2, <2>3 DEF AgreeIn, Unsent
<1>9. CASE ChannelEnds(s)
  BY <1>1, <1>4, <1>5, <1>9 DEF ChannelEnds, Unsaid, AgreeIn, Unsent
<1>10. CASE Pumps(s)
  <2>1. PICK h \in Seq(Chunk), r \in Nat, a \in SoundAnswer :
           /\ OneChannel(app.channels, s, h, r) /\ OneChannel(app'.channels, s, h, r + 1)
           /\ a.kind = "data" /\ Grown(toServer, toServer', a)
    BY <1>10 DEF Pumps
  <2>2. ~NoChannel(app.channels, s) /\ ~NoChannel(app'.channels, s)
    BY <2>1 DEF OneChannel, NoChannel
  <2>3. Told(toServer', "close", s[2]) <=> Told(toServer, "close", s[2])
    BY <2>1, ToldGrown
  <2>. QED BY <1>1, <1>10, <2>2, <2>3 DEF Pumps, Unsaid, AgreeIn, Unsent
<1>. QED BY <1>6, <1>7, <1>8, <1>9, <1>10 DEF AppMoves

LEMMA AgreeKept ==
    ASSUME Base, Base', TunnelNext, NEW s \in Stream, OrderOf(s), RepliesOf(s), AgreeOf(s), Moves(s)
    PROVE  AgreeOf(s)'
<1>1. SUFFICES ASSUME lease'.phase = "ready", s[1] = lease'.n PROVE AgreeIn(s)'
  BY DEF AgreeOf
<1>2. s[1] = lease'.proxy
  BY <1>1 DEF Base, ThreadsSound, LeaseSound
<1>3. CASE Fresh(s)'
  <2>1. client'[s].at = "none" /\ ~client'[s].registered
    BY <1>3 DEF Fresh, NewClient
  <2>2. DOMAIN toServer' = {} /\ DOMAIN InTransit' = {}
    BY <1>3 DEF Fresh, Lacks
  <2>3. NoChannel(app'.channels, s)
    BY <1>3 DEF Fresh, NoChannel
  <2>4. /\ \A kind : ~Told(toServer', kind, s[2]) /\ ~Has(InTransit', kind, s)
        /\ OpenBeforeClose(InTransit', s)
    BY <2>2 DEF Told, Has, OpenBeforeClose
  <2>. QED BY <2>1, <2>3, <2>4 DEF AgreeIn
<1>4. CASE lease.phase = "ready" /\ s[1] = lease.proxy
  <2>1. lease.proxy = lease.n /\ app.chrome = "up"
    BY <1>4 DEF Base, ThreadsSound, LeaseSound, PhaseSound
  <2>2. AgreeIn(s) /\ RepliesIn(s)
    BY <1>4, <2>1 DEF AgreeOf, RepliesOf, Cares
  <2>3. CASE Quiet(s)
    <3>1. client'[s] = client[s] /\ (Unsent(s)' <=> Unsent(s))
      BY <2>3 DEF Quiet, Unsent
    <3>2. /\ \A kind \in {"open", "close"} : Has(InTransit, kind, s) <=> Has(InTransit', kind, s)
          /\ OpenBeforeClose(InTransit', s)
      BY <2>2, <2>3 DEF Quiet, AlikeQ, AgreeIn, MuxKind
    <3>3. NoChannel(app.channels, s) <=> NoChannel(app'.channels, s)
      BY <2>3, OneOnly DEF Quiet
    <3>4. Told(toServer, "close", s[2]) <=> Told(toServer', "close", s[2])
      BY <1>4, <2>1, <2>3 DEF Quiet
    <3>. QED BY <2>2, <3>1, <3>2, <3>3, <3>4 DEF AgreeIn, Unsent
  <2>4. ~ChromeMoves(s)
    BY <1>4 DEF ChromeMoves
  <2>. QED BY <1>4, <2>2, <2>3, <2>4, AgreeOfThreads, AgreeOfHearing, AgreeOfApp DEF Moves
<1>. QED BY <1>1, <1>2, <1>3, <1>4, ReadyGoes

-----------------------------------------------------------------------------
(* The invariant, last part: the event loop is woken                         *)

DrainSound ==
    /\ drain.pending => drain.scheduled
    /\ drain.at = "wait" /\ outbox # <<>> => drain.event \/ drain.scheduled

LEMMA DrainKept == ASSUME Base, DrainSound, TunnelNext PROVE DrainSound'
<1>0. drain \in [at : {"flush", "recheck", "wait"}, event : BOOLEAN, pending : BOOLEAN, scheduled : BOOLEAN]
  BY DEF Base, Shape
<1>1. CASE outbox' = outbox /\ drain' = drain
  BY <1>1 DEF DrainSound
<1>2. ASSUME NEW f, EnqueueFrame(f) PROVE DrainSound'
  <2>1. drain' = Signalled
    BY <1>2 DEF EnqueueFrame
  <2>2. CASE drain.pending
    BY <2>1, <2>2 DEF DrainSound, Signalled
  <2>3. CASE ~drain.pending
    <3>1. drain'.scheduled = TRUE
      BY <1>0, <2>1, <2>3 DEF Signalled
    <3>. QED BY <3>1 DEF DrainSound
  <2>. QED BY <2>2, <2>3
<1>3. CASE Wake
  <2>1. drain'.pending = FALSE /\ drain'.event = TRUE
    BY <1>0, <1>3 DEF Wake, Woken
  <2>. QED BY <2>1 DEF DrainSound
<1>4. CASE DrainFlushes \/ DrainAwakes
  <2>1. drain'.at # "wait" /\ drain'.pending = drain.pending /\ drain'.scheduled = drain.scheduled
    <3>1. CASE DrainAwakes
      BY <1>0, <3>1 DEF DrainAwakes
    <3>2. CASE DrainFlushes
      <4>1. CASE outbox = <<>>
        BY <1>0, <3>2, <4>1 DEF DrainFlushes
      <4>2. CASE outbox # <<>>
        BY <3>2, <4>2 DEF DrainFlushes
      <4>. QED BY <4>1, <4>2
    <3>. QED BY <1>4, <3>1, <3>2
  <2>. QED BY <2>1 DEF DrainSound
<1>5. CASE DrainRechecks
  <2>1. drain'.pending = drain.pending /\ drain'.scheduled = drain.scheduled
    BY <1>0, <1>5 DEF DrainRechecks
  <2>2. CASE outbox = <<>>
    <3>1. outbox' = <<>>
      <4>1. PICK k \in Nat : k = Len(NextBatch)
        <5>1. NextBatch = <<>>
          BY <2>2, TunnelAssumption DEF NextBatch
        <5>. QED BY <5>1
      <4>2. SubSeq(<<>>, k + 1, Len(<<>>)) = <<>>
        BY <4>1
      <4>. QED BY <1>5, <2>2, <4>1, <4>2 DEF DrainRechecks, Flush
    <3>. QED BY <2>1, <3>1 DEF DrainSound
  <2>3. CASE outbox # <<>>
    <3>1. drain'.at # "wait"
      BY <1>0, <1>5, <2>3 DEF DrainRechecks
    <3>. QED BY <2>1, <3>1 DEF DrainSound
  <2>. QED BY <2>2, <2>3
<1>6. CASE \E p \in Lease : Accept(p) \/ SendOpen(p) \/ StopProxy(p) \/ StopClient(p)
  BY <1>1, <1>2, <1>6 DEF Accept, SendOpen, StopProxy, StopClient
<1>7. CASE \E s \in Stream : ReadChunk(s) \/ SendChunk(s) \/ ResetStream(s) \/ ReaderEnds(s) \/ SendClose(s)
  BY <1>1, <1>2, <1>7 DEF ReadChunk, SendChunk, ResetStream, ReaderEnds, SendClose
<1>8. CASE AcquireProxy \/ Detach \/ StopAfterDetach \/ StopFailedStart
  BY <1>1, <1>2, <1>8 DEF AcquireProxy, Detach, StopAfterDetach, StopFailedStart
<1>9. CASE OnBrowserReady \/ OnBrowserStopped \/ OnData \/ OnClose
  BY <1>1, <1>2, <1>9 DEF OnBrowserReady, OnBrowserStopped, OnData, OnClose
<1>10. CASE AppStart \/ AppReady \/ AppStop \/ AppOpen \/ AppConnected \/ AppData \/ AppClose \/ AppPumps
  BY <1>1, <1>10 DEF AppStart, AppReady, AppStop, AppOpen, AppConnected, AppData, AppClose, AppPumps, FromServer
<1>. QED BY <1>3, <1>4, <1>5, <1>6, <1>7, <1>8, <1>9, <1>10 DEF TunnelNext

-----------------------------------------------------------------------------
(* The theorems                                                              *)

StreamInv(s) == OrderOf(s) /\ ContigOf(s) /\ RepliesOf(s) /\ AgreeOf(s)
TunnelInv == Base /\ DrainSound /\ \A s \in Stream : StreamInv(s)

LEMMA TunnelInvAtFirst == ASSUME TunnelInit PROVE TunnelInv
<1>1. Base
  BY BaseAtFirst
<1>2. DrainSound
  BY DEF TunnelInit, DrainSound
<1>3. ASSUME NEW s \in Stream PROVE StreamInv(s)
  <2>1. client[s] = NewClient /\ app.channels = {} /\ toServer = <<>> /\ InTransit = <<>> /\ lease.proxy = 0
        /\ lease.phase = "idle"
    BY DEF TunnelInit, InTransit
  <2>2. Fresh(s)
    BY <2>1 DEF Fresh, Lacks
  <2>3. RepliesOf(s)
    BY <1>1, <2>2, FreshReplies DEF Base
  <2>4. /\ \A kind : ~Has(InTransit, kind, s)
        /\ \A n : ~Carries(InTransit, s, n)
        /\ Ordered(InTransit, s) /\ OpenFirst(InTransit, s)
    BY <2>1 DEF Has, Carries, Ordered, OpenFirst
  <2>5. NoChannel(app.channels, s) /\ \A h, r : ~OneChannel(app.channels, s, h, r)
    BY <2>1 DEF NoChannel, OneChannel
  <2>6. OrderOf(s)
    BY <2>4, <2>5 DEF OrderOf
  <2>7. ContigOf(s) /\ AgreeOf(s)
    BY <2>1, <2>4, <2>5 DEF ContigOf, AgreeOf
  <2>. QED BY <2>3, <2>6, <2>7 DEF StreamInv
<1>. QED BY <1>1, <1>2, <1>3 DEF TunnelInv

LEMMA TunnelInvKept == ASSUME ~LateThreads, TunnelInv, [TunnelNext]_tunnelVars PROVE TunnelInv'
<1>1. CASE TunnelNext
  <2>1. Base /\ Base'
    BY <1>1, BaseKept DEF TunnelInv
  <2>2. DrainSound'
    BY <1>1, <2>1, DrainKept DEF TunnelInv
  <2>3. ASSUME NEW s \in Stream PROVE StreamInv(s)'
    <3>1. Moves(s) /\ OrderOf(s) /\ ContigOf(s) /\ RepliesOf(s) /\ AgreeOf(s)
      BY <1>1, <2>1, StreamMoves DEF TunnelInv, StreamInv
    <3>2. OrderOf(s)'
      BY <2>1, <3>1, OrderKept
    <3>3. ContigOf(s)'
      BY <1>1, <2>1, <3>1, <3>2, ContigKept
    <3>4. RepliesOf(s)'
      BY <1>1, <2>1, <3>1, RepliesKept
    <3>5. AgreeOf(s)'
      BY <1>1, <2>1, <3>1, AgreeKept
    <3>. QED BY <3>2, <3>3, <3>4, <3>5 DEF StreamInv
  <2>. QED BY <2>1, <2>2, <2>3 DEF TunnelInv
<1>2. CASE UNCHANGED tunnelVars
  <2>1. Base'
    BY BaseKept DEF TunnelInv
  <2>2. /\ InTransit' = InTransit /\ client' = client /\ app' = app /\ lease' = lease /\ toServer' = toServer
        /\ drain' = drain /\ outbox' = outbox
    BY <1>2 DEF tunnelVars, InTransit
  <2>3. ASSUME NEW s \in Stream PROVE StreamInv(s)'
    <3>1. OrderOf(s) /\ ContigOf(s) /\ RepliesOf(s) /\ AgreeOf(s)
      BY DEF TunnelInv, StreamInv
    <3>2. OrderOf(s)'
      BY <2>2, <3>1 DEF OrderOf, Unsent, Put, HeardSound
    <3>3. ContigOf(s)'
      BY <2>2, <3>1 DEF ContigOf, Complete, Put
    <3>4. RepliesOf(s)'
      BY <2>2, <3>1 DEF RepliesOf, RepliesIn, Cares, Unsent
    <3>5. AgreeOf(s)'
      BY <2>2, <3>1 DEF AgreeOf, AgreeIn, Unsent
    <3>. QED BY <3>2, <3>3, <3>4, <3>5 DEF StreamInv
  <2>. QED BY <2>1, <2>2, <2>3 DEF TunnelInv, DrainSound
<1>. QED BY <1>1, <1>2

LEMMA TunnelInvMeans == ASSUME TunnelInv PROVE TunnelTypeOK /\ StreamsAreNotMixed /\ RestingEndsAgree
<1>0. Base /\ Shape /\ DrainSound /\ \A s \in Stream : OrderOf(s) /\ ContigOf(s) /\ RepliesOf(s) /\ AgreeOf(s)
  BY DEF TunnelInv, StreamInv, Base
<1>1. TunnelTypeOK
  <2>1. outbox \in Seq(Frame)
    BY <1>0, WiderSeq DEF Shape, Enqueued, SoundFrame
  <2>2. toApp \in Seq(Frame)
    BY <1>0, WiderSeq DEF Shape, SoundFrame
  <2>3. toServer \in Seq(AppFrame)
    BY <1>0, WiderSeq DEF Shape, SoundAnswer
  <2>. QED BY <1>0, <2>1, <2>2, <2>3 DEF TunnelTypeOK, Shape
<1>2. StreamsAreNotMixed
  <2>1. ASSUME NEW ch \in app.channels
        PROVE  InOrder(ch.heard, ch.of) /\ (ch.of[1] = lease.proxy => Whole(ch.heard))
    <3>1. ch \in Channel
      BY <1>0 DEF Shape
    <3>2. PICK s \in Stream : s = ch.of
      BY <3>1 DEF Channel
    <3>3. OneChannel(app.channels, s, ch.heard, ch.replies) /\ ch.heard \in Seq(Chunk) /\ ch.replies \in Nat
      BY <1>0, <3>2, ChannelOf
    <3>4. InOrder(ch.heard, s)
      BY <1>0, <3>3 DEF OrderOf, HeardSound
    <3>5. s[1] = lease.proxy => Whole(ch.heard)
      BY <1>0, <3>3 DEF ContigOf
    <3>. QED BY <3>2, <3>4, <3>5
  <2>2. \A s \in Stream : InOrder(client[s].got, s) /\ Whole(client[s].got)
    BY <1>0 DEF RepliesOf
  <2>. QED BY <2>1, <2>2 DEF StreamsAreNotMixed
<1>3. ASSUME AtRest
      PROVE  /\ outbox = <<>>
             /\ {ch.of : ch \in app.channels} = {s \in Stream : s[1] = lease.proxy /\ client[s].registered}
  <2>1. outbox = <<>>
    BY <1>0, <1>3 DEF AtRest, DrainSound
  <2>2. InTransit = <<>> /\ toServer = <<>>
    BY <1>3, <2>1 DEF AtRest, InTransit
  <2>3. \A s, kind : ~Has(InTransit, kind, s) /\ ~Told(toServer, kind, s[2])
    BY <2>2 DEF Has, Told
  <2>4. \A ch \in app.channels : ch.of \in Stream
    BY <1>0 DEF Shape, Channel
  <2>5. CASE lease.phase = "idle"
    <3>1. lease.proxy = 0 /\ app.chrome = "down"
      BY <1>0, <2>5 DEF Base, ThreadsSound, LeaseSound, PhaseSound
    <3>2. app.channels = {}
      BY <1>0, <1>3, <3>1 DEF AtRest, Base, PhaseSound
    <3>3. \A s \in Stream : s[1] # 0
      BY TunnelAssumption DEF Stream, Lease
    <3>. QED BY <2>1, <3>1, <3>2, <3>3
  <2>6. CASE lease.phase = "ready"
    <3>1. lease.proxy = lease.n /\ app.chrome = "up"
      BY <1>0, <2>6 DEF Base, ThreadsSound, LeaseSound, PhaseSound
    <3>2. \A ch \in app.channels : ch.of[1] = lease.n
      BY <1>0, <3>1 DEF Base, OneEra, AllOf
    <3>3. \A s \in Stream : client[s].at \notin {"accepted", "closing"}
      BY <1>3 DEF AtRest
    <3>4. \A s \in Stream : s[1] = lease.n => AgreeIn(s)
      BY <1>0, <2>6 DEF AgreeOf
    <3>5. \A s \in Stream : s[1] = lease.n => (client[s].registered <=> ~NoChannel(app.channels, s))
      BY <2>3, <3>3, <3>4 DEF AgreeIn
    <3>. QED BY <2>1, <2>4, <3>1, <3>2, <3>5 DEF NoChannel
  <2>. QED BY <1>3, <2>5, <2>6 DEF AtRest
<1>. QED BY <1>1, <1>2, <1>3 DEF RestingEndsAgree

\* Whatever clients, threads, event loop and app do, the state of the tunnel has
\* its type: the lease and its proxies, the clients, outbox, wire, drain and app.
THEOREM TunnelTypeCorrect == ASSUME ~LateThreads PROVE TunnelSpec => []TunnelTypeOK
<1>. QED BY TunnelInvAtFirst, TunnelInvKept, TunnelInvMeans, PTL DEF TunnelSpec

\* What _coalesce_outbox_items, the shedding of enqueue_binary, close_client and the
\* stop and start of a proxy do to the frames mixes up no two connections: Chrome
\* hears on each what its client sent, the client gets what Chrome replied to it,
\* in order and from the first chunk on.
THEOREM StreamsStayApart == ASSUME ~LateThreads PROVE TunnelSpec => []StreamsAreNotMixed
<1>. QED BY TunnelInvAtFirst, TunnelInvKept, TunnelInvMeans, PTL DEF TunnelSpec

\* With no thread between two steps and nothing on the wire, the outbox is empty,
\* so no wake-up of the drain is missed, and the channels of the app are those of
\* the clients that are registered at the proxy of the lease.
THEOREM EndsAgreeAtRest == ASSUME ~LateThreads PROVE TunnelSpec => []RestingEndsAgree
<1>. QED BY TunnelInvAtFirst, TunnelInvKept, TunnelInvMeans, PTL DEF TunnelSpec
=============================================================================
