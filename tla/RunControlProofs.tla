-------------------------- MODULE RunControlProofs ---------------------------
(*****************************************************************************)
(* Theorems about what a user sees of a run and does to it: about            *)
(* RunStream, for any number of subscribers and events and buffers of any    *)
(* size, and about HumanControl, for any number of runs, steps and           *)
(* requests. Neither refers to the other.                                    *)
(*****************************************************************************)
EXTENDS RunStream, HumanControl, SequenceTheorems, WellFoundedInduction, TLAPS

-----------------------------------------------------------------------------
(* RunStream                                                                 *)

Stage == {"running", "reporting", "closing", "ended"}
Shown == Active \cup {"pass", "error", "cancelled"}

Typed ==
    /\ shown \in Seq(StepState) /\ Len(shown) <= MaxShown
    /\ status \in Shown /\ asked \in 0..MaxAsked
    /\ thread \in [at : Stage, said : StreamEvent \cup {Silence}, cancelled : BOOLEAN]
    /\ calls \in Seq(StreamEvent)
    /\ pending \in Seq(StreamEvent) /\ Len(pending) <= Capacity
    /\ watcher \in [at : {"away", "subscribed", "told", "streaming", "closed"},
                    steps : Seq(StepState \cup {"missing"}), status : Shown]
    /\ lost \subseteq 1..MaxShown

-----------------------------------------------------------------------------
(* Events and queues                                                         *)

About(e, i) == e.type = "step" /\ e.index = i
AboutIn(q, i) == {k \in DOMAIN q : About(q[k], i)}
TypedIn(q, T) == {k \in DOMAIN q : q[k].type \in T}

LEMMA Events ==
    /\ Closed \in StreamEvent /\ Silence \notin StreamEvent
    /\ \A e \in StreamEvent : e.type = "closed" <=> e = Closed
    /\ \A e \in StreamEvent : e.type = "step" => e.index \in 1..MaxShown /\ e.step \in StepState
    /\ \A e \in StreamEvent : e.type = "done" => e.status \in {"pass", "error"}
    /\ \A e \in StreamEvent : e.type = "status" => e.status = "cancelled"
    /\ \A e \in StreamEvent : e.type \in NeverDrop \cup {"step", "status"}
    /\ Silence.type = "nothing"
BY DEF StreamEvent, Closed, Silence, NeverDrop

LEMMA Spoken ==
    /\ \A i \in 1..MaxShown, s \in StepState :
          [type |-> "step", index |-> i, step |-> s] \in StreamEvent
    /\ \A s \in {"pass", "error"} : [type |-> "done", status |-> s] \in StreamEvent
    /\ [type |-> "status", status |-> "cancelled"] \in StreamEvent
    /\ [type |-> "human_intervention_required"] \in StreamEvent
    /\ [type |-> "human_intervention_ended"] \in StreamEvent
    /\ [type |-> "report_ready"] \in StreamEvent
BY DEF StreamEvent

LEMMA Grown ==
    ASSUME NEW S, NEW q \in Seq(S), NEW e \in S
    PROVE  /\ q \o <<e>> = Append(q, e) /\ Append(q, e) \in Seq(S)
           /\ Len(q) \in Nat /\ DOMAIN q = 1..Len(q)
           /\ Len(Append(q, e)) = Len(q) + 1 /\ DOMAIN Append(q, e) = 1..(Len(q) + 1)
           /\ \A k \in 1..Len(q) : Append(q, e)[k] = q[k]
           /\ Append(q, e)[Len(q) + 1] = e
<1>1. /\ Append(q, e) \in Seq(S) /\ Len(Append(q, e)) = Len(q) + 1
      /\ \A k \in 1..Len(q) : Append(q, e)[k] = q[k]
      /\ Append(q, e)[Len(q) + 1] = e
  BY AppendProperties
<1>2. DOMAIN Append(q, e) = 1..(Len(q) + 1) /\ Len(q) \in Nat /\ DOMAIN q = 1..Len(q)
  BY <1>1, LenProperties
<1>3. q \o <<e>> = Append(q, e)
  BY AppendIsConcat
<1>. QED
  BY <1>1, <1>2, <1>3

LEMMA Shifted ==
    ASSUME NEW S, NEW q \in Seq(S), q # <<>>
    PROVE  /\ Head(q) \in S /\ Head(q) = q[1] /\ Tail(q) \in Seq(S)
           /\ Len(q) \in Nat \ {0} /\ DOMAIN q = 1..Len(q)
           /\ Len(Tail(q)) = Len(q) - 1 /\ DOMAIN Tail(q) = 1..(Len(q) - 1)
           /\ \A k \in 1..(Len(q) - 1) : Tail(q)[k] = q[k + 1]
<1>1. /\ Head(q) \in S /\ Tail(q) \in Seq(S) /\ Len(Tail(q)) = Len(q) - 1
      /\ \A k \in 1..Len(Tail(q)) : Tail(q)[k] = q[k + 1]
  BY HeadTailProperties
<1>2. /\ DOMAIN Tail(q) = 1..(Len(q) - 1) /\ Len(q) \in Nat /\ DOMAIN q = 1..Len(q)
  BY <1>1, LenProperties
<1>3. Len(q) # 0
  BY EmptySeq
<1>. QED
  BY <1>1, <1>2, <1>3

LEMMA Removed ==
    ASSUME NEW S, NEW q \in Seq(S), NEW i \in 1..Len(q)
    PROVE  /\ RemoveAt(q, i) \in Seq(S)
           /\ Len(RemoveAt(q, i)) = Len(q) - 1
           /\ \A k \in 1..(Len(q) - 1) : RemoveAt(q, i)[k] = IF k < i THEN q[k] ELSE q[k + 1]
<1>. DEFINE n == Len(q)
            a == SubSeq(q, 1, i - 1)
            b == SubSeq(q, i + 1, n)
<1>1. n \in Nat /\ i \in Nat /\ 1 <= i /\ i <= n /\ \A k \in 1..n : q[k] \in S
  BY LenProperties, ElementOfSeq
<1>2. a \in Seq(S) /\ Len(a) = i - 1 /\ \A k \in 1..(i - 1) : a[k] = q[k]
  <2>1. \A k \in 1..(i - 1) : q[k] \in S
    BY <1>1
  <2>2. /\ a \in Seq(S) /\ Len(a) = IF 1 <= i - 1 THEN (i - 1) - 1 + 1 ELSE 0
        /\ \A k \in 1..((i - 1) - 1 + 1) : a[k] = q[1 + k - 1]
    BY <1>1, <2>1, SubSeqProperties
  <2>. QED
    BY <1>1, <2>2
<1>3. b \in Seq(S) /\ Len(b) = n - i /\ \A k \in 1..(n - i) : b[k] = q[i + k]
  <2>1. \A k \in (i + 1)..n : q[k] \in S
    BY <1>1
  <2>2. /\ b \in Seq(S) /\ Len(b) = IF i + 1 <= n THEN n - (i + 1) + 1 ELSE 0
        /\ \A k \in 1..(n - (i + 1) + 1) : b[k] = q[(i + 1) + k - 1]
    BY <1>1, <2>1, SubSeqProperties
  <2>. QED
    BY <1>1, <2>2
<1>. HIDE DEF a, b
<1>4. /\ a \o b \in Seq(S) /\ Len(a \o b) = Len(a) + Len(b)
      /\ \A k \in 1..(Len(a) + Len(b)) :
            (a \o b)[k] = IF k <= Len(a) THEN a[k] ELSE b[k - Len(a)]
  BY <1>2, <1>3, ConcatProperties
<1>5. RemoveAt(q, i) = a \o b
  BY DEF RemoveAt, a, b
<1>6. Len(a) + Len(b) = n - 1
  BY <1>1, <1>2, <1>3
<1>7. ASSUME NEW k \in 1..(n - 1)
      PROVE  (a \o b)[k] = IF k < i THEN q[k] ELSE q[k + 1]
  <2>1. (a \o b)[k] = IF k <= i - 1 THEN a[k] ELSE b[k - (i - 1)]
    BY <1>2, <1>4, <1>6
  <2>2. CASE k < i
    BY <1>1, <1>2, <2>1, <2>2
  <2>3. CASE ~(k < i)
    <3>1. k - (i - 1) \in 1..(n - i) /\ i + (k - (i - 1)) = k + 1 /\ ~(k <= i - 1)
      BY <1>1, <2>3
    <3>. QED
      BY <1>3, <2>1, <2>3, <3>1
  <2>. QED
    BY <2>2, <2>3
<1>. QED
  BY <1>4, <1>5, <1>6, <1>7

-----------------------------------------------------------------------------
(* enqueue_run_event                                                         *)

\* At most one event about a step: what _coalesce_append sees to.
Unique(p) ==
    \A j, k \in DOMAIN p :
        p[j].type = "step" /\ p[k].type = "step" /\ p[j].index = p[k].index => j = k

\* q is p with e at m: at its end, or in place of what e makes obsolete.
PutAt(p, e, q, m) ==
    /\ q \in Seq(StreamEvent) /\ m \in 1..Len(q) /\ q[m] = e
    /\ \/ m = Len(p) + 1 /\ Len(q) = Len(p) + 1
       \/ m \in 1..Len(p) /\ Len(q) = Len(p) /\ SameKey(p[m], e)
    /\ \A k \in 1..Len(q) : k # m => k \in 1..Len(p) /\ q[k] = p[k]
    /\ \A k \in 1..Len(p) : k # m => q[k] = p[k]
    /\ e.type = "step" => \A k \in 1..Len(p) : k # m => ~About(p[k], e.index)

LEMMA CoalescedFacts ==
    ASSUME NEW p \in Seq(StreamEvent), Unique(p), NEW e \in StreamEvent
    PROVE  \E m \in Nat : PutAt(p, e, Coalesced(p, e), m)
<1>. DEFINE q == Coalesced(p, e)
<1>1. DOMAIN p = 1..Len(p) /\ Len(p) \in Nat
  BY LenProperties
<1>2. CASE Obsolete(p, e) = {}
  <2>1. q = Append(p, e)
    BY <1>2 DEF Coalesced
  <2>2. /\ q \in Seq(StreamEvent) /\ Len(q) = Len(p) + 1 /\ q[Len(p) + 1] = e
        /\ \A k \in 1..Len(p) : q[k] = p[k]
    BY <2>1, Grown
  <2>3. e.type = "step" => \A k \in 1..Len(p) : ~About(p[k], e.index)
    BY <1>1, <1>2 DEF Obsolete, SameKey, About
  <2>. HIDE DEF q
  <2>4. PutAt(p, e, q, Len(p) + 1) /\ Len(p) + 1 \in Nat
    BY <1>1, <2>2, <2>3 DEF PutAt
  <2>. QED
    BY <1>1, <2>4, Zenon DEF q
<1>3. CASE Obsolete(p, e) # {}
  <2>. DEFINE m == CHOOSE i \in Obsolete(p, e) : TRUE
  <2>1. m \in Obsolete(p, e)
    BY <1>3
  <2>2. m \in 1..Len(p) /\ SameKey(p[m], e)
    BY <1>1, <2>1 DEF Obsolete
  <2>3. q = [p EXCEPT ![m] = e]
    BY <1>3 DEF Coalesced
  <2>. HIDE DEF m
  <2>4. q \in Seq(StreamEvent) /\ Len(q) = Len(p)
    BY <2>2, <2>3, ExceptSeq
  <2>5. q[m] = e /\ \A k \in 1..Len(p) : k # m => q[k] = p[k]
    BY <1>1, <2>2, <2>3
  <2>6. e.type = "step" => \A k \in 1..Len(p) : k # m => ~About(p[k], e.index)
    BY <1>1, <2>2 DEF Unique, SameKey, About
  <2>. HIDE DEF q
  <2>7. PutAt(p, e, q, m)
    BY <1>1, <2>2, <2>4, <2>5, <2>6 DEF PutAt
  <2>8. m \in Nat
    BY <1>1, <2>2
  <2>. QED
    BY <2>7, <2>8, Zenon DEF q
<1>. QED
  BY <1>2, <1>3

Below == {ss \in Nat \X Nat : ss[1] < ss[2]}

LEMMA Least ==
    ASSUME NEW n \in Nat, NEW T \in SUBSET (1..n), T # {}
    PROVE  LET i == CHOOSE i \in T : \A j \in T : i <= j
           IN  i \in T /\ \A j \in T : i <= j
<1>1. \E i \in T : \A j \in T : i <= j
  <2>1. IsWellFoundedOn(Below, Nat)
    BY NatLessThanWellFounded DEF OpToRel, Below
  <2>2. T \subseteq Nat
    OBVIOUS
  <2>3. PICK i \in T : \A j \in T : ~(<<j, i>> \in Below)
    BY <2>1, <2>2, WFMin, Zenon
  <2>4. ASSUME NEW j \in T PROVE i <= j
    <3>1. i \in Nat /\ j \in Nat /\ <<j, i>> \notin Below
      BY <2>2, <2>3
    <3>. QED
      BY <3>1 DEF Below
  <2>. QED
    BY <2>4
<1>. QED
  BY <1>1

LEMMA DroppedFacts ==
    ASSUME NEW q \in Seq(StreamEvent)
    PROVE  /\ Dropped(q) \in 0..Len(q)
           /\ Len(q) <= Capacity => Dropped(q) = 0
           /\ Len(q) > Capacity =>
                 /\ Dropped(q) # 0
                 /\ \/ q[Dropped(q)].type \notin NeverDrop
                    \/ Dropped(q) = 1 /\ \A k \in 1..Len(q) : q[k].type \in NeverDrop
<1>. DEFINE mayGo == {i \in DOMAIN q : q[i].type \notin NeverDrop}
<1>1. DOMAIN q = 1..Len(q) /\ Len(q) \in Nat
  BY LenProperties
<1>2. CASE Len(q) <= Capacity
  BY <1>1, <1>2, StreamAssumption DEF Dropped
<1>3. CASE Len(q) > Capacity /\ mayGo = {}
  <2>1. Dropped(q) = 1
    BY <1>1, <1>3, StreamAssumption DEF Dropped
  <2>2. \A k \in 1..Len(q) : q[k].type \in NeverDrop
    BY <1>1, <1>3
  <2>. QED
    BY <1>1, <1>3, <2>1, <2>2, StreamAssumption
<1>4. CASE Len(q) > Capacity /\ mayGo # {}
  <2>. DEFINE d == CHOOSE i \in mayGo : \A j \in mayGo : i <= j
  <2>1. Dropped(q) = d
    <3>1. ~(Len(q) <= Capacity)
      BY <1>1, <1>4, StreamAssumption
    <3>. QED
      BY <1>4, <3>1, Zenon DEF Dropped
  <2>2. mayGo \in SUBSET (1..Len(q))
    BY <1>1
  <2>3. d \in mayGo
    <3>1. mayGo # {}
      BY <1>4
    <3>2. Len(q) \in Nat
      BY <1>1
    <3>. HIDE DEF mayGo
    <3>. QED
      BY <2>2, <3>1, <3>2, Least
  <2>. HIDE DEF d
  <2>4. d \in 1..Len(q) /\ q[d].type \notin NeverDrop
    BY <1>1, <2>3
  <2>. QED
    BY <1>1, <1>4, <2>1, <2>4, StreamAssumption
<1>. QED
  BY <1>1, <1>2, <1>3, <1>4, StreamAssumption

\* p is q without its event d, if d is one; From(d, k) is where p[k] was in q.
From(d, k) == IF d = 0 \/ k < d THEN k ELSE k + 1
Trimmed(q, d, p) ==
    /\ p \in Seq(StreamEvent) /\ Len(p) <= Capacity /\ d \in 0..Len(q)
    /\ d # 0 => /\ Len(q) > Capacity
                /\ \/ q[d].type \notin NeverDrop
                   \/ d = 1 /\ \A k \in 1..Len(q) : q[k].type \in NeverDrop
    /\ \A k \in 1..Len(p) :
          From(d, k) \in 1..Len(q) /\ From(d, k) # d /\ p[k] = q[From(d, k)]
    /\ \A j \in 1..Len(q) : j # d => \E k \in 1..Len(p) : From(d, k) = j
    /\ Len(p) = IF d = 0 THEN Len(q) ELSE Len(q) - 1

LEMMA TrimmedFacts ==
    ASSUME NEW q \in Seq(StreamEvent), Len(q) <= Capacity + 1
    PROVE  Trimmed(q, Dropped(q), IF Dropped(q) = 0 THEN q ELSE RemoveAt(q, Dropped(q)))
<1>. DEFINE d == Dropped(q)
<1>1. Len(q) \in Nat /\ d \in 0..Len(q)
  BY LenProperties, DroppedFacts
<1>2. CASE d = 0
  <2>1. Len(q) <= Capacity
    BY <1>1, <1>2, DroppedFacts, StreamAssumption
  <2>2. \A k \in 1..Len(q) : From(d, k) = k
    BY <1>2 DEF From
  <2>. QED
    BY <1>1, <1>2, <2>1, <2>2 DEF Trimmed
<1>3. CASE d # 0
  <2>. DEFINE p == RemoveAt(q, d)
              n == Len(q)
  <2>1. d \in 1..n /\ d \in Nat /\ n \in Nat
    BY <1>1, <1>3
  <2>2. /\ p \in Seq(StreamEvent) /\ Len(p) = n - 1
        /\ \A k \in 1..(n - 1) : p[k] = IF k < d THEN q[k] ELSE q[k + 1]
    BY <2>1, Removed
  <2>3. n > Capacity
    BY <1>1, <1>3, DroppedFacts, StreamAssumption
  <2>4. \/ q[d].type \notin NeverDrop
        \/ d = 1 /\ \A k \in 1..n : q[k].type \in NeverDrop
    BY <2>3, DroppedFacts
  <2>. HIDE DEF d, p
  <2>5. ASSUME NEW k \in 1..(n - 1)
        PROVE  From(d, k) \in 1..n /\ From(d, k) # d /\ p[k] = q[From(d, k)]
    BY <1>3, <2>1, <2>2 DEF From
  <2>6. ASSUME NEW j \in 1..n, j # d
        PROVE  \E k \in 1..(n - 1) : From(d, k) = j
    <3>1. CASE j < d
      <4>1. j \in 1..(n - 1) /\ From(d, j) = j
        BY <2>1, <3>1 DEF From
      <4>. QED
        BY <4>1
    <3>2. CASE ~(j < d)
      <4>1. j - 1 \in 1..(n - 1) /\ From(d, j - 1) = j
        BY <1>3, <2>1, <2>6, <3>2 DEF From
      <4>. QED
        BY <4>1
    <3>. QED
      BY <3>1, <3>2
  <2>7. n - 1 <= Capacity
    BY <2>1, StreamAssumption
  <2>8. Trimmed(q, d, p)
    BY <1>3, <2>1, <2>2, <2>3, <2>4, <2>5, <2>6, <2>7 DEF Trimmed
  <2>. QED
    BY <1>3, <2>8 DEF d, p
<1>. QED
  BY <1>2, <1>3

\* What enqueue_run_event does to the queue
LEMMA EnqueueFacts ==
    ASSUME Typed, Unique(pending), Enqueue
    PROVE  /\ calls # <<>> /\ calls' = Tail(calls)
           /\ UNCHANGED <<shown, status, asked, thread, watcher>>
           /\ \E q \in Seq(StreamEvent), m \in Nat, d \in Nat :
                 /\ PutAt(pending, Head(calls), q, m) /\ Trimmed(q, d, pending')
                 /\ lost' = IF d # 0 /\ q[d].type = "step" THEN lost \cup {q[d].index}
                                                          ELSE lost
<1>. DEFINE e == Head(calls)
            q == Coalesced(pending, e)
            d == Dropped(q)
<1>1. calls # <<>> /\ calls \in Seq(StreamEvent) /\ pending \in Seq(StreamEvent)
      /\ Len(pending) <= Capacity
  BY DEF Enqueue, Typed
<1>2. e \in StreamEvent
  BY <1>1, Shifted
<1>3. PICK m \in Nat : PutAt(pending, e, q, m)
  BY <1>1, <1>2, CoalescedFacts
<1>4. q \in Seq(StreamEvent) /\ Len(q) <= Len(pending) + 1 /\ Len(pending) \in Nat
      /\ Len(q) \in Nat
  BY <1>1, <1>3, LenProperties DEF PutAt
<1>5. Len(q) <= Capacity + 1
  BY <1>1, <1>4, StreamAssumption
<1>6. Trimmed(q, d, IF d = 0 THEN q ELSE RemoveAt(q, d)) /\ d \in Nat
  BY <1>4, <1>5, TrimmedFacts, DroppedFacts
<1>7. /\ pending' = IF d = 0 THEN q ELSE RemoveAt(q, d)
      /\ lost' = IF d # 0 /\ q[d].type = "step" THEN lost \cup {q[d].index} ELSE lost
  BY DEF Enqueue
<1>8. /\ calls' = Tail(calls) /\ UNCHANGED <<shown, status, asked, thread, watcher>>
  BY DEF Enqueue
<1>. HIDE DEF e, q, d
<1>. QED
  BY <1>1, <1>3, <1>4, <1>6, <1>7, <1>8, Zenon DEF e

-----------------------------------------------------------------------------
(* The types, and that nothing is in flight to a page that is not there      *)

\* A queue is subscribed, or there is none.
Idle == ~Subscribed => calls = <<>> /\ pending = <<>>

Speaks == StepStarts \/ StepEnds \/ AskHuman \/ HumanEnds \/ RunDone \/ RunReports \/ RunCloses

LEMMA SayFacts ==
    ASSUME Typed, NEW p, NEW e, Say(p, e)
    PROVE  thread'.at = p /\ thread'.said = e /\ thread'.cancelled = thread.cancelled
BY DEF Say, Typed

LEMMA SpeaksFacts ==
    ASSUME Typed, Speaks
    PROVE  /\ Quiet /\ UNCHANGED <<calls, watcher, pending, lost>>
           /\ thread.at # "ended"
           /\ \E p \in Stage, e \in StreamEvent \cup {Silence} :
                thread' = [thread EXCEPT !.at = p, !.said = e]
           /\ shown' \in Seq(StepState) /\ Len(shown') <= MaxShown
           /\ status' \in Shown /\ asked' \in 0..MaxAsked
<1>0. /\ shown \in Seq(StepState) /\ Len(shown) <= MaxShown /\ Len(shown) \in Nat
      /\ status \in Shown /\ asked \in 0..MaxAsked
      /\ DOMAIN shown = 1..Len(shown)
  BY LenProperties DEF Typed
<1>1. /\ Quiet /\ UNCHANGED <<calls, watcher, pending, lost>> /\ thread.at # "ended"
  BY DEF Speaks, StepStarts, StepEnds, AskHuman, HumanEnds, RunDone, RunReports, RunCloses
<1>2. CASE StepStarts
  <2>1. /\ shown' = Append(shown, "started") /\ Len(shown) < MaxShown
        /\ UNCHANGED <<status, asked>>
        /\ thread' = [thread EXCEPT !.at = "running",
              !.said = [type |-> "step", index |-> Len(shown) + 1, step |-> "started"]]
    BY <1>2 DEF StepStarts, Say
  <2>2. "started" \in StepState /\ Len(shown) + 1 \in 1..MaxShown /\ "running" \in Stage
    BY <1>0, <2>1, StreamAssumption DEF StepState, Stage
  <2>3. [type |-> "step", index |-> Len(shown) + 1, step |-> "started"] \in StreamEvent
    BY <2>2, Spoken
  <2>4. shown' \in Seq(StepState) /\ Len(shown') = Len(shown) + 1
    BY <1>0, <2>1, <2>2, AppendProperties
  <2>5. \E p \in Stage, e \in StreamEvent \cup {Silence} :
          thread' = [thread EXCEPT !.at = p, !.said = e]
    BY <2>1, <2>2, <2>3, Zenon
  <2>6. Len(shown') <= MaxShown
    BY <1>0, <2>1, <2>4, StreamAssumption
  <2>. QED
    BY <1>0, <1>1, <2>1, <2>4, <2>5, <2>6
<1>3. CASE StepEnds
  <2>1. PICK i \in DOMAIN shown :
          /\ shown' = [shown EXCEPT ![i] = "ended"]
          /\ thread' = [thread EXCEPT !.at = "running",
                !.said = [type |-> "step", index |-> i, step |-> "ended"]]
          /\ UNCHANGED <<status, asked>>
    BY <1>3 DEF StepEnds, Say
  <2>2. "ended" \in StepState /\ i \in 1..MaxShown /\ "running" \in Stage
    BY <1>0, StreamAssumption DEF StepState, Stage
  <2>3. [type |-> "step", index |-> i, step |-> "ended"] \in StreamEvent
    BY <2>2, Spoken
  <2>4. shown' \in Seq(StepState) /\ Len(shown') = Len(shown)
    BY <1>0, <2>1, <2>2, ExceptSeq
  <2>. QED
    BY <1>0, <1>1, <2>1, <2>2, <2>3, <2>4
<1>4. CASE AskHuman
  <2>1. thread' = [thread EXCEPT !.at = "running",
                                 !.said = [type |-> "human_intervention_required"]]
    BY <1>4 DEF AskHuman, Say
  <2>2. asked' \in 0..MaxAsked
    BY <1>0, <1>4, StreamAssumption DEF AskHuman
  <2>3. status' \in Shown /\ UNCHANGED shown /\ "running" \in Stage
    BY <1>4 DEF AskHuman, Shown, Active, Stage
  <2>. QED
    BY <1>0, <1>1, <2>1, <2>2, <2>3, Spoken
<1>5. CASE HumanEnds
  BY <1>0, <1>1, <1>5, Spoken DEF HumanEnds, Say, Stage, Shown, Active
<1>6. CASE RunDone
  <2>1. CASE thread.cancelled
    BY <1>0, <1>1, <1>6, <2>1 DEF RunDone, Say, Stage
  <2>2. CASE ~thread.cancelled
    <3>1. PICK s \in {"pass", "error"} :
            status' = s /\ Say("reporting", [type |-> "done", status |-> s])
      BY <1>6, <2>2 DEF RunDone
    <3>2. [type |-> "done", status |-> s] \in StreamEvent /\ UNCHANGED <<shown, asked>>
      BY <1>6, Spoken DEF RunDone
    <3>. QED
      BY <1>0, <1>1, <3>1, <3>2 DEF Say, Stage, Shown
  <2>. QED
    BY <2>1, <2>2
<1>7. CASE RunReports
  <2>1. \E e \in {[type |-> "report_ready"], Silence} :
          thread' = [thread EXCEPT !.at = "closing", !.said = e]
    BY <1>7 DEF RunReports, Say
  <2>2. \A e \in {[type |-> "report_ready"], Silence} : e \in StreamEvent \cup {Silence}
    BY Spoken
  <2>3. "closing" \in Stage /\ UNCHANGED <<shown, status, asked>>
    BY <1>7 DEF RunReports, Stage
  <2>. QED
    BY <1>0, <1>1, <2>1, <2>2, <2>3
<1>8. CASE RunCloses
  BY <1>0, <1>1, <1>8, Events DEF RunCloses, Say, Stage
<1>. QED
  BY <1>2, <1>3, <1>4, <1>5, <1>6, <1>7, <1>8 DEF Speaks

\* What the reducer makes of an event
LEMMA AppliedFacts ==
    ASSUME Typed, NEW e \in StreamEvent
    PROVE  LET w == Applied(watcher, e) IN
           /\ w \in [at : {"away", "subscribed", "told", "streaming", "closed"},
                     steps : Seq(StepState \cup {"missing"}), status : Shown]
           /\ w.at = watcher.at
           /\ e.type = "step" =>
                 /\ e.index <= Len(w.steps) /\ w.steps[e.index] = e.step
                 /\ \A i \in 1..Len(watcher.steps) : i # e.index =>
                       i <= Len(w.steps) /\ w.steps[i] = watcher.steps[i]
                 /\ w.status = watcher.status
           /\ e.type # "step" => w.steps = watcher.steps
           /\ e.type \in {"status", "done"} => w.status = e.status
           /\ e.type = "human_intervention_required" => w.status = "awaiting_human"
           /\ e.type = "human_intervention_ended" => w.status = "running"
           /\ e.type \in {"closed", "report_ready"} => w = watcher
<1>. DEFINE w == Applied(watcher, e)
            St == StepState \cup {"missing"}
            W == [at : {"away", "subscribed", "told", "streaming", "closed"},
                  steps : Seq(St), status : Shown]
<1>1. watcher \in W /\ watcher.steps \in Seq(St) /\ watcher.status \in Shown
  BY DEF Typed
<1>2. CASE e.type = "step"
  <2>. DEFINE n == Len(watcher.steps)
              l == IF n > e.index THEN n ELSE e.index
              f == [i \in 1..l |-> IF i = e.index THEN e.step
                                   ELSE IF i <= n THEN watcher.steps[i] ELSE "missing"]
  <2>1. w = [watcher EXCEPT !.steps = f]
    BY <1>2 DEF Applied
  <2>2. n \in Nat /\ e.index \in Nat \ {0} /\ e.step \in StepState
        /\ \A i \in 1..n : watcher.steps[i] \in St
    BY <1>1, <1>2, Events, LenProperties, ElementOfSeq, StreamAssumption
  <2>3. l \in Nat /\ n <= l /\ e.index <= l /\ e.index \in 1..l
    BY <2>2
  <2>. HIDE DEF l
  <2>4. f \in [1..l -> St]
    BY <2>2
  <2>5. f \in Seq(St) /\ Len(f) = l
    BY <2>3, <2>4, LenProperties, SeqDef
  <2>6. f[e.index] = e.step /\ \A i \in 1..n : i # e.index => i <= l /\ f[i] = watcher.steps[i]
    BY <2>2, <2>3
  <2>. HIDE DEF f
  <2>7. w \in W /\ w.steps = f /\ w.at = watcher.at /\ w.status = watcher.status
    BY <1>1, <2>1, <2>5, Zenon
  <2>. QED
    BY <1>2, <2>3, <2>5, <2>6, <2>7
<1>3. CASE e.type \in {"status", "done"}
  <2>1. w = [watcher EXCEPT !.status = e.status] /\ e.status \in Shown
    BY <1>3, Events DEF Applied, Shown
  <2>. QED
    BY <1>1, <1>3, <2>1
<1>4. CASE e.type = "human_intervention_required"
  <2>1. w = [watcher EXCEPT !.status = "awaiting_human"] /\ "awaiting_human" \in Shown
    BY <1>4 DEF Applied, Shown, Active
  <2>. QED
    BY <1>1, <1>4, <2>1
<1>5. CASE e.type = "human_intervention_ended"
  <2>1. w = [watcher EXCEPT !.status = "running"] /\ "running" \in Shown
    BY <1>5 DEF Applied, Shown, Active
  <2>. QED
    BY <1>1, <1>5, <2>1
<1>6. CASE e.type \in {"closed", "report_ready"}
  <2>1. w = watcher
    BY <1>6 DEF Applied
  <2>. QED
    BY <1>1, <1>6, <2>1
<1>. QED
  BY <1>2, <1>3, <1>4, <1>5, <1>6, Events DEF NeverDrop

LEMMA TypedKept ==
    ASSUME Typed, Unique(pending), [StreamNext]_streamVars
    PROVE  Typed'
<1>. DEFINE T == [at : Stage, said : StreamEvent \cup {Silence}, cancelled : BOOLEAN]
            W == [at : {"away", "subscribed", "told", "streaming", "closed"},
                  steps : Seq(StepState \cup {"missing"}), status : Shown]
<1>0. /\ shown \in Seq(StepState) /\ Len(shown) <= MaxShown /\ status \in Shown
      /\ asked \in 0..MaxAsked /\ thread \in T /\ calls \in Seq(StreamEvent)
      /\ pending \in Seq(StreamEvent) /\ Len(pending) <= Capacity
      /\ watcher \in W /\ lost \subseteq 1..MaxShown
  BY DEF Typed
<1>1. <<>> \in Seq(StreamEvent) /\ Len(<<>>) <= Capacity /\ {} \subseteq 1..MaxShown
  BY StreamAssumption
<1>2. \A a \in {"away", "subscribed", "closed"} : [Away EXCEPT !.at = a] \in W
  <2>1. <<>> \in Seq(StepState \cup {"missing"}) /\ "running" \in Shown
    BY DEF Shown, Active
  <2>2. \A a : [Away EXCEPT !.at = a] = [at |-> a, steps |-> <<>>, status |-> "running"]
    BY DEF Away
  <2>. QED
    BY <2>1, <2>2
<1>3. CASE Broadcast
  <2>1. /\ calls' = calls \/ calls' = calls \o <<thread.said>>
        /\ thread.said \in StreamEvent
        /\ thread' = [thread EXCEPT !.said = Silence]
        /\ UNCHANGED <<shown, status, asked, watcher, pending, lost>>
    BY <1>0, <1>3 DEF Broadcast, ToWatcher, Quiet
  <2>2. calls' \in Seq(StreamEvent)
    <3>1. calls \o <<thread.said>> \in Seq(StreamEvent)
      <4>1. calls \in Seq(StreamEvent) /\ thread.said \in StreamEvent
        BY <1>0, <2>1
      <4>. QED
        BY <4>1, Grown
    <3>. QED
      BY <1>0, <2>1, <3>1
  <2>3. thread' \in T
    BY <1>0, <2>1
  <2>. QED
    BY <1>0, <2>1, <2>2, <2>3 DEF Typed
<1>4. CASE Speaks
  <2>1. thread' \in T
    BY <1>0, <1>4, SpeaksFacts
  <2>. QED
    BY <1>0, <1>4, <2>1, SpeaksFacts DEF Typed
<1>5. CASE CancelEvents
  <2>. DEFINE c == [type |-> "status", status |-> "cancelled"]
  <2>1. c \in StreamEvent /\ Closed \in StreamEvent
    BY Events, Spoken
  <2>2. calls' = calls \/ calls' = calls \o <<c, Closed>>
    BY <1>5 DEF CancelEvents, ToWatcher
  <2>3. <<c, Closed>> \in Seq(StreamEvent)
    BY <2>1
  <2>. HIDE DEF c
  <2>4. calls' \in Seq(StreamEvent)
    <3>1. calls \o <<c, Closed>> \in Seq(StreamEvent)
      BY <1>0, <2>3, ConcatProperties
    <3>. QED
      BY <1>0, <2>2, <3>1
  <2>5. thread' \in T /\ status' \in Shown
    BY <1>0, <1>5 DEF CancelEvents, Shown
  <2>. QED
    BY <1>0, <1>5, <2>4, <2>5 DEF Typed, CancelEvents
<1>6. CASE Enqueue
  <2>1. /\ calls' \in Seq(StreamEvent) /\ UNCHANGED <<shown, status, asked, thread, watcher>>
    <3>1. calls # <<>> /\ calls' = Tail(calls)
          /\ UNCHANGED <<shown, status, asked, thread, watcher>>
      BY <1>6, EnqueueFacts
    <3>2. Tail(calls) \in Seq(StreamEvent)
      BY <1>0, <3>1, Shifted
    <3>. QED
      BY <3>1, <3>2
  <2>2. PICK q \in Seq(StreamEvent), m \in Nat, d \in Nat :
          /\ Trimmed(q, d, pending')
          /\ lost' = IF d # 0 /\ q[d].type = "step" THEN lost \cup {q[d].index} ELSE lost
    BY <1>6, EnqueueFacts
  <2>3. pending' \in Seq(StreamEvent) /\ Len(pending') <= Capacity
    BY <2>2 DEF Trimmed
  <2>4. lost' \subseteq 1..MaxShown
    <3>1. CASE d # 0 /\ q[d].type = "step"
      <4>1. q[d] \in StreamEvent
        BY <2>2, <3>1, ElementOfSeq DEF Trimmed
      <4>2. q[d].index \in 1..MaxShown
        BY <3>1, <4>1, Events
      <4>. QED
        BY <1>0, <2>2, <3>1, <4>2
    <3>2. CASE ~(d # 0 /\ q[d].type = "step")
      BY <1>0, <2>2, <3>2
    <3>. QED
      BY <3>1, <3>2
  <2>. QED
    BY <1>0, <2>1, <2>3, <2>4 DEF Typed
<1>7. CASE Subscribe
  BY <1>0, <1>2, <1>7 DEF Subscribe, Typed
<1>8. CASE Snapshot
  <2>1. shown \in Seq(StepState \cup {"missing"})
    <3>1. \A i \in 1..Len(shown) : shown[i] \in StepState \cup {"missing"}
      BY <1>0, ElementOfSeq
    <3>2. shown \in [1..Len(shown) -> StepState \cup {"missing"}] /\ Len(shown) \in Nat
      BY <1>0, <3>1, LenProperties
    <3>. QED
      BY <3>2, SeqDef
  <2>2. watcher' = [watcher EXCEPT !.at = "told", !.steps = shown, !.status = status]
    BY <1>8 DEF Snapshot
  <2>3. watcher' \in W
    BY <1>0, <2>1, <2>2, Zenon
  <2>. QED
    BY <1>0, <1>8, <2>3 DEF Typed, Snapshot
<1>9. ASSUME NEW a \in {"away", "closed"}, Unsubscribe(a), UNCHANGED <<shown, status, asked, thread>>
      PROVE  Typed'
  BY <1>0, <1>1, <1>2, <1>9 DEF Unsubscribe, Typed
<1>10. CASE SnapshotSent
  <2>1. CASE /\ watcher' = [watcher EXCEPT !.at = "streaming"]
             /\ UNCHANGED <<calls, pending, lost>>
    <3>1. watcher' \in W
      BY <1>0, <2>1
    <3>. QED
      BY <1>0, <1>10, <2>1, <3>1 DEF Typed, SnapshotSent
  <2>. QED
    BY <1>9, <1>10, <2>1 DEF SnapshotSent
<1>11. CASE Deliver
  <2>1. CASE Unsubscribe("closed")
    BY <1>9, <1>11, <2>1 DEF Deliver
  <2>2. CASE ~Unsubscribe("closed")
    <3>1. /\ pending # <<>> /\ watcher' = Applied(watcher, Head(pending))
          /\ pending' = Tail(pending) /\ UNCHANGED <<shown, status, asked, thread, calls>>
          /\ lost' \subseteq lost
      BY <1>11, <2>2 DEF Deliver
    <3>2. /\ Head(pending) \in StreamEvent /\ pending' \in Seq(StreamEvent)
          /\ Len(pending') = Len(pending) - 1 /\ Len(pending) \in Nat
      BY <1>0, <3>1, Shifted
    <3>3. Len(pending') <= Capacity
      BY <1>0, <3>2, StreamAssumption
    <3>4. watcher' \in W
      BY <3>1, <3>2, AppliedFacts
    <3>. QED
      BY <1>0, <3>1, <3>2, <3>3, <3>4 DEF Typed
  <2>. QED
    BY <2>1, <2>2
<1>12. CASE HangUp
  BY <1>9, <1>12 DEF HangUp
<1>13. CASE UNCHANGED streamVars
  BY <1>0, <1>13 DEF streamVars, Typed
<1>. QED
  BY <1>3, <1>4, <1>5, <1>6, <1>7, <1>8, <1>10, <1>11, <1>12, <1>13 DEF StreamNext, Speaks

LEMMA IdleKept ==
    ASSUME Typed, Idle, Unique(pending), [StreamNext]_streamVars
    PROVE  Idle'
<1>1. CASE Broadcast \/ CancelEvents
  BY <1>1 DEF Broadcast, CancelEvents, Idle, ToWatcher, Subscribed
<1>2. CASE Speaks
  BY <1>2, SpeaksFacts DEF Idle, Subscribed
<1>3. CASE Enqueue
  <2>1. calls # <<>> /\ watcher' = watcher
    BY <1>3, EnqueueFacts
  <2>. QED
    BY <2>1 DEF Idle, Subscribed
<1>4. CASE Subscribe
  BY <1>4 DEF Subscribe, Idle, Subscribed, Away
<1>5. CASE Snapshot
  BY <1>5 DEF Snapshot, Idle, Subscribed, Typed
<1>6. CASE SnapshotSent
  BY <1>6 DEF SnapshotSent, Idle, Subscribed, Typed, Unsubscribe
<1>7. CASE Deliver
  <2>1. CASE Unsubscribe("closed")
    BY <2>1 DEF Unsubscribe, Idle
  <2>2. CASE ~Unsubscribe("closed")
    <3>1. pending # <<>> /\ watcher' = Applied(watcher, Head(pending)) /\ watcher.at = "streaming"
      BY <1>7, <2>2 DEF Deliver
    <3>2. Head(pending) \in StreamEvent
      BY <3>1, Shifted DEF Typed
    <3>3. watcher'.at = "streaming"
      BY <3>1, <3>2, AppliedFacts
    <3>. QED
      BY <3>3 DEF Idle, Subscribed
  <2>. QED
    BY <2>1, <2>2
<1>8. CASE HangUp
  BY <1>8 DEF HangUp, Unsubscribe, Idle
<1>9. CASE UNCHANGED streamVars
  BY <1>9 DEF streamVars, Idle, Subscribed
<1>. QED
  BY <1>1, <1>2, <1>3, <1>4, <1>5, <1>6, <1>7, <1>8, <1>9 DEF StreamNext, Speaks
-----------------------------------------------------------------------------
(* What the events in flight about a step have to say                        *)

\* The last event in flight about step i has its state, and when there is none
\* the page shows it.
StepTold(i) ==
    /\ About(thread.said, i) => thread.said.step = shown[i]
    /\ ~About(thread.said, i) =>
          /\ \A k \in AboutIn(calls, i) :
                (\A j \in AboutIn(calls, i) : j <= k) => calls[k].step = shown[i]
          /\ AboutIn(calls, i) = {} =>
                /\ \A k \in AboutIn(pending, i) : pending[k].step = shown[i]
                /\ AboutIn(pending, i) = {} /\ watcher.at \in {"told", "streaming"} =>
                      i \in lost \/ (i <= Len(watcher.steps) /\ watcher.steps[i] = shown[i])

StepsTold == Unique(pending) /\ \A i \in DOMAIN shown : StepTold(i)

\* Nothing in flight, to a page that shows nothing
LEMMA NobodyTold ==
    ASSUME calls' = <<>>, pending' = <<>>, watcher'.at \notin {"told", "streaming"},
           shown' = shown, thread'.said = thread.said \/ thread'.said = Silence, StepsTold
    PROVE  StepsTold'
<1>1. ~ \E k \in DOMAIN pending' : TRUE
  OBVIOUS
<1>2. ASSUME NEW i \in DOMAIN shown PROVE StepTold(i)'
  <2>1. StepTold(i)
    BY DEF StepsTold
  <2>2. About(thread'.said, i) => thread'.said.step = shown[i]
    BY <2>1 DEF StepTold, About, Silence
  <2>3. AboutIn(calls', i) = {} /\ AboutIn(pending', i) = {}
    BY DEF AboutIn
  <2>. QED
    BY <2>2, <2>3 DEF StepTold
<1>3. Unique(pending)'
  BY <1>1 DEF Unique
<1>. QED
  BY <1>2, <1>3 DEF StepsTold

LEMMA StepsBroadcast ==
    ASSUME Typed, Idle, StepsTold, Broadcast
    PROVE  StepsTold'
<1>1. /\ thread.said \in StreamEvent /\ thread'.said = Silence
      /\ UNCHANGED <<shown, watcher, pending, lost>>
      /\ calls' = IF Subscribed THEN calls \o <<thread.said>> ELSE calls
  BY DEF Typed, Broadcast, ToWatcher, Quiet
<1>2. CASE ~Subscribed
  <2>1. calls' = <<>> /\ pending' = <<>> /\ watcher'.at \notin {"told", "streaming"}
    BY <1>1, <1>2 DEF Idle, Subscribed
  <2>. QED
    BY <1>1, <2>1, NobodyTold
<1>3. CASE Subscribed
  <2>. DEFINE n == Len(calls)
              e == thread.said
  <2>1. calls' = Append(calls, e)
    BY <1>1, <1>3, Grown DEF Typed
  <2>2. /\ n \in Nat /\ DOMAIN calls = 1..n /\ DOMAIN calls' = 1..(n + 1)
        /\ \A k \in 1..n : calls'[k] = calls[k]
        /\ calls'[n + 1] = e
    BY <1>1, <2>1, Grown DEF Typed
  <2>3. ASSUME NEW i \in DOMAIN shown PROVE StepTold(i)'
    <3>1. StepTold(i)
      BY DEF StepsTold
    <3>2. ~About(thread'.said, i)
      BY <1>1 DEF About, Silence
    <3>3. CASE About(e, i)
      <4>1. n + 1 \in AboutIn(calls', i) /\ AboutIn(calls', i) \subseteq 1..(n + 1)
        BY <2>2, <3>3 DEF AboutIn
      <4>2. \A k \in AboutIn(calls', i) :
               (\A j \in AboutIn(calls', i) : j <= k) => calls'[k].step = shown[i]
        BY <2>2, <3>1, <3>3, <4>1 DEF StepTold
      <4>. QED
        BY <1>1, <3>2, <4>1, <4>2 DEF StepTold
    <3>4. CASE ~About(e, i)
      <4>1. AboutIn(calls', i) = AboutIn(calls, i)
        BY <2>2, <3>4 DEF AboutIn
      <4>2. \A k \in AboutIn(calls, i) : calls'[k] = calls[k]
        BY <2>2 DEF AboutIn
      <4>. QED
        BY <1>1, <3>1, <3>2, <3>4, <4>1, <4>2 DEF StepTold
    <3>. QED
      BY <3>3, <3>4
  <2>. QED
    BY <1>1, <2>3 DEF StepsTold, Unique
<1>. QED
  BY <1>2, <1>3

LEMMA StepsSpoken ==
    ASSUME Typed, StepsTold, Speaks
    PROVE  StepsTold'
<1>1. Quiet /\ UNCHANGED <<calls, watcher, pending, lost>>
  BY SpeaksFacts
<1>2. \A i : ~About(thread.said, i)
  BY <1>1 DEF Quiet, About, Silence
<1>3. shown \in Seq(StepState) /\ Len(shown) \in Nat /\ DOMAIN shown = 1..Len(shown)
  BY LenProperties DEF Typed
<1>4. \A i \in DOMAIN shown' :
        /\ About(thread'.said, i) => thread'.said.step = shown'[i]
        /\ ~About(thread'.said, i) => i \in DOMAIN shown /\ shown'[i] = shown[i]
  <2>1. CASE StepStarts
    <3>1. /\ shown' = Append(shown, "started")
          /\ thread'.said = [type |-> "step", index |-> Len(shown) + 1, step |-> "started"]
      BY <2>1 DEF StepStarts, Say, Typed
    <3>2. /\ DOMAIN shown' = 1..(Len(shown) + 1) /\ shown'[Len(shown) + 1] = "started"
          /\ \A i \in 1..Len(shown) : shown'[i] = shown[i]
      BY <1>3, <3>1, Grown DEF StepState
    <3>. QED
      BY <1>3, <3>1, <3>2 DEF About
  <2>2. CASE StepEnds
    <3>1. PICK i \in DOMAIN shown :
            /\ shown' = [shown EXCEPT ![i] = "ended"]
            /\ thread'.said = [type |-> "step", index |-> i, step |-> "ended"]
      BY <2>2 DEF StepEnds, Say, Typed
    <3>. QED
      BY <1>3, <3>1 DEF About
  <2>3. CASE AskHuman \/ HumanEnds \/ RunDone \/ RunReports \/ RunCloses
    <3>1. shown' = shown
      BY <2>3 DEF AskHuman, HumanEnds, RunDone, RunReports, RunCloses
    <3>2. thread'.said.type # "step"
      <4>1. \E p \in Stage, s \in {"pass", "error"} :
              \E e \in {[type |-> "human_intervention_required"],
                        [type |-> "human_intervention_ended"], [type |-> "done", status |-> s],
                        [type |-> "report_ready"], Silence, Closed} :
                thread' = [thread EXCEPT !.at = p, !.said = e]
        BY <2>3 DEF AskHuman, HumanEnds, RunDone, RunReports, RunCloses, Say, Stage
      <4>. QED
        BY <4>1 DEF Typed, Silence, Closed
    <3>. QED
      BY <3>1, <3>2 DEF About
  <2>. QED
    BY <2>1, <2>2, <2>3 DEF Speaks
<1>5. ASSUME NEW i \in DOMAIN shown' PROVE StepTold(i)'
  <2>1. CASE About(thread'.said, i)
    BY <1>4, <2>1 DEF StepTold
  <2>2. CASE ~About(thread'.said, i)
    <3>1. StepTold(i) /\ shown'[i] = shown[i]
      BY <1>4, <2>2 DEF StepsTold
    <3>. QED
      BY <1>1, <1>2, <2>2, <3>1 DEF StepTold
  <2>. QED
    BY <2>1, <2>2
<1>. QED
  BY <1>1, <1>5 DEF StepsTold, Unique

LEMMA StepsCancelled ==
    ASSUME Typed, StepsTold, CancelEvents
    PROVE  StepsTold'
<1>. DEFINE c == [type |-> "status", status |-> "cancelled"]
<1>1. /\ UNCHANGED <<shown, watcher, pending, lost>> /\ thread'.said = thread.said
      /\ calls' = calls \/ calls' = calls \o <<c, Closed>>
      /\ calls \in Seq(StreamEvent)
  BY DEF CancelEvents, ToWatcher, Typed
<1>2. \A i : AboutIn(calls', i) = AboutIn(calls, i)
             /\ \A k \in AboutIn(calls, i) : calls'[k] = calls[k]
  <2>1. CASE calls' = calls
    BY <2>1
  <2>2. CASE calls' = calls \o <<c, Closed>>
    <3>1. <<c, Closed>> \in Seq(StreamEvent) /\ Len(<<c, Closed>>) = 2
      BY Spoken, Events
    <3>2. /\ calls' \in Seq(StreamEvent) /\ Len(calls') = Len(calls) + 2
          /\ \A k \in 1..(Len(calls) + 2) :
               calls'[k] = IF k <= Len(calls) THEN calls[k] ELSE <<c, Closed>>[k - Len(calls)]
      BY <1>1, <2>2, <3>1, ConcatProperties
    <3>3. Len(calls) \in Nat /\ DOMAIN calls = 1..Len(calls)
          /\ DOMAIN calls' = 1..(Len(calls) + 2)
      BY <1>1, <3>2, LenProperties
    <3>4. \A k \in 1..Len(calls) : calls'[k] = calls[k]
      BY <3>2, <3>3
    <3>5. calls'[Len(calls) + 1] = c /\ calls'[Len(calls) + 2] = Closed
      BY <3>2, <3>3
    <3>6. c.type # "step" /\ Closed.type # "step"
      BY DEF Closed
    <3>. HIDE DEF c
    <3>. QED
      BY <3>3, <3>4, <3>5, <3>6 DEF AboutIn, About
  <2>. QED
    BY <1>1, <2>1, <2>2
<1>3. ASSUME NEW i \in DOMAIN shown PROVE StepTold(i)'
  <2>1. StepTold(i)
    BY DEF StepsTold
  <2>. QED
    BY <1>1, <1>2, <2>1 DEF StepTold
<1>. QED
  BY <1>1, <1>3 DEF StepsTold, Unique

\* What is in the queue afterwards, and what became of what was in it
LEMMA Queued ==
    ASSUME NEW p \in Seq(StreamEvent), NEW e \in StreamEvent, NEW q \in Seq(StreamEvent),
           NEW r \in Seq(StreamEvent), NEW m \in Nat, NEW d \in Nat,
           Unique(p), PutAt(p, e, q, m), Trimmed(q, d, r)
    PROVE  /\ Unique(r)
           /\ \A k \in DOMAIN r :
                 \/ r[k] = e
                 \/ \E j \in DOMAIN p :
                       r[k] = p[j] /\ (e.type = "step" => ~About(p[j], e.index))
           /\ \A j \in DOMAIN p :
                 (\E k \in DOMAIN r : r[k] = p[j]) \/ SameKey(p[j], e) \/ (d # 0 /\ q[d] = p[j])
           /\ (\E k \in DOMAIN r : r[k] = e) \/ (d # 0 /\ q[d] = e)
<1>1. /\ DOMAIN p = 1..Len(p) /\ DOMAIN q = 1..Len(q) /\ DOMAIN r = 1..Len(r)
      /\ Len(p) \in Nat /\ Len(q) \in Nat /\ Len(r) \in Nat
  BY LenProperties
<1>2. /\ m \in 1..Len(q) /\ q[m] = e
      /\ \A k \in 1..Len(q) : k # m => k \in 1..Len(p) /\ q[k] = p[k]
      /\ \A k \in 1..Len(p) : k # m => q[k] = p[k]
      /\ e.type = "step" => \A k \in 1..Len(p) : k # m => ~About(p[k], e.index)
      /\ m \in 1..Len(p) => SameKey(p[m], e)
      /\ 1..Len(p) \subseteq 1..Len(q)
  <2>1. /\ m \in 1..Len(q) /\ q[m] = e
        /\ \A k \in 1..Len(q) : k # m => k \in 1..Len(p) /\ q[k] = p[k]
        /\ \A k \in 1..Len(p) : k # m => q[k] = p[k]
        /\ e.type = "step" => \A k \in 1..Len(p) : k # m => ~About(p[k], e.index)
        /\ \/ m = Len(p) + 1 /\ Len(q) = Len(p) + 1
           \/ m \in 1..Len(p) /\ Len(q) = Len(p) /\ SameKey(p[m], e)
    BY DEF PutAt
  <2>2. /\ m \in 1..Len(p) => SameKey(p[m], e)
        /\ 1..Len(p) \subseteq 1..Len(q)
    <3>1. Len(p) \in Nat /\ Len(q) \in Nat
      BY <1>1
    <3>2. CASE m = Len(p) + 1 /\ Len(q) = Len(p) + 1
      BY <3>1, <3>2
    <3>3. CASE m \in 1..Len(p) /\ Len(q) = Len(p) /\ SameKey(p[m], e)
      BY <3>1, <3>3
    <3>. QED
      BY <2>1, <3>2, <3>3
  <2>. QED
    BY <2>1, <2>2
<1>3. /\ \A k \in 1..Len(r) :
            From(d, k) \in 1..Len(q) /\ From(d, k) # d /\ r[k] = q[From(d, k)]
      /\ \A j \in 1..Len(q) : j # d => \E k \in 1..Len(r) : From(d, k) = j
      /\ d \in 0..Len(q)
  BY DEF Trimmed
<1>4. Unique(q)
  <2>. SUFFICES ASSUME NEW j \in 1..Len(q), NEW k \in 1..Len(q),
                       q[j].type = "step", q[k].type = "step", q[j].index = q[k].index
                PROVE  j = k
    BY <1>1 DEF Unique
  <2>1. CASE j = m /\ k # m
    BY <1>2, <2>1 DEF About
  <2>2. CASE j # m /\ k = m
    BY <1>2, <2>2 DEF About
  <2>3. CASE j # m /\ k # m
    BY <1>1, <1>2, <2>3 DEF Unique
  <2>. QED
    BY <2>1, <2>2, <2>3
<1>5. Unique(r)
  <2>. SUFFICES ASSUME NEW j \in 1..Len(r), NEW k \in 1..Len(r),
                       r[j].type = "step", r[k].type = "step", r[j].index = r[k].index
                PROVE  j = k
    BY <1>1 DEF Unique
  <2>1. From(d, j) = From(d, k)
    BY <1>1, <1>3, <1>4 DEF Unique
  <2>2. From(d, j) # d /\ From(d, k) # d /\ j \in Nat /\ k \in Nat
    BY <1>1, <1>3
  <2>. QED
    BY <2>1, <2>2 DEF From
<1>6. ASSUME NEW k \in 1..Len(r)
      PROVE  \/ r[k] = e
             \/ \E j \in 1..Len(p) : r[k] = p[j] /\ (e.type = "step" => ~About(p[j], e.index))
  BY <1>2, <1>3
<1>7. ASSUME NEW j \in 1..Len(p)
      PROVE  \/ \E k \in 1..Len(r) : r[k] = p[j]
             \/ SameKey(p[j], e)
             \/ d # 0 /\ q[d] = p[j]
  <2>1. CASE j = m
    BY <1>2, <2>1
  <2>2. CASE j # m
    <3>1. q[j] = p[j] /\ j \in 1..Len(q) /\ j # 0
      BY <1>1, <1>2, <2>2
    <3>. QED
      BY <1>3, <3>1
  <2>. QED
    BY <2>1, <2>2
<1>8. (\E k \in 1..Len(r) : r[k] = e) \/ (d # 0 /\ q[d] = e)
  <2>1. m # 0
    BY <1>1, <1>2
  <2>. QED
    BY <1>2, <1>3, <2>1
<1>. QED
  BY <1>1, <1>5, <1>6, <1>7, <1>8

LEMMA StepsEnqueued ==
    ASSUME Typed, StepsTold, Enqueue
    PROVE  StepsTold'
<1>. DEFINE e == Head(calls)
            n == Len(calls)
<1>1. /\ pending \in Seq(StreamEvent) /\ Unique(pending) /\ calls \in Seq(StreamEvent)
      /\ pending' \in Seq(StreamEvent)
  BY TypedKept DEF Typed, StepsTold, StreamNext
<1>2. /\ calls # <<>> /\ calls' = Tail(calls)
      /\ UNCHANGED <<shown, status, asked, thread, watcher>>
  BY <1>1, EnqueueFacts
<1>3. PICK q \in Seq(StreamEvent), m \in Nat, d \in Nat :
        /\ PutAt(pending, e, q, m) /\ Trimmed(q, d, pending')
        /\ lost' = IF d # 0 /\ q[d].type = "step" THEN lost \cup {q[d].index} ELSE lost
  BY <1>1, EnqueueFacts, Zenon
<1>4. /\ e \in StreamEvent /\ e = calls[1] /\ n \in Nat \ {0} /\ DOMAIN calls = 1..n
      /\ DOMAIN calls' = 1..(n - 1) /\ \A k \in 1..(n - 1) : calls'[k] = calls[k + 1]
  BY <1>1, <1>2, Shifted
<1>. HIDE DEF e, n
<1>5. /\ Unique(pending')
      /\ \A k \in DOMAIN pending' :
            \/ pending'[k] = e
            \/ \E j \in DOMAIN pending :
                  pending'[k] = pending[j] /\ (e.type = "step" => ~About(pending[j], e.index))
      /\ \A j \in DOMAIN pending :
            \/ \E k \in DOMAIN pending' : pending'[k] = pending[j]
            \/ SameKey(pending[j], e)
            \/ d # 0 /\ q[d] = pending[j]
      /\ (\E k \in DOMAIN pending' : pending'[k] = e) \/ (d # 0 /\ q[d] = e)
  <2>1. /\ Unique(pending) /\ PutAt(pending, e, q, m) /\ Trimmed(q, d, pending')
        /\ pending \in Seq(StreamEvent) /\ pending' \in Seq(StreamEvent)
        /\ e \in StreamEvent
    BY <1>1, <1>3, <1>4
  <2>. QED
    BY <2>1, Queued
<1>6. lost \subseteq lost' /\ \A i : d # 0 /\ About(q[d], i) => i \in lost'
  BY <1>3 DEF About
<1>7. ASSUME NEW i \in DOMAIN shown PROVE StepTold(i)'
  <2>1. StepTold(i)
    BY DEF StepsTold
  <2>2. CASE About(thread.said, i)
    BY <1>2, <2>1, <2>2 DEF StepTold
  <2>3. CASE ~About(thread.said, i) /\ AboutIn(calls', i) # {}
    <3>1. \A k \in 1..(n - 1) : k \in AboutIn(calls', i) <=> k + 1 \in AboutIn(calls, i)
      BY <1>4 DEF AboutIn
    <3>2. ASSUME NEW k \in AboutIn(calls', i), \A j \in AboutIn(calls', i) : j <= k
          PROVE  calls'[k].step = shown[i]
      <4>1. k \in 1..(n - 1) /\ k + 1 \in AboutIn(calls, i) /\ calls'[k] = calls[k + 1]
        BY <1>4, <3>1 DEF AboutIn
      <4>2. ASSUME NEW j \in AboutIn(calls, i) PROVE j <= k + 1
        <5>1. CASE j = 1
          BY <1>4, <4>1, <5>1
        <5>2. CASE j # 1
          <6>1. j - 1 \in 1..(n - 1) /\ (j - 1) + 1 = j
            BY <1>4, <5>2 DEF AboutIn
          <6>2. j - 1 <= k
            BY <3>1, <3>2, <6>1
          <6>. QED
            BY <1>4, <4>1, <6>1, <6>2
        <5>. QED
          BY <5>1, <5>2
      <4>. QED
        BY <2>1, <2>3, <4>1, <4>2 DEF StepTold
    <3>. QED
      BY <1>2, <2>3, <3>2 DEF StepTold
  <2>4. CASE ~About(thread.said, i) /\ AboutIn(calls', i) = {} /\ About(e, i)
    <3>1. e.step = shown[i] /\ e.type = "step" /\ e.index = i
      <4>1. AboutIn(calls, i) = {1}
        <5>1. ASSUME NEW j \in AboutIn(calls, i), j # 1 PROVE FALSE
          <6>1. j - 1 \in 1..(n - 1) /\ calls'[j - 1] = calls[j]
            BY <1>4, <5>1 DEF AboutIn
          <6>. QED
            BY <1>4, <2>4, <6>1 DEF AboutIn
        <5>2. 1 \in AboutIn(calls, i)
          BY <1>4, <2>4 DEF AboutIn
        <5>. QED
          BY <5>1, <5>2
      <4>. QED
        BY <1>4, <2>1, <2>4, <4>1 DEF StepTold, About
    <3>2. \A k \in AboutIn(pending', i) : pending'[k].step = shown[i]
      BY <1>5, <3>1 DEF AboutIn, About
    <3>3. AboutIn(pending', i) = {} => i \in lost'
      BY <1>5, <1>6, <2>4 DEF AboutIn
    <3>. QED
      BY <1>2, <2>4, <3>2, <3>3 DEF StepTold
  <2>5. CASE ~About(thread.said, i) /\ AboutIn(calls', i) = {} /\ ~About(e, i)
    <3>1. AboutIn(calls, i) = {}
      <4>1. ASSUME NEW j \in AboutIn(calls, i) PROVE FALSE
        <5>1. j # 1
          BY <1>4, <2>5 DEF AboutIn
        <5>2. j - 1 \in 1..(n - 1) /\ calls'[j - 1] = calls[j]
          BY <1>4, <5>1 DEF AboutIn
        <5>. QED
          BY <1>4, <2>5, <5>2 DEF AboutIn
      <4>. QED
        BY <4>1
    <3>2. \A k \in AboutIn(pending', i) : pending'[k].step = shown[i]
      BY <1>5, <2>1, <2>5, <3>1 DEF AboutIn, StepTold
    <3>3. ASSUME AboutIn(pending', i) = {}, watcher'.at \in {"told", "streaming"}
          PROVE  i \in lost' \/ (i <= Len(watcher'.steps) /\ watcher'.steps[i] = shown[i])
      <4>1. CASE AboutIn(pending, i) = {}
        BY <1>2, <1>6, <2>1, <2>5, <3>1, <3>3, <4>1 DEF StepTold
      <4>2. CASE AboutIn(pending, i) # {}
        <5>1. PICK j \in DOMAIN pending : About(pending[j], i)
          BY <4>2 DEF AboutIn
        <5>2. ~SameKey(pending[j], e)
          BY <2>5, <5>1 DEF SameKey, About
        <5>3. ~ \E k \in DOMAIN pending' : pending'[k] = pending[j]
          BY <3>3, <5>1 DEF AboutIn
        <5>. QED
          BY <1>5, <1>6, <5>1, <5>2, <5>3
      <4>. QED
        BY <4>1, <4>2
    <3>. QED
      BY <1>2, <2>5, <3>2, <3>3 DEF StepTold
  <2>. QED
    BY <2>2, <2>3, <2>4, <2>5
<1>. QED
  BY <1>2, <1>5, <1>7 DEF StepsTold, Unique

\* The page shows what is delivered to it.
LEMMA StepsDelivered ==
    ASSUME Typed, StepsTold, pending # <<>>, watcher.at = "streaming",
           watcher' = Applied(watcher, Head(pending)), pending' = Tail(pending),
           lost' = IF Head(pending).type = "step" THEN lost \ {Head(pending).index} ELSE lost,
           UNCHANGED <<shown, status, asked, thread, calls>>
    PROVE  StepsTold'
<1>. DEFINE e == Head(pending)
            n == Len(pending)
<1>1. /\ e \in StreamEvent /\ e = pending[1] /\ n \in Nat \ {0} /\ DOMAIN pending = 1..n
      /\ DOMAIN pending' = 1..(n - 1) /\ \A k \in 1..(n - 1) : pending'[k] = pending[k + 1]
  BY Shifted DEF Typed
<1>2. /\ watcher'.at = watcher.at
      /\ e.type = "step" =>
            /\ e.index <= Len(watcher'.steps) /\ watcher'.steps[e.index] = e.step
            /\ \A i \in 1..Len(watcher.steps) : i # e.index =>
                  i <= Len(watcher'.steps) /\ watcher'.steps[i] = watcher.steps[i]
      /\ e.type # "step" => watcher'.steps = watcher.steps
  BY <1>1, AppliedFacts
<1>. HIDE DEF e, n
<1>3. Unique(pending)'
  <2>. SUFFICES ASSUME NEW j \in 1..(n - 1), NEW k \in 1..(n - 1), pending'[j].type = "step",
                       pending'[k].type = "step", pending'[j].index = pending'[k].index
                PROVE  j = k
    BY <1>1 DEF Unique
  <2>1. j + 1 = k + 1
    BY <1>1 DEF Unique, StepsTold
  <2>. QED
    BY <1>1, <2>1
<1>4. ASSUME NEW i \in DOMAIN shown PROVE StepTold(i)'
  <2>1. StepTold(i)
    BY DEF StepsTold
  <2>2. CASE About(thread.said, i) \/ AboutIn(calls, i) # {}
    BY <2>1, <2>2 DEF StepTold
  <2>3. CASE ~About(thread.said, i) /\ AboutIn(calls, i) = {}
    <3>1. \A k \in AboutIn(pending, i) : pending[k].step = shown[i]
      BY <2>1, <2>3 DEF StepTold
    <3>2. \A k \in AboutIn(pending', i) : pending'[k].step = shown[i]
      BY <1>1, <3>1 DEF AboutIn
    <3>3. ASSUME AboutIn(pending', i) = {}
          PROVE  i \in lost' \/ (i <= Len(watcher'.steps) /\ watcher'.steps[i] = shown[i])
      <4>1. CASE About(e, i)
        <5>1. 1 \in AboutIn(pending, i)
          BY <1>1, <4>1 DEF AboutIn
        <5>2. e.step = shown[i] /\ e.type = "step" /\ e.index = i
          BY <1>1, <3>1, <4>1, <5>1 DEF About
        <5>. QED
          BY <1>2, <5>2
      <4>2. CASE ~About(e, i)
        <5>1. ASSUME NEW j \in AboutIn(pending, i) PROVE FALSE
          <6>1. j # 1
            BY <1>1, <4>2 DEF AboutIn
          <6>2. j - 1 \in 1..(n - 1) /\ pending'[j - 1] = pending[j]
            BY <1>1, <6>1 DEF AboutIn
          <6>. QED
            BY <1>1, <3>3, <6>2 DEF AboutIn
        <5>2. i \in lost \/ (i <= Len(watcher.steps) /\ watcher.steps[i] = shown[i])
          <6>1. AboutIn(pending, i) = {}
            BY <5>1
          <6>. QED
            BY <2>1, <2>3, <6>1 DEF StepTold
        <5>3. CASE e.type # "step"
          BY <1>2, <5>2, <5>3 DEF e
        <5>4. CASE e.type = "step"
          <6>1. e.index # i /\ i \in 1..Len(shown) /\ Len(shown) \in Nat
            BY <4>2, <5>4, LenProperties DEF About, Typed
          <6>2. lost' = lost \ {e.index}
            BY <5>4 DEF e
          <6>. QED
            BY <1>2, <5>2, <5>4, <6>1, <6>2
        <5>. QED
          BY <5>3, <5>4
      <4>. QED
        BY <4>1, <4>2
    <3>. QED
      BY <2>3, <3>2, <3>3 DEF StepTold
  <2>. QED
    BY <2>2, <2>3
<1>. QED
  BY <1>3, <1>4 DEF StepsTold

\* The three ways to stop watching, and the rest of what ws_run_stream does
Leaves(a) == Unsubscribe(a) /\ UNCHANGED <<shown, status, asked, thread>>

LEMMA WatcherMoves ==
    ASSUME SnapshotSent \/ Deliver \/ HangUp
    PROVE  \/ \E a \in {"away", "closed"} : Leaves(a)
           \/ /\ SnapshotSent /\ status \in Active /\ watcher.at = "told"
              /\ watcher' = [watcher EXCEPT !.at = "streaming"]
              /\ UNCHANGED <<shown, status, asked, thread, calls, pending, lost>>
           \/ /\ Deliver /\ pending # <<>> /\ Head(pending) # Closed
              /\ watcher.at = "streaming"
              /\ watcher' = Applied(watcher, Head(pending)) /\ pending' = Tail(pending)
              /\ lost' = IF Head(pending).type = "step" THEN lost \ {Head(pending).index} ELSE lost
              /\ UNCHANGED <<shown, status, asked, thread, calls>>
BY DEF SnapshotSent, Deliver, HangUp, Leaves

LEMMA LeavesFacts ==
    ASSUME NEW a \in {"away", "closed"}, Leaves(a)
    PROVE  /\ calls' = <<>> /\ pending' = <<>> /\ watcher'.at \notin {"told", "streaming"}
           /\ UNCHANGED <<shown, status, asked, thread>>
BY DEF Leaves, Unsubscribe, Away

LEMMA StepsKept ==
    ASSUME Typed, Idle, StepsTold, [StreamNext]_streamVars
    PROVE  StepsTold'
<1>1. CASE Subscribe
  <2>1. calls' = <<>> /\ pending' = <<>> /\ watcher'.at = "subscribed"
        /\ UNCHANGED <<shown, thread>>
    BY <1>1 DEF Subscribe, Idle, Subscribed, Away
  <2>. QED
    BY <2>1, NobodyTold
<1>2. CASE Snapshot
  <2>1. /\ watcher'.steps = shown /\ UNCHANGED <<shown, thread, calls, pending, lost>>
        /\ DOMAIN shown = 1..Len(shown) /\ Len(shown) \in Nat
    BY <1>2, LenProperties DEF Snapshot, Typed
  <2>2. ASSUME NEW i \in DOMAIN shown PROVE StepTold(i)'
    <3>1. StepTold(i) /\ i <= Len(shown)
      BY <2>1 DEF StepsTold
    <3>. QED
      BY <2>1, <3>1 DEF StepTold
  <2>. QED
    BY <2>1, <2>2 DEF StepsTold, Unique
<1>3. ASSUME NEW a \in {"away", "closed"}, Leaves(a) PROVE StepsTold'
  BY <1>3, LeavesFacts, NobodyTold
<1>4. CASE /\ watcher.at = "told" /\ watcher' = [watcher EXCEPT !.at = "streaming"]
           /\ UNCHANGED <<shown, status, asked, thread, calls, pending, lost>>
  <2>1. watcher'.steps = watcher.steps
    BY <1>4 DEF Typed
  <2>2. ASSUME NEW i \in DOMAIN shown PROVE StepTold(i)'
    <3>1. StepTold(i)
      BY DEF StepsTold
    <3>. QED
      BY <1>4, <2>1, <3>1 DEF StepTold
  <2>. QED
    BY <1>4, <2>2 DEF StepsTold, Unique
<1>5. CASE SnapshotSent \/ Deliver \/ HangUp
  BY <1>3, <1>4, <1>5, WatcherMoves, StepsDelivered
<1>6. CASE UNCHANGED streamVars
  <2>1. ASSUME NEW i \in DOMAIN shown PROVE StepTold(i)'
    <3>1. StepTold(i)
      BY DEF StepsTold
    <3>. QED
      BY <1>6, <3>1 DEF StepTold, streamVars
  <2>. QED
    BY <1>6, <2>1 DEF StepsTold, Unique, streamVars
<1>. QED
  BY <1>1, <1>2, <1>5, <1>6, StepsBroadcast, StepsSpoken, StepsCancelled, StepsEnqueued
     DEF StreamNext, Speaks
-----------------------------------------------------------------------------
(* The order of the events in flight                                         *)

\* The thread ends with its report and "closed", in this order, and as long as
\* nobody cancels the run nobody else speaks.
Rank(e) == CASE e.type = "report_ready" -> 1 [] e.type = "closed" -> 2 [] OTHER -> 0
Cap(stage) == CASE stage = "closing" -> 1 [] stage = "ended" -> 2 [] OTHER -> 0
Ahead(e, f) == Rank(e) < Rank(f) \/ (Rank(e) = 0 /\ Rank(f) = 0)
Sayable(e) == e.type # "status" /\ Rank(e) <= Cap(thread.at)
InOrder(q) == \A j, k \in DOMAIN q : j < k => Ahead(q[j], q[k])

Orderly ==
    /\ \A k \in DOMAIN pending : Sayable(pending[k])
    /\ \A k \in DOMAIN calls : Sayable(calls[k])
    /\ Sayable(thread.said)
    /\ InOrder(pending) /\ InOrder(calls)
    /\ \A j \in DOMAIN pending, k \in DOMAIN calls : Ahead(pending[j], calls[k])
    /\ ~Quiet => /\ \A j \in DOMAIN pending : Ahead(pending[j], thread.said)
                 /\ \A j \in DOMAIN calls : Ahead(calls[j], thread.said)

LEMMA Ranks ==
    /\ \A e : Rank(e) \in 0..2 /\ Cap(e) \in 0..2
    /\ \A e : e.type = "report_ready" => Rank(e) = 1
    /\ \A e : e.type = "closed" => Rank(e) = 2
    /\ \A e : e.type \notin {"report_ready", "closed"} => Rank(e) = 0
    /\ Cap("running") = 0 /\ Cap("reporting") = 0 /\ Cap("closing") = 1 /\ Cap("ended") = 2
BY DEF Rank, Cap

LEMMA OrderBroadcast ==
    ASSUME Typed, Orderly, Broadcast
    PROVE  Orderly'
<1>. DEFINE n == Len(calls)
            e == thread.said
<1>1. /\ e \in StreamEvent /\ thread'.said = Silence /\ thread'.at = thread.at
      /\ UNCHANGED <<shown, watcher, pending, lost>> /\ ~Quiet
      /\ calls' = IF Subscribed THEN calls \o <<e>> ELSE calls
  BY DEF Typed, Broadcast, ToWatcher, Quiet
<1>2. \A x : Sayable(x)' <=> Sayable(x)
  BY <1>1 DEF Sayable
<1>3. Sayable(thread'.said) /\ Quiet'
  BY <1>1, Ranks DEF Sayable, Silence, Rank, Quiet
<1>4. CASE calls' = calls
  BY <1>1, <1>2, <1>3, <1>4 DEF Orderly, InOrder
<1>5. CASE calls' = calls \o <<e>>
  <2>1. calls' = Append(calls, e)
    BY <1>1, <1>5, Grown DEF Typed
  <2>2. /\ n \in Nat /\ DOMAIN calls = 1..n /\ DOMAIN calls' = 1..(n + 1)
        /\ \A k \in 1..n : calls'[k] = calls[k]
        /\ calls'[n + 1] = e
    BY <1>1, <2>1, Grown DEF Typed
  <2>3. \A k \in 1..(n + 1) : k \in 1..n \/ k = n + 1
    BY <2>2
  <2>4. /\ Sayable(e) /\ \A i \in DOMAIN pending : Ahead(pending[i], e)
        /\ \A i \in 1..n : Ahead(calls[i], e)
    BY <1>1, <2>2 DEF Orderly
  <2>. HIDE DEF e, n
  <2>5. \A k \in DOMAIN calls' :
           Sayable(calls'[k]) /\ \A i \in DOMAIN pending : Ahead(pending[i], calls'[k])
    BY <2>2, <2>3, <2>4 DEF Orderly
  <2>6. ASSUME NEW j \in 1..(n + 1), NEW k \in 1..(n + 1), j < k
        PROVE  Ahead(calls'[j], calls'[k])
    <3>1. j \in 1..n
      <4>1. j # n + 1
        BY <2>2, <2>6
      <4>. QED
        BY <2>3, <4>1
    <3>2. CASE k = n + 1
      BY <2>2, <2>4, <3>1, <3>2
    <3>3. CASE k \in 1..n
      BY <2>2, <2>6, <3>1, <3>3 DEF Orderly, InOrder
    <3>. QED
      BY <2>3, <3>2, <3>3
  <2>. QED
    BY <1>1, <1>2, <1>3, <2>2, <2>5, <2>6 DEF Orderly, InOrder
<1>. QED
  BY <1>1, <1>4, <1>5

\* What the thread says is in order.
LEMMA OrderSpoken ==
    ASSUME Typed, Orderly, Speaks
    PROVE  Orderly'
<1>1. Quiet /\ UNCHANGED <<calls, watcher, pending, lost>>
  BY SpeaksFacts
<1>2. /\ Cap(thread.at) <= Cap(thread'.at) /\ Sayable(thread.said)'
      /\ \/ thread'.said = Silence
         \/ Rank(thread'.said) = 0 /\ Cap(thread.at) = 0
         \/ Cap(thread.at) < Rank(thread'.said)
  <2>1. CASE StepStarts \/ StepEnds \/ AskHuman \/ HumanEnds
    <3>1. thread.at = "running" /\ thread'.at = "running"
          /\ thread'.said.type \notin {"status", "report_ready", "closed"}
      <4>1. \E i \in Nat, s \in StepState :
              \E e \in {[type |-> "step", index |-> i, step |-> s],
                        [type |-> "human_intervention_required"],
                        [type |-> "human_intervention_ended"]} :
                thread' = [thread EXCEPT !.at = "running", !.said = e]
        <5>1. Len(shown) + 1 \in Nat /\ DOMAIN shown \subseteq Nat
          BY LenProperties DEF Typed
        <5>. QED
          BY <2>1, <5>1 DEF StepStarts, StepEnds, AskHuman, HumanEnds, Say, StepState
      <4>. QED
        BY <2>1, <4>1 DEF Typed, StepStarts, StepEnds, AskHuman, HumanEnds
    <3>. QED
      BY <3>1, Ranks DEF Sayable
  <2>2. CASE RunDone
    <3>1. \E e \in {[type |-> "done", status |-> "pass"], [type |-> "done", status |-> "error"],
                    Silence} :
            thread' = [thread EXCEPT !.at = "reporting", !.said = e]
      BY <2>2 DEF RunDone, Say
    <3>2. thread.at = "running" /\ thread'.at = "reporting"
          /\ thread'.said.type \notin {"status", "report_ready", "closed"}
      BY <2>2, <3>1 DEF RunDone, Typed, Silence
    <3>. QED
      BY <3>2, Ranks DEF Sayable
  <2>3. CASE RunReports
    <3>1. thread.at = "reporting" /\ thread'.at = "closing"
          /\ (thread'.said = Silence \/ thread'.said.type = "report_ready")
      <4>1. \E e \in {[type |-> "report_ready"], Silence} :
              thread' = [thread EXCEPT !.at = "closing", !.said = e]
        BY <2>3 DEF RunReports, Say
      <4>2. PICK e \in {[type |-> "report_ready"], Silence} :
              thread' = [thread EXCEPT !.at = "closing", !.said = e]
        BY <4>1
      <4>3. thread'.at = "closing" /\ thread'.said = e
        BY <4>2 DEF Typed
      <4>4. e = Silence \/ e.type = "report_ready"
        OBVIOUS
      <4>. QED
        BY <2>3, <4>3, <4>4 DEF RunReports
    <3>2. Silence.type = "nothing"
      BY DEF Silence
    <3>. QED
      BY <3>1, <3>2, Ranks DEF Sayable
  <2>4. CASE RunCloses
    <3>1. thread.at = "closing" /\ thread'.at = "ended" /\ thread'.said.type = "closed"
      BY <2>4 DEF RunCloses, Say, Typed, Closed
    <3>. QED
      BY <3>1, Ranks DEF Sayable
  <2>. QED
    BY <2>1, <2>2, <2>3, <2>4 DEF Speaks
<1>3. ASSUME NEW x, Sayable(x) PROVE Sayable(x)' /\ (~Quiet' => Ahead(x, thread'.said))
  <2>1. Rank(x) \in 0..2 /\ Cap(thread.at) \in 0..2 /\ Cap(thread'.at) \in 0..2
        /\ Rank(thread'.said) \in 0..2
    BY Ranks
  <2>. QED
    BY <1>2, <1>3, <2>1 DEF Sayable, Ahead, Quiet
<1>. QED
  BY <1>1, <1>2, <1>3 DEF Orderly, InOrder

LEMMA QueuedInOrder ==
    ASSUME NEW p \in Seq(StreamEvent), NEW e \in StreamEvent, NEW q \in Seq(StreamEvent),
           NEW r \in Seq(StreamEvent), NEW m \in Nat, NEW d \in Nat,
           PutAt(p, e, q, m), Trimmed(q, d, r), InOrder(p), e.type # "status",
           \A j \in DOMAIN p : Ahead(p[j], e)
    PROVE  InOrder(q) /\ InOrder(r)
<1>1. /\ DOMAIN p = 1..Len(p) /\ DOMAIN q = 1..Len(q) /\ DOMAIN r = 1..Len(r)
      /\ Len(p) \in Nat /\ Len(q) \in Nat /\ Len(r) \in Nat
  BY LenProperties
<1>2. /\ m \in 1..Len(q) /\ q[m] = e
      /\ \A k \in 1..Len(q) : k # m => k \in 1..Len(p) /\ q[k] = p[k]
      /\ \/ m = Len(p) + 1 /\ Len(q) = Len(p) + 1
         \/ m \in 1..Len(p) /\ SameKey(p[m], e)
  BY DEF PutAt
<1>3. ASSUME NEW j \in 1..Len(q), NEW k \in 1..Len(q), j < k
      PROVE  Ahead(q[j], q[k])
  <2>1. CASE j # m /\ k # m
    BY <1>1, <1>2, <1>3, <2>1 DEF InOrder
  <2>2. CASE k = m
    <3>1. j # m
      BY <1>1, <1>3, <2>2
    <3>. QED
      BY <1>1, <1>2, <2>2, <3>1
  <2>3. CASE j = m
    <3>0. k # m /\ m # Len(p) + 1
      <4>1. k # m
        BY <1>1, <1>3, <2>3
      <4>2. k \in 1..Len(p)
        BY <1>2, <4>1
      <4>. QED
        BY <1>1, <1>3, <2>3, <4>1, <4>2
    <3>1. m \in 1..Len(p) /\ SameKey(p[m], e) /\ k \in 1..Len(p) /\ q[k] = p[k]
      BY <1>2, <3>0
    <3>2. Rank(p[m]) = 0 /\ Rank(e) = 0
      BY <3>1 DEF SameKey, Rank
    <3>3. Ahead(p[m], p[k])
      BY <1>1, <1>3, <2>3, <3>1 DEF InOrder
    <3>. QED
      BY <1>2, <2>3, <3>1, <3>2, <3>3 DEF Ahead
  <2>. QED
    BY <2>1, <2>2, <2>3
<1>4. ASSUME NEW j \in 1..Len(r), NEW k \in 1..Len(r), j < k
      PROVE  Ahead(r[j], r[k])
  <2>1. From(d, j) < From(d, k)
    BY <1>1, <1>4 DEF From
  <2>2. /\ From(d, j) \in 1..Len(q) /\ r[j] = q[From(d, j)]
        /\ From(d, k) \in 1..Len(q) /\ r[k] = q[From(d, k)]
    BY DEF Trimmed
  <2>. QED
    BY <1>3, <2>1, <2>2
<1>. QED
  BY <1>1, <1>3, <1>4 DEF InOrder

LEMMA OrderEnqueued ==
    ASSUME Typed, Unique(pending), Orderly, Enqueue
    PROVE  Orderly'
<1>. DEFINE e == Head(calls)
            n == Len(calls)
<1>1. /\ pending \in Seq(StreamEvent) /\ calls \in Seq(StreamEvent)
      /\ pending' \in Seq(StreamEvent)
  BY TypedKept DEF Typed, StreamNext
<1>2. /\ calls # <<>> /\ calls' = Tail(calls)
      /\ UNCHANGED <<shown, status, asked, thread, watcher>>
  BY EnqueueFacts
<1>3. PICK q \in Seq(StreamEvent), m \in Nat, d \in Nat :
        PutAt(pending, e, q, m) /\ Trimmed(q, d, pending')
  BY EnqueueFacts, Zenon
<1>4. /\ e \in StreamEvent /\ e = calls[1] /\ n \in Nat \ {0} /\ DOMAIN calls = 1..n
      /\ DOMAIN calls' = 1..(n - 1) /\ \A k \in 1..(n - 1) : calls'[k] = calls[k + 1]
  BY <1>1, <1>2, Shifted
<1>. HIDE DEF e, n
<1>5. Sayable(e) /\ \A j \in DOMAIN pending : Ahead(pending[j], e)
  <2>1. 1 \in DOMAIN calls /\ calls[1] = e
    BY <1>4
  <2>. QED
    BY <2>1, Zenon DEF Orderly
<1>6. \A k \in DOMAIN pending' :
         pending'[k] = e \/ \E j \in DOMAIN pending : pending'[k] = pending[j]
  <2>1. PutAt(pending, e, q, m) /\ Trimmed(q, d, pending') /\ Unique(pending)
        /\ e \in StreamEvent
    BY <1>3, <1>4
  <2>. QED
    BY <1>1, <2>1, Queued
<1>7. InOrder(pending')
  <2>1. /\ PutAt(pending, e, q, m) /\ Trimmed(q, d, pending') /\ InOrder(pending)
        /\ e \in StreamEvent /\ e.type # "status" /\ \A j \in DOMAIN pending : Ahead(pending[j], e)
    BY <1>3, <1>4, <1>5 DEF Orderly, Sayable
  <2>. QED
    BY <1>1, <2>1, QueuedInOrder
<1>8. InOrder(calls') /\ \A k \in DOMAIN calls' :
         Sayable(calls'[k]) /\ Ahead(e, calls'[k])
         /\ \A j \in DOMAIN pending : Ahead(pending[j], calls'[k])
  <2>1. \A k \in 1..(n - 1) : k + 1 \in 1..n /\ 1 \in 1..n /\ 1 < k + 1
    BY <1>4
  <2>2. \A j, k \in 1..(n - 1) : j < k => j + 1 < k + 1
    BY <1>4
  <2>. QED
    BY <1>4, <2>1, <2>2 DEF Orderly, InOrder
<1>9. ~Quiet => /\ Ahead(e, thread.said) /\ \A j \in DOMAIN calls' : Ahead(calls'[j], thread.said)
                /\ \A j \in DOMAIN pending : Ahead(pending[j], thread.said)
  <2>1. \A k \in 1..(n - 1) : k + 1 \in 1..n
    BY <1>4
  <2>2. 1 \in 1..n
    BY <1>4
  <2>. QED
    BY <1>4, <2>1, <2>2 DEF Orderly
<1>. QED
  BY <1>2, <1>5, <1>6, <1>7, <1>8, <1>9 DEF Orderly, InOrder, Sayable, Quiet

LEMMA OrderKept ==
    ASSUME Typed, Idle, Unique(pending), Orderly, [StreamNext]_streamVars, ~CancelEvents
    PROVE  Orderly'
<1>1. ASSUME calls' = <<>>, pending' = <<>>, thread' = thread PROVE Orderly'
  BY <1>1 DEF Orderly, InOrder, Sayable, Quiet
<1>2. CASE Subscribe
  BY <1>1, <1>2 DEF Subscribe, Idle, Subscribed
<1>3. ASSUME NEW a \in {"away", "closed"}, Leaves(a) PROVE Orderly'
  BY <1>1, <1>3, LeavesFacts
<1>4. ASSUME UNCHANGED <<thread, calls, pending>> PROVE Orderly'
  BY <1>4 DEF Orderly, InOrder, Sayable, Quiet
<1>5. CASE Deliver /\ pending # <<>> /\ pending' = Tail(pending) /\ UNCHANGED <<thread, calls>>
  <2>. DEFINE n == Len(pending)
  <2>1. /\ n \in Nat \ {0} /\ DOMAIN pending = 1..n
        /\ DOMAIN pending' = 1..(n - 1) /\ \A k \in 1..(n - 1) : pending'[k] = pending[k + 1]
    BY <1>5, Shifted DEF Typed
  <2>. HIDE DEF n
  <2>2. \A k \in 1..(n - 1) : k + 1 \in 1..n
    BY <2>1
  <2>3. \A j, k \in 1..(n - 1) : j < k => j + 1 < k + 1
    BY <2>1
  <2>. QED
    BY <1>5, <2>1, <2>2, <2>3 DEF Orderly, InOrder, Sayable, Quiet
<1>6. CASE SnapshotSent \/ Deliver \/ HangUp
  BY <1>3, <1>4, <1>5, <1>6, WatcherMoves
<1>7. CASE Snapshot \/ UNCHANGED streamVars
  BY <1>4, <1>7 DEF Snapshot, streamVars
<1>. QED
  BY <1>2, <1>6, <1>7, OrderBroadcast, OrderSpoken, OrderEnqueued DEF StreamNext, Speaks
-----------------------------------------------------------------------------
(* What the events in flight about the status have to say                    *)

\* The last event in flight about the status has it, and when there is none the
\* page shows it, or is about to close.
Turns == {"human_intervention_required", "human_intervention_ended", "done"}
Tells(e) ==
    /\ e.type = "human_intervention_required" => status = "awaiting_human"
    /\ e.type = "human_intervention_ended" => status = "running"
    /\ e.type = "done" => e.status = status

StatusTold ==
    /\ Tells(thread.said)
    /\ thread.said.type \notin Turns =>
          /\ \A k \in TypedIn(calls, Turns) :
                (\A j \in TypedIn(calls, Turns) : j <= k) => Tells(calls[k])
          /\ TypedIn(calls, Turns) = {} =>
                /\ \A k \in TypedIn(pending, Turns) :
                      (\A j \in TypedIn(pending, Turns) : j <= k) => Tells(pending[k])
                /\ TypedIn(pending, Turns) = {} /\ watcher.at \in {"told", "streaming"} =>
                      watcher.status = status \/ \E k \in DOMAIN pending : pending[k] = Closed

LEMMA StatusUntold ==
    ASSUME calls' = <<>>, pending' = <<>>, watcher'.at \notin {"told", "streaming"},
           status' = status, thread'.said = thread.said \/ thread'.said = Silence, StatusTold
    PROVE  StatusTold'
<1>1. TypedIn(calls', Turns) = {} /\ TypedIn(pending', Turns) = {}
  BY DEF TypedIn
<1>2. Tells(thread.said)'
  BY DEF StatusTold, Tells, Silence
<1>. QED
  BY <1>1, <1>2 DEF StatusTold

LEMMA StatusBroadcast ==
    ASSUME Typed, Idle, StatusTold, Broadcast
    PROVE  StatusTold'
<1>1. /\ thread.said \in StreamEvent /\ thread'.said = Silence
      /\ UNCHANGED <<status, watcher, pending>>
      /\ calls' = IF Subscribed THEN calls \o <<thread.said>> ELSE calls
  BY DEF Typed, Broadcast, ToWatcher, Quiet
<1>2. CASE ~Subscribed
  <2>1. calls' = <<>> /\ pending' = <<>> /\ watcher'.at \notin {"told", "streaming"}
    BY <1>1, <1>2 DEF Idle, Subscribed
  <2>. QED
    BY <1>1, <2>1, StatusUntold
<1>3. CASE Subscribed
  <2>. DEFINE n == Len(calls)
              e == thread.said
  <2>1. calls' = Append(calls, e)
    BY <1>1, <1>3, Grown DEF Typed
  <2>2. /\ n \in Nat /\ DOMAIN calls = 1..n /\ DOMAIN calls' = 1..(n + 1)
        /\ \A k \in 1..n : calls'[k] = calls[k]
        /\ calls'[n + 1] = e
    BY <1>1, <2>1, Grown DEF Typed
  <2>. HIDE DEF e, n
  <2>3. \A x : Tells(x)' <=> Tells(x)
    BY <1>1 DEF Tells
  <2>4. Tells(thread'.said) /\ thread'.said.type \notin Turns
    BY <1>1 DEF Tells, Silence, Turns
  <2>5. CASE e.type \in Turns
    <3>1. n + 1 \in TypedIn(calls', Turns) /\ TypedIn(calls', Turns) \subseteq 1..(n + 1)
      BY <2>2, <2>5 DEF TypedIn
    <3>2. Tells(e)
      BY DEF StatusTold, e
    <3>3. ASSUME NEW k \in TypedIn(calls', Turns), \A j \in TypedIn(calls', Turns) : j <= k
          PROVE  Tells(calls'[k])
      <4>1. k = n + 1
        BY <2>2, <3>1, <3>3
      <4>. QED
        BY <2>2, <3>2, <4>1
    <3>. QED
      BY <2>3, <2>4, <3>1, <3>3 DEF StatusTold
  <2>6. CASE e.type \notin Turns
    <3>1. TypedIn(calls', Turns) = TypedIn(calls, Turns)
      BY <2>2, <2>6 DEF TypedIn
    <3>2. \A k \in TypedIn(calls, Turns) : calls'[k] = calls[k]
      BY <2>2 DEF TypedIn
    <3>3. thread.said.type \notin Turns
      BY <2>6 DEF e
    <3>. QED
      BY <1>1, <2>3, <2>4, <3>1, <3>2, <3>3 DEF StatusTold
  <2>. QED
    BY <2>5, <2>6
<1>. QED
  BY <1>2, <1>3

LEMMA StatusSpoken ==
    ASSUME Typed, StatusTold, Speaks, ~thread.cancelled
    PROVE  StatusTold'
<1>1. Quiet /\ UNCHANGED <<calls, watcher, pending, lost>>
  BY SpeaksFacts
<1>2. Tells(thread.said)' /\ (thread'.said.type \notin Turns => status' = status)
  <2>1. CASE StepStarts \/ StepEnds
    <3>1. thread'.said.type = "step" /\ status' = status
      <4>1. \E i \in Nat, s \in StepState :
              Say("running", [type |-> "step", index |-> i, step |-> s])
        <5>1. Len(shown) + 1 \in Nat /\ DOMAIN shown \subseteq Nat
          BY LenProperties DEF Typed
        <5>. QED
          BY <2>1, <5>1 DEF StepStarts, StepEnds, StepState
      <4>2. PICK i \in Nat, s \in StepState :
              Say("running", [type |-> "step", index |-> i, step |-> s])
        BY <4>1
      <4>3. thread'.said = [type |-> "step", index |-> i, step |-> s]
        BY <4>2, SayFacts
      <4>. QED
        BY <2>1, <4>3 DEF StepStarts, StepEnds
    <3>. QED
      BY <3>1 DEF Tells
  <2>2. CASE AskHuman \/ HumanEnds
    <3>1. \/ thread'.said.type = "human_intervention_required" /\ status' = "awaiting_human"
          \/ thread'.said.type = "human_intervention_ended" /\ status' = "running"
      BY <2>2, SayFacts DEF AskHuman, HumanEnds
    <3>. QED
      BY <3>1 DEF Tells, Turns
  <2>3. CASE RunDone
    <3>1. PICK s \in {"pass", "error"} :
            status' = s /\ Say("reporting", [type |-> "done", status |-> s])
      BY <2>3 DEF RunDone
    <3>2. thread'.said.type = "done" /\ thread'.said.status = status'
      BY <3>1 DEF Say, Typed
    <3>. QED
      BY <3>2 DEF Tells, Turns
  <2>4. CASE RunReports
    <3>1. \E e \in {[type |-> "report_ready"], Silence} :
            thread' = [thread EXCEPT !.at = "closing", !.said = e]
      BY <2>4 DEF RunReports, Say
    <3>2. thread'.said.type \in {"nothing", "report_ready"} /\ status' = status
      BY <2>4, <3>1 DEF RunReports, Typed, Silence
    <3>. QED
      BY <3>2 DEF Tells
  <2>5. CASE RunCloses
    <3>1. thread'.said.type = "closed" /\ status' = status
      BY <2>5 DEF RunCloses, Say, Typed, Closed
    <3>. QED
      BY <3>1 DEF Tells
  <2>. QED
    BY <2>1, <2>2, <2>3, <2>4, <2>5 DEF Speaks
<1>3. CASE thread'.said.type \in Turns
  BY <1>2, <1>3 DEF StatusTold
<1>4. CASE thread'.said.type \notin Turns
  <2>1. thread.said.type \notin Turns
    BY <1>1 DEF Quiet, Silence, Turns
  <2>2. \A x : Tells(x)' <=> Tells(x)
    BY <1>2, <1>4 DEF Tells
  <2>. QED
    BY <1>1, <1>2, <1>4, <2>1, <2>2 DEF StatusTold
<1>. QED
  BY <1>3, <1>4

\* An event that is never to be dropped goes to the end of the queue and is there
\* when one has made room.
LEMMA KeptQueued ==
    ASSUME NEW p \in Seq(StreamEvent), NEW e \in StreamEvent, NEW q \in Seq(StreamEvent),
           NEW r \in Seq(StreamEvent), NEW m \in Nat, NEW d \in Nat,
           PutAt(p, e, q, m), Trimmed(q, d, r), e.type \in NeverDrop
    PROVE  Len(r) \in DOMAIN r /\ r[Len(r)] = e
<1>1. /\ DOMAIN r = 1..Len(r)
      /\ Len(p) \in Nat /\ Len(q) \in Nat /\ Len(r) \in Nat
  BY LenProperties
<1>2. ~ \E f : SameKey(f, e)
  BY DEF SameKey, NeverDrop
<1>3. m = Len(q) /\ m \in 1..Len(q) /\ q[m] = e
  BY <1>2 DEF PutAt
<1>4. d # m
  <2>1. CASE d = 0
    BY <1>1, <1>3, <2>1
  <2>2. CASE d # 0 /\ q[d].type \notin NeverDrop
    BY <1>3, <2>2
  <2>3. CASE d # 0 /\ d = 1
    <3>1. Len(q) > Capacity
      BY <2>3 DEF Trimmed
    <3>. QED
      BY <1>1, <1>3, <2>3, <3>1, StreamAssumption
  <2>. QED
    BY <2>1, <2>2, <2>3 DEF Trimmed
<1>5. PICK k \in 1..Len(r) : From(d, k) = m
  BY <1>3, <1>4 DEF Trimmed
<1>6. r[k] = q[m]
  BY <1>5 DEF Trimmed
<1>7. k = Len(r)
  <2>1. Len(r) = IF d = 0 THEN Len(q) ELSE Len(q) - 1
    BY DEF Trimmed
  <2>2. d \in 0..Len(q)
    BY DEF Trimmed
  <2>. QED
    BY <1>1, <1>3, <1>4, <1>5, <2>1, <2>2 DEF From
<1>. QED
  BY <1>1, <1>3, <1>5, <1>6, <1>7

\* The last event about the status in r is that of p; it is gone from r only when
\* r is about to close.
Outlives(p, r) ==
    /\ \A k \in TypedIn(r, Turns) :
          (\A i \in TypedIn(r, Turns) : i <= k) =>
             \E j \in TypedIn(p, Turns) :
                r[k] = p[j] /\ \A i \in TypedIn(p, Turns) : i <= j
    /\ TypedIn(r, Turns) = {} =>
          TypedIn(p, Turns) = {} \/ \E k \in DOMAIN r : r[k] = Closed

LEMMA OtherQueued ==
    ASSUME Capacity >= 2,
           NEW p \in Seq(StreamEvent), NEW e \in StreamEvent, NEW q \in Seq(StreamEvent),
           NEW r \in Seq(StreamEvent), NEW m \in Nat, NEW d \in Nat,
           PutAt(p, e, q, m), Trimmed(q, d, r), InOrder(q), e.type \notin Turns
    PROVE  Outlives(p, r)
<1>1. /\ DOMAIN p = 1..Len(p) /\ DOMAIN q = 1..Len(q) /\ DOMAIN r = 1..Len(r)
      /\ Len(p) \in Nat /\ Len(q) \in Nat /\ Len(r) \in Nat
  BY LenProperties
<1>2. TypedIn(q, Turns) = TypedIn(p, Turns)
      /\ \A k \in TypedIn(p, Turns) : q[k] = p[k]
  <2>1. /\ q[m] = e
        /\ \A k \in 1..Len(q) : k # m => k \in 1..Len(p) /\ q[k] = p[k]
        /\ \A k \in 1..Len(p) : k # m => q[k] = p[k]
    BY DEF PutAt
  <2>2. 1..Len(p) \subseteq 1..Len(q) /\ (m \in 1..Len(p) => SameKey(p[m], e))
    <3>1. CASE m = Len(p) + 1 /\ Len(q) = Len(p) + 1
      BY <1>1, <3>1
    <3>2. CASE m \in 1..Len(p) /\ Len(q) = Len(p) /\ SameKey(p[m], e)
      BY <1>1, <3>2
    <3>. QED
      BY <3>1, <3>2 DEF PutAt
  <2>3. \A k \in TypedIn(p, Turns) : k # m
    BY <1>1, <2>2 DEF TypedIn, SameKey, Turns
  <2>. QED
    BY <1>1, <2>1, <2>2, <2>3 DEF TypedIn
<1>3. /\ \A k \in 1..Len(r) :
            From(d, k) \in 1..Len(q) /\ From(d, k) # d /\ r[k] = q[From(d, k)]
      /\ \A j \in 1..Len(q) : j # d => \E k \in 1..Len(r) : From(d, k) = j
      /\ d \in 0..Len(q)
  BY DEF Trimmed
<1>4. d # 0 /\ q[d].type \in Turns =>
         d = 1 /\ Len(q) > Capacity /\ \A k \in 1..Len(q) : q[k].type \in NeverDrop
  BY DEF Trimmed, Turns, NeverDrop
<1>5. ASSUME NEW k \in TypedIn(r, Turns), \A i \in TypedIn(r, Turns) : i <= k
      PROVE  \E j \in TypedIn(p, Turns) : r[k] = p[j] /\ \A i \in TypedIn(p, Turns) : i <= j
  <2>. DEFINE j == From(d, k)
  <2>1. k \in 1..Len(r)
    BY <1>1 DEF TypedIn
  <2>2. j \in TypedIn(q, Turns) /\ r[k] = q[j]
    BY <1>1, <1>3, <2>1 DEF TypedIn
  <2>3. ASSUME NEW i \in TypedIn(q, Turns) PROVE i <= j
    <3>1. i \in 1..Len(q) /\ j \in 1..Len(q) /\ q[i].type \in Turns
      BY <1>1, <2>2 DEF TypedIn
    <3>2. CASE i = d
      <4>1. i = 1
        BY <1>1, <1>4, <3>1, <3>2
      <4>. QED
        BY <1>1, <3>1, <4>1
    <3>3. CASE i # d
      <4>1. PICK h \in 1..Len(r) : From(d, h) = i
        BY <1>3, <3>1, <3>3
      <4>2. h \in TypedIn(r, Turns)
        BY <1>1, <1>3, <3>1, <4>1 DEF TypedIn
      <4>3. h <= k
        BY <1>5, <4>2
      <4>. QED
        BY <1>1, <2>1, <4>1, <4>3 DEF From
    <3>. QED
      BY <3>2, <3>3
  <2>. HIDE DEF j
  <2>. QED
    BY <1>2, <2>2, <2>3
<1>6. ASSUME TypedIn(r, Turns) = {}, TypedIn(p, Turns) # {}
      PROVE  \E k \in DOMAIN r : r[k] = Closed
  <2>1. \A i \in TypedIn(q, Turns) : i = d
    <3>. SUFFICES ASSUME NEW i \in TypedIn(q, Turns), i # d PROVE FALSE
      OBVIOUS
    <3>1. PICK h \in 1..Len(r) : From(d, h) = i
      BY <1>1, <1>3 DEF TypedIn
    <3>2. h \in TypedIn(r, Turns)
      BY <1>1, <1>3, <3>1 DEF TypedIn
    <3>. QED
      BY <1>6, <3>2
  <2>2. d \in TypedIn(q, Turns)
    BY <1>2, <1>6, <2>1
  <2>3. d = 1 /\ Len(q) > Capacity /\ \A k \in 1..Len(q) : q[k].type \in NeverDrop
    BY <1>1, <1>4, <2>2 DEF TypedIn
  <2>4. 2 \in 1..Len(q) /\ 3 \in 1..Len(q)
    BY <1>1, <2>3, StreamAssumption
  <2>5. q[2].type \in {"report_ready", "closed"} /\ q[3].type \in {"report_ready", "closed"}
    BY <1>1, <2>1, <2>3, <2>4 DEF TypedIn, Turns, NeverDrop
  <2>6. Ahead(q[2], q[3])
    BY <1>1, <2>4 DEF InOrder
  <2>7. q[3].type = "closed"
    BY <2>5, <2>6, Ranks DEF Ahead
  <2>8. q[3] = Closed
    <3>1. q[3] \in StreamEvent
      BY <2>4, ElementOfSeq
    <3>. QED
      BY <2>7, <3>1, Events
  <2>9. 3 # d
    BY <2>3
  <2>10. PICK k \in 1..Len(r) : From(d, k) = 3
    BY <1>3, <2>4, <2>9
  <2>. QED
    BY <1>1, <1>3, <2>8, <2>10
<1>. QED
  BY <1>5, <1>6 DEF Outlives

LEMMA StatusEnqueued ==
    ASSUME Capacity >= 2, Typed, Unique(pending), Orderly, StatusTold, Enqueue
    PROVE  StatusTold'
<1>. DEFINE e == Head(calls)
            n == Len(calls)
<1>1. /\ pending \in Seq(StreamEvent) /\ calls \in Seq(StreamEvent)
      /\ pending' \in Seq(StreamEvent)
  BY TypedKept DEF Typed, StreamNext
<1>2. /\ calls # <<>> /\ calls' = Tail(calls)
      /\ UNCHANGED <<shown, status, asked, thread, watcher>>
  BY EnqueueFacts
<1>3. PICK q \in Seq(StreamEvent), m \in Nat, d \in Nat :
        PutAt(pending, e, q, m) /\ Trimmed(q, d, pending')
  BY EnqueueFacts, Zenon
<1>4. /\ e \in StreamEvent /\ e = calls[1] /\ n \in Nat \ {0} /\ DOMAIN calls = 1..n
      /\ DOMAIN calls' = 1..(n - 1) /\ \A k \in 1..(n - 1) : calls'[k] = calls[k + 1]
  BY <1>1, <1>2, Shifted
<1>5. Sayable(e) /\ InOrder(pending) /\ \A j \in DOMAIN pending : Ahead(pending[j], e)
  BY <1>4 DEF Orderly
<1>. HIDE DEF e, n
<1>6. InOrder(q)
  <2>1. /\ PutAt(pending, e, q, m) /\ Trimmed(q, d, pending') /\ InOrder(pending)
        /\ e \in StreamEvent /\ e.type # "status" /\ \A j \in DOMAIN pending : Ahead(pending[j], e)
    BY <1>3, <1>4, <1>5 DEF Sayable
  <2>. QED
    BY <1>1, <2>1, QueuedInOrder
<1>7. \A x : Tells(x)' <=> Tells(x)
  BY <1>2 DEF Tells
<1>8. Tells(thread.said)'
  BY <1>2, <1>7 DEF StatusTold
<1>9. CASE thread.said.type \in Turns
  BY <1>2, <1>8, <1>9 DEF StatusTold
<1>10. CASE thread.said.type \notin Turns /\ TypedIn(calls', Turns) # {}
  <2>1. ASSUME NEW k \in TypedIn(calls', Turns), \A j \in TypedIn(calls', Turns) : j <= k
        PROVE  Tells(calls'[k])
    <3>1. k \in 1..(n - 1) /\ k + 1 \in TypedIn(calls, Turns) /\ calls'[k] = calls[k + 1]
      BY <1>4 DEF TypedIn
    <3>2. ASSUME NEW j \in TypedIn(calls, Turns) PROVE j <= k + 1
      <4>1. CASE j = 1
        BY <1>4, <3>1, <4>1
      <4>2. CASE j # 1
        <5>1. j - 1 \in 1..(n - 1) /\ (j - 1) + 1 = j
          BY <1>4, <4>2 DEF TypedIn
        <5>2. j - 1 \in TypedIn(calls', Turns)
          BY <1>4, <5>1 DEF TypedIn
        <5>3. j - 1 <= k
          BY <2>1, <5>2
        <5>. QED
          BY <1>4, <3>1, <5>1, <5>3
      <4>. QED
        BY <4>1, <4>2
    <3>. QED
      BY <1>10, <3>1, <3>2 DEF StatusTold
  <2>. QED
    BY <1>2, <1>7, <1>8, <1>10, <2>1 DEF StatusTold
<1>11. CASE thread.said.type \notin Turns /\ TypedIn(calls', Turns) = {} /\ e.type \in Turns
  <2>1. Tells(e)
    <3>1. ASSUME NEW j \in TypedIn(calls, Turns), j # 1 PROVE FALSE
      <4>1. j - 1 \in 1..(n - 1) /\ calls'[j - 1] = calls[j]
        BY <1>4, <3>1 DEF TypedIn
      <4>. QED
        BY <1>4, <1>11, <4>1 DEF TypedIn
    <3>2. 1 \in TypedIn(calls, Turns)
      BY <1>4, <1>11 DEF TypedIn
    <3>3. \A j \in TypedIn(calls, Turns) : j <= 1
      BY <3>1
    <3>. QED
      BY <1>4, <1>11, <3>2, <3>3 DEF StatusTold
  <2>2. Len(pending') \in DOMAIN pending' /\ pending'[Len(pending')] = e
    <3>1. PutAt(pending, e, q, m) /\ Trimmed(q, d, pending') /\ e \in StreamEvent
          /\ e.type \in NeverDrop
      BY <1>3, <1>4, <1>11 DEF Turns, NeverDrop
    <3>. QED
      BY <1>1, <3>1, KeptQueued
  <2>3. DOMAIN pending' = 1..Len(pending') /\ Len(pending') \in Nat
    BY <1>1, LenProperties
  <2>4. Len(pending') \in TypedIn(pending', Turns)
    BY <1>11, <2>2 DEF TypedIn
  <2>5. ASSUME NEW k \in TypedIn(pending', Turns), \A j \in TypedIn(pending', Turns) : j <= k
        PROVE  Tells(pending'[k])
    <3>1. k = Len(pending')
      BY <2>3, <2>4, <2>5 DEF TypedIn
    <3>. QED
      BY <2>1, <2>2, <3>1
  <2>. QED
    BY <1>2, <1>7, <1>8, <1>11, <2>4, <2>5 DEF StatusTold
<1>12. CASE thread.said.type \notin Turns /\ TypedIn(calls', Turns) = {} /\ e.type \notin Turns
  <2>1. TypedIn(calls, Turns) = {}
    <3>1. ASSUME NEW j \in TypedIn(calls, Turns) PROVE FALSE
      <4>1. j # 1
        BY <1>4, <1>12 DEF TypedIn
      <4>2. j - 1 \in 1..(n - 1) /\ calls'[j - 1] = calls[j]
        BY <1>4, <4>1 DEF TypedIn
      <4>. QED
        BY <1>4, <1>12, <4>2 DEF TypedIn
    <3>. QED
      BY <3>1
  <2>2. Outlives(pending, pending')
    <3>1. PutAt(pending, e, q, m) /\ Trimmed(q, d, pending') /\ e \in StreamEvent
          /\ e.type \notin Turns /\ InOrder(q) /\ Capacity >= 2
      BY <1>3, <1>4, <1>6, <1>12
    <3>. QED
      BY <1>1, <3>1, OtherQueued
  <2>3. ~ \E k \in DOMAIN pending : pending[k] = Closed
    <3>1. Rank(Closed) = 2 /\ Rank(e) \in 0..2
      BY Ranks DEF Closed
    <3>. QED
      BY <1>5, <3>1 DEF Ahead
  <2>. QED
    BY <1>2, <1>7, <1>8, <1>12, <2>1, <2>2, <2>3 DEF StatusTold, Outlives
<1>. QED
  BY <1>9, <1>10, <1>11, <1>12

LEMMA StatusDelivered ==
    ASSUME Typed, Orderly, StatusTold, pending # <<>>, Head(pending) # Closed,
           watcher.at = "streaming",
           watcher' = Applied(watcher, Head(pending)), pending' = Tail(pending),
           UNCHANGED <<shown, status, asked, thread, calls>>
    PROVE  StatusTold'
<1>. DEFINE e == Head(pending)
            n == Len(pending)
<1>1. /\ e \in StreamEvent /\ e = pending[1] /\ n \in Nat \ {0} /\ DOMAIN pending = 1..n
      /\ DOMAIN pending' = 1..(n - 1) /\ \A k \in 1..(n - 1) : pending'[k] = pending[k + 1]
  BY Shifted DEF Typed
<1>2. /\ e.type \in {"step", "report_ready"} => watcher'.status = watcher.status
      /\ e.type = "done" => watcher'.status = e.status
      /\ e.type = "human_intervention_required" => watcher'.status = "awaiting_human"
      /\ e.type = "human_intervention_ended" => watcher'.status = "running"
  BY <1>1, AppliedFacts
<1>3. e.type \in {"step", "report_ready"} \/ e.type \in Turns
  <2>1. e.type # "status"
    BY <1>1 DEF Orderly, Sayable
  <2>. QED
    BY <1>1, <2>1, Events DEF NeverDrop, Turns
<1>. HIDE DEF n
<1>4. \A x : Tells(x)' <=> Tells(x)
  BY DEF Tells
<1>5. CASE thread.said.type \in Turns \/ TypedIn(calls, Turns) # {}
  BY <1>4, <1>5 DEF StatusTold
<1>6. CASE thread.said.type \notin Turns /\ TypedIn(calls, Turns) = {}
  <2>1. \A k \in 1..(n - 1) : k \in TypedIn(pending', Turns) <=> k + 1 \in TypedIn(pending, Turns)
    BY <1>1 DEF TypedIn
  <2>2. ASSUME NEW k \in TypedIn(pending', Turns), \A j \in TypedIn(pending', Turns) : j <= k
        PROVE  Tells(pending'[k])
    <3>1. k \in 1..(n - 1) /\ k + 1 \in TypedIn(pending, Turns) /\ pending'[k] = pending[k + 1]
      BY <1>1, <2>1 DEF TypedIn
    <3>2. ASSUME NEW j \in TypedIn(pending, Turns) PROVE j <= k + 1
      <4>1. CASE j = 1
        BY <1>1, <3>1, <4>1
      <4>2. CASE j # 1
        <5>1. j - 1 \in 1..(n - 1) /\ (j - 1) + 1 = j
          BY <1>1, <4>2 DEF TypedIn
        <5>2. j - 1 <= k
          BY <2>1, <2>2, <5>1
        <5>. QED
          BY <1>1, <3>1, <5>1, <5>2
      <4>. QED
        BY <4>1, <4>2
    <3>. QED
      BY <1>6, <3>1, <3>2 DEF StatusTold
  <2>3. ASSUME TypedIn(pending', Turns) = {}
        PROVE  watcher'.status = status \/ \E k \in DOMAIN pending' : pending'[k] = Closed
    <3>1. ASSUME NEW j \in TypedIn(pending, Turns) PROVE j = 1
      <4>1. CASE j # 1
        <5>1. j - 1 \in 1..(n - 1) /\ (j - 1) + 1 = j
          BY <1>1, <4>1 DEF TypedIn
        <5>. QED
          BY <2>1, <2>3, <5>1
      <4>. QED
        BY <4>1
    <3>2. CASE e.type \in Turns
      <4>1. 1 \in TypedIn(pending, Turns)
        BY <1>1, <3>2 DEF TypedIn
      <4>2. \A j \in TypedIn(pending, Turns) : j <= 1
        BY <3>1
      <4>3. Tells(e)
        BY <1>1, <1>6, <4>1, <4>2 DEF StatusTold
      <4>. QED
        BY <1>2, <3>2, <4>3 DEF Tells, Turns
    <3>3. CASE e.type \notin Turns
      <4>1. TypedIn(pending, Turns) = {}
        BY <1>1, <3>1, <3>3 DEF TypedIn
      <4>2. watcher.status = status \/ \E k \in DOMAIN pending : pending[k] = Closed
        BY <1>6, <4>1 DEF StatusTold
      <4>3. ASSUME NEW k \in DOMAIN pending, pending[k] = Closed
            PROVE  \E j \in DOMAIN pending' : pending'[j] = Closed
        <5>1. k - 1 \in 1..(n - 1) /\ (k - 1) + 1 = k
          BY <1>1, <4>3
        <5>. QED
          BY <1>1, <4>3, <5>1
      <4>. QED
        BY <1>2, <1>3, <3>3, <4>2, <4>3
    <3>. QED
      BY <3>2, <3>3
  <2>. QED
    BY <1>4, <1>6, <2>2, <2>3 DEF StatusTold
<1>. QED
  BY <1>5, <1>6

LEMMA StatusKept ==
    ASSUME Capacity >= 2, Typed, Idle, Unique(pending), Orderly, StatusTold,
           [StreamNext]_streamVars, ~CancelEvents, ~thread.cancelled
    PROVE  StatusTold'
<1>1. CASE Subscribe
  <2>1. calls' = <<>> /\ pending' = <<>> /\ watcher'.at = "subscribed"
        /\ UNCHANGED <<status, thread>>
    BY <1>1 DEF Subscribe, Idle, Subscribed, Away
  <2>. QED
    BY <2>1, StatusUntold
<1>2. CASE Snapshot
  <2>1. watcher'.status = status /\ UNCHANGED <<status, thread, calls, pending>>
    BY <1>2 DEF Snapshot, Typed
  <2>. QED
    BY <2>1 DEF StatusTold, Tells
<1>3. ASSUME NEW a \in {"away", "closed"}, Leaves(a) PROVE StatusTold'
  BY <1>3, LeavesFacts, StatusUntold
<1>4. CASE /\ watcher.at = "told" /\ watcher' = [watcher EXCEPT !.at = "streaming"]
           /\ UNCHANGED <<shown, status, asked, thread, calls, pending, lost>>
  <2>1. watcher'.status = watcher.status
    BY <1>4 DEF Typed
  <2>. QED
    BY <1>4, <2>1 DEF StatusTold, Tells
<1>5. CASE SnapshotSent \/ Deliver \/ HangUp
  BY <1>3, <1>4, <1>5, WatcherMoves, StatusDelivered
<1>6. CASE UNCHANGED streamVars
  BY <1>6 DEF StatusTold, Tells, streamVars
<1>. QED
  BY <1>1, <1>2, <1>5, <1>6, StatusBroadcast, StatusSpoken, StatusEnqueued
     DEF StreamNext, Speaks
-----------------------------------------------------------------------------
(* The end of the run                                                        *)

\* A run that is over has its final status, unless a cancel had given it one.
Over == thread.at # "running" /\ status \in Active => thread.cancelled

\* "closed" is the last event of a run, and stays the last on its way.
Ends(q) == q # <<>> /\ q[Len(q)] = Closed
Closes ==
    watcher.at = "streaming" /\ thread.at = "ended" /\ status \notin Active =>
        \/ thread.said = Closed
        \/ Quiet /\ Ends(calls)
        \/ Quiet /\ calls = <<>> /\ Ends(pending)

LEMMA OverKept ==
    ASSUME Typed, Over, [StreamNext]_streamVars
    PROVE  Over'
<1>1. CASE StepStarts \/ StepEnds \/ AskHuman \/ HumanEnds
  <2>1. \E e : Say("running", e)
    BY <1>1 DEF StepStarts, StepEnds, AskHuman, HumanEnds
  <2>. QED
    BY <2>1, SayFacts DEF Over
<1>2. CASE RunDone
  <2>1. CASE thread.cancelled
    BY <1>2, <2>1, SayFacts DEF RunDone, Over
  <2>2. CASE ~thread.cancelled
    BY <1>2, <2>2 DEF RunDone, Over, Active
  <2>. QED
    BY <2>1, <2>2
<1>3. CASE RunReports \/ RunCloses
  <2>1. /\ thread.at # "running" /\ status' = status
        /\ \E p \in Stage, e \in StreamEvent \cup {Silence} : Say(p, e)
    BY <1>3, Spoken, Events DEF RunReports, RunCloses, Stage
  <2>2. thread'.cancelled = thread.cancelled
    BY <2>1, SayFacts
  <2>. QED
    BY <2>1, <2>2 DEF Over
<1>4. CASE CancelEvents
  BY <1>4 DEF CancelEvents, Over, Active
<1>5. CASE Broadcast
  BY <1>5 DEF Broadcast, Over, Typed
<1>6. CASE Enqueue \/ Subscribe \/ Snapshot \/ SnapshotSent \/ Deliver \/ HangUp
           \/ UNCHANGED streamVars
  BY <1>6 DEF Enqueue, Subscribe, Snapshot, SnapshotSent, Deliver, HangUp, streamVars, Over
<1>. QED
  BY <1>1, <1>2, <1>3, <1>4, <1>5, <1>6 DEF StreamNext

LEMMA ClosesEnqueued ==
    ASSUME Typed, Unique(pending), Closes, Enqueue
    PROVE  Closes'
<1>. DEFINE e == Head(calls)
            n == Len(calls)
<1>1. /\ pending \in Seq(StreamEvent) /\ calls \in Seq(StreamEvent)
      /\ pending' \in Seq(StreamEvent) /\ calls' \in Seq(StreamEvent)
  BY TypedKept DEF Typed, StreamNext
<1>2. /\ calls # <<>> /\ calls' = Tail(calls)
      /\ UNCHANGED <<shown, status, asked, thread, watcher>>
  BY EnqueueFacts
<1>3. PICK q \in Seq(StreamEvent), m \in Nat, d \in Nat :
        PutAt(pending, e, q, m) /\ Trimmed(q, d, pending')
  BY EnqueueFacts, Zenon
<1>4. /\ e \in StreamEvent /\ e = calls[1] /\ n \in Nat \ {0} /\ Len(calls') = n - 1
      /\ \A k \in 1..(n - 1) : calls'[k] = calls[k + 1]
  BY <1>1, <1>2, Shifted
<1>. HIDE DEF e
<1>5. CASE Ends(calls) /\ n = 1
  <2>1. e = Closed /\ e.type \in NeverDrop /\ calls' = <<>>
    BY <1>1, <1>4, <1>5, EmptySeq DEF Ends, Closed, NeverDrop
  <2>2. Len(pending') \in DOMAIN pending' /\ pending'[Len(pending')] = e
    BY <1>1, <1>3, <1>4, <2>1, KeptQueued
  <2>3. Ends(pending')
    BY <2>1, <2>2 DEF Ends
  <2>. QED
    BY <1>2, <2>1, <2>3 DEF Closes, Quiet, Ends
<1>6. CASE Ends(calls) /\ n # 1
  <2>1. n - 1 \in 1..(n - 1) /\ (n - 1) + 1 = n
    BY <1>4, <1>6
  <2>2. calls'[n - 1] = Closed
    BY <1>4, <1>6, <2>1 DEF Ends
  <2>3. calls' # <<>>
    BY <1>4, <2>1
  <2>. QED
    BY <1>2, <1>4, <2>2, <2>3 DEF Closes, Quiet, Ends
<1>7. CASE ~Ends(calls)
  BY <1>2, <1>7 DEF Closes, Quiet
<1>. QED
  BY <1>5, <1>6, <1>7

LEMMA ClosesKept ==
    ASSUME Typed, Unique(pending), Over, Closes, [StreamNext]_streamVars
    PROVE  Closes'
<1>1. CASE StepStarts \/ StepEnds \/ AskHuman \/ HumanEnds \/ RunDone \/ RunReports
  <2>1. \E p \in {"running", "reporting", "closing"} : \E e : Say(p, e)
    BY <1>1 DEF StepStarts, StepEnds, AskHuman, HumanEnds, RunDone, RunReports
  <2>. QED
    BY <2>1, SayFacts DEF Closes
<1>2. CASE RunCloses
  <2>1. Say("ended", Closed)
    BY <1>2 DEF RunCloses
  <2>2. thread'.said = Closed
    BY <2>1, SayFacts
  <2>. QED
    BY <2>2 DEF Closes
<1>3. CASE CancelEvents
  <2>1. thread.at = "running" /\ thread'.at = thread.at
    BY <1>3 DEF CancelEvents, Over, Typed
  <2>. QED
    BY <2>1 DEF Closes
<1>4. CASE Broadcast
  <2>1. /\ thread.said \in StreamEvent /\ ~Quiet /\ Quiet' /\ thread'.at = thread.at
        /\ UNCHANGED <<status, watcher>>
        /\ calls' = IF Subscribed THEN calls \o <<thread.said>> ELSE calls
    BY <1>4 DEF Broadcast, ToWatcher, Quiet, Typed
  <2>2. CASE thread.said = Closed /\ watcher.at = "streaming"
    <3>1. calls' = Append(calls, Closed)
      BY <2>1, <2>2, Grown DEF Subscribed, Typed
    <3>2. Len(calls') = Len(calls) + 1 /\ calls'[Len(calls) + 1] = Closed /\ Len(calls) \in Nat
      BY <2>1, <2>2, <3>1, Grown DEF Typed
    <3>3. calls' # <<>>
      BY <3>2
    <3>. QED
      BY <2>1, <3>2, <3>3 DEF Closes, Ends
  <2>3. CASE thread.said # Closed \/ watcher.at # "streaming"
    BY <2>1, <2>3 DEF Closes
  <2>. QED
    BY <2>2, <2>3
<1>5. CASE Subscribe \/ Snapshot
  BY <1>5 DEF Subscribe, Snapshot, Closes, Away, Typed
<1>6. ASSUME NEW a \in {"away", "closed"}, Leaves(a) PROVE Closes'
  BY <1>6, LeavesFacts DEF Closes
<1>7. CASE status \in Active /\ UNCHANGED status
  BY <1>7 DEF Closes
<1>8. CASE /\ pending # <<>> /\ Head(pending) # Closed /\ watcher.at = "streaming"
           /\ pending' = Tail(pending) /\ UNCHANGED <<status, thread, calls>>
  <2>. DEFINE n == Len(pending)
  <2>1. /\ Head(pending) = pending[1] /\ n \in Nat \ {0} /\ Len(pending') = n - 1
        /\ \A k \in 1..(n - 1) : pending'[k] = pending[k + 1]
    BY <1>8, Shifted DEF Typed
  <2>2. CASE Ends(pending)
    <3>1. n - 1 \in 1..(n - 1) /\ (n - 1) + 1 = n
      BY <1>8, <2>1, <2>2 DEF Ends
    <3>2. pending'[n - 1] = Closed
      BY <2>1, <2>2, <3>1 DEF Ends
    <3>3. pending' # <<>>
      BY <2>1, <3>1
    <3>. QED
      BY <1>8, <2>1, <3>2, <3>3 DEF Closes, Quiet, Ends
  <2>3. CASE ~Ends(pending)
    BY <1>8, <2>3 DEF Closes, Quiet, Ends
  <2>. QED
    BY <2>2, <2>3
<1>9. CASE SnapshotSent \/ Deliver \/ HangUp
  BY <1>6, <1>7, <1>8, <1>9, WatcherMoves
<1>10. CASE UNCHANGED streamVars
  BY <1>10 DEF streamVars, Closes, Quiet, Ends
<1>. QED
  BY <1>1, <1>2, <1>3, <1>4, <1>5, <1>9, <1>10, ClosesEnqueued DEF StreamNext

-----------------------------------------------------------------------------
(* The theorems                                                              *)

\* What holds for a queue of any capacity
Watched == Typed /\ Idle /\ StepsTold /\ Over /\ Closes

\* What is known of the status until a cancel
Told == ~thread.cancelled => Orderly /\ StatusTold

LEMMA WatchedFirst == ASSUME StreamInit PROVE Watched /\ Told
<1>1. <<>> \in Seq(StepState) /\ <<>> \in Seq(StreamEvent)
      /\ <<>> \in Seq(StepState \cup {"missing"}) /\ Len(<<>>) = 0 /\ DOMAIN <<>> = {}
  OBVIOUS
<1>2. Typed
  BY <1>1, StreamAssumption
     DEF StreamInit, Typed, Away, Shown, Active, Stage
<1>3. Idle /\ StepsTold /\ Over /\ Closes
  BY <1>1 DEF StreamInit, Idle, StepsTold, Unique, Over, Closes, Away
<1>4. Sayable(Silence) /\ Tells(Silence)
  BY Ranks DEF Sayable, Tells, Silence, StreamInit
<1>5. Orderly /\ StatusTold
  BY <1>1, <1>4 DEF StreamInit, Orderly, StatusTold, InOrder, Quiet, TypedIn, Away
<1>. QED
  BY <1>2, <1>3, <1>5 DEF Watched, Told

LEMMA WatchedKept == ASSUME Watched, [StreamNext]_streamVars PROVE Watched'
<1>1. Unique(pending)
  BY DEF Watched, StepsTold
<1>. QED
  BY <1>1, TypedKept, IdleKept, StepsKept, OverKept, ClosesKept DEF Watched

LEMMA ToldKept ==
    ASSUME Capacity >= 2, Watched, Told, [StreamNext]_streamVars
    PROVE  Told'
<1>1. CASE CancelEvents
  <2>1. thread'.cancelled
    BY <1>1 DEF CancelEvents, Watched, Typed
  <2>. QED
    BY <2>1 DEF Told
<1>2. CASE thread'.cancelled
  BY <1>2 DEF Told
<1>3. CASE ~CancelEvents /\ ~thread'.cancelled
  <2>1. thread'.cancelled = thread.cancelled
    <3>1. CASE Speaks
      <4>1. PICK p \in Stage, e \in StreamEvent \cup {Silence} :
               thread' = [thread EXCEPT !.at = p, !.said = e]
        BY <3>1, SpeaksFacts DEF Watched
      <4>. QED
        BY <4>1 DEF Watched, Typed
    <3>2. CASE Broadcast
      BY <3>2 DEF Broadcast, Watched, Typed
    <3>3. CASE ~Speaks /\ ~Broadcast
      BY <1>3, <3>3 DEF StreamNext, Speaks, Enqueue, Subscribe, Snapshot, SnapshotSent, Deliver,
                        HangUp, streamVars
    <3>. QED
      BY <3>1, <3>2, <3>3
  <2>2. ~thread.cancelled /\ Orderly /\ StatusTold /\ Unique(pending)
    BY <1>3, <2>1 DEF Told, Watched, StepsTold
  <2>. QED
    BY <1>3, <2>2, OrderKept, StatusKept DEF Told, Watched
<1>. QED
  BY <1>1, <1>2, <1>3

LEMMA Caught == ASSUME Watched, Told PROVE PageCatchesUp
<1>. SUFFICES ASSUME watcher.at = "streaming", Quiet, calls = <<>>, pending = <<>>
              PROVE  /\ \A i \in DOMAIN shown :
                          i \in lost \/ (i <= Len(watcher.steps) /\ watcher.steps[i] = shown[i])
                     /\ thread.cancelled \/ watcher.status = status
  BY DEF PageCatchesUp
<1>1. ASSUME NEW i \in DOMAIN shown
      PROVE  i \in lost \/ (i <= Len(watcher.steps) /\ watcher.steps[i] = shown[i])
  <2>1. StepTold(i)
    BY DEF Watched, StepsTold
  <2>2. ~About(thread.said, i) /\ AboutIn(calls, i) = {} /\ AboutIn(pending, i) = {}
    BY DEF Quiet, About, AboutIn, Silence
  <2>. QED
    BY <2>1, <2>2 DEF StepTold
<1>2. CASE ~thread.cancelled
  <2>1. StatusTold
    BY <1>2 DEF Told
  <2>2. /\ thread.said.type \notin Turns /\ TypedIn(calls, Turns) = {}
        /\ TypedIn(pending, Turns) = {} /\ ~ \E k \in DOMAIN pending : TRUE
    BY DEF Quiet, TypedIn, Silence, Turns
  <2>3. watcher.status = status
    BY <2>1, <2>2 DEF StatusTold
  <2>. QED
    BY <1>1, <2>3
<1>. QED
  BY <1>1, <1>2

LEMMA ToldToClose == ASSUME Watched PROVE CloseReachesThePage
<1>. SUFFICES ASSUME watcher.at = "streaming", thread.at = "ended", Quiet, calls = <<>>,
                     status \notin Active
              PROVE  Closed \in ToSet(pending)
  BY DEF CloseReachesThePage
<1>1. thread.said # Closed
  BY DEF Quiet, Closed, Silence
<1>2. Ends(pending)
  BY <1>1 DEF Watched, Closes, Ends
<1>3. Len(pending) \in DOMAIN pending
  BY <1>2, LenProperties, EmptySeq DEF Watched, Typed, Ends
<1>. QED
  BY <1>2, <1>3 DEF Ends, ToSet

\* A page that has seen all there is to see shows the run: every step whose event
\* was not trimmed, and its status until a cancel.  A queue of one event may lose
\* the final status to the report that follows it.
THEOREM PageShowsTheRun ==
    ASSUME Capacity >= 2
    PROVE  StreamSpec => []PageCatchesUp
<1>1. StreamInit => Watched /\ Told
  BY WatchedFirst
<1>2. Watched /\ Told /\ [StreamNext]_streamVars => (Watched /\ Told)'
  BY WatchedKept, ToldKept
<1>3. Watched /\ Told => PageCatchesUp
  BY Caught
<1>. QED
  BY <1>1, <1>2, <1>3, PTL DEF StreamSpec

\* The page that streams a run that is over has "closed" in its queue, whatever
\* was trimmed.
THEOREM PageIsClosed == StreamSpec => []CloseReachesThePage
<1>1. StreamInit => Watched
  BY WatchedFirst
<1>2. Watched /\ [StreamNext]_streamVars => Watched'
  BY WatchedKept
<1>3. Watched => CloseReachesThePage
  BY ToldToClose
<1>. QED
  BY <1>1, <1>2, <1>3, PTL DEF StreamSpec

-----------------------------------------------------------------------------
(* HumanControl                                                              *)

-----------------------------------------------------------------------------
(* The human's actions in a history p and a buffer b                         *)

Mine(p) == {i \in DOMAIN p : p[i][1] = "h"}

\* The human has done 1..n: what is left of that is in order, and all of it if
\* whole.
Kept(p, b, n, whole) ==
    /\ \A i \in Mine(p) : p[i][2] <= n
    /\ \A k \in DOMAIN b : b[k] <= n
    /\ \A i, j \in Mine(p) : i < j => p[i][2] < p[j][2]
    /\ \A k, l \in DOMAIN b : k < l => b[k] < b[l]
    /\ \A i \in Mine(p), k \in DOMAIN b : p[i][2] < b[k]
    /\ whole => \A m \in 1..n : \/ \E i \in Mine(p) : p[i][2] = m
                                \/ \E k \in DOMAIN b : b[k] = m

Human(b) == [i \in DOMAIN b |-> <<"h", b[i]>>]

\* What Human makes of a buffer is a piece of history.
LEMMA HumanEntries ==
    ASSUME NEW b \in Seq(Nat)
    PROVE  /\ Human(b) \in Seq(Entry) /\ Len(Human(b)) = Len(b)
           /\ \A i \in 1..Len(b) : Human(b)[i] = <<"h", b[i]>>
<1>1. DOMAIN b = 1..Len(b) /\ Len(b) \in Nat /\ \A i \in 1..Len(b) : b[i] \in Nat
  BY LenProperties, ElementOfSeq
<1>2. Human(b) \in [1..Len(b) -> Entry]
  BY <1>1 DEF Human, Entry
<1>3. Human(b) \in Seq(Entry)
  BY <1>1, <1>2, SeqDef
<1>4. Len(Human(b)) = Len(b)
  BY <1>1, <1>2, <1>3, LenProperties DEF Human
<1>. QED
  BY <1>1, <1>3, <1>4 DEF Human

\* A flush moves the buffer to the end of the history.
LEMMA KeptByFlush ==
    ASSUME NEW p \in Seq(Entry), NEW b \in Seq(Nat), NEW n \in Nat, NEW w \in BOOLEAN,
           Kept(p, b, n, w)
    PROVE  p \o Human(b) \in Seq(Entry) /\ Kept(p \o Human(b), <<>>, n, w)
<1>. DEFINE q == p \o Human(b)
            P == Len(p)
            B == Len(b)
<1>1. DOMAIN p = 1..P /\ P \in Nat /\ DOMAIN b = 1..B /\ B \in Nat
  BY LenProperties
<1>2. /\ Human(b) \in Seq(Entry) /\ Len(Human(b)) = B
      /\ \A i \in 1..B : Human(b)[i] = <<"h", b[i]>>
  BY HumanEntries
<1>3. q \in Seq(Entry) /\ Len(q) = P + B
  <2>1. q \in Seq(Entry) /\ Len(q) = Len(p) + Len(Human(b))
    BY <1>2, ConcatProperties, Zenon
  <2>. QED
    BY <1>2, <2>1
<1>4. DOMAIN q = 1..(P + B)
  BY <1>3, LenProperties
<1>5. \A i \in 1..(P + B) : q[i] = IF i <= P THEN p[i] ELSE Human(b)[i - P]
  BY <1>2, ConcatProperties
<1>6. \A i \in 1..P : q[i] = p[i] /\ (i \in Mine(q) <=> i \in Mine(p))
  <2>. TAKE i \in 1..P
  <2>1. i \in 1..(P + B) /\ i <= P
    BY <1>1
  <2>2. q[i] = p[i]
    BY <1>5, <2>1
  <2>. QED
    BY <1>1, <1>4, <2>1, <2>2 DEF Mine
<1>7. \A k \in 1..B : P + k \in Mine(q) /\ q[P + k][2] = b[k]
  <2>. TAKE k \in 1..B
  <2>1. P + k \in 1..(P + B) /\ ~(P + k <= P) /\ (P + k) - P = k
    BY <1>1
  <2>2. q[P + k] = <<"h", b[k]>>
    BY <1>2, <1>5, <2>1
  <2>. QED
    BY <1>4, <2>1, <2>2 DEF Mine
<1>8. \A i \in Mine(q) : i \in Mine(p) \/ \E k \in 1..B : i = P + k
  <2>. TAKE i \in Mine(q)
  <2>1. i \in 1..(P + B)
    BY <1>4 DEF Mine
  <2>2. CASE i <= P
    BY <1>1, <1>6, <2>1, <2>2
  <2>3. CASE ~(i <= P)
    <3>1. i - P \in 1..B /\ i = P + (i - P)
      BY <1>1, <2>1, <2>3
    <3>. QED
      BY <3>1
  <2>. QED
    BY <2>2, <2>3
<1>9. Mine(p) \subseteq 1..P
  BY <1>1 DEF Mine
<1>10. \A i \in Mine(q) : q[i][2] <= n
  <2>1. \A i \in Mine(p) : q[i][2] <= n
    BY <1>6, <1>9 DEF Kept
  <2>2. \A k \in 1..B : q[P + k][2] <= n
    BY <1>1, <1>7 DEF Kept
  <2>. QED
    BY <1>8, <2>1, <2>2
<1>11. \A i, j \in Mine(q) : i < j => q[i][2] < q[j][2]
  <2>. SUFFICES ASSUME NEW i \in Mine(q), NEW j \in Mine(q), i < j
                PROVE  q[i][2] < q[j][2]
    OBVIOUS
  <2>1. CASE i \in Mine(p) /\ j \in Mine(p)
    <3>1. q[i] = p[i] /\ q[j] = p[j]
      BY <1>6, <1>9, <2>1
    <3>2. p[i][2] < p[j][2]
      BY <2>1 DEF Kept
    <3>. QED
      BY <3>1, <3>2
  <2>2. CASE i \in Mine(p) /\ \E k \in 1..B : j = P + k
    <3>1. PICK k \in 1..B : j = P + k
      BY <2>2
    <3>2. q[i] = p[i] /\ q[j][2] = b[k]
      BY <1>6, <1>7, <1>9, <2>2, <3>1
    <3>3. p[i][2] < b[k]
      BY <1>1, <2>2 DEF Kept
    <3>. QED
      BY <3>2, <3>3
  <2>3. CASE (\E k \in 1..B : i = P + k) /\ j \in Mine(p)
    BY <1>1, <1>9, <2>3
  <2>4. CASE (\E k \in 1..B : i = P + k) /\ \E k \in 1..B : j = P + k
    <3>1. PICK k \in 1..B, l \in 1..B : i = P + k /\ j = P + l
      BY <2>4
    <3>2. k < l
      BY <1>1, <3>1
    <3>3. q[i][2] = b[k] /\ q[j][2] = b[l]
      BY <1>7, <3>1
    <3>4. b[k] < b[l]
      BY <1>1, <3>2 DEF Kept
    <3>. QED
      BY <3>3, <3>4
  <2>5. i \in Mine(p) \/ \E k \in 1..B : i = P + k
    BY <1>8
  <2>6. j \in Mine(p) \/ \E k \in 1..B : j = P + k
    BY <1>8
  <2>. QED
    BY <2>1, <2>2, <2>3, <2>4, <2>5, <2>6, Zenon
<1>12. w => \A m \in 1..n : \E i \in Mine(q) : q[i][2] = m
  <2>. SUFFICES ASSUME w, NEW m \in 1..n
                PROVE  \E i \in Mine(q) : q[i][2] = m
    OBVIOUS
  <2>1. (\E i \in Mine(p) : p[i][2] = m) \/ \E k \in 1..B : b[k] = m
    BY <1>1 DEF Kept
  <2>2. ASSUME NEW i \in Mine(p), p[i][2] = m
        PROVE  i \in Mine(q) /\ q[i][2] = m
    BY <1>6, <1>9, <2>2
  <2>3. ASSUME NEW k \in 1..B, b[k] = m
        PROVE  P + k \in Mine(q) /\ q[P + k][2] = m
    BY <1>7, <2>3
  <2>. QED
    BY <2>1, <2>2, <2>3
<1>13. Kept(q, <<>>, n, w)
  <2>1. DOMAIN <<>> = {}
    OBVIOUS
  <2>. QED
    BY <1>10, <1>11, <1>12, <2>1 DEF Kept
<1>. QED
  BY <1>3, <1>13

\* What is kept is still in order when some of it was lost.
LEMMA KeptInPart ==
    ASSUME NEW p, NEW b, NEW n, NEW w, Kept(p, b, n, w)
    PROVE  Kept(p, b, n, FALSE) /\ Kept(p, <<>>, n, FALSE)
BY DEF Kept

\* The human's next action is recorded last.
LEMMA KeptByAct ==
    ASSUME NEW p \in Seq(Entry), NEW b \in Seq(Nat), NEW n \in Nat, NEW w \in BOOLEAN,
           Kept(p, b, n, w)
    PROVE  Append(b, n + 1) \in Seq(Nat) /\ Kept(p, Append(b, n + 1), n + 1, w)
<1>. DEFINE c == Append(b, n + 1)
            B == Len(b)
<1>1. DOMAIN b = 1..B /\ B \in Nat /\ \A k \in 1..B : b[k] \in Nat
  BY LenProperties, ElementOfSeq
<1>2. c \in Seq(Nat) /\ Len(c) = B + 1 /\ (\A k \in 1..B : c[k] = b[k]) /\ c[B + 1] = n + 1
  BY AppendProperties
<1>3. DOMAIN c = 1..(B + 1)
  BY <1>2, LenProperties
<1>4. \A i \in Mine(p) : p[i] \in Entry
  BY ElementOfSeq, LenProperties DEF Mine
<1>5. \A i \in Mine(p) : p[i][2] \in Nat
  BY <1>4 DEF Entry
<1>6. \A k \in DOMAIN c : k \in 1..B \/ k = B + 1
  BY <1>1, <1>3
<1>7. (\A i \in Mine(p) : p[i][2] <= n + 1) /\ \A k \in DOMAIN c : c[k] <= n + 1
  BY <1>1, <1>2, <1>5, <1>6 DEF Kept
<1>8. \A k, l \in DOMAIN c : k < l => c[k] < c[l]
  BY <1>1, <1>2, <1>3, <1>6 DEF Kept
<1>9. \A i \in Mine(p), k \in DOMAIN c : p[i][2] < c[k]
  BY <1>1, <1>2, <1>5, <1>6 DEF Kept
<1>10. w => \A m \in 1..(n + 1) : \/ \E i \in Mine(p) : p[i][2] = m
                                  \/ \E k \in DOMAIN c : c[k] = m
  <2>. SUFFICES ASSUME w, NEW m \in 1..(n + 1)
                PROVE  (\E i \in Mine(p) : p[i][2] = m) \/ \E k \in DOMAIN c : c[k] = m
    OBVIOUS
  <2>1. CASE m = n + 1
    <3>1. B + 1 \in DOMAIN c
      BY <1>1, <1>3
    <3>. QED BY <1>2, <2>1, <3>1, Zenon
  <2>2. CASE m # n + 1
    <3>1. m \in 1..n
      BY <2>2
    <3>2. (\E i \in Mine(p) : p[i][2] = m) \/ \E k \in 1..B : b[k] = m
      BY <1>1, <3>1 DEF Kept
    <3>3. \A k \in 1..B : k \in DOMAIN c /\ c[k] = b[k]
      BY <1>1, <1>2, <1>3
    <3>. QED BY <3>2, <3>3, Zenon
  <2>. QED
    BY <2>1, <2>2
<1>11. \A i, j \in Mine(p) : i < j => p[i][2] < p[j][2]
  BY DEF Kept
<1>12. Kept(p, c, n + 1, w)
  BY <1>7, <1>8, <1>9, <1>10, <1>11 DEF Kept
<1>. QED
  BY <1>2, <1>12

\* What the agent did is no action of the human.
LEMMA KeptByAgent ==
    ASSUME NEW p \in Seq(Entry), NEW b, NEW n, NEW w, Kept(p, b, n, w), NEW m \in Nat
    PROVE  /\ Append(p, <<"a", m>>) \in Seq(Entry)
           /\ Kept(Append(p, <<"a", m>>), b, n, w)
<1>. DEFINE q == Append(p, <<"a", m>>)
            P == Len(p)
<1>1. DOMAIN p = 1..P /\ P \in Nat /\ <<"a", m>> \in Entry
  BY LenProperties DEF Entry
<1>2. q \in Seq(Entry) /\ Len(q) = P + 1 /\ (\A i \in 1..P : q[i] = p[i]) /\ q[P + 1] = <<"a", m>>
  BY <1>1, AppendProperties
<1>3. DOMAIN q = 1..(P + 1)
  BY <1>2, LenProperties
<1>4. Mine(q) = Mine(p)
  <2>1. ASSUME NEW i \in Mine(q) PROVE i \in Mine(p)
    <3>1. i \in 1..P \/ i = P + 1
      BY <1>1, <1>3 DEF Mine
    <3>2. q[P + 1][1] # "h"
      BY <1>2
    <3>. QED
      BY <1>1, <1>2, <3>1, <3>2 DEF Mine
  <2>2. ASSUME NEW i \in Mine(p) PROVE i \in Mine(q)
    BY <1>1, <1>2, <1>3 DEF Mine
  <2>. QED
    BY <2>1, <2>2
<1>5. \A i \in Mine(p) : q[i] = p[i]
  BY <1>1, <1>2 DEF Mine
<1>6. Kept(q, b, n, w)
  BY <1>4, <1>5, Zenon DEF Kept
<1>. QED
  BY <1>2, <1>6

-----------------------------------------------------------------------------
(* What the run thread is at                                                 *)

Turning == [step : 0..(MaxSteps - 1), nSteps : Nat,
            failures : 0..(MaxFailures - 1), planDone : BOOLEAN]
Ghosts == [human : Nat, agent : Nat, faults : Nat]

\* The points where the batch of this step may be done
Late == \/ at \in {"settle", "stuck", "criteria", "grading", "leaving", "over"}
        \/ at = "plan" /\ then \in {"confirm", "recover"}
        \/ at \in {"gate", "stopping", "held", "drain"} /\ then = "iterate"

\* _should_stop has a point to return to, and a step acts at most once.
Turned ==
    /\ at \in LoopAt /\ then \in Goal /\ outcome \in Outcome /\ turn \in Turning
    /\ at \in {"gate", "stopping", "held", "drain"} => then \in {"before", "nav", "iterate"}
    /\ at = "plan" => then \in {"loop", "confirm", "recover"}
    /\ done.agent <= IF Late THEN turn.step + 1 ELSE turn.step
    /\ turn.nSteps <= done.agent
    /\ at = "settle" => turn.nSteps < done.agent

LEMMA TurnNumbers ==
    ASSUME NEW t \in Turning
    PROVE  /\ t.step \in Nat /\ t.step + 1 <= MaxSteps
           /\ t.nSteps \in Nat
           /\ t.failures \in Nat /\ t.failures + 1 <= MaxFailures
           /\ t.planDone \in BOOLEAN
BY HumanAssumption DEF Turning

\* Leaving is always in order.
LEMMA LeaveTurned ==
    ASSUME Turned, NEW o \in Outcome, NEW t \in Turning, Leave(o), turn' = t,
           done'.agent \in Nat, done'.agent <= t.step + 1, t.nSteps <= done'.agent
    PROVE  Turned'
BY TurnNumbers DEF Turned, Leave, Late, LoopAt, Draining

LEMMA EndLoopTurned ==
    ASSUME Turned, NEW o \in Outcome, NEW t \in Turning, EndLoop(o, t),
           done'.agent \in Nat, done'.agent <= t.step + 1, t.nSteps <= done'.agent
    PROVE  Turned'
<1>1. CASE t.planDone
  BY <1>1, TurnNumbers DEF EndLoop, Goto, Turned, Late, LoopAt, Draining, Goal
<1>2. CASE ~t.planDone
  BY <1>2, LeaveTurned DEF EndLoop
<1>. QED
  BY <1>1, <1>2

LEMMA IterateTurned ==
    ASSUME Turned, NEW t \in Turning, Iterate(t),
           done'.agent \in Nat, done'.agent <= t.step + 1, t.nSteps <= done'.agent
    PROVE  Turned'
<1>1. CASE t.step + 1 = MaxSteps
  BY <1>1, EndLoopTurned DEF Iterate, Outcome
<1>2. CASE t.step + 1 # MaxSteps
  <2>. DEFINE u == [t EXCEPT !.step = @ + 1]
  <2>1. u \in Turning /\ u.step = t.step + 1 /\ u.nSteps = t.nSteps
    BY <1>2, TurnNumbers, HumanAssumption DEF Turning
  <2>2. at' = "gate" /\ then' = "before" /\ outcome' = outcome /\ turn' = u
    BY <1>2 DEF Iterate, Goto
  <2>. HIDE DEF u
  <2>. QED
    BY <2>1, <2>2 DEF Turned, Late, LoopAt, Draining, Goal
<1>. QED
  BY <1>1, <1>2

\* A step that leaves what was done and what is planned
LEMMA GotoTurned ==
    ASSUME Turned, NEW p \in LoopAt, NEW g \in Goal, Goto(p, g), turn' = turn,
           done'.agent = done.agent, done.agent \in Nat,
           p \in {"gate", "stopping", "held", "drain"} => g \in {"before", "nav", "iterate"},
           p = "plan" => g \in {"loop", "confirm", "recover"},
           p # "settle",
           Late => \/ p \in {"stuck", "criteria", "grading"}
                   \/ p = "plan" /\ g \in {"confirm", "recover"}
                   \/ p \in {"gate", "stopping", "held", "drain"} /\ g = "iterate"
    PROVE  Turned'
<1>1. at' = p /\ then' = g /\ outcome' = outcome /\ Late \in BOOLEAN
  BY DEF Goto, Late
<1>2. Late => Late'
  BY <1>1 DEF Late
<1>3. done'.agent <= IF Late' THEN turn'.step + 1 ELSE turn'.step
  BY <1>1, <1>2, TurnNumbers DEF Turned
<1>. QED
  BY <1>1, <1>3 DEF Turned

LEMMA BecomeKeeps ==
    ASSUME done \in Ghosts, NEW s, Become(s)
    PROVE  done'.agent = done.agent /\ done'.human = done.human /\ done'.faults = s.faults
BY DEF Become, Ghosts

LEMMA TurnedKept ==
    ASSUME Turned, done \in Ghosts, [HumanNext]_humanVars
    PROVE  Turned'
<1>. USE DEF Ghosts
<1>0. /\ turn \in Turning /\ done.agent \in Nat /\ then \in Goal
      /\ done.agent <= turn.step + 1 /\ turn.nSteps <= done.agent
      /\ turn.step \in Nat /\ turn.nSteps \in Nat
  BY TurnNumbers DEF Turned
<1>1. ASSUME UNCHANGED <<at, then, turn, outcome>>, done'.agent = done.agent
      PROVE  Turned'
  BY <1>1 DEF Turned, Late
<1>2. CASE ExecuteCommand
  <2>1. UNCHANGED <<at, then, turn, outcome>>
    BY <1>2 DEF ExecuteCommand
  <2>2. done'.agent = done.agent
    BY <1>2, BecomeKeeps DEF ExecuteCommand
  <2>. QED
    BY <1>1, <2>1, <2>2
<1>3. CASE CancelRun
  <2>1. UNCHANGED <<at, then, turn, outcome>>
    BY <1>3 DEF CancelRun
  <2>2. done'.agent = done.agent
    BY <1>3, BecomeKeeps DEF CancelRun
  <2>. QED
    BY <1>1, <2>1, <2>2
<1>4. CASE HumanActs
  BY <1>0, <1>1, <1>4 DEF HumanActs
<1>5. CASE \/ EndCommand \/ SubmitTake \/ DeadlinePasses \/ UNCHANGED humanVars
           \/ \E a \in {"return", "finish"} : SubmitOther(a)
           \/ \E i \in DOMAIN cmds : QueueTake(i) \/ Answered(i) \/ GiveUp(i)
  <2>1. UNCHANGED <<at, then, turn, outcome, done>>
    BY <1>5 DEF EndCommand, SubmitTake, DeadlinePasses, humanVars, SubmitOther, QueueTake,
                Answered, GiveUp
  <2>. QED
    BY <1>1, <2>1
<1>6. CASE Gate
  <2>1. done' = done
    BY <1>6 DEF Gate
  <2>2. CASE ctx.stopped
    <3>1. EndLoop("stopped", turn) /\ "stopped" \in Outcome
      BY <1>6, <2>2 DEF Gate, Outcome
    <3>. QED
      BY <1>0, <2>1, <3>1, EndLoopTurned
  <2>3. CASE ~ctx.stopped
    <3>1. Goto("stopping", then) /\ turn' = turn /\ at = "gate"
      BY <1>6, <2>3 DEF Gate
    <3>2. Late => then = "iterate"
      BY <3>1 DEF Late
    <3>. QED
      BY <1>0, <2>1, <3>1, <3>2, GotoTurned DEF LoopAt, Draining, Turned
  <2>. QED
    BY <2>2, <2>3
<1>7. ASSUME Resume, done'.agent = done.agent, at \in {"stopping", "held"}
      PROVE  Turned'
  <2>1. then \in {"before", "nav", "iterate"}
    BY <1>7 DEF Turned
  <2>2. CASE then = "iterate"
    <3>1. Iterate(turn)
      BY <1>7, <2>2 DEF Resume
    <3>. QED
      BY <1>0, <1>7, <3>1, IterateTurned
  <2>3. CASE then # "iterate"
    <3>1. PICK p \in {"head", "nav"} : Goto(p, then) /\ turn' = turn
      BY <1>7, <2>1, <2>3 DEF Resume
    <3>2. ~Late
      BY <1>7, <2>3 DEF Late
    <3>. QED
      BY <1>0, <1>7, <3>1, <3>2, GotoTurned DEF LoopAt, Draining
  <2>. QED
    BY <2>2, <2>3
<1>8. CASE ShouldStop
  <2>1. done'.agent = done.agent
    BY <1>8, BecomeKeeps DEF ShouldStop, FailTimeout
  <2>2. at \in {"stopping", "held"}
    BY <1>8 DEF ShouldStop
  <2>3. \/ EndLoop("stopped", turn)
        \/ Goto("held", then) /\ turn' = turn
        \/ Resume
    BY <1>8 DEF ShouldStop
  <2>4. CASE EndLoop("stopped", turn)
    <3>1. "stopped" \in Outcome
      BY DEF Outcome
    <3>. QED
      BY <1>0, <2>1, <2>4, <3>1, EndLoopTurned
  <2>5. CASE Goto("held", then) /\ turn' = turn
    <3>1. Late => then = "iterate"
      BY <2>2 DEF Late
    <3>. QED
      BY <1>0, <2>1, <2>2, <2>5, <3>1, GotoTurned DEF LoopAt, Draining, Turned
  <2>. QED
    BY <1>7, <2>1, <2>2, <2>3, <2>4, <2>5
<1>9. CASE Drain
  <2>1. done' = done /\ Goto("gate", then) /\ turn' = turn /\ at = "drain"
    BY <1>9 DEF Drain
  <2>2. Late => then = "iterate"
    BY <2>1 DEF Late
  <2>. QED
    BY <1>0, <2>1, <2>2, GotoTurned DEF LoopAt, Draining, Turned
<1>10. CASE PlanOrNavigate
  <2>1. done' = done /\ turn' = turn /\ at = "head"
    BY <1>10 DEF PlanOrNavigate
  <2>2. Goto("plan", "loop") \/ Goto("drain", "nav")
    BY <1>10 DEF PlanOrNavigate
  <2>3. ~Late
    BY <2>1 DEF Late
  <2>. QED
    BY <1>0, <2>1, <2>2, <2>3, GotoTurned DEF LoopAt, Draining, Goal
<1>11. CASE Navigate
  <2>1. done' = done /\ turn' = turn /\ at = "nav"
    BY <1>11 DEF Navigate
  <2>2. \/ Goto("drain", "iterate") \/ Goto("batch", then)
        \/ \E o \in Outcome : Leave(o)
    BY <1>11 DEF Navigate, Outcome
  <2>3. ~Late
    BY <2>1 DEF Late
  <2>. QED
    BY <1>0, <2>1, <2>2, <2>3, GotoTurned, LeaveTurned DEF LoopAt, Draining, Goal
<1>12. CASE Batch
  <2>1. at = "batch" /\ ~Late /\ done.agent <= turn.step
    BY <1>12 DEF Batch, Turned, Late
  <2>2. CASE Goto("drain", "iterate") /\ turn' = turn /\ done' = done
    BY <1>0, <2>1, <2>2, GotoTurned DEF LoopAt, Draining, Goal
  <2>3. CASE Iterate(turn) /\ done' = done
    BY <1>0, <2>3, IterateTurned
  <2>4. CASE Goto("settle", then) /\ turn' = turn /\ done' = [done EXCEPT !.agent = @ + 1]
    <3>1. done'.agent = done.agent + 1 /\ at' = "settle" /\ then' = then /\ outcome' = outcome
      BY <2>4 DEF Goto
    <3>2. Late'
      BY <3>1 DEF Late
    <3>. QED
      BY <1>0, <2>1, <2>4, <3>1, <3>2 DEF Turned, LoopAt, Draining
  <2>. QED
    BY <1>12, <2>2, <2>3, <2>4 DEF Batch
<1>13. CASE Settle
  <2>1. done' = done /\ at = "settle" /\ turn.nSteps < done.agent
    BY <1>13 DEF Settle, Turned
  <2>. DEFINE next == [turn EXCEPT !.nSteps = @ + 1, !.failures = 0]
  <2>2. next \in Turning /\ next.step = turn.step /\ next.nSteps = turn.nSteps + 1
    <3>1. turn.nSteps + 1 \in Nat /\ 0 \in 0..(MaxFailures - 1)
      BY <1>0, HumanAssumption
    <3>. QED
      BY <1>0, <3>1, Zenon DEF Turning
  <2>3. \/ Goto("drain", "iterate") /\ turn' = turn
        \/ Leave("error") /\ turn' = turn
        \/ Iterate(turn) \/ Iterate(next)
        \/ Goto("plan", "confirm") /\ turn' = next
        \/ Goto("stuck", "recover") /\ turn' = next
    BY <1>13 DEF Settle
  <2>. HIDE DEF next
  <2>4. CASE Goto("drain", "iterate") /\ turn' = turn
    BY <1>0, <2>1, <2>4, GotoTurned DEF LoopAt, Draining, Goal
  <2>5. CASE Leave("error") /\ turn' = turn
    BY <1>0, <2>1, <2>5, LeaveTurned DEF Outcome
  <2>6. CASE Iterate(turn)
    BY <1>0, <2>1, <2>6, IterateTurned
  <2>7. CASE Iterate(next)
    BY <1>0, <2>1, <2>2, <2>7, IterateTurned
  <2>8. CASE \/ Goto("plan", "confirm") /\ turn' = next
             \/ Goto("stuck", "recover") /\ turn' = next
    <3>1. /\ \/ at' = "plan" /\ then' = "confirm"
             \/ at' = "stuck" /\ then' = "recover"
          /\ turn' = next /\ outcome' = outcome
      BY <2>8 DEF Goto
    <3>2. Late'
      BY <3>1 DEF Late
    <3>3. done'.agent <= turn'.step + 1 /\ turn'.nSteps <= done'.agent
      BY <1>0, <2>1, <2>2, <3>1
    <3>4. done'.agent <= IF Late' THEN turn'.step + 1 ELSE turn'.step
      BY <3>2, <3>3
    <3>. QED
      BY <2>2, <3>1, <3>3, <3>4 DEF Turned, LoopAt, Draining, Goal
  <2>. QED
    BY <2>3, <2>4, <2>5, <2>6, <2>7, <2>8
<1>14. CASE Stuck
  <2>1. done' = done /\ Goto("plan", "recover") /\ turn' = turn /\ at = "stuck"
    BY <1>14 DEF Stuck
  <2>. QED
    BY <1>0, <2>1, GotoTurned DEF LoopAt, Draining, Goal
<1>15. CASE CheckCriteria \/ Grade
  <2>1. done' = done /\ turn' = turn
    BY <1>15 DEF CheckCriteria, Grade
  <2>2. \/ Goto("grading", then) /\ at = "criteria"
        \/ \E o \in Outcome : Leave(o)
    BY <1>15 DEF CheckCriteria, Grade, Outcome
  <2>. QED
    BY <1>0, <2>1, <2>2, GotoTurned, LeaveTurned DEF LoopAt, Draining
<1>16. CASE Finally
  BY <1>0, <1>16 DEF Finally, Turned, Late, LoopAt, Draining
<1>17. CASE StartManual
  <2>1. done'.agent = done.agent /\ turn' = turn
    BY <1>17, BecomeKeeps DEF StartManual
  <2>2. (Goto("manual", then) \/ Leave("error")) /\ ~Late
    BY <1>17 DEF StartManual, Late
  <2>. QED
    BY <1>0, <2>1, <2>2, GotoTurned, LeaveTurned DEF LoopAt, Draining, Outcome
<1>18. CASE EndManual
  <2>1. done'.agent = done.agent /\ turn' = turn
    BY <1>18, BecomeKeeps DEF EndManual
  <2>2. Leave("stopped") \/ Leave("manual")
    BY <1>18 DEF EndManual
  <2>. QED
    BY <1>0, <2>1, <2>2, LeaveTurned DEF Outcome
<1>19. CASE RunPlanner
  <2>1. done' = done /\ at = "plan" /\ then \in {"loop", "confirm", "recover"}
    BY <1>19 DEF RunPlanner, Turned
  <2>2. ASSUME NEW a \in Answers, NEW t \in Turning, AfterPlan(a, t),
               t.step = turn.step, t.nSteps = turn.nSteps
        PROVE  Turned'
    <3>. DEFINE new == IF then = "recover" THEN t ELSE [t EXCEPT !.planDone = Finished(a)]
    <3>1. new \in Turning /\ new.step = turn.step /\ new.nSteps = turn.nSteps
      <4>1. CASE then = "recover"
        BY <2>2, <4>1
      <4>2. CASE then # "recover"
        <5>1. new = [t EXCEPT !.planDone = Finished(a)] /\ Finished(a) \in BOOLEAN
          BY <4>2 DEF Finished
        <5>2. new \in Turning /\ new.step = t.step /\ new.nSteps = t.nSteps
          BY <5>1, Zenon DEF Turning
        <5>. QED
          BY <2>2, <5>2
      <4>. QED
        BY <4>1, <4>2
    <3>2. \/ Goto("drain", "iterate") /\ turn' = new /\ then = "loop"
          \/ Leave("answer") /\ turn' = new
          \/ Goto("criteria", then) /\ turn' = new
          \/ Goto("drain", "nav") /\ turn' = new /\ then = "loop"
          \/ Iterate(new)
      BY <2>2 DEF AfterPlan
    <3>. HIDE DEF new
    <3>3. CASE Leave("answer") /\ turn' = new
      BY <1>0, <2>1, <3>1, <3>3, LeaveTurned DEF Outcome
    <3>4. CASE Iterate(new)
      BY <1>0, <2>1, <3>1, <3>4, IterateTurned
    <3>5. CASE Goto("criteria", then) /\ turn' = new
      <4>1. at' = "criteria" /\ then' = then /\ outcome' = outcome /\ turn' = new
        BY <3>5 DEF Goto
      <4>2. Late'
        BY <4>1 DEF Late
      <4>3. done'.agent <= turn'.step + 1 /\ turn'.nSteps <= done'.agent
        BY <1>0, <2>1, <3>1, <4>1
      <4>4. done'.agent <= IF Late' THEN turn'.step + 1 ELSE turn'.step
        BY <4>2, <4>3
      <4>. QED
        BY <3>1, <4>1, <4>3, <4>4 DEF Turned, LoopAt, Draining
    <3>6. CASE /\ Goto("drain", "iterate") \/ Goto("drain", "nav")
               /\ turn' = new /\ then = "loop"
      <4>1. ~Late
        BY <2>1, <3>6 DEF Late
      <4>2. done.agent <= turn.step
        BY <4>1 DEF Turned
      <4>. QED
        BY <1>0, <2>1, <3>1, <3>6, <4>2 DEF Goto, Turned, Late, LoopAt, Draining, Goal
    <3>. QED
      BY <3>2, <3>3, <3>4, <3>5, <3>6
  <2>3. CASE \E a \in Answers : AfterPlan(a, IF a = "none" THEN turn
                                            ELSE [turn EXCEPT !.failures = 0])
    <3>1. PICK a \in Answers : AfterPlan(a, IF a = "none" THEN turn
                                            ELSE [turn EXCEPT !.failures = 0])
      BY <2>3
    <3>. DEFINE t == IF a = "none" THEN turn ELSE [turn EXCEPT !.failures = 0]
    <3>2. t \in Turning /\ t.step = turn.step /\ t.nSteps = turn.nSteps
      BY <1>0, HumanAssumption DEF Turning
    <3>3. AfterPlan(a, t)
      BY <3>1
    <3>. HIDE DEF t
    <3>. QED
      BY <2>2, <3>2, <3>3
  <2>4. CASE (Leave("stopped") \/ Leave("error")) /\ turn' = turn
    BY <1>0, <2>1, <2>4, LeaveTurned DEF Outcome
  <2>5. CASE ~AtLimit(turn) /\ AfterPlan("none", Fail(turn))
    <3>1. Fail(turn) \in Turning /\ Fail(turn).step = turn.step
          /\ Fail(turn).nSteps = turn.nSteps
      BY <1>0, <2>5, TurnNumbers, HumanAssumption DEF Turning, Fail, AtLimit
    <3>2. "none" \in Answers
      BY DEF Answers
    <3>. QED
      BY <2>2, <2>5, <3>1, <3>2
  <2>. QED
    BY <1>19, <2>3, <2>4, <2>5 DEF RunPlanner
<1>. QED
  BY <1>2, <1>3, <1>4, <1>5, <1>6, <1>8, <1>9, <1>10, <1>11, <1>12, <1>13, <1>14, <1>15,
     <1>16, <1>17, <1>18, <1>19 DEF HumanNext, RunThread, Handlers

-----------------------------------------------------------------------------
(* The flags, the recorder and the history                                   *)

Recorder == [active : BOOLEAN, buf : Seq(Nat)]
Control == [ctx : Flags, recorder : Recorder, past : Seq(Entry), faults : 0..MaxFaults]

\* A human with the browser is awaited, and a run that awaits one is paused.
Settled(c) == (c.controlling => c.awaiting) /\ (c.awaiting => c.paused)

\* After n human actions; only a failed flush leaves a buffer without a recorder.
Good(s, n) ==
    /\ s \in Control
    /\ Settled(s.ctx)
    /\ s.faults = 0 /\ ~s.recorder.active => s.recorder.buf = <<>>
    /\ Kept(s.past, s.recorder.buf, n, s.faults = 0)

Controlled == Good(State, done.human)

LEMMA ControlParts ==
    ASSUME NEW s \in Control
    PROVE  /\ s.ctx \in Flags /\ s.recorder \in Recorder
           /\ s.recorder.active \in BOOLEAN /\ s.recorder.buf \in Seq(Nat)
           /\ s.past \in Seq(Entry) /\ s.faults \in 0..MaxFaults /\ s.faults \in Nat
           /\ s = [ctx |-> s.ctx, recorder |-> s.recorder, past |-> s.past,
                   faults |-> s.faults]
BY HumanAssumption DEF Control, Recorder

\* Only the flags change.
LEMMA GoodFlags ==
    ASSUME NEW s, NEW n, Good(s, n), NEW c \in Flags, Settled(c)
    PROVE  Good([s EXCEPT !.ctx = c], n) /\ [s EXCEPT !.ctx = c].ctx = c
<1>. DEFINE u == [s EXCEPT !.ctx = c]
<1>1. u \in Control /\ u.ctx = c /\ u.recorder = s.recorder /\ u.past = s.past
      /\ u.faults = s.faults
  BY Zenon DEF Good, Control
<1>. HIDE DEF u
<1>2. Good(u, n)
  BY <1>1 DEF Good
<1>. QED
  BY <1>1, <1>2 DEF u

LEMMA GoodFlushed ==
    ASSUME NEW s, NEW n \in Nat, Good(s, n), NEW f \in Flushed(s)
    PROVE  Good(f, n) /\ f.ctx = s.ctx
<1>1. s \in Control /\ Kept(s.past, s.recorder.buf, n, s.faults = 0) /\ Settled(s.ctx)
  BY DEF Good
<1>. DEFINE b == s.recorder.buf
<1>2. /\ s.ctx \in Flags /\ s.recorder \in Recorder /\ b \in Seq(Nat)
      /\ s.past \in Seq(Entry) /\ s.faults \in 0..MaxFaults /\ s.faults \in Nat
  BY <1>1, ControlParts
<1>3. \/ f = [[s EXCEPT !.recorder.active = FALSE] EXCEPT !.past = @ \o Human(b), !.recorder.buf = <<>>]
      \/ /\ b # <<>> /\ s.faults # MaxFaults
         /\ f = [[s EXCEPT !.recorder.active = FALSE] EXCEPT !.faults = @ + 1]
  BY DEF Flushed, Human
<1>4. CASE f = [[s EXCEPT !.recorder.active = FALSE] EXCEPT !.past = @ \o Human(b), !.recorder.buf = <<>>]
  <2>1. f.past = s.past \o Human(b)
    BY <1>1, <1>4, Zenon DEF Control
  <2>2. f.recorder = [active |-> FALSE, buf |-> <<>>]
    BY <1>1, <1>4 DEF Control, Recorder
  <2>3. f.ctx = s.ctx /\ f.faults = s.faults
    BY <1>1, <1>4, Zenon DEF Control
  <2>4. (s.faults = 0) \in BOOLEAN
    OBVIOUS
  <2>5. f.past \in Seq(Entry) /\ Kept(f.past, <<>>, n, s.faults = 0)
    BY <1>1, <1>2, <2>1, <2>4, KeptByFlush
  <2>6. f.recorder \in Recorder /\ f.recorder.buf = <<>>
    BY <2>2 DEF Recorder
  <2>7. f \in Control
    <3>1. f = [s EXCEPT !.past = f.past, !.recorder = f.recorder]
      BY <1>1, <1>4, <2>1, <2>2 DEF Control, Recorder
    <3>. QED
      BY <1>1, <2>5, <2>6, <3>1, Zenon DEF Control
  <2>. QED
    BY <1>1, <2>3, <2>5, <2>6, <2>7, Zenon DEF Good
<1>5. CASE /\ b # <<>> /\ s.faults # MaxFaults
           /\ f = [[s EXCEPT !.recorder.active = FALSE] EXCEPT !.faults = @ + 1]
  <2>1. f.past = s.past /\ f.ctx = s.ctx /\ f.faults = s.faults + 1
    BY <1>1, <1>5, Zenon DEF Control
  <2>2. f.recorder = [active |-> FALSE, buf |-> b]
    BY <1>1, <1>5 DEF Control, Recorder
  <2>3. s.faults + 1 \in 0..MaxFaults /\ s.faults + 1 # 0
    BY <1>2, <1>5, HumanAssumption
  <2>4. f \in Control
    <3>1. f = [s EXCEPT !.recorder = f.recorder, !.faults = s.faults + 1]
      BY <1>1, <1>5, <2>2 DEF Control, Recorder
    <3>2. f.recorder \in Recorder
      BY <1>2, <2>2 DEF Recorder
    <3>. QED
      BY <1>1, <2>3, <3>1, <3>2, Zenon DEF Control
  <2>5. f.faults # 0 /\ (f.faults = 0) = FALSE
    BY <2>1, <2>3
  <2>6. Kept(f.past, b, n, FALSE)
    BY <1>1, <2>1, KeptInPart
  <2>7. f.recorder.buf = b
    BY <2>2
  <2>8. Kept(f.past, f.recorder.buf, n, f.faults = 0)
    BY <2>5, <2>6, <2>7
  <2>9. f.ctx = s.ctx /\ Settled(f.ctx)
    BY <1>1, <2>1
  <2>. QED
    BY <2>4, <2>5, <2>8, <2>9, Zenon DEF Good
<1>. QED
  BY <1>3, <1>4, <1>5

LEMMA GoodFlushRecorded ==
    ASSUME NEW s, NEW n \in Nat, Good(s, n), NEW f \in FlushRecorded(s)
    PROVE  Good(f, n) /\ f.ctx = s.ctx
BY GoodFlushed DEF FlushRecorded

\* What a command makes of the state; it never raises the interrupt.
Commands(s) == TakeControl(s) \cup ReturnControl(s) \cup FinishManual(s)

LEMMA GoodTake ==
    ASSUME NEW s, NEW n \in Nat, Good(s, n), NEW f \in TakeControl(s)
    PROVE  Good(f, n) /\ (f.ctx.interrupt => s.ctx.interrupt)
<1>1. s \in Control /\ Settled(s.ctx) /\ Kept(s.past, s.recorder.buf, n, s.faults = 0)
  BY DEF Good
<1>2. /\ s.ctx \in Flags /\ s.recorder \in Recorder /\ s.past \in Seq(Entry)
      /\ s.faults \in 0..MaxFaults /\ s.faults \in Nat
  BY <1>1, ControlParts
<1>. DEFINE c == Controlling(s.ctx)
<1>3. c \in Flags /\ Settled(c) /\ (c.interrupt => s.ctx.interrupt)
  BY <1>1, <1>2 DEF Controlling, Intervened, Flags, Settled
<1>4. \/ f = [s EXCEPT !.ctx = c, !.recorder = Started(s.recorder)]
      \/ /\ s.faults # MaxFaults /\ f = [s EXCEPT !.ctx = c, !.faults = @ + 1]
  BY DEF TakeControl
<1>. HIDE DEF c
<1>5. CASE f = [s EXCEPT !.ctx = c, !.recorder = Started(s.recorder)]
  <2>1. /\ f.ctx = c /\ f.recorder = Started(s.recorder) /\ f.past = s.past
        /\ f.faults = s.faults
    BY <1>1, <1>5, Zenon DEF Control
  <2>2. Started(s.recorder) \in Recorder /\ Started(s.recorder).active
    BY <1>2 DEF Started, Recorder
  <2>3. Kept(s.past, Started(s.recorder).buf, n, s.faults = 0)
    <3>1. CASE s.recorder.active
      BY <1>1, <3>1 DEF Started
    <3>2. CASE ~s.recorder.active
      <4>1. Started(s.recorder).buf = <<>>
        BY <3>2 DEF Started
      <4>2. CASE s.faults = 0
        BY <1>1, <3>2, <4>1, <4>2 DEF Good
      <4>3. CASE s.faults # 0
        <5>1. (s.faults = 0) = FALSE
          BY <4>3
        <5>. QED
          BY <1>1, <4>1, <5>1, KeptInPart
      <4>. QED
        BY <4>2, <4>3
    <3>. QED
      BY <3>1, <3>2
  <2>4. f \in Control
    BY <1>1, <1>2, <1>3, <1>5, <2>2 DEF Control
  <2>. QED
    BY <1>3, <2>1, <2>2, <2>3, <2>4 DEF Good
<1>6. CASE s.faults # MaxFaults /\ f = [s EXCEPT !.ctx = c, !.faults = @ + 1]
  <2>1. /\ f.ctx = c /\ f.recorder = s.recorder /\ f.past = s.past
        /\ f.faults = s.faults + 1
    BY <1>1, <1>6, Zenon DEF Control
  <2>2. s.faults + 1 \in 0..MaxFaults /\ s.faults + 1 # 0
    BY <1>2, <1>6, HumanAssumption
  <2>3. f \in Control
    BY <1>1, <1>2, <1>3, <1>6, <2>2 DEF Control
  <2>4. Kept(f.past, f.recorder.buf, n, FALSE) /\ (f.faults = 0) = FALSE
    BY <1>1, <2>1, <2>2, KeptInPart
  <2>. QED
    BY <1>3, <2>1, <2>2, <2>3, <2>4 DEF Good
<1>. QED
  BY <1>4, <1>5, <1>6

LEMMA GoodCommand ==
    ASSUME NEW s, NEW n \in Nat, Good(s, n), NEW f \in Commands(s)
    PROVE  Good(f, n) /\ (f.ctx.interrupt => s.ctx.interrupt)
<1>1. CASE f \in TakeControl(s)
  BY <1>1, GoodTake
<1>2. ASSUME NEW g \in Flushed(s), NEW c \in Flags, f = [g EXCEPT !.ctx = c],
             ~c.controlling, ~c.awaiting, ~c.interrupt
      PROVE  Good(f, n) /\ (f.ctx.interrupt => s.ctx.interrupt)
  <2>1. Good(g, n) /\ Settled(c)
    BY <1>2, GoodFlushed DEF Settled
  <2>. QED
    BY <1>2, <2>1, GoodFlags
<1>3. ASSUME NEW g \in Flushed(s)
      PROVE  g.ctx \in Flags
  BY GoodFlushed, ControlParts DEF Good
<1>4. CASE f \in ReturnControl(s) /\ f # s
  <2>1. PICK g \in Flushed(s) : f = [g EXCEPT !.ctx = [@ EXCEPT !.controlling = FALSE,
          !.awaiting = FALSE, !.deadline = "none", !.forceReplan = TRUE,
          !.interrupt = FALSE, !.paused = FALSE, !.handoff = TRUE]]
    BY <1>4 DEF ReturnControl
  <2>. DEFINE c == [g.ctx EXCEPT !.controlling = FALSE,
          !.awaiting = FALSE, !.deadline = "none", !.forceReplan = TRUE,
          !.interrupt = FALSE, !.paused = FALSE, !.handoff = TRUE]
  <2>2. c \in Flags /\ ~c.controlling /\ ~c.awaiting /\ ~c.interrupt
    BY <1>3 DEF Flags
  <2>3. f = [g EXCEPT !.ctx = c]
    BY <2>1
  <2>. HIDE DEF c
  <2>. QED
    BY <1>2, <2>2, <2>3
<1>5. CASE f \in FinishManual(s) /\ f # s
  <2>1. PICK g \in Flushed(s) : f = [g EXCEPT !.ctx = [@ EXCEPT !.controlling = FALSE,
          !.awaiting = FALSE, !.deadline = "none", !.interrupt = FALSE,
          !.finished = TRUE, !.paused = FALSE]]
    BY <1>5 DEF FinishManual
  <2>. DEFINE c == [g.ctx EXCEPT !.controlling = FALSE,
          !.awaiting = FALSE, !.deadline = "none", !.interrupt = FALSE,
          !.finished = TRUE, !.paused = FALSE]
  <2>2. c \in Flags /\ ~c.controlling /\ ~c.awaiting /\ ~c.interrupt
    BY <1>3 DEF Flags
  <2>3. f = [g EXCEPT !.ctx = c]
    BY <2>1
  <2>. HIDE DEF c
  <2>. QED
    BY <1>2, <2>2, <2>3
<1>. QED
  BY <1>1, <1>4, <1>5 DEF Commands

LEMMA BecomeGood ==
    ASSUME done \in Ghosts, NEW s, Good(s, done.human), Become(s)
    PROVE  Controlled' /\ ctx' = s.ctx
<1>1. done'.human = done.human /\ done'.faults = s.faults
  BY BecomeKeeps
<1>2. s = [ctx |-> s.ctx, recorder |-> s.recorder, past |-> s.past, faults |-> s.faults]
  BY ControlParts DEF Good
<1>3. State' = s
  BY <1>1, <1>2 DEF State, Become
<1>. QED
  BY <1>1, <1>3 DEF Controlled, Become

LEMMA FlagsGood ==
    ASSUME Controlled, UNCHANGED <<recorder, past>>, done'.faults = done.faults,
           done'.human = done.human, ctx' \in Flags, Settled(ctx')
    PROVE  Controlled'
<1>1. State' = [State EXCEPT !.ctx = ctx']
  BY DEF State
<1>2. Good([State EXCEPT !.ctx = ctx'], done.human)
  BY GoodFlags DEF Controlled
<1>. QED
  BY <1>1, <1>2 DEF Controlled

LEMMA ControlFacts ==
    ASSUME Controlled
    PROVE  /\ ctx \in Flags /\ Settled(ctx) /\ recorder \in Recorder /\ past \in Seq(Entry)
           /\ done.faults \in 0..MaxFaults
           /\ Kept(past, recorder.buf, done.human, done.faults = 0)
           /\ done.faults = 0 /\ ~recorder.active => recorder.buf = <<>>
BY ControlParts DEF Controlled, Good, State

LEMMA ControlledKept ==
    ASSUME Controlled, done \in Ghosts, [HumanNext]_humanVars
    PROVE  Controlled'
<1>0. /\ Good(State, done.human) /\ State.ctx = ctx /\ done.human \in Nat
      /\ ctx \in Flags /\ Settled(ctx)
  BY ControlFacts DEF Controlled, State, Ghosts
<1>1. CASE ExecuteCommand
  <2>1. CASE UNCHANGED <<ctx, recorder, past, done>>
    BY <1>0, <2>1, FlagsGood
  <2>2. CASE \E s \in Commands(State) : Become(s)
    BY <1>0, <2>2, GoodCommand, BecomeGood
  <2>. QED
    BY <1>1, <2>1, <2>2 DEF ExecuteCommand, Runs, Commands
<1>2. CASE /\ UNCHANGED <<recorder, past, done>>
           /\ \/ UNCHANGED ctx
              \/ SubmitTake \/ EndCommand \/ PlanOrNavigate \/ Finally \/ DeadlinePasses
  <2>1. ctx' \in Flags /\ Settled(ctx')
    <3>1. CASE UNCHANGED ctx
      BY <1>0, <3>1
    <3>2. CASE SubmitTake
      BY <1>0, <3>2 DEF SubmitTake, Flags, Settled
    <3>3. CASE EndCommand
      <4>1. (ctx.interrupt /\ cmds[current].action # "take") \in BOOLEAN
        BY <1>0 DEF Flags
      <4>. QED
        BY <1>0, <3>3, <4>1 DEF EndCommand, Flags, Settled
    <3>4. CASE PlanOrNavigate
      BY <1>0, <3>4 DEF PlanOrNavigate, Flags, Settled
    <3>5. CASE Finally
      BY <1>0, <3>5 DEF Finally, Flags, Settled
    <3>6. CASE DeadlinePasses
      BY <1>0, <3>6 DEF DeadlinePasses, Flags, Settled
    <3>. QED
      BY <1>2, <3>1, <3>2, <3>3, <3>4, <3>5, <3>6
  <2>. QED
    BY <1>2, <2>1, FlagsGood
<1>3. CASE \/ Gate \/ Drain \/ RunPlanner \/ Navigate \/ Stuck \/ CheckCriteria \/ Grade
           \/ UNCHANGED humanVars
           \/ \E a \in {"return", "finish"} : SubmitOther(a)
           \/ \E i \in DOMAIN cmds : QueueTake(i) \/ Answered(i) \/ GiveUp(i)
  <2>1. UNCHANGED <<ctx, recorder, past, done>>
    BY <1>3 DEF Gate, Drain, RunPlanner, Navigate, Stuck, CheckCriteria, Grade, humanVars,
                SubmitOther, QueueTake, Answered, GiveUp
  <2>. QED
    BY <1>2, <2>1
<1>4. CASE SubmitTake \/ EndCommand \/ PlanOrNavigate \/ Finally \/ DeadlinePasses
  <2>1. UNCHANGED <<recorder, past, done>>
    BY <1>4 DEF SubmitTake, EndCommand, PlanOrNavigate, Finally, DeadlinePasses
  <2>. QED
    BY <1>2, <1>4, <2>1
<1>5. CASE Batch
  <2>1. /\ UNCHANGED <<ctx, recorder, past>>
        /\ done'.human = done.human /\ done'.faults = done.faults
    BY <1>5 DEF Batch, Ghosts
  <2>. QED
    BY <1>0, <2>1, FlagsGood
<1>6. CASE Settle
  <2>1. CASE UNCHANGED past
    BY <1>2, <1>6, <2>1 DEF Settle
  <2>2. CASE past' = Append(past, <<"a", done.agent>>)
    <3>1. UNCHANGED <<ctx, recorder, done>>
      BY <1>6 DEF Settle
    <3>2. past' \in Seq(Entry) /\ Kept(past', recorder.buf, done.human, done.faults = 0)
      BY <2>2, ControlFacts, KeptByAgent DEF Ghosts
    <3>3. State' = [State EXCEPT !.past = past']
      BY <3>1 DEF State
    <3>4. State' \in Control
      BY <1>0, <3>2, <3>3, Zenon DEF Good, Control
    <3>5. /\ State'.ctx = ctx /\ State'.recorder = recorder /\ State'.past = past'
          /\ State'.faults = done.faults /\ done'.human = done.human
      BY <3>1 DEF State
    <3>6. done.faults = 0 /\ ~recorder.active => recorder.buf = <<>>
      BY ControlFacts
    <3>. QED
      BY <1>0, <3>2, <3>4, <3>5, <3>6 DEF Good, Controlled
  <2>. QED
    BY <1>6, <2>1, <2>2 DEF Settle
<1>7. CASE CancelRun
  <2>1. PICK s \in FlushRecorded(State) : Become([s EXCEPT !.ctx.stopped = TRUE])
    BY <1>7 DEF CancelRun
  <2>2. Good(s, done.human) /\ s.ctx = ctx
    BY <1>0, GoodFlushRecorded
  <2>. DEFINE c == [ctx EXCEPT !.stopped = TRUE]
  <2>3. c \in Flags /\ Settled(c)
    BY <1>0 DEF Flags, Settled
  <2>4. [s EXCEPT !.ctx.stopped = TRUE] = [s EXCEPT !.ctx = c]
    BY <2>2
  <2>. QED
    BY <2>1, <2>2, <2>3, <2>4, GoodFlags, BecomeGood
<1>8. CASE ShouldStop
  <2>1. CASE UNCHANGED <<ctx, recorder, past, done>>
    BY <1>2, <2>1
  <2>2. CASE FailTimeout
    <3>1. PICK s \in FlushRecorded(State) \cup {State} :
            Become([s EXCEPT !.ctx = [@ EXCEPT !.controlling = FALSE, !.awaiting = FALSE,
                                               !.timedOut = TRUE, !.stopped = TRUE]])
      BY <2>2 DEF FailTimeout
    <3>2. Good(s, done.human) /\ s.ctx = ctx
      BY <1>0, GoodFlushRecorded
    <3>. DEFINE c == [ctx EXCEPT !.controlling = FALSE, !.awaiting = FALSE,
                                 !.timedOut = TRUE, !.stopped = TRUE]
    <3>3. c \in Flags /\ Settled(c)
      BY <1>0 DEF Flags, Settled
    <3>4. Become([s EXCEPT !.ctx = c])
      BY <3>1, <3>2
    <3>. HIDE DEF c
    <3>. QED
      BY <3>2, <3>3, <3>4, GoodFlags, BecomeGood
  <2>. QED
    BY <1>8, <2>1, <2>2 DEF ShouldStop
<1>9. CASE StartManual
  BY <1>0, <1>9, GoodTake, BecomeGood DEF StartManual
<1>10. CASE EndManual
  <2>1. CASE UNCHANGED <<ctx, recorder, past, done>>
    BY <1>2, <2>1
  <2>2. CASE \E s \in FlushRecorded(State) : \E t \in FlushRecorded(s) : Become(t)
    BY <1>0, <2>2, GoodFlushRecorded, BecomeGood
  <2>. QED
    BY <1>10, <2>1, <2>2 DEF EndManual
<1>11. CASE HumanActs
  <2>. DEFINE n == done.human
              b == Append(recorder.buf, n + 1)
  <2>1. /\ done' = [done EXCEPT !.human = @ + 1] /\ recorder' = [recorder EXCEPT !.buf = b]
        /\ recorder.active /\ UNCHANGED <<ctx, past>>
    BY <1>11 DEF HumanActs
  <2>2. done'.human = n + 1 /\ done'.faults = done.faults
    BY <2>1 DEF Ghosts
  <2>3. /\ recorder \in Recorder /\ recorder.buf \in Seq(Nat) /\ past \in Seq(Entry)
        /\ Kept(past, recorder.buf, n, done.faults = 0)
    BY ControlFacts DEF Recorder
  <2>4. b \in Seq(Nat) /\ Kept(past, b, n + 1, done.faults = 0)
    <3>1. (done.faults = 0) \in BOOLEAN
      OBVIOUS
    <3>. QED
      BY <1>0, <2>3, <3>1, KeptByAct, Zenon
  <2>. HIDE DEF b
  <2>5. recorder' \in Recorder /\ recorder'.active /\ recorder'.buf = b
    BY <2>1, <2>3, <2>4 DEF Recorder
  <2>6. State' = [State EXCEPT !.recorder = recorder']
    BY <2>1, <2>2 DEF State
  <2>7. State' \in Control
    BY <1>0, <2>5, <2>6, Zenon DEF Good, Control
  <2>8. /\ State'.ctx = ctx /\ State'.recorder = recorder' /\ State'.past = past
        /\ State'.faults = done.faults
    BY <2>1, <2>2 DEF State
  <2>9. Good(State', n + 1)
    BY <1>0, <2>4, <2>5, <2>7, <2>8 DEF Good
  <2>. QED
    BY <2>2, <2>9 DEF Controlled
<1>. QED
  BY <1>1, <1>3, <1>4, <1>5, <1>6, <1>7, <1>8, <1>9, <1>10, <1>11
     DEF HumanNext, RunThread, Handlers

-----------------------------------------------------------------------------
(* The commands                                                              *)

\* A take-over has no one who waits for it, so that none is cancelled; a command
\* that is queued or executed was submitted.
Commanded ==
    /\ cmds \in Seq(Command) /\ Len(cmds) <= Submitted
    /\ queue \in Seq(1..Len(cmds)) /\ current \in 0..Len(cmds)
    /\ \A i \in DOMAIN cmds : cmds[i].action = "take" => ~cmds[i].waiting /\ ~cmds[i].cancelled
    /\ InterruptHasACause

LEMMA CommandFacts ==
    ASSUME Commanded
    PROVE  /\ DOMAIN cmds = 1..Len(cmds) /\ Len(cmds) \in Nat
           /\ \A i \in 1..Len(cmds) : cmds[i] \in Command
BY LenProperties, ElementOfSeq DEF Commanded

LEMMA SeqWider ==
    ASSUME NEW m \in Nat, NEW n \in Nat, m <= n, NEW q \in Seq(1..m)
    PROVE  q \in Seq(1..n)
<1>1. q \in [1..Len(q) -> 1..m] /\ Len(q) \in Nat
  BY LenProperties
<1>2. q \in [1..Len(q) -> 1..n]
  BY <1>1
<1>. QED
  BY <1>1, <1>2, SeqDef

\* The commands stay as they are.
LEMMA SameCommanded ==
    ASSUME Commanded, cmds' = cmds, queue' \in Seq(1..Len(cmds)), current' \in 0..Len(cmds),
           ctx'.interrupt => ctx.interrupt
    PROVE  Commanded'
BY DEF Commanded, InterruptHasACause

\* One is submitted; a take-over may raise the interrupt.
LEMMA SubmitCommanded ==
    ASSUME Commanded, NEW c \in Command, cmds' = Append(cmds, c), Len(cmds) < Submitted,
           c.action = "take" => ~c.waiting /\ ~c.cancelled,
           queue' = queue \/ queue' = Append(queue, Len(cmds) + 1), current' = current,
           ctx'.interrupt => ctx.interrupt \/ (c.action = "take" /\ ~c.done)
    PROVE  Commanded'
<1>. DEFINE n == Len(cmds)
<1>1. /\ DOMAIN cmds = 1..n /\ n \in Nat
      /\ cmds \in Seq(Command) /\ queue \in Seq(1..n) /\ current \in 0..n
  BY CommandFacts DEF Commanded
<1>2. /\ cmds' \in Seq(Command) /\ Len(cmds') = n + 1
      /\ (\A i \in 1..n : cmds'[i] = cmds[i]) /\ cmds'[n + 1] = c
  BY <1>1, AppendProperties
<1>3. DOMAIN cmds' = 1..(n + 1)
  BY <1>2, LenProperties
<1>4. queue \in Seq(1..(n + 1))
  BY <1>1, SeqWider
<1>5. queue' \in Seq(1..(n + 1))
  <2>1. n + 1 \in 1..(n + 1)
    BY <1>1
  <2>2. Append(queue, n + 1) \in Seq(1..(n + 1))
    BY <1>4, <2>1, AppendProperties, Zenon
  <2>3. queue' = queue \/ queue' = Append(queue, n + 1)
    OBVIOUS
  <2>. QED
    BY <1>4, <2>2, <2>3, Zenon
<1>6. current' \in 0..(n + 1)
  BY <1>1
<1>7. \A i \in DOMAIN cmds' : i \in 1..n \/ i = n + 1
  BY <1>1, <1>3
<1>8. \A i \in DOMAIN cmds' :
         cmds'[i].action = "take" => ~cmds'[i].waiting /\ ~cmds'[i].cancelled
  BY <1>1, <1>2, <1>7 DEF Commanded
<1>9. InterruptHasACause'
  <2>1. SUFFICES ASSUME ctx'.interrupt
                 PROVE  \E i \in DOMAIN cmds' : cmds'[i].action = "take" /\ ~cmds'[i].done
    BY DEF InterruptHasACause
  <2>2. CASE ctx.interrupt
    <3>1. PICK i \in 1..n : cmds[i].action = "take" /\ ~cmds[i].done
      BY <1>1, <2>2 DEF Commanded, InterruptHasACause
    <3>2. i \in DOMAIN cmds'
      BY <1>1, <1>3
    <3>. QED
      BY <1>2, <3>1, <3>2
  <2>3. CASE c.action = "take" /\ ~c.done
    <3>1. n + 1 \in DOMAIN cmds'
      BY <1>1, <1>3
    <3>. QED
      BY <1>2, <2>3, <3>1
  <2>. QED
    BY <2>1, <2>2, <2>3
<1>10. n + 1 <= Submitted
  BY <1>1, HumanAssumption
<1>. QED
  BY <1>2, <1>5, <1>6, <1>8, <1>9, <1>10 DEF Commanded

\* One changes; what ends a take-over lowers the interrupt.
LEMMA ChangeCommanded ==
    ASSUME Commanded, NEW i \in DOMAIN cmds, NEW v \in Command, cmds' = [cmds EXCEPT ![i] = v],
           v.action = cmds[i].action, v.action = "take" => ~v.waiting /\ ~v.cancelled,
           queue' \in Seq(1..Len(cmds)), current' \in 0..Len(cmds),
           ctx'.interrupt => ctx.interrupt,
           v.action = "take" /\ v.done => cmds[i].done \/ ~ctx'.interrupt
    PROVE  Commanded'
<1>1. cmds \in Seq(Command) /\ DOMAIN cmds = 1..Len(cmds)
  BY CommandFacts DEF Commanded
<1>2. cmds' \in Seq(Command) /\ Len(cmds') = Len(cmds)
  BY <1>1, ExceptSeq
<1>3. DOMAIN cmds' = DOMAIN cmds /\ \A j \in DOMAIN cmds : cmds'[j] = IF j = i THEN v ELSE cmds[j]
  OBVIOUS
<1>4. \A j \in DOMAIN cmds' :
         cmds'[j].action = "take" => ~cmds'[j].waiting /\ ~cmds'[j].cancelled
  BY <1>3 DEF Commanded
<1>5. InterruptHasACause'
  <2>1. SUFFICES ASSUME ctx'.interrupt
                 PROVE  \E j \in DOMAIN cmds' : cmds'[j].action = "take" /\ ~cmds'[j].done
    BY DEF InterruptHasACause
  <2>2. PICK j \in DOMAIN cmds : cmds[j].action = "take" /\ ~cmds[j].done
    BY <2>1 DEF Commanded, InterruptHasACause
  <2>3. CASE j = i
    BY <1>3, <2>1, <2>2, <2>3
  <2>4. CASE j # i
    BY <1>3, <2>2, <2>4
  <2>. QED
    BY <2>3, <2>4
<1>. QED
  BY <1>2, <1>4, <1>5 DEF Commanded

LEMMA CommandedKept ==
    ASSUME Commanded, Controlled, done \in Ghosts, [HumanNext]_humanVars
    PROVE  Commanded'
<1>0. /\ DOMAIN cmds = 1..Len(cmds) /\ Len(cmds) \in Nat
      /\ \A i \in 1..Len(cmds) : cmds[i] \in Command
      /\ queue \in Seq(1..Len(cmds)) /\ current \in 0..Len(cmds)
      /\ ctx \in Flags /\ done.human \in Nat
      /\ Good(State, done.human) /\ State.ctx = ctx
  BY CommandFacts, ControlFacts DEF Commanded, Controlled, State, Ghosts
<1>1. CASE ExecuteCommand
  <2>1. /\ Head(queue) \in 1..Len(cmds) /\ queue' \in Seq(1..Len(cmds))
    BY <1>0, <1>1, HeadTailProperties DEF ExecuteCommand
  <2>. DEFINE i == Head(queue)
  <2>2. CASE cmds[i].cancelled
    <3>. DEFINE v == [cmds[i] EXCEPT !.done = TRUE]
    <3>1. cmds' = [cmds EXCEPT ![i] = v] /\ UNCHANGED <<ctx, current>>
      BY <1>1, <2>2 DEF ExecuteCommand
    <3>2. v \in Command /\ v.action = cmds[i].action
      BY <1>0, <2>1 DEF Command
    <3>3. v.action # "take"
      BY <1>0, <2>1, <2>2, <3>2 DEF Commanded
    <3>. HIDE DEF v
    <3>. QED
      BY <1>0, <2>1, <3>1, <3>2, <3>3, ChangeCommanded
  <2>3. CASE ~cmds[i].cancelled
    <3>1. PICK s \in Commands(State) : Become(s)
      BY <1>1, <2>3 DEF ExecuteCommand, Runs, Commands
    <3>2. ctx'.interrupt => ctx.interrupt
      BY <1>0, <3>1, GoodCommand, BecomeGood
    <3>3. cmds' = cmds /\ current' = i
      BY <1>1, <2>3 DEF ExecuteCommand
    <3>4. current' \in 0..Len(cmds)
      BY <1>0, <2>1, <3>3
    <3>. QED
      BY <2>1, <3>2, <3>3, <3>4, SameCommanded
  <2>. QED
    BY <2>2, <2>3
<1>2. CASE EndCommand
  <2>1. current \in 1..Len(cmds)
    BY <1>0, <1>2 DEF EndCommand
  <2>. DEFINE v == [cmds[current] EXCEPT !.done = TRUE]
  <2>2. /\ cmds' = [cmds EXCEPT ![current] = v] /\ queue' = queue /\ current' = 0
        /\ ctx' = [ctx EXCEPT !.interrupt = @ /\ cmds[current].action # "take"]
    BY <1>2 DEF EndCommand
  <2>3. /\ v \in Command /\ v.action = cmds[current].action
        /\ v.waiting = cmds[current].waiting /\ v.cancelled = cmds[current].cancelled
    BY <1>0, <2>1 DEF Command
  <2>4. ctx'.interrupt => ctx.interrupt /\ v.action # "take"
    BY <1>0, <2>2, <2>3 DEF Flags
  <2>5. v.action = "take" => ~v.waiting /\ ~v.cancelled
    BY <1>0, <2>1, <2>3 DEF Commanded
  <2>6. 0 \in 0..Len(cmds)
    BY <1>0
  <2>. HIDE DEF v
  <2>. QED
    BY <1>0, <2>1, <2>2, <2>3, <2>4, <2>5, <2>6, ChangeCommanded
<1>3. CASE SubmitTake
  <2>1. /\ Submit("take") \in Command /\ Submit("take").action = "take"
        /\ ~Submit("take").waiting /\ ~Submit("take").cancelled /\ ~Submit("take").done
    BY DEF Submit, Command, CmdAction
  <2>. QED
    BY <1>3, <2>1, SubmitCommanded DEF SubmitTake
<1>4. ASSUME NEW a \in {"return", "finish"}, SubmitOther(a)
      PROVE  Commanded'
  <2>1. Submit(a) \in Command /\ Submit(a).action # "take"
    BY DEF Submit, Command, CmdAction
  <2>. QED
    BY <1>4, <2>1, SubmitCommanded DEF SubmitOther, Put
<1>5. ASSUME NEW i \in DOMAIN cmds, QueueTake(i) \/ Answered(i) \/ GiveUp(i)
      PROVE  Commanded'
  <2>1. cmds[i] \in Command /\ ctx' = ctx /\ current' = current
    BY <1>0, <1>5 DEF QueueTake, Answered, GiveUp
  <2>2. PICK v \in Command :
          /\ cmds' = [cmds EXCEPT ![i] = v] /\ v.action = cmds[i].action
          /\ v.done = cmds[i].done
          /\ v.action = "take" => ~v.waiting /\ ~v.cancelled
    <3>1. CASE QueueTake(i)
      <4>. DEFINE v == [cmds[i] EXCEPT !.queued = TRUE]
      <4>1. v \in Command /\ v.action = cmds[i].action /\ v.done = cmds[i].done
            /\ v.waiting = cmds[i].waiting /\ v.cancelled = cmds[i].cancelled
        BY <2>1 DEF Command
      <4>2. cmds' = [cmds EXCEPT ![i] = v]
        BY <3>1 DEF QueueTake
      <4>. HIDE DEF v
      <4>. QED
        BY <4>1, <4>2 DEF Commanded
    <3>2. CASE Answered(i)
      <4>. DEFINE v == [cmds[i] EXCEPT !.waiting = FALSE]
      <4>1. v \in Command /\ v.action = cmds[i].action /\ v.done = cmds[i].done
            /\ v.waiting = FALSE /\ v.cancelled = cmds[i].cancelled
        BY <2>1 DEF Command
      <4>2. cmds' = [cmds EXCEPT ![i] = v]
        BY <3>2 DEF Answered
      <4>. HIDE DEF v
      <4>. QED
        BY <4>1, <4>2 DEF Commanded
    <3>3. CASE GiveUp(i)
      <4>. DEFINE v == [cmds[i] EXCEPT !.waiting = FALSE, !.cancelled = TRUE]
      <4>1. v \in Command /\ v.action = cmds[i].action /\ v.done = cmds[i].done
        BY <2>1 DEF Command
      <4>2. cmds' = [cmds EXCEPT ![i] = v] /\ cmds[i].action # "take"
        BY <3>3 DEF GiveUp, Commanded
      <4>. HIDE DEF v
      <4>. QED
        BY <4>1, <4>2
    <3>. QED
      BY <1>5, <3>1, <3>2, <3>3
  <2>3. queue' \in Seq(1..Len(cmds))
    <3>1. i \in 1..Len(cmds)
      BY <1>0
    <3>2. queue' = queue \/ queue' = Append(queue, i)
      BY <1>5 DEF QueueTake, Answered, GiveUp, Put
    <3>3. Append(queue, i) \in Seq(1..Len(cmds))
      BY <1>0, <3>1, AppendProperties, Zenon
    <3>. QED
      BY <1>0, <3>2, <3>3
  <2>. QED
    BY <1>0, <2>1, <2>2, <2>3, ChangeCommanded
<1>6. ASSUME UNCHANGED <<cmds, queue, current>>, ctx'.interrupt => ctx.interrupt
      PROVE  Commanded'
  BY <1>0, <1>6, SameCommanded
<1>7. CASE UNCHANGED <<cmds, queue, current, ctx>>
  BY <1>6, <1>7
<1>8. CASE \/ Gate \/ Drain \/ RunPlanner \/ Navigate \/ Batch \/ Settle \/ Stuck
           \/ CheckCriteria \/ Grade \/ HumanActs \/ UNCHANGED humanVars
  <2>1. UNCHANGED <<cmds, queue, current, ctx>>
    BY <1>8 DEF Gate, Drain, RunPlanner, Navigate, Batch, Settle, Stuck, CheckCriteria, Grade,
                HumanActs, Still, humanVars
  <2>. QED
    BY <1>7, <2>1
<1>9. CASE PlanOrNavigate \/ Finally \/ DeadlinePasses
  <2>1. UNCHANGED <<cmds, queue, current>>
    BY <1>9 DEF PlanOrNavigate, Finally, DeadlinePasses, Still
  <2>2. ctx'.interrupt => ctx.interrupt
    BY <1>0, <1>9 DEF PlanOrNavigate, Finally, DeadlinePasses, Flags
  <2>. QED
    BY <1>6, <2>1, <2>2
<1>10. CASE CancelRun \/ ShouldStop \/ StartManual \/ EndManual
  <2>1. UNCHANGED <<cmds, queue, current>>
    BY <1>10 DEF CancelRun, ShouldStop, StartManual, EndManual, Still
  <2>2. CASE CancelRun
    <3>1. PICK s \in FlushRecorded(State) : Become([s EXCEPT !.ctx.stopped = TRUE])
      BY <2>2 DEF CancelRun
    <3>2. s.ctx = ctx /\ s \in Control
      BY <1>0, GoodFlushRecorded DEF Good
    <3>3. ctx' = [ctx EXCEPT !.stopped = TRUE]
      BY <3>1, <3>2 DEF Become, Control
    <3>. QED
      BY <1>0, <1>6, <2>1, <3>3 DEF Flags
  <2>3. CASE FailTimeout
    <3>1. PICK s \in FlushRecorded(State) \cup {State} :
            Become([s EXCEPT !.ctx = [@ EXCEPT !.controlling = FALSE, !.awaiting = FALSE,
                                               !.timedOut = TRUE, !.stopped = TRUE]])
      BY <2>3 DEF FailTimeout
    <3>2. s.ctx = ctx /\ s \in Control
      BY <1>0, GoodFlushRecorded DEF Good
    <3>3. ctx' = [ctx EXCEPT !.controlling = FALSE, !.awaiting = FALSE,
                             !.timedOut = TRUE, !.stopped = TRUE]
      BY <3>1, <3>2 DEF Become, Control
    <3>. QED
      BY <1>0, <1>6, <2>1, <3>3 DEF Flags
  <2>4. CASE ShouldStop /\ ~FailTimeout
    <3>1. UNCHANGED ctx
      BY <2>4 DEF ShouldStop
    <3>. QED
      BY <1>7, <2>1, <3>1
  <2>5. CASE StartManual
    <3>1. PICK s \in TakeControl(State) : Become(s)
      BY <2>5 DEF StartManual
    <3>2. ctx'.interrupt => ctx.interrupt
      BY <1>0, <3>1, GoodTake, BecomeGood
    <3>. QED
      BY <1>6, <2>1, <3>2
  <2>6. CASE EndManual
    <3>1. UNCHANGED ctx
      <4>1. CASE \E s \in FlushRecorded(State) : \E t \in FlushRecorded(s) : Become(t)
        BY <1>0, <4>1, GoodFlushRecorded DEF Become
      <4>. QED
        BY <2>6, <4>1 DEF EndManual
    <3>. QED
      BY <1>7, <2>1, <3>1
  <2>. QED
    BY <1>10, <2>2, <2>3, <2>4, <2>5, <2>6
<1>. QED
  BY <1>1, <1>2, <1>3, <1>4, <1>5, <1>8, <1>9, <1>10 DEF HumanNext, RunThread, Handlers

-----------------------------------------------------------------------------
(* The invariant                                                             *)

Counted == done \in Ghosts /\ done.human <= MaxHuman /\ runMode \in Modes

HumanInv == Turned /\ Controlled /\ Commanded /\ Counted /\ AgentHandsOff

LEMMA HumanInvInit ==
    HumanInit => HumanInv
<1>. SUFFICES ASSUME HumanInit PROVE HumanInv
  OBVIOUS
<1>1. ctx \in Flags /\ Settled(ctx) /\ ~ctx.interrupt /\ ~ctx.controlling
  BY DEF HumanInit, Flags, Settled
<1>2. done = [human |-> 0, agent |-> 0, faults |-> 0] /\ done \in Ghosts
  BY DEF HumanInit, Ghosts
<1>3. Turned
  <2>1. turn \in Turning
    BY HumanAssumption DEF HumanInit, Turning
  <2>2. turn.step = 0 /\ turn.nSteps = 0 /\ done.agent = 0
    BY <1>2 DEF HumanInit
  <2>. QED
    BY <2>1, <2>2 DEF HumanInit, Turned, Late, LoopAt, Draining, Goal, Outcome
<1>4. Controlled
  <2>1. recorder = [active |-> FALSE, buf |-> <<>>] /\ past = <<>> /\ past \in Seq(Entry)
        /\ recorder \in Recorder
    BY DEF HumanInit, Recorder
  <2>2. State \in Control
    BY <1>1, <1>2, <2>1, HumanAssumption DEF State, Control
  <2>3. Kept(<<>>, <<>>, 0, TRUE)
    BY DEF Kept, Mine
  <2>. QED
    BY <1>1, <1>2, <2>1, <2>2, <2>3 DEF Controlled, Good, State
<1>5. Commanded
  BY <1>1, HumanAssumption DEF HumanInit, Commanded, InterruptHasACause
<1>6. Counted /\ AgentHandsOff
  BY <1>1, <1>2, HumanAssumption DEF HumanInit, Counted, AgentHandsOff
<1>. QED
  BY <1>3, <1>4, <1>5, <1>6 DEF HumanInv

LEMMA CountedKept ==
    ASSUME HumanInv, [HumanNext]_humanVars
    PROVE  Counted'
<1>1. /\ done \in Ghosts /\ done.human <= MaxHuman /\ runMode \in Modes
      /\ done.human \in Nat /\ done.agent \in Nat
  BY DEF HumanInv, Counted, Ghosts
<1>2. Controlled /\ Controlled'
  BY <1>1, ControlledKept DEF HumanInv
<1>3. runMode' = runMode
  BY DEF HumanNext, RunThread, Handlers, ExecuteCommand, EndCommand, Gate, ShouldStop, Drain,
         PlanOrNavigate, RunPlanner, Navigate, Batch, Settle, Stuck, CheckCriteria, Grade,
         Finally, StartManual, EndManual, SubmitTake, SubmitOther, QueueTake, Answered, GiveUp,
         CancelRun, HumanActs, DeadlinePasses, Still, humanVars
<1>4. done.faults' \in Nat
  <2>1. State' \in Control /\ State'.faults = done'.faults
    BY <1>2 DEF Controlled, Good, State
  <2>. QED
    BY <2>1, HumanAssumption DEF Control
<1>5. CASE UNCHANGED done
  BY <1>1, <1>3, <1>5 DEF Counted
<1>6. CASE \E s : Become(s)
  <2>1. PICK s : Become(s)
    BY <1>6
  <2>2. done' = [done EXCEPT !.faults = s.faults]
    BY <2>1 DEF Become
  <2>3. done'.human = done.human /\ done'.faults = s.faults
    BY <1>1, <2>2 DEF Ghosts
  <2>4. done' \in Ghosts
    BY <1>1, <1>4, <2>2, <2>3, Zenon DEF Ghosts
  <2>. QED
    BY <1>1, <1>3, <2>3, <2>4 DEF Counted
<1>7. CASE done' = [done EXCEPT !.agent = @ + 1]
  BY <1>1, <1>3, <1>7 DEF Counted, Ghosts
<1>8. CASE HumanActs
  <2>1. done' = [done EXCEPT !.human = @ + 1] /\ done.human < MaxHuman
    BY <1>8 DEF HumanActs
  <2>. QED
    BY <1>1, <1>3, <2>1, HumanAssumption DEF Counted, Ghosts
<1>9. UNCHANGED done \/ (\E s : Become(s)) \/ done' = [done EXCEPT !.agent = @ + 1] \/ HumanActs
  BY DEF HumanNext, RunThread, Handlers, ExecuteCommand, EndCommand, Gate, ShouldStop, Drain,
         PlanOrNavigate, RunPlanner, Navigate, Batch, Settle, Stuck, CheckCriteria, Grade,
         Finally, StartManual, EndManual, SubmitTake, SubmitOther, QueueTake, Answered, GiveUp,
         CancelRun, DeadlinePasses, FailTimeout, humanVars
<1>. QED
  BY <1>5, <1>6, <1>7, <1>8, <1>9

\* The agent comes to the browser only through the tests of _should_stop, after the
\* commands and while nothing is paused; and no command is executed from then on.
LEMMA HandsOffKept ==
    ASSUME HumanInv, [HumanNext]_humanVars
    PROVE  AgentHandsOff'
<1>0. /\ ctx \in Flags /\ Settled(ctx) /\ turn \in Turning
      /\ then \in {"before", "nav", "iterate"} \/ at \notin {"stopping", "held"}
      /\ Good(State, done.human) /\ State.ctx = ctx /\ done.human \in Nat
  BY ControlFacts DEF HumanInv, Turned, Counted, Ghosts, Controlled, State
<1>1. SUFFICES ASSUME at' \in {"nav", "batch", "settle"}
               PROVE  ~ctx'.controlling
  BY DEF AgentHandsOff
<1>2. ASSUME NEW t, Iterate(t) PROVE FALSE
  BY <1>1, <1>2 DEF Iterate, EndLoop, Goto, Leave
<1>3. ASSUME NEW o, NEW t, EndLoop(o, t) PROVE FALSE
  BY <1>1, <1>3 DEF EndLoop, Goto, Leave
<1>4. CASE ctx' = ctx /\ at' = at
  BY <1>1, <1>4 DEF HumanInv, AgentHandsOff
<1>5. CASE Navigate \/ Batch \/ Settle
  <2>1. ctx' = ctx /\ at \in {"nav", "batch", "settle"}
    BY <1>5 DEF Navigate, Batch, Settle
  <2>. QED
    BY <2>1 DEF HumanInv, AgentHandsOff
<1>6. CASE ShouldStop
  <2>1. Resume /\ ctx' = ctx /\ ~ctx.paused
    BY <1>1, <1>3, <1>6 DEF ShouldStop, Goto
  <2>. QED
    BY <1>0, <2>1 DEF Settled
<1>7. CASE RunPlanner
  BY <1>1, <1>2, <1>7 DEF RunPlanner, AfterPlan, Goto, Leave
<1>8. CASE Gate
  BY <1>1, <1>3, <1>8 DEF Gate, Goto
<1>9. CASE \/ Drain \/ PlanOrNavigate \/ Stuck \/ CheckCriteria \/ Grade \/ Finally
           \/ StartManual \/ EndManual
  BY <1>1, <1>9 DEF Drain, PlanOrNavigate, Stuck, CheckCriteria, Grade, Finally, StartManual,
                    EndManual, Goto, Leave
<1>10. CASE \/ HumanActs \/ UNCHANGED humanVars
            \/ \E a \in {"return", "finish"} : SubmitOther(a)
            \/ \E i \in DOMAIN cmds : QueueTake(i) \/ Answered(i) \/ GiveUp(i)
  <2>1. ctx' = ctx /\ at' = at
    BY <1>10 DEF HumanActs, humanVars, SubmitOther, QueueTake, Answered, GiveUp
  <2>. QED
    BY <1>4, <2>1
<1>11. CASE ExecuteCommand
  BY <1>1, <1>11 DEF ExecuteCommand, Draining
<1>12. CASE SubmitTake \/ EndCommand \/ DeadlinePasses
  <2>1. at' = at /\ ctx'.controlling = ctx.controlling
    BY <1>0, <1>12 DEF SubmitTake, EndCommand, DeadlinePasses, Flags
  <2>. QED
    BY <1>1, <2>1 DEF HumanInv, AgentHandsOff
<1>13. CASE CancelRun
  <2>1. PICK s \in FlushRecorded(State) : Become([s EXCEPT !.ctx.stopped = TRUE])
    BY <1>13 DEF CancelRun
  <2>2. s.ctx = ctx /\ s \in Control
    BY <1>0, GoodFlushRecorded DEF Good
  <2>3. ctx' = [ctx EXCEPT !.stopped = TRUE] /\ at' = at
    BY <1>13, <2>1, <2>2 DEF Become, Control, CancelRun
  <2>4. ctx'.controlling = ctx.controlling
    BY <1>0, <2>3 DEF Flags
  <2>. QED
    BY <1>1, <2>3, <2>4 DEF HumanInv, AgentHandsOff
<1>. QED
  BY <1>5, <1>6, <1>7, <1>8, <1>9, <1>10, <1>11, <1>12, <1>13 DEF HumanNext, RunThread, Handlers

LEMMA HumanInvNext ==
    HumanInv /\ [HumanNext]_humanVars => HumanInv'
<1>. SUFFICES ASSUME HumanInv, [HumanNext]_humanVars PROVE HumanInv'
  OBVIOUS
<1>1. Turned /\ Controlled /\ Commanded /\ done \in Ghosts
  BY DEF HumanInv, Counted
<1>2. Turned' /\ Controlled' /\ Commanded'
  BY <1>1, TurnedKept, ControlledKept, CommandedKept
<1>. QED
  BY <1>2, CountedKept, HandsOffKept DEF HumanInv

LEMMA HumanInvAlways ==
    HumanSpec => []HumanInv
BY HumanInvInit, HumanInvNext, PTL DEF HumanSpec

-----------------------------------------------------------------------------
(* What it implies                                                           *)

\* Every field has its type; of the numbers, that the loop takes at most max_steps
\* iterations, acts at most once in each, and that consecutive_failures stays under
\* max_failures.
THEOREM HumanTypeCorrectness ==
    HumanSpec => []HumanTypeOK
<1>1. HumanInv => HumanTypeOK
  <2>. SUFFICES ASSUME HumanInv PROVE HumanTypeOK
    OBVIOUS
  <2>1. /\ turn \in Turning /\ at \in LoopAt /\ then \in Goal /\ outcome \in Outcome
        /\ done.agent <= turn.step + 1 /\ turn.nSteps <= done.agent
    BY TurnNumbers DEF HumanInv, Turned, Counted, Ghosts
  <2>2. /\ turn.step \in Nat /\ turn.step + 1 <= MaxSteps /\ turn.nSteps \in Nat
        /\ turn.failures \in Nat /\ turn.failures + 1 <= MaxFailures
        /\ turn.planDone \in BOOLEAN
    BY <2>1, TurnNumbers
  <2>3. /\ done \in Ghosts /\ done.human <= MaxHuman /\ runMode \in Modes
        /\ done.human \in Nat /\ done.agent \in Nat
    BY DEF HumanInv, Counted, Ghosts
  <2>4. /\ turn.step \in 0..MaxSteps /\ turn.nSteps \in 0..MaxSteps
        /\ turn.failures \in 0..MaxFailures /\ done.agent \in 0..MaxSteps
        /\ done.human \in 0..MaxHuman
    BY <2>1, <2>2, <2>3, HumanAssumption
  <2>5. turn \in [step : 0..MaxSteps, nSteps : 0..MaxSteps,
                  failures : 0..MaxFailures, planDone : BOOLEAN]
    BY <2>1, <2>2, <2>4, Zenon DEF Turning
  <2>6. /\ ctx \in Flags /\ recorder \in Recorder /\ past \in Seq(Entry)
        /\ done.faults \in 0..MaxFaults
    BY ControlFacts DEF HumanInv
  <2>7. done \in [human : 0..MaxHuman, agent : 0..MaxSteps, faults : 0..MaxFaults]
    BY <2>3, <2>4, <2>6, Zenon DEF Ghosts
  <2>8. /\ cmds \in Seq(Command) /\ Len(cmds) \in 0..Submitted
        /\ queue \in Seq(Cmd) /\ current \in 0..Submitted
    <3>1. /\ cmds \in Seq(Command) /\ Len(cmds) <= Submitted /\ Len(cmds) \in Nat
          /\ queue \in Seq(1..Len(cmds)) /\ current \in 0..Len(cmds)
      BY CommandFacts DEF HumanInv, Commanded
    <3>2. queue \in Seq(1..Submitted)
      BY <3>1, SeqWider, HumanAssumption
    <3>. QED
      BY <3>1, <3>2, HumanAssumption DEF Cmd
  <2>. QED
    BY <2>1, <2>3, <2>5, <2>6, <2>7, <2>8 DEF HumanTypeOK, Recorder
<1>. QED
  BY <1>1, HumanInvAlways, PTL

\* Executor.execute observes, decides and acts only while no human has the browser,
\* however many take-overs are submitted and whenever.
THEOREM HandsOff ==
    HumanSpec => []AgentHandsOff
<1>1. HumanInv => AgentHandsOff
  BY DEF HumanInv
<1>. QED
  BY <1>1, HumanInvAlways, PTL

\* hitl_interrupt is up only for a take-over still to be executed or ended:
\* submit_command raises it, the finally block of process_pending_commands and
\* take_control, return_control and finish_manual lower it.
THEOREM InterruptCause ==
    HumanSpec => []InterruptHasACause
<1>1. HumanInv => InterruptHasACause
  BY DEF HumanInv, Commanded
<1>. QED
  BY <1>1, HumanInvAlways, PTL

\* What a human did is in the history or the recorder's buffer, once and in order,
\* through take-overs on top of one another, a cancel, a deadline and a finish; it
\* is all there unless recorder.start or a flush raised.
THEOREM ActionsKept ==
    HumanSpec => []HumanActionsKept
<1>1. HumanInv => HumanActionsKept
  <2>. SUFFICES ASSUME HumanInv PROVE HumanActionsKept
    OBVIOUS
  <2>1. Kept(past, recorder.buf, done.human, done.faults = 0)
    BY ControlFacts DEF HumanInv
  <2>. QED
    BY <2>1, Zenon DEF Kept, Mine, HumanActionsKept, HumanPast
<1>. QED
  BY <1>1, HumanInvAlways, PTL
=============================================================================
