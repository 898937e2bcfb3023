-------------------------- MODULE TunnelQueueProofs --------------------------
(*****************************************************************************)
(* Lemmas about the queues of frames of CdpTunnel, of any length: what a     *)
(* queue holds of a stream when a frame is put in or taken out, when         *)
(* neighbours are merged, and so what _coalesce_outbox_items makes of a      *)
(* batch and how the frames on their way to the app, on the wire and in the  *)
(* outbox, grow and shrink.                                                  *)
(*****************************************************************************)
EXTENDS CdpTunnel, SubsequenceProofs, WellFoundedInduction

-----------------------------------------------------------------------------
(* What is said of a queue Q of frames                                       *)

MuxKind == {"open", "close", "data"}
Tag(f) == <<f.of, f.id>>

Lacks(Q, kind) == \A q \in DOMAIN Q : Q[q].kind # kind
Once(Q, kind) == \A q, r \in DOMAIN Q : Q[q].kind = kind /\ Q[r].kind = kind => q = r
Precedes(Q, one, other) ==
    \A q, r \in DOMAIN Q : Q[q].kind = one /\ Q[r].kind = other => q < r
Has(Q, kind, s) == \E q \in DOMAIN Q : Q[q].kind = kind /\ Tag(Q[q]) = s

\* Chunk n of stream s is in Q; the chunks of s are there in their order
Holds(f, s, n) == \E k \in DOMAIN f.chunks : f.chunks[k].of = s /\ f.chunks[k].n = n
Carries(Q, s, n) == \E q \in DOMAIN Q : Holds(Q[q], s, n)
Rising(f, s) == \A k, l \in DOMAIN f.chunks :
    k < l /\ f.chunks[k].of = s /\ f.chunks[l].of = s => f.chunks[k].n < f.chunks[l].n
Ordered(Q, s) ==
    /\ \A q \in DOMAIN Q : Rising(Q[q], s)
    /\ \A q, r \in DOMAIN Q, m, n \in Nat :
        q < r /\ Holds(Q[q], s, m) /\ Holds(Q[r], s, n) => m < n

\* Nothing of s is sent before its OPEN, which is sent once
OpenFirst(Q, s) == \A q, r \in DOMAIN Q :
    /\ Q[q].kind = "open" /\ Tag(Q[q]) = s
    /\ Q[r].kind \in {"open", "data"} /\ Tag(Q[r]) = s /\ r <= q
    => r = q
OpenBeforeClose(Q, s) == \A q, r \in DOMAIN Q :
    /\ Q[q].kind = "open" /\ Tag(Q[q]) = s
    /\ Q[r].kind = "close" /\ Tag(Q[r]) = s
    => q < r

-----------------------------------------------------------------------------
(* A frame is put in at the end                                              *)

Grown(Q, R, f) == \E n \in Nat :
    /\ DOMAIN Q = 1..n /\ DOMAIN R = 1..(n + 1) /\ R[n + 1] = f
    /\ \A q \in 1..n : R[q] = Q[q]

LEMMA AppendGrows == ASSUME NEW S, NEW Q \in Seq(S), NEW f \in S PROVE Grown(Q, Append(Q, f), f)
<1>. DEFINE n == Len(Q)
            R == Append(Q, f)
<1>1. n \in Nat /\ DOMAIN Q = 1..n
  BY LenProperties
<1>2. R \in Seq(S) /\ Len(R) = n + 1 /\ R[n + 1] = f /\ \A q \in 1..n : R[q] = Q[q]
  BY AppendProperties
<1>3. DOMAIN R = 1..(n + 1)
  BY <1>2, LenProperties
<1>. HIDE DEF n, R
<1>4. Grown(Q, R, f)
  BY <1>1, <1>2, <1>3 DEF Grown
<1>. QED BY <1>4 DEF R

LEMMA GrownHas ==
    ASSUME NEW Q, NEW R, NEW f, Grown(Q, R, f)
    PROVE  /\ \A kind, s : Has(R, kind, s) <=> Has(Q, kind, s) \/ (f.kind = kind /\ Tag(f) = s)
           /\ \A kind : Lacks(R, kind) <=> Lacks(Q, kind) /\ f.kind # kind
           /\ \A s, n : Carries(R, s, n) <=> Carries(Q, s, n) \/ Holds(f, s, n)
<1>1. PICK m \in Nat : /\ DOMAIN Q = 1..m /\ DOMAIN R = 1..(m + 1) /\ R[m + 1] = f
                       /\ \A q \in 1..m : R[q] = Q[q]
  BY DEF Grown
<1>2. m + 1 \in DOMAIN R /\ \A q \in DOMAIN R : q = m + 1 \/ q \in DOMAIN Q
  BY <1>1
<1>3. \A q \in DOMAIN Q : q \in DOMAIN R /\ R[q] = Q[q]
  BY <1>1
<1>4. R[m + 1] = f
  BY <1>1
<1>. HIDE <1>1
<1>5. \A kind, s : Has(R, kind, s) <=> Has(Q, kind, s) \/ (f.kind = kind /\ Tag(f) = s)
  BY <1>2, <1>3, <1>4, Zenon DEF Has
<1>6. \A kind : Lacks(R, kind) <=> Lacks(Q, kind) /\ f.kind # kind
  BY <1>2, <1>3, <1>4, Zenon DEF Lacks
<1>7. \A s, n : Carries(R, s, n) <=> Carries(Q, s, n) \/ Holds(f, s, n)
  BY <1>2, <1>3, <1>4, Zenon DEF Carries
<1>. QED BY <1>5, <1>6, <1>7

LEMMA GrownOrder ==
    ASSUME NEW Q, NEW R, NEW f, Grown(Q, R, f)
    PROVE  /\ \A kind : Once(Q, kind) /\ (f.kind = kind => Lacks(Q, kind)) => Once(R, kind)
           /\ \A one, other : Precedes(Q, one, other) /\ one # other /\ (f.kind = one => Lacks(Q, other))
                => Precedes(R, one, other)
           /\ \A s : Ordered(Q, s) /\ Rising(f, s)
                     /\ (\A m, n \in Nat : Carries(Q, s, m) /\ Holds(f, s, n) => m < n)
                => Ordered(R, s)
           /\ \A s : OpenFirst(Q, s)
                     /\ (f.kind = "open" /\ Tag(f) = s => ~Has(Q, "open", s) /\ ~Has(Q, "data", s))
                => OpenFirst(R, s)
           /\ \A s : OpenBeforeClose(Q, s)
                     /\ (f.kind = "open" /\ Tag(f) = s => ~Has(Q, "close", s))
                => OpenBeforeClose(R, s)
<1>1. PICK z \in Nat : /\ DOMAIN Q = 1..z /\ DOMAIN R = 1..(z + 1) /\ R[z + 1] = f
                       /\ \A q \in 1..z : R[q] = Q[q]
  BY DEF Grown
<1>2. \A q \in DOMAIN R : q = z + 1 \/ q \in DOMAIN Q
  BY <1>1
<1>3. \A q \in DOMAIN Q : R[q] = Q[q] /\ q < z + 1 /\ ~(z + 1 < q) /\ ~(z + 1 <= q)
  BY <1>1
<1>4. R[z + 1] = f /\ ~(z + 1 < z + 1)
  BY <1>1
<1>. HIDE <1>1
<1>5. ASSUME NEW kind, Once(Q, kind), f.kind = kind => Lacks(Q, kind) PROVE Once(R, kind)
  BY <1>2, <1>3, <1>4, <1>5, Zenon DEF Once, Lacks
<1>6. ASSUME NEW one, NEW other, Precedes(Q, one, other), one # other, f.kind = one => Lacks(Q, other)
      PROVE  Precedes(R, one, other)
  BY <1>2, <1>3, <1>4, <1>6, Zenon DEF Precedes, Lacks
<1>7. ASSUME NEW s, Ordered(Q, s), Rising(f, s),
             \A m, n \in Nat : Carries(Q, s, m) /\ Holds(f, s, n) => m < n
      PROVE  Ordered(R, s)
  <2>1. \A q \in DOMAIN R : Rising(R[q], s)
    BY <1>2, <1>3, <1>4, <1>7, Zenon DEF Ordered
  <2>2. \A q, r \in DOMAIN R, m, n \in Nat :
            q < r /\ Holds(R[q], s, m) /\ Holds(R[r], s, n) => m < n
    BY <1>2, <1>3, <1>4, <1>7, Zenon DEF Ordered, Carries
  <2>. QED BY <2>1, <2>2 DEF Ordered
<1>8. ASSUME NEW s, OpenFirst(Q, s),
             f.kind = "open" /\ Tag(f) = s => ~Has(Q, "open", s) /\ ~Has(Q, "data", s)
      PROVE  OpenFirst(R, s)
  BY <1>2, <1>3, <1>4, <1>8, Zenon DEF OpenFirst, Has
<1>9. ASSUME NEW s, OpenBeforeClose(Q, s), f.kind = "open" /\ Tag(f) = s => ~Has(Q, "close", s)
      PROVE  OpenBeforeClose(R, s)
  BY <1>2, <1>3, <1>4, <1>9, Zenon DEF OpenBeforeClose, Has
<1>. QED BY <1>5, <1>6, <1>7, <1>8, <1>9

-----------------------------------------------------------------------------
(* The frame at the head is taken out                                        *)

Shrunk(Q, R, f) == \E n \in Nat :
    /\ DOMAIN Q = 1..(n + 1) /\ DOMAIN R = 1..n /\ Q[1] = f
    /\ \A q \in 1..n : R[q] = Q[q + 1]

LEMMA TailShrinks ==
    ASSUME NEW S, NEW Q \in Seq(S), Q # <<>>
    PROVE  Shrunk(Q, Tail(Q), Head(Q)) /\ Head(Q) \in S
<1>. DEFINE n == Len(Q) - 1
            R == Tail(Q)
<1>1. n \in Nat /\ DOMAIN Q = 1..(n + 1) /\ Len(Q) = n + 1
  BY LenProperties, EmptySeq
<1>2. R \in Seq(S) /\ Len(R) = n /\ \A q \in 1..Len(R) : R[q] = Q[q + 1]
  BY HeadTailProperties
<1>3. DOMAIN R = 1..n
  BY <1>2, LenProperties
<1>4. Head(Q) \in S
  BY HeadTailProperties
<1>5. Head(Q) = Q[1]
  OBVIOUS
<1>. HIDE DEF n, R
<1>6. Shrunk(Q, R, Q[1])
  BY <1>1, <1>2, <1>3 DEF Shrunk
<1>. QED BY <1>4, <1>5, <1>6 DEF R

LEMMA ShrunkHas ==
    ASSUME NEW Q, NEW R, NEW f, Shrunk(Q, R, f)
    PROVE  /\ \A kind, s : Has(Q, kind, s) <=> Has(R, kind, s) \/ (f.kind = kind /\ Tag(f) = s)
           /\ \A kind : Lacks(Q, kind) <=> Lacks(R, kind) /\ f.kind # kind
           /\ \A s, n : Carries(Q, s, n) <=> Carries(R, s, n) \/ Holds(f, s, n)
<1>1. PICK m \in Nat : /\ DOMAIN Q = 1..(m + 1) /\ DOMAIN R = 1..m /\ Q[1] = f
                       /\ \A q \in 1..m : R[q] = Q[q + 1]
  BY DEF Shrunk
<1>2. 1 \in DOMAIN Q /\ Q[1] = f
  BY <1>1
<1>3. \A q \in DOMAIN R : q + 1 \in DOMAIN Q /\ R[q] = Q[q + 1]
  BY <1>1
<1>4. \A q \in DOMAIN Q : q = 1 \/ \E r \in DOMAIN R : Q[q] = R[r]
  <2>1. \A q \in DOMAIN Q : q = 1 \/ (q - 1 \in DOMAIN R /\ Q[q] = R[q - 1])
    BY <1>1
  <2>. QED BY <2>1
<1>. HIDE <1>1
<1>5. \A kind, s : Has(Q, kind, s) <=> Has(R, kind, s) \/ (f.kind = kind /\ Tag(f) = s)
  BY <1>2, <1>3, <1>4, Zenon DEF Has
<1>6. \A kind : Lacks(Q, kind) <=> Lacks(R, kind) /\ f.kind # kind
  BY <1>2, <1>3, <1>4, Zenon DEF Lacks
<1>7. \A s, n : Carries(Q, s, n) <=> Carries(R, s, n) \/ Holds(f, s, n)
  BY <1>2, <1>3, <1>4, Zenon DEF Carries
<1>. QED BY <1>5, <1>6, <1>7

LEMMA ShrunkOrder ==
    ASSUME NEW Q, NEW R, NEW f, Shrunk(Q, R, f)
    PROVE  /\ \A kind : Once(Q, kind) => Once(R, kind) /\ (f.kind = kind => Lacks(R, kind))
           /\ \A one, other : Precedes(Q, one, other) =>
                Precedes(R, one, other) /\ (f.kind = other => Lacks(R, one))
           /\ \A s : Ordered(Q, s) =>
                /\ Ordered(R, s) /\ Rising(f, s)
                /\ \A m, n \in Nat : Holds(f, s, m) /\ Carries(R, s, n) => m < n
           /\ \A s : OpenFirst(Q, s) =>
                /\ OpenFirst(R, s)
                /\ f.kind \in {"open", "data"} /\ Tag(f) = s => ~Has(R, "open", s)
           /\ \A s : OpenBeforeClose(Q, s) =>
                /\ OpenBeforeClose(R, s)
                /\ f.kind = "close" /\ Tag(f) = s => ~Has(R, "open", s)
<1>1. PICK z \in Nat : /\ DOMAIN Q = 1..(z + 1) /\ DOMAIN R = 1..z /\ Q[1] = f
                       /\ \A q \in 1..z : R[q] = Q[q + 1]
  BY DEF Shrunk
<1>2. 1 \in DOMAIN Q /\ Q[1] = f
  BY <1>1
<1>3. \A q \in DOMAIN R : /\ q + 1 \in DOMAIN Q /\ R[q] = Q[q + 1] /\ 1 < q + 1 /\ q + 1 # 1
                          /\ 1 <= q + 1 /\ ~(q + 1 < 1)
  BY <1>1
<1>4. \A q, r \in DOMAIN R : /\ q + 1 = r + 1 => q = r
                             /\ q < r <=> q + 1 < r + 1
                             /\ q <= r <=> q + 1 <= r + 1
  BY <1>1
<1>. HIDE <1>1
<1>5. ASSUME NEW kind, Once(Q, kind) PROVE Once(R, kind) /\ (f.kind = kind => Lacks(R, kind))
  <2>1. Once(R, kind)
    BY <1>3, <1>4, <1>5, Zenon DEF Once
  <2>2. f.kind = kind => Lacks(R, kind)
    BY <1>2, <1>3, <1>5, Zenon DEF Once, Lacks
  <2>. QED BY <2>1, <2>2
<1>6. ASSUME NEW one, NEW other, Precedes(Q, one, other)
      PROVE  Precedes(R, one, other) /\ (f.kind = other => Lacks(R, one))
  BY <1>2, <1>3, <1>4, <1>6, Zenon DEF Precedes, Lacks
<1>7. ASSUME NEW s, Ordered(Q, s)
      PROVE  /\ Ordered(R, s) /\ Rising(f, s)
             /\ \A m, n \in Nat : Holds(f, s, m) /\ Carries(R, s, n) => m < n
  <2>1. \A q \in DOMAIN R : Rising(R[q], s)
    BY <1>3, <1>7, Zenon DEF Ordered
  <2>2. \A q, r \in DOMAIN R, m, n \in Nat :
            q < r /\ Holds(R[q], s, m) /\ Holds(R[r], s, n) => m < n
    <3>1. TAKE q, r \in DOMAIN R, m, n \in Nat
    <3>2. HAVE q < r /\ Holds(R[q], s, m) /\ Holds(R[r], s, n)
    <3>3. /\ q + 1 \in DOMAIN Q /\ R[q] = Q[q + 1] /\ r + 1 \in DOMAIN Q /\ R[r] = Q[r + 1]
          /\ q + 1 < r + 1
      BY <1>3, <1>4, <3>2
    <3>. QED BY <3>2, <3>3, <1>7, Zenon DEF Ordered
  <2>3. Rising(f, s)
    BY <1>2, <1>7, Zenon DEF Ordered
  <2>4. \A m, n \in Nat : Holds(f, s, m) /\ Carries(R, s, n) => m < n
    BY <1>2, <1>3, <1>7, Zenon DEF Ordered, Carries
  <2>. QED BY <2>1, <2>2, <2>3, <2>4 DEF Ordered
<1>8. ASSUME NEW s, OpenFirst(Q, s)
      PROVE  /\ OpenFirst(R, s)
             /\ f.kind \in {"open", "data"} /\ Tag(f) = s => ~Has(R, "open", s)
  <2>1. f.kind \in {"open", "data"} /\ Tag(f) = s => ~Has(R, "open", s)
    BY <1>2, <1>3, <1>8, Zenon DEF OpenFirst, Has
  <2>2. ASSUME NEW q \in DOMAIN R, NEW r \in DOMAIN R, R[q].kind = "open", Tag(R[q]) = s,
               R[r].kind \in {"open", "data"}, Tag(R[r]) = s, r <= q
        PROVE  r = q
    <3>1. /\ q + 1 \in DOMAIN Q /\ R[q] = Q[q + 1] /\ r + 1 \in DOMAIN Q /\ R[r] = Q[r + 1]
          /\ r + 1 <= q + 1
      BY <1>3, <1>4, <2>2
    <3>2. r + 1 = q + 1
      BY <3>1, <2>2, <1>8, Zenon DEF OpenFirst
    <3>. QED BY <3>2, <1>4
  <2>. QED BY <2>1, <2>2 DEF OpenFirst
<1>9. ASSUME NEW s, OpenBeforeClose(Q, s)
      PROVE  /\ OpenBeforeClose(R, s)
             /\ f.kind = "close" /\ Tag(f) = s => ~Has(R, "open", s)
  BY <1>2, <1>3, <1>4, <1>9, Zenon DEF OpenBeforeClose, Has
<1>. QED BY <1>5, <1>6, <1>7, <1>8, <1>9

-----------------------------------------------------------------------------
(* Neighbours become one frame                                               *)

\* Frame q of Q is a part of frame g[q] of R: its chunks are those behind the
\* first h[q] there
Parts(g, h, Q, R) ==
    /\ \A q \in DOMAIN Q : g[q] \in DOMAIN R /\ h[q] \in Nat
    /\ \A r \in DOMAIN R : \E q \in DOMAIN Q : g[q] = r
    /\ \A q, r \in DOMAIN Q : q < r => g[q] <= g[r]
    /\ \A q \in DOMAIN Q : R[g[q]].kind = Q[q].kind /\ Tag(R[g[q]]) = Tag(Q[q])
    /\ \A q, r \in DOMAIN Q : g[q] = g[r] /\ q # r => Q[q].kind = "data"
    /\ \A q \in DOMAIN Q : \A k \in DOMAIN Q[q].chunks :
          h[q] + k \in DOMAIN R[g[q]].chunks /\ R[g[q]].chunks[h[q] + k] = Q[q].chunks[k]
    /\ \A r \in DOMAIN R : \A l \in DOMAIN R[r].chunks :
          \E q \in DOMAIN Q : g[q] = r /\ \E k \in DOMAIN Q[q].chunks : l = h[q] + k
    /\ \A q, r \in DOMAIN Q : q < r /\ g[q] = g[r] =>
          \A k \in DOMAIN Q[q].chunks, l \in DOMAIN Q[r].chunks : h[q] + k < h[r] + l
Merged(Q, R) == \E g, h : Parts(g, h, Q, R)

LEMMA MergedHas ==
    ASSUME NEW Q, NEW R, Merged(Q, R)
    PROVE  /\ \A kind, s : Has(Q, kind, s) <=> Has(R, kind, s)
           /\ \A kind : Lacks(Q, kind) <=> Lacks(R, kind)
           /\ \A s, n : Carries(Q, s, n) <=> Carries(R, s, n)
<1>0. PICK g, h : Parts(g, h, Q, R)
  BY DEF Merged
<1>1. /\ \A q \in DOMAIN Q : g[q] \in DOMAIN R
      /\ \A r \in DOMAIN R : \E q \in DOMAIN Q : g[q] = r
      /\ \A q \in DOMAIN Q : R[g[q]].kind = Q[q].kind /\ Tag(R[g[q]]) = Tag(Q[q])
  BY <1>0, Zenon DEF Parts
<1>6. /\ \A q \in DOMAIN Q : \E r \in DOMAIN R : R[r].kind = Q[q].kind /\ Tag(R[r]) = Tag(Q[q])
      /\ \A r \in DOMAIN R : \E q \in DOMAIN Q : Q[q].kind = R[r].kind /\ Tag(Q[q]) = Tag(R[r])
  <2>1. ASSUME NEW r \in DOMAIN R
        PROVE  \E q \in DOMAIN Q : Q[q].kind = R[r].kind /\ Tag(Q[q]) = Tag(R[r])
    <3>1. PICK q \in DOMAIN Q : g[q] = r
      BY <1>1
    <3>2. R[g[q]].kind = Q[q].kind /\ Tag(R[g[q]]) = Tag(Q[q])
      BY <1>1
    <3>. QED BY <3>1, <3>2
  <2>. QED BY <1>1, <2>1, Zenon
<1>2. \A kind, s : Has(Q, kind, s) <=> Has(R, kind, s)
  BY <1>6 DEF Has
<1>3. \A kind : Lacks(Q, kind) <=> Lacks(R, kind)
  BY <1>6 DEF Lacks
<1>4. ASSUME NEW s, NEW n, Carries(Q, s, n) PROVE Carries(R, s, n)
  <2>1. PICK q \in DOMAIN Q : Holds(Q[q], s, n)
    BY <1>4 DEF Carries
  <2>2. PICK k \in DOMAIN Q[q].chunks : Q[q].chunks[k].of = s /\ Q[q].chunks[k].n = n
    BY <2>1 DEF Holds
  <2>3. h[q] + k \in DOMAIN R[g[q]].chunks /\ R[g[q]].chunks[h[q] + k] = Q[q].chunks[k]
    BY <1>0, Zenon DEF Parts
  <2>4. Holds(R[g[q]], s, n)
    BY <2>2, <2>3, Zenon DEF Holds
  <2>. QED BY <2>4, <1>1, Zenon DEF Carries
<1>5. ASSUME NEW s, NEW n, Carries(R, s, n) PROVE Carries(Q, s, n)
  <2>1. PICK r \in DOMAIN R : Holds(R[r], s, n)
    BY <1>5 DEF Carries
  <2>2. PICK l \in DOMAIN R[r].chunks : R[r].chunks[l].of = s /\ R[r].chunks[l].n = n
    BY <2>1 DEF Holds
  <2>3. PICK q \in DOMAIN Q : g[q] = r /\ \E k \in DOMAIN Q[q].chunks : l = h[q] + k
    BY <1>0, Zenon DEF Parts
  <2>4. PICK k \in DOMAIN Q[q].chunks : l = h[q] + k
    BY <2>3
  <2>5. R[r].chunks[l] = Q[q].chunks[k]
    BY <1>0, <2>3, <2>4, Zenon DEF Parts
  <2>6. Holds(Q[q], s, n)
    BY <2>2, <2>5, Zenon DEF Holds
  <2>. QED BY <2>6 DEF Carries
<1>. QED BY <1>2, <1>3, <1>4, <1>5

LEMMA MergedOrder ==
    ASSUME NEW Q, NEW R, Merged(Q, R), NEW m \in Nat, DOMAIN Q = 1..m, NEW n \in Nat, DOMAIN R = 1..n,
           \A q \in DOMAIN Q : \A k \in DOMAIN Q[q].chunks : k \in Nat /\ Q[q].chunks[k].n \in Nat
    PROVE  /\ \A kind : kind # "data" /\ Once(Q, kind) => Once(R, kind)
           /\ \A one, other : one # other /\ Precedes(Q, one, other) => Precedes(R, one, other)
           /\ \A s : Ordered(Q, s) => Ordered(R, s)
           /\ \A s : OpenFirst(Q, s) => OpenFirst(R, s)
           /\ \A s : OpenBeforeClose(Q, s) => OpenBeforeClose(R, s)
<1>0. PICK g, h : Parts(g, h, Q, R)
  BY DEF Merged
<1>1. /\ \A q \in DOMAIN Q : g[q] \in DOMAIN R
      /\ \A r \in DOMAIN R : \E q \in DOMAIN Q : g[q] = r
      /\ \A q \in DOMAIN Q : R[g[q]].kind = Q[q].kind /\ Tag(R[g[q]]) = Tag(Q[q])
  BY <1>0, Zenon DEF Parts
<1>2. \A q, r \in DOMAIN Q : /\ g[q] < g[r] => q < r
                             /\ q < r => g[q] <= g[r]
                             /\ q = r => g[q] = g[r]
                             /\ q < r \/ r < q \/ q = r
  <2>1. \A q, r \in DOMAIN Q : q < r => g[q] <= g[r]
    BY <1>0, Zenon DEF Parts
  <2>2. \A q \in DOMAIN Q : q \in Int /\ g[q] \in Int
    BY <1>1
  <2>. QED BY <2>1, <2>2
<1>3. ASSUME NEW kind, kind # "data", Once(Q, kind) PROVE Once(R, kind)
  <2>1. ASSUME NEW q \in DOMAIN R, NEW r \in DOMAIN R, R[q].kind = kind, R[r].kind = kind
        PROVE  q = r
    <3>1. PICK x \in DOMAIN Q : g[x] = q
      BY <1>1
    <3>2. PICK y \in DOMAIN Q : g[y] = r
      BY <1>1
    <3>3. Q[x].kind = kind /\ Q[y].kind = kind
      BY <1>1, <2>1, <3>1, <3>2
    <3>4. x = y
      BY <1>3, <3>3, Zenon DEF Once
    <3>. QED BY <3>1, <3>2, <3>4
  <2>. QED BY <2>1 DEF Once
<1>4. ASSUME NEW one, NEW other, one # other, Precedes(Q, one, other) PROVE Precedes(R, one, other)
  <2>1. ASSUME NEW q \in DOMAIN R, NEW r \in DOMAIN R, R[q].kind = one, R[r].kind = other
        PROVE  q < r
    <3>1. PICK x \in DOMAIN Q : g[x] = q
      BY <1>1
    <3>2. PICK y \in DOMAIN Q : g[y] = r
      BY <1>1
    <3>3. Q[x].kind = one /\ Q[y].kind = other
      BY <1>1, <2>1, <3>1, <3>2
    <3>4. x < y
      BY <1>4, <3>3, Zenon DEF Precedes
    <3>5. q <= r /\ q # r
      BY <1>2, <1>4, <2>1, <3>1, <3>2, <3>4
    <3>. QED BY <3>5
  <2>. QED BY <2>1 DEF Precedes
<1>5. ASSUME NEW s, OpenFirst(Q, s) PROVE OpenFirst(R, s)
  <2>1. ASSUME NEW q \in DOMAIN R, NEW r \in DOMAIN R, R[q].kind = "open", Tag(R[q]) = s,
               R[r].kind \in {"open", "data"}, Tag(R[r]) = s, r <= q, r # q
        PROVE  FALSE
    <3>1. PICK x \in DOMAIN Q : g[x] = q
      BY <1>1
    <3>2. PICK y \in DOMAIN Q : g[y] = r
      BY <1>1
    <3>3. Q[x].kind = "open" /\ Tag(Q[x]) = s /\ Q[y].kind \in {"open", "data"} /\ Tag(Q[y]) = s
      BY <1>1, <2>1, <3>1, <3>2, Zenon
    <3>4. y <= x
      <4>1. g[y] < g[x]
        BY <2>1, <3>1, <3>2
      <4>. QED BY <1>2, <4>1
    <3>5. y = x
      BY <1>5, <3>3, <3>4, Zenon DEF OpenFirst
    <3>. QED BY <3>1, <3>2, <3>5, <2>1
  <2>. QED BY <2>1 DEF OpenFirst
<1>6. ASSUME NEW s, OpenBeforeClose(Q, s) PROVE OpenBeforeClose(R, s)
  <2>1. ASSUME NEW q \in DOMAIN R, NEW r \in DOMAIN R, R[q].kind = "open", Tag(R[q]) = s,
               R[r].kind = "close", Tag(R[r]) = s
        PROVE  q < r
    <3>1. PICK x \in DOMAIN Q : g[x] = q
      BY <1>1
    <3>2. PICK y \in DOMAIN Q : g[y] = r
      BY <1>1
    <3>3. Q[x].kind = "open" /\ Tag(Q[x]) = s /\ Q[y].kind = "close" /\ Tag(Q[y]) = s
      BY <1>1, <2>1, <3>1, <3>2, Zenon
    <3>4. x < y
      BY <1>6, <3>3, Zenon DEF OpenBeforeClose
    <3>5. q <= r /\ q # r
      BY <1>2, <2>1, <3>1, <3>2, <3>4
    <3>. QED BY <3>5
  <2>. QED BY <2>1 DEF OpenBeforeClose
<1>7. ASSUME NEW s, Ordered(Q, s) PROVE Ordered(R, s)
  <2>0. ASSUME NEW r \in DOMAIN R, NEW l \in DOMAIN R[r].chunks
        PROVE  \E q \in DOMAIN Q : g[q] = r /\ \E k \in DOMAIN Q[q].chunks :
                  l = h[q] + k /\ R[r].chunks[l] = Q[q].chunks[k]
    <3>1. PICK q \in DOMAIN Q : g[q] = r /\ \E k \in DOMAIN Q[q].chunks : l = h[q] + k
      BY <1>0, Zenon DEF Parts
    <3>2. PICK k \in DOMAIN Q[q].chunks : l = h[q] + k
      BY <3>1
    <3>3. R[g[q]].chunks[h[q] + k] = Q[q].chunks[k]
      BY <1>0, Zenon DEF Parts
    <3>4. R[r].chunks[l] = Q[q].chunks[k]
      BY <3>1, <3>2, <3>3
    <3>. QED BY <3>1, <3>2, <3>4
  <2>1. ASSUME NEW r \in DOMAIN R, NEW k \in DOMAIN R[r].chunks, NEW l \in DOMAIN R[r].chunks,
               k < l, R[r].chunks[k].of = s, R[r].chunks[l].of = s
        PROVE  R[r].chunks[k].n < R[r].chunks[l].n
    <3>1. PICK x \in DOMAIN Q : g[x] = r /\ \E i \in DOMAIN Q[x].chunks :
              k = h[x] + i /\ R[r].chunks[k] = Q[x].chunks[i]
      BY <2>0
    <3>2. PICK i \in DOMAIN Q[x].chunks : k = h[x] + i /\ R[r].chunks[k] = Q[x].chunks[i]
      BY <3>1
    <3>3. PICK y \in DOMAIN Q : g[y] = r /\ \E j \in DOMAIN Q[y].chunks :
              l = h[y] + j /\ R[r].chunks[l] = Q[y].chunks[j]
      BY <2>0
    <3>4. PICK j \in DOMAIN Q[y].chunks : l = h[y] + j /\ R[r].chunks[l] = Q[y].chunks[j]
      BY <3>3
    <3>5. /\ i \in Nat /\ j \in Nat /\ Q[x].chunks[i].n \in Nat /\ Q[y].chunks[j].n \in Nat
          /\ h[x] \in Nat /\ h[y] \in Nat
      BY <1>0 DEF Parts
    <3>6. Holds(Q[x], s, Q[x].chunks[i].n) /\ Holds(Q[y], s, Q[y].chunks[j].n)
      BY <2>1, <3>2, <3>4, Zenon DEF Holds
    <3>7. CASE x < y
      <4>1. Q[x].chunks[i].n < Q[y].chunks[j].n
        BY <1>7, <3>5, <3>6, <3>7, Zenon DEF Ordered
      <4>. QED BY <4>1, <3>2, <3>4
    <3>8. CASE y < x
      <4>1. h[y] + j < h[x] + i
        BY <1>0, <3>1, <3>3, <3>8, Zenon DEF Parts
      <4>2. l < k
        <5>1. l = h[y] + j /\ k = h[x] + i
          BY <3>2, <3>4
        <5>. QED BY <4>1, <5>1, Zenon
      <4>3. k \in Int /\ l \in Int
        <5>1. l = h[y] + j /\ k = h[x] + i
          BY <3>2, <3>4
        <5>2. h[x] + i \in Int /\ h[y] + j \in Int
          BY <3>5
        <5>. QED BY <5>1, <5>2, Zenon
      <4>. QED BY <4>2, <4>3, <2>1
    <3>9. CASE x = y
      <4>1. i < j
        BY <2>1, <3>2, <3>4, <3>5, <3>9
      <4>2. Rising(Q[x], s)
        BY <1>7 DEF Ordered
      <4>3. Q[x].chunks[i].of = s /\ Q[x].chunks[j].of = s
        BY <2>1, <3>2, <3>4, <3>9
      <4>4. Q[x].chunks[i].n < Q[x].chunks[j].n
        BY <4>1, <4>2, <4>3, <3>9, Zenon DEF Rising
      <4>. QED BY <4>4, <3>2, <3>4, <3>9
    <3>. QED BY <1>2, <3>7, <3>8, <3>9
  <2>2. ASSUME NEW q \in DOMAIN R, NEW r \in DOMAIN R, NEW a \in Nat, NEW b \in Nat,
               q < r, Holds(R[q], s, a), Holds(R[r], s, b)
        PROVE  a < b
    <3>1. PICK k \in DOMAIN R[q].chunks : R[q].chunks[k].of = s /\ R[q].chunks[k].n = a
      BY <2>2 DEF Holds
    <3>2. PICK l \in DOMAIN R[r].chunks : R[r].chunks[l].of = s /\ R[r].chunks[l].n = b
      BY <2>2 DEF Holds
    <3>3. PICK x \in DOMAIN Q : g[x] = q /\ \E i \in DOMAIN Q[x].chunks :
              k = h[x] + i /\ R[q].chunks[k] = Q[x].chunks[i]
      BY <2>0
    <3>4. PICK y \in DOMAIN Q : g[y] = r /\ \E j \in DOMAIN Q[y].chunks :
              l = h[y] + j /\ R[r].chunks[l] = Q[y].chunks[j]
      BY <2>0
    <3>5. Holds(Q[x], s, a) /\ Holds(Q[y], s, b)
      BY <3>1, <3>2, <3>3, <3>4, Zenon DEF Holds
    <3>6. x < y
      BY <1>2, <2>2, <3>3, <3>4
    <3>. QED BY <3>5, <3>6, <1>7, Zenon DEF Ordered
  <2>3. \A r \in DOMAIN R : Rising(R[r], s)
    BY <2>1 DEF Rising
  <2>. QED BY <2>2, <2>3 DEF Ordered
<1>. QED BY <1>3, <1>4, <1>5, <1>6, <1>7

\* The elements of x \o y are those of x, then those of y
LEMMA Joint ==
    ASSUME NEW S, NEW x \in Seq(S), NEW y \in Seq(S)
    PROVE  /\ Len(x) \in Nat /\ Len(y) \in Nat /\ DOMAIN x = 1..Len(x) /\ DOMAIN y = 1..Len(y)
           /\ x \o y \in Seq(S) /\ DOMAIN (x \o y) = 1..(Len(x) + Len(y))
           /\ \A i \in 1..Len(x) : (x \o y)[i] = x[i]
           /\ \A i \in 1..Len(y) : (x \o y)[Len(x) + i] = y[i]
<1>. DEFINE z == x \o y
<1>1. /\ Len(x) \in Nat /\ Len(y) \in Nat /\ DOMAIN x = 1..Len(x) /\ DOMAIN y = 1..Len(y)
      /\ z \in Seq(S) /\ Len(z) = Len(x) + Len(y)
      /\ \A i \in 1..(Len(x) + Len(y)) : z[i] = IF i <= Len(x) THEN x[i] ELSE y[i - Len(x)]
  BY ConcatProperties, LenProperties
<1>2. DOMAIN z = 1..(Len(x) + Len(y))
  BY <1>1, LenProperties
<1>. HIDE DEF z
<1>3. \A i \in 1..Len(x) : z[i] = x[i]
  BY <1>1
<1>4. \A i \in 1..Len(y) : z[Len(x) + i] = y[i]
  <2>1. TAKE i \in 1..Len(y)
  <2>2. Len(x) + i \in 1..(Len(x) + Len(y)) /\ ~(Len(x) + i <= Len(x)) /\ Len(x) + i - Len(x) = i
    BY <1>1
  <2>. QED BY <1>1, <2>2
<1>5. /\ z \in Seq(S) /\ DOMAIN z = 1..(Len(x) + Len(y))
      /\ \A i \in 1..Len(x) : z[i] = x[i]
      /\ \A i \in 1..Len(y) : z[Len(x) + i] = y[i]
  BY <1>1, <1>2, <1>3, <1>4
<1>. QED BY <1>1, <1>5 DEF z

\* What stands before or behind the merged frames stays as it is.
LEMMA MergedBehind ==
    ASSUME NEW S, NEW x \in Seq(S), NEW Q \in Seq(S), NEW R \in Seq(S), Merged(Q, R),
           \A q \in S : \A k \in DOMAIN q.chunks : k \in Nat
    PROVE  Merged(x \o Q, x \o R)
<1>0. PICK g, h : Parts(g, h, Q, R)
  BY DEF Merged
<1>. DEFINE n == Len(x)
            p == Len(Q)
            z == Len(R)
            A == x \o Q
            B == x \o R
<1>1. /\ n \in Nat /\ p \in Nat /\ z \in Nat /\ DOMAIN Q = 1..p /\ DOMAIN R = 1..z
      /\ DOMAIN A = 1..(n + p) /\ DOMAIN B = 1..(n + z)
      /\ \A i \in 1..n : A[i] = x[i] /\ B[i] = x[i]
      /\ \A i \in 1..p : A[n + i] = Q[i]
      /\ \A i \in 1..z : B[n + i] = R[i]
      /\ \A i \in 1..n : x[i] \in S
  BY Joint, ElementOfSeq
<1>. HIDE DEF n, p, z, A, B
<1>. DEFINE gg == [i \in 1..(n + p) |-> IF i <= n THEN i ELSE n + g[i - n]]
            hh == [i \in 1..(n + p) |-> IF i <= n THEN 0 ELSE h[i - n]]
<1>2. \A i \in 1..n : i \in DOMAIN A /\ i \in DOMAIN B /\ gg[i] = i /\ hh[i] = 0
  BY <1>1
<1>3. \A i \in 1..p : n + i \in DOMAIN A /\ gg[n + i] = n + g[i] /\ hh[n + i] = h[i]
  <2>1. TAKE i \in 1..p
  <2>2. n + i \in 1..(n + p) /\ ~(n + i <= n) /\ n + i - n = i
    BY <1>1
  <2>. QED BY <2>2, <1>1
<1>. HIDE DEF gg, hh
<1>4. /\ \A i \in 1..p : g[i] \in 1..z /\ h[i] \in Nat
      /\ \A i \in 1..p : n + g[i] \in DOMAIN B /\ B[n + g[i]] = R[g[i]]
  <2>1. \A i \in 1..p : g[i] \in 1..z /\ h[i] \in Nat
    BY <1>0, <1>1, Zenon DEF Parts
  <2>. QED BY <2>1, <1>1
<1>5. \A q \in DOMAIN A : q \in 1..n \/ \E i \in 1..p : q = n + i
  <2>1. \A q \in DOMAIN A : q \in 1..n \/ (q - n \in 1..p /\ q = n + (q - n))
    BY <1>1
  <2>. QED BY <2>1
<1>6. \A r \in DOMAIN B : r \in 1..n \/ \E i \in 1..z : r = n + i
  <2>1. \A r \in DOMAIN B : r \in 1..n \/ (r - n \in 1..z /\ r = n + (r - n))
    BY <1>1
  <2>. QED BY <2>1
<1>7. \A q \in DOMAIN A : gg[q] \in DOMAIN B /\ hh[q] \in Nat
  BY <1>2, <1>3, <1>4, <1>5
<1>8. \A r \in DOMAIN B : \E q \in DOMAIN A : gg[q] = r
  <2>1. ASSUME NEW i \in 1..z PROVE \E q \in DOMAIN A : gg[q] = n + i
    <3>1. PICK j \in 1..p : g[j] = i
      BY <1>0, <1>1, Zenon DEF Parts
    <3>. QED BY <3>1, <1>3
  <2>. QED BY <1>2, <1>6, <2>1
<1>9. \A q, r \in DOMAIN A : q < r => gg[q] <= gg[r]
  <2>1. ASSUME NEW i \in 1..p, NEW j \in 1..p, i < j PROVE g[i] <= g[j]
    BY <1>0, <1>1, <2>1, Zenon DEF Parts
  <2>2. ASSUME NEW q \in DOMAIN A, NEW r \in DOMAIN A, q < r PROVE gg[q] <= gg[r]
    <3>1. CASE q \in 1..n /\ r \in 1..n
      BY <3>1, <2>2, <1>2
    <3>2. CASE q \in 1..n /\ \E j \in 1..p : r = n + j
      <4>1. PICK j \in 1..p : r = n + j
        BY <3>2
      <4>2. gg[q] = q /\ gg[r] = n + g[j]
        BY <3>2, <4>1, <1>2, <1>3
      <4>3. g[j] \in 1..z
        BY <1>4
      <4>. QED BY <3>2, <4>2, <4>3, <1>1
    <3>3. CASE (\E i \in 1..p : q = n + i) /\ r \in 1..n
      BY <3>3, <2>2, <1>1
    <3>4. CASE (\E i \in 1..p : q = n + i) /\ (\E j \in 1..p : r = n + j)
      <4>1. PICK i \in 1..p : q = n + i
        BY <3>4
      <4>2. PICK j \in 1..p : r = n + j
        BY <3>4
      <4>3. i < j
        BY <4>1, <4>2, <2>2, <1>1
      <4>4. g[i] <= g[j]
        BY <4>3, <2>1
      <4>6. g[i] \in 1..z /\ g[j] \in 1..z
        BY <1>4
      <4>5. n + g[i] <= n + g[j]
        <5>1. g[i] \in Int /\ g[j] \in Int /\ n \in Int
          BY <4>6, <1>1
        <5>. QED BY <4>4, <5>1
      <4>. QED BY <4>1, <4>2, <4>5, <1>3
    <3>. QED BY <1>5, <3>1, <3>2, <3>3, <3>4
  <2>. QED BY <2>2
<1>10. \A q \in DOMAIN A : B[gg[q]].kind = A[q].kind /\ Tag(B[gg[q]]) = Tag(A[q])
  <2>1. ASSUME NEW i \in 1..p PROVE R[g[i]].kind = Q[i].kind /\ Tag(R[g[i]]) = Tag(Q[i])
    BY <1>0, <1>1, Zenon DEF Parts
  <2>2. ASSUME NEW i \in 1..p
        PROVE  B[gg[n + i]].kind = A[n + i].kind /\ Tag(B[gg[n + i]]) = Tag(A[n + i])
    <3>1. A[n + i] = Q[i] /\ gg[n + i] = n + g[i] /\ B[n + g[i]] = R[g[i]]
      BY <1>1, <1>3, <1>4
    <3>. QED BY <2>1, <3>1
  <2>3. ASSUME NEW i \in 1..n PROVE B[gg[i]].kind = A[i].kind /\ Tag(B[gg[i]]) = Tag(A[i])
    BY <1>1, <1>2
  <2>. QED BY <1>5, <2>2, <2>3
<1>11. \A q, r \in DOMAIN A : gg[q] = gg[r] /\ q # r => A[q].kind = "data"
  <2>1. ASSUME NEW i \in 1..p, NEW j \in 1..p, g[i] = g[j], i # j PROVE Q[i].kind = "data"
    BY <1>0, <1>1, <2>1, Zenon DEF Parts
  <2>2. ASSUME NEW q \in DOMAIN A, NEW r \in DOMAIN A, gg[q] = gg[r], q # r
        PROVE  \E i \in 1..p : A[q] = Q[i] /\ \E j \in 1..p : g[i] = g[j] /\ i # j
    <3>1. CASE q \in 1..n /\ r \in 1..n
      BY <3>1, <2>2, <1>2
    <3>2. CASE q \in 1..n /\ \E j \in 1..p : r = n + j
      <4>1. PICK j \in 1..p : r = n + j
        BY <3>2
      <4>2. gg[q] = q /\ gg[r] = n + g[j]
        BY <3>2, <4>1, <1>2, <1>3
      <4>3. g[j] \in 1..z
        BY <1>4
      <4>. QED BY <3>2, <4>2, <4>3, <2>2, <1>1
    <3>3. CASE (\E i \in 1..p : q = n + i) /\ r \in 1..n
      <4>1. PICK j \in 1..p : q = n + j
        BY <3>3
      <4>2. gg[r] = r /\ gg[q] = n + g[j]
        BY <3>3, <4>1, <1>2, <1>3
      <4>3. g[j] \in 1..z
        BY <1>4
      <4>. QED BY <3>3, <4>2, <4>3, <2>2, <1>1
    <3>4. CASE (\E i \in 1..p : q = n + i) /\ (\E j \in 1..p : r = n + j)
      <4>1. PICK i \in 1..p : q = n + i
        BY <3>4
      <4>2. PICK j \in 1..p : r = n + j
        BY <3>4
      <4>3. n + g[i] = n + g[j] /\ i # j
        BY <4>1, <4>2, <2>2, <1>3
      <4>5. g[i] \in 1..z /\ g[j] \in 1..z
        BY <1>4
      <4>4. g[i] = g[j]
        <5>1. g[i] \in Int /\ g[j] \in Int /\ n \in Int
          BY <4>5, <1>1
        <5>. QED BY <4>3, <5>1
      <4>. QED BY <4>1, <4>3, <4>4, <1>1
    <3>. QED BY <1>5, <3>1, <3>2, <3>3, <3>4
  <2>. QED BY <2>1, <2>2
<1>12. \A q \in DOMAIN A : \A k \in DOMAIN A[q].chunks :
          hh[q] + k \in DOMAIN B[gg[q]].chunks /\ B[gg[q]].chunks[hh[q] + k] = A[q].chunks[k]
  <2>1. ASSUME NEW i \in 1..p, NEW k \in DOMAIN Q[i].chunks
        PROVE  h[i] + k \in DOMAIN R[g[i]].chunks /\ R[g[i]].chunks[h[i] + k] = Q[i].chunks[k]
    BY <1>0, <1>1, Zenon DEF Parts
  <2>2. ASSUME NEW i \in 1..n, NEW k \in DOMAIN A[i].chunks
        PROVE  hh[i] + k \in DOMAIN B[gg[i]].chunks /\ B[gg[i]].chunks[hh[i] + k] = A[i].chunks[k]
    <3>1. A[i] = x[i] /\ B[gg[i]] = x[i] /\ hh[i] = 0 /\ x[i] \in S
      BY <1>1, <1>2
    <3>2. k \in Nat
      BY <3>1
    <3>3. hh[i] + k = k
      BY <3>1, <3>2
    <3>. QED BY <3>1, <3>3
  <2>3. ASSUME NEW i \in 1..p, NEW k \in DOMAIN A[n + i].chunks
        PROVE  /\ hh[n + i] + k \in DOMAIN B[gg[n + i]].chunks
               /\ B[gg[n + i]].chunks[hh[n + i] + k] = A[n + i].chunks[k]
    <3>1. A[n + i] = Q[i] /\ gg[n + i] = n + g[i] /\ B[n + g[i]] = R[g[i]] /\ hh[n + i] = h[i]
      BY <1>1, <1>3, <1>4
    <3>2. k \in DOMAIN Q[i].chunks
      BY <2>3, <3>1
    <3>3. h[i] + k \in DOMAIN R[g[i]].chunks /\ R[g[i]].chunks[h[i] + k] = Q[i].chunks[k]
      BY <2>1, <3>2
    <3>4. B[gg[n + i]].chunks = R[g[i]].chunks /\ A[n + i].chunks = Q[i].chunks
      BY <3>1, Zenon
    <3>5. hh[n + i] + k = h[i] + k
      BY <3>1, Zenon
    <3>. QED BY <3>3, <3>4, <3>5, Zenon
  <2>4. ASSUME NEW q \in DOMAIN A, NEW k \in DOMAIN A[q].chunks
        PROVE  /\ hh[q] + k \in DOMAIN B[gg[q]].chunks
               /\ B[gg[q]].chunks[hh[q] + k] = A[q].chunks[k]
    <3>1. CASE q \in 1..n
      BY <2>2, <2>4, <3>1
    <3>2. CASE \E i \in 1..p : q = n + i
      <4>1. PICK i \in 1..p : q = n + i
        BY <3>2
      <4>2. k \in DOMAIN A[n + i].chunks
        BY <2>4, <4>1
      <4>. QED BY <2>3, <4>1, <4>2
    <3>. QED BY <1>5, <3>1, <3>2
  <2>. QED BY <2>4
<1>13. \A r \in DOMAIN B : \A l \in DOMAIN B[r].chunks :
          \E q \in DOMAIN A : gg[q] = r /\ \E k \in DOMAIN A[q].chunks : l = hh[q] + k
  <2>1. ASSUME NEW r \in 1..n, NEW l \in DOMAIN B[r].chunks
        PROVE  \E q \in DOMAIN A : gg[q] = r /\ \E k \in DOMAIN A[q].chunks : l = hh[q] + k
    <3>1. A[r] = B[r] /\ x[r] \in S /\ gg[r] = r /\ hh[r] = 0 /\ r \in DOMAIN A /\ B[r] = x[r]
      BY <1>1, <1>2
    <3>2. l \in Nat
      BY <3>1
    <3>3. l = hh[r] + l
      BY <3>1, <3>2
    <3>. QED BY <3>1, <3>3
  <2>2. ASSUME NEW i \in 1..z, NEW l \in DOMAIN B[n + i].chunks
        PROVE  \E q \in DOMAIN A : gg[q] = n + i /\ \E k \in DOMAIN A[q].chunks : l = hh[q] + k
    <3>1. l \in DOMAIN R[i].chunks /\ i \in DOMAIN R
      BY <1>1
    <3>2. PICK j \in DOMAIN Q : g[j] = i /\ \E k \in DOMAIN Q[j].chunks : l = h[j] + k
      BY <1>0, <3>1, Zenon DEF Parts
    <3>3. j \in 1..p /\ n + j \in DOMAIN A /\ gg[n + j] = n + i /\ hh[n + j] = h[j] /\ A[n + j] = Q[j]
      BY <3>2, <1>1, <1>3
    <3>. QED BY <3>2, <3>3
  <2>3. ASSUME NEW r \in DOMAIN B, NEW l \in DOMAIN B[r].chunks
        PROVE  \E q \in DOMAIN A : gg[q] = r /\ \E k \in DOMAIN A[q].chunks : l = hh[q] + k
    <3>1. CASE r \in 1..n
      BY <2>1, <2>3, <3>1
    <3>2. CASE \E i \in 1..z : r = n + i
      <4>1. PICK i \in 1..z : r = n + i
        BY <3>2
      <4>2. l \in DOMAIN B[n + i].chunks
        BY <2>3, <4>1
      <4>. QED BY <2>2, <4>1, <4>2
    <3>. QED BY <1>6, <3>1, <3>2
  <2>. QED BY <2>3
<1>14. \A q, r \in DOMAIN A : q < r /\ gg[q] = gg[r] =>
          \A k \in DOMAIN A[q].chunks, l \in DOMAIN A[r].chunks : hh[q] + k < hh[r] + l
  <2>1. ASSUME NEW q \in DOMAIN A, NEW r \in DOMAIN A, q < r, gg[q] = gg[r],
               NEW k \in DOMAIN A[q].chunks, NEW l \in DOMAIN A[r].chunks
        PROVE  hh[q] + k < hh[r] + l
    <3>1. CASE q \in 1..n /\ r \in 1..n
      BY <3>1, <2>1, <1>2
    <3>2. CASE q \in 1..n /\ \E j \in 1..p : r = n + j
      <4>1. PICK j \in 1..p : r = n + j
        BY <3>2
      <4>2. gg[q] = q /\ gg[r] = n + g[j]
        BY <3>2, <4>1, <1>2, <1>3
      <4>3. g[j] \in 1..z
        BY <1>4
      <4>. QED BY <3>2, <4>2, <4>3, <2>1, <1>1
    <3>3. CASE (\E i \in 1..p : q = n + i) /\ r \in 1..n
      BY <3>3, <2>1, <1>1
    <3>4. CASE (\E i \in 1..p : q = n + i) /\ (\E j \in 1..p : r = n + j)
      <4>1. PICK i \in 1..p : q = n + i
        BY <3>4
      <4>2. PICK j \in 1..p : r = n + j
        BY <3>4
      <4>3. n + g[i] = n + g[j] /\ n + i < n + j
        BY <4>1, <4>2, <2>1, <1>3
      <4>7. g[i] \in 1..z /\ g[j] \in 1..z
        BY <1>4
      <4>4. g[i] = g[j] /\ i < j
        <5>1. g[i] \in Int /\ g[j] \in Int /\ n \in Int /\ i \in Int /\ j \in Int
          BY <4>7, <1>1
        <5>. QED BY <4>3, <5>1
      <4>5. k \in DOMAIN Q[i].chunks /\ l \in DOMAIN Q[j].chunks /\ hh[q] = h[i] /\ hh[r] = h[j]
        BY <4>1, <4>2, <1>1, <1>3
      <4>6. h[i] + k < h[j] + l
        BY <1>0, <1>1, <4>4, <4>5, Zenon DEF Parts
      <4>. QED BY <4>5, <4>6
    <3>. QED BY <1>5, <3>1, <3>2, <3>3, <3>4
  <2>. QED BY <2>1
<1>15. Parts(gg, hh, A, B)
  BY <1>7, <1>8, <1>9, <1>10, <1>11, <1>12, <1>13, <1>14, Zenon DEF Parts
<1>. QED BY <1>15, Zenon DEF Merged, A, B

LEMMA MergedBefore ==
    ASSUME NEW S, NEW y \in Seq(S), NEW Q \in Seq(S), NEW R \in Seq(S), Merged(Q, R),
           \A q \in S : \A k \in DOMAIN q.chunks : k \in Nat
    PROVE  Merged(Q \o y, R \o y)
<1>0. PICK g, h : Parts(g, h, Q, R)
  BY DEF Merged
<1>. DEFINE n == Len(y)
            p == Len(Q)
            z == Len(R)
            A == Q \o y
            B == R \o y
<1>1. /\ n \in Nat /\ p \in Nat /\ z \in Nat /\ DOMAIN Q = 1..p /\ DOMAIN R = 1..z
      /\ DOMAIN A = 1..(p + n) /\ DOMAIN B = 1..(z + n)
      /\ \A i \in 1..n : A[p + i] = y[i] /\ B[z + i] = y[i]
      /\ \A i \in 1..p : A[i] = Q[i]
      /\ \A i \in 1..z : B[i] = R[i]
      /\ \A i \in 1..n : y[i] \in S
  BY Joint, ElementOfSeq
<1>. HIDE DEF n, p, z, A, B
<1>. DEFINE gg == [i \in 1..(p + n) |-> IF i <= p THEN g[i] ELSE z + (i - p)]
            hh == [i \in 1..(p + n) |-> IF i <= p THEN h[i] ELSE 0]
<1>2. \A i \in 1..n : /\ p + i \in DOMAIN A /\ z + i \in DOMAIN B
                      /\ gg[p + i] = z + i /\ hh[p + i] = 0
  <2>1. TAKE i \in 1..n
  <2>2. p + i \in 1..(p + n) /\ ~(p + i <= p) /\ p + i - p = i /\ z + i \in 1..(z + n)
    BY <1>1
  <2>. QED BY <2>2, <1>1
<1>3. \A i \in 1..p : i \in DOMAIN A /\ gg[i] = g[i] /\ hh[i] = h[i]
  <2>1. TAKE i \in 1..p
  <2>2. i \in 1..(p + n) /\ i <= p
    BY <1>1
  <2>. QED BY <2>2, <1>1
<1>. HIDE DEF gg, hh
<1>4. /\ \A i \in 1..p : g[i] \in 1..z /\ h[i] \in Nat
      /\ \A i \in 1..p : g[i] \in DOMAIN B /\ B[g[i]] = R[g[i]]
  <2>1. \A i \in 1..p : g[i] \in 1..z /\ h[i] \in Nat
    BY <1>0, <1>1, Zenon DEF Parts
  <2>. QED BY <2>1, <1>1
<1>5. \A q \in DOMAIN A : q \in 1..p \/ \E i \in 1..n : q = p + i
  <2>1. \A q \in DOMAIN A : q \in 1..p \/ (q - p \in 1..n /\ q = p + (q - p))
    BY <1>1
  <2>. QED BY <2>1
<1>6. \A r \in DOMAIN B : r \in 1..z \/ \E i \in 1..n : r = z + i
  <2>1. \A r \in DOMAIN B : r \in 1..z \/ (r - z \in 1..n /\ r = z + (r - z))
    BY <1>1
  <2>. QED BY <2>1
<1>7. \A q \in DOMAIN A : gg[q] \in DOMAIN B /\ hh[q] \in Nat
  BY <1>2, <1>3, <1>4, <1>5
<1>8. \A r \in DOMAIN B : \E q \in DOMAIN A : gg[q] = r
  <2>1. ASSUME NEW i \in 1..z PROVE \E q \in DOMAIN A : gg[q] = i
    <3>1. PICK j \in 1..p : g[j] = i
      BY <1>0, <1>1, Zenon DEF Parts
    <3>. QED BY <3>1, <1>3
  <2>. QED BY <1>2, <1>6, <2>1
<1>9. \A q, r \in DOMAIN A : q < r => gg[q] <= gg[r]
  <2>1. ASSUME NEW i \in 1..p, NEW j \in 1..p, i < j PROVE g[i] <= g[j]
    BY <1>0, <1>1, <2>1, Zenon DEF Parts
  <2>2. ASSUME NEW q \in DOMAIN A, NEW r \in DOMAIN A, q < r PROVE gg[q] <= gg[r]
    <3>1. CASE q \in 1..p /\ r \in 1..p
      BY <3>1, <2>1, <2>2, <1>3
    <3>2. CASE q \in 1..p /\ \E j \in 1..n : r = p + j
      <4>1. PICK j \in 1..n : r = p + j
        BY <3>2
      <4>2. gg[q] = g[q] /\ gg[r] = z + j
        BY <3>2, <4>1, <1>2, <1>3
      <4>3. g[q] \in 1..z
        BY <1>4, <3>2
      <4>. QED BY <4>2, <4>3, <1>1
    <3>3. CASE (\E i \in 1..n : q = p + i) /\ r \in 1..p
      BY <3>3, <2>2, <1>1
    <3>4. CASE (\E i \in 1..n : q = p + i) /\ (\E j \in 1..n : r = p + j)
      <4>1. PICK i \in 1..n : q = p + i
        BY <3>4
      <4>2. PICK j \in 1..n : r = p + j
        BY <3>4
      <4>3. z + i <= z + j
        BY <4>1, <4>2, <2>2, <1>1
      <4>. QED BY <4>1, <4>2, <4>3, <1>2
    <3>. QED BY <1>5, <3>1, <3>2, <3>3, <3>4
  <2>. QED BY <2>2
<1>10. \A q \in DOMAIN A : B[gg[q]].kind = A[q].kind /\ Tag(B[gg[q]]) = Tag(A[q])
  <2>1. ASSUME NEW i \in 1..p PROVE R[g[i]].kind = Q[i].kind /\ Tag(R[g[i]]) = Tag(Q[i])
    BY <1>0, <1>1, Zenon DEF Parts
  <2>2. ASSUME NEW i \in 1..p PROVE B[gg[i]].kind = A[i].kind /\ Tag(B[gg[i]]) = Tag(A[i])
    <3>1. A[i] = Q[i] /\ gg[i] = g[i] /\ B[g[i]] = R[g[i]]
      BY <1>1, <1>3, <1>4
    <3>. QED BY <2>1, <3>1
  <2>3. ASSUME NEW i \in 1..n
        PROVE  B[gg[p + i]].kind = A[p + i].kind /\ Tag(B[gg[p + i]]) = Tag(A[p + i])
    BY <1>1, <1>2
  <2>. QED BY <1>5, <2>2, <2>3
<1>11. \A q, r \in DOMAIN A : gg[q] = gg[r] /\ q # r => A[q].kind = "data"
  <2>1. ASSUME NEW i \in 1..p, NEW j \in 1..p, g[i] = g[j], i # j PROVE Q[i].kind = "data"
    BY <1>0, <1>1, <2>1, Zenon DEF Parts
  <2>2. ASSUME NEW q \in DOMAIN A, NEW r \in DOMAIN A, gg[q] = gg[r], q # r
        PROVE  q \in 1..p /\ r \in 1..p
    <3>2. CASE q \in 1..p /\ \E j \in 1..n : r = p + j
      <4>1. PICK j \in 1..n : r = p + j
        BY <3>2
      <4>2. gg[q] = g[q] /\ gg[r] = z + j
        BY <3>2, <4>1, <1>2, <1>3
      <4>3. g[q] \in 1..z
        BY <1>4, <3>2
      <4>. QED BY <4>2, <4>3, <1>1, <2>2
    <3>3. CASE (\E i \in 1..n : q = p + i) /\ r \in 1..p
      <4>1. PICK j \in 1..n : q = p + j
        BY <3>3
      <4>2. gg[r] = g[r] /\ gg[q] = z + j
        BY <3>3, <4>1, <1>2, <1>3
      <4>3. g[r] \in 1..z
        BY <1>4, <3>3
      <4>. QED BY <4>2, <4>3, <1>1, <2>2
    <3>4. CASE (\E i \in 1..n : q = p + i) /\ (\E j \in 1..n : r = p + j)
      <4>1. PICK i \in 1..n : q = p + i
        BY <3>4
      <4>2. PICK j \in 1..n : r = p + j
        BY <3>4
      <4>3. z + i = z + j /\ i # j
        BY <4>1, <4>2, <2>2, <1>2
      <4>. QED BY <4>3, <1>1
    <3>. QED BY <1>5, <3>2, <3>3, <3>4
  <2>3. ASSUME NEW q \in DOMAIN A, NEW r \in DOMAIN A, gg[q] = gg[r], q # r
        PROVE  A[q].kind = "data"
    <3>1. q \in 1..p /\ r \in 1..p
      BY <2>2, <2>3
    <3>2. g[q] = g[r] /\ A[q] = Q[q]
      BY <3>1, <2>3, <1>1, <1>3
    <3>. QED BY <3>1, <3>2, <2>1, <2>3
  <2>. QED BY <2>3
<1>12. \A q \in DOMAIN A : \A k \in DOMAIN A[q].chunks :
          hh[q] + k \in DOMAIN B[gg[q]].chunks /\ B[gg[q]].chunks[hh[q] + k] = A[q].chunks[k]
  <2>1. ASSUME NEW i \in 1..p, NEW k \in DOMAIN Q[i].chunks
        PROVE  h[i] + k \in DOMAIN R[g[i]].chunks /\ R[g[i]].chunks[h[i] + k] = Q[i].chunks[k]
    BY <1>0, <1>1, Zenon DEF Parts
  <2>2. ASSUME NEW i \in 1..n, NEW k \in DOMAIN A[p + i].chunks
        PROVE  /\ hh[p + i] + k \in DOMAIN B[gg[p + i]].chunks
               /\ B[gg[p + i]].chunks[hh[p + i] + k] = A[p + i].chunks[k]
    <3>1. A[p + i] = y[i] /\ B[gg[p + i]] = y[i] /\ hh[p + i] = 0 /\ y[i] \in S
      BY <1>1, <1>2
    <3>2. k \in Nat
      BY <3>1
    <3>3. hh[p + i] + k = k
      BY <3>1, <3>2
    <3>. QED BY <3>1, <3>3
  <2>3. ASSUME NEW i \in 1..p, NEW k \in DOMAIN A[i].chunks
        PROVE  /\ hh[i] + k \in DOMAIN B[gg[i]].chunks
               /\ B[gg[i]].chunks[hh[i] + k] = A[i].chunks[k]
    <3>1. A[i] = Q[i] /\ gg[i] = g[i] /\ B[g[i]] = R[g[i]] /\ hh[i] = h[i]
      BY <1>1, <1>3, <1>4
    <3>2. k \in DOMAIN Q[i].chunks
      BY <2>3, <3>1
    <3>3. h[i] + k \in DOMAIN R[g[i]].chunks /\ R[g[i]].chunks[h[i] + k] = Q[i].chunks[k]
      BY <2>1, <3>2
    <3>4. B[gg[i]].chunks = R[g[i]].chunks /\ A[i].chunks = Q[i].chunks
      BY <3>1, Zenon
    <3>5. hh[i] + k = h[i] + k
      BY <3>1, Zenon
    <3>. QED BY <3>3, <3>4, <3>5, Zenon
  <2>. QED BY <1>5, <2>2, <2>3
<1>13. \A r \in DOMAIN B : \A l \in DOMAIN B[r].chunks :
          \E q \in DOMAIN A : gg[q] = r /\ \E k \in DOMAIN A[q].chunks : l = hh[q] + k
  <2>1. ASSUME NEW i \in 1..n, NEW l \in DOMAIN B[z + i].chunks
        PROVE  \E q \in DOMAIN A : gg[q] = z + i /\ \E k \in DOMAIN A[q].chunks : l = hh[q] + k
    <3>1. /\ A[p + i] = B[z + i] /\ y[i] \in S /\ gg[p + i] = z + i /\ hh[p + i] = 0
          /\ p + i \in DOMAIN A /\ B[z + i] = y[i]
      BY <1>1, <1>2
    <3>2. l \in Nat
      BY <3>1
    <3>3. l = hh[p + i] + l
      BY <3>1, <3>2
    <3>. QED BY <3>1, <3>3
  <2>2. ASSUME NEW i \in 1..z, NEW l \in DOMAIN B[i].chunks
        PROVE  \E q \in DOMAIN A : gg[q] = i /\ \E k \in DOMAIN A[q].chunks : l = hh[q] + k
    <3>1. l \in DOMAIN R[i].chunks /\ i \in DOMAIN R
      BY <1>1
    <3>2. PICK j \in DOMAIN Q : g[j] = i /\ \E k \in DOMAIN Q[j].chunks : l = h[j] + k
      BY <1>0, <3>1, Zenon DEF Parts
    <3>3. j \in 1..p /\ j \in DOMAIN A /\ gg[j] = i /\ hh[j] = h[j] /\ A[j] = Q[j]
      BY <3>2, <1>1, <1>3
    <3>. QED BY <3>2, <3>3
  <2>3. ASSUME NEW r \in DOMAIN B, NEW l \in DOMAIN B[r].chunks
        PROVE  \E q \in DOMAIN A : gg[q] = r /\ \E k \in DOMAIN A[q].chunks : l = hh[q] + k
    <3>1. CASE r \in 1..z
      BY <3>1, <2>2
    <3>2. CASE \E i \in 1..n : r = z + i
      <4>1. PICK i \in 1..n : r = z + i
        BY <3>2
      <4>. QED BY <4>1, <2>1
    <3>. QED BY <1>6, <3>1, <3>2
  <2>. QED BY <2>3
<1>14. \A q, r \in DOMAIN A : q < r /\ gg[q] = gg[r] =>
          \A k \in DOMAIN A[q].chunks, l \in DOMAIN A[r].chunks : hh[q] + k < hh[r] + l
  <2>1. ASSUME NEW q \in DOMAIN A, NEW r \in DOMAIN A, q < r, gg[q] = gg[r],
               NEW k \in DOMAIN A[q].chunks, NEW l \in DOMAIN A[r].chunks
        PROVE  hh[q] + k < hh[r] + l
    <3>1. CASE q \in 1..p /\ r \in 1..p
      <4>1. /\ k \in DOMAIN Q[q].chunks /\ l \in DOMAIN Q[r].chunks /\ hh[q] = h[q] /\ hh[r] = h[r]
            /\ g[q] = g[r]
        BY <3>1, <2>1, <1>1, <1>3
      <4>2. h[q] + k < h[r] + l
        BY <1>0, <1>1, <3>1, <2>1, <4>1, Zenon DEF Parts
      <4>. QED BY <4>1, <4>2
    <3>2. CASE q \in 1..p /\ \E j \in 1..n : r = p + j
      <4>1. PICK j \in 1..n : r = p + j
        BY <3>2
      <4>2. gg[q] = g[q] /\ gg[r] = z + j
        BY <3>2, <4>1, <1>2, <1>3
      <4>3. g[q] \in 1..z
        BY <1>4, <3>2
      <4>. QED BY <4>2, <4>3, <1>1, <2>1
    <3>3. CASE (\E i \in 1..n : q = p + i) /\ r \in 1..p
      BY <3>3, <2>1, <1>1
    <3>4. CASE (\E i \in 1..n : q = p + i) /\ (\E j \in 1..n : r = p + j)
      <4>1. PICK i \in 1..n : q = p + i
        BY <3>4
      <4>2. PICK j \in 1..n : r = p + j
        BY <3>4
      <4>3. z + i = z + j /\ i # j
        BY <4>1, <4>2, <2>1, <1>1, <1>2
      <4>. QED BY <4>3, <1>1
    <3>. QED BY <1>5, <3>1, <3>2, <3>3, <3>4
  <2>. QED BY <2>1
<1>15. Parts(gg, hh, A, B)
  BY <1>7, <1>8, <1>9, <1>10, <1>11, <1>12, <1>13, <1>14, Zenon DEF Parts
<1>. QED BY <1>15, Zenon DEF Merged, A, B

-----------------------------------------------------------------------------
(* What _coalesce_outbox_items makes of a batch                              *)

Below == {pair \in Nat \X Nat : pair[1] < pair[2]}
LEMMA Smallest == ASSUME NEW T \in SUBSET Nat, T # {} PROVE \E i \in T : \A j \in T : i <= j
<1>1. IsWellFoundedOn(Below, Nat)
  BY NatLessThanWellFounded DEF OpToRel, Below
<1>2. PICK i \in T : \A j \in T : ~(<<j, i>> \in Below)
  BY <1>1, WFMin, Zenon
<1>3. ASSUME NEW j \in T PROVE i <= j
  <2>1. i \in Nat /\ j \in Nat /\ <<j, i>> \notin Below
    BY <1>2
  <2>. QED BY <2>1 DEF Below
<1>. QED BY <1>3

\* Where a frame of batch b starts anew, and the frames that join the k-th such
Starts(b) == {i \in DOMAIN b : i = 1 \/ ~Joins(b[i - 1], b[i])}
Group(b, k) == {i \in DOMAIN b : Rank(Starts(b), i) = k}

LEMMA StartsFacts ==
    ASSUME NEW n \in Nat, NEW b, DOMAIN b = 1..n
    PROVE  /\ Starts(b) \subseteq Int /\ IsFiniteSet(Starts(b)) /\ Starts(b) \subseteq 1..n
           /\ Cardinality(Starts(b)) \in Nat
           /\ \A i \in 1..n : Rank(Starts(b), i) \in 1..Cardinality(Starts(b))
           /\ \A i, j \in 1..n : i < j => Rank(Starts(b), i) <= Rank(Starts(b), j)
           /\ \A i, j \in 1..n : i < j /\ j \in Starts(b) => Rank(Starts(b), i) < Rank(Starts(b), j)
           /\ \A k \in 1..Cardinality(Starts(b)) : \E i \in 1..n : Rank(Starts(b), i) = k
           /\ \A k : Group(b, k) \subseteq Int /\ IsFiniteSet(Group(b, k)) /\ Group(b, k) \subseteq 1..n
<1>. DEFINE S == Starts(b)
<1>1. S \subseteq 1..n /\ \A k : Group(b, k) \subseteq 1..n
  BY DEF Starts, Group
<1>2. IsFiniteSet(1..n)
  BY FS_Interval
<1>3. S \subseteq Int /\ IsFiniteSet(S) /\ \A k : IsFiniteSet(Group(b, k))
  <2>1. S \in SUBSET (1..n) /\ \A k : Group(b, k) \in SUBSET (1..n)
    BY <1>1
  <2>. QED BY <1>1, <1>2, <2>1, FS_Subset
<1>4. n # 0 => 1 \in S
  BY DEF Starts
<1>. HIDE DEF S
<1>5. Cardinality(S) \in Nat
  BY <1>3, FS_CardinalityType
<1>0. S \subseteq Int /\ IsFiniteSet(S)
  BY <1>3
<1>6. ASSUME NEW i \in 1..n, NEW j \in 1..n, i < j
      PROVE  Rank(S, i) <= Rank(S, j) /\ (j \in S => Rank(S, i) < Rank(S, j))
  <2>1. i \in Int /\ j \in Int /\ i <= j
    BY <1>6
  <2>2. Rank(S, i) <= Rank(S, j) /\ \A k \in S : i < k /\ k <= j => Rank(S, i) < Rank(S, j)
    BY <1>0, <2>1, RankUpTo
  <2>. QED BY <1>6, <2>1, <2>2
<1>8. ASSUME NEW i \in 1..n PROVE Rank(S, i) \in 1..Cardinality(S)
  <2>1. i \in Int /\ 0 \in Int /\ 0 <= i /\ 1 \in S /\ 0 < 1 /\ 1 <= i
    BY <1>4
  <2>2. /\ Rank(S, 0) \in Nat /\ Rank(S, 0) <= Rank(S, i)
        /\ \A k \in S : 0 < k /\ k <= i => Rank(S, 0) < Rank(S, i)
    BY <1>0, <2>1, RankUpTo
  <2>3. Rank(S, i) \in Nat /\ Rank(S, i) <= Cardinality(S)
    <3>1. i \in Int /\ i <= i
      OBVIOUS
    <3>. QED BY <1>0, <3>1, RankUpTo
  <2>4. Rank(S, 0) < Rank(S, i)
    BY <2>1, <2>2
  <2>. QED BY <2>2, <2>3, <2>4, <1>5
<1>9. \A k \in 1..Cardinality(S) : \E i \in 1..n : Rank(S, i) = k
  <2>1. TAKE k \in 1..Cardinality(S)
  <2>2. PICK i \in S : Rank(S, i) = k
    BY <1>3, RankOnto
  <2>. QED BY <2>2, <1>1
<1>. QED BY <1>1, <1>3, <1>5, <1>6, <1>8, <1>9 DEF S

\* Frames that join are DATA of one connection.
LEMMA GroupIsAlike ==
    ASSUME NEW n \in Nat, NEW b, DOMAIN b = 1..n, NEW i \in 1..n, NEW j \in 1..n, i < j,
           Rank(Starts(b), i) = Rank(Starts(b), j)
    PROVE  b[i].kind = "data" /\ b[j].kind = "data" /\ b[i].id = b[j].id
<1>. DEFINE S == Starts(b)
            Alike(m) == b[i].kind = "data" /\ b[m].kind = "data" /\ b[i].id = b[m].id
            Bad == {m \in 1..n : i < m /\ Rank(S, i) = Rank(S, m) /\ ~Alike(m)}
<1>1. SUFFICES ASSUME ~Alike(j) PROVE FALSE
  OBVIOUS
<1>2. Bad \in SUBSET Nat /\ j \in Bad
  BY <1>1
<1>3. PICK m \in Bad : \A l \in Bad : m <= l
  BY <1>2, Smallest
<1>4. m \in 1..n /\ i < m /\ Rank(S, i) = Rank(S, m) /\ ~Alike(m)
  BY <1>3
<1>5. \A l \in 1..n : i < l /\ l < m /\ Rank(S, i) = Rank(S, l) => Alike(l)
  <2>1. TAKE l \in 1..n
  <2>2. l < m => l \notin Bad
    BY <1>3, <1>4
  <2>. QED BY <2>2
<1>. HIDE DEF Bad
<1>6. /\ \A k, l \in 1..n : k < l => Rank(S, k) <= Rank(S, l)
      /\ \A k, l \in 1..n : k < l /\ l \in S => Rank(S, k) < Rank(S, l)
      /\ \A k \in 1..n : Rank(S, k) \in Int
  BY StartsFacts
<1>7. m \notin S
  <2>1. m \in S => Rank(S, i) < Rank(S, m) /\ Rank(S, i) \in Int
    BY <1>4, <1>6
  <2>. QED BY <2>1, <1>4, <1>6
<1>8. Joins(b[m - 1], b[m]) /\ m - 1 \in 1..n
  BY <1>4, <1>7 DEF Starts
<1>9. b[m - 1].kind = "data" /\ b[m].kind = "data" /\ b[m - 1].id = b[m].id
  BY <1>8 DEF Joins
<1>10. CASE m - 1 = i
  BY <1>9, <1>10, <1>4
<1>11. CASE m - 1 # i
  <2>1. i < m - 1 /\ m - 1 < m
    BY <1>4, <1>11
  <2>2. Rank(S, i) <= Rank(S, m - 1) /\ Rank(S, m - 1) <= Rank(S, m)
    BY <2>1, <1>4, <1>6, <1>8
  <2>3. Rank(S, i) = Rank(S, m - 1)
    BY <2>2, <1>4, <1>6, <1>8
  <2>4. Alike(m - 1)
    BY <2>1, <2>3, <1>5, <1>8
  <2>. QED BY <2>4, <1>9, <1>4
<1>. QED BY <1>10, <1>11

\* The frames the code builds: a mux frame is of a client, and DATA carries chunks
\* of its stream, one until neighbours are joined
SoundFrame == {f \in Frame :
    /\ f.kind \in MuxKind => f.id \in Id
    /\ f.kind # "data" => f.chunks = <<>>
    /\ \A k \in DOMAIN f.chunks : f.chunks[k].of = Tag(f)}
Enqueued == {f \in SoundFrame : f.kind = "data" => Len(f.chunks) = 1}

\* A connection id stands for one client
OneOwner(b) == \A q, r \in DOMAIN b :
    b[q].kind = "data" /\ b[r].kind = "data" /\ b[q].id = b[r].id => b[q].of = b[r].of

Lead(b, k) == b[Nth(Group(b, k), 1)]
JoinedChunks(b, k) == [i \in 1..Cardinality(Group(b, k)) |-> b[Nth(Group(b, k), i)].chunks[1]]

LEMMA ItemIs ==
    ASSUME NEW b
    PROVE  /\ DOMAIN CoalescedItems(b) = 1..Cardinality(Starts(b))
           /\ \A k \in 1..Cardinality(Starts(b)) : Cardinality(Group(b, k)) \in Nat \ {0} =>
                CoalescedItems(b)[k] = IF Lead(b, k).kind = "data"
                                       THEN [Lead(b, k) EXCEPT !.chunks = JoinedChunks(b, k)]
                                       ELSE Lead(b, k)
<1>1. DOMAIN CoalescedItems(b) = 1..Cardinality(Starts(b))
  BY DEF CoalescedItems, Starts
<1>2. ASSUME NEW k \in 1..Cardinality(Starts(b)), Cardinality(Group(b, k)) \in Nat \ {0}
      PROVE  CoalescedItems(b)[k] = IF Lead(b, k).kind = "data"
                                    THEN [Lead(b, k) EXCEPT !.chunks = JoinedChunks(b, k)]
                                    ELSE Lead(b, k)
  <2>. DEFINE fs == Picked(b, Group(b, k))
  <2>1. CoalescedItems(b)[k] = IF fs[1].kind = "data"
                               THEN [fs[1] EXCEPT !.chunks = [i \in DOMAIN fs |-> fs[i].chunks[1]]]
                               ELSE fs[1]
    BY DEF CoalescedItems, Starts, Group
  <2>2. fs[1] = Lead(b, k) /\ DOMAIN fs = 1..Cardinality(Group(b, k))
        /\ \A i \in 1..Cardinality(Group(b, k)) : fs[i] = b[Nth(Group(b, k), i)]
    BY <1>2 DEF Picked, Lead
  <2>. HIDE DEF fs
  <2>3. [i \in DOMAIN fs |-> fs[i].chunks[1]] = JoinedChunks(b, k)
    BY <2>2 DEF JoinedChunks
  <2>. QED BY <2>1, <2>2, <2>3
<1>. QED BY <1>1, <1>2

LEMMA GroupFacts ==
    ASSUME NEW n \in Nat, NEW b, DOMAIN b = 1..n, OneOwner(b), NEW k \in 1..Cardinality(Starts(b))
    PROVE  /\ Cardinality(Group(b, k)) \in Nat \ {0}
           /\ Group(b, k) \subseteq 1..n
           /\ \A i \in 1..Cardinality(Group(b, k)) :
                 Nth(Group(b, k), i) \in Group(b, k) /\ Rank(Group(b, k), Nth(Group(b, k), i)) = i
           /\ \A q \in Group(b, k) :
                 /\ Rank(Group(b, k), q) \in 1..Cardinality(Group(b, k))
                 /\ Nth(Group(b, k), Rank(Group(b, k), q)) = q
           /\ \A q, r \in Group(b, k) : q < r => Rank(Group(b, k), q) < Rank(Group(b, k), r)
           /\ \A q, r \in Group(b, k) : q # r => b[q].kind = "data"
           /\ \A q \in Group(b, k) : b[q].kind = Lead(b, k).kind /\ Tag(b[q]) = Tag(Lead(b, k))
           /\ \E q \in Group(b, k) : Lead(b, k) = b[q]
<1>. DEFINE G == Group(b, k)
            m == Cardinality(G)
<1>1. G \subseteq Int /\ IsFiniteSet(G) /\ G \subseteq 1..n
  BY StartsFacts
<1>2. G # {}
  <2>1. PICK i \in 1..n : Rank(Starts(b), i) = k
    BY StartsFacts
  <2>. QED BY <2>1 DEF Group
<1>3. \A q, r \in G : q < r => b[q].kind = "data" /\ b[r].kind = "data" /\ b[q].id = b[r].id
  <2>1. ASSUME NEW q \in G, NEW r \in G, q < r
        PROVE  b[q].kind = "data" /\ b[r].kind = "data" /\ b[q].id = b[r].id
    <3>1. q \in 1..n /\ r \in 1..n /\ Rank(Starts(b), q) = Rank(Starts(b), r)
      BY <1>1 DEF Group
    <3>. QED BY <2>1, <3>1, GroupIsAlike
  <2>. QED BY <2>1
<1>. HIDE DEF G
<1>4. /\ Cardinality(G) \in Nat
      /\ \A i \in 1..Cardinality(G) : Nth(G, i) \in G /\ Rank(G, Nth(G, i)) = i
      /\ \A i \in G : Rank(G, i) \in 1..Cardinality(G) /\ Nth(G, Rank(G, i)) = i
  BY <1>1, NthFacts
<1>5. \A q, r \in G : q < r => Rank(G, q) < Rank(G, r)
  <2>1. ASSUME NEW q \in G, NEW r \in G, q < r PROVE Rank(G, q) < Rank(G, r)
    BY <1>1, <2>1, RankGrows
  <2>. QED BY <2>1
<1>6. m # 0
  <2>1. PICK q \in G : TRUE
    BY <1>2
  <2>2. Rank(G, q) \in 1..m
    BY <1>4
  <2>. QED BY <2>2
<1>7. 1 \in 1..m /\ Nth(G, 1) \in G
  BY <1>4, <1>6
<1>8. \A q, r \in G : q # r => b[q].kind = "data" /\ b[r].kind = "data" /\ b[q].id = b[r].id
  <2>1. ASSUME NEW q \in G, NEW r \in G, q # r
        PROVE  b[q].kind = "data" /\ b[r].kind = "data" /\ b[q].id = b[r].id
    <3>1. q < r \/ r < q
      BY <1>1, <2>1
    <3>. QED BY <3>1, <1>3
  <2>. QED BY <2>1
<1>9. ASSUME NEW q \in G PROVE b[q].kind = b[Nth(G, 1)].kind /\ Tag(b[q]) = Tag(b[Nth(G, 1)])
  <2>1. CASE q = Nth(G, 1)
    BY <2>1
  <2>2. CASE q # Nth(G, 1)
    <3>1. b[q].kind = "data" /\ b[Nth(G, 1)].kind = "data" /\ b[q].id = b[Nth(G, 1)].id
      BY <1>7, <1>8, <2>2
    <3>2. q \in DOMAIN b /\ Nth(G, 1) \in DOMAIN b
      BY <1>1, <1>7
    <3>3. b[q].of = b[Nth(G, 1)].of
      BY <3>1, <3>2 DEF OneOwner
    <3>. QED BY <3>1, <3>3 DEF Tag
  <2>. QED BY <2>1, <2>2
<1>. QED BY <1>1, <1>4, <1>5, <1>6, <1>7, <1>8, <1>9 DEF G, Lead

LEMMA JoinedFrame ==
    ASSUME NEW f \in SoundFrame, NEW x \in Seq(Chunk), f.kind = "data",
           \A k \in DOMAIN x : x[k].of = Tag(f)
    PROVE  /\ [f EXCEPT !.chunks = x] \in SoundFrame
           /\ [f EXCEPT !.chunks = x].kind = f.kind /\ Tag([f EXCEPT !.chunks = x]) = Tag(f)
           /\ [f EXCEPT !.chunks = x].chunks = x
BY DEF SoundFrame, Frame, Tag, MuxKind

\* The k-th item is one sound frame, which has the chunks of its group in their order.
LEMMA ItemFacts ==
    ASSUME NEW b \in Seq(Enqueued), OneOwner(b), NEW k \in 1..Cardinality(Starts(b))
    PROVE  /\ CoalescedItems(b)[k] \in SoundFrame
           /\ CoalescedItems(b)[k].kind = Lead(b, k).kind /\ Tag(CoalescedItems(b)[k]) = Tag(Lead(b, k))
           /\ CoalescedItems(b)[k].kind = "data" => CoalescedItems(b)[k].chunks = JoinedChunks(b, k)
           /\ CoalescedItems(b)[k].kind # "data" => CoalescedItems(b)[k].chunks = <<>>
<1>. DEFINE n == Len(b)
            G == Group(b, k)
            m == Cardinality(G)
            x == JoinedChunks(b, k)
            f == Lead(b, k)
<1>1. n \in Nat /\ DOMAIN b = 1..n /\ \A q \in 1..n : b[q] \in Enqueued
  BY LenProperties, ElementOfSeq
<1>. HIDE DEF n
<1>2. /\ m \in Nat \ {0} /\ G \subseteq 1..n
      /\ \A i \in 1..m : Nth(G, i) \in G
      /\ \A q \in G : b[q].kind = f.kind /\ Tag(b[q]) = Tag(f)
      /\ \E q \in G : f = b[q]
  BY <1>1, GroupFacts
<1>3. CoalescedItems(b)[k] = IF f.kind = "data" THEN [f EXCEPT !.chunks = x] ELSE f
  BY <1>2, ItemIs
<1>. HIDE DEF G, m, f
<1>4. f \in SoundFrame
  BY <1>1, <1>2 DEF Enqueued
<1>5. CASE f.kind # "data"
  <2>1. CoalescedItems(b)[k] = f /\ f.chunks = <<>>
    BY <1>3, <1>4, <1>5 DEF SoundFrame
  <2>. QED BY <2>1, <1>4, <1>5 DEF f
<1>6. CASE f.kind = "data"
  <2>1. \A i \in 1..m : /\ b[Nth(G, i)].chunks[1] \in Chunk
                        /\ b[Nth(G, i)].chunks[1].of = Tag(f)
    <3>1. TAKE i \in 1..m
    <3>2. PICK e \in Enqueued : e = b[Nth(G, i)] /\ e.kind = "data" /\ Tag(e) = Tag(f)
      BY <1>1, <1>2, <1>6
    <3>3. e.chunks \in Seq(Chunk) /\ Len(e.chunks) = 1 /\ \A j \in DOMAIN e.chunks : e.chunks[j].of = Tag(e)
      BY <3>2 DEF Enqueued, SoundFrame, Frame
    <3>4. 1 \in DOMAIN e.chunks /\ e.chunks[1] \in Chunk
      BY <3>3, LenProperties, ElementOfSeq
    <3>. QED BY <3>2, <3>3, <3>4
  <2>2. x \in [1..m -> Chunk]
    BY <2>1 DEF JoinedChunks, G, m
  <2>3. x \in Seq(Chunk) /\ DOMAIN x = 1..m
    BY <1>2, <2>2, ListOfLength
  <2>4. \A i \in DOMAIN x : x[i].of = Tag(f)
    BY <2>1, <2>3 DEF JoinedChunks, G, m
  <2>. HIDE DEF x
  <2>5. /\ [f EXCEPT !.chunks = x] \in SoundFrame
        /\ [f EXCEPT !.chunks = x].kind = f.kind /\ Tag([f EXCEPT !.chunks = x]) = Tag(f)
        /\ [f EXCEPT !.chunks = x].chunks = x
    BY <1>4, <1>6, <2>3, <2>4, JoinedFrame
  <2>. QED BY <1>3, <1>6, <2>5 DEF x, f
<1>. QED BY <1>5, <1>6

\* Coalescing a batch changes nothing but the number of frames.
LEMMA Coalesced ==
    ASSUME NEW b \in Seq(Enqueued), OneOwner(b)
    PROVE  CoalescedItems(b) \in Seq(SoundFrame) /\ Merged(b, CoalescedItems(b))
<1>. DEFINE n == Len(b)
            S == Starts(b)
            c == Cardinality(S)
            C == CoalescedItems(b)
            G(k) == Group(b, k)
            Size(k) == Cardinality(G(k))
<1>1. n \in Nat /\ DOMAIN b = 1..n /\ \A q \in 1..n : b[q] \in Enqueued
  BY LenProperties, ElementOfSeq
<1>2. DOMAIN C = 1..c
  BY ItemIs
<1>. HIDE DEF n
<1>3. /\ c \in Nat
      /\ \A i \in 1..n : Rank(S, i) \in 1..c
      /\ \A i, j \in 1..n : i < j => Rank(S, i) <= Rank(S, j)
      /\ \A k \in 1..c : \E i \in 1..n : Rank(S, i) = k
  BY <1>1, StartsFacts
<1>4. \A k \in 1..c :
           /\ Size(k) \in Nat \ {0} /\ G(k) \subseteq 1..n
           /\ \A i \in 1..Size(k) : Nth(G(k), i) \in G(k) /\ Rank(G(k), Nth(G(k), i)) = i
           /\ \A q \in G(k) : Rank(G(k), q) \in 1..Size(k) /\ Nth(G(k), Rank(G(k), q)) = q
           /\ \A q, r \in G(k) : q < r => Rank(G(k), q) < Rank(G(k), r)
           /\ \A q, r \in G(k) : q # r => b[q].kind = "data"
           /\ \A q \in G(k) : b[q].kind = Lead(b, k).kind /\ Tag(b[q]) = Tag(Lead(b, k))
  <2>1. TAKE k \in 1..c
  <2>. QED BY <1>1, GroupFacts
<1>5. \A k \in 1..c :
           /\ C[k] \in SoundFrame /\ C[k].kind = Lead(b, k).kind /\ Tag(C[k]) = Tag(Lead(b, k))
           /\ C[k].kind = "data" => C[k].chunks = JoinedChunks(b, k)
           /\ C[k].kind # "data" => C[k].chunks = <<>>
  <2>1. TAKE k \in 1..c
  <2>. QED BY ItemFacts
<1>6. \A k \in 1..c : DOMAIN JoinedChunks(b, k) = 1..Size(k)
          /\ \A i \in 1..Size(k) : JoinedChunks(b, k)[i] = b[Nth(G(k), i)].chunks[1]
  BY DEF JoinedChunks
<1>7. \A q \in 1..n : q \in G(Rank(S, q))
  BY <1>1 DEF Group
<1>8. \A k \in 1..c : \A q \in G(k) : Rank(S, q) = k
  BY DEF Group
<1>9. \A q \in 1..n : /\ b[q].kind = "data" => DOMAIN b[q].chunks = {1}
                      /\ b[q].kind # "data" => DOMAIN b[q].chunks = {}
  <2>1. TAKE q \in 1..n
  <2>2. PICK e \in Enqueued : e = b[q]
    BY <1>1
  <2>3. e.chunks \in Seq(Chunk) /\ (e.kind = "data" => Len(e.chunks) = 1) /\ (e.kind # "data" => e.chunks = <<>>)
    BY DEF Enqueued, SoundFrame, Frame
  <2>4. e.kind = "data" => DOMAIN e.chunks = {1}
    BY <2>3, LenProperties
  <2>5. e.kind # "data" => DOMAIN e.chunks = {}
    BY <2>3
  <2>. QED BY <2>2, <2>4, <2>5
<1>. HIDE DEF S, c, C, G, Size
<1>. DEFINE g == [q \in 1..n |-> Rank(S, q)]
            h == [q \in 1..n |-> Rank(G(g[q]), q) - 1]
<1>10. \A q \in 1..n : /\ g[q] = Rank(S, q) /\ g[q] \in 1..c /\ q \in G(g[q])
                       /\ h[q] = Rank(G(g[q]), q) - 1 /\ h[q] \in Nat
                       /\ h[q] + 1 = Rank(G(g[q]), q) /\ h[q] + 1 \in 1..Size(g[q])
                       /\ Nth(G(g[q]), h[q] + 1) = q
  <2>1. TAKE q \in 1..n
  <2>2. g[q] = Rank(S, q) /\ g[q] \in 1..c /\ q \in G(g[q]) /\ h[q] = Rank(G(g[q]), q) - 1
    BY <1>3, <1>7
  <2>. HIDE DEF g, h
  <2>3. Rank(G(g[q]), q) \in 1..Size(g[q]) /\ Size(g[q]) \in Nat /\ Nth(G(g[q]), Rank(G(g[q]), q)) = q
    BY <1>4, <2>2
  <2>4. PICK w \in 1..Size(g[q]) : w = Rank(G(g[q]), q)
    BY <2>3
  <2>5. w - 1 \in Nat /\ (w - 1) + 1 = w
    BY <2>3
  <2>. QED BY <2>2, <2>3, <2>4, <2>5
<1>11. \A k \in 1..c : \A q \in G(k) : q \in 1..n /\ g[q] = k
  BY <1>4, <1>8
<1>. HIDE DEF g, h
<1>12. \A q \in DOMAIN b : g[q] \in DOMAIN C /\ h[q] \in Nat
  BY <1>1, <1>2, <1>10
<1>13. \A r \in DOMAIN C : \E q \in DOMAIN b : g[q] = r
  <2>1. TAKE r \in DOMAIN C
  <2>2. PICK i \in 1..n : Rank(S, i) = r
    BY <1>2, <1>3
  <2>. QED BY <2>2, <1>1, <1>10
<1>14. \A q, r \in DOMAIN b : q < r => g[q] <= g[r]
  BY <1>1, <1>3, <1>10
<1>15. \A q \in DOMAIN b : C[g[q]].kind = b[q].kind /\ Tag(C[g[q]]) = Tag(b[q])
  <2>1. TAKE q \in DOMAIN b
  <2>2. g[q] \in 1..c /\ q \in G(g[q])
    BY <1>1, <1>10
  <2>. QED BY <2>2, <1>4, <1>5
<1>16. \A q, r \in DOMAIN b : g[q] = g[r] /\ q # r => b[q].kind = "data"
  <2>1. TAKE q, r \in DOMAIN b
  <2>2. HAVE g[q] = g[r] /\ q # r
  <2>3. g[q] \in 1..c /\ q \in G(g[q]) /\ r \in G(g[q])
    BY <1>1, <1>10, <2>2
  <2>. QED BY <2>2, <2>3, <1>4
<1>17. ASSUME NEW q \in DOMAIN b, NEW k \in DOMAIN b[q].chunks
       PROVE  /\ h[q] + k \in DOMAIN C[g[q]].chunks /\ C[g[q]].chunks[h[q] + k] = b[q].chunks[k]
  <2>1. k = 1 /\ b[q].kind = "data"
    BY <1>1, <1>9, <1>17
  <2>2. /\ g[q] \in 1..c /\ C[g[q]].kind = "data" /\ h[q] + 1 \in 1..Size(g[q])
        /\ Nth(G(g[q]), h[q] + 1) = q
    BY <1>1, <1>10, <1>15, <2>1
  <2>3. C[g[q]].chunks = JoinedChunks(b, g[q])
    BY <1>5, <2>2
  <2>4. DOMAIN JoinedChunks(b, g[q]) = 1..Size(g[q])
        /\ JoinedChunks(b, g[q])[h[q] + 1] = b[Nth(G(g[q]), h[q] + 1)].chunks[1]
    BY <1>6, <2>2
  <2>. QED BY <2>1, <2>2, <2>3, <2>4
<1>18. ASSUME NEW r \in DOMAIN C, NEW l \in DOMAIN C[r].chunks
       PROVE  \E q \in DOMAIN b : g[q] = r /\ \E k \in DOMAIN b[q].chunks : l = h[q] + k
  <2>1. r \in 1..c
    BY <1>2
  <2>2. C[r].kind = "data"
    <3>1. C[r].chunks # <<>>
      BY <1>18
    <3>. QED BY <3>1, <1>5, <2>1
  <2>3. C[r].chunks = JoinedChunks(b, r)
    BY <1>5, <2>1, <2>2
  <2>4. l \in 1..Size(r)
    BY <1>6, <1>18, <2>1, <2>3
  <2>5. Nth(G(r), l) \in G(r) /\ Rank(G(r), Nth(G(r), l)) = l
    BY <1>4, <2>1, <2>4
  <2>6. PICK q \in 1..n : q = Nth(G(r), l) /\ g[q] = r
    BY <1>11, <2>1, <2>5
  <2>7. l = h[q] + 1
    BY <2>5, <2>6, <1>10
  <2>8. b[q].kind = "data"
    BY <1>1, <1>15, <2>2, <2>6
  <2>9. 1 \in DOMAIN b[q].chunks
    BY <1>9, <2>8
  <2>. QED BY <1>1, <2>6, <2>7, <2>9
<1>19. ASSUME NEW q \in DOMAIN b, NEW r \in DOMAIN b, q < r, g[q] = g[r],
              NEW k \in DOMAIN b[q].chunks, NEW l \in DOMAIN b[r].chunks
       PROVE  h[q] + k < h[r] + l
  <2>1. k = 1 /\ l = 1
    BY <1>1, <1>9, <1>19
  <2>2. /\ g[q] \in 1..c /\ q \in G(g[q]) /\ r \in G(g[q])
        /\ h[q] + 1 = Rank(G(g[q]), q) /\ h[r] + 1 = Rank(G(g[q]), r)
    BY <1>1, <1>10, <1>19
  <2>3. Rank(G(g[q]), q) < Rank(G(g[q]), r)
    BY <1>4, <1>19, <2>2
  <2>. QED BY <2>1, <2>2, <2>3
<1>20. Parts(g, h, b, C)
  BY <1>12, <1>13, <1>14, <1>15, <1>16, <1>17, <1>18, <1>19, Zenon DEF Parts
<1>21. C \in Seq(SoundFrame)
  <2>1. DOMAIN C = 1..c /\ c \in Nat /\ \A k \in 1..c : C[k] \in SoundFrame
    BY <1>2, <1>3, <1>5
  <2>2. C = [k \in 1..c |-> C[k]]
    BY <2>1 DEF C, CoalescedItems, c, S, Starts
  <2>3. C \in [1..c -> SoundFrame]
    BY <2>1, <2>2
  <2>. QED BY <2>1, <2>3, ListOfLength
<1>. QED BY <1>20, <1>21, Zenon DEF Merged, C

-----------------------------------------------------------------------------
(* The frames on their way to the app: on the wire, then in the outbox       *)

InTransit == toApp \o outbox

SoundAnswer == {f \in AppFrame :
    /\ f.kind \in MuxKind => f.id \in Id
    /\ f.kind # "data" => f.chunks = <<>>
    /\ f.kind = "data" => Len(f.chunks) = 1 /\ f.chunks[1].of[2] = f.id}

LEMMA WiderSeq == ASSUME NEW S, NEW V, S \subseteq V, NEW q \in Seq(S) PROVE q \in Seq(V)
<1>1. Len(q) \in Nat /\ DOMAIN q = 1..Len(q) /\ \A i \in 1..Len(q) : q[i] \in S
  BY LenProperties, ElementOfSeq
<1>2. q = [i \in 1..Len(q) |-> q[i]]
  BY LenProperties
<1>3. PICK n \in Nat : n = Len(q)
  BY <1>1
<1>4. q \in [1..n -> V]
  BY <1>1, <1>2, <1>3
<1>. QED BY <1>4, ListOfLength

LEMMA Regrouped ==
    \A x, y, z \in Seq(SoundFrame) : (x \o y) \o z = x \o (y \o z)
BY ConcatAssociative

LEMMA FlushMerges ==
    ASSUME NEW x \in Seq(SoundFrame), NEW y \in Seq(Enqueued), NEW n \in 0..Len(y), OneOwner(y)
    PROVE  /\ x \o CoalescedItems(SubSeq(y, 1, n)) \in Seq(SoundFrame)
           /\ SubSeq(y, n + 1, Len(y)) \in Seq(Enqueued)
           /\ Merged(x \o y, (x \o CoalescedItems(SubSeq(y, 1, n))) \o SubSeq(y, n + 1, Len(y)))
<1>. DEFINE z == Len(y)
            b == SubSeq(y, 1, n)
            w == SubSeq(y, n + 1, z)
            C == CoalescedItems(b)
<1>1. z \in Nat /\ DOMAIN y = 1..z /\ n \in Nat /\ n <= z /\ \A i \in 1..z : y[i] \in Enqueued
  BY LenProperties, ElementOfSeq
<1>2. b \in Seq(Enqueued) /\ Len(b) = n /\ \A i \in 1..n : b[i] = y[i]
  <2>1. \A i \in 1..n : y[i] \in Enqueued
    BY <1>1
  <2>2. /\ b \in Seq(Enqueued) /\ Len(b) = IF 1 <= n THEN n - 1 + 1 ELSE 0
        /\ \A i \in 1..(n - 1 + 1) : b[i] = y[1 + i - 1]
    BY <2>1, <1>1, SubSeqProperties
  <2>. HIDE DEF b
  <2>3. \A i \in 1..n : b[i] = y[i]
    BY <2>2, <1>1
  <2>. QED BY <2>2, <2>3, <1>1
<1>3. w \in Seq(Enqueued)
  <2>1. \A i \in (n + 1)..z : y[i] \in Enqueued
    BY <1>1
  <2>. QED BY <2>1, <1>1, SubSeqProperties
<1>4. b \o w = y
  <2>1. 1 \in 1..(z + 1) /\ n \in (1 - 1)..z /\ z \in n..z
    BY <1>1
  <2>2. b \o w = SubSeq(y, 1, z)
    BY <2>1, ConcatAdjacentSubSeq
  <2>. QED BY <2>2, SubSeqFull
<1>5. OneOwner(b)
  <2>1. DOMAIN b = 1..n
    BY <1>2, LenProperties
  <2>2. \A i \in DOMAIN b : i \in DOMAIN y /\ b[i] = y[i]
    BY <1>1, <1>2, <2>1
  <2>. HIDE DEF b, z
  <2>3. ASSUME NEW q \in DOMAIN b, NEW r \in DOMAIN b, b[q].kind = "data", b[r].kind = "data", b[q].id = b[r].id
        PROVE  b[q].of = b[r].of
    <3>1. /\ q \in DOMAIN y /\ r \in DOMAIN y /\ y[q].kind = "data" /\ y[r].kind = "data"
          /\ y[q].id = y[r].id
      BY <2>2, <2>3, Zenon
    <3>2. y[q].of = y[r].of
      BY <3>1, Zenon DEF OneOwner
    <3>. QED BY <2>2, <3>2, Zenon
  <2>. QED BY <2>3 DEF OneOwner
<1>. HIDE DEF z, b, w
<1>6. C \in Seq(SoundFrame) /\ Merged(b, C)
  BY <1>2, <1>5, Coalesced
<1>. HIDE DEF C
<1>7. Enqueued \subseteq SoundFrame
  BY DEF Enqueued
<1>8. b \in Seq(SoundFrame) /\ w \in Seq(SoundFrame)
  BY <1>2, <1>3, <1>7, WiderSeq
<1>9. \A f \in SoundFrame : \A k \in DOMAIN f.chunks : k \in Nat
  <2>1. TAKE f \in SoundFrame
  <2>2. f.chunks \in Seq(Chunk)
    BY DEF SoundFrame, Frame
  <2>3. PICK m \in Nat : DOMAIN f.chunks = 1..m
    BY <2>2, LenProperties
  <2>. QED BY <2>3
<1>10. Merged(x \o b, x \o C)
  BY <1>6, <1>8, <1>9, MergedBehind
<1>11. x \o b \in Seq(SoundFrame) /\ x \o C \in Seq(SoundFrame)
  BY <1>6, <1>8, ConcatProperties
<1>12. Merged((x \o b) \o w, (x \o C) \o w)
  BY <1>8, <1>9, <1>10, <1>11, MergedBefore
<1>13. (x \o b) \o w = x \o y
  <2>1. (x \o b) \o w = x \o (b \o w)
    BY <1>8, Regrouped, Zenon
  <2>. QED BY <2>1, <1>4
<1>. QED BY <1>3, <1>11, <1>12, <1>13 DEF C, b, w, z

LEMMA EnqueueGrows ==
    ASSUME NEW x \in Seq(SoundFrame), NEW y \in Seq(Enqueued), NEW f \in Enqueued
    PROVE  Append(y, f) \in Seq(Enqueued) /\ Grown(x \o y, x \o Append(y, f), f)
<1>1. Enqueued \subseteq SoundFrame
  BY DEF Enqueued
<1>2. y \in Seq(SoundFrame) /\ f \in SoundFrame
  BY <1>1, WiderSeq
<1>3. Append(y, f) = y \o <<f>> /\ <<f>> \in Seq(SoundFrame) /\ Append(y, f) \in Seq(Enqueued)
  BY <1>2, AppendIsConcat, AppendProperties
<1>4. x \o y \in Seq(SoundFrame)
  BY <1>2, ConcatProperties
<1>5. Append(x \o y, f) = (x \o y) \o <<f>>
  BY <1>2, <1>4, AppendIsConcat
<1>6. Append(x \o y, f) = x \o Append(y, f)
  BY <1>2, <1>3, <1>5, ConcatAssociative
<1>7. Grown(x \o y, Append(x \o y, f), f)
  BY <1>2, <1>4, AppendGrows
<1>. QED BY <1>3, <1>6, <1>7

LEMMA TakingShrinks ==
    ASSUME NEW x \in Seq(SoundFrame), NEW y \in Seq(Enqueued), x # <<>>
    PROVE  /\ Tail(x) \in Seq(SoundFrame) /\ Head(x) \in SoundFrame
           /\ Shrunk(x \o y, Tail(x) \o y, Head(x))
<1>1. Enqueued \subseteq SoundFrame
  BY DEF Enqueued
<1>2. y \in Seq(SoundFrame)
  BY <1>1, WiderSeq
<1>. DEFINE w == Tail(x)
            n == Len(x)
            m == Len(y)
            A == x \o y
            B == w \o y
<1>3. w \in Seq(SoundFrame) /\ Len(w) = n - 1 /\ Head(x) \in SoundFrame
      /\ \A i \in 1..Len(w) : w[i] = x[i + 1]
  BY HeadTailProperties
<1>4. Head(x) = x[1]
  OBVIOUS
<1>5. /\ n \in Nat /\ m \in Nat /\ DOMAIN A = 1..(n + m)
      /\ \A i \in 1..n : A[i] = x[i]
      /\ \A i \in 1..m : A[n + i] = y[i]
  BY <1>2, Joint
<1>6. /\ DOMAIN B = 1..(Len(w) + m)
      /\ \A i \in 1..Len(w) : B[i] = w[i]
      /\ \A i \in 1..m : B[Len(w) + i] = y[i]
  BY <1>2, <1>3, Joint
<1>7. n # 0
  BY EmptySeq
<1>. HIDE DEF w, n, m, A, B
<1>8. A[1] = x[1]
  BY <1>5, <1>7
<1>9. \A q \in 1..(n - 1 + m) : B[q] = A[q + 1]
  <2>1. TAKE q \in 1..(n - 1 + m)
  <2>2. CASE q <= n - 1
    <3>1. q \in 1..Len(w) /\ q + 1 \in 1..n
      BY <1>3, <1>5, <2>2
    <3>. QED BY <3>1, <1>3, <1>5, <1>6
  <2>3. CASE ~(q <= n - 1)
    <3>1. PICK i \in 1..m : i = q - (n - 1)
      BY <1>5, <1>7, <2>3
    <3>2. q = Len(w) + i /\ q + 1 = n + i
      BY <1>3, <1>5, <1>7, <3>1
    <3>. QED BY <3>2, <1>5, <1>6
  <2>. QED BY <2>2, <2>3
<1>10. Shrunk(A, B, x[1])
  <2>1. PICK z \in Nat : z = n - 1 + m
    BY <1>5, <1>7
  <2>2. DOMAIN A = 1..(z + 1) /\ DOMAIN B = 1..z
    BY <1>3, <1>5, <1>6, <1>7, <2>1
  <2>. QED BY <2>1, <2>2, <1>8, <1>9 DEF Shrunk
<1>. QED BY <1>3, <1>4, <1>10 DEF A, B, w
=============================================================================
