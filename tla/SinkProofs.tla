----------------------------- MODULE SinkProofs -----------------------------
(***************************************************************************)
(* Proofs about Sink, for any events, kernel size, pipe and number of      *)
(* events: memory is kept until it is written, buffers are freed right,    *)
(* and every step of the sink is one that Stream allows or leaves Stream's *)
(* state alone.                                                            *)
(*                                                                         *)
(* Bytes carry the number they were put with, so the invariant says that   *)
(* the buckets not yet written, through all the kernels, denote one run of *)
(* numbers: from the byte after the last one in the pipe to the last one   *)
(* put.                                                                    *)
(***************************************************************************)
EXTENDS Sink, WellFoundedInduction, TLAPS

-----------------------------------------------------------------------------
(* The invariant.                                                          *)

Part == [type : {"COPY", "HOLD", "FREE"}, len : Nat]

Kernel == [iov : Seq(Bucket), total : Nat, holder : Nat, hindex : Nat,
           final : Seq(1..MaxEvents)]

Job == [at : {"idle", "put", "fill", "last", "spin", "resume", "quit", "gone"},
        rest : Seq(Part), ev : 0..MaxEvents, can : BOOLEAN]

\* All but the last kernel of the chain ks are full.
Form(ks) ==
    /\ ks \in Seq(Kernel) /\ ks # << >>
    /\ \A i \in 1..Len(ks) : /\ Len(ks[i].iov) <= Size
                             /\ i < Len(ks) => Len(ks[i].iov) = Size
                             /\ \A j \in 1..Len(ks[i].iov) : ks[i].iov[j].ev # 0

Spare(ks) == Len(ks[Len(ks)].iov) < Size

\* st buckets and se bytes of the first kernel have been written.
Place(k, st, se) ==
    st \in Nat /\ (st = 0 \/ st < Len(k.iov)) /\ se \in 0..k.total

\* Of kernel i: kernels but the first have not been started.
From(i, s) == IF i = 1 THEN s ELSE 0
After(i, a) == IF i = 1 THEN 0 ELSE a

\* The number of the last byte of buckets s + 1 to j, if a is the one before
\* bucket s + 1.
End(iov, s, a, j) == IF j = s THEN a ELSE iov[j].base + iov[j].len - 1

\* Buckets s + 1 and on denote the bytes a + 1 to b.
Lined(iov, s, a, b) ==
    /\ \A j \in (s + 1)..Len(iov) : iov[j].base = End(iov, s, a, j - 1) + 1
    /\ b = End(iov, s, a, Len(iov))

\* The pointer a bucket was put with, and those of the FREE buckets.
Orig(k, j) ==
    IF k.holder # 0 /\ k.hindex + 1 = j THEN k.holder ELSE k.iov[j].base

FreeIn(k) == {j \in 1..Len(k.iov) : k.iov[j].type = "FREE"}

Ptrs(k) == {Orig(k, j) : j \in FreeIn(k)}

\* Kernel k, written up to bucket st and byte se, has the bytes a + 1 to b
\* to be written, and its buffers lie after byte lo.
Holds(k, st, se, a, b, lo) ==
    /\ Lined(k.iov, st, a, b)
    /\ k.total = se + (b - a)
    /\ \A p \in Ptrs(k) : p > lo /\ p <= b

\* The chain ks, of which the first kernel is written up to bucket st, byte
\* se: g[i] is the last byte of kernel i, and g[0] the last one written.
Chain(ks, st, se, g) ==
    /\ g \in [0..Len(ks) -> Nat]
    /\ \A i, j \in 0..Len(ks) : i <= j => g[i] <= g[j]
    /\ \A i \in 1..Len(ks) :
          Holds(ks[i], From(i, st), From(i, se), g[i - 1], g[i],
                After(i, g[i - 1]))

\* A base is kept aside for the first bucket to be written, if at all.
Aside(ks, st) ==
    \A i \in 1..Len(ks) : ks[i].holder # 0 =>
        i = 1 /\ ks[i].hindex = st /\ st < Len(ks[i].iov)

\* The buffers allocated are those of the chain.
Owned(ks, h) == h = UNION {Ptrs(ks[i]) : i \in 1..Len(ks)}

\* The chain has the bytes p + 1 to x to be written, and the buffers h.
Data(ks, st, se, h, p, x) ==
    /\ Aside(ks, st) /\ Owned(ks, h)
    /\ \E g : Chain(ks, st, se, g) /\ g[0] = p /\ g[Len(ks)] = x

\* The value of an event is in use as long as one of its buckets waits.
Held(ks, st, ev) ==
    \A i \in 1..Len(ks) : \A j \in (From(i, st) + 1)..Len(ks[i].iov) :
        ks[i].iov[j].type = "HOLD" =>
            \/ ks[i].iov[j].ev = ev
            \/ \E l \in i..Len(ks) : ks[i].iov[j].ev \in Range(ks[l].final)

\* What the owner of the sink does: an event is being sent, or none is.
Busy(j) ==
    /\ j \in Job
    /\ j.at = "put" => j.rest # << >>
    /\ j.ev = 0 <=> j.at \in {"idle", "resume", "quit", "gone"}
    /\ j.at = "spin" => ~j.can
    /\ \A i \in 1..Len(j.rest) : j.rest[i].type = "FREE" => j.rest[i].len > 0

\* What has been written is on its way.
Sent ==
    /\ pipe \in Seq(Nat) /\ got \in Seq(Nat) /\ nxt \in Nat /\ open \in BOOLEAN
    /\ Len(pipe) <= Cap
    /\ Len(got) + Len(pipe) <= nxt
    /\ \A i \in 1..Len(pipe) : pipe[i] = Len(got) + i
    /\ ~open => pipe = << >>

\* What holds whoever is at the other end.
Basic ==
    /\ Form(kernels) /\ Place(kernels[1], start, sent) /\ Busy(job)
    /\ job.at # "fill" => Spare(kernels)
    /\ heap \subseteq 1..nxt
    /\ events \in 0..MaxEvents
    /\ wild \in BOOLEAN /\ selecting \in BOOLEAN

IInv ==
    /\ Basic /\ Sent
    /\ open => Held(kernels, start, job.ev)
    /\ open /\ job.at # "gone" =>
          ~wild /\ Data(kernels, start, sent, heap, Len(got) + Len(pipe), nxt)

-----------------------------------------------------------------------------
(* Flattened sequences, and the bytes of a run of buckets.                 *)

LEMMA LeastNatural ==
    ASSUME NEW T \in SUBSET Nat, T # {}
    PROVE  \E x \in T : \A y \in T : x <= y
<1>1. PICK x \in T : \A y \in T : ~(<<y, x>> \in OpToRel(<, Nat))
  BY NatLessThanWellFounded, WFMin
<1>2. ASSUME NEW y \in T PROVE x <= y
  <2>1. ~(y < x)
    BY <1>1 DEF OpToRel
  <2>2. x \in Nat /\ y \in Nat
    OBVIOUS
  <2> QED
    BY <2>1, <2>2
<1> QED
  BY <1>2

\* f is what FlattenSeq(s) computes, up to n.
IsFlat(f, s, n) ==
    /\ f = [i \in 1..n |-> f[i]]
    /\ \A i \in 1..n : f[i] = IF i = 1 THEN s[i] ELSE f[i - 1] \o s[i]

LEMMA FlatExists ==
    ASSUME NEW s, NEW n \in Nat
    PROVE  \E f : IsFlat(f, s, n)
<1> DEFINE T == {m \in Nat : ~\E f : IsFlat(f, s, m)}
<1> SUFFICES ASSUME n \in T PROVE FALSE
  OBVIOUS
<1>1. PICK x \in T : \A y \in T : x <= y
  BY LeastNatural
<1>2. x \in Nat /\ ~\E f : IsFlat(f, s, x)
  OBVIOUS
<1>3. CASE x = 0
  <2> DEFINE h == [i \in 1..0 |-> 0]
  <2>1. IsFlat(h, s, 0)
    BY DEF IsFlat
  <2> QED
    BY <1>2, <1>3, <2>1
<1>4. CASE x # 0
  <2>1. x - 1 \in Nat /\ ~(x <= x - 1)
    BY <1>2, <1>4
  <2>2. PICK f : IsFlat(f, s, x - 1)
    BY <1>1, <2>1
  <2>3. PICK v : v = IF x = 1 THEN s[x] ELSE f[x - 1] \o s[x]
    OBVIOUS
  <2> DEFINE h == [i \in 1..x |-> IF i = x THEN v ELSE f[i]]
  <2>4. h = [i \in 1..x |-> h[i]]
    OBVIOUS
  <2>5. ASSUME NEW i \in 1..x
        PROVE  h[i] = IF i = 1 THEN s[i] ELSE h[i - 1] \o s[i]
    <3>1. CASE i = x
      BY <1>2, <2>3, <3>1
    <3>2. CASE i # x
      <4>1. i \in 1..(x - 1) /\ h[i] = f[i]
        BY <1>2, <3>2
      <4>2. i # 1 => h[i - 1] = f[i - 1]
        BY <1>2, <3>2
      <4> QED
        BY <2>2, <4>1, <4>2 DEF IsFlat
    <3> QED
      BY <3>1, <3>2
  <2>6. IsFlat(h, s, x)
    BY <2>4, <2>5 DEF IsFlat
  <2> QED
    BY <1>2, <2>6
<1> QED
  BY <1>3, <1>4

\* The library's recursive definition means what it says.
LEMMA Flattened ==
    ASSUME NEW s, Len(s) \in Nat \ {0}
    PROVE  \E f : IsFlat(f, s, Len(s)) /\ FlattenSeq(s) = f[Len(s)]
<1> DEFINE Def(f) == f = [i \in 1..Len(s) |->
                            IF i = 1 THEN s[i] ELSE f[i - 1] \o s[i]]
<1>1. PICK f0 : IsFlat(f0, s, Len(s))
  BY FlatExists
<1>2. Def(f0)
  BY <1>1 DEF IsFlat
<1>3. PICK f : f = CHOOSE h : Def(h)
  OBVIOUS
<1>4. Def(f)
  BY <1>2, <1>3
<1>5. IsFlat(f, s, Len(s))
  BY <1>4 DEF IsFlat
<1>6. FlattenSeq(s) = f[Len(s)]
  BY <1>3 DEF FlattenSeq
<1> QED
  BY <1>5, <1>6

\* The bytes a + 1 to a + n.
Numbers(a, n) == [i \in 1..n |-> a + i]

\* q is l bytes from address c.
IsFrom(q, c, l) == q = [i \in 1..l |-> c + i - 1]

\* r is p followed by q.
IsJoined(p, q, r) ==
    /\ r \in Seq(Nat) /\ Len(r) = Len(p) + Len(q)
    /\ \A i \in 1..Len(r) : r[i] = IF i <= Len(p) THEN p[i] ELSE q[i - Len(p)]

LEMMA Joined ==
    ASSUME NEW p \in Seq(Nat), NEW q \in Seq(Nat), NEW r, r = p \o q
    PROVE  IsJoined(p, q, r)
  BY DEF IsJoined

\* q goes on after n bytes with l more.
Joins(a, n, q, l) == Numbers(a, n) \o q = Numbers(a, n + l)

LEMMA NumbersJoin ==
    ASSUME NEW a \in Nat, NEW n \in Nat, NEW l \in Nat, NEW c, NEW q,
           c = a + n + 1, IsFrom(q, c, l)
    PROVE  Joins(a, n, q, l)
<1>1. PICK p : p = Numbers(a, n)
  OBVIOUS
<1>2. p \in Seq(Nat) /\ Len(p) = n /\ \A i \in 1..n : p[i] = a + i
  BY <1>1 DEF Numbers
<1>3. q \in Seq(Nat) /\ Len(q) = l /\ \A i \in 1..l : q[i] = a + n + i
  BY DEF IsFrom
<1>4. PICK r : r = p \o q
  OBVIOUS
<1>5. /\ r \in Seq(Nat) /\ Len(r) = n + l
      /\ \A i \in 1..(n + l) : r[i] = IF i <= n THEN p[i] ELSE q[i - n]
  <2>1. p \in Seq(Nat) /\ q \in Seq(Nat)
    BY <1>2, <1>3
  <2>2. IsJoined(p, q, r)
    BY <1>4, <2>1, Joined
  <2> QED
    BY <1>2, <1>3, <2>2 DEF IsJoined
<1>6. ASSUME NEW i \in 1..(n + l) PROVE r[i] = a + i
  <2>1. CASE i <= n
    BY <1>2, <1>5, <2>1
  <2>2. CASE ~(i <= n)
    <3>1. i - n \in 1..l
      BY <2>2
    <3> QED
      BY <1>3, <1>5, <2>2, <3>1
  <2> QED
    BY <2>1, <2>2
<1>7. r = [i \in 1..(n + l) |-> a + i]
  BY <1>5, <1>6
<1> QED
  BY <1>1, <1>4, <1>7 DEF Numbers, Joins

\* What a HOLD bucket among s + 1 and on points to is still in memory.
Kept(iov, s) ==
    \A j \in (s + 1)..Len(iov) : iov[j].type = "HOLD" => iov[j].ev \in Alive

\* u is buckets s + 1 to m of iov.
IsPart(iov, s, m, u) ==
    /\ u \in Seq(Bucket) /\ Len(u) = m - s
    /\ \A i \in 1..(m - s) : u[i] = iov[s + i]

LEMMA PartFields ==
    ASSUME NEW iov \in Seq(Bucket), NEW s \in Nat, NEW m \in Nat,
           s <= m, m <= Len(iov), NEW u, u = SubSeq(iov, s + 1, m)
    PROVE  IsPart(iov, s, m, u)
<1>1. Len(iov) \in Nat /\ \A i \in 1..Len(iov) : iov[i] \in Bucket
  OBVIOUS
<1>2. u = [i \in 1..(m - s) |-> iov[s + i]]
  BY <1>1
<1>3. \A i \in 1..(m - s) : s + i \in 1..Len(iov) /\ u[i] = iov[s + i]
  BY <1>1, <1>2
<1>4. \A i \in 1..(m - s) : u[i] \in Bucket
  BY <1>1, <1>3
<1>5. u \in Seq(Bucket) /\ Len(u) = m - s
  BY <1>2, <1>4
<1> QED
  BY <1>3, <1>5 DEF IsPart

LEMMA BucketFields ==
    ASSUME NEW iov \in Seq(Bucket), NEW j \in 1..Len(iov)
    PROVE  /\ iov[j] \in Bucket /\ iov[j].base \in Nat /\ iov[j].len \in Nat
           /\ iov[j].type \in {"HOLD", "COPY", "FREE"} /\ iov[j].ev \in Nat
<1>1. iov[j] \in Bucket
  OBVIOUS
<1> QED
  BY <1>1 DEF Bucket

\* The bytes of buckets s + 1 to m of a run that starts after a.
LEMMA RunBytes ==
    ASSUME NEW iov \in Seq(Bucket), NEW s \in Nat, NEW m \in Nat,
           s <= m, m <= Len(iov), NEW a \in Nat, NEW b,
           Lined(iov, s, a, b), Kept(iov, s)
    PROVE  /\ End(iov, s, a, m) - a \in Nat
           /\ BytesOf(SubSeq(iov, s + 1, m)) = Numbers(a, End(iov, s, a, m) - a)
<1> DEFINE E(j) == End(iov, s, a, j)
<1>1. PICK u : u = SubSeq(iov, s + 1, m)
  OBVIOUS
<1>2. IsPart(iov, s, m, u) /\ Len(iov) \in Nat
  <2>1. Len(iov) \in Nat
    OBVIOUS
  <2> QED
    BY <1>1, <2>1, PartFields
<1>3. PICK q : q = [i \in 1..Len(u) |-> Bytes(u[i])]
  OBVIOUS
<1>4. BytesOf(u) = FlattenSeq(q) /\ Len(u) = m - s /\ m - s \in Nat /\ Len(q) = m - s
  BY <1>2, <1>3 DEF BytesOf, IsPart
<1>5. CASE m = s
  <2>1. FlattenSeq(q) = q
    BY <1>4, <1>5 DEF FlattenSeq
  <2>2. q = [i \in 1..0 |-> a + i]
    BY <1>3, <1>4, <1>5
  <2>3. End(iov, s, a, m) - a = 0
    BY <1>5 DEF End
  <2> QED
    BY <1>1, <1>4, <2>1, <2>2, <2>3 DEF Numbers
<1>6. CASE m # s
  <2>1. Len(q) \in Nat \ {0}
    BY <1>4, <1>6
  <2>2. PICK f : IsFlat(f, q, Len(q)) /\ FlattenSeq(q) = f[Len(q)]
    BY <2>1, Flattened
  <2> DEFINE Good(i) == /\ End(iov, s, a, s + i) - a \in Nat
                        /\ f[i] = Numbers(a, End(iov, s, a, s + i) - a)
  <2>3. ASSUME NEW i \in 1..(m - s), i # 1 => Good(i - 1)
        PROVE  Good(i)
    <3>1. PICK j : j = s + i
      OBVIOUS
    <3>2. /\ j \in 1..Len(iov) /\ j \in (s + 1)..Len(iov) /\ j - 1 \in Nat /\ j # s
          /\ j - 1 = s + (i - 1) /\ (i = 1 <=> j - 1 = s)
      BY <1>2, <3>1
    <3>3. /\ u[i] = iov[j] /\ q[i] = Bytes(iov[j]) /\ i \in 1..Len(u)
      BY <1>2, <1>3, <1>4, <3>1 DEF IsPart
    <3>4. iov[j].base \in Nat /\ iov[j].len \in Nat
      BY <3>2, BucketFields
    <3>5. iov[j].base = End(iov, s, a, j - 1) + 1
      BY <3>2 DEF Lined
    <3>6. PICK n : n = End(iov, s, a, j - 1) - a
      OBVIOUS
    <3>7. n \in Nat /\ (i # 1 => f[i - 1] = Numbers(a, n))
      <4>1. CASE i = 1
        BY <3>2, <3>6, <4>1 DEF End
      <4>2. CASE i # 1
        BY <2>3, <3>2, <3>6, <4>2
      <4> QED
        BY <4>1, <4>2
    <3>8. End(iov, s, a, j - 1) = a + n
      <4>1. CASE i = 1
        BY <3>2, <3>6, <4>1 DEF End
      <4>2. CASE i # 1
        <5>1. j - 1 \in 1..Len(iov) /\ j - 1 # s
          BY <1>2, <3>2, <4>2
        <5>2. iov[j - 1].base \in Nat /\ iov[j - 1].len \in Nat
          BY <5>1, BucketFields
        <5> QED
          BY <3>6, <3>7, <5>1, <5>2 DEF End
      <4> QED
        BY <4>1, <4>2
    <3>9. iov[j].base = a + n + 1
      BY <3>5, <3>8
    <3>10. iov[j].type = "HOLD" => iov[j].ev \in Alive
      BY <3>2 DEF Kept
    <3>11. q[i] = [k \in 1..iov[j].len |-> (a + n + 1) + k - 1]
      BY <3>3, <3>9, <3>10 DEF Bytes
    <3>12. End(iov, s, a, j) = a + n + iov[j].len
      BY <3>2, <3>4, <3>7, <3>9 DEF End
    <3>13. End(iov, s, a, s + i) - a = n + iov[j].len /\ n + iov[j].len \in Nat
      <4>1. PICK e, l : e = End(iov, s, a, s + i) /\ l = iov[j].len
        OBVIOUS
      <4>2. e = a + n + l /\ l \in Nat
        BY <3>1, <3>4, <3>12, <4>1
      <4>3. e - a = n + l /\ n + l \in Nat
        BY <3>7, <4>2
      <4> QED
        BY <4>1, <4>3
    <3>14. Numbers(a, n) \o q[i] = Numbers(a, n + iov[j].len)
      <4>1. PICK l, r : l = iov[j].len /\ r = q[i]
        OBVIOUS
      <4>2. PICK c : c = a + n + 1
        OBVIOUS
      <4>3. l \in Nat /\ IsFrom(r, c, l)
        BY <3>4, <3>11, <4>1, <4>2 DEF IsFrom
      <4>4. n \in Nat
        BY <3>7
      <4>5. Joins(a, n, r, l)
        BY <4>2, <4>3, <4>4, NumbersJoin
      <4> QED
        BY <4>1, <4>5 DEF Joins
    <3>15. f[i] = IF i = 1 THEN q[i] ELSE f[i - 1] \o q[i]
      BY <1>4, <2>2 DEF IsFlat
    <3>16. f[i] = Numbers(a, n + iov[j].len)
      <4>1. CASE i = 1
        <5>1. n = 0
          BY <3>2, <3>6, <4>1 DEF End
        <5>2. q[i] = [k \in 1..(n + iov[j].len) |-> a + k]
          BY <3>4, <3>11, <5>1
        <5> QED
          BY <3>15, <4>1, <5>2 DEF Numbers
      <4>2. CASE i # 1
        BY <3>7, <3>14, <3>15, <4>2
      <4> QED
        BY <4>1, <4>2
    <3> QED
      BY <3>13, <3>16
  <2>4. ASSUME ~Good(m - s) PROVE FALSE
    <3> DEFINE T == {i \in 1..(m - s) : ~Good(i)}
    <3>1. m - s \in T /\ T \in SUBSET Nat
      BY <1>4, <1>6, <2>4
    <3> HIDE DEF Good
    <3>2. PICK x \in T : \A y \in T : x <= y
      BY <3>1, LeastNatural
    <3>3. x \in 1..(m - s) /\ ~Good(x) /\ x - 1 \notin T
      BY <3>2
    <3>4. x # 1 => x - 1 \in 1..(m - s)
      BY <3>3
    <3>5. x # 1 => Good(x - 1)
      BY <3>3, <3>4
    <3> QED
      BY <2>3, <3>3, <3>5
  <2>5. s + (m - s) = m
    OBVIOUS
  <2> QED
    BY <1>1, <1>4, <2>2, <2>4, <2>5
<1> QED
  BY <1>5, <1>6

-----------------------------------------------------------------------------
(* A kernel more in the chain.                                             *)

LEMMA KernelFields ==
    ASSUME NEW ks \in Seq(Kernel), NEW i \in 1..Len(ks)
    PROVE  /\ ks[i] \in Kernel /\ ks[i].iov \in Seq(Bucket)
           /\ Len(ks[i].iov) \in Nat /\ ks[i].total \in Nat
           /\ ks[i].holder \in Nat /\ ks[i].hindex \in Nat
           /\ ks[i].final \in Seq(1..MaxEvents)
<1>1. ks[i] \in Kernel
  OBVIOUS
<1> QED
  BY <1>1 DEF Kernel

LEMMA FormFields ==
    ASSUME NEW ks, Form(ks)
    PROVE  /\ ks \in Seq(Kernel) /\ Len(ks) \in Nat \ {0}
           /\ 1 \in 1..Len(ks) /\ Len(ks) \in 1..Len(ks)
<1>1. ks \in Seq(Kernel) /\ ks # << >>
  BY DEF Form
<1> QED
  BY <1>1

LEMMA EmptyFields ==
    /\ EmptyKernel \in Kernel /\ EmptyKernel.iov = << >>
    /\ EmptyKernel.total = 0 /\ EmptyKernel.holder = 0
    /\ EmptyKernel.final = << >> /\ Ptrs(EmptyKernel) = {}
  BY DEF EmptyKernel, Kernel, Ptrs, FreeIn

\* ks1 has an empty kernel at its end.
IsGrown(ks, ks1) ==
    /\ ks1 \in Seq(Kernel) /\ Len(ks1) = Len(ks) + 1
    /\ \A i \in 1..Len(ks) : ks1[i] = ks[i]
    /\ ks1[Len(ks) + 1] = EmptyKernel

LEMMA GrownFields ==
    ASSUME NEW ks, Form(ks), NEW ks1, ks1 = AddIfFull(ks)
    PROVE  \/ ks1 = ks /\ Spare(ks)
           \/ IsGrown(ks, ks1) /\ Len(ks[Len(ks)].iov) = Size
<1>1. ks \in Seq(Kernel) /\ Len(ks) \in 1..Len(ks) /\ Len(ks) \in Nat
  BY FormFields
<1>2. Len(ks[Len(ks)].iov) <= Size /\ Len(ks[Len(ks)].iov) \in Nat /\ Size \in Nat
  BY <1>1, KernelFields, SinkAssumption DEF Form
<1>3. CASE Full(Last(ks))
  <2>1. ks1 = Append(ks, EmptyKernel)
    BY <1>3 DEF AddIfFull
  <2>2. IsGrown(ks, ks1)
    BY <1>1, <2>1, EmptyFields DEF IsGrown
  <2>3. Len(ks[Len(ks)].iov) = Size
    BY <1>2, <1>3 DEF Full, Last
  <2> QED
    BY <2>2, <2>3
<1>4. CASE ~Full(Last(ks))
  <2>1. ks1 = ks
    BY <1>4 DEF AddIfFull
  <2>2. Spare(ks)
    BY <1>2, <1>4 DEF Full, Last, Spare
  <2> QED
    BY <2>1, <2>2
<1> QED
  BY <1>3, <1>4

LEMMA GrownForm ==
    ASSUME NEW ks, Form(ks), NEW ks1, IsGrown(ks, ks1),
           Len(ks[Len(ks)].iov) = Size
    PROVE  Form(ks1) /\ Spare(ks1) /\ ks1[1] = ks[1]
<1>1. /\ ks \in Seq(Kernel) /\ Len(ks) \in Nat \ {0} /\ ks1 \in Seq(Kernel)
      /\ Len(ks1) = Len(ks) + 1 /\ Size \in Nat \ {0}
  BY FormFields, SinkAssumption DEF IsGrown
<1>2. ASSUME NEW i \in 1..Len(ks1)
      PROVE  /\ Len(ks1[i].iov) <= Size
             /\ i < Len(ks1) => Len(ks1[i].iov) = Size
             /\ \A j \in 1..Len(ks1[i].iov) : ks1[i].iov[j].ev # 0
  <2>1. CASE i = Len(ks) + 1
    <3>1. ks1[i].iov = << >>
      BY <2>1, EmptyFields DEF IsGrown
    <3> QED
      BY <1>1, <2>1, <3>1
  <2>2. CASE i # Len(ks) + 1
    <3>1. i \in 1..Len(ks) /\ ks1[i] = ks[i]
      BY <1>1, <2>2 DEF IsGrown
    <3>2. i < Len(ks) \/ i = Len(ks)
      BY <1>1, <3>1
    <3> QED
      BY <3>1, <3>2 DEF Form
  <2> QED
    BY <2>1, <2>2
<1>3. Spare(ks1)
  <2>1. ks1[Len(ks1)].iov = << >>
    BY <1>1, EmptyFields DEF IsGrown
  <2> QED
    BY <1>1, <2>1 DEF Spare
<1> QED
  BY <1>1, <1>2, <1>3 DEF Form, IsGrown

LEMMA GrownHeld ==
    ASSUME NEW ks, Form(ks), NEW ks1, IsGrown(ks, ks1), NEW st \in Nat, NEW ev,
           Held(ks, st, ev)
    PROVE  Held(ks1, st, ev)
<1>1. /\ ks \in Seq(Kernel) /\ Len(ks) \in Nat \ {0} /\ Len(ks1) = Len(ks) + 1
  BY FormFields DEF IsGrown
<1>2. SUFFICES ASSUME NEW i \in 1..Len(ks1),
                      NEW j \in (From(i, st) + 1)..Len(ks1[i].iov),
                      ks1[i].iov[j].type = "HOLD"
               PROVE  \/ ks1[i].iov[j].ev = ev
                      \/ \E l \in i..Len(ks1) :
                            ks1[i].iov[j].ev \in Range(ks1[l].final)
  BY DEF Held
<1>3. CASE i = Len(ks) + 1
  <2>1. ks1[i].iov = << >> /\ From(i, st) \in Nat
    BY <1>3, EmptyFields DEF IsGrown, From
  <2> QED
    BY <2>1
<1>4. CASE i # Len(ks) + 1
  <2>1. i \in 1..Len(ks) /\ ks1[i] = ks[i]
    BY <1>1, <1>4 DEF IsGrown
  <2>2. CASE ks[i].iov[j].ev = ev
    BY <2>1, <2>2
  <2>3. CASE ks[i].iov[j].ev # ev
    <3>1. PICK l \in i..Len(ks) : ks[i].iov[j].ev \in Range(ks[l].final)
      BY <1>2, <2>1, <2>3 DEF Held
    <3>2. l \in i..Len(ks1) /\ l \in 1..Len(ks) /\ ks1[l] = ks[l]
      BY <1>1, <2>1, <3>1 DEF IsGrown
    <3> QED
      BY <2>1, <3>1, <3>2
  <2> QED
    BY <2>2, <2>3
<1> QED
  BY <1>3, <1>4

LEMMA EmptyHolds ==
    ASSUME NEW k, k.iov = << >>, k.total = 0, NEW x \in Nat, NEW lo \in Nat
    PROVE  Holds(k, 0, 0, x, x, lo) /\ Ptrs(k) = {}
<1>1. Ptrs(k) = {}
  BY DEF Ptrs, FreeIn
<1>2. Len(k.iov) = 0
  OBVIOUS
<1>3. Lined(k.iov, 0, x, x)
  BY <1>2 DEF Lined, End
<1> QED
  BY <1>1, <1>3 DEF Holds

LEMMA GrownData ==
    ASSUME NEW ks, Form(ks), NEW ks1, IsGrown(ks, ks1), NEW st \in Nat,
           NEW se \in Nat, NEW h, NEW p, NEW x, Data(ks, st, se, h, p, x)
    PROVE  Data(ks1, st, se, h, p, x)
<1>1. /\ ks \in Seq(Kernel) /\ Len(ks) \in Nat \ {0} /\ Len(ks1) = Len(ks) + 1
  BY FormFields DEF IsGrown
<1>2. PICK n : n = Len(ks)
  OBVIOUS
<1>3. n \in Nat \ {0} /\ Len(ks1) = n + 1
  BY <1>1, <1>2
<1>4. /\ \A i \in 1..n : ks1[i] = ks[i]
      /\ ks1[n + 1].iov = << >> /\ ks1[n + 1].total = 0
      /\ ks1[n + 1].holder = 0 /\ Ptrs(ks1[n + 1]) = {}
  BY <1>2, EmptyFields DEF IsGrown
<1>5. Aside(ks1, st)
  <2> SUFFICES ASSUME NEW i \in 1..Len(ks1), ks1[i].holder # 0
               PROVE  i = 1 /\ ks1[i].hindex = st /\ st < Len(ks1[i].iov)
    BY DEF Aside
  <2>1. i \in 1..n /\ ks1[i] = ks[i]
    BY <1>3, <1>4
  <2> QED
    BY <1>2, <2>1 DEF Data, Aside
<1>6. Owned(ks1, h)
  <2>1. UNION {Ptrs(ks1[i]) : i \in 1..(n + 1)} = UNION {Ptrs(ks[i]) : i \in 1..n}
    <3>1. \A i \in 1..(n + 1) : i \in 1..n \/ i = n + 1
      BY <1>3
    <3>2. \A i \in 1..n : i \in 1..(n + 1)
      BY <1>3
    <3> QED
      BY <1>4, <3>1, <3>2
  <2> QED
    BY <1>2, <1>3, <2>1 DEF Data, Owned
<1>7. PICK g : Chain(ks, st, se, g) /\ g[0] = p /\ g[n] = x
  BY <1>2 DEF Data
<1>8. /\ g \in [0..n -> Nat] /\ x \in Nat
      /\ \A i, j \in 0..n : i <= j => g[i] <= g[j]
  BY <1>2, <1>3, <1>7 DEF Chain
<1>9. PICK f : f = [i \in 0..(n + 1) |-> IF i = n + 1 THEN x ELSE g[i]]
  OBVIOUS
<1>10. /\ f \in [0..(n + 1) -> Nat] /\ f[n + 1] = x /\ f[0] = p
       /\ \A i \in 0..n : f[i] = g[i]
  BY <1>3, <1>7, <1>8, <1>9
<1>11. ASSUME NEW i \in 0..(n + 1), NEW j \in 0..(n + 1), i <= j
       PROVE  f[i] <= f[j]
  <2>1. CASE j \in 0..n
    <3>1. i \in 0..n
      BY <1>3, <1>11, <2>1
    <3> QED
      BY <1>8, <1>10, <1>11, <2>1, <3>1
  <2>2. CASE j = n + 1 /\ i \in 0..n
    <3>1. n \in 0..n /\ i <= n
      BY <1>3, <2>2
    <3> QED
      BY <1>7, <1>8, <1>10, <2>2, <3>1
  <2>3. CASE j = n + 1 /\ i = n + 1
    BY <1>8, <1>10, <2>3
  <2> QED
    BY <1>3, <2>1, <2>2, <2>3
<1>12. ASSUME NEW i \in 1..(n + 1)
       PROVE  Holds(ks1[i], From(i, st), From(i, se), f[i - 1], f[i],
                    After(i, f[i - 1]))
  <2>1. CASE i \in 1..n
    <3>1. f[i] = g[i] /\ f[i - 1] = g[i - 1] /\ ks1[i] = ks[i]
      BY <1>3, <1>4, <1>10, <2>1
    <3> QED
      BY <1>2, <1>7, <2>1, <3>1 DEF Chain
  <2>2. CASE i = n + 1
    <3>1. f[i] = x /\ f[i - 1] = x /\ i # 1
      BY <1>3, <1>7, <1>10, <2>2
    <3>2. From(i, st) = 0 /\ From(i, se) = 0 /\ After(i, f[i - 1]) = x
      BY <3>1 DEF From, After
    <3> QED
      BY <1>4, <1>8, <2>2, <3>1, <3>2, EmptyHolds
  <2> QED
    BY <1>3, <2>1, <2>2
<1>13. Chain(ks1, st, se, f)
  BY <1>3, <1>10, <1>11, <1>12 DEF Chain
<1> QED
  BY <1>3, <1>5, <1>6, <1>10, <1>13 DEF Data

-----------------------------------------------------------------------------
(* One kernel of the chain changed.                                        *)

Changed(ks, ks1, i, k) ==
    /\ ks1 \in Seq(Kernel) /\ Len(ks1) = Len(ks) /\ ks1[i] = k
    /\ \A j \in 1..Len(ks) : j # i => ks1[j] = ks[j]

LEMMA ChangedFields ==
    ASSUME NEW ks \in Seq(Kernel), NEW i \in 1..Len(ks), NEW k \in Kernel,
           NEW ks1, ks1 = [ks EXCEPT ![i] = k]
    PROVE  Changed(ks, ks1, i, k)
  BY DEF Changed

LEMMA ChangedForm ==
    ASSUME NEW ks, Form(ks), NEW i \in 1..Len(ks), NEW k, NEW ks1,
           Changed(ks, ks1, i, k), Len(k.iov) <= Size,
           i < Len(ks) => Len(k.iov) = Size,
           \A j \in 1..Len(k.iov) : k.iov[j].ev # 0
    PROVE  Form(ks1)
<1>1. ks1 \in Seq(Kernel) /\ Len(ks1) = Len(ks) /\ Len(ks) \in Nat \ {0}
  BY FormFields DEF Changed
<1>2. ks1 # << >>
  BY <1>1
<1>3. ASSUME NEW m \in 1..Len(ks1)
      PROVE  /\ Len(ks1[m].iov) <= Size
             /\ m < Len(ks1) => Len(ks1[m].iov) = Size
             /\ \A j \in 1..Len(ks1[m].iov) : ks1[m].iov[j].ev # 0
  <2>1. CASE m = i
    BY <1>1, <2>1 DEF Changed
  <2>2. CASE m # i
    <3>1. m \in 1..Len(ks) /\ ks1[m] = ks[m]
      BY <1>1, <2>2 DEF Changed
    <3> QED
      BY <1>1, <3>1 DEF Form
  <2> QED
    BY <2>1, <2>2
<1> QED
  BY <1>1, <1>2, <1>3 DEF Form

Rises(f, n) ==
    f \in [0..n -> Nat] /\ \A i, j \in 0..n : i <= j => f[i] <= f[j]

LEMMA ChangedChain ==
    ASSUME NEW ks, Form(ks), NEW i \in 1..Len(ks), NEW k, NEW ks1,
           Changed(ks, ks1, i, k), NEW st, NEW se, NEW st1, NEW se1,
           NEW g, NEW f, Chain(ks, st, se, g), Rises(f, Len(ks)),
           \A j \in 1..Len(ks) : j # i => f[j] = g[j] /\ f[j - 1] = g[j - 1],
           i # 1 => st1 = st /\ se1 = se,
           Holds(k, From(i, st1), From(i, se1), f[i - 1], f[i],
                 After(i, f[i - 1]))
    PROVE  Chain(ks1, st1, se1, f)
<1>1. Len(ks1) = Len(ks) /\ Len(ks) \in Nat
  BY FormFields DEF Changed
<1>2. ASSUME NEW m \in 1..Len(ks1)
      PROVE  Holds(ks1[m], From(m, st1), From(m, se1), f[m - 1], f[m],
                   After(m, f[m - 1]))
  <2>1. CASE m = i
    BY <2>1 DEF Changed
  <2>2. CASE m # i
    <3>1. /\ m \in 1..Len(ks) /\ ks1[m] = ks[m] /\ f[m] = g[m]
          /\ f[m - 1] = g[m - 1]
      BY <1>1, <2>2 DEF Changed
    <3>2. From(m, st1) = From(m, st) /\ From(m, se1) = From(m, se)
      BY <2>2 DEF From
    <3> QED
      BY <3>1, <3>2 DEF Chain
  <2> QED
    BY <2>1, <2>2
<1> QED
  BY <1>1, <1>2 DEF Chain, Rises

LEMMA ChangedOwned ==
    ASSUME NEW ks, Form(ks), NEW i \in 1..Len(ks), NEW k, NEW ks1,
           Changed(ks, ks1, i, k), NEW h, NEW d, Owned(ks, h),
           Ptrs(k) = Ptrs(ks[i]) \cup d
    PROVE  Owned(ks1, h \cup d)
<1>1. Len(ks1) = Len(ks)
  BY DEF Changed
<1>2. ASSUME NEW p PROVE p \in h \cup d <=> \E m \in 1..Len(ks) : p \in Ptrs(ks1[m])
  <2>1. p \in h <=> \E m \in 1..Len(ks) : p \in Ptrs(ks[m])
    BY DEF Owned
  <2>2. \A m \in 1..Len(ks) : m # i => ks1[m] = ks[m]
    BY DEF Changed
  <2>3. ks1[i] = k
    BY DEF Changed
  <2> QED
    BY <2>1, <2>2, <2>3
<1>3. h \cup d = UNION {Ptrs(ks1[m]) : m \in 1..Len(ks)}
  BY <1>2
<1> QED
  BY <1>1, <1>3 DEF Owned

-----------------------------------------------------------------------------
(* write(): a bucket more in the last kernel.                              *)

\* k1 is kernel k with the bucket b at its end.
IsPut(k, k1, b) ==
    /\ k1 \in Kernel /\ Len(k1.iov) = Len(k.iov) + 1
    /\ \A j \in 1..Len(k.iov) : k1.iov[j] = k.iov[j]
    /\ k1.iov[Len(k.iov) + 1] = b
    /\ k1.total = k.total + b.len /\ k1.final = k.final
    /\ k1.holder = k.holder /\ k1.hindex = k.hindex

LEMMA PutFields ==
    ASSUME NEW k \in Kernel, NEW b \in Bucket, NEW k1,
           k1 = [k EXCEPT !.iov = Append(@, b), !.total = @ + b.len]
    PROVE  IsPut(k, k1, b)
<1>1. k.iov \in Seq(Bucket) /\ k.total \in Nat /\ b.len \in Nat
  BY DEF Kernel, Bucket
<1>2. PICK q : q = Append(k.iov, b)
  OBVIOUS
<1>3. /\ q \in Seq(Bucket) /\ Len(q) = Len(k.iov) + 1
      /\ \A j \in 1..Len(k.iov) : q[j] = k.iov[j]
      /\ q[Len(k.iov) + 1] = b
  BY <1>1, <1>2
<1>4. PICK t : t = k.total + b.len
  OBVIOUS
<1>5. k1 = [iov |-> q, total |-> t, holder |-> k.holder, hindex |-> k.hindex,
            final |-> k.final]
  BY <1>2, <1>4 DEF Kernel
<1>6. k1 \in Kernel
  <2>1. t \in Nat
    BY <1>1, <1>4
  <2>2. k.holder \in Nat /\ k.hindex \in Nat /\ k.final \in Seq(1..MaxEvents)
    BY DEF Kernel
  <2> QED
    BY <1>3, <1>5, <2>1, <2>2 DEF Kernel
<1>7. /\ k1.iov = q /\ k1.total = k.total + b.len /\ k1.final = k.final
      /\ k1.holder = k.holder /\ k1.hindex = k.hindex
  <2>1. k1.iov = q
    BY <1>2 DEF Kernel
  <2>2. k1.total = t
    BY <1>4 DEF Kernel
  <2>3. k1.final = k.final /\ k1.holder = k.holder /\ k1.hindex = k.hindex
    BY <1>5
  <2> QED
    BY <1>4, <2>1, <2>3, <2>2
<1> QED
  BY <1>3, <1>7, <1>6 DEF IsPut

\* The pointers of a bucket.
Pointer(b) == IF b.type = "FREE" THEN {b.base} ELSE {}

LEMMA PutPtrs ==
    ASSUME NEW k \in Kernel, NEW b, NEW k1, IsPut(k, k1, b),
           k.holder # 0 => k.hindex < Len(k.iov)
    PROVE  Ptrs(k1) = Ptrs(k) \cup Pointer(b)
<1>1. PICK n : n = Len(k.iov)
  OBVIOUS
<1>2. n \in Nat /\ k.hindex \in Nat /\ Len(k1.iov) = n + 1
  BY <1>1 DEF Kernel, IsPut
<1>3. k1.iov[n + 1] = b /\ k1.holder = k.holder /\ k1.hindex = k.hindex
  BY <1>1 DEF IsPut
<1>4. \A j \in 1..n : k1.iov[j] = k.iov[j] /\ Orig(k1, j) = Orig(k, j)
  BY <1>1, <1>3 DEF IsPut, Orig
<1>5. Orig(k1, n + 1) = b.base
  BY <1>1, <1>2, <1>3 DEF Orig
<1>6. FreeIn(k) = {j \in 1..n : k.iov[j].type = "FREE"}
  BY <1>1 DEF FreeIn
<1>7. FreeIn(k1) = {j \in 1..(n + 1) : k1.iov[j].type = "FREE"}
  BY <1>2 DEF FreeIn
<1>8. \A j : j \in 1..(n + 1) <=> j \in 1..n \/ j = n + 1
  BY <1>2
<1>9. ASSUME NEW p PROVE p \in Ptrs(k1) <=> p \in Ptrs(k) \/ p \in Pointer(b)
  <2>1. p \in Ptrs(k1) <=> \E j \in 1..(n + 1) :
                              k1.iov[j].type = "FREE" /\ p = Orig(k1, j)
    BY <1>7 DEF Ptrs
  <2>2. p \in Ptrs(k) <=> \E j \in 1..n : k.iov[j].type = "FREE" /\ p = Orig(k, j)
    BY <1>6 DEF Ptrs
  <2>3. p \in Pointer(b) <=> k1.iov[n + 1].type = "FREE" /\ p = Orig(k1, n + 1)
    BY <1>3, <1>5 DEF Pointer
  <2> QED
    BY <1>4, <1>8, <2>1, <2>2, <2>3
<1> QED
  BY <1>9

LEMMA PutHolds ==
    ASSUME NEW k \in Kernel, NEW b \in Bucket, NEW k1, IsPut(k, k1, b),
           k.holder # 0 => k.hindex < Len(k.iov),
           NEW st \in Nat, st <= Len(k.iov), NEW se \in Nat,
           NEW a \in Nat, NEW x \in Nat, NEW lo \in Nat, lo <= x,
           Holds(k, st, se, a, x, lo), b.base = x + 1,
           b.type = "FREE" => b.len > 0
    PROVE  Holds(k1, st, se, a, x + b.len, lo)
<1>1. PICK n : n = Len(k.iov)
  OBVIOUS
<1>2. n \in Nat /\ Len(k1.iov) = n + 1 /\ st <= n /\ b.len \in Nat /\ k.total \in Nat
  BY <1>1 DEF Kernel, IsPut, Bucket
<1>3. k1.iov[n + 1] = b /\ k1.total = k.total + b.len
  BY <1>1 DEF IsPut
<1>4. \A j \in st..n : End(k1.iov, st, a, j) = End(k.iov, st, a, j)
  <2> TAKE j \in st..n
  <2>1. CASE j = st
    BY <2>1 DEF End
  <2>2. CASE j # st
    <3>1. k1.iov[j] = k.iov[j]
      BY <1>1, <1>2, <2>2 DEF IsPut
    <3> QED
      BY <3>1 DEF End
  <2> QED
    BY <2>1, <2>2
<1>5. End(k.iov, st, a, n) = x
  BY <1>1 DEF Holds, Lined
<1>6. x + b.len = End(k1.iov, st, a, n + 1)
  <2>1. n + 1 # st
    BY <1>2
  <2>2. End(k1.iov, st, a, n + 1) = b.base + b.len - 1
    BY <1>3, <2>1 DEF End
  <2>3. PICK l : l = b.len
    OBVIOUS
  <2>4. x + l = (x + 1) + l - 1
    BY <1>2, <2>3
  <2> QED
    BY <2>2, <2>3, <2>4
<1>7. ASSUME NEW j \in (st + 1)..(n + 1)
      PROVE  k1.iov[j].base = End(k1.iov, st, a, j - 1) + 1
  <2>1. CASE j = n + 1
    <3>1. j - 1 = n /\ n \in st..n
      BY <1>2, <2>1
    <3> QED
      BY <1>3, <1>4, <1>5, <2>1, <3>1
  <2>2. CASE j # n + 1
    <3>1. j \in (st + 1)..n /\ j - 1 \in st..n /\ j \in 1..n
      BY <1>2, <2>2
    <3>2. k.iov[j].base = End(k.iov, st, a, j - 1) + 1
      BY <1>1, <3>1 DEF Holds, Lined
    <3>3. k1.iov[j] = k.iov[j]
      BY <1>1, <3>1 DEF IsPut
    <3> QED
      BY <1>4, <3>1, <3>2, <3>3
  <2> QED
    BY <2>1, <2>2
<1>8. Lined(k1.iov, st, a, x + b.len)
  BY <1>2, <1>6, <1>7 DEF Lined
<1>9. k1.total = se + ((x + b.len) - a)
  <2>1. k.total = se + (x - a)
    BY DEF Holds
  <2> QED
    BY <1>2, <1>3, <2>1
<1>10. ASSUME NEW p \in Ptrs(k1) PROVE p > lo /\ p <= x + b.len
  <2>1. CASE p \in Pointer(b)
    <3>1. p = x + 1 /\ b.len > 0
      BY <2>1 DEF Pointer
    <3> QED
      BY <1>2, <3>1
  <2>2. CASE p \notin Pointer(b)
    <3>1. p \in Ptrs(k)
      BY <2>2, PutPtrs
    <3>2. p \in Nat
      <4>1. PICK j \in 1..Len(k.iov) : p = Orig(k, j)
        BY <3>1 DEF Ptrs, FreeIn
      <4>2. k.iov \in Seq(Bucket) /\ k.holder \in Nat
        BY DEF Kernel
      <4>3. k.iov[j].base \in Nat
        BY <4>1, <4>2, BucketFields
      <4> QED
        BY <4>1, <4>2, <4>3 DEF Orig
    <3>3. p > lo /\ p <= x
      BY <3>1 DEF Holds
    <3> QED
      BY <1>2, <3>2, <3>3
  <2> QED
    BY <2>1, <2>2
<1> QED
  BY <1>8, <1>9, <1>10 DEF Holds

LEMMA ChainFields ==
    ASSUME NEW ks, Form(ks), NEW st, NEW se, NEW g, Chain(ks, st, se, g)
    PROVE  /\ Rises(g, Len(ks))
           /\ \A i \in 1..Len(ks) :
                 g[i - 1] \in Nat /\ g[i] \in Nat /\ g[i - 1] <= g[i]
<1>1. Len(ks) \in Nat /\ Rises(g, Len(ks))
  BY FormFields DEF Chain, Rises
<1>2. \A i \in 1..Len(ks) : i - 1 \in 0..Len(ks) /\ i \in 0..Len(ks) /\ i - 1 <= i
  BY <1>1
<1> QED
  BY <1>1, <1>2 DEF Rises

LEMMA PlaceFields ==
    ASSUME NEW ks, Form(ks), NEW st, NEW se, Place(ks[1], st, se),
           NEW i \in 1..Len(ks)
    PROVE  /\ st \in Nat /\ se \in Nat /\ From(i, st) \in Nat /\ From(i, se) \in Nat
           /\ From(i, st) <= Len(ks[i].iov)
<1>1. ks \in Seq(Kernel) /\ Len(ks) \in Nat \ {0} /\ 1 \in 1..Len(ks)
  BY FormFields
<1>2. /\ ks[1].total \in Nat /\ Len(ks[1].iov) \in Nat /\ Len(ks[i].iov) \in Nat
  BY <1>1, KernelFields
<1>3. st \in Nat /\ se \in Nat /\ st <= Len(ks[1].iov)
  BY <1>2 DEF Place
<1> QED
  BY <1>2, <1>3 DEF From

LEMMA PutData ==
    ASSUME NEW ks, Form(ks), NEW st, NEW se, Place(ks[1], st, se), NEW h,
           NEW p, NEW x, Data(ks, st, se, h, p, x), NEW b \in Bucket,
           b.base = x + 1, b.type = "FREE" => b.len > 0, NEW k1,
           IsPut(ks[Len(ks)], k1, b), NEW ks1, Changed(ks, ks1, Len(ks), k1)
    PROVE  Data(ks1, st, se, h \cup Pointer(b), p, x + b.len)
<1>1. PICK n, l : n = Len(ks) /\ l = b.len
  OBVIOUS
<1>2. /\ ks \in Seq(Kernel) /\ n \in Nat \ {0} /\ n \in 1..Len(ks) /\ l \in Nat
      /\ Len(ks1) = n
  BY <1>1, FormFields DEF Bucket, Changed
<1>3. ks[n] \in Kernel /\ Len(ks[n].iov) \in Nat /\ ks[n].hindex \in Nat
  BY <1>2, KernelFields
<1>4. Aside(ks, st) /\ Owned(ks, h)
  BY DEF Data
<1>5. ks[n].holder # 0 => ks[n].hindex < Len(ks[n].iov)
  BY <1>2, <1>4 DEF Aside
<1>6. Aside(ks1, st)
  <2> SUFFICES ASSUME NEW i \in 1..Len(ks1), ks1[i].holder # 0
               PROVE  i = 1 /\ ks1[i].hindex = st /\ st < Len(ks1[i].iov)
    BY DEF Aside
  <2>1. i \in 1..Len(ks)
    BY <1>1, <1>2
  <2>2. CASE i = n
    <3>1. /\ ks1[i].holder = ks[i].holder /\ ks1[i].hindex = ks[i].hindex
          /\ Len(ks1[i].iov) = Len(ks[i].iov) + 1
      BY <1>1, <2>2 DEF Changed, IsPut
    <3>2. i = 1 /\ ks[i].hindex = st /\ st < Len(ks[i].iov)
      BY <1>4, <2>1, <3>1 DEF Aside
    <3> QED
      BY <1>3, <2>2, <3>1, <3>2
  <2>3. CASE i # n
    <3>1. ks1[i] = ks[i]
      BY <1>1, <2>1, <2>3 DEF Changed
    <3> QED
      BY <1>4, <2>1, <3>1 DEF Aside
  <2> QED
    BY <2>2, <2>3
<1>7. Owned(ks1, h \cup Pointer(b))
  <2>1. Ptrs(k1) = Ptrs(ks[n]) \cup Pointer(b)
    BY <1>1, <1>3, <1>5, PutPtrs
  <2> QED
    BY <1>1, <1>2, <1>4, <2>1, ChangedOwned
<1>8. PICK g : Chain(ks, st, se, g) /\ g[0] = p /\ g[n] = x
  BY <1>1 DEF Data
<1>9. Rises(g, n) /\ g[n - 1] \in Nat /\ x \in Nat /\ g[n - 1] <= x
  BY <1>1, <1>2, <1>8, ChainFields
<1>10. PICK f : f = [g EXCEPT ![n] = x + l]
  OBVIOUS
<1>11. /\ f \in [0..n -> Nat] /\ f[n] = x + l /\ f[0] = p
       /\ \A i \in 0..n : i # n => f[i] = g[i]
  BY <1>2, <1>8, <1>9, <1>10 DEF Rises
<1>12. ASSUME NEW i \in 0..n, NEW j \in 0..n, i <= j PROVE f[i] <= f[j]
  <2>1. CASE i = n
    BY <1>2, <1>9, <1>11, <1>12, <2>1
  <2>2. CASE i # n /\ j = n
    <3>1. g[i] <= x /\ g[i] \in Nat
      BY <1>8, <1>9, <1>12, <2>2 DEF Rises
    <3> QED
      BY <1>2, <1>9, <1>11, <2>2, <3>1
  <2>3. CASE i # n /\ j # n
    BY <1>9, <1>11, <1>12, <2>3 DEF Rises
  <2> QED
    BY <2>1, <2>2, <2>3
<1>13. Rises(f, n)
  BY <1>11, <1>12 DEF Rises
<1>14. Holds(k1, From(n, st), From(n, se), f[n - 1], f[n], After(n, f[n - 1]))
  <2>1. f[n - 1] = g[n - 1]
    BY <1>2, <1>11
  <2>2. PICK s, e, a, lo : /\ s = From(n, st) /\ e = From(n, se) /\ a = g[n - 1]
                           /\ lo = After(n, g[n - 1])
    OBVIOUS
  <2>3. s \in Nat /\ e \in Nat /\ s <= Len(ks[n].iov)
    BY <1>2, <2>2, PlaceFields
  <2>4. a \in Nat /\ lo \in Nat /\ lo <= x
    BY <1>9, <2>2 DEF After
  <2>5. Holds(ks[n], s, e, a, x, lo)
    BY <1>2, <1>8, <2>2 DEF Chain
  <2>6. Holds(k1, s, e, a, x + b.len, lo)
    BY <1>1, <1>3, <1>5, <1>9, <2>3, <2>4, <2>5, PutHolds
  <2> QED
    BY <1>1, <1>11, <2>1, <2>2, <2>6
<1>15. Chain(ks1, st, se, f)
  <2>1. \A j \in 1..Len(ks) : j # n => f[j] = g[j] /\ f[j - 1] = g[j - 1]
    BY <1>1, <1>2, <1>11
  <2> QED
    BY <1>1, <1>2, <1>8, <1>13, <1>14, <2>1, ChangedChain
<1>16. f[0] = p /\ f[Len(ks1)] = x + b.len
  BY <1>1, <1>2, <1>11
<1> QED
  BY <1>6, <1>7, <1>15, <1>16 DEF Data

LEMMA PutHeld ==
    ASSUME NEW ks, Form(ks), NEW st \in Nat, NEW ev, Held(ks, st, ev), NEW b,
           b.ev = ev, NEW k1, IsPut(ks[Len(ks)], k1, b), NEW ks1,
           Changed(ks, ks1, Len(ks), k1)
    PROVE  Held(ks1, st, ev)
<1>1. PICK n : n = Len(ks)
  OBVIOUS
<1>2. ks \in Seq(Kernel) /\ n \in Nat \ {0} /\ n \in 1..Len(ks) /\ Len(ks1) = n
  BY <1>1, FormFields DEF Changed
<1>3. Len(ks[n].iov) \in Nat
  BY <1>2, KernelFields
<1>4. \A m \in 1..n : ks1[m].final = ks[m].final
  BY <1>1 DEF Changed, IsPut
<1>5. SUFFICES ASSUME NEW i \in 1..Len(ks1),
                      NEW j \in (From(i, st) + 1)..Len(ks1[i].iov),
                      ks1[i].iov[j].type = "HOLD", ks1[i].iov[j].ev # ev
               PROVE  \E l \in i..Len(ks1) :
                            ks1[i].iov[j].ev \in Range(ks1[l].final)
  BY DEF Held
<1>6. i \in 1..Len(ks) /\ From(i, st) \in Nat
  BY <1>1, <1>2 DEF From
<1>7. j \in (From(i, st) + 1)..Len(ks[i].iov) /\ ks1[i].iov[j] = ks[i].iov[j]
  <2>1. CASE i = n
    <3>1. /\ Len(ks1[i].iov) = Len(ks[i].iov) + 1
          /\ ks1[i].iov[Len(ks[i].iov) + 1] = b
          /\ \A m \in 1..Len(ks[i].iov) : ks1[i].iov[m] = ks[i].iov[m]
      BY <1>1, <2>1 DEF Changed, IsPut
    <3>2. j # Len(ks[i].iov) + 1
      BY <1>5, <3>1
    <3>3. j \in (From(i, st) + 1)..Len(ks[i].iov) /\ j \in 1..Len(ks[i].iov)
      BY <1>3, <1>6, <2>1, <3>1, <3>2
    <3> QED
      BY <3>1, <3>3
  <2>2. CASE i # n
    BY <1>1, <1>6, <2>2 DEF Changed
  <2> QED
    BY <2>1, <2>2
<1>8. PICK l \in i..Len(ks) : ks[i].iov[j].ev \in Range(ks[l].final)
  BY <1>5, <1>6, <1>7 DEF Held
<1>9. l \in 1..n /\ l \in i..Len(ks1)
  BY <1>1, <1>2, <1>6, <1>8
<1> QED
  BY <1>4, <1>7, <1>8, <1>9

\* The parts of the job.
LEMMA BusyFields ==
    ASSUME NEW j, Busy(j)
    PROVE  /\ j.rest \in Seq(Part) /\ j.ev \in 0..MaxEvents /\ j.can \in BOOLEAN
           /\ j.at \in {"idle", "put", "fill", "last", "spin", "resume", "quit",
                        "gone"}
<1>1. j \in Job
  BY DEF Busy
<1> QED
  BY <1>1 DEF Job

\* A job the owner of the sink may do.
May(at, rest, ev, can) ==
    /\ at \in {"idle", "put", "fill", "last", "spin", "resume", "quit", "gone"}
    /\ rest \in Seq(Part) /\ ev \in 0..MaxEvents /\ can \in BOOLEAN
    /\ at = "put" => rest # << >>
    /\ ev = 0 <=> at \in {"idle", "resume", "quit", "gone"}
    /\ at = "spin" => ~can
    /\ \A i \in 1..Len(rest) : rest[i].type = "FREE" => rest[i].len > 0

IsJob(j, at, rest, ev, can) ==
    j.at = at /\ j.rest = rest /\ j.ev = ev /\ j.can = can

LEMMA IsBusy ==
    ASSUME NEW j, NEW at, NEW rest, NEW ev, NEW can,
           j = [at |-> at, rest |-> rest, ev |-> ev, can |-> can],
           May(at, rest, ev, can)
    PROVE  Busy(j) /\ IsJob(j, at, rest, ev, can)
<1>1. j \in Job
  BY DEF Job, May
<1>2. j.at = at /\ j.rest = rest /\ j.ev = ev /\ j.can = can
  OBVIOUS
<1> QED
  BY <1>1, <1>2 DEF Busy, May, IsJob

LEMMA WriteStep ==
    ASSUME IInv, Write
    PROVE  IInv'
<1>1. /\ Form(kernels) /\ Place(kernels[1], start, sent) /\ Busy(job)
      /\ heap \subseteq 1..nxt /\ nxt \in Nat /\ MaxEvents \in Nat
  BY SinkAssumption DEF IInv, Basic, Sent
<1>2. PICK n, part : n = Len(kernels) /\ part = Head(job.rest)
  OBVIOUS
<1>3. PICK b : b = [base |-> nxt + 1, len |-> part.len, type |-> part.type,
                    ev |-> job.ev]
  OBVIOUS
<1>4. /\ job.at = "put" /\ job.rest \in Seq(Part) /\ job.rest # << >>
      /\ job.ev \in 0..MaxEvents /\ job.can \in BOOLEAN /\ job.ev # 0
  <2>1. job.at = "put"
    BY DEF Write
  <2> QED
    BY <1>1, <2>1, BusyFields DEF Busy
<1>5. /\ part \in Part /\ part.len \in Nat /\ part.type \in {"COPY", "HOLD", "FREE"}
      /\ part.type = "FREE" => part.len > 0
  <2>1. part = job.rest[1] /\ 1 \in 1..Len(job.rest) /\ job.rest[1] \in Part
    BY <1>2, <1>4
  <2>2. part.type = "FREE" => part.len > 0
    BY <1>1, <2>1 DEF Busy
  <2> QED
    BY <2>1, <2>2 DEF Part
<1>6. /\ b \in Bucket /\ b.base = nxt + 1 /\ b.len = part.len
      /\ b.type = part.type /\ b.ev = job.ev
  <2>1. job.ev \in Nat /\ nxt + 1 \in Nat
    BY <1>1, <1>4
  <2> QED
    BY <1>3, <1>5, <2>1 DEF Bucket
<1>7. /\ kernels \in Seq(Kernel) /\ n \in 1..Len(kernels) /\ n \in Nat \ {0}
      /\ kernels[n] \in Kernel /\ Len(kernels[n].iov) \in Nat
  BY <1>1, <1>2, FormFields, KernelFields
<1>8. PICK k1 : k1 = [kernels[n] EXCEPT !.iov = Append(@, b), !.total = @ + b.len]
  OBVIOUS
<1>9. IsPut(kernels[n], k1, b) /\ k1 \in Kernel
  <2>1. IsPut(kernels[n], k1, b)
    BY <1>6, <1>7, <1>8, PutFields
  <2> QED
    BY <2>1 DEF IsPut
<1>10. kernels' = [kernels EXCEPT ![n] = k1]
  <2>1. kernels' = [kernels EXCEPT ![n].iov = Append(@, b),
                                   ![n].total = @ + b.len]
    BY <1>2, <1>3, <1>6 DEF Write
  <2> QED
    BY <1>7, <1>8, <2>1
<1>11. Changed(kernels, kernels', n, k1)
  BY <1>7, <1>9, <1>10, ChangedFields
<1>12. UNCHANGED <<start, sent, events, wild, selecting, pipe, got, open>>
  BY DEF Write
<1>13. nxt' = nxt + part.len /\ heap' = heap \cup Pointer(b)
  <2>1. nxt' = nxt + part.len
    BY <1>2 DEF Write
  <2>2. heap' = IF part.type = "FREE" THEN heap \cup {b.base} ELSE heap
    BY <1>2, <1>3 DEF Write
  <2> QED
    BY <1>6, <2>1, <2>2 DEF Pointer
<1>14. Spare(kernels)
  BY <1>4 DEF IInv, Basic
<1>15. Form(kernels')
  <2>1. Len(k1.iov) <= Size /\ Len(k1.iov) \in Nat
    <3>1. Len(kernels[n].iov) < Size /\ Size \in Nat
      BY <1>2, <1>14, SinkAssumption DEF Spare
    <3> QED
      BY <1>7, <1>9, <3>1 DEF IsPut
  <2>2. \A j \in 1..Len(k1.iov) : k1.iov[j].ev # 0
    <3> TAKE j \in 1..Len(k1.iov)
    <3>1. Len(k1.iov) = Len(kernels[n].iov) + 1
      BY <1>9 DEF IsPut
    <3>2. CASE j = Len(kernels[n].iov) + 1
      BY <1>4, <1>6, <1>9, <3>2 DEF IsPut
    <3>3. CASE j # Len(kernels[n].iov) + 1
      <4>1. j \in 1..Len(kernels[n].iov)
        BY <1>7, <3>1, <3>3
      <4>2. k1.iov[j] = kernels[n].iov[j]
        BY <1>9, <4>1 DEF IsPut
      <4> QED
        BY <1>1, <1>7, <4>1, <4>2 DEF Form
    <3> QED
      BY <3>2, <3>3
  <2>3. ~(n < Len(kernels))
    BY <1>2, <1>7
  <2> QED
    BY <1>1, <1>7, <1>11, <2>1, <2>2, <2>3, ChangedForm
<1>16. Place(kernels'[1], start, sent)
  <2>1. CASE n = 1
    <3>1. /\ Len(kernels'[1].iov) = Len(kernels[1].iov) + 1
          /\ kernels'[1].total = kernels[1].total + b.len
      BY <1>9, <1>11, <2>1 DEF Changed, IsPut
    <3>2. kernels[1].total \in Nat /\ Len(kernels[1].iov) \in Nat /\ b.len \in Nat
      BY <1>5, <1>6, <1>7, <2>1, KernelFields
    <3> QED
      BY <1>1, <3>1, <3>2 DEF Place
  <2>2. CASE n # 1
    <3>1. kernels'[1] = kernels[1]
      BY <1>1, <1>11, <2>2, FormFields DEF Changed
    <3> QED
      BY <1>1, <3>1
  <2> QED
    BY <2>1, <2>2
<1>17. PICK at, rest : /\ at = IF Full(k1) THEN "fill"
                               ELSE IF Tail(job.rest) = << >> THEN "last" ELSE "put"
                       /\ rest = Tail(job.rest)
  OBVIOUS
<1>18. job' = [at |-> at, rest |-> rest, ev |-> job.ev, can |-> job.can]
  <2>1. kernels'[n] = k1
    BY <1>11 DEF Changed
  <2>2. job' = [job EXCEPT !.rest = rest, !.at = at]
    BY <1>2, <1>17, <2>1 DEF Write
  <2>3. job \in Job
    BY <1>1 DEF Busy
  <2> QED
    BY <2>2, <2>3 DEF Job
<1>19. /\ Busy(job') /\ job'.ev = job.ev /\ job'.at = at
  <2>1. rest \in Seq(Part) /\ \A i \in 1..Len(rest) : rest[i] = job.rest[i + 1]
    BY <1>4, <1>17
  <2>2. \A i \in 1..Len(rest) : i + 1 \in 1..Len(job.rest)
    BY <1>4, <1>17
  <2>3. \A i \in 1..Len(rest) : rest[i].type = "FREE" => rest[i].len > 0
    BY <1>1, <2>1, <2>2 DEF Busy
  <2>4. /\ at \in {"fill", "last", "put"}
        /\ at = "put" => rest # << >>
    BY <1>17
  <2>5. job.ev = 0 <=> at \in {"idle", "resume", "quit", "gone"}
    BY <1>4, <2>4
  <2>6. May(at, rest, job.ev, job.can)
    BY <1>4, <2>1, <2>3, <2>4, <2>5 DEF May
  <2>7. PICK j, ev, can : j = job' /\ ev = job.ev /\ can = job.can
    OBVIOUS
  <2>8. Busy(j) /\ IsJob(j, at, rest, ev, can)
    BY <1>18, <2>6, <2>7, IsBusy
  <2> QED
    BY <2>7, <2>8 DEF IsJob
<1>20. job'.at # "fill" => Spare(kernels')
  <2>1. kernels'[Len(kernels')] = k1
    BY <1>2, <1>11 DEF Changed
  <2>2. Len(k1.iov) \in Nat /\ Size \in Nat
    BY <1>9, SinkAssumption DEF Kernel
  <2> QED
    BY <1>17, <1>19, <2>1, <2>2 DEF Full, Spare
<1>21. heap' \subseteq 1..nxt'
  <2>1. Pointer(b) \subseteq 1..(nxt + part.len)
    BY <1>1, <1>5, <1>6 DEF Pointer
  <2>2. heap \subseteq 1..(nxt + part.len)
    BY <1>1, <1>5
  <2> QED
    BY <1>13, <2>1, <2>2
<1>22. Basic'
  <2>1. Place(kernels'[1], start', sent')
    BY <1>12, <1>16
  <2>2. events' \in 0..MaxEvents /\ wild' \in BOOLEAN /\ selecting' \in BOOLEAN
    BY <1>12 DEF IInv, Basic
  <2> QED
    BY <1>15, <1>19, <1>20, <1>21, <2>1, <2>2 DEF Basic
<1>23. Sent'
  <2>1. /\ nxt' \in Nat /\ nxt <= nxt'
    BY <1>1, <1>5, <1>13
  <2>2. pipe' = pipe /\ got' = got /\ open' = open
    BY <1>12
  <2>3. Sent
    BY DEF IInv
  <2>4. Len(got) + Len(pipe) \in Nat /\ Len(got) + Len(pipe) <= nxt
    BY <2>3 DEF Sent
  <2>5. Len(got) + Len(pipe) <= nxt'
    BY <1>1, <2>1, <2>4
  <2> QED
    BY <2>1, <2>2, <2>3, <2>5 DEF Sent
<1>24. open' => Held(kernels', start', job'.ev)
  <2>1. ASSUME open PROVE Held(kernels', start, job.ev)
    <3>1. Held(kernels, start, job.ev) /\ start \in Nat
      BY <1>1, <2>1 DEF IInv, Place
    <3>2. PICK ks1 : ks1 = kernels'
      OBVIOUS
    <3>3. Held(ks1, start, job.ev)
      BY <1>1, <1>2, <1>6, <1>9, <1>11, <3>1, <3>2, PutHeld
    <3> QED
      BY <3>2, <3>3
  <2> QED
    BY <1>12, <1>19, <2>1
<1>25. open' /\ job'.at # "gone" =>
          ~wild' /\ Data(kernels', start', sent', heap', Len(got') + Len(pipe'), nxt')
  <2> SUFFICES ASSUME open
               PROVE  ~wild /\ Data(kernels', start, sent, heap \cup Pointer(b),
                                    Len(got) + Len(pipe), nxt + b.len)
    BY <1>6, <1>12, <1>13
  <2>1. ~wild /\ Data(kernels, start, sent, heap, Len(got) + Len(pipe), nxt)
    BY <1>4 DEF IInv
  <2>2. PICK p, ks1 : p = Len(got) + Len(pipe) /\ ks1 = kernels'
    OBVIOUS
  <2>3. Data(ks1, start, sent, heap \cup Pointer(b), p, nxt + b.len)
    BY <1>1, <1>2, <1>5, <1>6, <1>9, <1>11, <2>1, <2>2, PutData
  <2> QED
    BY <2>1, <2>2, <2>3
<1> QED
  BY <1>22, <1>23, <1>24, <1>25 DEF IInv

-----------------------------------------------------------------------------
(* Buckets whose base is moved and put back.                               *)

\* k1 is k with other buckets, and other values of holder and hindex.
IsMade(k, k1, q, h, x) ==
    /\ k1 \in Kernel /\ k1.iov = q /\ k1.holder = h /\ k1.hindex = x
    /\ k1.total = k.total /\ k1.final = k.final

LEMMA MadeFields ==
    ASSUME NEW k \in Kernel, NEW q \in Seq(Bucket), NEW h \in Nat, NEW x \in Nat,
           NEW k1, k1 = [k EXCEPT !.iov = q, !.holder = h, !.hindex = x]
    PROVE  IsMade(k, k1, q, h, x)
<1>1. k1 = [iov |-> q, total |-> k.total, holder |-> h, hindex |-> x,
            final |-> k.final]
  BY DEF Kernel
<1>2. k.total \in Nat /\ k.final \in Seq(1..MaxEvents)
  BY DEF Kernel
<1>3. k1 \in Kernel
  BY <1>1, <1>2 DEF Kernel
<1>4. k1.iov = q /\ k1.holder = h /\ k1.hindex = x
  BY DEF Kernel
<1>5. k1.total = k.total /\ k1.final = k.final
  BY <1>1
<1> QED
  BY <1>3, <1>4, <1>5 DEF IsMade

\* q is iov with b for bucket i.
IsSet(iov, q, i, b) ==
    /\ q \in Seq(Bucket) /\ Len(q) = Len(iov) /\ q[i] = b
    /\ \A j \in 1..Len(iov) : j # i => q[j] = iov[j]

LEMMA SetFields ==
    ASSUME NEW iov \in Seq(Bucket), NEW i \in 1..Len(iov), NEW b \in Bucket,
           NEW q, q = [iov EXCEPT ![i] = b]
    PROVE  IsSet(iov, q, i, b)
  BY DEF IsSet

\* r has the buckets of k, though they may have been sent in part.
Like(k, r) ==
    /\ r \in Kernel /\ Len(r.iov) = Len(k.iov)
    /\ r.total = k.total /\ r.final = k.final
    /\ \A j \in 1..Len(k.iov) : /\ r.iov[j].type = k.iov[j].type
                                /\ r.iov[j].ev = k.iov[j].ev
                                /\ Orig(r, j) = Orig(k, j)

LEMMA LikePtrs ==
    ASSUME NEW k, NEW r, Like(k, r)
    PROVE  Ptrs(r) = Ptrs(k)
<1>1. FreeIn(r) = FreeIn(k)
  BY DEF Like, FreeIn
<1>2. \A j \in FreeIn(k) : Orig(r, j) = Orig(k, j)
  BY DEF Like, FreeIn
<1> QED
  BY <1>1, <1>2 DEF Ptrs

\* The base that is kept aside is put back.
PutBack(k, st) == [k EXCEPT !.iov[st + 1].base = k.holder,
                            !.holder = 0, !.hindex = 0]

IsBack(k, st, k1) ==
    /\ Like(k, k1) /\ k1.holder = 0
    /\ \A j \in 1..Len(k.iov) : j # st + 1 => k1.iov[j] = k.iov[j]

LEMMA BackFields ==
    ASSUME NEW k \in Kernel, NEW st \in Nat, st < Len(k.iov), k.hindex = st,
           k.holder # 0, NEW k1, k1 = PutBack(k, st)
    PROVE  IsBack(k, st, k1)
<1>1. /\ k.iov \in Seq(Bucket) /\ k.holder \in Nat /\ Len(k.iov) \in Nat
      /\ st + 1 \in 1..Len(k.iov)
  BY DEF Kernel
<1>2. PICK c : c = k.iov[st + 1]
  OBVIOUS
<1>3. c \in Bucket
  BY <1>1, <1>2
<1>4. PICK b : b = [c EXCEPT !.base = k.holder]
  OBVIOUS
<1>5. b \in Bucket /\ b.base = k.holder /\ b.type = c.type /\ b.ev = c.ev
  <2>1. b = [base |-> k.holder, len |-> c.len, type |-> c.type, ev |-> c.ev]
    BY <1>3, <1>4 DEF Bucket
  <2>2. c.len \in Nat /\ c.type \in {"HOLD", "COPY", "FREE"} /\ c.ev \in Nat
    BY <1>3 DEF Bucket
  <2> QED
    BY <1>1, <2>1, <2>2 DEF Bucket
<1>6. PICK q : q = [k.iov EXCEPT ![st + 1] = b]
  OBVIOUS
<1>7. IsSet(k.iov, q, st + 1, b)
  BY <1>1, <1>5, <1>6, SetFields
<1>8. k1 = [k EXCEPT !.iov = q, !.holder = 0, !.hindex = 0]
  BY <1>1, <1>2, <1>4, <1>6 DEF PutBack, Kernel
<1>9. IsMade(k, k1, q, 0, 0)
  <2>1. q \in Seq(Bucket)
    BY <1>7 DEF IsSet
  <2> QED
    BY <1>8, <2>1, MadeFields
<1>10. \A j \in 1..Len(k.iov) : j # st + 1 => k1.iov[j] = k.iov[j]
  BY <1>7, <1>9 DEF IsSet, IsMade
<1>11. k1.iov[st + 1] = b /\ k1.holder = 0
  BY <1>7, <1>9 DEF IsSet, IsMade
<1>12. ASSUME NEW j \in 1..Len(k.iov)
       PROVE  /\ k1.iov[j].type = k.iov[j].type /\ k1.iov[j].ev = k.iov[j].ev
              /\ Orig(k1, j) = Orig(k, j)
  <2>1. CASE j = st + 1
    BY <1>2, <1>5, <1>11, <2>1 DEF Orig
  <2>2. CASE j # st + 1
    <3>1. k1.iov[j] = k.iov[j]
      BY <1>10, <2>2
    <3> QED
      BY <1>11, <2>2, <3>1 DEF Orig
  <2> QED
    BY <2>1, <2>2
<1>13. Like(k, k1)
  BY <1>7, <1>9, <1>12 DEF Like, IsMade, IsSet
<1> QED
  BY <1>10, <1>11, <1>13 DEF IsBack

\* What is sent of bucket s + 1 is cut off, and its base kept aside.
Cut(k, s, base, len) ==
    LET k2 == IF k.holder = 0
              THEN [k EXCEPT !.holder = k.iov[s + 1].base, !.hindex = s]
              ELSE k
    IN  [k2 EXCEPT !.iov[s + 1].base = base, !.iov[s + 1].len = len]

IsCut(k, s, base, len, r) ==
    /\ Like(k, r) /\ r.hindex = s
    /\ r.iov[s + 1].base = base /\ r.iov[s + 1].len = len
    /\ \A j \in 1..Len(k.iov) : j # s + 1 => r.iov[j] = k.iov[j]

LEMMA CutFields ==
    ASSUME NEW k \in Kernel, NEW s \in Nat, s < Len(k.iov),
           NEW base \in Nat, NEW len \in Nat, k.iov[s + 1].base # 0,
           k.holder # 0 => k.hindex = s, NEW r, r = Cut(k, s, base, len)
    PROVE  IsCut(k, s, base, len, r)
<1>1. /\ k.iov \in Seq(Bucket) /\ k.holder \in Nat /\ k.hindex \in Nat
      /\ Len(k.iov) \in Nat /\ s + 1 \in 1..Len(k.iov)
  BY DEF Kernel
<1>2. PICK c : c = k.iov[s + 1]
  OBVIOUS
<1>3. c \in Bucket
  BY <1>1, <1>2
<1>4. PICK b : b = [base |-> base, len |-> len, type |-> c.type, ev |-> c.ev]
  OBVIOUS
<1>5. /\ b \in Bucket /\ b.base = base /\ b.len = len
      /\ b.type = c.type /\ b.ev = c.ev
  BY <1>3, <1>4 DEF Bucket
<1>6. PICK h : h = IF k.holder = 0 THEN c.base ELSE k.holder
  OBVIOUS
<1>7. h \in Nat /\ h # 0
  BY <1>1, <1>2, <1>3, <1>6 DEF Bucket
<1>8. PICK q : q = [k.iov EXCEPT ![s + 1] = b]
  OBVIOUS
<1>9. IsSet(k.iov, q, s + 1, b)
  BY <1>1, <1>5, <1>8, SetFields
<1>10. PICK k2 : k2 = IF k.holder = 0
                      THEN [k EXCEPT !.holder = k.iov[s + 1].base, !.hindex = s]
                      ELSE k
  OBVIOUS
<1>11. /\ k2 \in Kernel /\ k2.iov = k.iov /\ k2.holder = h /\ k2.hindex = s
       /\ k2.total = k.total /\ k2.final = k.final
  <2>1. k.total \in Nat /\ k.final \in Seq(1..MaxEvents)
    BY DEF Kernel
  <2>2. k2 = [iov |-> k.iov, total |-> k.total, holder |-> h, hindex |-> s,
              final |-> k.final]
    <3>1. CASE k.holder = 0
      BY <1>2, <1>6, <1>10, <3>1 DEF Kernel
    <3>2. CASE k.holder # 0
      BY <1>6, <1>10, <3>2 DEF Kernel
    <3> QED
      BY <3>1, <3>2
  <2> QED
    BY <1>1, <1>7, <2>1, <2>2 DEF Kernel
<1>12. r = [k2 EXCEPT !.iov[s + 1].base = base, !.iov[s + 1].len = len]
  BY <1>10 DEF Cut
<1>13. r = [k2 EXCEPT !.iov = q, !.holder = h, !.hindex = s]
  <2>1. PICK c1 : c1 = [c EXCEPT !.base = base]
    OBVIOUS
  <2>2. c1 = [base |-> base, len |-> c.len, type |-> c.type, ev |-> c.ev]
    BY <1>3, <2>1 DEF Bucket
  <2>3. c1 \in Bucket
    BY <1>3, <2>2 DEF Bucket
  <2>4. b = [c1 EXCEPT !.len = len]
    BY <1>4, <2>2
  <2>5. PICK q1 : q1 = [k.iov EXCEPT ![s + 1] = c1]
    OBVIOUS
  <2>6. IsSet(k.iov, q1, s + 1, c1)
    BY <1>1, <2>3, <2>5, SetFields
  <2>7. q = [q1 EXCEPT ![s + 1] = b]
    BY <1>1, <1>8, <2>5
  <2>8. PICK r1 : r1 = [k2 EXCEPT !.iov[s + 1].base = base]
    OBVIOUS
  <2>9. r1 = [k2 EXCEPT !.iov = q1] /\ r1 \in Kernel /\ r1.iov = q1
    <3>1. r1 = [k2 EXCEPT !.iov = q1]
      BY <1>1, <1>2, <1>11, <2>1, <2>5, <2>8 DEF Kernel
    <3>2. q1 \in Seq(Bucket)
      BY <2>6 DEF IsSet
    <3> QED
      BY <1>11, <3>1, <3>2 DEF Kernel
  <2>10. r = [r1 EXCEPT !.iov[s + 1].len = len]
    BY <1>12, <2>8
  <2>11. q1[s + 1] = c1 /\ q1 \in Seq(Bucket)
    BY <2>6 DEF IsSet
  <2>12. r = [r1 EXCEPT !.iov = q]
    BY <2>4, <2>7, <2>9, <2>10, <2>11 DEF Kernel
  <2> QED
    BY <1>11, <2>9, <2>12 DEF Kernel
<1>14. IsMade(k2, r, q, h, s)
  <2>1. q \in Seq(Bucket)
    BY <1>9 DEF IsSet
  <2> QED
    BY <1>7, <1>11, <1>13, <2>1, MadeFields
<1>15. \A j \in 1..Len(k.iov) : j # s + 1 => r.iov[j] = k.iov[j]
  BY <1>9, <1>14 DEF IsSet, IsMade
<1>16. r.iov[s + 1] = b /\ r.holder = h /\ r.hindex = s
  BY <1>9, <1>14 DEF IsSet, IsMade
<1>17. ASSUME NEW j \in 1..Len(k.iov)
       PROVE  /\ r.iov[j].type = k.iov[j].type /\ r.iov[j].ev = k.iov[j].ev
              /\ Orig(r, j) = Orig(k, j)
  <2>1. CASE j = s + 1
    <3>1. Orig(r, j) = h
      BY <1>7, <1>16, <2>1 DEF Orig
    <3>2. Orig(k, j) = h
      BY <1>2, <1>6, <2>1 DEF Orig
    <3> QED
      BY <1>2, <1>5, <1>16, <2>1, <3>1, <3>2
  <2>2. CASE j # s + 1
    <3>1. r.iov[j] = k.iov[j]
      BY <1>15, <2>2
    <3> QED
      BY <1>16, <2>2, <3>1 DEF Orig
  <2> QED
    BY <2>1, <2>2
<1>18. Like(k, r)
  BY <1>9, <1>11, <1>14, <1>17 DEF Like, IsMade, IsSet
<1> QED
  BY <1>5, <1>15, <1>16, <1>18 DEF IsCut

-----------------------------------------------------------------------------
(* writev(): what is written, and where a partial write stops.             *)

\* Buckets s + 1 to m end with byte e.
LEMMA RunEnd ==
    ASSUME NEW iov \in Seq(Bucket), NEW s \in Nat, NEW m \in Nat,
           s <= m, m <= Len(iov), NEW a \in Nat, NEW b,
           Lined(iov, s, a, b), Kept(iov, s), NEW e, e = End(iov, s, a, m)
    PROVE  /\ e \in Nat /\ a <= e
           /\ BytesOf(SubSeq(iov, s + 1, m)) = Numbers(a, e - a)
<1>1. e \in Int
  <2>1. CASE m = s
    BY <2>1 DEF End
  <2>2. CASE m # s
    <3>1. m \in 1..Len(iov)
      BY <2>2
    <3>2. iov[m].base \in Nat /\ iov[m].len \in Nat
      BY <3>1, BucketFields
    <3> QED
      BY <2>2, <3>2 DEF End
  <2> QED
    BY <2>1, <2>2
<1>2. e - a \in Nat /\ BytesOf(SubSeq(iov, s + 1, m)) = Numbers(a, e - a)
  BY RunBytes
<1> QED
  BY <1>1, <1>2

LEMMA NumbersFields ==
    ASSUME NEW a \in Nat, NEW n \in Nat
    PROVE  /\ Numbers(a, n) \in Seq(Nat) /\ Len(Numbers(a, n)) = n
           /\ \A i \in 1..n : Numbers(a, n)[i] = a + i
  BY DEF Numbers

\* Memory that a bucket of the first kernel points to has not been given up.
LEMMA KeptHeld ==
    ASSUME Form(kernels), start \in Nat, Held(kernels, start, job.ev)
    PROVE  Kept(K.iov, start)
<1>1. kernels \in Seq(Kernel) /\ Len(kernels) \in Nat \ {0} /\ 1 \in 1..Len(kernels)
  BY FormFields
<1>2. From(1, start) = start /\ K = kernels[1] /\ Len(K.iov) \in Nat
  BY <1>1, KernelFields DEF From, K
<1>3. SUFFICES ASSUME NEW j \in (start + 1)..Len(K.iov), K.iov[j].type = "HOLD"
               PROVE  K.iov[j].ev \in Alive
  BY DEF Kept
<1>4. K.iov[j].ev # 0
  <2>1. j \in 1..Len(K.iov)
    BY <1>2, <1>3
  <2> QED
    BY <1>1, <1>2, <2>1 DEF Form
<1>5. CASE K.iov[j].ev = job.ev
  BY <1>4, <1>5 DEF Alive
<1>6. CASE K.iov[j].ev # job.ev
  <2>1. PICK l \in 1..Len(kernels) : K.iov[j].ev \in Range(kernels[l].final)
    BY <1>1, <1>2, <1>3, <1>6 DEF Held
  <2> QED
    BY <2>1 DEF Alive
<1> QED
  BY <1>5, <1>6

\* What writev() is given.
LEMMA OutBytes ==
    ASSUME K \in Kernel, start \in Nat, start <= Len(K.iov), sent \in Nat,
           NEW a \in Nat, NEW b \in Nat, a <= b,
           Holds(K, start, sent, a, b, 0), Kept(K.iov, start)
    PROVE  /\ Out = Numbers(a, b - a) /\ Len(Out) = b - a /\ Needed = b - a
           /\ b - a \in Nat
<1>1. K.iov \in Seq(Bucket) /\ Len(K.iov) \in Nat /\ K.total \in Nat
  BY DEF Kernel
<1>2. Lined(K.iov, start, a, b) /\ K.total = sent + (b - a)
  BY DEF Holds
<1>3. b = End(K.iov, start, a, Len(K.iov))
  BY <1>2 DEF Lined
<1>4. BytesOf(SubSeq(K.iov, start + 1, Len(K.iov))) = Numbers(a, b - a)
  <2>1. PICK q, m, s : q = K.iov /\ m = Len(K.iov) /\ s = start
    OBVIOUS
  <2>2. /\ q \in Seq(Bucket) /\ m \in Nat /\ s \in Nat /\ s <= m /\ m <= Len(q)
        /\ Lined(q, s, a, b) /\ Kept(q, s) /\ b = End(q, s, a, m)
    BY <1>1, <1>2, <1>3, <2>1
  <2>3. BytesOf(SubSeq(q, s + 1, m)) = Numbers(a, b - a)
    BY <2>2, RunEnd
  <2> QED
    BY <2>1, <2>3
<1>5. b - a \in Nat
  OBVIOUS
<1>6. Out = Numbers(a, b - a)
  BY <1>4 DEF Out, Unsent
<1>7. Len(Out) = b - a
  BY <1>5, <1>6, NumbersFields
<1>8. Needed = b - a
  BY <1>1, <1>2 DEF Needed
<1> QED
  BY <1>5, <1>6, <1>7, <1>8

\* n bytes after byte a, counted from bucket st + 1, end in bucket s + 1;
\* the buckets up to that one have cnt bytes.
IsStop(iov, st, a, n, s, cnt) ==
    /\ s \in Nat /\ st <= s /\ s < Len(iov) /\ cnt \in Nat /\ n <= cnt
    /\ End(iov, st, a, s + 1) = a + cnt
    /\ End(iov, st, a, s) \in Nat /\ End(iov, st, a, s) < a + n

LEMMA StopFields ==
    ASSUME K \in Kernel, start \in Nat, start < Len(K.iov),
           NEW a \in Nat, NEW b \in Nat, Lined(K.iov, start, a, b),
           Kept(K.iov, start), NEW n \in Nat \ {0}, n < b - a
    PROVE  IsStop(K.iov, start, a, n, StopAt(n), Through(StopAt(n)))
<1>1. K.iov \in Seq(Bucket) /\ Len(K.iov) \in Nat
  BY DEF Kernel
<1>2. PICK L : L = Len(K.iov)
  OBVIOUS
<1>3. ASSUME NEW m \in start..(L - 1)
      PROVE  /\ Through(m) \in Nat
             /\ End(K.iov, start, a, m + 1) = a + Through(m)
  <2>1. PICK e : e = End(K.iov, start, a, m + 1)
    OBVIOUS
  <2>2. /\ e \in Nat /\ a <= e
        /\ BytesOf(SubSeq(K.iov, start + 1, m + 1)) = Numbers(a, e - a)
    <3>1. m + 1 \in Nat /\ start <= m + 1 /\ m + 1 <= Len(K.iov)
      BY <1>1, <1>2
    <3> QED
      BY <1>1, <2>1, <3>1, RunEnd
  <2>3. Through(m) = e - a /\ e - a \in Nat
    <3>1. e - a \in Nat
      BY <2>2
    <3>2. PICK d, q : d = e - a /\ q = Numbers(a, d)
      OBVIOUS
    <3>3. Len(q) = d
      BY <3>1, <3>2, NumbersFields
    <3>4. Through(m) = Len(q)
      BY <2>2, <3>2 DEF Through
    <3> QED
      BY <3>1, <3>2, <3>3, <3>4
  <2> QED
    BY <2>1, <2>2, <2>3
<1> DEFINE S == {m \in start..(L - 1) : Through(m) >= n}
<1>4. L - 1 \in S
  <2>1. L - 1 \in start..(L - 1) /\ (L - 1) + 1 = L
    BY <1>1, <1>2
  <2>2. End(K.iov, start, a, L) = b
    BY <1>2 DEF Lined
  <2>3. Through(L - 1) \in Nat /\ b = a + Through(L - 1)
    BY <1>3, <2>1, <2>2
  <2>4. Through(L - 1) >= n
    BY <2>3
  <2> QED
    BY <2>1, <2>4
<1>5. PICK s \in S : \A y \in S : s <= y
  <2>1. S \in SUBSET Nat /\ S # {}
    BY <1>1, <1>2, <1>4
  <2> QED
    BY <2>1, LeastNatural
<1>6. StopAt(n) = s
  <2>1. StopAt(n) = CHOOSE x \in S : \A y \in S : x <= y
    BY <1>2 DEF StopAt, Min
  <2>2. PICK x : x = CHOOSE z \in S : \A y \in S : z <= y
    OBVIOUS
  <2>3. x \in S /\ \A y \in S : x <= y
    BY <1>5, <2>2
  <2>4. x <= s /\ s <= x /\ x \in Nat /\ s \in Nat
    BY <1>1, <1>2, <1>5, <2>3
  <2> QED
    BY <2>1, <2>2, <2>4
<1>7. s \in start..(L - 1) /\ Through(s) >= n
  BY <1>5
<1>8. Through(s) \in Nat /\ End(K.iov, start, a, s + 1) = a + Through(s)
  BY <1>3, <1>7
<1>9. End(K.iov, start, a, s) \in Nat /\ End(K.iov, start, a, s) < a + n
  <2>1. CASE s = start
    BY <2>1 DEF End
  <2>2. CASE s # start
    <3>1. s - 1 \in start..(L - 1) /\ (s - 1) + 1 = s /\ ~(s <= s - 1)
      BY <1>1, <1>2, <1>7, <2>2
    <3>2. ~(Through(s - 1) >= n)
      BY <1>5, <3>1
    <3>3. Through(s - 1) \in Nat /\ End(K.iov, start, a, s) = a + Through(s - 1)
      BY <1>3, <3>1
    <3> QED
      BY <3>2, <3>3
  <2> QED
    BY <2>1, <2>2
<1>10. s \in Nat /\ start <= s /\ s < Len(K.iov) /\ n <= Through(s)
  BY <1>1, <1>2, <1>7, <1>8
<1> QED
  BY <1>6, <1>8, <1>9, <1>10 DEF IsStop

\* Kernel r is what is left of k from bucket s + 1 on, after n more bytes.
IsMoved(k, st, a, b, n, r, s) ==
    /\ Like(k, r) /\ s \in Nat /\ st <= s /\ s < Len(k.iov)
    /\ Lined(r.iov, s, a + n, b)
    /\ r.holder # 0 => r.hindex = s

LEMMA PartialFields ==
    ASSUME K \in Kernel, start \in Nat, start < Len(K.iov),
           NEW a \in Nat, NEW b \in Nat, Lined(K.iov, start, a, b),
           Kept(K.iov, start), K.holder # 0 => K.hindex = start,
           NEW n \in Nat \ {0}, n < b - a
    PROVE  IsMoved(K, start, a, b, n, Partial(n).kernel, Partial(n).start)
<1>1. /\ K.iov \in Seq(Bucket) /\ Len(K.iov) \in Nat /\ K.holder \in Nat
  BY DEF Kernel
<1>2. PICK s, cnt, L : s = StopAt(n) /\ cnt = Through(s) /\ L = Len(K.iov)
  OBVIOUS
<1>3. IsStop(K.iov, start, a, n, s, cnt)
  BY <1>2, StopFields
<1>4. /\ s \in Nat /\ start <= s /\ s < L /\ cnt \in Nat /\ n <= cnt /\ L \in Nat
      /\ s + 1 \in 1..L
  BY <1>1, <1>2, <1>3 DEF IsStop
<1>5. PICK k1 : k1 = IF K.holder # 0 /\ (s # start \/ cnt = n)
                     THEN PutBack(K, start) ELSE K
  OBVIOUS
<1>6. /\ Like(K, k1) /\ (k1.holder # 0 => s = start /\ cnt # n /\ k1.hindex = start)
      /\ \A j \in 1..L : j # start + 1 => k1.iov[j] = K.iov[j]
      /\ s = start /\ cnt # n => k1 = K
  <2>1. CASE K.holder # 0 /\ (s # start \/ cnt = n)
    <3>1. k1 = PutBack(K, start)
      BY <1>5, <2>1
    <3>2. IsBack(K, start, k1)
      BY <2>1, <3>1, BackFields
    <3> QED
      BY <1>2, <2>1, <3>2 DEF IsBack
  <2>2. CASE ~(K.holder # 0 /\ (s # start \/ cnt = n))
    <3>1. k1 = K
      BY <1>5, <2>2
    <3>2. Like(K, K)
      BY DEF Like
    <3> QED
      BY <2>2, <3>1, <3>2
  <2> QED
    BY <2>1, <2>2
<1>7. k1 \in Kernel /\ Len(k1.iov) = L
  BY <1>2, <1>6 DEF Like
<1>8. End(K.iov, start, a, s + 1) = a + cnt
  BY <1>3 DEF IsStop
<1>9. ASSUME NEW j \in (s + 2)..L
      PROVE  K.iov[j].base = (IF j - 1 = s + 1 THEN a + cnt
                              ELSE K.iov[j - 1].base + K.iov[j - 1].len - 1) + 1
  <2>1. j \in (start + 1)..Len(K.iov) /\ j - 1 # start /\ j - 1 \in Nat
    BY <1>2, <1>4
  <2>2. K.iov[j].base = End(K.iov, start, a, j - 1) + 1
    BY <2>1 DEF Lined
  <2>3. CASE j - 1 = s + 1
    BY <1>8, <2>2, <2>3
  <2>4. CASE j - 1 # s + 1
    BY <2>1, <2>2, <2>4 DEF End
  <2> QED
    BY <2>3, <2>4
<1>10. b = IF L = s + 1 THEN a + cnt ELSE K.iov[L].base + K.iov[L].len - 1
  <2>1. b = End(K.iov, start, a, L) /\ L # start
    BY <1>2 DEF Lined
  <2>2. CASE L = s + 1
    BY <1>8, <2>1, <2>2
  <2>3. CASE L # s + 1
    BY <2>1, <2>3 DEF End
  <2> QED
    BY <2>2, <2>3
<1>11. CASE cnt = n
  <2>1. Partial(n) = [kernel |-> k1, start |-> s + 1]
    BY <1>2, <1>5, <1>11 DEF Partial, PutBack
  <2>2. L # s + 1
    BY <1>10, <1>11
  <2>3. s + 1 < L
    BY <1>4, <2>2
  <2>4. \A j \in (s + 2)..L : k1.iov[j] = K.iov[j]
    BY <1>4, <1>6
  <2>5. ASSUME NEW j \in ((s + 1) + 1)..Len(k1.iov)
        PROVE  k1.iov[j].base = End(k1.iov, s + 1, a + n, j - 1) + 1
    <3>1. j \in (s + 2)..L
      BY <1>4, <1>7
    <3>2. k1.iov[j].base = (IF j - 1 = s + 1 THEN a + cnt
                            ELSE K.iov[j - 1].base + K.iov[j - 1].len - 1) + 1
      BY <1>9, <2>4, <3>1
    <3>3. CASE j - 1 = s + 1
      BY <1>11, <3>2, <3>3 DEF End
    <3>4. CASE j - 1 # s + 1
      <4>1. j - 1 \in (s + 2)..L
        BY <1>4, <3>1, <3>4
      <4>2. k1.iov[j - 1] = K.iov[j - 1]
        BY <2>4, <4>1
      <4> QED
        BY <3>2, <3>4, <4>2 DEF End
    <3> QED
      BY <3>3, <3>4
  <2>6. b = End(k1.iov, s + 1, a + n, Len(k1.iov))
    <3>1. L \in (s + 2)..L
      BY <1>4, <2>3
    <3>2. k1.iov[L] = K.iov[L]
      BY <2>4, <3>1
    <3> QED
      BY <1>7, <1>10, <2>2, <3>2 DEF End
  <2>7. Lined(k1.iov, s + 1, a + n, b)
    BY <2>5, <2>6 DEF Lined
  <2>8. k1.holder = 0 /\ s + 1 \in Nat /\ start <= s + 1
    BY <1>4, <1>6, <1>11
  <2>9. IsMoved(K, start, a, b, n, k1, s + 1)
    BY <1>2, <1>6, <2>3, <2>7, <2>8 DEF IsMoved
  <2> QED
    BY <2>1, <2>9
<1>12. CASE cnt # n
  <2>1. k1.iov[s + 1] = K.iov[s + 1]
    BY <1>4, <1>6, <1>12
  <2>2. /\ K.iov[s + 1].base = End(K.iov, start, a, s) + 1
        /\ K.iov[s + 1].base \in Nat /\ K.iov[s + 1].len \in Nat
    <3>1. s + 1 \in (start + 1)..Len(K.iov) /\ (s + 1) - 1 = s
      BY <1>2, <1>4
    <3>2. K.iov[s + 1].base = End(K.iov, start, a, s) + 1
      BY <3>1 DEF Lined
    <3> QED
      BY <1>1, <1>2, <1>4, <3>2, BucketFields
  <2>3. End(K.iov, start, a, s) \in Nat
    BY <1>3 DEF IsStop
  <2>4. k1.iov[s + 1].base # 0
    BY <2>1, <2>2, <2>3
  <2>5. PICK base, len : base = a + n + 1 /\ len = cnt - n
    OBVIOUS
  <2>6. base \in Nat /\ len \in Nat
    BY <1>4, <2>5
  <2>7. K.iov[s + 1].base + K.iov[s + 1].len - (cnt - n) = base
    <3>1. s + 1 # start
      BY <1>4
    <3>2. K.iov[s + 1].base + K.iov[s + 1].len - 1 = a + cnt
      BY <1>8, <3>1 DEF End
    <3>3. PICK x, y : x = K.iov[s + 1].base /\ y = K.iov[s + 1].len
      OBVIOUS
    <3>4. x \in Nat /\ y \in Nat /\ x + y - 1 = a + cnt
      BY <2>2, <3>2, <3>3
    <3>5. x + y - (cnt - n) = a + n + 1
      BY <1>4, <3>4
    <3> QED
      BY <2>5, <3>3, <3>5
  <2>8. PICK r : r = Cut(k1, s, base, len)
    OBVIOUS
  <2>9. Partial(n) = [kernel |-> r, start |-> s]
    <3>1. PICK k2 : k2 = IF k1.holder = 0
                         THEN [k1 EXCEPT !.holder = k1.iov[s + 1].base, !.hindex = s]
                         ELSE k1
      OBVIOUS
    <3>2. k2.iov = k1.iov
      BY <1>7, <3>1 DEF Kernel
    <3>3. Partial(n) = [kernel |-> [k2 EXCEPT
                            !.iov[s + 1].base =
                                k2.iov[s + 1].base + k2.iov[s + 1].len - (cnt - n),
                            !.iov[s + 1].len = cnt - n],
                        start |-> s]
      BY <1>2, <1>5, <1>12, <3>1 DEF Partial, PutBack
    <3>4. k2.iov[s + 1].base + k2.iov[s + 1].len - (cnt - n) = base
      BY <2>1, <2>7, <3>2
    <3>5. r = [k2 EXCEPT !.iov[s + 1].base = base, !.iov[s + 1].len = len]
      BY <2>8, <3>1 DEF Cut
    <3> QED
      BY <2>5, <3>3, <3>4, <3>5
  <2>10. IsCut(k1, s, base, len, r)
    <3>1. s < Len(k1.iov) /\ (k1.holder # 0 => k1.hindex = s)
      BY <1>4, <1>6, <1>7
    <3> QED
      BY <1>4, <1>7, <2>4, <2>6, <2>8, <3>1, CutFields
  <2>11. /\ Len(r.iov) = L /\ r.hindex = s
         /\ r.iov[s + 1].base = base /\ r.iov[s + 1].len = len
         /\ \A j \in (s + 2)..L : r.iov[j] = K.iov[j]
    <3>1. \A j \in (s + 2)..L : j \in 1..L /\ j # s + 1 /\ j # start + 1
      BY <1>4
    <3> QED
      BY <1>6, <1>7, <2>10, <3>1 DEF IsCut, Like
  <2>12. End(r.iov, s, a + n, s + 1) = a + cnt
    <3>1. s + 1 # s
      BY <1>4
    <3>2. End(r.iov, s, a + n, s + 1) = base + len - 1
      BY <2>11, <3>1 DEF End
    <3> QED
      BY <1>4, <2>5, <3>2
  <2>13. ASSUME NEW j \in (s + 1)..Len(r.iov)
         PROVE  r.iov[j].base = End(r.iov, s, a + n, j - 1) + 1
    <3>1. CASE j = s + 1
      <4>1. End(r.iov, s, a + n, s) = a + n /\ j - 1 = s
        BY <1>4, <3>1 DEF End
      <4> QED
        BY <2>5, <2>11, <3>1, <4>1
    <3>2. CASE j # s + 1
      <4>1. j \in (s + 2)..L /\ j - 1 # s
        BY <1>4, <2>11, <3>2
      <4>2. r.iov[j].base = (IF j - 1 = s + 1 THEN a + cnt
                             ELSE K.iov[j - 1].base + K.iov[j - 1].len - 1) + 1
        BY <1>9, <2>11, <4>1
      <4>3. CASE j - 1 = s + 1
        BY <2>12, <4>2, <4>3
      <4>4. CASE j - 1 # s + 1
        <5>1. j - 1 \in (s + 2)..L
          BY <1>4, <4>1, <4>4
        <5>2. r.iov[j - 1] = K.iov[j - 1]
          BY <2>11, <5>1
        <5> QED
          BY <4>1, <4>2, <4>4, <5>2 DEF End
      <4> QED
        BY <4>3, <4>4
    <3> QED
      BY <3>1, <3>2
  <2>14. b = End(r.iov, s, a + n, L)
    <3>1. CASE L = s + 1
      BY <1>10, <2>12, <3>1
    <3>2. CASE L # s + 1
      <4>1. L \in (s + 2)..L /\ L # s
        BY <1>4, <3>2
      <4>2. r.iov[L] = K.iov[L]
        BY <2>11, <4>1
      <4> QED
        BY <1>10, <3>2, <4>1, <4>2 DEF End
    <3> QED
      BY <3>1, <3>2
  <2>15. Lined(r.iov, s, a + n, b)
    BY <2>11, <2>13, <2>14 DEF Lined
  <2>16. Like(K, r)
    BY <1>2, <1>6, <1>7, <2>10 DEF Like, IsCut
  <2>17. IsMoved(K, start, a, b, n, r, s)
    BY <1>2, <1>4, <2>11, <2>15, <2>16 DEF IsMoved
  <2> QED
    BY <2>9, <2>17
<1> QED
  BY <1>11, <1>12

-----------------------------------------------------------------------------
(* flush(): the chain after a writev().                                    *)

\* The bytes p + 1 to b are those of the first kernel, of g's chain.
IsFirst(g, p, b, x) ==
    /\ Chain(kernels, start, sent, g) /\ Rises(g, Len(kernels))
    /\ g[0] = p /\ g[1] = b /\ g[Len(kernels)] = x
    /\ p \in Nat /\ b \in Nat /\ x \in Nat /\ p <= b /\ b <= x
    /\ Holds(K, start, sent, p, b, 0)
    /\ Out = Numbers(p, b - p) /\ Len(Out) = b - p /\ Needed = b - p

LEMMA FirstFields ==
    ASSUME Form(kernels), Place(kernels[1], start, sent),
           Held(kernels, start, job.ev), NEW h, NEW p, NEW x,
           Data(kernels, start, sent, h, p, x)
    PROVE  \E g, b : IsFirst(g, p, b, x)
<1>1. /\ kernels \in Seq(Kernel) /\ Len(kernels) \in Nat \ {0}
      /\ 1 \in 1..Len(kernels) /\ Len(kernels) \in 1..Len(kernels)
  BY FormFields
<1>2. PICK g : /\ Chain(kernels, start, sent, g) /\ g[0] = p
               /\ g[Len(kernels)] = x
  BY DEF Data
<1>3. PICK b : b = g[1]
  OBVIOUS
<1>4. Rises(g, Len(kernels)) /\ p \in Nat /\ b \in Nat /\ p <= b
  <2>1. 1 - 1 = 0
    OBVIOUS
  <2> QED
    BY <1>1, <1>2, <1>3, <2>1, ChainFields
<1>5. x \in Nat /\ b <= x
  <2>1. /\ 1 \in 0..Len(kernels) /\ Len(kernels) \in 0..Len(kernels)
        /\ 1 <= Len(kernels)
    BY <1>1
  <2> QED
    BY <1>2, <1>3, <1>4, <2>1 DEF Rises
<1>6. K = kernels[1] /\ K \in Kernel
  BY <1>1 DEF K
<1>7. start \in Nat /\ sent \in Nat /\ start <= Len(K.iov)
  BY <1>1, <1>6, PlaceFields DEF From
<1>8. Holds(K, start, sent, p, b, 0)
  <2>1. From(1, start) = start /\ From(1, sent) = sent /\ After(1, g[0]) = 0
    BY DEF From, After
  <2>2. 1 - 1 = 0
    OBVIOUS
  <2> QED
    BY <1>1, <1>2, <1>3, <1>6, <2>1, <2>2 DEF Chain
<1>9. Kept(K.iov, start)
  BY <1>7, KeptHeld
<1>10. Out = Numbers(p, b - p) /\ Len(Out) = b - p /\ Needed = b - p
  BY <1>4, <1>6, <1>7, <1>8, <1>9, OutBytes
<1> QED
  BY <1>2, <1>3, <1>4, <1>5, <1>8, <1>10 DEF IsFirst

LEMMA FirstBytes ==
    ASSUME NEW g, NEW p, NEW b, NEW x, IsFirst(g, p, b, x),
           NEW n \in Nat, n <= b - p
    PROVE  SubSeq(Out, 1, n) = Numbers(p, n)
<1>1. PICK d : d = b - p
  OBVIOUS
<1>2. d \in Nat /\ n <= d /\ Out = Numbers(p, d) /\ p \in Nat
  BY <1>1 DEF IsFirst
<1>3. Out \in Seq(Nat) /\ Len(Out) = d /\ \A i \in 1..d : Out[i] = p + i
  BY <1>2, NumbersFields
<1>4. SubSeq(Out, 1, n) = [i \in 1..n |-> Out[i]]
  BY <1>2, <1>3
<1>5. \A i \in 1..n : Out[i] = p + i
  BY <1>2, <1>3
<1> QED
  BY <1>4, <1>5 DEF Numbers

\* A chain like ks, but for bytes that were sent.
LEMMA LikeHeld ==
    ASSUME NEW ks, Form(ks), NEW r, Like(ks[1], r), NEW ks1,
           Changed(ks, ks1, 1, r), NEW st \in Nat, NEW s \in Nat, st <= s,
           NEW ev, Held(ks, st, ev)
    PROVE  Held(ks1, s, ev)
<1>1. /\ ks \in Seq(Kernel) /\ Len(ks) \in Nat \ {0} /\ Len(ks1) = Len(ks)
      /\ 1 \in 1..Len(ks)
  BY FormFields DEF Changed
<1>2. \A m \in 1..Len(ks) : ks1[m].final = ks[m].final
  BY DEF Changed, Like
<1>3. SUFFICES ASSUME NEW i \in 1..Len(ks1),
                      NEW j \in (From(i, s) + 1)..Len(ks1[i].iov),
                      ks1[i].iov[j].type = "HOLD", ks1[i].iov[j].ev # ev
               PROVE  \E l \in i..Len(ks1) :
                            ks1[i].iov[j].ev \in Range(ks1[l].final)
  BY DEF Held
<1>4. /\ j \in (From(i, st) + 1)..Len(ks[i].iov)
      /\ ks1[i].iov[j].type = ks[i].iov[j].type
      /\ ks1[i].iov[j].ev = ks[i].iov[j].ev
  <2>1. CASE i = 1
    <3>1. ks1[i] = r /\ Len(r.iov) = Len(ks[i].iov) /\ Len(ks[i].iov) \in Nat
      BY <1>1, <2>1, KernelFields DEF Changed, Like
    <3>2. j \in (st + 1)..Len(ks[i].iov) /\ j \in 1..Len(ks[i].iov)
      BY <1>3, <2>1, <3>1 DEF From
    <3> QED
      BY <2>1, <3>1, <3>2 DEF Like, From
  <2>2. CASE i # 1
    <3>1. ks1[i] = ks[i] /\ From(i, s) = From(i, st)
      BY <1>1, <2>2 DEF Changed, From
    <3> QED
      BY <1>3, <3>1
  <2> QED
    BY <2>1, <2>2
<1>5. PICK l \in i..Len(ks) : ks[i].iov[j].ev \in Range(ks[l].final)
  BY <1>1, <1>3, <1>4 DEF Held
<1>6. l \in i..Len(ks1) /\ l \in 1..Len(ks)
  BY <1>1, <1>3, <1>5
<1> QED
  BY <1>2, <1>4, <1>5, <1>6

\* The chain after a partial write of n bytes.
IsSome(n, p, x, ks, s) ==
    /\ Form(ks) /\ Place(ks[1], s, sent + n) /\ Held(ks, s, job.ev)
    /\ Data(ks, s, sent + n, heap, p + n, x)

LEMMA SomeFields ==
    ASSUME Form(kernels), Place(kernels[1], start, sent),
           Held(kernels, start, job.ev), NEW p, NEW x,
           Data(kernels, start, sent, heap, p, x), K.iov # << >>,
           NEW n \in Nat \ {0}, n < Needed
    PROVE  IsSome(n, p, x, [kernels EXCEPT ![1] = Partial(n).kernel],
                  Partial(n).start)
<1>1. /\ kernels \in Seq(Kernel) /\ Len(kernels) \in Nat \ {0}
      /\ 1 \in 1..Len(kernels) /\ K = kernels[1] /\ K \in Kernel
      /\ K.iov \in Seq(Bucket) /\ Len(K.iov) \in Nat /\ K.total \in Nat
  BY FormFields, KernelFields DEF K
<1>2. PICK g, b : IsFirst(g, p, b, x)
  BY FirstFields
<1>3. /\ p \in Nat /\ b \in Nat /\ x \in Nat /\ p <= b /\ b <= x
      /\ Needed = b - p /\ n < b - p
  BY <1>2 DEF IsFirst
<1>4. start \in Nat /\ sent \in Nat /\ start < Len(K.iov)
  <2>1. Len(K.iov) # 0
    BY <1>1
  <2>2. start \in Nat /\ sent \in Nat /\ (start = 0 \/ start < Len(K.iov))
    BY <1>1 DEF Place
  <2> QED
    BY <1>1, <2>1, <2>2
<1>5. PICK r, s : r = Partial(n).kernel /\ s = Partial(n).start
  OBVIOUS
<1>6. IsMoved(K, start, p, b, n, r, s)
  <2>1. Lined(K.iov, start, p, b)
    BY <1>2 DEF IsFirst, Holds
  <2>2. Kept(K.iov, start)
    BY <1>4, KeptHeld
  <2>3. K.holder # 0 => K.hindex = start
    BY <1>1 DEF Data, Aside
  <2> QED
    BY <1>1, <1>3, <1>4, <1>5, <2>1, <2>2, <2>3, PartialFields
<1>7. Like(K, r) /\ s \in Nat /\ start <= s /\ s < Len(K.iov)
  BY <1>6 DEF IsMoved
<1>8. /\ r \in Kernel /\ Len(r.iov) = Len(K.iov) /\ r.total = K.total
      /\ Ptrs(r) = Ptrs(K)
  BY <1>7, LikePtrs DEF Like
<1>9. PICK ks : ks = [kernels EXCEPT ![1] = r]
  OBVIOUS
<1>10. Changed(kernels, ks, 1, r)
  BY <1>1, <1>8, <1>9, ChangedFields
<1>11. Form(ks)
  <2>1. /\ Len(K.iov) <= Size /\ (1 < Len(kernels) => Len(K.iov) = Size)
        /\ \A j \in 1..Len(K.iov) : K.iov[j].ev # 0
    BY <1>1 DEF Form
  <2>2. \A j \in 1..Len(r.iov) : r.iov[j].ev # 0
    BY <1>7, <1>8, <2>1 DEF Like
  <2> QED
    BY <1>1, <1>8, <1>10, <2>1, <2>2, ChangedForm
<1>12. K.total = sent + (b - p)
  BY <1>2 DEF IsFirst, Holds
<1>13. Place(ks[1], s, sent + n)
  <2>1. ks[1] = r
    BY <1>10 DEF Changed
  <2>2. sent + n \in 0..K.total
    BY <1>3, <1>4, <1>12
  <2> QED
    BY <1>7, <1>8, <2>1, <2>2 DEF Place
<1>14. Held(ks, s, job.ev)
  BY <1>1, <1>4, <1>7, <1>10, LikeHeld
<1>15. Aside(ks, s)
  <2> SUFFICES ASSUME NEW i \in 1..Len(ks), ks[i].holder # 0
               PROVE  i = 1 /\ ks[i].hindex = s /\ s < Len(ks[i].iov)
    BY DEF Aside
  <2>1. CASE i = 1
    BY <1>6, <1>7, <1>8, <1>10, <2>1 DEF Changed, IsMoved
  <2>2. CASE i # 1
    <3>1. i \in 1..Len(kernels) /\ ks[i] = kernels[i]
      BY <1>10, <2>2 DEF Changed
    <3> QED
      BY <2>2, <3>1 DEF Data, Aside
  <2> QED
    BY <2>1, <2>2
<1>16. Owned(ks, heap)
  <2>1. Owned(kernels, heap) /\ Ptrs(r) = Ptrs(kernels[1]) \cup {}
    BY <1>1, <1>8 DEF Data
  <2>2. Owned(ks, heap \cup {})
    BY <1>1, <1>10, <2>1, ChangedOwned
  <2>3. heap \cup {} = heap
    OBVIOUS
  <2> QED
    BY <2>2, <2>3
<1>17. PICK f : f = [g EXCEPT ![0] = p + n]
  OBVIOUS
<1>18. /\ f \in [0..Len(kernels) -> Nat] /\ f[0] = p + n
       /\ \A i \in 0..Len(kernels) : i # 0 => f[i] = g[i]
  BY <1>1, <1>2, <1>3, <1>17 DEF IsFirst, Rises
<1>19. Rises(f, Len(kernels))
  <2>1. ASSUME NEW i \in 0..Len(kernels), NEW j \in 0..Len(kernels), i <= j
        PROVE  f[i] <= f[j]
    <3>1. CASE j = 0
      <4>1. i = 0
        BY <2>1, <3>1
      <4> QED
        BY <1>3, <1>18, <3>1, <4>1
    <3>2. CASE i = 0 /\ j # 0
      <4>1. 1 \in 0..Len(kernels) /\ 1 <= j
        BY <1>1, <3>2
      <4>2. g[1] <= g[j] /\ g[1] = b /\ g[j] \in Nat
        BY <1>2, <4>1 DEF IsFirst, Rises
      <4> QED
        BY <1>3, <1>18, <3>2, <4>2
    <3>3. CASE i # 0 /\ j # 0
      BY <1>2, <1>18, <2>1, <3>3 DEF IsFirst, Rises
    <3> QED
      BY <3>1, <3>2, <3>3
  <2> QED
    BY <1>18, <2>1 DEF Rises
<1>20. Holds(r, s, sent + n, p + n, b, 0)
  <2>1. r.total = (sent + n) + (b - (p + n))
    BY <1>3, <1>4, <1>8, <1>12
  <2>2. \A q \in Ptrs(r) : q > 0 /\ q <= b
    BY <1>2, <1>8 DEF IsFirst, Holds
  <2> QED
    BY <1>6, <2>1, <2>2 DEF Holds, IsMoved
<1>21. Chain(ks, s, sent + n, f)
  <2>1. PICK se, i : se = sent + n /\ i = 1
    OBVIOUS
  <2>2. \A j \in 1..Len(kernels) : j # 1 => f[j] = g[j] /\ f[j - 1] = g[j - 1]
    BY <1>1, <1>18
  <2>3. /\ From(i, s) = s /\ From(i, se) = se /\ After(i, f[i - 1]) = 0
        /\ f[i - 1] = p + n /\ f[i] = b
    <3>1. 1 \in 0..Len(kernels) /\ 1 - 1 = 0
      BY <1>1
    <3> QED
      BY <1>2, <1>18, <2>1, <3>1 DEF From, After, IsFirst
  <2>4. Holds(r, From(i, s), From(i, se), f[i - 1], f[i], After(i, f[i - 1]))
    BY <1>20, <2>1, <2>3
  <2>5. Chain(kernels, start, sent, g)
    BY <1>2 DEF IsFirst
  <2>6. Chain(ks, s, se, f)
    BY <1>1, <1>10, <1>19, <2>1, <2>2, <2>4, <2>5, ChangedChain
  <2> QED
    BY <2>1, <2>6
<1>22. Data(ks, s, sent + n, heap, p + n, x)
  <2>1. f[Len(ks)] = x
    <3>1. Len(kernels) \in 0..Len(kernels) /\ Len(kernels) # 0
      BY <1>1
    <3> QED
      BY <1>2, <1>10, <1>18, <3>1 DEF Changed, IsFirst
  <2> QED
    BY <1>15, <1>16, <1>18, <1>21, <2>1 DEF Data
<1> QED
  BY <1>5, <1>9, <1>11, <1>13, <1>14, <1>22 DEF IsSome

-----------------------------------------------------------------------------
(* The first kernel is written, and reset.                                 *)

LEMMA PtrsNat ==
    ASSUME NEW k \in Kernel, NEW p \in Ptrs(k)
    PROVE  p \in Nat
<1>1. PICK j \in 1..Len(k.iov) : p = Orig(k, j)
  BY DEF Ptrs, FreeIn
<1>2. k.iov \in Seq(Bucket) /\ k.holder \in Nat
  BY DEF Kernel
<1>3. k.iov[j].base \in Nat
  BY <1>1, <1>2, BucketFields
<1> QED
  BY <1>1, <1>2, <1>3 DEF Orig

\* What next() makes of the first kernel before it resets it.
Whole == IF K.holder # 0 THEN PutBack(K, start) ELSE K

LEMMA WholeFields ==
    ASSUME K \in Kernel, start \in Nat,
           K.holder # 0 => K.hindex = start /\ start < Len(K.iov)
    PROVE  Whole \in Kernel /\ Whole.holder = 0 /\ FreedByReset(Whole) = Ptrs(K)
<1>1. PICK k1 : k1 = Whole
  OBVIOUS
<1>2. Like(K, k1) /\ k1.holder = 0
  <2>1. CASE K.holder = 0
    BY <1>1, <2>1 DEF Whole, Like
  <2>2. CASE K.holder # 0
    <3>1. k1 = PutBack(K, start)
      BY <1>1, <2>2 DEF Whole
    <3>2. IsBack(K, start, k1)
      BY <2>2, <3>1, BackFields
    <3> QED
      BY <3>2 DEF IsBack
  <2> QED
    BY <2>1, <2>2
<1>3. FreedByReset(k1) = Ptrs(k1)
  <2>1. \A j : Orig(k1, j) = k1.iov[j].base
    BY <1>2 DEF Orig
  <2>2. FreedByReset(k1) = {k1.iov[j].base : j \in FreeIn(k1)}
    BY <1>2 DEF FreedByReset, FreeIn
  <2> QED
    BY <2>1, <2>2 DEF Ptrs
<1>4. Ptrs(k1) = Ptrs(K)
  BY <1>2, LikePtrs
<1> QED
  BY <1>1, <1>2, <1>3, <1>4 DEF Like

\* The buffers of the first kernel are allocated, and no others are its.
LEMMA OwnedFirst ==
    ASSUME Form(kernels), NEW h, Owned(kernels, h), NEW g, NEW p, NEW b, NEW x,
           IsFirst(g, p, b, x)
    PROVE  /\ Ptrs(K) \subseteq h
           /\ h \ Ptrs(K) = UNION {Ptrs(kernels[i]) : i \in 2..Len(kernels)}
<1>1. /\ kernels \in Seq(Kernel) /\ Len(kernels) \in Nat \ {0}
      /\ 1 \in 1..Len(kernels) /\ K = kernels[1] /\ K \in Kernel
  BY FormFields DEF K
<1>2. Ptrs(K) \subseteq h
  BY <1>1 DEF Owned
<1>3. ASSUME NEW i \in 2..Len(kernels), NEW q \in Ptrs(kernels[i])
      PROVE  q \notin Ptrs(K)
  <2>1. i \in 1..Len(kernels) /\ i # 1 /\ i - 1 \in 0..Len(kernels) /\ 1 <= i - 1
    BY <1>1
  <2>2. kernels[i] \in Kernel
    BY <1>1, <2>1
  <2>3. q \in Nat
    BY <2>2, PtrsNat
  <2>4. q > g[i - 1]
    <3>1. Holds(kernels[i], From(i, start), From(i, sent), g[i - 1], g[i], g[i - 1])
      BY <2>1 DEF IsFirst, Chain, After
    <3> QED
      BY <3>1 DEF Holds
  <2>5. g[i - 1] \in Nat /\ b <= g[i - 1] /\ b \in Nat
    <3>1. 1 \in 0..Len(kernels)
      BY <1>1
    <3> QED
      BY <2>1, <3>1 DEF IsFirst, Rises
  <2>6. \A y \in Ptrs(K) : y <= b
    BY DEF IsFirst, Holds
  <2> QED
    BY <2>3, <2>4, <2>5, <2>6
<1>4. \A i : i \in 1..Len(kernels) <=> i = 1 \/ i \in 2..Len(kernels)
  BY <1>1
<1>5. ASSUME NEW q
      PROVE  q \in h \ Ptrs(K) <=> \E i \in 2..Len(kernels) : q \in Ptrs(kernels[i])
  <2>1. q \in h <=> \E i \in 1..Len(kernels) : q \in Ptrs(kernels[i])
    BY DEF Owned
  <2> QED
    BY <1>1, <1>3, <1>4, <2>1
<1>6. h \ Ptrs(K) = UNION {Ptrs(kernels[i]) : i \in 2..Len(kernels)}
  BY <1>5
<1> QED
  BY <1>2, <1>6

\* ks is the chain ks0 without its first kernel.
IsTail(ks0, ks) ==
    /\ ks \in Seq(Kernel) /\ Len(ks) = Len(ks0) - 1
    /\ \A i \in 1..Len(ks) : ks[i] = ks0[i + 1]

LEMMA TailFields ==
    ASSUME NEW ks0, Form(ks0), Len(ks0) > 1, NEW ks, ks = Tail(ks0)
    PROVE  IsTail(ks0, ks)
<1>1. ks0 \in Seq(Kernel)
  BY FormFields
<1> QED
  BY <1>1 DEF IsTail

LEMMA TailForm ==
    ASSUME NEW ks0, Form(ks0), Len(ks0) > 1, NEW ks, IsTail(ks0, ks)
    PROVE  /\ Form(ks) /\ Place(ks[1], 0, 0)
           /\ Spare(ks0) => Spare(ks)
<1>1. /\ ks0 \in Seq(Kernel) /\ Len(ks0) \in Nat \ {0} /\ ks \in Seq(Kernel)
      /\ Len(ks) = Len(ks0) - 1 /\ Len(ks) \in Nat \ {0}
  BY FormFields DEF IsTail
<1>2. ks # << >>
  BY <1>1
<1>3. ASSUME NEW i \in 1..Len(ks)
      PROVE  /\ Len(ks[i].iov) <= Size
             /\ i < Len(ks) => Len(ks[i].iov) = Size
             /\ \A j \in 1..Len(ks[i].iov) : ks[i].iov[j].ev # 0
  <2>1. ks[i] = ks0[i + 1] /\ i + 1 \in 1..Len(ks0)
    BY <1>1 DEF IsTail
  <2>2. i < Len(ks) => i + 1 < Len(ks0)
    BY <1>1
  <2> QED
    BY <2>1, <2>2 DEF Form
<1>4. Form(ks)
  BY <1>1, <1>2, <1>3 DEF Form
<1>5. Place(ks[1], 0, 0)
  <2>1. ks[1].total \in Nat
    BY <1>1, KernelFields
  <2> QED
    BY <2>1 DEF Place
<1>6. ks[Len(ks)] = ks0[Len(ks0)]
  <2>1. Len(ks) \in 1..Len(ks) /\ Len(ks) + 1 = Len(ks0)
    BY <1>1
  <2> QED
    BY <2>1 DEF IsTail
<1> QED
  BY <1>4, <1>5, <1>6 DEF Spare

LEMMA TailHeld ==
    ASSUME NEW ks0, Form(ks0), Len(ks0) > 1, NEW ks, IsTail(ks0, ks),
           NEW st, NEW ev, Held(ks0, st, ev)
    PROVE  Held(ks, 0, ev)
<1>1. /\ ks0 \in Seq(Kernel) /\ Len(ks0) \in Nat \ {0}
      /\ Len(ks) = Len(ks0) - 1 /\ Len(ks) \in Nat
  BY FormFields DEF IsTail
<1>2. SUFFICES ASSUME NEW i \in 1..Len(ks), NEW j \in (From(i, 0) + 1)..Len(ks[i].iov),
                      ks[i].iov[j].type = "HOLD", ks[i].iov[j].ev # ev
               PROVE  \E l \in i..Len(ks) : ks[i].iov[j].ev \in Range(ks[l].final)
  BY DEF Held
<1>3. ks[i] = ks0[i + 1] /\ i + 1 \in 1..Len(ks0) /\ i + 1 # 1
  BY <1>1 DEF IsTail
<1>4. From(i, 0) = 0 /\ From(i + 1, st) = 0
  BY <1>3 DEF From
<1>5. PICK l \in (i + 1)..Len(ks0) : ks[i].iov[j].ev \in Range(ks0[l].final)
  BY <1>2, <1>3, <1>4 DEF Held
<1>6. l - 1 \in i..Len(ks) /\ l - 1 \in 1..Len(ks) /\ (l - 1) + 1 = l
  BY <1>1, <1>5
<1>7. ks[l - 1] = ks0[l]
  BY <1>6 DEF IsTail
<1> QED
  BY <1>5, <1>6, <1>7

LEMMA TailData ==
    ASSUME Form(kernels), Len(kernels) > 1, NEW h, Aside(kernels, start),
           Owned(kernels, h), NEW g, NEW p, NEW b, NEW x, IsFirst(g, p, b, x),
           NEW ks, IsTail(kernels, ks)
    PROVE  Data(ks, 0, 0, h \ Ptrs(K), b, x)
<1>1. PICK n : n = Len(ks)
  OBVIOUS
<1>2. /\ kernels \in Seq(Kernel) /\ Len(kernels) = n + 1 /\ n \in Nat \ {0}
  BY <1>1, FormFields DEF IsTail
<1>3. \A i \in 1..n : ks[i] = kernels[i + 1] /\ i + 1 \in 2..(n + 1)
  BY <1>1, <1>2 DEF IsTail
<1>4. Aside(ks, 0)
  <2> SUFFICES ASSUME NEW i \in 1..Len(ks), ks[i].holder # 0 PROVE FALSE
    BY DEF Aside
  <2>1. ks[i] = kernels[i + 1] /\ i + 1 \in 1..Len(kernels) /\ i + 1 # 1
    BY <1>1, <1>2, <1>3
  <2> QED
    BY <2>1 DEF Aside
<1>5. Owned(ks, h \ Ptrs(K))
  <2>1. h \ Ptrs(K) = UNION {Ptrs(kernels[i]) : i \in 2..(n + 1)}
    BY <1>2, OwnedFirst
  <2>2. \A i \in 2..(n + 1) : i - 1 \in 1..n /\ (i - 1) + 1 = i
    BY <1>2
  <2>3. ASSUME NEW q
        PROVE  (\E i \in 2..(n + 1) : q \in Ptrs(kernels[i])) <=>
               (\E i \in 1..n : q \in Ptrs(ks[i]))
    <3>1. ASSUME NEW i \in 2..(n + 1), q \in Ptrs(kernels[i])
          PROVE  \E j \in 1..n : q \in Ptrs(ks[j])
      <4>1. i - 1 \in 1..n /\ ks[i - 1] = kernels[i]
        BY <1>3, <2>2
      <4> QED
        BY <3>1, <4>1
    <3>2. ASSUME NEW i \in 1..n, q \in Ptrs(ks[i])
          PROVE  \E j \in 2..(n + 1) : q \in Ptrs(kernels[j])
      BY <1>3, <3>2
    <3> QED
      BY <3>1, <3>2
  <2>4. h \ Ptrs(K) = UNION {Ptrs(ks[i]) : i \in 1..n}
    BY <2>1, <2>3
  <2> QED
    BY <1>1, <2>4 DEF Owned
<1>6. PICK f : f = [i \in 0..n |-> g[i + 1]]
  OBVIOUS
<1>7. \A i \in 0..n : i + 1 \in 0..(n + 1) /\ f[i] = g[i + 1]
  BY <1>2, <1>6
<1>8. g \in [0..(n + 1) -> Nat] /\ \A i, j \in 0..(n + 1) : i <= j => g[i] <= g[j]
  BY <1>2 DEF IsFirst, Rises
<1>9. f \in [0..n -> Nat]
  BY <1>6, <1>7, <1>8
<1>10. \A i, j \in 0..n : i <= j => f[i] <= f[j]
  <2> SUFFICES ASSUME NEW i \in 0..n, NEW j \in 0..n, i <= j PROVE f[i] <= f[j]
    OBVIOUS
  <2>1. i + 1 <= j + 1
    OBVIOUS
  <2> QED
    BY <1>7, <1>8, <2>1
<1>11. ASSUME NEW i \in 1..n
       PROVE  Holds(ks[i], From(i, 0), From(i, 0), f[i - 1], f[i],
                    After(i, f[i - 1]))
  <2>1. f[i] = g[i + 1] /\ f[i - 1] = g[i]
    <3>1. i \in 0..n /\ i - 1 \in 0..n /\ (i - 1) + 1 = i
      BY <1>2
    <3> QED
      BY <1>7, <3>1
  <2>2. From(i, 0) = 0
    BY DEF From
  <2>3. Holds(ks[i], 0, 0, g[i], g[i + 1], g[i])
    <3>1. i + 1 \in 1..Len(kernels) /\ (i + 1) - 1 = i /\ i + 1 # 1
      BY <1>2
    <3>2. Holds(kernels[i + 1], From(i + 1, start), From(i + 1, sent),
                g[(i + 1) - 1], g[i + 1], After(i + 1, g[(i + 1) - 1]))
      BY <3>1 DEF IsFirst, Chain
    <3>3. /\ From(i + 1, start) = 0 /\ From(i + 1, sent) = 0
          /\ After(i + 1, g[(i + 1) - 1]) = g[i]
      BY <3>1 DEF From, After
    <3> QED
      BY <1>3, <3>1, <3>2, <3>3
  <2>4. \A q \in Ptrs(ks[i]) : q > After(i, g[i]) /\ q <= g[i + 1]
    <3> TAKE q \in Ptrs(ks[i])
    <3>1. q > g[i] /\ q <= g[i + 1]
      BY <2>3 DEF Holds
    <3>2. ks[i] \in Kernel
      BY <1>1 DEF IsTail
    <3>3. q \in Nat /\ g[i] \in Nat
      <4>1. i \in 0..(n + 1)
        BY <1>2
      <4> QED
        BY <1>8, <3>2, <4>1, PtrsNat
    <3> QED
      BY <3>1, <3>3 DEF After
  <2> QED
    BY <2>1, <2>2, <2>3, <2>4 DEF Holds
<1>12. Chain(ks, 0, 0, f)
  BY <1>1, <1>9, <1>10, <1>11 DEF Chain
<1>13. f[0] = b /\ f[Len(ks)] = x
  <2>1. 0 \in 0..n /\ n \in 0..n /\ 0 + 1 = 1
    BY <1>2
  <2> QED
    BY <1>1, <1>2, <1>7, <2>1 DEF IsFirst
<1> QED
  BY <1>4, <1>5, <1>12, <1>13 DEF Data

-----------------------------------------------------------------------------
(* A chain of one empty kernel.                                            *)

LEMMA ResetFields ==
    ASSUME NEW k \in Kernel, NEW r, r = ResetKernel(k)
    PROVE  /\ r \in Kernel /\ r.iov = << >> /\ r.total = 0
           /\ k.holder = 0 => r.holder = 0
<1>1. k.holder \in Nat /\ k.hindex \in Nat
  BY DEF Kernel
<1>2. CASE k.holder # 0 /\ k.hindex # 0
  BY <1>2, EmptyFields DEF ResetKernel
<1>3. CASE ~(k.holder # 0 /\ k.hindex # 0)
  <2>1. r = [iov |-> << >>, total |-> 0, holder |-> k.holder,
             hindex |-> k.hindex, final |-> << >>]
    BY <1>3 DEF ResetKernel, EmptyKernel
  <2> QED
    BY <1>1, <2>1 DEF Kernel
<1> QED
  BY <1>2, <1>3

IsAlone(ks) ==
    /\ ks \in Seq(Kernel) /\ Len(ks) = 1 /\ ks[1].iov = << >> /\ ks[1].total = 0

LEMMA AloneForm ==
    ASSUME NEW ks, IsAlone(ks)
    PROVE  Form(ks) /\ Spare(ks) /\ Place(ks[1], 0, 0)
<1>1. Size \in Nat \ {0} /\ Len(ks[1].iov) = 0
  BY SinkAssumption DEF IsAlone
<1>2. ks # << >> /\ \A i \in 1..Len(ks) : i = 1
  BY DEF IsAlone
<1> QED
  BY <1>1, <1>2 DEF Form, Spare, Place, IsAlone

LEMMA AloneHeld ==
    ASSUME NEW ks, Len(ks) = 1, ks[1].iov = << >>, NEW st \in Nat, NEW ev
    PROVE  Held(ks, st, ev)
<1>1. Len(ks[1].iov) = 0
  OBVIOUS
<1>2. \A i \in 1..Len(ks) : i = 1
  OBVIOUS
<1>3. ASSUME NEW j \in (From(1, st) + 1)..Len(ks[1].iov) PROVE FALSE
  BY <1>1 DEF From
<1> QED
  BY <1>2, <1>3 DEF Held

LEMMA AloneData ==
    ASSUME NEW ks, IsAlone(ks), ks[1].holder = 0, NEW x \in Nat
    PROVE  Data(ks, 0, 0, {}, x, x)
<1>1. \A i \in 1..Len(ks) : i = 1
  BY DEF IsAlone
<1>2. Aside(ks, 0)
  BY <1>1 DEF Aside
<1>3. Holds(ks[1], 0, 0, x, x, 0) /\ Ptrs(ks[1]) = {}
  BY EmptyHolds DEF IsAlone
<1>4. Owned(ks, {})
  BY <1>1, <1>3 DEF Owned
<1>5. PICK g : g = [i \in 0..1 |-> x]
  OBVIOUS
<1>6. g \in [0..1 -> Nat] /\ g[0] = x /\ g[1] = x
  BY <1>5
<1>7. \A i, j \in 0..1 : g[i] <= g[j]
  BY <1>5
<1>8. ASSUME NEW i \in 1..1
      PROVE  Holds(ks[i], From(i, 0), From(i, 0), g[i - 1], g[i], After(i, g[i - 1]))
  <2>1. /\ i = 1 /\ From(i, 0) = 0 /\ After(i, g[i - 1]) = 0
        /\ g[i - 1] = x /\ g[i] = x
    BY <1>6 DEF From, After
  <2> QED
    BY <1>3, <2>1
<1>9. Len(ks) = 1
  BY DEF IsAlone
<1>10. Chain(ks, 0, 0, g)
  BY <1>6, <1>7, <1>8, <1>9 DEF Chain
<1> QED
  BY <1>2, <1>4, <1>6, <1>9, <1>10 DEF Data

\* With all of its one kernel written the chain is empty.
LEMMA ResetData ==
    ASSUME Form(kernels), Len(kernels) = 1, NEW h, Aside(kernels, start),
           Owned(kernels, h), NEW g, NEW p, NEW b, NEW x, IsFirst(g, p, b, x),
           NEW k, k \in Kernel, k.holder = 0, NEW ks, ks = <<ResetKernel(k)>>
    PROVE  IsAlone(ks) /\ Data(ks, 0, 0, h \ Ptrs(K), b, x)
<1>1. ks[1] = ResetKernel(k) /\ Len(ks) = 1
  OBVIOUS
<1>2. /\ ks[1] \in Kernel /\ ks[1].iov = << >> /\ ks[1].total = 0
      /\ ks[1].holder = 0
  BY <1>1, ResetFields
<1>3. IsAlone(ks)
  <2>1. ks \in Seq(Kernel)
    BY <1>1, <1>2
  <2> QED
    BY <1>1, <1>2, <2>1 DEF IsAlone
<1>4. b = x /\ x \in Nat
  BY DEF IsFirst
<1>5. h \ Ptrs(K) = {}
  <2>1. h \ Ptrs(K) = UNION {Ptrs(kernels[i]) : i \in 2..1}
    BY OwnedFirst
  <2> QED
    BY <2>1
<1>6. Data(ks, 0, 0, {}, x, x)
  BY <1>2, <1>3, <1>4, AloneData
<1> QED
  BY <1>3, <1>4, <1>5, <1>6

-----------------------------------------------------------------------------
(* What the caller of flush() does next.                                   *)

LEMMA IdleBusy ==
    ASSUME NEW at \in {"idle", "resume", "quit", "gone"}, NEW j,
           j = [Idle EXCEPT !.at = at]
    PROVE  Busy(j) /\ j.at = at /\ j.ev = 0
<1>1. j = [at |-> at, rest |-> << >>, ev |-> 0, can |-> TRUE]
  BY DEF Idle
<1>2. PICK rest : rest = << >>
  OBVIOUS
<1>3. /\ rest \in Seq(Part)
      /\ \A i \in 1..Len(rest) : rest[i].type = "FREE" => rest[i].len > 0
  BY <1>2
<1>4. May(at, rest, 0, TRUE)
  BY <1>3, SinkAssumption DEF May
<1>5. PICK ev, can : ev = 0 /\ can = TRUE
  OBVIOUS
<1>6. Busy(j) /\ IsJob(j, at, rest, ev, can)
  BY <1>1, <1>2, <1>4, <1>5, IsBusy
<1> QED
  BY <1>5, <1>6 DEF IsJob

LEMMA IdleFields == Busy(Idle) /\ Idle.at = "idle" /\ Idle.ev = 0
<1>1. Idle = [Idle EXCEPT !.at = "idle"]
  BY DEF Idle
<1> QED
  BY <1>1, IdleBusy

\* The event goes on after write()'s flush().
GoOn(j) == [j EXCEPT !.at = IF j.rest = << >> THEN "last" ELSE "put"]

LEMMA GoOnBusy ==
    ASSUME NEW j, Busy(j), j.at \in {"fill", "last"}, NEW j1, j1 = GoOn(j)
    PROVE  Busy(j1) /\ j1.at \in {"last", "put"} /\ j1.ev = j.ev
<1>1. PICK at, rest, ev, can :
         /\ at = (IF j.rest = << >> THEN "last" ELSE "put") /\ rest = j.rest
         /\ ev = j.ev /\ can = j.can
  OBVIOUS
<1>2. j1 = [at |-> at, rest |-> rest, ev |-> ev, can |-> can]
  <2>1. j \in Job
    BY DEF Busy
  <2>2. j1 = [j EXCEPT !.at = at]
    BY <1>1 DEF GoOn
  <2> QED
    BY <1>1, <2>1, <2>2 DEF Job
<1>3. /\ rest \in Seq(Part) /\ ev \in 0..MaxEvents /\ can \in BOOLEAN /\ ev # 0
      /\ \A i \in 1..Len(rest) : rest[i].type = "FREE" => rest[i].len > 0
  BY <1>1, BusyFields DEF Busy
<1>4. at \in {"last", "put"} /\ (at = "put" => rest # << >>)
  BY <1>1
<1>5. May(at, rest, ev, can)
  BY <1>3, <1>4 DEF May
<1>6. Busy(j1) /\ IsJob(j1, at, rest, ev, can)
  BY <1>2, <1>5, IsBusy
<1> QED
  BY <1>1, <1>4, <1>6 DEF IsJob

LEMMA DoneFields ==
    ASSUME Busy(job), ReturnDone
    PROVE  /\ Busy(job') /\ job'.at \in {"idle", "last", "put"}
           /\ selecting \in BOOLEAN => selecting' \in BOOLEAN
<1>1. CASE job.at = "fill"
  <2>1. PICK j1 : j1 = job'
    OBVIOUS
  <2>2. j1 = GoOn(job)
    BY <1>1, <2>1 DEF ReturnDone, GoOn
  <2>3. Busy(j1) /\ j1.at \in {"last", "put"}
    BY <1>1, <2>2, GoOnBusy
  <2> QED
    BY <2>1, <2>3 DEF ReturnDone
<1>2. CASE job.at # "fill"
  <2>1. job' = Idle
    BY <1>2 DEF ReturnDone
  <2> QED
    BY <2>1, IdleFields DEF ReturnDone
<1> QED
  BY <1>1, <1>2

\* The chains differ in their finalizers only.
Same(ks, ks1) ==
    /\ ks1 \in Seq(Kernel) /\ Len(ks1) = Len(ks)
    /\ \A i \in 1..Len(ks) :
          /\ ks1[i].iov = ks[i].iov /\ ks1[i].total = ks[i].total
          /\ ks1[i].holder = ks[i].holder /\ ks1[i].hindex = ks[i].hindex

LEMMA SameForm ==
    ASSUME NEW ks, Form(ks), NEW ks1, Same(ks, ks1), NEW st, NEW se
    PROVE  /\ Form(ks1) /\ (Spare(ks) => Spare(ks1))
           /\ Place(ks[1], st, se) => Place(ks1[1], st, se)
<1>1. /\ Len(ks) \in Nat \ {0} /\ Len(ks) \in 1..Len(ks) /\ 1 \in 1..Len(ks)
      /\ ks1 \in Seq(Kernel) /\ Len(ks1) = Len(ks)
  BY FormFields DEF Same
<1>2. ks1 # << >>
  BY <1>1
<1>3. Form(ks1)
  BY <1>1, <1>2 DEF Form, Same
<1>4. Spare(ks) => Spare(ks1)
  BY <1>1 DEF Spare, Same
<1>5. Place(ks[1], st, se) => Place(ks1[1], st, se)
  BY <1>1 DEF Place, Same
<1> QED
  BY <1>3, <1>4, <1>5

LEMMA SameData ==
    ASSUME NEW ks, NEW ks1, Same(ks, ks1), NEW st, NEW se, NEW h, NEW p, NEW x,
           Data(ks, st, se, h, p, x)
    PROVE  Data(ks1, st, se, h, p, x)
<1>1. Len(ks1) = Len(ks)
  BY DEF Same
<1>2. ASSUME NEW i \in 1..Len(ks)
      PROVE  /\ Ptrs(ks1[i]) = Ptrs(ks[i])
             /\ \A s, e, a, b, lo : Holds(ks[i], s, e, a, b, lo) =>
                                    Holds(ks1[i], s, e, a, b, lo)
  <2>1. /\ ks1[i].iov = ks[i].iov /\ ks1[i].total = ks[i].total
        /\ ks1[i].holder = ks[i].holder /\ ks1[i].hindex = ks[i].hindex
    BY DEF Same
  <2>2. \A j : Orig(ks1[i], j) = Orig(ks[i], j)
    BY <2>1 DEF Orig
  <2>3. FreeIn(ks1[i]) = FreeIn(ks[i])
    BY <2>1 DEF FreeIn
  <2>4. Ptrs(ks1[i]) = Ptrs(ks[i])
    BY <2>2, <2>3 DEF Ptrs
  <2> QED
    BY <2>1, <2>4 DEF Holds
<1>3. Aside(ks1, st)
  BY <1>1 DEF Data, Aside, Same
<1>4. Owned(ks1, h)
  <2>1. UNION {Ptrs(ks1[i]) : i \in 1..Len(ks)} = UNION {Ptrs(ks[i]) : i \in 1..Len(ks)}
    BY <1>2
  <2> QED
    BY <1>1, <2>1 DEF Data, Owned
<1>5. PICK g : Chain(ks, st, se, g) /\ g[0] = p /\ g[Len(ks)] = x
  BY DEF Data
<1>6. Chain(ks1, st, se, g)
  BY <1>1, <1>2, <1>5 DEF Chain
<1> QED
  BY <1>1, <1>3, <1>4, <1>5, <1>6 DEF Data

\* ks1 is ks with the event ev tied to the last kernel.
IsTied(ks, ks1, ev) ==
    /\ Same(ks, ks1)
    /\ \A i \in 1..Len(ks) : Range(ks[i].final) \subseteq Range(ks1[i].final)
    /\ ev \in Range(ks1[Len(ks)].final)

LEMMA TiedFields ==
    ASSUME NEW ks, Form(ks), NEW ev \in 1..MaxEvents, NEW ks1,
           ks1 = [ks EXCEPT ![Len(ks)].final = Append(@, ev)]
    PROVE  IsTied(ks, ks1, ev)
<1>1. PICK n, k : n = Len(ks) /\ k = ks[n]
  OBVIOUS
<1>2. ks \in Seq(Kernel) /\ n \in 1..Len(ks) /\ k \in Kernel
  BY <1>1, FormFields
<1>3. PICK q : q = Append(k.final, ev)
  OBVIOUS
<1>4. k.final \in Seq(1..MaxEvents)
  BY <1>2 DEF Kernel
<1>5. q \in Seq(1..MaxEvents) /\ Range(k.final) \subseteq Range(q) /\ ev \in Range(q)
  <2>1. /\ q \in Seq(1..MaxEvents) /\ Len(q) = Len(k.final) + 1
        /\ Len(k.final) \in Nat /\ q[Len(k.final) + 1] = ev
        /\ \A i \in 1..Len(k.final) : q[i] = k.final[i]
    BY <1>3, <1>4
  <2>2. DOMAIN q = 1..Len(q) /\ DOMAIN k.final = 1..Len(k.final)
    BY <1>4, <2>1
  <2>3. ev \in Range(q)
    <3>1. Len(k.final) + 1 \in DOMAIN q
      BY <2>1, <2>2
    <3> QED
      BY <2>1, <3>1 DEF Range
  <2>4. ASSUME NEW e \in Range(k.final) PROVE e \in Range(q)
    <3>1. PICK i \in 1..Len(k.final) : e = k.final[i]
      BY <2>2 DEF Range
    <3>2. i \in DOMAIN q /\ e = q[i]
      BY <2>1, <2>2, <3>1
    <3> QED
      BY <3>2 DEF Range
  <2> QED
    BY <2>1, <2>3, <2>4
<1>6. PICK r : r = [k EXCEPT !.final = q]
  OBVIOUS
<1>7. r = [iov |-> k.iov, total |-> k.total, holder |-> k.holder,
           hindex |-> k.hindex, final |-> q]
  BY <1>2, <1>6 DEF Kernel
<1>8. r \in Kernel
  BY <1>2, <1>5, <1>7 DEF Kernel
<1>9. /\ r.iov = k.iov /\ r.total = k.total /\ r.holder = k.holder
      /\ r.hindex = k.hindex /\ r.final = q
  BY <1>7
<1>10. ks1 = [ks EXCEPT ![n] = r]
  BY <1>1, <1>2, <1>3, <1>6
<1>11. Changed(ks, ks1, n, r)
  BY <1>2, <1>8, <1>10, ChangedFields
<1>12. Same(ks, ks1)
  BY <1>1, <1>9, <1>11 DEF Same, Changed
<1>13. \A i \in 1..Len(ks) : Range(ks[i].final) \subseteq Range(ks1[i].final)
  BY <1>1, <1>5, <1>9, <1>11 DEF Changed
<1>14. ev \in Range(ks1[Len(ks)].final)
  BY <1>1, <1>5, <1>9, <1>11 DEF Changed
<1> QED
  BY <1>12, <1>13, <1>14 DEF IsTied

LEMMA TiedHeld ==
    ASSUME NEW ks, Form(ks), NEW ks1, NEW ev, IsTied(ks, ks1, ev), NEW st \in Nat,
           Held(ks, st, ev), NEW ev1
    PROVE  Held(ks1, st, ev1)
<1>1. ks \in Seq(Kernel) /\ Len(ks) \in Nat \ {0} /\ Len(ks1) = Len(ks)
  BY FormFields DEF IsTied, Same
<1>2. SUFFICES ASSUME NEW i \in 1..Len(ks1),
                      NEW j \in (From(i, st) + 1)..Len(ks1[i].iov),
                      ks1[i].iov[j].type = "HOLD"
               PROVE  \E l \in i..Len(ks1) :
                         ks1[i].iov[j].ev \in Range(ks1[l].final)
  BY DEF Held
<1>3. i \in 1..Len(ks) /\ ks1[i].iov = ks[i].iov
  BY <1>1 DEF IsTied, Same
<1>4. CASE ks[i].iov[j].ev = ev
  <2>1. Len(ks) \in i..Len(ks1) /\ ks1[i].iov[j].ev \in Range(ks1[Len(ks)].final)
    BY <1>1, <1>3, <1>4 DEF IsTied
  <2> QED
    BY <2>1
<1>5. CASE ks[i].iov[j].ev # ev
  <2>1. PICK l \in i..Len(ks) : ks[i].iov[j].ev \in Range(ks[l].final)
    BY <1>2, <1>3, <1>5 DEF Held
  <2>2. l \in 1..Len(ks) /\ l \in i..Len(ks1)
    BY <1>1, <1>3, <2>1
  <2> QED
    BY <1>3, <2>1, <2>2 DEF IsTied
<1> QED
  BY <1>4, <1>5

\* The chain after flush() has returned the sink.
Settled(ks, st, ks1, j) ==
    /\ Same(ks, ks1) /\ Busy(j) /\ j.at \in {"idle", "last", "put", "spin"}
    /\ Held(ks, st, job.ev) => Held(ks1, st, j.ev)

LEMMA SuspendedFields ==
    ASSUME Busy(job), Flushing, job.at # "quit", NEW ks, Form(ks),
           NEW st \in Nat, ReturnSuspended(ks), selecting \in BOOLEAN
    PROVE  Settled(ks, st, kernels', job') /\ selecting' \in BOOLEAN
<1>1. job.at \in {"fill", "last", "spin", "resume"}
  BY DEF Flushing
<1>2. Same(ks, ks)
  BY FormFields DEF Same
<1>3. PICK ks1, j1 : ks1 = kernels' /\ j1 = job'
  OBVIOUS
<1>4. CASE job.at = "fill"
  <2>1. ks1 = ks /\ j1 = GoOn(job) /\ selecting' = selecting
    BY <1>3, <1>4 DEF ReturnSuspended, GoOn
  <2>2. Busy(j1) /\ j1.at \in {"last", "put"} /\ j1.ev = job.ev
    BY <1>4, <2>1, GoOnBusy
  <2> QED
    BY <1>2, <1>3, <2>1, <2>2 DEF Settled
<1>5. CASE job.at = "last" /\ job.can
  <2>1. SendSuspended(ks)
    BY <1>5 DEF ReturnSuspended
  <2>2. /\ ks1 = [ks EXCEPT ![Len(ks)].final = Append(@, job.ev)]
        /\ j1 = Idle /\ selecting' = TRUE
    BY <1>3, <2>1 DEF SendSuspended
  <2>3. job.ev \in 1..MaxEvents
    <3>1. job.ev # 0 /\ job.ev \in 0..MaxEvents
      BY <1>5, BusyFields DEF Busy
    <3> QED
      BY <3>1, SinkAssumption
  <2>4. IsTied(ks, ks1, job.ev)
    BY <2>2, <2>3, TiedFields
  <2>5. Held(ks, st, job.ev) => Held(ks1, st, j1.ev)
    BY <2>4, TiedHeld
  <2>6. Busy(j1) /\ j1.at = "idle"
    BY <2>2, IdleFields
  <2>7. Same(ks, ks1)
    BY <2>4 DEF IsTied
  <2> QED
    BY <1>3, <2>2, <2>5, <2>6, <2>7 DEF Settled
<1>6. CASE job.at \in {"last", "spin"} /\ ~job.can
  <2>1. ks1 = ks /\ selecting' = selecting /\ j1 = [job EXCEPT !.at = "spin"]
    BY <1>3, <1>6 DEF ReturnSuspended
  <2>2. PICK rest, ev, can, at : /\ rest = job.rest /\ ev = job.ev /\ can = job.can
                                 /\ at = "spin"
    OBVIOUS
  <2>3. j1 = [at |-> at, rest |-> rest, ev |-> ev, can |-> can]
    <3>1. job \in Job
      BY DEF Busy
    <3> QED
      BY <2>1, <2>2, <3>1 DEF Job
  <2>4. May(at, rest, ev, can)
    <3>1. /\ rest \in Seq(Part) /\ ev \in 0..MaxEvents /\ can \in BOOLEAN
          /\ ev # 0 /\ ~can
          /\ \A i \in 1..Len(rest) : rest[i].type = "FREE" => rest[i].len > 0
      BY <1>6, <2>2, BusyFields DEF Busy
    <3> QED
      BY <2>2, <3>1 DEF May
  <2>5. Busy(j1) /\ IsJob(j1, at, rest, ev, can)
    BY <2>3, <2>4, IsBusy
  <2>6. Busy(j1) /\ j1.at = "spin" /\ j1.ev = job.ev
    BY <2>2, <2>5 DEF IsJob
  <2> QED
    BY <1>2, <1>3, <2>1, <2>6 DEF Settled
<1>7. CASE job.at = "resume"
  <2>1. ResumeSuspended(ks)
    BY <1>7 DEF ReturnSuspended
  <2>2. ks1 = ks /\ selecting' = selecting /\ j1 = Idle
    BY <1>3, <2>1 DEF ResumeSuspended
  <2>3. Busy(j1) /\ j1.at = "idle" /\ j1.ev = 0
    BY <2>2, IdleFields
  <2>4. job.ev = 0
    BY <1>7 DEF Busy
  <2> QED
    BY <1>2, <1>3, <2>2, <2>3, <2>4 DEF Settled
<1> QED
  <2>1. job.can \in BOOLEAN /\ (job.at = "spin" => ~job.can)
    BY BusyFields DEF Busy
  <2> QED
    BY <1>1, <1>4, <1>5, <1>6, <1>7, <2>1

\* The chain ks, in which AddIfFull has made room, after flush() has
\* returned the sink.
LEMMA SettledFields ==
    ASSUME NEW ks, Form(ks), NEW st, NEW se, Place(ks[1], st, se),
           Held(ks, st, job.ev), NEW h, NEW p, NEW x, Data(ks, st, se, h, p, x),
           NEW ks1, NEW ks2, NEW j, ks1 = AddIfFull(ks), Settled(ks1, st, ks2, j)
    PROVE  /\ Form(ks2) /\ Spare(ks2) /\ Place(ks2[1], st, se)
           /\ Held(ks2, st, j.ev) /\ Data(ks2, st, se, h, p, x)
<1>1. st \in Nat /\ se \in Nat
  BY FormFields, PlaceFields
<1>2. /\ Form(ks1) /\ Spare(ks1) /\ Place(ks1[1], st, se)
      /\ Held(ks1, st, job.ev) /\ Data(ks1, st, se, h, p, x)
  <2>1. CASE ks1 = ks /\ Spare(ks)
    BY <2>1
  <2>2. CASE IsGrown(ks, ks1) /\ Len(ks[Len(ks)].iov) = Size
    <3>1. Form(ks1) /\ Spare(ks1) /\ ks1[1] = ks[1]
      BY <2>2, GrownForm
    <3>2. Held(ks1, st, job.ev)
      BY <1>1, <2>2, GrownHeld
    <3>3. Data(ks1, st, se, h, p, x)
      BY <1>1, <2>2, GrownData
    <3> QED
      BY <3>1, <3>2, <3>3
  <2> QED
    BY <2>1, <2>2, GrownFields
<1>3. Same(ks1, ks2) /\ Held(ks2, st, j.ev)
  BY <1>2 DEF Settled
<1>4. Form(ks2) /\ Spare(ks2) /\ Place(ks2[1], st, se)
  BY <1>2, <1>3, SameForm
<1>5. Data(ks2, st, se, h, p, x)
  BY <1>2, <1>3, SameData
<1> QED
  BY <1>3, <1>4, <1>5

\* buf.add() leaves room in the last kernel, and the first one as it is.
LEMMA GrownBasic ==
    ASSUME NEW ks, Form(ks), NEW ks1, ks1 = AddIfFull(ks)
    PROVE  Form(ks1) /\ Spare(ks1) /\ ks1[1] = ks[1]
<1>1. CASE ks1 = ks /\ Spare(ks)
  BY <1>1
<1>2. CASE IsGrown(ks, ks1) /\ Len(ks[Len(ks)].iov) = Size
  BY <1>2, GrownForm
<1> QED
  BY <1>1, <1>2, GrownFields

\* The sink is gone, or its chain was reset: nothing is left of it.
LEMMA EmptyBasic ==
    ASSUME IInv, IsAlone(kernels'), start' = 0, sent' = 0, Busy(job'),
           heap' \subseteq heap, UNCHANGED <<events, nxt>>,
           wild' \in BOOLEAN, selecting' \in BOOLEAN
    PROVE  Basic' /\ Held(kernels', start', job'.ev)
<1>1. PICK ks : ks = kernels'
  OBVIOUS
<1>2. Form(ks) /\ Spare(ks) /\ Place(ks[1], 0, 0)
  BY <1>1, AloneForm
<1>3. Held(ks, 0, job'.ev)
  <2>1. Len(ks) = 1 /\ ks[1].iov = << >>
    BY <1>1 DEF IsAlone
  <2> QED
    BY <2>1, AloneHeld
<1>4. heap' \subseteq 1..nxt' /\ events' \in 0..MaxEvents
  BY DEF IInv, Basic
<1> QED
  BY <1>1, <1>2, <1>3, <1>4 DEF Basic

LEMMA EmptyAlone == IsAlone(<<EmptyKernel>>)
  BY EmptyFields DEF IsAlone

LEMMA DestroyedFields ==
    ASSUME IInv, NEW ks, Destroyed(ks), UNCHANGED <<events, nxt>>
    PROVE  Basic' /\ Held(kernels', start', job'.ev) /\ job'.at = "gone"
<1>1. PICK j : j = job'
  OBVIOUS
<1>2. Busy(j) /\ j.at = "gone"
  BY <1>1, IdleBusy DEF Destroyed
<1>3. heap' \subseteq heap /\ wild' \in BOOLEAN
  BY DEF Destroyed, Free
<1>4. selecting' \in BOOLEAN
  BY DEF Destroyed, IInv, Basic
<1>5. IsAlone(kernels') /\ start' = 0 /\ sent' = 0
  BY EmptyAlone DEF Destroyed
<1> QED
  BY <1>1, <1>2, <1>3, <1>4, <1>5, EmptyBasic

\* The bytes taken are those that come next.
IsWritten(n, p) ==
    /\ n \in Nat /\ n <= Room /\ n <= Len(Out) /\ (n = Len(Out) \/ n > 0)
    /\ p = Len(got) + Len(pipe) /\ p \in Nat /\ p + n <= nxt
    /\ pipe' = pipe \o Numbers(p, n)

LEMMA WrittenSent ==
    ASSUME Sent, open, NEW n, NEW p, IsWritten(n, p), UNCHANGED <<nxt, got, open>>
    PROVE  Sent' /\ Len(got') + Len(pipe') = p + n
<1>1. /\ pipe \in Seq(Nat) /\ got \in Seq(Nat) /\ nxt \in Nat /\ Len(pipe) <= Cap
      /\ Cap \in Nat /\ \A i \in 1..Len(pipe) : pipe[i] = Len(got) + i
  BY SinkAssumption DEF Sent
<1>2. n \in Nat /\ n <= Cap - Len(pipe) /\ p = Len(got) + Len(pipe) /\ p \in Nat
  BY DEF IsWritten, Room
<1>3. PICK q, r : q = Numbers(p, n) /\ r = pipe \o q
  OBVIOUS
<1>4. q \in Seq(Nat) /\ Len(q) = n /\ \A i \in 1..n : q[i] = p + i
  BY <1>2, <1>3, NumbersFields
<1>5. IsJoined(pipe, q, r)
  BY <1>1, <1>3, <1>4, Joined
<1>6. /\ r \in Seq(Nat) /\ Len(r) = Len(pipe) + n
      /\ \A i \in 1..Len(r) : r[i] = IF i <= Len(pipe) THEN pipe[i] ELSE q[i - Len(pipe)]
  BY <1>4, <1>5 DEF IsJoined
<1>7. ASSUME NEW i \in 1..Len(r) PROVE r[i] = Len(got) + i
  <2>1. CASE i <= Len(pipe)
    <3>1. i \in 1..Len(pipe)
      BY <1>1, <2>1
    <3> QED
      BY <1>1, <1>6, <2>1, <3>1
  <2>2. CASE ~(i <= Len(pipe))
    <3>1. i - Len(pipe) \in 1..n /\ Len(pipe) \in Nat /\ Len(got) \in Nat
      BY <1>1, <1>2, <1>6, <2>2
    <3>2. r[i] = p + (i - Len(pipe))
      BY <1>4, <1>6, <2>2, <3>1
    <3> QED
      BY <1>2, <3>1, <3>2
  <2> QED
    BY <2>1, <2>2
<1>8. Len(got) + Len(r) = p + n
  BY <1>1, <1>2, <1>6
<1>9. Len(r) <= Cap
  BY <1>1, <1>2, <1>6
<1>10. pipe' = r
  BY <1>3 DEF IsWritten
<1>11. Len(got) + Len(r) <= nxt
  BY <1>8 DEF IsWritten
<1> QED
  BY <1>1, <1>6, <1>7, <1>8, <1>9, <1>10, <1>11 DEF Sent

LEMMA TakenFields ==
    ASSUME Sent, Len(Out) \in Nat, NEW n \in Taken
    PROVE  n \in Nat /\ n <= Room /\ n <= Len(Out) /\ (n = Len(Out) \/ n > 0)
<1>1. Room \in Nat /\ Atomic \in Nat
  <2>1. Len(pipe) \in Nat /\ Len(pipe) <= Cap /\ Cap \in Nat
    BY SinkAssumption DEF Sent
  <2> QED
    BY <2>1, SinkAssumption DEF Room
<1>2. CASE Len(Out) <= Room
  BY <1>1, <1>2 DEF Taken
<1>3. CASE ~(Len(Out) <= Room)
  <2>1. n \in 1..Room
    BY <1>3 DEF Taken
  <2> QED
    BY <1>1, <1>3, <2>1
<1> QED
  BY <1>2, <1>3

-----------------------------------------------------------------------------
(* Every step keeps the invariant.                                         *)

\* What is known of the chain while the sink is in use.
LEMMA OpenFields ==
    ASSUME IInv, open, job.at # "gone"
    PROVE  /\ Form(kernels) /\ Place(kernels[1], start, sent) /\ Busy(job)
           /\ Held(kernels, start, job.ev) /\ wild = FALSE /\ selecting \in BOOLEAN
           /\ Data(kernels, start, sent, heap, Len(got) + Len(pipe), nxt)
           /\ K = kernels[1] /\ K \in Kernel /\ start \in Nat /\ sent \in Nat
           /\ Len(kernels) \in Nat \ {0}
<1>1. /\ Form(kernels) /\ Place(kernels[1], start, sent) /\ Busy(job)
      /\ selecting \in BOOLEAN /\ wild \in BOOLEAN
  BY DEF IInv, Basic
<1>2. /\ Held(kernels, start, job.ev) /\ ~wild
      /\ Data(kernels, start, sent, heap, Len(got) + Len(pipe), nxt)
  BY DEF IInv
<1>3. /\ kernels \in Seq(Kernel) /\ 1 \in 1..Len(kernels)
      /\ Len(kernels) \in Nat \ {0}
  BY <1>1, FormFields
<1>4. K = kernels[1] /\ K \in Kernel
  BY <1>3 DEF K
<1>5. start \in Nat /\ sent \in Nat
  BY <1>1, <1>3, PlaceFields
<1> QED
  BY <1>1, <1>2, <1>3, <1>4, <1>5

LEMMA AllStep ==
    ASSUME IInv, open, Flushing, NEW g, NEW p, NEW b, NEW n,
           IsFirst(g, p, b, nxt), n = b - p, FlushAll(n),
           UNCHANGED <<events, nxt>>
    PROVE  /\ Basic' /\ Held(kernels', start', job'.ev)
           /\ ~wild' /\ Data(kernels', start', sent', heap', p + n, nxt')
<1>1. job.at # "gone" /\ job.at # "idle"
  BY DEF Flushing
<1>2. /\ Form(kernels) /\ Place(kernels[1], start, sent) /\ Busy(job)
      /\ Held(kernels, start, job.ev) /\ wild = FALSE /\ selecting \in BOOLEAN
      /\ K = kernels[1] /\ K \in Kernel /\ start \in Nat /\ sent \in Nat
      /\ Len(kernels) \in Nat \ {0}
  BY <1>1, OpenFields
<1>3. Aside(kernels, start) /\ Owned(kernels, heap)
  BY <1>1, OpenFields DEF Data
<1>4. K.holder # 0 => K.hindex = start /\ start < Len(K.iov)
  BY <1>2, <1>3 DEF Aside
<1>5. Whole \in Kernel /\ Whole.holder = 0 /\ FreedByReset(Whole) = Ptrs(K)
  BY <1>2, <1>4, WholeFields
<1>6. /\ Free(FreedByReset(Whole))
      /\ kernels' = IF Len(kernels) > 1 THEN Tail(kernels)
                    ELSE <<ResetKernel(Whole)>>
      /\ start' = 0 /\ sent' = 0
  BY DEF FlushAll, Whole, PutBack
<1>7. Ptrs(K) \subseteq heap
  BY <1>2, <1>3, OwnedFirst
<1>8. heap' = heap \ Ptrs(K) /\ wild' = FALSE
  BY <1>2, <1>5, <1>6, <1>7 DEF Free
<1>9. p + n = b /\ nxt' = nxt
  BY DEF IsFirst
<1>10. PICK ks : ks = kernels'
  OBVIOUS
<1>11. CASE Len(kernels) > 1
  <2>1. ks = Tail(kernels) /\ job' = job /\ selecting' = selecting
    BY <1>6, <1>10, <1>11 DEF FlushAll
  <2>2. IsTail(kernels, ks)
    BY <1>2, <1>11, <2>1, TailFields
  <2>3. Form(ks) /\ Place(ks[1], 0, 0) /\ (Spare(kernels) => Spare(ks))
    BY <1>2, <1>11, <2>2, TailForm
  <2>4. Held(ks, 0, job.ev)
    BY <1>2, <1>11, <2>2, TailHeld
  <2>5. Data(ks, 0, 0, heap \ Ptrs(K), b, nxt)
    BY <1>2, <1>3, <1>11, <2>2, TailData
  <2>6. /\ heap' \subseteq 1..nxt' /\ events' \in 0..MaxEvents
        /\ job.at # "fill" => Spare(kernels)
    BY <1>8, <1>9 DEF IInv, Basic
  <2>7. Basic'
    BY <1>2, <1>6, <1>8, <1>10, <2>1, <2>3, <2>6 DEF Basic
  <2> QED
    BY <1>6, <1>8, <1>9, <1>10, <2>1, <2>4, <2>5, <2>7
<1>12. CASE ~(Len(kernels) > 1)
  <2>1. Len(kernels) = 1 /\ ks = <<ResetKernel(Whole)>>
    <3>1. Len(kernels) = 1
      <4>1. PICK m : m = Len(kernels)
        OBVIOUS
      <4>2. m \in Nat \ {0} /\ ~(m > 1)
        BY <1>2, <1>12, <4>1
      <4> QED
        BY <4>1, <4>2
    <3>2. ks = <<ResetKernel(Whole)>>
      BY <1>6, <1>10, <1>12
    <3> QED
      BY <3>1, <3>2
  <2>2. IsAlone(ks) /\ Data(ks, 0, 0, heap \ Ptrs(K), b, nxt)
    <3>1. PICK k : k = Whole
      OBVIOUS
    <3> QED
      BY <1>2, <1>3, <1>5, <2>1, <3>1, ResetData
  <2>3. Busy(job') /\ selecting' \in BOOLEAN
    <3>1. CASE job.at = "quit"
      <4>1. PICK j : j = job'
        OBVIOUS
      <4>2. j = [Idle EXCEPT !.at = "gone"] /\ selecting' = selecting
        BY <1>12, <3>1, <4>1 DEF FlushAll
      <4>3. Busy(j)
        BY <4>2, IdleBusy
      <4> QED
        BY <1>2, <4>1, <4>2, <4>3
    <3>2. CASE job.at # "quit"
      <4>1. ReturnDone
        BY <1>12, <3>2 DEF FlushAll
      <4> QED
        BY <1>2, <4>1, DoneFields
    <3> QED
      BY <3>1, <3>2
  <2>4. heap' \subseteq heap /\ wild' \in BOOLEAN
    BY <1>8
  <2>5. Basic' /\ Held(kernels', start', job'.ev)
    BY <1>6, <1>10, <2>2, <2>3, <2>4, EmptyBasic
  <2> QED
    BY <1>6, <1>8, <1>9, <1>10, <2>2, <2>5
<1> QED
  BY <1>11, <1>12

\* flush() returned the sink: the chain ks before AddIfFull.
LEMMA SuspendedStep ==
    ASSUME IInv, open, Flushing, job.at # "quit", NEW ks, Form(ks), NEW st, NEW se,
           Place(ks[1], st, se), Held(ks, st, job.ev), NEW p,
           Data(ks, st, se, heap, p, nxt), ReturnSuspended(AddIfFull(ks)),
           start' = st, sent' = se, UNCHANGED <<heap, wild, events, nxt>>
    PROVE  /\ Basic' /\ Held(kernels', start', job'.ev)
           /\ ~wild' /\ Data(kernels', start', sent', heap', p, nxt')
<1>1. job.at # "gone"
  BY DEF Flushing
<1>2. Busy(job) /\ wild = FALSE /\ selecting \in BOOLEAN
  BY <1>1, OpenFields
<1>3. st \in Nat
  BY DEF Place
<1>4. PICK ks1, ks2, j : ks1 = AddIfFull(ks) /\ ks2 = kernels' /\ j = job'
  OBVIOUS
<1>5. Form(ks1)
  BY <1>4, GrownBasic
<1>6. Settled(ks1, st, ks2, j) /\ selecting' \in BOOLEAN
  BY <1>2, <1>3, <1>4, <1>5, SuspendedFields
<1>7. /\ Form(ks2) /\ Spare(ks2) /\ Place(ks2[1], st, se)
      /\ Held(ks2, st, j.ev) /\ Data(ks2, st, se, heap, p, nxt)
  BY <1>4, <1>6, SettledFields
<1>8. Busy(j)
  BY <1>6 DEF Settled
<1>9. heap' \subseteq 1..nxt' /\ events' \in 0..MaxEvents /\ wild' = FALSE
  BY <1>2 DEF IInv, Basic
<1>10. Basic'
  BY <1>4, <1>6, <1>7, <1>8, <1>9 DEF Basic
<1> QED
  BY <1>4, <1>7, <1>9, <1>10

LEMMA FlushWriteStep ==
    ASSUME IInv, FlushWrite
    PROVE  IInv'
<1>1. /\ open /\ Flushing /\ K.iov # << >> /\ job.at # "gone"
      /\ UNCHANGED <<events, nxt, got, open>>
  BY DEF FlushWrite, Flushing
<1>2. /\ Form(kernels) /\ Place(kernels[1], start, sent)
      /\ Held(kernels, start, job.ev) /\ wild = FALSE
      /\ Data(kernels, start, sent, heap, Len(got) + Len(pipe), nxt)
  BY <1>1, OpenFields
<1>3. PICK p : p = Len(got) + Len(pipe)
  OBVIOUS
<1>4. PICK g, b : IsFirst(g, p, b, nxt)
  BY <1>2, <1>3, FirstFields
<1>5. /\ p \in Nat /\ b \in Nat /\ nxt \in Nat /\ p <= b /\ b <= nxt
      /\ Len(Out) = b - p /\ Needed = b - p
  BY <1>4 DEF IsFirst
<1>6. PICK n \in Taken : /\ pipe' = pipe \o SubSeq(Out, 1, n)
                         /\ FlushAll(n) \/ FlushSome(n)
  BY DEF FlushWrite
<1>7. n \in Nat /\ n <= Room /\ n <= Len(Out) /\ (n = Len(Out) \/ n > 0)
  <2>1. Sent /\ Len(Out) \in Nat
    BY <1>5 DEF IInv
  <2> QED
    BY <2>1, TakenFields
<1>8. IsWritten(n, p)
  <2>1. SubSeq(Out, 1, n) = Numbers(p, n)
    BY <1>4, <1>5, <1>7, FirstBytes
  <2>2. p + n <= nxt
    BY <1>5, <1>7
  <2> QED
    BY <1>3, <1>5, <1>6, <1>7, <2>1, <2>2 DEF IsWritten
<1>9. Sent' /\ Len(got') + Len(pipe') = p + n
  BY <1>1, <1>8, WrittenSent DEF IInv
<1>10. CASE FlushAll(n)
  <2>1. n = b - p
    BY <1>5, <1>7, <1>10 DEF FlushAll
  <2>2. /\ Basic' /\ Held(kernels', start', job'.ev)
        /\ ~wild' /\ Data(kernels', start', sent', heap', p + n, nxt')
    BY <1>1, <1>4, <1>9, <1>10, <2>1, AllStep
  <2> QED
    BY <1>9, <2>2 DEF IInv
<1>11. CASE FlushSome(n)
  <2>1. n < Needed /\ n \in Nat \ {0}
    BY <1>5, <1>7, <1>11 DEF FlushSome
  <2>2. PICK ks, s : /\ ks = [kernels EXCEPT ![1] = Partial(n).kernel]
                     /\ s = Partial(n).start
    OBVIOUS
  <2>3. CASE job.at = "quit"
    <3>1. Destroyed(AddIfFull(ks))
      BY <1>11, <2>2, <2>3 DEF FlushSome
    <3>2. Basic' /\ Held(kernels', start', job'.ev) /\ job'.at = "gone"
      BY <1>1, <3>1, DestroyedFields
    <3> QED
      BY <1>9, <3>2 DEF IInv
  <2>4. CASE job.at # "quit"
    <3>1. IsSome(n, p, nxt, ks, s)
      BY <1>1, <1>2, <1>3, <2>1, <2>2, SomeFields
    <3>2. /\ start' = s /\ sent' = sent + n /\ ReturnSuspended(AddIfFull(ks))
          /\ UNCHANGED <<heap, wild>>
      BY <1>11, <2>2, <2>4 DEF FlushSome
    <3>3. PICK se, q : se = sent + n /\ q = p + n
      OBVIOUS
    <3>4. /\ Form(ks) /\ Place(ks[1], s, se) /\ Held(ks, s, job.ev)
          /\ Data(ks, s, se, heap, q, nxt)
      BY <3>1, <3>3 DEF IsSome
    <3>5. /\ Basic' /\ Held(kernels', start', job'.ev)
          /\ ~wild' /\ Data(kernels', start', sent', heap', q, nxt')
      BY <1>1, <2>4, <3>2, <3>3, <3>4, SuspendedStep
    <3> QED
      BY <1>9, <3>3, <3>5 DEF IInv
  <2> QED
    BY <2>3, <2>4
<1> QED
  BY <1>6, <1>10, <1>11

LEMMA SentSame ==
    ASSUME Sent, UNCHANGED <<nxt, pipe, got, open>>
    PROVE  Sent' /\ Len(got') + Len(pipe') = Len(got) + Len(pipe)
  BY DEF Sent

LEMMA FlushNothingStep ==
    ASSUME IInv, FlushNothing
    PROVE  IInv'
<1>1. /\ Flushing /\ K.iov = << >> /\ job.at # "gone"
      /\ UNCHANGED <<events, nxt, pipe, got, open>>
  BY DEF FlushNothing, Flushing
<1>2. Sent' /\ Len(got') + Len(pipe') = Len(got) + Len(pipe)
  BY <1>1, SentSame DEF IInv
<1>3. CASE job.at = "quit"
  <2>1. Destroyed(kernels)
    BY <1>3 DEF FlushNothing
  <2>2. Basic' /\ Held(kernels', start', job'.ev) /\ job'.at = "gone"
    BY <1>1, <2>1, DestroyedFields
  <2> QED
    BY <1>2, <2>2 DEF IInv
<1>4. CASE job.at # "quit"
  <2>1. ReturnDone /\ UNCHANGED <<kernels, start, sent, heap, wild>>
    BY <1>4 DEF FlushNothing, sinkVars
  <2>2. /\ Form(kernels) /\ Place(kernels[1], start, sent) /\ Busy(job)
        /\ selecting \in BOOLEAN
    BY DEF IInv, Basic
  <2>3. Busy(job') /\ selecting' \in BOOLEAN
    BY <2>1, <2>2, DoneFields
  <2>4. /\ Len(kernels) = 1 /\ kernels[1].iov = << >> /\ start \in Nat
        /\ Spare(kernels)
    <3>1. Size \in Nat \ {0} /\ Len(kernels) \in Nat \ {0} /\ 1 \in 1..Len(kernels)
      BY <2>2, FormFields, SinkAssumption
    <3>2. Len(kernels[1].iov) = 0 /\ kernels[1].iov = << >>
      BY <1>1 DEF K
    <3>3. ~(1 < Len(kernels))
      BY <2>2, <3>1, <3>2 DEF Form
    <3>4. Len(kernels) = 1
      BY <3>1, <3>3
    <3>5. Spare(kernels)
      BY <3>1, <3>2, <3>4 DEF Spare
    <3>6. start \in Nat
      BY <2>2 DEF Place
    <3> QED
      BY <3>2, <3>4, <3>5, <3>6
  <2>5. Held(kernels, start, job'.ev)
    BY <2>4, AloneHeld
  <2>6. heap' \subseteq 1..nxt' /\ events' \in 0..MaxEvents /\ wild' \in BOOLEAN
    BY <1>1, <2>1 DEF IInv, Basic
  <2>7. Basic'
    BY <2>1, <2>2, <2>3, <2>4, <2>6 DEF Basic
  <2>8. open => ~wild /\ Data(kernels, start, sent, heap, Len(got) + Len(pipe), nxt)
    BY <1>1 DEF IInv
  <2> QED
    BY <1>1, <1>2, <2>1, <2>5, <2>7, <2>8 DEF IInv
<1> QED
  BY <1>3, <1>4

LEMMA FlushAgainStep ==
    ASSUME IInv, FlushAgain
    PROVE  IInv'
<1>1. /\ open /\ Flushing /\ job.at # "gone"
      /\ UNCHANGED <<events, nxt, pipe, got, open>>
  BY DEF FlushAgain, Flushing
<1>2. Sent' /\ Len(got') + Len(pipe') = Len(got) + Len(pipe)
  BY <1>1, SentSame DEF IInv
<1>3. CASE job.at = "quit"
  <2>1. Destroyed(AddIfFull(kernels))
    BY <1>3 DEF FlushAgain
  <2>2. Basic' /\ Held(kernels', start', job'.ev) /\ job'.at = "gone"
    BY <1>1, <2>1, DestroyedFields
  <2> QED
    BY <1>2, <2>2 DEF IInv
<1>4. CASE job.at # "quit"
  <2>1. ReturnSuspended(AddIfFull(kernels)) /\ UNCHANGED <<start, sent, heap, wild>>
    BY <1>4 DEF FlushAgain
  <2>2. PICK p : p = Len(got) + Len(pipe)
    OBVIOUS
  <2>3. /\ Form(kernels) /\ Place(kernels[1], start, sent)
        /\ Held(kernels, start, job.ev) /\ Data(kernels, start, sent, heap, p, nxt)
    BY <1>1, <2>2, OpenFields
  <2>4. /\ Basic' /\ Held(kernels', start', job'.ev)
        /\ ~wild' /\ Data(kernels', start', sent', heap', p, nxt')
    BY <1>1, <1>4, <2>1, <2>3, SuspendedStep
  <2> QED
    BY <1>2, <2>2, <2>4 DEF IInv
<1> QED
  BY <1>3, <1>4

LEMMA FlushBrokenStep ==
    ASSUME IInv, FlushBroken
    PROVE  IInv'
<1>1. ~open /\ Flushing /\ UNCHANGED <<events, nxt, pipe, got, open>>
  BY DEF FlushBroken
<1>2. Sent'
  BY <1>1, SentSame DEF IInv
<1>3. Form(kernels) /\ Busy(job) /\ selecting \in BOOLEAN
  BY DEF IInv, Basic
<1>4. PICK ks, k : ks = AddIfFull(kernels) /\ k = Last(ks)
  OBVIOUS
<1>5. k \in Kernel
  <2>1. Form(ks)
    BY <1>3, <1>4, GrownBasic
  <2>2. ks \in Seq(Kernel) /\ Len(ks) \in 1..Len(ks)
    BY <2>1, FormFields
  <2> QED
    BY <1>4, <2>2 DEF Last
<1>6. /\ Free(UNION {FreedByReset(ks[i]) : i \in 1..Len(ks)})
      /\ kernels' = <<ResetKernel(k)>> /\ start' = 0 /\ sent' = 0
  BY <1>4 DEF FlushBroken
<1>7. IsAlone(kernels')
  <2>1. PICK r, ks1 : r = ResetKernel(k) /\ ks1 = kernels'
    OBVIOUS
  <2>2. r \in Kernel /\ r.iov = << >> /\ r.total = 0
    BY <1>5, <2>1, ResetFields
  <2>3. ks1 = <<r>>
    BY <1>6, <2>1
  <2>4. ks1 \in Seq(Kernel) /\ Len(ks1) = 1 /\ ks1[1] = r
    BY <2>2, <2>3
  <2> QED
    BY <2>1, <2>2, <2>4 DEF IsAlone
<1>8. heap' \subseteq heap /\ wild' \in BOOLEAN
  BY <1>6 DEF Free
<1>9. Busy(job') /\ selecting' \in BOOLEAN
  <2>1. CASE job.at = "quit"
    <3>1. PICK j : j = job'
      OBVIOUS
    <3>2. j = [Idle EXCEPT !.at = "gone"] /\ selecting' = selecting
      BY <2>1, <3>1 DEF FlushBroken
    <3>3. Busy(j)
      BY <3>2, IdleBusy
    <3> QED
      BY <1>3, <3>1, <3>2, <3>3
  <2>2. CASE job.at # "quit"
    <3>1. ReturnDone
      BY <2>2 DEF FlushBroken
    <3> QED
      BY <1>3, <3>1, DoneFields
  <2> QED
    BY <2>1, <2>2
<1>10. Basic'
  BY <1>1, <1>6, <1>7, <1>8, <1>9, EmptyBasic
<1> QED
  BY <1>1, <1>2, <1>10 DEF IInv

LEMMA FlushErrorStep ==
    ASSUME IInv, FlushError
    PROVE  IInv'
<1>1. ~open /\ Flushing /\ UNCHANGED <<events, nxt, pipe, got, open>>
  BY DEF FlushError
<1>2. Sent'
  BY <1>1, SentSame DEF IInv
<1>3. CASE job.at = "quit"
  <2>1. Destroyed(AddIfFull(kernels))
    BY <1>3 DEF FlushError
  <2>2. Basic'
    BY <1>1, <2>1, DestroyedFields
  <2> QED
    BY <1>1, <1>2, <2>2 DEF IInv
<1>4. CASE job.at # "quit"
  <2>1. /\ kernels' = AddIfFull(kernels) /\ ReturnDone
        /\ UNCHANGED <<start, sent, heap, wild>>
    BY <1>4 DEF FlushError
  <2>2. /\ Form(kernels) /\ Place(kernels[1], start, sent) /\ Busy(job)
        /\ selecting \in BOOLEAN
    BY DEF IInv, Basic
  <2>3. PICK ks : ks = kernels'
    OBVIOUS
  <2>4. Form(ks) /\ Spare(ks) /\ ks[1] = kernels[1]
    BY <2>1, <2>2, <2>3, GrownBasic
  <2>5. Busy(job') /\ selecting' \in BOOLEAN
    BY <2>1, <2>2, DoneFields
  <2>6. heap' \subseteq 1..nxt' /\ events' \in 0..MaxEvents /\ wild' \in BOOLEAN
    BY <1>1, <2>1 DEF IInv, Basic
  <2>7. Basic'
    BY <2>1, <2>2, <2>3, <2>4, <2>5, <2>6 DEF Basic
  <2> QED
    BY <1>1, <1>2, <2>7 DEF IInv
<1> QED
  BY <1>3, <1>4

\* A step that gives the sink's owner something else to do.
LEMMA JobStep ==
    ASSUME IInv, UNCHANGED <<kernels, start, sent, heap, wild, nxt, selecting, pipe,
                             got, open>>,
           job.at = "idle", NEW j, j = job', Busy(j), j.at # "fill",
           events' \in 0..MaxEvents
    PROVE  IInv'
<1>1. Sent' /\ Len(got') + Len(pipe') = Len(got) + Len(pipe)
  BY SentSame DEF IInv
<1>2. Basic'
  BY DEF IInv, Basic
<1>3. job.ev = 0 /\ Form(kernels) /\ Place(kernels[1], start, sent)
  BY DEF IInv, Basic, Busy
<1>4. open => Held(kernels, start, job'.ev)
  <2> SUFFICES ASSUME open, NEW i \in 1..Len(kernels),
                      NEW m \in (From(i, start) + 1)..Len(kernels[i].iov),
                      kernels[i].iov[m].type = "HOLD"
               PROVE  \E l \in i..Len(kernels) :
                         kernels[i].iov[m].ev \in Range(kernels[l].final)
    BY DEF Held
  <2>1. Held(kernels, start, 0)
    BY <1>3 DEF IInv
  <2>2. kernels[i].iov[m].ev # 0
    <3>1. From(i, start) \in Nat /\ Len(kernels[i].iov) \in Nat
      BY <1>3, FormFields, KernelFields, PlaceFields
    <3>2. m \in 1..Len(kernels[i].iov)
      BY <3>1
    <3> QED
      BY <1>3, <3>2 DEF Form
  <2> QED
    BY <2>1, <2>2 DEF Held
<1>5. open => ~wild /\ Data(kernels, start, sent, heap, Len(got) + Len(pipe), nxt)
  BY DEF IInv
<1> QED
  BY <1>1, <1>2, <1>4, <1>5 DEF IInv

LEMMA SendEventStep ==
    ASSUME IInv, NEW shape \in Shapes, NEW can \in BOOLEAN, SendEvent(shape, can)
    PROVE  IInv'
<1>1. PICK at, ev, j : at = "put" /\ ev = events + 1 /\ j = job'
  OBVIOUS
<1>2. /\ job.at = "idle" /\ events < MaxEvents /\ events' = ev
      /\ j = [at |-> at, rest |-> shape, ev |-> ev, can |-> can]
      /\ UNCHANGED <<kernels, start, sent, heap, wild, nxt, selecting, pipe, got, open>>
  BY <1>1 DEF SendEvent, sinkVars
<1>3. ev \in 0..MaxEvents /\ ev # 0
  <2>1. events \in 0..MaxEvents /\ MaxEvents \in Nat
    BY SinkAssumption DEF IInv, Basic
  <2> QED
    BY <1>1, <1>2, <2>1
<1>4. /\ shape \in Seq(Part) /\ shape # << >>
      /\ \A i \in 1..Len(shape) : shape[i].type = "FREE" => shape[i].len > 0
  BY SinkAssumption DEF Part
<1>5. May(at, shape, ev, can)
  BY <1>1, <1>3, <1>4 DEF May
<1>6. Busy(j) /\ IsJob(j, at, shape, ev, can)
  BY <1>2, <1>5, IsBusy
<1>7. j.at # "fill"
  BY <1>1, <1>6 DEF IsJob
<1> QED
  BY <1>1, <1>2, <1>3, <1>6, <1>7, JobStep

LEMMA ResumeStep ==
    ASSUME IInv, Resume \/ Destroy
    PROVE  IInv'
<1>1. PICK j : j = job'
  OBVIOUS
<1>2. /\ job.at = "idle"
      /\ UNCHANGED <<kernels, start, sent, heap, wild, events, nxt, selecting, pipe,
                     got, open>>
  BY DEF Resume, Destroy, sinkVars
<1>3. PICK at \in {"resume", "quit"} : j = [Idle EXCEPT !.at = at]
  BY <1>1 DEF Resume, Destroy
<1>4. Busy(j) /\ j.at = at
  BY <1>3, IdleBusy
<1>5. events' \in 0..MaxEvents
  BY <1>2 DEF IInv, Basic
<1> QED
  BY <1>1, <1>2, <1>4, <1>5, JobStep

LEMMA ReadStep ==
    ASSUME IInv, Read
    PROVE  IInv'
<1>1. /\ open /\ pipe # << >> /\ got' = Append(got, Head(pipe)) /\ pipe' = Tail(pipe)
      /\ UNCHANGED <<kernels, start, sent, heap, wild, job, events, nxt, selecting, open>>
  BY DEF Read, sinkVars
<1>2. /\ pipe \in Seq(Nat) /\ got \in Seq(Nat) /\ nxt \in Nat /\ open \in BOOLEAN
      /\ Len(pipe) <= Cap /\ Len(got) + Len(pipe) <= nxt /\ Cap \in Nat
      /\ \A i \in 1..Len(pipe) : pipe[i] = Len(got) + i
  BY SinkAssumption DEF IInv, Sent
<1>3. Len(pipe) \in Nat \ {0} /\ Len(got) \in Nat
  BY <1>1, <1>2
<1>4. /\ got' \in Seq(Nat) /\ Len(got') = Len(got) + 1
      /\ pipe' \in Seq(Nat) /\ Len(pipe') = Len(pipe) - 1
      /\ \A i \in 1..Len(pipe') : pipe'[i] = pipe[i + 1]
  BY <1>1, <1>2, <1>3
<1>5. Len(got') + Len(pipe') = Len(got) + Len(pipe) /\ Len(pipe') <= Cap
  BY <1>2, <1>3, <1>4
<1>6. ASSUME NEW i \in 1..Len(pipe') PROVE pipe'[i] = Len(got') + i
  <2>1. i + 1 \in 1..Len(pipe) /\ pipe'[i] = pipe[i + 1]
    BY <1>3, <1>4
  <2>2. pipe'[i] = Len(got) + (i + 1)
    BY <1>2, <2>1
  <2> QED
    BY <1>3, <1>4, <2>2
<1>7. Sent'
  BY <1>1, <1>2, <1>4, <1>5, <1>6 DEF Sent
<1>8. Basic'
  BY <1>1 DEF IInv, Basic
<1> QED
  BY <1>1, <1>5, <1>7, <1>8 DEF IInv

LEMMA ReaderGoneStep ==
    ASSUME IInv, ReaderGone
    PROVE  IInv'
<1>1. /\ open' = FALSE /\ pipe' = << >>
      /\ UNCHANGED <<kernels, start, sent, heap, wild, job, events, nxt, selecting, got>>
  BY DEF ReaderGone, sinkVars
<1>2. /\ got \in Seq(Nat) /\ nxt \in Nat /\ pipe \in Seq(Nat) /\ Cap \in Nat
      /\ Len(got) + Len(pipe) <= nxt
  BY SinkAssumption DEF IInv, Sent
<1>3. Len(got) + 0 <= nxt
  BY <1>2
<1>4. Sent'
  <2>1. /\ pipe' \in Seq(Nat) /\ Len(pipe') = 0 /\ got' \in Seq(Nat)
        /\ nxt' \in Nat /\ Len(pipe') <= Cap
    BY <1>1, <1>2
  <2>2. Len(got') + Len(pipe') <= nxt' /\ \A i \in 1..Len(pipe') : FALSE
    BY <1>1, <1>3, <2>1
  <2>3. open' \in BOOLEAN /\ pipe' = << >>
    BY <1>1
  <2> QED
    BY <2>1, <2>2, <2>3 DEF Sent
<1>5. Basic'
  BY <1>1 DEF IInv, Basic
<1> QED
  BY <1>1, <1>4, <1>5 DEF IInv

LEMMA InitIInv ==
    ASSUME Init
    PROVE  IInv
<1>1. IsAlone(kernels) /\ kernels[1].holder = 0
  BY EmptyAlone, EmptyFields DEF Init
<1>2. Form(kernels) /\ Spare(kernels) /\ Place(kernels[1], 0, 0)
  BY <1>1, AloneForm
<1>3. Busy(job)
  BY IdleFields DEF Init
<1>4. Basic
  <2>1. start = 0 /\ sent = 0
    BY DEF Init
  <2>2. heap \subseteq 1..nxt /\ events \in 0..MaxEvents
    BY SinkAssumption DEF Init
  <2>3. wild \in BOOLEAN /\ selecting \in BOOLEAN
    BY DEF Init
  <2> QED
    BY <1>2, <1>3, <2>1, <2>2, <2>3 DEF Basic
<1>5. Sent
  BY SinkAssumption DEF Init, Sent
<1>6. Held(kernels, 0, job.ev)
  BY <1>1, AloneHeld DEF IsAlone
<1>7. Data(kernels, 0, 0, {}, 0, 0)
  BY <1>1, AloneData
<1>8. Len(got) + Len(pipe) = 0 /\ start = 0 /\ sent = 0 /\ heap = {} /\ nxt = 0 /\ ~wild
  BY DEF Init
<1> QED
  BY <1>4, <1>5, <1>6, <1>7, <1>8 DEF IInv

LEMMA NextIInv ==
    ASSUME IInv, [Next]_vars
    PROVE  IInv'
<1>1. CASE UNCHANGED vars
  <2>1. UNCHANGED <<kernels, start, sent, job, events, nxt, heap, wild, selecting,
                    pipe, got, open>>
    BY <1>1 DEF vars
  <2>2. Sent' /\ Basic'
    BY <2>1, SentSame DEF IInv, Basic
  <2> QED
    BY <2>1, <2>2 DEF IInv
<1>2. ASSUME NEW shape \in Shapes, NEW can \in BOOLEAN, SendEvent(shape, can)
      PROVE  IInv'
  BY <1>2, SendEventStep
<1>3. CASE Write
  BY <1>3, WriteStep
<1>4. CASE Flush
  BY <1>4, FlushNothingStep, FlushWriteStep, FlushAgainStep, FlushBrokenStep,
     FlushErrorStep DEF Flush
<1>5. CASE Resume \/ Destroy
  BY <1>5, ResumeStep
<1>6. CASE Read
  BY <1>6, ReadStep
<1>7. CASE ReaderGone
  BY <1>7, ReaderGoneStep
<1> QED
  BY <1>1, <1>2, <1>3, <1>4, <1>5, <1>6, <1>7 DEF Next

-----------------------------------------------------------------------------
(* The sink implements a stream.                                           *)

LEMMA SuspendedJob ==
    ASSUME Busy(job), Flushing, job.at # "quit", NEW ks, ReturnSuspended(ks)
    PROVE  job'.at \notin {"quit", "gone"}
<1>1. job \in Job /\ job.at \in {"fill", "last", "spin", "resume"}
  BY DEF Flushing, Busy
<1>2. job.can \in BOOLEAN /\ (job.at = "spin" => ~job.can)
  BY BusyFields DEF Busy
<1>3. \/ job' = [job EXCEPT !.at = IF job.rest = << >> THEN "last" ELSE "put"]
      \/ job' = [job EXCEPT !.at = "spin"]
      \/ job' = Idle
  BY <1>1, <1>2 DEF ReturnSuspended, SendSuspended, ResumeSuspended
<1> QED
  BY <1>1, <1>3, IdleFields DEF Job

\* flush() does not change whether the connection is given up.
LEMMA FlushJob ==
    ASSUME IInv, Flush
    PROVE  /\ job'.at \in {"quit", "gone"} <=> job.at \in {"quit", "gone"}
           /\ UNCHANGED <<nxt, got, open>>
<1>1. Busy(job) /\ Flushing
  BY DEF IInv, Basic, Flush, FlushNothing, FlushWrite, FlushAgain, FlushBroken,
         FlushError
<1>2. UNCHANGED <<nxt, got, open>>
  BY DEF Flush, FlushNothing, FlushWrite, FlushAgain, FlushBroken, FlushError
<1>3. CASE job.at = "quit"
  <2>1. job' = job \/ job' = [Idle EXCEPT !.at = "gone"]
    BY <1>3 DEF Flush, FlushNothing, FlushWrite, FlushAll, FlushSome, FlushAgain,
                FlushBroken, FlushError, Destroyed
  <2>2. job'.at \in {"quit", "gone"}
    <3>1. PICK j : j = job'
      OBVIOUS
    <3>2. CASE j = [Idle EXCEPT !.at = "gone"]
      <4>1. j.at = "gone"
        BY <3>2, IdleBusy
      <4> QED
        BY <3>1, <4>1
    <3>3. CASE job' = job
      BY <1>3, <3>3
    <3> QED
      BY <2>1, <3>1, <3>2, <3>3
  <2> QED
    BY <1>2, <1>3, <2>2
<1>4. CASE job.at # "quit"
  <2>1. job.at \notin {"quit", "gone"}
    BY <1>1, <1>4 DEF Flushing
  <2>2. \/ job' = job
        \/ ReturnDone
        \/ \E ks : ReturnSuspended(ks)
    BY <1>4 DEF Flush, FlushNothing, FlushWrite, FlushAll, FlushSome, FlushAgain,
                FlushBroken, FlushError
  <2>3. job'.at \notin {"quit", "gone"}
    <3>1. CASE job' = job
      BY <2>1, <3>1
    <3>2. CASE ReturnDone
      BY <1>1, <3>2, DoneFields
    <3>3. CASE \E ks : ReturnSuspended(ks)
      BY <1>1, <1>4, <3>3, SuspendedJob
    <3> QED
      BY <2>2, <3>1, <3>2, <3>3
  <2> QED
    BY <1>2, <2>1, <2>3
<1> QED
  BY <1>3, <1>4

\* The steps of Stream that the sink may take, liveness apart.
StreamSteps == Abstract!Init /\ [][Abstract!Next]_(Abstract!vars)

LEMMA InitStream ==
    ASSUME Init
    PROVE  Abstract!Init
<1>1. nxt = 0 /\ got = << >> /\ open = TRUE /\ job.at = "idle"
  BY IdleFields DEF Init
<1> QED
  BY <1>1 DEF Abstract!Init

LEMMA NextStream ==
    ASSUME IInv, [Next]_vars
    PROVE  [Abstract!Next]_(Abstract!vars)
<1> DEFINE up == open /\ job.at \notin {"quit", "gone"}
<1>1. Busy(job) /\ open \in BOOLEAN /\ nxt \in Nat
  BY DEF IInv, Basic, Sent
<1>2. ASSUME nxt' = nxt, got' = got, up' <=> up
      PROVE  UNCHANGED Abstract!vars
  <2>1. up' = up
    BY <1>2, Zenon
  <2> QED
    BY <1>2, <2>1 DEF Abstract!vars
<1>3. CASE UNCHANGED vars
  BY <1>2, <1>3 DEF vars
<1>4. ASSUME NEW shape \in Shapes, NEW can \in BOOLEAN, SendEvent(shape, can)
      PROVE  UNCHANGED Abstract!vars
  <2>1. /\ job.at = "idle" /\ UNCHANGED <<nxt, got, open>>
        /\ job' = [at |-> "put", rest |-> shape, ev |-> events + 1, can |-> can]
    BY <1>4 DEF SendEvent
  <2>2. job'.at = "put"
    BY <2>1
  <2> QED
    BY <1>2, <2>1, <2>2
<1>5. CASE Write
  <2>1. job.at = "put" /\ UNCHANGED <<got, open>>
    BY <1>5 DEF Write
  <2>2. PICK l : l = Head(job.rest).len
    OBVIOUS
  <2>3. nxt' = nxt + l /\ l \in Nat
    <3>1. job.rest \in Seq(Part) /\ job.rest # << >>
      BY <1>1, <2>1, BusyFields DEF Busy
    <3>2. Head(job.rest) \in Part
      BY <3>1
    <3> QED
      BY <1>5, <2>2, <3>2 DEF Write, Part
  <2>4. job'.at \in {"fill", "last", "put"}
    <3>1. job \in Job
      BY <1>1 DEF Busy
    <3>2. \E at \in {"fill", "last", "put"} :
             job' = [job EXCEPT !.rest = Tail(@), !.at = at]
      BY <1>5 DEF Write
    <3> QED
      BY <3>1, <3>2 DEF Job
  <2>5. up' <=> up
    BY <2>1, <2>4
  <2>6. CASE l = 0
    <3>1. nxt' = nxt
      BY <1>1, <2>3, <2>6
    <3> QED
      BY <1>2, <2>1, <2>5, <3>1
  <2>7. CASE l # 0
    <3>1. nxt' > nxt /\ nxt' = nxt + (nxt' - nxt)
      BY <1>1, <2>3, <2>7
    <3>2. up' = up
      BY <2>5, Zenon
    <3>3. Abstract!Put(nxt' - nxt)
      BY <2>1, <3>1, <3>2 DEF Abstract!Put
    <3> QED
      BY <3>1, <3>3 DEF Abstract!Next
  <2> QED
    BY <2>6, <2>7
<1>6. CASE Flush
  BY <1>2, <1>6, FlushJob
<1>7. CASE Resume
  <2>1. /\ job.at = "idle" /\ job' = [Idle EXCEPT !.at = "resume"]
        /\ UNCHANGED <<nxt, got, open>>
    BY <1>7 DEF Resume
  <2>2. job'.at = "resume"
    BY <2>1, IdleFields DEF Idle
  <2> QED
    BY <1>2, <2>1, <2>2
<1>8. ASSUME nxt' = nxt, got' = got, up, ~up' PROVE Abstract!Next
  <2>1. up' = FALSE
    BY <1>8, Zenon
  <2> QED
    BY <1>8, <2>1 DEF Abstract!Next, Abstract!Break
<1>9. CASE Destroy
  <2>1. /\ job.at = "idle" /\ job' = [Idle EXCEPT !.at = "quit"]
        /\ UNCHANGED <<nxt, got, open>>
    BY <1>9 DEF Destroy
  <2>2. job'.at = "quit"
    BY <2>1, IdleFields DEF Idle
  <2> QED
    BY <1>2, <1>8, <2>1, <2>2
<1>10. CASE Read
  <2>1. /\ pipe # << >> /\ got' = Append(got, Head(pipe))
        /\ UNCHANGED <<nxt, job, open>>
    BY <1>10 DEF Read
  <2>2. /\ pipe \in Seq(Nat) /\ got \in Seq(Nat) /\ Len(got) + Len(pipe) <= nxt
        /\ \A i \in 1..Len(pipe) : pipe[i] = Len(got) + i
    BY DEF IInv, Sent
  <2>3. Head(pipe) = Len(got) + 1 /\ Len(got) < nxt
    <3>1. Len(pipe) \in Nat \ {0} /\ Len(got) \in Nat /\ Head(pipe) = pipe[1]
      BY <2>1, <2>2
    <3> QED
      BY <1>1, <2>2, <3>1
  <2>4. up' = up
    BY <2>1
  <2> QED
    BY <2>1, <2>3, <2>4 DEF Abstract!Next, Abstract!Deliver
<1>11. CASE ReaderGone
  <2>1. open' = FALSE /\ UNCHANGED <<nxt, got, job>>
    BY <1>11 DEF ReaderGone
  <2> QED
    BY <1>2, <1>8, <2>1
<1> QED
  BY <1>3, <1>4, <1>5, <1>6, <1>7, <1>9, <1>10, <1>11 DEF Next

-----------------------------------------------------------------------------
(* The theorems.                                                           *)

LEMMA Invariant == Spec => []IInv
<1>1. Init => IInv
  BY InitIInv
<1>2. IInv /\ [Next]_vars => IInv'
  BY NextIInv
<1> QED
  BY <1>1, <1>2, PTL DEF Spec

\* Whatever the descriptor takes of each writev(), and whatever events are
\* sent, write() never puts a bucket past the end of a kernel's array, and
\* flush() never takes start past the buckets of the first kernel nor sent
\* past its bytes.
THEOREM TypeCorrect == Spec => []TypeOK
<1>1. ASSUME IInv PROVE TypeOK
  <2>1. /\ Form(kernels) /\ Place(kernels[1], start, sent) /\ Busy(job)
        /\ heap \subseteq 1..nxt /\ events \in 0..MaxEvents
        /\ wild \in BOOLEAN /\ selecting \in BOOLEAN
    BY <1>1 DEF IInv, Basic
  <2>2. kernels \in Seq(Kernel) /\ kernels # << >>
    BY <2>1 DEF Form
  <2>3. \A i \in 1..Len(kernels) : Len(kernels[i].iov) <= Size
    BY <2>1 DEF Form
  <2>4. start \in Nat /\ (start = 0 \/ start < Len(K.iov)) /\ sent \in 0..K.total
    BY <2>1 DEF Place, K
  <2>5. job \in Job
    BY <2>1 DEF Busy
  <2>6. /\ nxt \in Nat /\ open \in BOOLEAN /\ Len(pipe) <= Cap
        /\ pipe \in Seq(Nat) /\ got \in Seq(Nat) /\ Len(got) + Len(pipe) <= nxt
        /\ \A i \in 1..Len(pipe) : pipe[i] = Len(got) + i
    BY <1>1 DEF IInv, Sent
  <2>7. \A i \in 1..Len(pipe) : pipe[i] \in 0..nxt
    BY <2>6
  <2> QED
    BY <2>1, <2>2, <2>3, <2>4, <2>5, <2>6, <2>7 DEF TypeOK, Kernel, Job, Part
<1> QED
  BY <1>1, Invariant, PTL

\* A bucket that points to memory of the event's value waits only while the
\* value is in use: SendSuspended() ties it to the last kernel, and no kernel
\* is reset before the ones ahead of it.
THEOREM HeldCorrect == Spec => []HeldUntilWritten
<1>1. ASSUME IInv PROVE HeldUntilWritten
  <2>1. \A i : (IF i = 1 THEN start + 1 ELSE 1) = From(i, start) + 1
    BY DEF From
  <2>2. open => Held(kernels, start, job.ev)
    BY <1>1 DEF IInv
  <2> QED
    BY <2>1, <2>2 DEF HeldUntilWritten, Held
<1> QED
  BY <1>1, Invariant, PTL

\* However many partial writes stop in a FREE bucket, the base next() and
\* reset() free is the one the buffer was allocated with, each once, and
\* those still allocated are the ones the chain would free.
THEOREM FreesCorrect == Spec => []FreesRight
<1>1. ASSUME IInv PROVE FreesRight
  <2> SUFFICES ASSUME open, job.at # "gone"
               PROVE  /\ ~wild
                      /\ heap = UNION {Ptrs(kernels[i]) : i \in 1..Len(kernels)}
    BY DEF FreesRight, Ptrs, Orig, FreeIn
  <2>1. ~wild /\ Owned(kernels, heap)
    BY <1>1 DEF IInv, Data
  <2> QED
    BY <2>1 DEF Owned
<1> QED
  BY <1>1, Invariant, PTL

\* Every step of the sink is a step of Stream or leaves Stream's state alone:
\* the reader gets the bytes that were put, each once, unaltered and in
\* order, through any number of partial writes, suspended and resumed events.
THEOREM StreamCorrect == Spec => StreamSteps
<1>1. Init => Abstract!Init
  BY InitStream
<1>2. IInv /\ [Next]_vars => [Abstract!Next]_(Abstract!vars)
  BY NextStream
<1> QED
  BY <1>1, <1>2, Invariant, PTL DEF Spec, StreamSteps

\* What Stream's steps come to: the bytes read are the first ones put.
Delivered ==
    /\ got \in Seq(Nat) /\ Len(got) <= nxt
    /\ \A i \in 1..Len(got) : got[i] = i

LEMMA StepDelivers ==
    ASSUME Delivered, nxt \in Nat, nxt' \in Nat,
           [Abstract!Next]_(Abstract!vars)
    PROVE  Delivered'
<1>1. Len(got) \in Nat /\ got \in Seq(Nat) /\ Len(got) <= nxt
  BY DEF Delivered
<1>2. CASE UNCHANGED Abstract!vars
  BY <1>2 DEF Abstract!vars, Delivered
<1>3. CASE nxt' > nxt /\ Abstract!Put(nxt' - nxt)
  <2>1. got' = got /\ Len(got) <= nxt'
    BY <1>1, <1>3 DEF Abstract!Put
  <2> QED
    BY <2>1 DEF Delivered
<1>4. CASE Abstract!Deliver
  <2>1. Len(got) < nxt /\ got' = Append(got, Len(got) + 1) /\ nxt' = nxt
    BY <1>4 DEF Abstract!Deliver
  <2>2. /\ got' \in Seq(Nat) /\ Len(got') = Len(got) + 1
        /\ got'[Len(got) + 1] = Len(got) + 1
        /\ \A i \in 1..Len(got) : got'[i] = got[i]
    BY <1>1, <2>1
  <2>3. Len(got') <= nxt'
    BY <1>1, <2>1, <2>2
  <2>4. ASSUME NEW i \in 1..Len(got') PROVE got'[i] = i
    <3>1. i \in 1..Len(got) \/ i = Len(got) + 1
      BY <1>1, <2>2
    <3> QED
      BY <2>2, <3>1 DEF Delivered
  <2> QED
    BY <2>2, <2>3, <2>4 DEF Delivered
<1>5. CASE Abstract!Break
  <2>1. got' = got /\ nxt' = nxt
    BY <1>5 DEF Abstract!Break
  <2> QED
    BY <2>1 DEF Delivered
<1> QED
  BY <1>2, <1>3, <1>4, <1>5 DEF Abstract!Next

\* The reader has, at any time, exactly the first bytes that were put: none
\* is lost, repeated, altered or overtaken by a later one on its way through
\* the kernels and the descriptor, even if either end closes.
THEOREM AlwaysDelivered == Spec => []Delivered
<1>1. Init => Delivered
  BY DEF Init, Delivered
<1>2. ASSUME IInv, IInv', [Next]_vars, Delivered PROVE Delivered'
  <2>1. nxt \in Nat /\ nxt' \in Nat
    BY <1>2 DEF IInv, Sent
  <2>2. [Abstract!Next]_(Abstract!vars)
    BY <1>2, NextStream
  <2> QED
    BY <1>2, <2>1, <2>2, StepDelivers
<1> QED
  BY <1>1, <1>2, Invariant, PTL DEF Spec

=============================================================================
