-------------------------- MODULE TaskOrderProofs --------------------------
(***************************************************************************)
(* Proofs about Task: what a client is sent arrives in order and complete, *)
(* a Task is kept until its client is established, and a client that exits *)
(* cleanly is heard to the end.                                            *)
(*                                                                         *)
(* The argument for the order: the events in got, on the way (the wire, or *)
(* pending_events before there is a channel) and in the bundle are, one    *)
(* after the other, the events sent, until the channel is closed; nothing  *)
(* is put on the wire after that, and a channel is set only once.          *)
(***************************************************************************)
EXTENDS TaskProofs, SequenceTheorems

-----------------------------------------------------------------------------
(* Numbered events in sequences.                                           *)

\* The events of s are a + 1, a + 2, ..., or if s is sealed, the last one
\* may be "terminate".
Placed(s, a, sealed) ==
    \A j \in 1..Len(s) : \/ s[j] = a + j
                         \/ sealed /\ s[j] = Terminate /\ j = Len(s)

\* The events of the messages ms are a + 1, ..., b; f[i] is the number of
\* the last one in the first i messages.
Chain(ms, a, b, sealed) ==
    \E f \in [0..Len(ms) -> Nat] :
        /\ f[0] = a /\ f[Len(ms)] = b
        /\ \A i \in 1..Len(ms) :
              /\ f[i] = f[i - 1] + Len(ms[i].evs)
              /\ Placed(ms[i].evs, f[i - 1], sealed /\ i = Len(ms))

LEMMA ChainEmpty ==
    ASSUME NEW a \in Nat, NEW s \in BOOLEAN
    PROVE  Chain(<< >>, a, a, s)
<1> DEFINE f == [i \in 0..0 |-> a]
<1>1. f \in [0..Len(<< >>) -> Nat] /\ f[0] = a /\ Len(<< >>) = 0
  OBVIOUS
<1> HIDE DEF f
<1>2. \A i \in 1..Len(<< >>) :
        /\ f[i] = f[i - 1] + Len((<< >>)[i].evs)
        /\ Placed((<< >>)[i].evs, f[i - 1], s /\ i = Len(<< >>))
  BY <1>1
<1> QED
  BY <1>1, <1>2 DEF Chain

LEMMA ChainAppend ==
    ASSUME NEW ms \in Seq(Message), NEW m \in Message, NEW a \in Nat,
           NEW b \in Nat, NEW s \in BOOLEAN,
           Chain(ms, a, b, FALSE), Placed(m.evs, b, s)
    PROVE  Chain(Append(ms, m), a, b + Len(m.evs), s)
<1> DEFINE ns == Append(ms, m)
           l == Len(ms)
<1>1. PICK f \in [0..l -> Nat] :
        /\ f[0] = a /\ f[l] = b
        /\ \A i \in 1..l : /\ f[i] = f[i - 1] + Len(ms[i].evs)
                           /\ Placed(ms[i].evs, f[i - 1], FALSE)
  BY DEF Chain
<1>2. /\ l \in Nat /\ Len(ns) = l + 1 /\ ns[l + 1] = m
      /\ \A i \in 1..l : ns[i] = ms[i]
  BY AppendProperties
<1>3. Len(m.evs) \in Nat
  BY DEF Message
<1> DEFINE g == [i \in 0..l + 1 |-> IF i = l + 1 THEN b + Len(m.evs) ELSE f[i]]
<1> HIDE DEF ns
<1>4. g \in [0..Len(ns) -> Nat]
  BY <1>2, <1>3
<1>5. g[0] = a /\ g[Len(ns)] = b + Len(m.evs)
  BY <1>1, <1>2
<1>6. ASSUME NEW i \in 1..Len(ns)
      PROVE  /\ g[i] = g[i - 1] + Len(ns[i].evs)
             /\ Placed(ns[i].evs, g[i - 1], s /\ i = Len(ns))
  <2>1. CASE i = l + 1
    <3>1. g[i] = b + Len(m.evs) /\ g[i - 1] = b /\ ns[i] = m
      BY <1>1, <1>2, <2>1
    <3> QED
      BY <1>2, <2>1, <3>1 DEF Placed
  <2>2. CASE i # l + 1
    <3>1. i \in 1..l /\ i - 1 \in 0..l /\ ns[i] = ms[i]
      BY <1>2, <2>2
    <3>2. g[i] = f[i] /\ g[i - 1] = f[i - 1]
      BY <1>2, <3>1
    <3>3. Placed(ms[i].evs, f[i - 1], FALSE)
      BY <1>1, <3>1
    <3> QED
      BY <1>1, <3>1, <3>2, <3>3 DEF Placed
  <2> QED
    BY <2>1, <2>2
<1> HIDE DEF g
<1>7. Chain(ns, a, b + Len(m.evs), s)
  BY <1>4, <1>5, <1>6 DEF Chain
<1> QED
  BY <1>7 DEF ns

LEMMA ChainSeal ==
    ASSUME NEW ms \in Seq(Message), NEW a \in Nat, NEW b \in Nat,
           Chain(ms, a, b, FALSE)
    PROVE  Chain(ms, a, b, TRUE)
  BY DEF Chain, Placed

\* Reading the first message.
LEMMA ChainHead ==
    ASSUME NEW ms \in Seq(Message), ms # << >>, NEW a \in Nat, NEW b \in Nat,
           NEW s \in BOOLEAN, Chain(ms, a, b, s)
    PROVE  /\ Placed(Head(ms).evs, a, s /\ Tail(ms) = << >>)
           /\ Chain(Tail(ms), a + Len(Head(ms).evs), b, s)
<1> DEFINE ns == Tail(ms)
           l == Len(ms)
           e == Len(Head(ms).evs)
<1>1. PICK f \in [0..l -> Nat] :
        /\ f[0] = a /\ f[l] = b
        /\ \A i \in 1..l : /\ f[i] = f[i - 1] + Len(ms[i].evs)
                           /\ Placed(ms[i].evs, f[i - 1], s /\ i = l)
  BY DEF Chain
<1>2. /\ l \in Nat \ {0} /\ Len(ns) = l - 1 /\ Head(ms) = ms[1]
      /\ \A i \in 1..Len(ns) : ns[i] = ms[i + 1]
      /\ ns \in Seq(Message) /\ ms[1] \in Message
  BY HeadTailProperties, EmptySeq
<1>3. e \in Nat
  BY <1>2 DEF Message
<1>4. Placed(Head(ms).evs, a, s /\ ns = << >>)
  <2>1. Placed(ms[1].evs, a, s /\ 1 = l)
    <3>1. 1 \in 1..l /\ 1 - 1 = 0
      BY <1>2
    <3>2. Placed(ms[1].evs, f[1 - 1], s /\ 1 = l)
      BY <1>1, <3>1
    <3> QED
      BY <1>1, <3>1, <3>2
  <2>2. 1 = l <=> ns = << >>
    BY <1>2, EmptySeq
  <2> QED
    BY <1>2, <2>1, <2>2
<1> DEFINE g == [i \in 0..Len(ns) |-> f[i + 1]]
<1> HIDE DEF ns
<1>5. g \in [0..Len(ns) -> Nat]
  BY <1>2
<1>6. g[0] = a + e /\ g[Len(ns)] = b
  <2>1. 1 \in 1..l /\ 1 - 1 = 0
    BY <1>2
  <2>2. f[1] = f[1 - 1] + Len(ms[1].evs)
    BY <1>1, <2>1
  <2>3. g[0] = f[1] /\ g[Len(ns)] = f[l]
    BY <1>2
  <2> QED
    BY <1>1, <1>2, <2>1, <2>2, <2>3
<1>7. ASSUME NEW i \in 1..Len(ns)
      PROVE  /\ g[i] = g[i - 1] + Len(ns[i].evs)
             /\ Placed(ns[i].evs, g[i - 1], s /\ i = Len(ns))
  <2>1. /\ i + 1 \in 1..l /\ ns[i] = ms[i + 1] /\ (i + 1) - 1 = i
        /\ i = Len(ns) <=> i + 1 = l
    BY <1>2
  <2>2. g[i] = f[i + 1] /\ g[i - 1] = f[i]
    BY <1>2
  <2>3. f[i + 1] = f[i] + Len(ms[i + 1].evs)
        /\ Placed(ms[i + 1].evs, f[i], s /\ i + 1 = l)
    BY <1>1, <2>1
  <2> QED
    BY <2>1, <2>2, <2>3
<1> HIDE DEF g
<1>8. Chain(ns, a + e, b, s)
  BY <1>5, <1>6, <1>7 DEF Chain
<1> QED
  BY <1>4, <1>8 DEF ns

\* What is read goes behind what has been read.
LEMMA PlacedConcat ==
    ASSUME NEW g \in Seq(Nat), NEW e \in Seq(Nat), NEW s \in BOOLEAN,
           Placed(g, 0, FALSE), Placed(e, Len(g), s)
    PROVE  Placed(g \o e, 0, s)
<1>1. /\ Len(g \o e) = Len(g) + Len(e) /\ Len(g) \in Nat /\ Len(e) \in Nat
      /\ \A i \in 1..Len(g) : (g \o e)[i] = g[i]
      /\ \A i \in Len(g) + 1..Len(g) + Len(e) : (g \o e)[i] = e[i - Len(g)]
  BY ConcatProperties
<1> SUFFICES ASSUME NEW j \in 1..Len(g \o e)
             PROVE  \/ (g \o e)[j] = 0 + j
                    \/ s /\ (g \o e)[j] = Terminate /\ j = Len(g \o e)
  BY DEF Placed
<1>2. CASE j <= Len(g)
  BY <1>1, <1>2 DEF Placed
<1>3. CASE j > Len(g)
  <2>1. j - Len(g) \in 1..Len(e) /\ (g \o e)[j] = e[j - Len(g)]
    BY <1>1, <1>3
  <2> QED
    BY <1>1, <2>1 DEF Placed
<1> QED
  BY <1>1, <1>2, <1>3

\* An event more in the bundle.
LEMMA PlacedAppend ==
    ASSUME NEW e \in Seq(Nat), NEW a \in Nat, NEW n \in Nat,
           NEW s \in BOOLEAN, Placed(e, a, FALSE),
           n = a + Len(e) + 1 \/ (s /\ n = Terminate)
    PROVE  Placed(Append(e, n), a, s)
<1>1. /\ Len(e) \in Nat /\ Len(Append(e, n)) = Len(e) + 1
      /\ \A i \in 1..Len(e) : Append(e, n)[i] = e[i]
      /\ Append(e, n)[Len(e) + 1] = n
  BY AppendProperties
<1> SUFFICES ASSUME NEW j \in 1..Len(Append(e, n))
             PROVE  \/ Append(e, n)[j] = a + j
                    \/ s /\ Append(e, n)[j] = Terminate
                         /\ j = Len(Append(e, n))
  BY DEF Placed
<1>2. CASE j <= Len(e)
  <2>1. j \in 1..Len(e)
    BY <1>1, <1>2
  <2> QED
    BY <1>1, <2>1 DEF Placed
<1>3. CASE j > Len(e)
  <2>1. j = Len(e) + 1
    BY <1>1, <1>3
  <2> QED
    BY <1>1, <2>1
<1> QED
  BY <1>1, <1>2, <1>3

LEMMA PlacedEmpty ==
    ASSUME NEW a \in Nat, NEW s \in BOOLEAN
    PROVE  Placed(<< >>, a, s)
  BY DEF Placed

-----------------------------------------------------------------------------
(* What a client posts, in the log and still unread.                       *)

\* The events in s are numbered in rising order.
Rising(s) ==
    \A i, j \in 1..Len(s) :
        i < j /\ s[i].name = "event" /\ s[j].name = "event" => s[i].n < s[j].n

\* Those of l come before those of s.
Before(l, s) ==
    \A i \in 1..Len(l), j \in 1..Len(s) :
        l[i].name = "event" /\ s[j].name = "event" => l[i].n < s[j].n

UpTo(s, n) == \A i \in 1..Len(s) : s[i].name = "event" => s[i].n <= n

Has(s, n) == \E i \in 1..Len(s) : s[i].name = "event" /\ s[i].n = n

\* The events 1 to n are in l, or in s which is read after l, in order.
Tale(l, s, n) ==
    /\ Rising(l) /\ Rising(s) /\ Before(l, s)
    /\ UpTo(l, n) /\ UpTo(s, n)
    /\ \A e \in 1..n : Has(l, e) \/ Has(s, e)

LEMMA TaleEmpty == Tale(<< >>, << >>, 0)
<1>1. Len(<< >>) = 0
  OBVIOUS
<1> QED
  BY <1>1 DEF Tale, Rising, Before, UpTo, Has

LEMMA AppendNote ==
    ASSUME NEW s \in Seq(Notes), NEW m \in Notes, NEW r, r = Append(s, m)
    PROVE  /\ r \in Seq(Notes) /\ Len(r) = Len(s) + 1 /\ Len(s) \in Nat
           /\ \A i \in 1..Len(s) : r[i] = s[i] /\ s[i].n \in Nat
           /\ r[Len(s) + 1] = m /\ m.n \in Nat
<1>1. /\ r \in Seq(Notes) /\ Len(r) = Len(s) + 1 /\ Len(s) \in Nat
      /\ \A i \in 1..Len(s) : r[i] = s[i]
      /\ r[Len(s) + 1] = m
  BY AppendProperties
<1>2. ASSUME NEW i \in 1..Len(s) PROVE s[i].n \in Nat
  <2>1. s[i] \in Notes
    BY ElementOfSeq
  <2> QED
    BY <2>1 DEF Notes
<1>3. m.n \in Nat
  BY DEF Notes
<1> QED
  BY <1>1, <1>2, <1>3

\* Client::PostEvent()
LEMMA TalePost ==
    ASSUME NEW l \in Seq(Notes), NEW s \in Seq(Notes), NEW n \in Nat,
           Tale(l, s, n), NEW m \in Notes, m.name = "event", m.n = n + 1
    PROVE  Tale(l, Append(s, m), n + 1)
<1>1. PICK r : r = Append(s, m)
  OBVIOUS
<1>2. /\ Len(r) = Len(s) + 1 /\ Len(s) \in Nat
      /\ \A i \in 1..Len(s) : r[i] = s[i] /\ s[i].n \in Nat
      /\ r[Len(s) + 1] = m
  BY <1>1, AppendNote
<1>3. ASSUME NEW i \in 1..Len(r) PROVE i \in 1..Len(s) \/ r[i] = m
  BY <1>2
<1>4. ASSUME NEW i \in 1..Len(l) PROVE l[i].n \in Nat
  <2>1. l[i] \in Notes
    BY ElementOfSeq
  <2> QED
    BY <2>1 DEF Notes
<1>5. Rising(r)
  <2> SUFFICES ASSUME NEW i \in 1..Len(r), NEW j \in 1..Len(r), i < j,
                      r[i].name = "event", r[j].name = "event"
               PROVE  r[i].n < r[j].n
    BY DEF Rising
  <2>1. i \in 1..Len(s) /\ r[i] = s[i]
    BY <1>2
  <2>2. CASE j \in 1..Len(s)
    <3>1. r[j] = s[j]
      BY <1>2, <2>2
    <3> QED
      BY <2>1, <2>2, <3>1 DEF Tale, Rising
  <2>3. CASE j \notin 1..Len(s)
    <3>1. r[j] = m /\ s[i].n <= n /\ s[i].n \in Nat
      BY <1>2, <1>3, <2>1, <2>3 DEF Tale, UpTo
    <3> QED
      BY <2>1, <3>1
  <2> QED
    BY <2>2, <2>3
<1>6. Before(l, r)
  <2> SUFFICES ASSUME NEW i \in 1..Len(l), NEW j \in 1..Len(r),
                      l[i].name = "event", r[j].name = "event"
               PROVE  l[i].n < r[j].n
    BY DEF Before
  <2>1. CASE j \in 1..Len(s)
    <3>1. r[j] = s[j]
      BY <1>2, <2>1
    <3> QED
      BY <2>1, <3>1 DEF Tale, Before
  <2>2. CASE j \notin 1..Len(s)
    <3>1. r[j] = m /\ l[i].n <= n /\ l[i].n \in Nat
      BY <1>3, <1>4, <2>2 DEF Tale, UpTo
    <3> QED
      BY <3>1
  <2> QED
    BY <2>1, <2>2
<1>7. UpTo(l, n + 1)
  BY <1>4 DEF Tale, UpTo
<1>8. UpTo(r, n + 1)
  <2> SUFFICES ASSUME NEW i \in 1..Len(r), r[i].name = "event"
               PROVE  r[i].n <= n + 1
    BY DEF UpTo
  <2>1. CASE i \in 1..Len(s)
    <3>1. r[i] = s[i] /\ s[i].n \in Nat /\ s[i].n <= n
      BY <1>2, <2>1 DEF Tale, UpTo
    <3> QED
      BY <3>1
  <2>2. CASE r[i] = m
    BY <2>2
  <2> QED
    BY <1>3, <2>1, <2>2
<1>9. ASSUME NEW e \in 1..n + 1 PROVE Has(l, e) \/ Has(r, e)
  <2>1. CASE e = n + 1
    <3>1. Len(s) + 1 \in 1..Len(r)
      BY <1>2
    <3> QED
      BY <1>2, <2>1, <3>1 DEF Has
  <2>2. CASE e # n + 1
    <3>1. e \in 1..n
      BY <2>2
    <3>2. Has(s, e) => Has(r, e)
      <4> SUFFICES ASSUME NEW i \in 1..Len(s), s[i].name = "event", s[i].n = e
                   PROVE  Has(r, e)
        BY DEF Has
      <4>1. i \in 1..Len(r) /\ r[i] = s[i]
        BY <1>2
      <4> QED
        BY <4>1 DEF Has
    <3> QED
      BY <3>1, <3>2 DEF Tale
  <2> QED
    BY <2>1, <2>2
<1>10. Rising(l)
  BY DEF Tale
<1> QED
  BY <1>1, <1>5, <1>6, <1>7, <1>8, <1>9, <1>10 DEF Tale

\* Something other than an event is sent, or recorded.
LEMMA QuietAppend ==
    ASSUME NEW s \in Seq(Notes), NEW m \in Notes, m.name # "event",
           NEW r, r = Append(s, m)
    PROVE  /\ \A i \in 1..Len(r) : r[i].name = "event"
                  => i \in 1..Len(s) /\ r[i] = s[i]
           /\ \A i \in 1..Len(s) : i \in 1..Len(r) /\ r[i] = s[i]
<1>1. /\ Len(r) = Len(s) + 1 /\ Len(s) \in Nat
      /\ \A i \in 1..Len(s) : r[i] = s[i]
      /\ r[Len(s) + 1] = m
  BY AppendNote
<1> QED
  BY <1>1

LEMMA TaleOther ==
    ASSUME NEW l \in Seq(Notes), NEW s \in Seq(Notes), NEW n \in Nat,
           Tale(l, s, n), NEW m \in Notes, m.name # "event"
    PROVE  Tale(l, Append(s, m), n) /\ Tale(Append(l, m), s, n)
<1>1. PICK r : r = Append(s, m)
  OBVIOUS
<1>2. PICK k : k = Append(l, m)
  OBVIOUS
<1>3. /\ \A i \in 1..Len(r) : r[i].name = "event"
             => i \in 1..Len(s) /\ r[i] = s[i]
      /\ \A i \in 1..Len(s) : i \in 1..Len(r) /\ r[i] = s[i]
  BY <1>1, QuietAppend
<1>4. /\ \A i \in 1..Len(k) : k[i].name = "event"
             => i \in 1..Len(l) /\ k[i] = l[i]
      /\ \A i \in 1..Len(l) : i \in 1..Len(k) /\ k[i] = l[i]
  BY <1>2, QuietAppend
<1>5. Rising(r) /\ UpTo(r, n) /\ Before(l, r)
  BY <1>3 DEF Tale, Rising, UpTo, Before
<1>6. Rising(k) /\ UpTo(k, n) /\ Before(k, s)
  BY <1>4 DEF Tale, Rising, UpTo, Before
<1>7. ASSUME NEW e PROVE (Has(s, e) => Has(r, e)) /\ (Has(l, e) => Has(k, e))
  BY <1>3, <1>4 DEF Has
<1> QED
  BY <1>1, <1>2, <1>5, <1>6, <1>7 DEF Tale

\* The first unread note is read: an event into the log, anything else into
\* the log or not.
LEMMA TaleRead ==
    ASSUME NEW l \in Seq(Notes), NEW s \in Seq(Notes), NEW n \in Nat,
           Tale(l, s, n), s # << >>
    PROVE  /\ Tale(Append(l, Head(s)), Tail(s), n)
           /\ Head(s).name # "event" => Tale(l, Tail(s), n)
<1>1. PICK h, r : h = Head(s) /\ r = Tail(s)
  OBVIOUS
<1>2. /\ h \in Notes /\ h = s[1] /\ Len(s) \in Nat \ {0}
      /\ r \in Seq(Notes) /\ Len(r) = Len(s) - 1
      /\ \A i \in 1..Len(r) : r[i] = s[i + 1]
  BY <1>1, HeadTailProperties, EmptySeq, LenProperties
<1>3. ASSUME NEW i \in 1..Len(r)
      PROVE  i + 1 \in 1..Len(s) /\ r[i] = s[i + 1] /\ 1 < i + 1
  BY <1>2
<1>4. 1 \in 1..Len(s)
  BY <1>2
<1>5. Rising(r)
  <2> SUFFICES ASSUME NEW i \in 1..Len(r), NEW j \in 1..Len(r), i < j,
                      r[i].name = "event", r[j].name = "event"
               PROVE  r[i].n < r[j].n
    BY DEF Rising
  <2>1. i + 1 < j + 1
    BY <1>2
  <2> QED
    BY <1>3, <2>1 DEF Tale, Rising
<1>6. UpTo(r, n) /\ Before(l, r)
  BY <1>3 DEF Tale, UpTo, Before
<1>7. ASSUME NEW e, Has(s, e), ~Has(r, e)
      PROVE  h.name = "event" /\ h.n = e
  <2>1. PICK i \in 1..Len(s) : s[i].name = "event" /\ s[i].n = e
    BY <1>7 DEF Has
  <2>2. CASE i = 1
    BY <1>2, <2>1, <2>2
  <2>3. CASE i # 1
    <3>1. i - 1 \in 1..Len(r) /\ (i - 1) + 1 = i
      BY <1>2, <2>3
    <3>2. r[i - 1] = s[i]
      BY <1>2, <3>1
    <3> QED
      BY <1>7, <2>1, <3>1, <3>2 DEF Has
  <2> QED
    BY <2>2, <2>3
<1>8. h.name # "event" => Tale(l, r, n)
  BY <1>5, <1>6, <1>7 DEF Tale
<1>9. PICK k : k = Append(l, h)
  OBVIOUS
<1>10. /\ Len(k) = Len(l) + 1 /\ Len(l) \in Nat
       /\ \A i \in 1..Len(l) : k[i] = l[i]
       /\ k[Len(l) + 1] = h
  BY <1>2, <1>9, AppendNote
<1>11. ASSUME NEW i \in 1..Len(k)
       PROVE  (i \in 1..Len(l) /\ k[i] = l[i]) \/ (i = Len(l) + 1 /\ k[i] = h)
  BY <1>10
<1>12. Rising(k)
  <2> SUFFICES ASSUME NEW i \in 1..Len(k), NEW j \in 1..Len(k), i < j,
                      k[i].name = "event", k[j].name = "event"
               PROVE  k[i].n < k[j].n
    BY DEF Rising
  <2>1. i \in 1..Len(l) /\ k[i] = l[i]
    BY <1>10, <1>11
  <2>2. CASE j \in 1..Len(l) /\ k[j] = l[j]
    BY <2>1, <2>2 DEF Tale, Rising
  <2>3. CASE k[j] = h
    BY <1>2, <1>4, <2>1, <2>3 DEF Tale, Before
  <2> QED
    BY <1>11, <2>2, <2>3
<1>13. UpTo(k, n)
  <2> SUFFICES ASSUME NEW i \in 1..Len(k), k[i].name = "event"
               PROVE  k[i].n <= n
    BY DEF UpTo
  <2> QED
    BY <1>2, <1>4, <1>11 DEF Tale, UpTo
<1>14. Before(k, r)
  <2> SUFFICES ASSUME NEW i \in 1..Len(k), NEW j \in 1..Len(r),
                      k[i].name = "event", r[j].name = "event"
               PROVE  k[i].n < r[j].n
    BY DEF Before
  <2>1. CASE i \in 1..Len(l) /\ k[i] = l[i]
    BY <1>6, <2>1 DEF Before
  <2>2. CASE k[i] = h
    BY <1>2, <1>3, <1>4, <2>2 DEF Tale, Rising
  <2> QED
    BY <1>11, <2>1, <2>2
<1>15. ASSUME NEW e, Has(l, e) \/ (h.name = "event" /\ h.n = e)
       PROVE  Has(k, e)
  <2>1. \A i \in 1..Len(l) : i \in 1..Len(k) /\ k[i] = l[i]
    BY <1>10
  <2>2. Len(l) + 1 \in 1..Len(k)
    BY <1>10
  <2> QED
    BY <1>10, <1>15, <2>1, <2>2 DEF Has
<1>16. Tale(k, r, n)
  BY <1>5, <1>6, <1>7, <1>12, <1>13, <1>14, <1>15 DEF Tale
<1> QED
  BY <1>1, <1>8, <1>9, <1>16

-----------------------------------------------------------------------------
(* The invariant, of one Task with the far end of its channel.             *)

Over(c) == c.proc \in {"exited", "killed"}

\* What is sent to this client can still be read by it.
Live(p) == ~Over(p.c) /\ ~p.c.hup

\* How far a Task of this kind has come.  waiting: its connection is in
\* backlog.
Staged(kind, waiting, p) ==
    /\ p.c.proc = "none" => p.k.active = "none"
    /\ p.k.active = "none" => p.k = NewTask /\ p.c = NewClient /\ ~waiting
    /\ p.c.proc \in {"starting", "connected"} => p.c.inbox = << >>
    /\ p.k.local # "none" \/ p.k.sel = "local" => kind = "pipe"
    /\ p.k.sel = "local" => p.k.chan = "none" /\ ~p.c.hup /\ p.k.regd
    /\ p.k.chan = "open" => ~p.c.hup /\ ~p.k.regd
    /\ p.k.chan = "orphan" => Over(p.c) /\ kind = "pipe" /\ p.k.regd
    /\ p.k.chan = "stale" \/ p.k.local = "freed" => p.c.hup
    /\ p.c.hup => p.k.local # "live"
    /\ p.k.active # "none" /\ ~p.k.regd => p.k.chan = "open" \/ p.c.hup
    /\ p.k.active = "gone" => p.c.hup
    /\ p.c.proc \in {"starting", "connected"} /\ kind # "pipe"
           => p.k.chan = "none" /\ ~p.c.hup /\ p.k.regd
    /\ waiting => /\ kind # "pipe" /\ p.c.proc # "starting"
                  /\ p.k.chan = "none" /\ ~p.c.hup /\ p.k.regd

\* The messages on the way to the client.
Way(p) == IF p.k.chan = "open" THEN p.c.wire ELSE p.k.pending

\* Events 1 to x have been read or are on the way.
Lined(p, x, sealed) ==
    /\ Placed(p.c.got, 0, FALSE)
    /\ Chain(Way(p), Len(p.c.got), x, sealed)
    /\ p.k.chan # "open" => p.c.wire = << >> /\ p.c.got = << >>

\* Events x + 1 to n are in the bundle.
Packed(p, x, n) ==
    /\ Placed(p.k.bundle, x, FALSE)
    /\ n = x + Len(p.k.bundle)

Unpacked(p) == p.k.bundleSize = 0 => p.k.bundle = << >>

\* A client whose channel has been closed still reads what was written.
Drains(p) ==
    /\ Placed(p.c.got, 0, FALSE)
    /\ \E b \in Nat : Chain(p.c.wire, Len(p.c.got), b, TRUE)

Ordered(p) ==
    /\ Placed(p.c.got, 0, TRUE)
    /\ Unpacked(p)
    /\ Live(p) => \E x \in Nat : Lined(p, x, FALSE) /\ Packed(p, x, p.k.nsent)
    /\ ~Over(p.c) /\ p.c.hup /\ p.c.wire # << >> => Drains(p)

\* The first note of a client says that it is established, the last one of
\* its program that it is done; a finished task's client is dead, and has
\* been heard to the end unless a signal killed it.
Ended(p) ==
    /\ p.k.chan = "none" /\ ~p.c.hup
           /\ (p.c.inbox # << >> \/ p.c.proc = "running")
           => p.c.inbox # << >> /\ Head(p.c.inbox).name = "established"
    /\ \A i \in 1..Len(p.c.inbox) : p.c.inbox[i].name = "done"
           => i = Len(p.c.inbox) /\ p.c.proc = "exited"
    /\ p.k.active = "finished" => Over(p.c)
    /\ p.k.active = "finished" /\ p.c.proc = "exited" => p.c.inbox = << >>

\* What l, the log, and the unread notes tell of the client's events.
Told(l, p) == Tale(l, p.c.inbox, p.c.nposted) /\ Ended(p)

Waiting(t) == \E i \in 1..Len(backlog) : backlog[i] = t

\* Nobody waits twice.
OneEach ==
    \A i, j \in 1..Len(backlog) : backlog[i] = backlog[j] => i = j

OInv ==
    /\ IInv
    /\ \A t \in Tasks : /\ Staged(Kind[t], Waiting(t), Pair(t))
                        /\ Ordered(Pair(t))
                        /\ Told(log[t], Pair(t))
                        /\ t \in sigchld => client[t].proc = "killed"
    /\ OneEach
    /\ waitFor # NoTask => task[waitFor].bundle = << >>

-----------------------------------------------------------------------------
(* The sending methods touch only the queues, and keep what is in them     *)
(* lined up.                                                               *)

\* q is p but for pending, bundle, bundleSize, nsent and the wire.
OnlyQueues(p, q) ==
    /\ q \in PairType
    /\ q.k.active = p.k.active /\ q.k.chan = p.k.chan
    /\ q.k.local = p.k.local /\ q.k.sel = p.k.sel
    /\ q.k.held = p.k.held /\ q.k.regd = p.k.regd
    /\ q.c.proc = p.c.proc /\ q.c.inbox = p.c.inbox /\ q.c.hup = p.c.hup
    /\ q.c.got = p.c.got /\ q.c.nposted = p.c.nposted

\* The wire of a client that cannot read is left alone as well.
Forwards(p, q) == OnlyQueues(p, q) /\ (~Live(p) => q.c.wire = p.c.wire)

\* What Staged says of a channel that leads nowhere.
Reach(p) ==
    /\ p.k.chan = "open" => ~p.c.hup
    /\ p.k.chan = "orphan" => Over(p.c)
    /\ p.k.chan = "stale" => p.c.hup

LEMMA StagedReach ==
    ASSUME NEW kind, NEW w, NEW p, Staged(kind, w, p)
    PROVE  Reach(p)
  BY DEF Staged, Reach

LEMMA StagedQueues ==
    ASSUME NEW kind, NEW w, NEW p, NEW q, Staged(kind, w, p),
           OnlyQueues(p, q), p.k.active # "none"
    PROVE  Staged(kind, w, q)
  BY DEF Staged, OnlyQueues, Over

LEMMA OnlyQueuesTransitive ==
    ASSUME NEW p, NEW q, NEW r, OnlyQueues(p, q), OnlyQueues(q, r)
    PROVE  OnlyQueues(p, r)
  BY DEF OnlyQueues

LEMMA ReachQueues ==
    ASSUME NEW p, NEW q, OnlyQueues(p, q)
    PROVE  (Reach(p) <=> Reach(q)) /\ (Live(p) <=> Live(q))
  BY DEF OnlyQueues, Reach, Live, Over

LEMMA ForwardsTransitive ==
    ASSUME NEW p, NEW q, NEW r, Forwards(p, q), Forwards(q, r)
    PROVE  Forwards(p, r)
  BY OnlyQueuesTransitive, ReachQueues DEF Forwards

LEMMA KField ==
    ASSUME NEW p \in PairType
    PROVE  /\ p.k \in TaskRecord /\ p.c \in ClientRecord
           /\ p.k.pending \in Seq(Message) /\ p.k.bundle \in Seq(Nat)
           /\ p.k.bundleSize \in Nat /\ p.k.nsent \in Nat
           /\ p.k.chan \in {"none", "open", "orphan", "stale"}
           /\ p.c.wire \in Seq(Message) /\ p.c.got \in Seq(Nat)
           /\ p.c.inbox \in Seq(Notes) /\ p.c.hup \in BOOLEAN
  BY PairParts DEF TaskRecord, ClientRecord

\* The fields that are left alone when a queue is assigned to.
LEMMA PendingFields ==
    ASSUME NEW k \in TaskRecord, NEW s, NEW r, r = [k EXCEPT !.pending = s]
    PROVE  /\ r.active = k.active /\ r.chan = k.chan /\ r.local = k.local
           /\ r.sel = k.sel /\ r.held = k.held /\ r.regd = k.regd
           /\ r.pending = s /\ r.bundle = k.bundle
           /\ r.bundleSize = k.bundleSize /\ r.nsent = k.nsent
  BY DEF TaskRecord

LEMMA BundleFields ==
    ASSUME NEW k \in TaskRecord, NEW s, NEW r, r = [k EXCEPT !.bundle = s]
    PROVE  /\ r.active = k.active /\ r.chan = k.chan /\ r.local = k.local
           /\ r.sel = k.sel /\ r.held = k.held /\ r.regd = k.regd
           /\ r.pending = k.pending /\ r.bundle = s
           /\ r.bundleSize = k.bundleSize /\ r.nsent = k.nsent
  BY DEF TaskRecord

LEMMA WireFields ==
    ASSUME NEW c \in ClientRecord, NEW w, NEW r, r = [c EXCEPT !.wire = w]
    PROVE  /\ r.proc = c.proc /\ r.wire = w /\ r.inbox = c.inbox
           /\ r.hup = c.hup /\ r.owes = c.owes /\ r.got = c.got
           /\ r.nposted = c.nposted
  BY DEF ClientRecord

\* Task::SendEvent(name, value), field by field.
LEMMA SendEventFields ==
    ASSUME NEW p \in PairType, NEW m \in Message,
           NEW q, q = SendEvent(p, m)
    PROVE  /\ OnlyQueues(p, q)
           /\ q.k.bundle = p.k.bundle /\ q.k.bundleSize = p.k.bundleSize
           /\ q.k.nsent = p.k.nsent
           /\ p.k.chan = "none" => /\ q.k.pending = Append(p.k.pending, m)
                                   /\ q.c = p.c
           /\ p.k.chan = "open" =>
                 q.c.wire = IF Over(p.c) THEN p.c.wire
                            ELSE Append(p.c.wire, m)
           /\ p.k.chan \notin {"none", "open"} => q = p
<1>1. /\ p.c \in ClientRecord /\ p.k \in TaskRecord /\ q \in PairType
      /\ p.c.wire \in Seq(Message)
  BY KField, SendEventKeeps DEF Keeps
<1>2. CASE p.k.chan = "none"
  <2>1. q = [k |-> [p.k EXCEPT !.pending = Append(@, m)], c |-> p.c]
    BY <1>2 DEF SendEvent
  <2>2. PICK s : s = Append(p.k.pending, m)
    OBVIOUS
  <2>3. q.k = [p.k EXCEPT !.pending = s] /\ q.c = p.c
    BY <2>1, <2>2
  <2> QED
    BY <1>1, <1>2, <2>2, <2>3, PendingFields DEF OnlyQueues
<1>3. CASE p.k.chan = "open" /\ ~Over(p.c)
  <2>1. q = Write(p, <<m>>)
    BY <1>3 DEF SendEvent
  <2>2. PICK w : w = p.c.wire \o <<m>>
    OBVIOUS
  <2>3. w = Append(p.c.wire, m)
    BY <1>1, <2>2, AppendIsConcat
  <2>4. q.c = [p.c EXCEPT !.wire = w] /\ q.k = p.k
    <3>1. q = [k |-> p.k, c |-> [p.c EXCEPT !.wire = w]]
      BY <1>3, <2>1, <2>2, Zenon DEF Write, Over
    <3> QED
      BY <3>1
  <2> QED
    BY <1>1, <1>3, <2>3, <2>4, WireFields DEF OnlyQueues
<1>4. CASE p.k.chan = "open" /\ Over(p.c)
  <2>1. q = p
    BY <1>4 DEF SendEvent, Write, Over
  <2> QED
    BY <1>1, <1>4, <2>1 DEF OnlyQueues
<1>5. CASE p.k.chan \notin {"none", "open"}
  <2>1. q = p
    BY <1>5 DEF SendEvent
  <2> QED
    BY <1>1, <1>5, <2>1 DEF OnlyQueues
<1> QED
  BY <1>2, <1>3, <1>4, <1>5

LEMMA SendEventLined ==
    ASSUME NEW p \in PairType, NEW m \in Message, Reach(p)
    PROVE  /\ Forwards(p, SendEvent(p, m))
           /\ \A x \in Nat, s \in BOOLEAN :
                 Live(p) /\ Lined(p, x, FALSE) /\ Placed(m.evs, x, s)
                     => Lined(SendEvent(p, m), x + Len(m.evs), s)
<1>1. PICK q : q = SendEvent(p, m)
  OBVIOUS
<1>2. /\ OnlyQueues(p, q)
      /\ p.k.chan = "none" => /\ q.k.pending = Append(p.k.pending, m)
                              /\ q.c = p.c
      /\ p.k.chan = "open" =>
            q.c.wire = IF Over(p.c) THEN p.c.wire ELSE Append(p.c.wire, m)
      /\ p.k.chan \notin {"none", "open"} => q = p
  BY <1>1, SendEventFields
<1>3. Forwards(p, q)
  BY <1>2 DEF Forwards, Live, Reach
<1>4. ASSUME NEW x \in Nat, NEW s \in BOOLEAN, Live(p),
             Lined(p, x, FALSE), Placed(m.evs, x, s)
      PROVE  Lined(q, x + Len(m.evs), s)
  <2>1. p.k.chan \in {"none", "open"}
    BY <1>4, KField DEF Reach, Live
  <2>2. Way(q) = Append(Way(p), m)
    BY <1>2, <1>4, <2>1 DEF Way, Live, OnlyQueues
  <2>3. Way(p) \in Seq(Message) /\ Len(p.c.got) \in Nat
    BY KField, LenProperties DEF Way
  <2>4. Chain(Append(Way(p), m), Len(p.c.got), x + Len(m.evs), s)
    BY <1>4, <2>3, ChainAppend DEF Lined
  <2> QED
    BY <1>2, <1>4, <2>1, <2>2, <2>4 DEF Lined, OnlyQueues
<1> QED
  BY <1>1, <1>3, <1>4

LEMMA LinedSeal ==
    ASSUME NEW p \in PairType, NEW x \in Nat, NEW s \in BOOLEAN,
           Lined(p, x, FALSE)
    PROVE  Lined(p, x, s)
<1>1. Way(p) \in Seq(Message) /\ Len(p.c.got) \in Nat
  BY KField, LenProperties DEF Way
<1> QED
  BY <1>1, ChainSeal DEF Lined

LEMMA FlushEventsLined ==
    ASSUME NEW p \in PairType, Reach(p)
    PROVE  /\ Forwards(p, FlushEvents(p))
           /\ FlushEvents(p).k.bundle = << >>
           /\ FlushEvents(p).k.nsent = p.k.nsent
           /\ FlushEvents(p).k.bundleSize = p.k.bundleSize
           /\ \A x \in Nat, s \in BOOLEAN :
                 Live(p) /\ Lined(p, x, FALSE) /\ Placed(p.k.bundle, x, s)
                     => Lined(FlushEvents(p), x + Len(p.k.bundle), s)
<1>1. CASE p.k.bundle = << >>
  <2>1. FlushEvents(p) = p /\ Len(p.k.bundle) = 0
    BY <1>1 DEF FlushEvents
  <2>2. Forwards(p, p)
    BY DEF Forwards, OnlyQueues
  <2>3. ASSUME NEW x \in Nat PROVE x + 0 = x
    OBVIOUS
  <2> QED
    BY <1>1, <2>1, <2>2, <2>3, LinedSeal
<1>2. CASE p.k.bundle # << >>
  <2> DEFINE m == Bundle(p.k.bundle)
             q == SendEvent(p, m)
             r == FlushEvents(p)
  <2>1. m \in Message /\ m.evs = p.k.bundle
    BY KField, BundleType DEF Bundle
  <2>2. /\ q.k.bundleSize = p.k.bundleSize /\ q.k.nsent = p.k.nsent
        /\ q \in PairType
    BY <2>1, SendEventFields DEF OnlyQueues
  <2>3. Forwards(p, q)
    BY <2>1, SendEventLined
  <2>4. r = [k |-> [q.k EXCEPT !.bundle = << >>], c |-> q.c]
    BY <1>2 DEF FlushEvents
  <2>5. r \in PairType
    BY FlushEventsKeeps DEF Keeps
  <2>6. ASSUME NEW x \in Nat, NEW s \in BOOLEAN, Live(p),
               Lined(p, x, FALSE), Placed(p.k.bundle, x, s)
        PROVE  Lined(q, x + Len(p.k.bundle), s)
    BY <2>1, <2>6, SendEventLined
  <2> HIDE DEF q, r, m
  <2>7. /\ r.c = q.c /\ r.k.bundle = << >> /\ r.k.pending = q.k.pending
        /\ r.k.nsent = q.k.nsent /\ r.k.bundleSize = q.k.bundleSize
        /\ r.k.chan = q.k.chan /\ OnlyQueues(q, r)
    BY <2>2, <2>4, <2>5, KField DEF TaskRecord, OnlyQueues
  <2>8. Forwards(p, r)
    BY <2>3, <2>7, ForwardsTransitive DEF Forwards
  <2>9. ASSUME NEW x, NEW s, Lined(q, x, s) PROVE Lined(r, x, s)
    BY <2>7, <2>9 DEF Lined, Way
  <2> QED
    BY <2>2, <2>6, <2>7, <2>8, <2>9 DEF r
<1> QED
  BY <1>1, <1>2

LEMMA LenEmpty == Len(<< >>) = 0
  OBVIOUS

LEMMA OnlyBundle ==
    ASSUME NEW p \in PairType, NEW q, NEW b \in Seq(Nat),
           q = [k |-> [p.k EXCEPT !.bundle = b], c |-> p.c]
    PROVE  /\ Forwards(p, q) /\ q.k.bundle = b /\ q.k.nsent = p.k.nsent
           /\ q.k.bundleSize = p.k.bundleSize
           /\ \A x, s : Lined(p, x, s) => Lined(q, x, s)
<1>1. PICK k : k = [p.k EXCEPT !.bundle = b]
  OBVIOUS
<1>2. q = [k |-> k, c |-> p.c]
  BY <1>1
<1>3. q.k = k /\ q.c = p.c
  BY <1>2
<1>4. k \in TaskRecord /\ p.c \in ClientRecord
  BY <1>1, KField, StoreBundle
<1>5. q \in PairType
  BY <1>2, <1>4, PairIntro
<1>6. /\ k.active = p.k.active /\ k.chan = p.k.chan /\ k.local = p.k.local
      /\ k.sel = p.k.sel /\ k.held = p.k.held /\ k.regd = p.k.regd
      /\ k.pending = p.k.pending /\ k.bundle = b
      /\ k.bundleSize = p.k.bundleSize /\ k.nsent = p.k.nsent
  BY <1>1, KField, BundleFields
<1>7. Forwards(p, q)
  BY <1>3, <1>5, <1>6 DEF Forwards, OnlyQueues
<1>8. ASSUME NEW x, NEW s, Lined(p, x, s) PROVE Lined(q, x, s)
  BY <1>3, <1>6, <1>8 DEF Lined, Way
<1> QED
  BY <1>3, <1>6, <1>7, <1>8

\* Event n has joined the events on the way and in the bundle.
Joins(p, q, n) ==
    \A x \in Nat, s \in BOOLEAN :
        /\ Live(p) /\ Lined(p, x, FALSE)
        /\ Placed(p.k.bundle, x, FALSE)
        /\ n = x + Len(p.k.bundle) + 1 \/ (s /\ n = Terminate)
        => \E y \in Nat :
              /\ Lined(q, y, s) /\ Placed(q.k.bundle, y, s)
              /\ y + Len(q.k.bundle) = x + Len(p.k.bundle) + 1

\* Task::SendEvent(name, args).
LEMMA SendOrBundleLined ==
    ASSUME NEW p \in PairType, NEW n \in Nat, Reach(p), Unpacked(p),
           NEW q, q = SendOrBundle(p, n)
    PROVE  /\ Forwards(p, q) /\ Unpacked(q) /\ q.k.nsent = p.k.nsent
           /\ Joins(p, q, n)
<1>1. CASE p.k.bundleSize = 0
  <2>1. q = SendEvent(p, Event(n)) /\ p.k.bundle = << >>
    BY <1>1 DEF SendOrBundle, Unpacked
  <2>2. /\ Event(n) \in Message /\ Event(n).evs = <<n>> /\ Len(<<n>>) = 1
        /\ (<<n>>)[1] = n
    BY EventType DEF Event
  <2>3. /\ q.k.bundle = << >> /\ q.k.bundleSize = 0
        /\ q.k.nsent = p.k.nsent
    BY <1>1, <2>1, <2>2, SendEventFields
  <2>4. Forwards(p, q)
    BY <2>1, <2>2, SendEventLined
  <2>5. ASSUME NEW x \in Nat, NEW s \in BOOLEAN, Live(p), Lined(p, x, FALSE),
               n = x + Len(p.k.bundle) + 1 \/ (s /\ n = Terminate)
        PROVE  \E y \in Nat :
                  /\ Lined(q, y, s) /\ Placed(q.k.bundle, y, s)
                  /\ y + Len(q.k.bundle) = x + Len(p.k.bundle) + 1
    <3>1. Placed(<<n>>, x, s)
      BY <2>1, <2>2, <2>5 DEF Placed
    <3>2. Lined(q, x + 1, s)
      BY <2>1, <2>2, <2>5, <3>1, SendEventLined
    <3>3. Placed(q.k.bundle, x + 1, s) /\ Len(q.k.bundle) = 0
      BY <2>3, PlacedEmpty
    <3>4. x + 1 \in Nat /\ (x + 1) + 0 = x + Len(p.k.bundle) + 1
      BY <2>1
    <3> QED
      BY <3>2, <3>3, <3>4
  <2> QED
    BY <2>3, <2>4, <2>5 DEF Unpacked, Joins
<1>2. CASE p.k.bundleSize # 0
  <2>1. PICK b : b = Append(p.k.bundle, n)
    OBVIOUS
  <2>2. PICK r : r = [k |-> [p.k EXCEPT !.bundle = b], c |-> p.c]
    OBVIOUS
  <2>3. q = FlushEvents(r) \/ q = r
    BY <1>2, <2>1, <2>2, Zenon DEF SendOrBundle
  <2>4. b \in Seq(Nat) /\ Len(b) = Len(p.k.bundle) + 1
    BY <2>1, KField, AppendProperties
  <2>5. /\ Forwards(p, r) /\ r.k.bundle = b /\ r.k.nsent = p.k.nsent
        /\ r.k.bundleSize = p.k.bundleSize
        /\ \A x, s : Lined(p, x, s) => Lined(r, x, s)
    BY <2>2, <2>4, OnlyBundle
  <2>6. r \in PairType
    BY <2>5 DEF Forwards, OnlyQueues
  <2>7. Reach(r) /\ (Live(p) <=> Live(r))
    BY <2>5, ReachQueues DEF Forwards
  <2>8. ASSUME NEW x \in Nat, NEW s \in BOOLEAN, Live(p), Lined(p, x, FALSE),
               Placed(p.k.bundle, x, FALSE),
               n = x + Len(p.k.bundle) + 1 \/ (s /\ n = Terminate)
        PROVE  Lined(r, x, FALSE) /\ Placed(b, x, s)
    BY <2>1, <2>5, <2>8, KField, PlacedAppend
  <2>9. CASE q = r
    <3>1. ASSUME NEW x \in Nat, NEW s \in BOOLEAN, Live(p),
                 Lined(p, x, FALSE), Placed(p.k.bundle, x, FALSE),
                 n = x + Len(p.k.bundle) + 1 \/ (s /\ n = Terminate)
          PROVE  \E y \in Nat :
                    /\ Lined(q, y, s) /\ Placed(q.k.bundle, y, s)
                    /\ y + Len(q.k.bundle) = x + Len(p.k.bundle) + 1
      <4>1. Lined(r, x, s) /\ Placed(b, x, s)
        BY <2>5, <2>8, <2>6, <3>1, LinedSeal
      <4>2. x + Len(b) = x + Len(p.k.bundle) + 1
        BY <2>4, KField, LenProperties
      <4> QED
        BY <2>5, <2>9, <4>1, <4>2
    <3> QED
      BY <1>2, <2>5, <2>9, <3>1 DEF Unpacked, Joins
  <2>10. CASE q = FlushEvents(r)
    <3>1. /\ Forwards(r, q) /\ q.k.bundle = << >> /\ q.k.nsent = r.k.nsent
          /\ \A x \in Nat, s \in BOOLEAN :
                Live(r) /\ Lined(r, x, FALSE) /\ Placed(b, x, s)
                    => Lined(q, x + Len(b), s)
      BY <2>5, <2>7, <2>10, <2>6, FlushEventsLined
    <3>2. Forwards(p, q)
      BY <2>5, <3>1, ForwardsTransitive
    <3>3. ASSUME NEW x \in Nat, NEW s \in BOOLEAN, Live(p),
                 Lined(p, x, FALSE), Placed(p.k.bundle, x, FALSE),
                 n = x + Len(p.k.bundle) + 1 \/ (s /\ n = Terminate)
          PROVE  \E y \in Nat :
                    /\ Lined(q, y, s) /\ Placed(q.k.bundle, y, s)
                    /\ y + Len(q.k.bundle) = x + Len(p.k.bundle) + 1
      <4>1. Lined(q, x + Len(b), s)
        BY <2>7, <2>8, <3>1, <3>3
      <4>2. /\ x + Len(b) \in Nat
            /\ x + Len(b) + 0 = x + Len(p.k.bundle) + 1
        <5>1. Len(p.k.bundle) \in Nat
          BY KField, LenProperties
        <5> QED
          BY <2>4, <5>1
      <4>3. Placed(q.k.bundle, x + Len(b), s)
        BY <3>1, <4>2, PlacedEmpty
      <4> QED
        BY <3>1, <4>1, <4>2, <4>3, LenEmpty
    <3> QED
      BY <2>5, <3>1, <3>2, <3>3 DEF Unpacked, Joins
  <2> QED
    BY <2>3, <2>9, <2>10
<1> QED
  BY <1>1, <1>2

-----------------------------------------------------------------------------
(* The script's statements keep a pair Ordered.                            *)

LEMMA OrderedIdle ==
    ASSUME NEW p, NEW q, Ordered(p), Forwards(p, q), Unpacked(q), ~Live(p)
    PROVE  Ordered(q)
  BY DEF Ordered, Forwards, OnlyQueues, Live, Over, Drains

LEMMA OrderedLive ==
    ASSUME NEW p, NEW q, Ordered(p), OnlyQueues(p, q), Unpacked(q), Live(p),
           NEW x \in Nat, Lined(q, x, FALSE), Packed(q, x, q.k.nsent)
    PROVE  Ordered(q)
<1>1. Live(q)
  BY ReachQueues
<1>2. Placed(q.c.got, 0, TRUE)
  BY DEF Ordered, OnlyQueues
<1> QED
  BY <1>1, <1>2 DEF Ordered, Live

LEMMA FlushOrdered ==
    ASSUME NEW p \in PairType, Reach(p), Ordered(p), NEW q, q = FlushEvents(p)
    PROVE  OnlyQueues(p, q) /\ Ordered(q) /\ q.k.bundle = << >>
<1>1. /\ Forwards(p, q) /\ q.k.bundle = << >> /\ q.k.nsent = p.k.nsent
      /\ \A x \in Nat, s \in BOOLEAN :
            Live(p) /\ Lined(p, x, FALSE) /\ Placed(p.k.bundle, x, s)
                => Lined(q, x + Len(p.k.bundle), s)
  BY FlushEventsLined
<1>2. Unpacked(q) /\ OnlyQueues(p, q)
  BY <1>1 DEF Unpacked, Forwards
<1>3. CASE Live(p)
  <2>1. PICK x \in Nat : Lined(p, x, FALSE) /\ Packed(p, x, p.k.nsent)
    BY <1>3 DEF Ordered
  <2>2. p.k.nsent \in Nat /\ p.k.nsent + 0 = p.k.nsent
    BY KField
  <2>3. Lined(q, p.k.nsent, FALSE)
    BY <1>1, <1>3, <2>1 DEF Packed
  <2>4. Packed(q, p.k.nsent, q.k.nsent)
    BY <1>1, <2>2, PlacedEmpty, LenEmpty DEF Packed
  <2> QED
    BY <1>1, <1>2, <1>3, <2>2, <2>4, <2>3, OrderedLive
<1>4. CASE ~Live(p)
  BY <1>1, <1>2, <1>4, OrderedIdle
<1> QED
  BY <1>1, <1>2, <1>3, <1>4

\* A pair with another bundle size or another count is the same otherwise.
LEMMA SetSizeFields ==
    ASSUME NEW p \in PairType, NEW q, NEW n \in Nat,
           \/ q = [k |-> [p.k EXCEPT !.bundleSize = n], c |-> p.c]
           \/ q = [k |-> [p.k EXCEPT !.nsent = n], c |-> p.c]
    PROVE  /\ Forwards(p, q) /\ q \in PairType /\ q.k.bundle = p.k.bundle
           /\ \A x, s : Lined(p, x, s) => Lined(q, x, s)
<1>1. p.k \in TaskRecord /\ p.c \in ClientRecord
  BY KField
<1>2. PICK k : \/ k = [p.k EXCEPT !.bundleSize = n]
                    /\ q = [k |-> k, c |-> p.c]
               \/ k = [p.k EXCEPT !.nsent = n] /\ q = [k |-> k, c |-> p.c]
  OBVIOUS
<1>3. q.k = k /\ q.c = p.c /\ q = [k |-> k, c |-> p.c]
  BY <1>2
<1>4. k \in TaskRecord
  BY <1>1, <1>2 DEF TaskRecord
<1>5. q \in PairType
  BY <1>1, <1>3, <1>4, PairIntro
<1>6. /\ k.active = p.k.active /\ k.chan = p.k.chan /\ k.local = p.k.local
      /\ k.sel = p.k.sel /\ k.held = p.k.held /\ k.regd = p.k.regd
      /\ k.pending = p.k.pending /\ k.bundle = p.k.bundle
  BY <1>1, <1>2 DEF TaskRecord
<1>7. Forwards(p, q)
  BY <1>3, <1>5, <1>6 DEF Forwards, OnlyQueues
<1>8. ASSUME NEW x, NEW s, Lined(p, x, s) PROVE Lined(q, x, s)
  BY <1>3, <1>6, <1>8 DEF Lined, Way
<1> QED
  BY <1>3, <1>5, <1>6, <1>7, <1>8

LEMMA SendOrdered ==
    ASSUME NEW p \in PairType, Reach(p), Ordered(p),
           NEW q, q = SendOrBundle(Counted(p), p.k.nsent + 1)
    PROVE  OnlyQueues(p, q) /\ Ordered(q)
<1>1. PICK n : n = p.k.nsent + 1
  OBVIOUS
<1>2. n \in Nat /\ p.k.nsent \in Nat
  BY <1>1, KField
<1>3. PICK r : r = Counted(p)
  OBVIOUS
<1>4. r = [k |-> [p.k EXCEPT !.nsent = n], c |-> p.c]
  BY <1>1, <1>3 DEF Counted
<1>5. /\ Forwards(p, r) /\ r \in PairType /\ r.k.bundle = p.k.bundle
      /\ \A x, s : Lined(p, x, s) => Lined(r, x, s)
  BY <1>2, <1>4, SetSizeFields
<1>6. r.k.nsent = n /\ r.k.bundleSize = p.k.bundleSize
  BY <1>4, KField DEF TaskRecord
<1>7. Reach(r) /\ (Live(p) <=> Live(r)) /\ Unpacked(r)
  BY <1>5, <1>6, ReachQueues DEF Forwards, Ordered, Unpacked
<1>8. /\ Forwards(r, q) /\ Unpacked(q) /\ q.k.nsent = r.k.nsent
      /\ Joins(r, q, n)
  <2>1. q = SendOrBundle(r, n)
    BY <1>1, <1>3
  <2>2. r \in PairType /\ Reach(r) /\ Unpacked(r)
    BY <1>5, <1>7
  <2> QED
    BY <1>2, <2>1, <2>2, SendOrBundleLined
<1>9. Forwards(p, q)
  BY <1>5, <1>8, ForwardsTransitive
<1>10. CASE Live(p)
  <2>1. PICK x \in Nat : Lined(p, x, FALSE) /\ Packed(p, x, p.k.nsent)
    BY <1>10 DEF Ordered
  <2>2. n = x + Len(r.k.bundle) + 1
    BY <1>1, <1>5, <2>1 DEF Packed
  <2>3. PICK y \in Nat : /\ Lined(q, y, FALSE) /\ Placed(q.k.bundle, y, FALSE)
                         /\ y + Len(q.k.bundle) = n
    BY <1>5, <1>7, <1>8, <1>10, <2>1, <2>2 DEF Packed, Joins
  <2>4. Packed(q, y, q.k.nsent)
    BY <1>6, <1>8, <2>3 DEF Packed
  <2> QED
    BY <1>8, <1>9, <1>10, <2>3, <2>4, OrderedLive DEF Forwards
<1>11. CASE ~Live(p)
  BY <1>8, <1>9, <1>11, OrderedIdle DEF Forwards
<1> QED
  BY <1>10, <1>11

LEMMA BundleOrdered ==
    ASSUME NEW p \in PairType, Reach(p), Ordered(p), NEW n \in Nat,
           NEW q, q = BundleEvents(p, n)
    PROVE  OnlyQueues(p, q) /\ Ordered(q)
<1>1. PICK size : size = IF n <= 1 THEN 0 ELSE n
  OBVIOUS
<1>2. size \in Nat
  BY <1>1
<1>3. PICK r : r = [k |-> [p.k EXCEPT !.bundleSize = size], c |-> p.c]
  OBVIOUS
<1>4. q = IF Len(r.k.bundle) >= r.k.bundleSize THEN FlushEvents(r) ELSE r
  BY <1>1, <1>3 DEF BundleEvents
<1>5. /\ Forwards(p, r) /\ r \in PairType /\ r.k.bundle = p.k.bundle
      /\ \A x, s : Lined(p, x, s) => Lined(r, x, s)
  BY <1>2, <1>3, SetSizeFields
<1>6. r.k.bundleSize = size /\ r.k.nsent = p.k.nsent
  BY <1>3, KField DEF TaskRecord
<1>7. Reach(r) /\ (Live(p) <=> Live(r)) /\ OnlyQueues(p, r)
  BY <1>5, ReachQueues DEF Forwards
<1>8. r.k.bundle \in Seq(Nat) /\ Len(r.k.bundle) \in Nat
  BY <1>5, KField, LenProperties
<1>9. CASE ~(Len(r.k.bundle) >= r.k.bundleSize)
  <2>1. q = r
    BY <1>4, <1>9
  <2>2. r.k.bundleSize # 0
    BY <1>8, <1>9
  <2>3. Unpacked(r)
    BY <2>2 DEF Unpacked
  <2>4. CASE Live(p)
    <3>1. PICK x \in Nat : Lined(p, x, FALSE) /\ Packed(p, x, p.k.nsent)
      BY <2>4 DEF Ordered
    <3>2. Lined(r, x, FALSE) /\ Packed(r, x, r.k.nsent)
      BY <1>5, <1>6, <3>1 DEF Packed
    <3> QED
      BY <1>7, <2>1, <2>3, <2>4, <3>2, OrderedLive
  <2>5. CASE ~Live(p)
    BY <1>5, <1>7, <2>1, <2>3, <2>5, OrderedIdle
  <2> QED
    BY <2>4, <2>5
<1>10. CASE Len(r.k.bundle) >= r.k.bundleSize
  <2>1. q = FlushEvents(r)
    BY <1>4, <1>10
  <2>2. /\ Forwards(r, q) /\ q.k.bundle = << >> /\ q.k.nsent = r.k.nsent
        /\ \A x \in Nat, s \in BOOLEAN :
              Live(r) /\ Lined(r, x, FALSE) /\ Placed(r.k.bundle, x, s)
                  => Lined(q, x + Len(r.k.bundle), s)
    BY <1>5, <1>7, <2>1, FlushEventsLined
  <2>3. Unpacked(q) /\ Forwards(p, q)
    BY <1>5, <2>2, ForwardsTransitive DEF Unpacked
  <2>4. CASE Live(p)
    <3>1. PICK x \in Nat : Lined(p, x, FALSE) /\ Packed(p, x, p.k.nsent)
      BY <2>4 DEF Ordered
    <3>2. p.k.nsent \in Nat /\ p.k.nsent + 0 = p.k.nsent
      BY KField
    <3>3. Lined(q, p.k.nsent, FALSE)
      BY <1>5, <1>7, <2>2, <2>4, <3>1 DEF Packed
    <3>4. Packed(q, p.k.nsent, q.k.nsent)
      BY <1>6, <2>2, <3>2, PlacedEmpty, LenEmpty DEF Packed
    <3> QED
      BY <2>3, <2>4, <3>2, <3>3, <3>4, OrderedLive DEF Forwards
  <2>5. CASE ~Live(p)
    BY <2>3, <2>5, OrderedIdle DEF Forwards
  <2> QED
    BY <2>4, <2>5
<1> QED
  BY <1>9, <1>10

\* A request: the bundle has been flushed ahead of it.
LEMMA SendRequestOrdered ==
    ASSUME NEW p \in PairType, Reach(p), Ordered(p), p.k.bundle = << >>,
           NEW q, q = SendRequest(p)
    PROVE  OnlyQueues(p, q) /\ Ordered(q)
<1>1. PICK n : n = p.k.nsent + 1
  OBVIOUS
<1>2. n \in Nat /\ p.k.nsent \in Nat
  BY <1>1, KField
<1>3. PICK r : r = [k |-> [p.k EXCEPT !.nsent = n], c |-> p.c]
  OBVIOUS
<1>4. q = SendEvent(r, Ask(n))
  BY <1>1, <1>3 DEF Counted, SendRequest
<1>5. /\ Forwards(p, r) /\ r \in PairType /\ r.k.bundle = p.k.bundle
      /\ \A x, s : Lined(p, x, s) => Lined(r, x, s)
  BY <1>2, <1>3, SetSizeFields
<1>6. r.k.nsent = n /\ r.k.bundleSize = p.k.bundleSize
  BY <1>3, KField DEF TaskRecord
<1>7. Reach(r) /\ (Live(p) <=> Live(r)) /\ OnlyQueues(p, r)
  BY <1>5, ReachQueues DEF Forwards
<1>8. /\ Ask(n) \in Message /\ Ask(n).evs = <<n>> /\ Len(<<n>>) = 1
      /\ (<<n>>)[1] = n
  BY <1>2, EventType DEF Ask
<1>9. /\ q.k.bundle = << >> /\ q.k.nsent = n
  BY <1>4, <1>5, <1>6, <1>8, SendEventFields
<1>10. /\ Forwards(r, q)
       /\ \A x \in Nat, s \in BOOLEAN :
             Live(r) /\ Lined(r, x, FALSE) /\ Placed(<<n>>, x, s)
                 => Lined(q, x + 1, s)
  BY <1>4, <1>5, <1>7, <1>8, SendEventLined
<1>11. Unpacked(q) /\ Forwards(p, q)
  BY <1>5, <1>9, <1>10, ForwardsTransitive DEF Unpacked
<1>12. CASE Live(p)
  <2>1. PICK x \in Nat : Lined(p, x, FALSE) /\ Packed(p, x, p.k.nsent)
    BY <1>12 DEF Ordered
  <2>2. x = p.k.nsent /\ n = x + 1
    BY <1>1, <1>2, <2>1, LenEmpty DEF Packed
  <2>3. Placed(<<n>>, x, FALSE)
    BY <1>8, <2>2 DEF Placed
  <2>4. Lined(q, n, FALSE)
    BY <1>5, <1>7, <1>10, <1>12, <2>1, <2>2, <2>3
  <2>5. Packed(q, n, q.k.nsent)
    <3>1. n + 0 = n
      BY <1>2
    <3> QED
      BY <1>2, <1>9, <3>1, PlacedEmpty, LenEmpty DEF Packed
  <2> QED
    BY <1>2, <1>11, <1>12, <2>4, <2>5, OrderedLive DEF Forwards
<1>13. CASE ~Live(p)
  BY <1>11, <1>13, OrderedIdle DEF Forwards
<1> QED
  BY <1>12, <1>13

-----------------------------------------------------------------------------
(* Connecting, closing and deleting.                                       *)

LEMMA AssociateFields ==
    ASSUME NEW p \in PairType, p.c.inbox # << >>, NEW q, q = Associate(p)
    PROVE  /\ q \in PairType
           /\ q.k.active = "active" /\ q.k.chan = "open" /\ q.k.sel = "client"
           /\ q.k.regd = FALSE /\ q.k.pending = << >>
           /\ q.k.local = p.k.local /\ q.k.held = p.k.held
           /\ q.k.bundle = p.k.bundle /\ q.k.bundleSize = p.k.bundleSize
           /\ q.k.nsent = p.k.nsent
           /\ q.c.proc = p.c.proc /\ q.c.hup = p.c.hup /\ q.c.got = p.c.got
           /\ q.c.nposted = p.c.nposted /\ q.c.inbox = Tail(p.c.inbox)
           /\ q.c.wire = IF Over(p.c) THEN p.c.wire
                         ELSE p.c.wire \o p.k.pending
<1>1. q \in PairType
  BY AssociateGood DEF Good
<1>2. PICK r : r = Write(p, p.k.pending)
  OBVIOUS
<1>3. PICK w : w = p.c.wire \o p.k.pending
  OBVIOUS
<1>4. r = IF Over(p.c) THEN p ELSE [k |-> p.k, c |-> [p.c EXCEPT !.wire = w]]
  BY <1>2, <1>3, Zenon DEF Write, Over
<1>5. p.k \in TaskRecord /\ p.c \in ClientRecord
  BY KField
<1>6. /\ r.k = p.k /\ r.c.proc = p.c.proc /\ r.c.inbox = p.c.inbox
      /\ r.c.hup = p.c.hup /\ r.c.got = p.c.got /\ r.c.nposted = p.c.nposted
      /\ r.c.wire = IF Over(p.c) THEN p.c.wire ELSE w
      /\ r.c \in ClientRecord
  <2>1. CASE Over(p.c)
    BY <1>4, <1>5, <2>1
  <2>2. CASE ~Over(p.c)
    <3>1. r.k = p.k /\ r.c = [p.c EXCEPT !.wire = w]
      BY <1>4, <2>2
    <3>2. r.c \in ClientRecord
      BY <1>2, WriteType, KField
    <3> QED
      BY <1>5, <2>2, <3>1, <3>2, WireFields
  <2> QED
    BY <2>1, <2>2
<1>7. PICK e : e = << >>
  OBVIOUS
<1>8. PICK i : i = Tail(r.c.inbox)
  OBVIOUS
<1>9. q = [k |-> [r.k EXCEPT !.pending = e, !.chan = "open",
                             !.active = "active", !.sel = "client",
                             !.regd = FALSE],
           c |-> [r.c EXCEPT !.inbox = i]]
  BY <1>2, <1>7, <1>8, Zenon DEF Associate
<1>10. /\ q.k = [p.k EXCEPT !.pending = e, !.chan = "open",
                            !.active = "active", !.sel = "client",
                            !.regd = FALSE]
       /\ q.c = [r.c EXCEPT !.inbox = i]
  BY <1>6, <1>9
<1>11. /\ q.k.active = "active" /\ q.k.chan = "open" /\ q.k.sel = "client"
       /\ q.k.regd = FALSE /\ q.k.pending = e
       /\ q.k.local = p.k.local /\ q.k.held = p.k.held
       /\ q.k.bundle = p.k.bundle /\ q.k.bundleSize = p.k.bundleSize
       /\ q.k.nsent = p.k.nsent
  BY <1>5, <1>10 DEF TaskRecord
<1>12. /\ q.c.proc = r.c.proc /\ q.c.hup = r.c.hup /\ q.c.got = r.c.got
       /\ q.c.nposted = r.c.nposted /\ q.c.inbox = i
       /\ q.c.wire = r.c.wire
  BY <1>6, <1>10 DEF ClientRecord
<1> QED
  BY <1>1, <1>3, <1>6, <1>7, <1>8, <1>11, <1>12

LEMMA AssociateOrdered ==
    ASSUME NEW p \in PairType, NEW kind, NEW w, NEW q, q = Associate(p),
           Staged(kind, w, p), Ordered(p), p.k.active # "none",
           p.c.inbox # << >>, p.k.chan = "none", ~p.c.hup
    PROVE  /\ q \in PairType
           /\ Staged(kind, FALSE, q) /\ Ordered(q)
           /\ q.k.bundle = p.k.bundle /\ q.k.held = p.k.held
           /\ q.k.active = "active" /\ q.k.chan = "open" /\ ~q.k.regd
<1>1. /\ q \in PairType
      /\ q.k.active = "active" /\ q.k.chan = "open" /\ q.k.sel = "client"
      /\ q.k.regd = FALSE /\ q.k.pending = << >>
      /\ q.k.local = p.k.local /\ q.k.held = p.k.held
      /\ q.k.bundle = p.k.bundle /\ q.k.bundleSize = p.k.bundleSize
      /\ q.k.nsent = p.k.nsent
      /\ q.c.proc = p.c.proc /\ q.c.hup = p.c.hup /\ q.c.got = p.c.got
      /\ q.c.nposted = p.c.nposted /\ q.c.inbox = Tail(p.c.inbox)
      /\ q.c.wire = IF Over(p.c) THEN p.c.wire
                    ELSE p.c.wire \o p.k.pending
  BY AssociateFields
<1>2. Staged(kind, FALSE, q)
  BY <1>1 DEF Staged, Over
<1>3. Placed(q.c.got, 0, TRUE) /\ Unpacked(q)
  BY <1>1 DEF Ordered, Unpacked
<1>4. ASSUME Live(q) PROVE \E x \in Nat : /\ Lined(q, x, FALSE)
                                          /\ Packed(q, x, q.k.nsent)
  <2>1. Live(p)
    BY <1>1, <1>4 DEF Live, Over
  <2>2. PICK x \in Nat : Lined(p, x, FALSE) /\ Packed(p, x, p.k.nsent)
    BY <2>1 DEF Ordered
  <2>3. p.c.wire = << >> /\ Way(p) = p.k.pending
    BY <2>2 DEF Lined, Way
  <2>4. q.c.wire = p.c.wire \o p.k.pending
    BY <1>1, <2>1 DEF Live
  <2>5. q.c.wire = p.k.pending
    BY <2>3, <2>4, KField, ConcatEmptySeq
  <2>6. Lined(q, x, FALSE)
    BY <1>1, <2>2, <2>3, <2>5 DEF Lined, Way
  <2>7. Packed(q, x, q.k.nsent)
    BY <1>1, <2>2 DEF Packed
  <2> QED
    BY <2>6, <2>7
<1>5. Ordered(q)
  BY <1>1, <1>3, <1>4 DEF Ordered
<1> QED
  BY <1>1, <1>2, <1>5

\* q is p with its channel closed.
IsClosed(p, q) ==
    /\ q \in PairType
    /\ q.k.chan = "none" /\ q.k.sel = "none" /\ q.k.local # "live"
    /\ p.k.local # "live" => q.k.local = p.k.local
    /\ p.k.local = "live" => q.k.local = "freed"
    /\ q.k.active = p.k.active /\ q.k.held = p.k.held
    /\ q.k.regd = p.k.regd /\ q.k.bundle = p.k.bundle
    /\ q.k.bundleSize = p.k.bundleSize
    /\ q.c.hup = TRUE /\ q.c.proc = p.c.proc /\ q.c.wire = p.c.wire
    /\ q.c.inbox = p.c.inbox /\ q.c.got = p.c.got
    /\ q.c.nposted = p.c.nposted

LEMMA CloseChannelFields ==
    ASSUME NEW p \in PairType, p.k.chan # "none", NEW q, q = CloseChannel(p)
    PROVE  IsClosed(p, q)
<1>1. PICK k : k = [p.k EXCEPT !.chan = "none", !.sel = "none",
                               !.local = IF @ = "live" THEN "freed" ELSE @]
  OBVIOUS
<1>2. PICK c : c = [p.c EXCEPT !.hup = TRUE]
  OBVIOUS
<1>3. q = [k |-> k, c |-> c]
  BY <1>1, <1>2 DEF CloseChannel
<1>4. q.k = k /\ q.c = c
  BY <1>3
<1>5. p.k \in TaskRecord /\ p.c \in ClientRecord
  BY KField
<1>6. /\ k \in TaskRecord
      /\ k.chan = "none" /\ k.sel = "none" /\ k.local # "live"
      /\ p.k.local # "live" => k.local = p.k.local
      /\ p.k.local = "live" => k.local = "freed"
      /\ k.active = p.k.active /\ k.held = p.k.held
      /\ k.regd = p.k.regd /\ k.bundle = p.k.bundle
      /\ k.bundleSize = p.k.bundleSize
  BY <1>1, <1>5 DEF TaskRecord
<1>7. /\ c \in ClientRecord
      /\ c.hup = TRUE /\ c.proc = p.c.proc /\ c.wire = p.c.wire
      /\ c.inbox = p.c.inbox /\ c.got = p.c.got /\ c.nposted = p.c.nposted
  BY <1>2, <1>5 DEF ClientRecord
<1>8. q \in PairType
  BY <1>3, <1>6, <1>7, PairIntro
<1> QED
  BY <1>4, <1>6, <1>7, <1>8 DEF IsClosed

\* What the channel's end of a Lined pair can still read.
LEMMA LinedDrains ==
    ASSUME NEW p \in PairType, NEW x \in Nat, NEW s \in BOOLEAN,
           p.k.chan = "open", Lined(p, x, s)
    PROVE  Drains(p)
<1>1. p.c.wire \in Seq(Message) /\ Len(p.c.got) \in Nat
  BY KField, LenProperties
<1>2. Chain(p.c.wire, Len(p.c.got), x, s)
  BY DEF Lined, Way
<1>3. Chain(p.c.wire, Len(p.c.got), x, TRUE)
  BY <1>1, <1>2, ChainSeal
<1> QED
  BY <1>3 DEF Lined, Drains

LEMMA CloseChannelOrdered ==
    ASSUME NEW p \in PairType, NEW kind, NEW w, NEW q, q = CloseChannel(p),
           Staged(kind, w, p), Ordered(p), p.k.active # "none"
    PROVE  /\ q \in PairType /\ Staged(kind, w, q) /\ Ordered(q)
           /\ q.k.active = p.k.active /\ q.c.proc = p.c.proc
           /\ q.c.inbox = p.c.inbox /\ q.c.nposted = p.c.nposted
           /\ q.c.hup \/ (p.k.chan = "none" /\ q.c.hup = p.c.hup)
<1>1. CASE p.k.chan = "none"
  BY <1>1 DEF CloseChannel
<1>2. CASE p.k.chan # "none"
  <2>1. /\ q \in PairType
        /\ q.k.chan = "none" /\ q.k.sel = "none" /\ q.k.local # "live"
        /\ p.k.local # "live" => q.k.local = p.k.local
        /\ p.k.local = "live" => q.k.local = "freed"
        /\ q.k.active = p.k.active /\ q.k.held = p.k.held
        /\ q.k.regd = p.k.regd /\ q.k.bundle = p.k.bundle
        /\ q.k.bundleSize = p.k.bundleSize
        /\ q.c.hup = TRUE /\ q.c.proc = p.c.proc /\ q.c.wire = p.c.wire
        /\ q.c.inbox = p.c.inbox /\ q.c.got = p.c.got
        /\ q.c.nposted = p.c.nposted
    <3>1. IsClosed(p, q)
      BY <1>2, CloseChannelFields
    <3> QED
      BY <3>1 DEF IsClosed
  <2>2. Staged(kind, w, q)
    BY <1>2, <2>1 DEF Staged, Over
  <2>3. Placed(q.c.got, 0, TRUE) /\ Unpacked(q) /\ ~Live(q)
    BY <2>1 DEF Ordered, Unpacked, Live
  <2>4. ASSUME ~Over(q.c), q.c.wire # << >> PROVE Drains(q)
    <3>1. ~Over(p.c) /\ p.c.wire # << >>
      BY <2>1, <2>4 DEF Over
    <3>2. CASE p.c.hup
      BY <2>1, <3>1, <3>2 DEF Ordered, Drains
    <3>3. CASE ~p.c.hup
      <4>1. p.k.chan = "open" /\ Live(p)
        BY <1>2, <3>1, <3>3, KField DEF Staged, Live
      <4>2. Drains(p)
        BY <4>1, LinedDrains DEF Ordered
      <4> QED
        BY <2>1, <4>2 DEF Drains
    <3> QED
      BY <3>2, <3>3
  <2> QED
    BY <2>1, <2>2, <2>3, <2>4 DEF Ordered
<1> QED
  BY <1>1, <1>2

LEMMA SetFinishedOrdered ==
    ASSUME NEW p \in PairType, NEW kind, NEW w, NEW q, q = SetFinished(p),
           Staged(kind, w, p), Ordered(p), p.k.active # "none"
    PROVE  /\ q \in PairType /\ Staged(kind, w, q) /\ Ordered(q)
           /\ q.k.active = "finished" /\ q.c.proc = p.c.proc
           /\ q.c.inbox = p.c.inbox /\ q.c.nposted = p.c.nposted
           /\ q.c.hup \/ (p.k.chan = "none" /\ q.c.hup = p.c.hup)
<1>1. PICK r : r = CloseChannel(p)
  OBVIOUS
<1>2. /\ r \in PairType /\ Staged(kind, w, r) /\ Ordered(r)
      /\ r.k.active = p.k.active /\ r.c.proc = p.c.proc
      /\ r.c.inbox = p.c.inbox /\ r.c.nposted = p.c.nposted
      /\ r.c.hup \/ (p.k.chan = "none" /\ r.c.hup = p.c.hup)
  BY <1>1, CloseChannelOrdered
<1>3. PICK k : k = [r.k EXCEPT !.active = "finished"]
  OBVIOUS
<1>4. q = [k |-> k, c |-> r.c]
  BY <1>1, <1>3 DEF SetFinished
<1>5. q.k = k /\ q.c = r.c
  BY <1>4
<1>6. r.k \in TaskRecord /\ r.c \in ClientRecord
  BY <1>2, KField
<1>7. /\ k \in TaskRecord
      /\ k.active = "finished" /\ k.chan = r.k.chan /\ k.local = r.k.local
      /\ k.sel = r.k.sel /\ k.held = r.k.held /\ k.regd = r.k.regd
      /\ k.pending = r.k.pending /\ k.bundle = r.k.bundle
      /\ k.bundleSize = r.k.bundleSize /\ k.nsent = r.k.nsent
  BY <1>3, <1>6 DEF TaskRecord
<1>8. q \in PairType
  BY <1>4, <1>6, <1>7, PairIntro
<1>9. Staged(kind, w, q)
  BY <1>2, <1>5, <1>7 DEF Staged
<1>10. Ordered(q)
  BY <1>2, <1>5, <1>7
     DEF Ordered, Unpacked, Live, Lined, Packed, Way, Drains
<1> QED
  BY <1>2, <1>5, <1>7, <1>8, <1>9, <1>10 DEF CloseChannel

\* ~Task() while the channel is open, or after it has been closed.
LEMMA DestroyOrdered ==
    ASSUME NEW p \in PairType, NEW kind, NEW w, NEW q, q = Destroy(p),
           Staged(kind, w, p), Ordered(p), p.k.active # "none", ~p.k.regd
    PROVE  /\ q \in PairType /\ Staged(kind, w, q) /\ Ordered(q)
           /\ q.k.active = "gone" /\ q.c.proc = p.c.proc /\ q.c.hup
           /\ q.c.inbox = p.c.inbox /\ q.c.nposted = p.c.nposted
<1>1. PICK r : r = SendOrBundle(p, Terminate)
  OBVIOUS
<1>2. PICK d : d = CloseChannel(r)
  OBVIOUS
<1>3. Reach(p) /\ Unpacked(p) /\ Terminate \in Nat
  BY StagedReach DEF Ordered, Terminate
<1>4. Forwards(p, r) /\ Joins(p, r, Terminate)
  BY <1>1, <1>3, SendOrBundleLined
<1>5. /\ r \in PairType /\ Staged(kind, w, r) /\ OnlyQueues(p, r)
      /\ r.k.active # "none" /\ ~r.k.regd
  BY <1>4, StagedQueues DEF Forwards, OnlyQueues
<1>6. p.k.chan = "open" \/ p.c.hup
  BY DEF Staged
<1>7. ~Over(r.c) /\ r.c.wire # << >> => Drains(r)
  <2> SUFFICES ASSUME ~Over(r.c), r.c.wire # << >> PROVE Drains(r)
    OBVIOUS
  <2>1. ~Over(p.c)
    BY <1>5 DEF OnlyQueues, Over
  <2>2. CASE Live(p)
    <3>1. PICK x \in Nat : Lined(p, x, FALSE) /\ Packed(p, x, p.k.nsent)
      BY <2>2 DEF Ordered
    <3>2. PICK y \in Nat : Lined(r, y, TRUE)
      BY <1>4, <2>2, <3>1 DEF Joins, Packed
    <3>3. r.k.chan = "open"
      BY <1>5, <1>6, <2>2 DEF OnlyQueues, Live
    <3> QED
      BY <1>5, <3>2, <3>3, LinedDrains
  <2>3. CASE ~Live(p)
    <3>1. r.c.wire = p.c.wire /\ r.c.got = p.c.got /\ p.c.hup
      BY <1>4, <2>1, <2>3 DEF Forwards, OnlyQueues, Live
    <3> QED
      BY <2>1, <3>1 DEF Ordered, Drains
  <2> QED
    BY <2>2, <2>3
<1>8. /\ d \in PairType
      /\ d.k.regd = r.k.regd /\ d.c.proc = r.c.proc /\ d.c.wire = r.c.wire
      /\ d.c.inbox = r.c.inbox /\ d.c.got = r.c.got
      /\ d.c.nposted = r.c.nposted
      /\ d.c.hup /\ d.k.chan = "none" /\ d.k.sel # "local"
  <2>1. CASE r.k.chan = "none"
    <3>1. d = r
      BY <1>2, <2>1 DEF CloseChannel
    <3>2. d.c.hup /\ d.k.sel # "local"
      BY <1>5, <2>1, <3>1 DEF Staged
    <3> QED
      BY <1>5, <2>1, <3>1, <3>2
  <2>2. CASE r.k.chan # "none"
    <3>1. r \in PairType /\ r.k.chan # "none" /\ d = CloseChannel(r)
      BY <1>2, <1>5, <2>2
    <3>2. IsClosed(r, d)
      BY <3>1, CloseChannelFields
    <3>3. d.k.sel = "none" /\ d.c.hup = TRUE /\ d \in PairType
      BY <3>2 DEF IsClosed
    <3>4. /\ d.k.chan = "none" /\ d.k.regd = r.k.regd /\ d.c.proc = r.c.proc
          /\ d.c.wire = r.c.wire /\ d.c.inbox = r.c.inbox
          /\ d.c.got = r.c.got /\ d.c.nposted = r.c.nposted
      BY <3>2 DEF IsClosed
    <3> QED
      BY <3>2, <3>3, <3>4
  <2> QED
    BY <2>1, <2>2
<1>9. d \in PairType
  BY <1>5, <1>8
<1>10. PICK e : e = << >>
  OBVIOUS
<1>11. PICK k : k = [d.k EXCEPT !.active = "gone", !.held = FALSE,
                                !.local = "none", !.pending = e, !.bundle = e]
  OBVIOUS
<1>12. q = [k |-> k, c |-> d.c]
  BY <1>1, <1>2, <1>10, <1>11, Zenon DEF Destroy
<1>13. q.k = k /\ q.c = d.c
  BY <1>12
<1>14. d.k \in TaskRecord /\ d.c \in ClientRecord
  BY <1>9, KField
<1>15. e \in Seq(Message) /\ e \in Seq(Nat)
  BY <1>10, EmptySequences
<1>16. /\ k \in TaskRecord
       /\ k.active = "gone" /\ k.chan = d.k.chan /\ k.local = "none"
       /\ k.sel = d.k.sel /\ k.regd = d.k.regd /\ k.bundle = e
  BY <1>11, <1>14, <1>15 DEF TaskRecord
<1>17. q \in PairType
  BY <1>12, <1>14, <1>16, PairIntro
<1>18. Staged(kind, w, q)
  BY <1>5, <1>8, <1>13, <1>16 DEF Staged, Over
<1>19. Placed(q.c.got, 0, TRUE)
  BY <1>5, <1>8, <1>13 DEF Ordered, OnlyQueues
<1>20. Unpacked(q) /\ ~Live(q)
  BY <1>8, <1>10, <1>13, <1>16 DEF Unpacked, Live
<1>21. ~Over(q.c) /\ q.c.wire # << >> => Drains(q)
  BY <1>7, <1>8, <1>13 DEF Drains, Over
<1> QED
  BY <1>5, <1>8, <1>13, <1>16, <1>17, <1>18, <1>19, <1>20, <1>21
     DEF Ordered, OnlyQueues

-----------------------------------------------------------------------------
(* What is heard of the client.                                            *)

\* Nothing is read, posted or closed, and nobody dies.
Quiet(p, q) ==
    /\ q.c.inbox = p.c.inbox /\ q.c.nposted = p.c.nposted
    /\ q.c.proc = p.c.proc
    /\ q.k.active = "finished" => p.k.active = "finished"
    /\ q.k.chan = "none" /\ ~q.c.hup => p.k.chan = "none" /\ ~p.c.hup

LEMMA QuietTold ==
    ASSUME NEW p, NEW q, NEW l, Quiet(p, q), Told(l, p)
    PROVE  Told(l, q)
<1>1. Tale(l, q.c.inbox, q.c.nposted)
  BY DEF Told, Quiet
<1>2. Ended(q)
  BY DEF Told, Quiet, Ended, Over
<1> QED
  BY <1>1, <1>2 DEF Told

LEMMA QueuesQuiet ==
    ASSUME NEW p, NEW q, OnlyQueues(p, q)
    PROVE  Quiet(p, q)
  BY DEF OnlyQueues, Quiet

\* The first note is read; "done" is the last.
LEMMA ReadTold ==
    ASSUME NEW p \in PairType, NEW l \in Seq(Notes), Told(l, p),
           p.c.inbox # << >>,
           NEW q, q.c.inbox = Tail(p.c.inbox), q.c.nposted = p.c.nposted,
           q.c.proc = p.c.proc, q.k.chan = "open" \/ q.c.hup,
           q.k.active = "finished" => Head(p.c.inbox).name = "done"
    PROVE  /\ Told(Append(l, Head(p.c.inbox)), q)
           /\ Head(p.c.inbox).name # "event" => Told(l, q)
<1>1. PICK s, i : s = p.c.inbox /\ i = Tail(s)
  OBVIOUS
<1>2. /\ s \in Seq(Notes) /\ i \in Seq(Notes) /\ s # << >>
      /\ p.c.nposted \in Nat
  BY <1>1, KField DEF ClientRecord
<1>3. /\ Len(s) \in Nat \ {0} /\ Len(i) = Len(s) - 1
      /\ \A j \in 1..Len(i) : i[j] = s[j + 1]
      /\ Head(s) = s[1]
  BY <1>1, <1>2, HeadTailProperties, EmptySeq, LenProperties
<1>4. /\ Tale(Append(l, Head(s)), i, p.c.nposted)
      /\ Head(s).name # "event" => Tale(l, i, p.c.nposted)
  BY <1>1, <1>2, TaleRead DEF Told
<1>5. \A j \in 1..Len(s) : s[j].name = "done"
          => j = Len(s) /\ p.c.proc = "exited"
  BY <1>1 DEF Told, Ended
<1>6. ASSUME NEW j \in 1..Len(i), i[j].name = "done"
      PROVE  j = Len(i) /\ q.c.proc = "exited"
  <2>1. j + 1 \in 1..Len(s) /\ s[j + 1].name = "done"
    BY <1>3, <1>6
  <2>2. j + 1 = Len(s) /\ p.c.proc = "exited"
    BY <1>5, <2>1
  <2> QED
    BY <1>3, <2>2
<1>7. ASSUME q.k.active = "finished" PROVE Over(q.c) /\ i = << >>
  <2>1. 1 \in 1..Len(s) /\ s[1].name = "done"
    BY <1>1, <1>3, <1>7
  <2>2. 1 = Len(s) /\ p.c.proc = "exited"
    BY <1>5, <2>1
  <2>3. Len(i) = 0
    <3>1. Len(i) = Len(s) - 1 /\ Len(s) = 1
      BY <1>3, <2>2
    <3> QED
      BY <3>1
  <2>4. i = << >>
    BY <1>2, <2>3, EmptySeq
  <2> QED
    BY <2>2, <2>4 DEF Over
<1>8. q.c.inbox = i
  BY <1>1
<1>9. Ended(q)
  BY <1>6, <1>7, <1>8 DEF Ended
<1> QED
  BY <1>1, <1>4, <1>8, <1>9 DEF Told

\* NewConnection() reads the first note, "established".
LEMMA EstablishedTold ==
    ASSUME NEW p \in PairType, NEW l \in Seq(Notes), Told(l, p),
           p.c.inbox # << >>, p.k.chan = "none", ~p.c.hup,
           NEW q, q.c.inbox = Tail(p.c.inbox), q.c.nposted = p.c.nposted,
           q.c.proc = p.c.proc, q.k.active # "finished",
           q.k.chan = "open" \/ q.c.hup
    PROVE  Told(l, q) /\ Told(Append(l, Note("established", 0)), q)
<1>1. Head(p.c.inbox).name # "event"
  BY DEF Told, Ended
<1>2. Told(l, q)
  BY <1>1, ReadTold
<1>3. Note("established", 0) \in Notes /\ Note("established", 0).name # "event"
  BY NoteType DEF Note
<1>4. q.c.inbox \in Seq(Notes) /\ q.c.nposted \in Nat
  BY KField DEF ClientRecord
<1>5. Tale(Append(l, Note("established", 0)), q.c.inbox, q.c.nposted)
  BY <1>2, <1>3, <1>4, TaleOther DEF Told
<1> QED
  BY <1>2, <1>5 DEF Told

\* The channel of a dead client is closed: all has been read, or a signal
\* killed it.
LEMMA LostTold ==
    ASSUME NEW p \in PairType, NEW l \in Seq(Notes), Told(l, p), Over(p.c),
           p.c.inbox = << >> \/ p.c.proc = "killed",
           NEW q, q.c.inbox = p.c.inbox, q.c.nposted = p.c.nposted,
           q.c.proc = p.c.proc,
           q.c.hup \/ (p.k.chan = "none" /\ q.c.hup = p.c.hup)
    PROVE  Told(l, q) /\ Told(Append(l, Note("fail", 0)), q)
<1>1. Tale(l, q.c.inbox, q.c.nposted)
  BY DEF Told
<1>2. Note("fail", 0) \in Notes /\ Note("fail", 0).name # "event"
  BY NoteType DEF Note
<1>3. q.c.inbox \in Seq(Notes) /\ q.c.nposted \in Nat
  BY KField DEF ClientRecord
<1>4. Tale(Append(l, Note("fail", 0)), q.c.inbox, q.c.nposted)
  BY <1>1, <1>2, <1>3, TaleOther
<1>5. Ended(q)
  BY DEF Told, Ended, Over
<1> QED
  BY <1>1, <1>4, <1>5 DEF Told

\* A client goes on, or dies, without a word.
LEMMA SilentTold ==
    ASSUME NEW p, NEW l, Told(l, p), ~Over(p.c),
           NEW q, q.k = p.k, q.c.hup = p.c.hup, q.c.inbox = p.c.inbox,
           q.c.nposted = p.c.nposted,
           q.c.proc = "running" => p.c.proc = "running"
    PROVE  Told(l, q)
<1>1. Ended(q)
  BY DEF Told, Ended, Over
<1> QED
  BY <1>1 DEF Told

\* A client sends m.
LEMMA SpokenTold ==
    ASSUME NEW p \in PairType, NEW l \in Seq(Notes), Told(l, p), ~Over(p.c),
           NEW m \in Notes,
           NEW q, q.k = p.k, q.c.hup = p.c.hup,
           q.c.inbox = Append(p.c.inbox, m),
           IF m.name = "event"
           THEN m.n = p.c.nposted + 1 /\ q.c.nposted = p.c.nposted + 1
           ELSE q.c.nposted = p.c.nposted,
           m.name = "done" => q.c.proc = "exited",
           p.c.inbox = << >> /\ p.k.chan = "none" /\ ~p.c.hup
               => m.name = "established"
    PROVE  Told(l, q)
<1>1. PICK s, i : s = p.c.inbox /\ i = Append(s, m)
  OBVIOUS
<1>2. s \in Seq(Notes) /\ p.c.nposted \in Nat
  BY <1>1, KField DEF ClientRecord
<1>3. /\ i \in Seq(Notes) /\ Len(i) = Len(s) + 1 /\ Len(s) \in Nat
      /\ \A j \in 1..Len(s) : i[j] = s[j]
      /\ i[Len(s) + 1] = m
  BY <1>1, <1>2, AppendNote
<1>4. q.c.inbox = i
  BY <1>1
<1>5. Tale(l, i, q.c.nposted)
  <2>1. Tale(l, s, p.c.nposted)
    BY <1>1 DEF Told
  <2>2. CASE m.name = "event"
    BY <1>1, <1>2, <2>1, <2>2, TalePost
  <2>3. CASE m.name # "event"
    BY <1>1, <1>2, <2>1, <2>3, TaleOther
  <2> QED
    BY <2>2, <2>3
<1>6. i # << >> /\ Head(i) = i[1]
  <2>1. Len(i) # 0
    BY <1>3
  <2>2. i # << >>
    BY <1>3, <2>1, EmptySeq
  <2> QED
    BY <1>3, <2>2, HeadTailProperties
<1>7. ASSUME p.k.chan = "none", ~p.c.hup PROVE Head(i).name = "established"
  <2>1. CASE s = << >>
    <3>1. Len(s) = 0 /\ 0 + 1 = 1
      BY <2>1, LenEmpty
    <3>2. i[1] = m
      BY <1>3, <3>1
    <3> QED
      BY <1>1, <1>6, <1>7, <2>1, <3>2
  <2>2. CASE s # << >>
    <3>1. Head(s).name = "established" /\ Head(s) = s[1]
      BY <1>1, <1>2, <1>7, <2>2, HeadTailProperties DEF Told, Ended
    <3>2. 1 \in 1..Len(s)
      BY <1>2, <1>3, <2>2, EmptySeq
    <3> QED
      BY <1>3, <1>6, <3>1, <3>2
  <2> QED
    BY <2>1, <2>2
<1>8. ASSUME NEW j \in 1..Len(i), i[j].name = "done"
      PROVE  j = Len(i) /\ q.c.proc = "exited"
  <2>1. j \notin 1..Len(s)
    <3>1. ASSUME j \in 1..Len(s) PROVE FALSE
      BY <1>1, <1>3, <1>8, <3>1 DEF Told, Ended, Over
    <3> QED
      BY <3>1
  <2>2. j = Len(s) + 1
    BY <1>3, <2>1
  <2> QED
    BY <1>3, <1>8, <2>2
<1>9. p.k.active # "finished"
  BY DEF Told, Ended
<1>10. Ended(q)
  BY <1>4, <1>6, <1>7, <1>8, <1>9 DEF Ended
<1> QED
  BY <1>4, <1>5, <1>10 DEF Told

-----------------------------------------------------------------------------
(* The handlers.                                                           *)

LEMMA PairOrdered ==
    ASSUME OInv, NEW t \in Tasks
    PROVE  /\ Pair(t) \in PairType /\ Pair(t).k = task[t]
           /\ Pair(t).c = client[t]
           /\ task[t] \in TaskRecord /\ client[t] \in ClientRecord
           /\ Staged(Kind[t], Waiting(t), Pair(t)) /\ Ordered(Pair(t))
           /\ Reach(Pair(t)) /\ Told(log[t], Pair(t)) /\ log[t] \in Seq(Notes)
<1>1. /\ IInv /\ Staged(Kind[t], Waiting(t), Pair(t)) /\ Ordered(Pair(t))
      /\ Told(log[t], Pair(t))
  BY DEF OInv
<1>2. log[t] \in Seq(Notes)
  BY DEF OInv, IInv, TypeOK
<1> QED
  BY <1>1, <1>2, PairGood, StagedReach

LEMMA HeldCreated ==
    ASSUME OInv, NEW t \in Tasks, task[t].held
    PROVE  Pair(t).k.active # "none"
  BY PairOrdered DEF Staged, NewTask

\* A handler that updates t, and may take t off backlog or put it there.
LEMMA StepUpdate ==
    ASSUME OInv, IInv', NEW t \in Tasks, NEW p \in PairType, Update(t, p),
           NEW w, w = Waiting(t)', Staged(Kind[t], w, p), Ordered(p),
           NEW l, log' = [log EXCEPT ![t] = l], Told(l, p),
           \A u \in Tasks : u # t => Waiting(u)' = Waiting(u),
           OneEach',
           \A u \in sigchld' : u \in sigchld \/ u = t,
           t \in sigchld' => p.c.proc = "killed",
           \/ waitFor' = NoTask
           \/ waitFor' \in {t, waitFor}
              /\ (waitFor' = t => p.k.bundle = << >>)
    PROVE  OInv'
<1>1. log' = [log EXCEPT ![t] = l] /\ log \in [Tasks -> Seq(Notes)]
  BY DEF OInv, IInv, TypeOK
<1>2. p = [k |-> p.k, c |-> p.c]
  BY DEF PairType
<1>3. /\ task' = [task EXCEPT ![t] = p.k] /\ client' = [client EXCEPT ![t] = p.c]
      /\ task \in [Tasks -> TaskRecord] /\ client \in [Tasks -> ClientRecord]
  BY DEF Update, OInv, IInv, TypeOK
<1>4. ASSUME NEW u \in Tasks
      PROVE  /\ Staged(Kind[u], Waiting(u), Pair(u))'
             /\ Ordered(Pair(u))' /\ Told(log[u], Pair(u))'
             /\ u \in sigchld' => client'[u].proc = "killed"
  <2>1. CASE u = t
    <3>1. task'[u] = p.k /\ client'[u] = p.c
      BY <1>3, <2>1
    <3>2. Pair(u)' = p
      BY <1>2, <3>1 DEF Pair
    <3>3. Staged(Kind[u], w, p) /\ w = Waiting(u)' /\ log'[u] = l
      BY <1>1, <2>1
    <3> QED
      BY <2>1, <3>1, <3>2, <3>3
  <2>2. CASE u # t
    <3>1. task'[u] = task[u] /\ client'[u] = client[u]
      BY <1>3, <2>2
    <3>2. Pair(u)' = Pair(u)
      BY <3>1 DEF Pair
    <3>3. /\ Staged(Kind[u], Waiting(u), Pair(u)) /\ Ordered(Pair(u))
          /\ Told(log[u], Pair(u))
          /\ u \in sigchld => client[u].proc = "killed"
      BY DEF OInv
    <3>4. Waiting(u)' = Waiting(u) /\ log'[u] = log[u]
      BY <1>1, <2>2
    <3> QED
      BY <2>2, <3>1, <3>2, <3>3, <3>4
  <2> QED
    BY <2>1, <2>2
<1>5. ASSUME waitFor' # NoTask PROVE task'[waitFor'].bundle = << >>
  <2>1. CASE waitFor' = t
    BY <1>3, <1>5, <2>1
  <2>2. CASE waitFor' # t
    <3>1. waitFor' = waitFor /\ waitFor \in Tasks
      BY <1>5, <2>2 DEF OInv, IInv, TypeOK
    <3>2. task'[waitFor] = task[waitFor]
      BY <1>3, <2>2, <3>1
    <3> QED
      BY <1>5, <3>1, <3>2 DEF OInv
  <2> QED
    BY <2>1, <2>2
<1> QED
  BY <1>4, <1>5 DEF OInv

\* A handler that leaves backlog alone.
LEMMA StepPlain ==
    ASSUME OInv, IInv', NEW t \in Tasks, NEW p \in PairType, Update(t, p),
           Staged(Kind[t], Waiting(t), p), Ordered(p), UNCHANGED backlog,
           NEW l, log' = [log EXCEPT ![t] = l], Told(l, p),
           \A u \in sigchld' : u \in sigchld \/ u = t,
           t \in sigchld' => p.c.proc = "killed",
           \/ waitFor' = NoTask
           \/ waitFor' \in {t, waitFor}
              /\ (waitFor' = t => p.k.bundle = << >>)
    PROVE  OInv'
<1>1. \A u \in Tasks : Waiting(u)' = Waiting(u)
  BY DEF Waiting
<1>2. OneEach'
  BY DEF OInv, OneEach
<1> QED
  BY <1>1, <1>2, StepUpdate

LEMMA StepSame ==
    ASSUME OInv, IInv', NEW t \in Tasks, NEW p \in PairType, Update(t, p),
           Staged(Kind[t], Waiting(t), p), Ordered(p),
           Quiet(Pair(t), p), UNCHANGED <<backlog, sigchld, log>>,
           \/ waitFor' = NoTask
           \/ waitFor' \in {t, waitFor}
              /\ (waitFor' = t => p.k.bundle = << >>)
    PROVE  OInv'
<1>1. t \in sigchld' => p.c.proc = "killed"
  BY PairOrdered DEF OInv, Quiet
<1>2. log' = [log EXCEPT ![t] = log[t]]
  BY DEF OInv, IInv, TypeOK
<1>3. Told(log[t], p)
  BY PairOrdered, QuietTold
<1> QED
  BY <1>1, <1>2, <1>3, StepPlain

LEMMA StepQueues ==
    ASSUME OInv, IInv', NEW t \in Tasks, NEW p, OnlyQueues(Pair(t), p),
           Ordered(p), Update(t, p), task[t].held,
           waitFor' = NoTask \/ (waitFor' = t /\ p.k.bundle = << >>),
           UNCHANGED <<backlog, sigchld, log>>
    PROVE  OInv'
<1>1. p \in PairType /\ Quiet(Pair(t), p)
  BY QueuesQuiet DEF OnlyQueues
<1>2. Staged(Kind[t], Waiting(t), p)
  BY PairOrdered, HeldCreated, StagedQueues
<1> QED
  BY <1>1, <1>2, StepSame

LEMMA CreateOrdered ==
    ASSUME OInv, IInv', NEW t \in Tasks, Create(t)
    PROVE  OInv'
<1>1. task[t].active = "none"
  BY DEF Create
<1>2. task[t] = NewTask /\ client[t] = NewClient /\ ~Waiting(t)
  BY <1>1, PairOrdered DEF Staged
<1>3. PICK k : k = [task[t] EXCEPT
                       !.active = "initial", !.held = TRUE, !.regd = TRUE,
                       !.local = IF Kind[t] = "pipe" THEN "live" ELSE @,
                       !.sel = IF Kind[t] = "pipe" THEN "local" ELSE @]
  OBVIOUS
<1>4. PICK c : c = [client[t] EXCEPT !.proc = "starting"]
  OBVIOUS
<1>5. PICK p : p = [k |-> k, c |-> c]
  OBVIOUS
<1>6. p.k = k /\ p.c = c
  BY <1>5
<1>7. task' = [task EXCEPT ![t] = k] /\ client' = [client EXCEPT ![t] = c]
  BY <1>3, <1>4 DEF Create
<1>8. task[t] \in TaskRecord /\ client[t] \in ClientRecord
  BY PairOrdered
<1>9. /\ k \in TaskRecord /\ k.active = "initial" /\ k.chan = "none"
      /\ k.regd = TRUE /\ k.bundle = << >> /\ k.pending = << >>
      /\ k.nsent = 0
      /\ k.local = IF Kind[t] = "pipe" THEN "live" ELSE "none"
      /\ k.sel = IF Kind[t] = "pipe" THEN "local" ELSE "none"
  <2>1. /\ task[t].chan = "none" /\ task[t].local = "none"
        /\ task[t].sel = "none" /\ task[t].nsent = 0
        /\ task[t].bundle = << >> /\ task[t].pending = << >>
    BY <1>2 DEF NewTask
  <2>2. /\ k \in TaskRecord /\ k.active = "initial" /\ k.regd = TRUE
        /\ k.chan = task[t].chan /\ k.nsent = task[t].nsent
        /\ k.bundle = task[t].bundle /\ k.pending = task[t].pending
        /\ k.local = IF Kind[t] = "pipe" THEN "live" ELSE task[t].local
        /\ k.sel = IF Kind[t] = "pipe" THEN "local" ELSE task[t].sel
    BY <1>3, <1>8 DEF TaskRecord
  <2> QED
    BY <2>1, <2>2
<1>10. /\ c \in ClientRecord /\ c.proc = "starting" /\ c.hup = FALSE
       /\ c.got = << >> /\ c.wire = << >> /\ c.inbox = << >>
       /\ c.nposted = client[t].nposted
  <2>1. /\ client[t].hup = FALSE /\ client[t].got = << >>
        /\ client[t].wire = << >> /\ client[t].inbox = << >>
    BY <1>2 DEF NewClient
  <2>2. /\ c \in ClientRecord /\ c.proc = "starting"
        /\ c.hup = client[t].hup /\ c.got = client[t].got
        /\ c.wire = client[t].wire /\ c.inbox = client[t].inbox
        /\ c.nposted = client[t].nposted
    BY <1>4, <1>8 DEF ClientRecord
  <2> QED
    BY <2>1, <2>2
<1>11. p \in PairType /\ Update(t, p)
  BY <1>5, <1>6, <1>7, <1>9, <1>10, PairIntro DEF Update
<1>12. Staged(Kind[t], Waiting(t), p)
  BY <1>2, <1>6, <1>9, <1>10 DEF Staged, Over
<1>13. Lined(p, 0, FALSE)
  BY <1>6, <1>9, <1>10, ChainEmpty, PlacedEmpty, LenEmpty DEF Lined, Way
<1>14. Packed(p, 0, p.k.nsent) /\ Placed(p.c.got, 0, TRUE) /\ Unpacked(p)
  <2>1. Placed(<< >>, 0, FALSE) /\ Placed(<< >>, 0, TRUE) /\ 0 + 0 = 0
    BY DEF Placed
  <2> QED
    BY <1>6, <1>9, <1>10, <2>1, LenEmpty DEF Packed, Unpacked
<1>15. Ordered(p)
  BY <1>6, <1>10, <1>13, <1>14 DEF Ordered
<1>16. /\ t \notin sigchld' /\ UNCHANGED <<backlog, sigchld>>
       /\ waitFor' = NoTask /\ log' = [log EXCEPT ![t] = log[t]]
  BY <1>2 DEF OInv, IInv, TypeOK, NewClient, Create, Idle
<1>17. Told(log[t], p)
  <2>1. client[t].inbox = << >> /\ Tale(log[t], << >>, client[t].nposted)
    BY <1>2, PairOrdered DEF NewClient, Told
  <2>2. Ended(p)
    BY <1>6, <1>9, <1>10, LenEmpty DEF Ended
  <2> QED
    BY <1>6, <1>10, <2>1, <2>2 DEF Told
<1> QED
  BY <1>11, <1>12, <1>15, <1>16, <1>17, StepPlain

LEMMA SendStepOrdered ==
    ASSUME OInv, IInv', NEW t \in Tasks,
           Send(t) \/ SetBundle(t) \/ Flush(t) \/ Request(t) \/ RequestWait(t)
    PROVE  OInv'
<1>1. /\ task[t].held /\ UNCHANGED <<backlog, sigchld, log>>
      /\ waitFor' = NoTask \/ (RequestWait(t) /\ waitFor' = t)
  BY DEF Send, SetBundle, Flush, Request, RequestWait, CanSend, CanAsk, Idle
<1>2. /\ Pair(t) \in PairType /\ Ordered(Pair(t)) /\ Reach(Pair(t))
      /\ Pair(t).k = task[t]
  BY PairOrdered
<1>3. CASE Send(t)
  <2>1. PICK q : q = SendOrBundle(Counted(Pair(t)), task[t].nsent + 1)
    OBVIOUS
  <2>2. Update(t, q)
    BY <1>3, <2>1 DEF Send
  <2>3. OnlyQueues(Pair(t), q) /\ Ordered(q)
    BY <1>2, <2>1, SendOrdered
  <2> QED
    BY <1>1, <1>3, <2>2, <2>3, StepQueues DEF Send, CanSend, Idle
<1>4. CASE SetBundle(t)
  <2>1. PICK n \in BundleSizes : Update(t, BundleEvents(Pair(t), n))
    BY <1>4 DEF SetBundle
  <2>2. PICK q : q = BundleEvents(Pair(t), n)
    OBVIOUS
  <2>3. n \in Nat /\ Update(t, q)
    BY <2>1, <2>2, BundleAssumption
  <2>4. OnlyQueues(Pair(t), q) /\ Ordered(q)
    BY <1>2, <2>2, <2>3, BundleOrdered
  <2> QED
    BY <1>1, <1>4, <2>3, <2>4, StepQueues DEF SetBundle, Idle
<1>5. CASE Flush(t) \/ RequestWait(t)
  <2>1. PICK q : q = FlushEvents(Pair(t))
    OBVIOUS
  <2>2. Update(t, q)
    BY <1>5, <2>1 DEF Flush, RequestWait
  <2>3. OnlyQueues(Pair(t), q) /\ Ordered(q) /\ q.k.bundle = << >>
    BY <1>2, <2>1, FlushOrdered
  <2> QED
    BY <1>1, <2>2, <2>3, StepQueues
<1>6. CASE Request(t)
  <2>1. PICK r : r = FlushEvents(Pair(t))
    OBVIOUS
  <2>2. PICK q : q = SendRequest(r)
    OBVIOUS
  <2>3. Update(t, q)
    BY <1>6, <2>1, <2>2 DEF Request
  <2>4. OnlyQueues(Pair(t), r) /\ Ordered(r) /\ r.k.bundle = << >>
    BY <1>2, <2>1, FlushOrdered
  <2>5. r \in PairType /\ Reach(r)
    BY <1>2, <2>4, ReachQueues DEF OnlyQueues
  <2>6. OnlyQueues(r, q) /\ Ordered(q)
    BY <2>2, <2>4, <2>5, SendRequestOrdered
  <2> QED
    BY <1>1, <1>6, <2>3, <2>4, <2>6, OnlyQueuesTransitive, StepQueues
     DEF Request, CanAsk, CanSend, Idle
<1> QED
  BY <1>3, <1>4, <1>5, <1>6

LEMMA DropOrdered ==
    ASSUME OInv, IInv', NEW t \in Tasks, Drop(t)
    PROVE  OInv'
<1>1. task[t].held /\ UNCHANGED <<backlog, sigchld, log>> /\ waitFor' = NoTask
  BY DEF Drop, Idle
<1>2. /\ Pair(t) \in PairType /\ Ordered(Pair(t)) /\ Pair(t).k = task[t]
      /\ Pair(t).c = client[t] /\ task[t] \in TaskRecord
      /\ Staged(Kind[t], Waiting(t), Pair(t)) /\ client[t] \in ClientRecord
  BY PairOrdered
<1>3. Pair(t).k.active # "none"
  BY <1>1, HeldCreated
<1>4. CASE task[t].regd
  <2>1. PICK k : k = [task[t] EXCEPT !.held = FALSE]
    OBVIOUS
  <2>2. PICK p : p = [k |-> k, c |-> client[t]]
    OBVIOUS
  <2>3. p.k = k /\ p.c = client[t]
    BY <2>2
  <2>4. /\ k \in TaskRecord
        /\ k.active = task[t].active /\ k.chan = task[t].chan
        /\ k.local = task[t].local /\ k.sel = task[t].sel
        /\ k.regd = task[t].regd /\ k.pending = task[t].pending
        /\ k.bundle = task[t].bundle /\ k.bundleSize = task[t].bundleSize
        /\ k.nsent = task[t].nsent
    BY <1>2, <2>1 DEF TaskRecord
  <2>5. p \in PairType
    BY <1>2, <2>2, <2>4, PairIntro
  <2>6. Staged(Kind[t], Waiting(t), p)
    BY <1>2, <1>3, <2>3, <2>4 DEF Staged
  <2>7. Ordered(p)
    BY <1>2, <2>3, <2>4
       DEF Ordered, Unpacked, Live, Lined, Packed, Way, Drains
  <2>8. task' = [task EXCEPT ![t] = k] /\ client' = client
    BY <1>4, <2>1 DEF Drop
  <2>9. client = [client EXCEPT ![t] = client[t]]
    BY DEF OInv, IInv, TypeOK
  <2>10. Update(t, p)
    BY <2>3, <2>8, <2>9 DEF Update
  <2>11. Quiet(Pair(t), p)
    BY <1>2, <2>3, <2>4 DEF Quiet
  <2> QED
    BY <1>1, <2>5, <2>6, <2>7, <2>10, <2>11, StepSame
<1>5. CASE ~task[t].regd
  <2>1. PICK p : p = Destroy(Pair(t))
    OBVIOUS
  <2>2. Update(t, p)
    BY <1>5, <2>1 DEF Drop
  <2>3. /\ p \in PairType /\ Staged(Kind[t], Waiting(t), p) /\ Ordered(p)
        /\ Quiet(Pair(t), p)
    BY <1>2, <1>3, <1>5, <2>1, DestroyOrdered DEF Quiet
  <2> QED
    BY <1>1, <2>2, <2>3, StepSame
<1> QED
  BY <1>4, <1>5

\* The orphan channel of a client that is dead, the stale one of a client
\* that has been closed: nothing can be read from either any more.
LEMMA Dangling ==
    ASSUME NEW p \in PairType, NEW kind, NEW w, Staged(kind, w, p),
           Ordered(p), p.k.active # "none", p.k.chan = "none",
           NEW q, Forwards(p, q), NEW r \in PairType, r.c = q.c,
           r.k.active = q.k.active, r.k.local = q.k.local,
           r.k.regd = q.k.regd, r.k.bundle = << >>,
           \/ /\ r.k.chan = "orphan" /\ r.k.sel = "none"
              /\ p.k.local = "live" /\ Over(p.c)
           \/ /\ r.k.chan = "stale" /\ r.k.sel = q.k.sel
              /\ p.k.local = "freed"
    PROVE  Staged(kind, w, r) /\ Ordered(r) /\ Quiet(p, r)
<1>1. Staged(kind, w, r)
  BY DEF Staged, Forwards, OnlyQueues, Over
<1>2. ~Live(p) /\ ~Live(r) /\ r.c.wire = p.c.wire
  BY DEF Live, Staged, Forwards, OnlyQueues, Over
<1>3. Ordered(r)
  BY <1>2 DEF Ordered, Forwards, OnlyQueues, Unpacked, Drains, Over
<1> QED
  BY <1>1, <1>3 DEF Forwards, OnlyQueues, Quiet

LEMMA OrphanFields ==
    ASSUME NEW q \in PairType, NEW r,
           r = [k |-> [q.k EXCEPT !.chan = "orphan", !.sel = "none"], c |-> q.c]
    PROVE  /\ r \in PairType /\ r.c = q.c
           /\ r.k.chan = "orphan" /\ r.k.sel = "none"
           /\ r.k.active = q.k.active /\ r.k.local = q.k.local
           /\ r.k.regd = q.k.regd /\ r.k.bundle = q.k.bundle
<1>1. PICK k : k = [q.k EXCEPT !.chan = "orphan", !.sel = "none"]
  OBVIOUS
<1>2. r = [k |-> k, c |-> q.c] /\ r.k = k /\ r.c = q.c
  BY <1>1
<1>3. q.k \in TaskRecord /\ q.c \in ClientRecord
  BY KField
<1>4. /\ k \in TaskRecord /\ k.chan = "orphan" /\ k.sel = "none"
      /\ k.active = q.k.active /\ k.local = q.k.local /\ k.regd = q.k.regd
      /\ k.bundle = q.k.bundle
  BY <1>1, <1>3 DEF TaskRecord
<1> QED
  BY <1>2, <1>3, <1>4, PairIntro

LEMMA StaleFields ==
    ASSUME NEW q \in PairType, NEW r,
           r = [k |-> [q.k EXCEPT !.chan = "stale"], c |-> q.c]
    PROVE  /\ r \in PairType /\ r.c = q.c
           /\ r.k.chan = "stale" /\ r.k.sel = q.k.sel
           /\ r.k.active = q.k.active /\ r.k.local = q.k.local
           /\ r.k.regd = q.k.regd /\ r.k.bundle = q.k.bundle
<1>1. PICK k : k = [q.k EXCEPT !.chan = "stale"]
  OBVIOUS
<1>2. r = [k |-> k, c |-> q.c] /\ r.k = k /\ r.c = q.c
  BY <1>1
<1>3. q.k \in TaskRecord /\ q.c \in ClientRecord
  BY KField
<1>4. /\ k \in TaskRecord /\ k.chan = "stale" /\ k.sel = q.k.sel
      /\ k.active = q.k.active /\ k.local = q.k.local /\ k.regd = q.k.regd
      /\ k.bundle = q.k.bundle
  BY <1>1, <1>3 DEF TaskRecord
<1> QED
  BY <1>2, <1>3, <1>4, PairIntro

LEMMA RequestLocalOrdered ==
    ASSUME OInv, IInv', NEW t \in Tasks, RequestLocal(t)
    PROVE  OInv'
<1>1. /\ task[t].held /\ UNCHANGED <<backlog, sigchld>>
      /\ task[t].chan = "none" /\ task[t].local = "live" /\ Readable(t)
      /\ waitFor' = NoTask
  BY DEF RequestLocal, CanSend, CanAsk, Idle
<1>2. /\ Pair(t) \in PairType /\ Ordered(Pair(t)) /\ Pair(t).k = task[t]
      /\ Pair(t).c = client[t] /\ Reach(Pair(t))
      /\ Staged(Kind[t], Waiting(t), Pair(t))
  BY PairOrdered
<1>3. Pair(t).k.active # "none"
  BY <1>1, HeldCreated
<1>4. PICK p : p = FlushEvents(Pair(t))
  OBVIOUS
<1>5. /\ OnlyQueues(Pair(t), p) /\ Ordered(p) /\ p.k.bundle = << >>
      /\ Forwards(Pair(t), p)
  BY <1>2, <1>4, FlushOrdered, FlushEventsLined
<1>6. /\ p \in PairType /\ Staged(Kind[t], Waiting(t), p)
      /\ p.k.active # "none" /\ Reach(p)
  BY <1>2, <1>3, <1>5, StagedQueues, ReachQueues DEF OnlyQueues
<1>7. CASE AtEOF(t)
  <2>1. PICK q : q = Counted(p)
    OBVIOUS
  <2>2. PICK n : n = p.k.nsent + 1
    OBVIOUS
  <2>3. n \in Nat /\ q = [k |-> [p.k EXCEPT !.nsent = n], c |-> p.c]
    BY <1>6, <2>1, <2>2, KField DEF Counted
  <2>4. Forwards(p, q) /\ q \in PairType /\ q.k.bundle = << >>
    BY <1>5, <1>6, <2>3, SetSizeFields
  <2>5. Forwards(Pair(t), q)
    BY <1>5, <2>4, ForwardsTransitive
  <2>6. PICK r : r = [k |-> [q.k EXCEPT !.chan = "orphan", !.sel = "none"],
                      c |-> q.c]
    OBVIOUS
  <2>7. Update(t, r)
    BY <1>4, <1>7, <2>1, <2>6 DEF RequestLocal
  <2>8. Over(Pair(t).c)
    BY <1>2, <1>7 DEF AtEOF, Dead, Over
  <2>9. /\ r \in PairType /\ r.c = q.c /\ r.k.chan = "orphan"
        /\ r.k.sel = "none" /\ r.k.active = q.k.active
        /\ r.k.local = q.k.local /\ r.k.regd = q.k.regd
        /\ r.k.bundle = << >>
    BY <2>4, <2>6, OrphanFields
  <2>10. /\ Staged(Kind[t], Waiting(t), r) /\ Ordered(r)
         /\ Quiet(Pair(t), r)
    BY <1>1, <1>2, <1>3, <2>5, <2>8, <2>9, Dangling
  <2>11. UNCHANGED log
    BY <1>7 DEF RequestLocal
  <2> QED
    BY <1>1, <2>7, <2>9, <2>10, <2>11, StepSame
<1>8. CASE ~AtEOF(t)
  <2>1. PICK q : q = Associate(p)
    OBVIOUS
  <2>2. PICK r : r = SendRequest(q)
    OBVIOUS
  <2>3. Update(t, r)
    BY <1>4, <1>8, <2>1, <2>2 DEF RequestLocal
  <2>4. p.c.inbox # << >> /\ p.k.chan = "none" /\ ~p.c.hup
    BY <1>1, <1>2, <1>5, <1>8 DEF AtEOF, Readable, OnlyQueues, Staged
  <2>5. /\ q \in PairType /\ Staged(Kind[t], FALSE, q) /\ Ordered(q)
        /\ q.k.bundle = << >> /\ q.k.active # "none"
    BY <1>5, <1>6, <2>1, <2>4, AssociateOrdered
  <2>6. ~Waiting(t)
    BY <1>1, <1>2 DEF Staged
  <2>7. OnlyQueues(q, r) /\ Ordered(r)
    BY <2>2, <2>5, StagedReach, SendRequestOrdered
  <2>8. Staged(Kind[t], FALSE, r) /\ r \in PairType
    BY <2>5, <2>7, StagedQueues DEF OnlyQueues
  <2>9. Staged(Kind[t], Waiting(t), r)
    BY <2>6, <2>8 DEF Staged
  <2>10. /\ r.c.proc = client[t].proc /\ r.c.nposted = p.c.nposted
         /\ r.c.inbox = Tail(p.c.inbox) /\ r.k.chan = "open"
         /\ r.k.active = "active" /\ p.c.proc = client[t].proc
    <3>1. /\ q.c.proc = p.c.proc /\ q.c.nposted = p.c.nposted
          /\ q.c.inbox = Tail(p.c.inbox) /\ q.k.chan = "open"
          /\ q.k.active = "active"
      BY <1>6, <2>1, <2>4, AssociateFields
    <3>2. p.c.proc = client[t].proc
      BY <1>2, <1>5 DEF OnlyQueues
    <3> QED
      BY <2>7, <3>1, <3>2 DEF OnlyQueues
  <2>11. Told(log[t], p) /\ log[t] \in Seq(Notes)
    BY <1>5, PairOrdered, QueuesQuiet, QuietTold
  <2>12. PICK l : l = Append(log[t], Note("established", 0))
    OBVIOUS
  <2>13. Told(l, r)
    BY <1>6, <2>4, <2>10, <2>11, <2>12, EstablishedTold
  <2>14. log' = [log EXCEPT ![t] = l]
    BY <1>8, <2>12 DEF RequestLocal, Record
  <2>15. t \in sigchld' => r.c.proc = "killed"
    BY <1>1, <2>10 DEF OInv
  <2> QED
    BY <1>1, <2>3, <2>7, <2>8, <2>9, <2>13, <2>14, <2>15, StepPlain
<1> QED
  BY <1>7, <1>8

LEMMA RequestFreedOrdered ==
    ASSUME OInv, IInv', NEW t \in Tasks, RequestFreed(t)
    PROVE  OInv'
<1>1. /\ task[t].held /\ UNCHANGED <<backlog, sigchld>>
      /\ task[t].chan = "none" /\ task[t].local = "freed"
      /\ waitFor' = NoTask
  BY DEF RequestFreed, CanSend, CanAsk, Idle
<1>2. /\ Pair(t) \in PairType /\ Ordered(Pair(t)) /\ Pair(t).k = task[t]
      /\ Pair(t).c = client[t] /\ Reach(Pair(t))
      /\ Staged(Kind[t], Waiting(t), Pair(t))
  BY PairOrdered
<1>3. Pair(t).k.active # "none"
  BY <1>1, HeldCreated
<1>4. PICK p : p = FlushEvents(Pair(t))
  OBVIOUS
<1>5. p \in PairType /\ p.k.bundle = << >> /\ Forwards(Pair(t), p)
  BY <1>2, <1>4, FlushEventsLined DEF Forwards, OnlyQueues
<1>6. PICK q : q = Counted(p)
  OBVIOUS
<1>7. PICK n : n = p.k.nsent + 1
  OBVIOUS
<1>8. n \in Nat /\ q = [k |-> [p.k EXCEPT !.nsent = n], c |-> p.c]
  BY <1>5, <1>6, <1>7, KField DEF Counted
<1>9. Forwards(p, q) /\ q \in PairType /\ q.k.bundle = << >>
  BY <1>5, <1>8, SetSizeFields
<1>10. Forwards(Pair(t), q)
  BY <1>5, <1>9, ForwardsTransitive
<1>11. PICK r : r = [k |-> [q.k EXCEPT !.chan = "stale"], c |-> q.c]
  OBVIOUS
<1>12. Update(t, r)
  BY <1>4, <1>6, <1>11 DEF RequestFreed
<1>13. /\ r \in PairType /\ r.c = q.c /\ r.k.chan = "stale"
       /\ r.k.sel = q.k.sel /\ r.k.active = q.k.active
       /\ r.k.local = q.k.local /\ r.k.regd = q.k.regd
       /\ r.k.bundle = << >>
  BY <1>9, <1>11, StaleFields
<1>14. /\ Staged(Kind[t], Waiting(t), r) /\ Ordered(r)
       /\ Quiet(Pair(t), r)
  BY <1>1, <1>2, <1>3, <1>10, <1>13, Dangling
<1>15. UNCHANGED log
  BY DEF RequestFreed
<1> QED
  BY <1>1, <1>12, <1>13, <1>14, <1>15, StepSame

-----------------------------------------------------------------------------
(* Connections.                                                            *)

\* A connection that can be made: no channel yet, and none closed.
Fresh(t) ==
    /\ task[t].active # "none" /\ task[t].chan = "none" /\ ~client[t].hup

\* t becomes p, and its log something that tells the same.
Heard(t, p) == \E l : log' = [log EXCEPT ![t] = l] /\ Told(l, p)

LEMMA HeardSame ==
    ASSUME OInv, NEW t \in Tasks, NEW p, Told(log[t], p), UNCHANGED log
    PROVE  Heard(t, p)
<1>1. log' = [log EXCEPT ![t] = log[t]]
  BY DEF OInv, IInv, TypeOK
<1> QED
  BY <1>1 DEF Heard

\* What NewConnection() makes of t, in every case.
LEMMA NewConnectionOrdered ==
    ASSUME OInv, NEW t \in Tasks, Fresh(t), Readable(t),
           \/ NewConnectionBroken(t)
           \/ NewConnectionKept(t, Associate(Pair(t)))
           \/ NewConnectionUnwanted(t)
           \/ NewConnectionKept(t, SendRequest(Associate(Pair(t))))
              /\ task[t].bundle = << >>
    PROVE  \E p \in PairType : /\ Update(t, p)
                               /\ Staged(Kind[t], FALSE, p)
                               /\ Ordered(p) /\ p.c.proc = client[t].proc
                               /\ Heard(t, p)
<1>1. /\ Pair(t) \in PairType /\ Ordered(Pair(t)) /\ Pair(t).k = task[t]
      /\ Pair(t).c = client[t] /\ Staged(Kind[t], Waiting(t), Pair(t))
      /\ task[t] \in TaskRecord /\ client[t] \in ClientRecord
      /\ Told(log[t], Pair(t)) /\ log[t] \in Seq(Notes)
  BY PairOrdered
<1>2. CASE NewConnectionBroken(t)
  <2>1. PICK k : k = [task[t] EXCEPT !.sel = IF @ = "local" THEN "none" ELSE @]
    OBVIOUS
  <2>2. PICK p : p = [k |-> k, c |-> client[t]]
    OBVIOUS
  <2>3. p.k = k /\ p.c = client[t]
    BY <2>2
  <2>4. /\ k \in TaskRecord
        /\ k.active = task[t].active /\ k.chan = task[t].chan
        /\ k.local = task[t].local /\ k.sel # "local"
        /\ k.regd = task[t].regd /\ k.pending = task[t].pending
        /\ k.bundle = task[t].bundle /\ k.bundleSize = task[t].bundleSize
        /\ k.nsent = task[t].nsent
    BY <1>1, <2>1 DEF TaskRecord
  <2>5. p \in PairType
    BY <1>1, <2>2, <2>4, PairIntro
  <2>6. Staged(Kind[t], FALSE, p)
    BY <1>1, <2>3, <2>4 DEF Staged, Fresh
  <2>7. Ordered(p)
    BY <1>1, <2>3, <2>4
       DEF Ordered, Unpacked, Live, Lined, Packed, Way, Drains
  <2>8. task' = [task EXCEPT ![t] = k] /\ client' = client
    BY <1>2, <2>1 DEF NewConnectionBroken
  <2>9. client = [client EXCEPT ![t] = client[t]]
    BY DEF OInv, IInv, TypeOK
  <2>10. Update(t, p)
    BY <2>3, <2>8, <2>9 DEF Update
  <2>11. Quiet(Pair(t), p) /\ UNCHANGED log
    BY <1>1, <1>2, <2>3, <2>4 DEF Quiet, NewConnectionBroken
  <2>12. Heard(t, p)
    BY <1>1, <2>11, QuietTold, HeardSame
  <2> QED
    BY <2>3, <2>5, <2>6, <2>7, <2>10, <2>12
<1>3. CASE ~NewConnectionBroken(t)
  <2>1. ~AtEOF(t)
    BY <1>3 DEF NewConnectionKept, NewConnectionUnwanted
  <2>2. PICK q : q = Associate(Pair(t))
    OBVIOUS
  <2>3. /\ Pair(t).k.active # "none" /\ Pair(t).c.inbox # << >>
        /\ Pair(t).k.chan = "none" /\ ~Pair(t).c.hup
    BY <1>1, <2>1 DEF Readable, AtEOF, Fresh
  <2>4. /\ q \in PairType /\ Staged(Kind[t], FALSE, q) /\ Ordered(q)
        /\ q.k.bundle = Pair(t).k.bundle
        /\ q.k.active = "active" /\ q.k.chan = "open" /\ ~q.k.regd
    BY <1>1, <2>2, <2>3, AssociateOrdered
  <2>5. /\ q.c.proc = client[t].proc /\ q.c.nposted = Pair(t).c.nposted
        /\ q.c.inbox = Tail(Pair(t).c.inbox)
    <3>1. PICK p : p = Pair(t)
      OBVIOUS
    <3>2. p \in PairType /\ p.c.inbox # << >> /\ q = Associate(p)
      BY <1>1, <2>2, <2>3, <3>1
    <3>3. /\ q.c.proc = p.c.proc /\ q.c.nposted = p.c.nposted
          /\ q.c.inbox = Tail(p.c.inbox)
      BY <3>2, AssociateFields
    <3>4. p.c.proc = client[t].proc
      BY <3>1 DEF Pair
    <3> QED
      BY <3>1, <3>3, <3>4
  <2>6. PICK l : l = Append(log[t], Note("established", 0))
    OBVIOUS
  <2>7. ASSUME NEW p, Quiet(q, p), p.k.chan = "open" \/ p.c.hup,
                p.k.active # "finished"
         PROVE  Told(log[t], p) /\ Told(l, p)
    BY <1>1, <2>3, <2>5, <2>6, <2>7, EstablishedTold DEF Quiet
  <2>8. CASE NewConnectionKept(t, Associate(Pair(t)))
    <3>1. Update(t, q) /\ log' = [log EXCEPT ![t] = l]
      BY <2>2, <2>8, <2>6 DEF NewConnectionKept, Record
    <3>2. Quiet(q, q)
      BY DEF Quiet
    <3>3. Heard(t, q)
      BY <2>4, <2>7, <3>1, <3>2 DEF Heard
    <3> QED
      BY <2>4, <2>5, <3>1, <3>3
  <2>9. CASE NewConnectionUnwanted(t)
    <3>1. PICK p : p = Destroy(q)
      OBVIOUS
    <3>2. Update(t, p) /\ UNCHANGED log
      BY <2>2, <2>9, <3>1 DEF NewConnectionUnwanted
    <3>3. /\ p \in PairType /\ Staged(Kind[t], FALSE, p) /\ Ordered(p)
          /\ p.c.proc = q.c.proc /\ p.c.hup /\ p.k.active = "gone"
          /\ p.c.inbox = q.c.inbox /\ p.c.nposted = q.c.nposted
      BY <2>4, <3>1, DestroyOrdered
    <3>4. Told(log[t], p)
      BY <2>7, <3>3 DEF Quiet
    <3>5. Heard(t, p)
      BY <3>2, <3>4, HeardSame
    <3> QED
      BY <2>5, <3>2, <3>3, <3>5
  <2>10. CASE /\ NewConnectionKept(t, SendRequest(Associate(Pair(t))))
             /\ task[t].bundle = << >>
    <3>1. PICK p : p = SendRequest(q)
      OBVIOUS
    <3>2. Update(t, p) /\ log' = [log EXCEPT ![t] = l]
      BY <2>2, <2>10, <2>6, <3>1 DEF NewConnectionKept, Record
    <3>3. OnlyQueues(q, p) /\ Ordered(p)
      BY <1>1, <2>4, <2>10, <3>1, StagedReach, SendRequestOrdered
    <3>4. /\ Staged(Kind[t], FALSE, p) /\ p \in PairType
          /\ p.c.proc = client[t].proc
      BY <2>4, <2>5, <3>3, StagedQueues DEF OnlyQueues
    <3>5. p.k.chan = "open" /\ p.k.active = "active"
      BY <2>4, <3>3 DEF OnlyQueues
    <3>6. Told(l, p)
      BY <2>7, <3>3, <3>5, QueuesQuiet
    <3>7. Heard(t, p)
      BY <3>2, <3>6 DEF Heard
    <3> QED
      BY <3>2, <3>3, <3>4, <3>7
  <2> QED
    BY <1>3, <2>8, <2>9, <2>10
<1> QED
  BY <1>2, <1>3

\* Taking the oldest connection off backlog.
LEMMA Dequeued ==
    ASSUME OInv, backlog # << >>, backlog' = Tail(backlog),
           NEW t, t = Head(backlog)
    PROVE  /\ t \in Tasks /\ Waiting(t) /\ ~Waiting(t)' /\ OneEach'
           /\ \A u \in Tasks : u # t => Waiting(u)' = Waiting(u)
<1>1. backlog \in Seq(Tasks)
  BY DEF OInv, IInv, TypeOK
<1>2. PICK b : b = backlog'
  OBVIOUS
<1>3. /\ Len(b) = Len(backlog) - 1 /\ Len(backlog) \in Nat \ {0}
      /\ \A i \in 1..Len(b) : b[i] = backlog[i + 1]
      /\ t = backlog[1] /\ t \in Tasks
  BY <1>1, <1>2, HeadTailProperties, EmptySeq, LenProperties
<1>4. \A i, j \in 1..Len(backlog) : backlog[i] = backlog[j] => i = j
  BY DEF OInv, OneEach
<1>5. Waiting(t)
  BY <1>3 DEF Waiting
<1>6. ASSUME NEW i \in 1..Len(b)
      PROVE  i + 1 \in 1..Len(backlog) /\ b[i] = backlog[i + 1] /\ i + 1 # 1
  BY <1>3
<1>7. ~Waiting(t)'
  <2> SUFFICES ASSUME NEW i \in 1..Len(b), b[i] = t PROVE FALSE
    BY <1>2 DEF Waiting
  <2>1. backlog[i + 1] = backlog[1] /\ 1 \in 1..Len(backlog)
    BY <1>3, <1>6
  <2> QED
    BY <1>4, <1>6, <2>1
<1>8. OneEach'
  <2> SUFFICES ASSUME NEW i \in 1..Len(b), NEW j \in 1..Len(b), b[i] = b[j]
               PROVE  i = j
    BY <1>2 DEF OneEach
  <2>1. i + 1 = j + 1
    BY <1>4, <1>6
  <2> QED
    BY <1>3, <2>1
<1>9. ASSUME NEW u \in Tasks, u # t PROVE Waiting(u)' = Waiting(u)
  <2>1. ASSUME NEW i \in 1..Len(backlog), backlog[i] = u
        PROVE  i - 1 \in 1..Len(b) /\ b[i - 1] = u
    <3>1. i # 1
      BY <1>3, <1>9, <2>1
    <3>2. i - 1 \in 1..Len(b) /\ (i - 1) + 1 = i
      BY <1>3, <3>1
    <3>3. b[i - 1] = backlog[(i - 1) + 1]
      BY <1>3, <3>2
    <3> QED
      BY <2>1, <3>2, <3>3
  <2>2. Waiting(u) => Waiting(u)'
    BY <1>2, <2>1 DEF Waiting
  <2>3. Waiting(u)' => Waiting(u)
    BY <1>2, <1>6 DEF Waiting
  <2> QED
    BY <2>2, <2>3 DEF Waiting
<1> QED
  BY <1>3, <1>5, <1>7, <1>8, <1>9

LEMMA LocalReadyOrdered ==
    ASSUME OInv, IInv', NEW t \in Tasks, LocalReady(t)
    PROVE  OInv'
<1>1. /\ task[t].sel = "local" /\ Readable(t)
      /\ \/ NewConnectionBroken(t)
         \/ NewConnectionKept(t, Associate(Pair(t)))
         \/ NewConnectionUnwanted(t)
      /\ UNCHANGED <<backlog, sigchld>> /\ waitFor' = NoTask
  BY DEF LocalReady, Idle
<1>2. Fresh(t) /\ ~Waiting(t)
  BY <1>1, PairOrdered DEF Fresh, Staged, NewTask
<1>3. PICK p \in PairType : /\ Update(t, p) /\ Staged(Kind[t], FALSE, p)
                            /\ Ordered(p) /\ p.c.proc = client[t].proc
                            /\ Heard(t, p)
  BY <1>1, <1>2, NewConnectionOrdered
<1>4. Staged(Kind[t], Waiting(t), p)
  BY <1>2, <1>3 DEF Staged
<1>5. PICK l : log' = [log EXCEPT ![t] = l] /\ Told(l, p)
  BY <1>3 DEF Heard
<1>6. t \in sigchld' => p.c.proc = "killed"
  BY <1>1, <1>3 DEF OInv
<1> QED
  BY <1>1, <1>3, <1>4, <1>5, <1>6, StepPlain

\* A waiting connection can be made.
LEMMA WaitingFresh ==
    ASSUME OInv, NEW t \in Tasks, Waiting(t)
    PROVE  Fresh(t)
  BY PairOrdered DEF Fresh, Staged

LEMMA AcceptedOrdered ==
    ASSUME OInv, IInv', backlog # << >>, backlog' = Tail(backlog),
           NEW t, t = Head(backlog), Readable(t),
           \/ NewConnectionBroken(t)
           \/ NewConnectionKept(t, Associate(Pair(t)))
           \/ NewConnectionUnwanted(t)
           \/ NewConnectionKept(t, SendRequest(Associate(Pair(t))))
              /\ task[t].bundle = << >>,
           UNCHANGED sigchld,
           waitFor' = NoTask \/ (waitFor' = waitFor /\ waitFor # t)
    PROVE  OInv'
<1>1. /\ t \in Tasks /\ Waiting(t) /\ ~Waiting(t)' /\ OneEach'
      /\ \A u \in Tasks : u # t => Waiting(u)' = Waiting(u)
  BY Dequeued
<1>2. Fresh(t)
  BY <1>1, WaitingFresh
<1>3. PICK p \in PairType : /\ Update(t, p) /\ Staged(Kind[t], FALSE, p)
                            /\ Ordered(p) /\ p.c.proc = client[t].proc
                            /\ Heard(t, p)
  BY <1>1, <1>2, NewConnectionOrdered
<1>4. PICK w : w = Waiting(t)'
  OBVIOUS
<1>5. Staged(Kind[t], w, p)
  BY <1>1, <1>3, <1>4 DEF Staged
<1>6. t \in sigchld' => p.c.proc = "killed"
  BY <1>1, <1>3 DEF OInv
<1>7. PICK l : log' = [log EXCEPT ![t] = l] /\ Told(l, p)
  BY <1>3 DEF Heard
<1> QED
  BY <1>1, <1>3, <1>4, <1>5, <1>6, <1>7, StepUpdate

LEMMA AcceptReadyOrdered ==
    ASSUME OInv, IInv', AcceptReady
    PROVE  OInv'
<1>1. PICK t : t = Head(backlog)
  OBVIOUS
<1>2. /\ backlog # << >> /\ backlog' = Tail(backlog) /\ Readable(t)
      /\ \/ NewConnectionBroken(t)
         \/ NewConnectionKept(t, Associate(Pair(t)))
         \/ NewConnectionUnwanted(t)
      /\ UNCHANGED sigchld /\ waitFor' = NoTask
  BY <1>1 DEF AcceptReady, Idle
<1> QED
  BY <1>1, <1>2, AcceptedOrdered

LEMMA WaitAcceptOrdered ==
    ASSUME OInv, IInv', WaitAccept
    PROVE  OInv'
<1>1. PICK t : t = Head(backlog)
  OBVIOUS
<1>2. /\ waitFor # NoTask /\ backlog # << >> /\ backlog' = Tail(backlog)
      /\ Readable(t) /\ UNCHANGED sigchld
      /\ \/ /\ NewConnectionBroken(t) \/ NewConnectionUnwanted(t)
            /\ waitFor' = NoTask
         \/ /\ t = waitFor
            /\ NewConnectionKept(t, SendRequest(Associate(Pair(t))))
            /\ waitFor' = NoTask
         \/ /\ t # waitFor
            /\ NewConnectionKept(t, Associate(Pair(t)))
            /\ waitFor' = waitFor
  BY <1>1 DEF WaitAccept
<1>3. task[waitFor].bundle = << >>
  BY <1>2 DEF OInv
<1> QED
  BY <1>1, <1>2, <1>3, AcceptedOrdered

-----------------------------------------------------------------------------
(* Events from clients, and their deaths.                                  *)

LEMMA ReadMessageOrdered ==
    ASSUME OInv, IInv', NEW t \in Tasks, ReadMessage(t)
    PROVE  OInv'
<1>1. /\ task[t].sel = "client" /\ client[t].inbox # << >>
      /\ UNCHANGED <<backlog, sigchld>> /\ waitFor' = NoTask
  BY DEF ReadMessage, Idle
<1>2. /\ Pair(t) \in PairType /\ Ordered(Pair(t)) /\ Pair(t).k = task[t]
      /\ Pair(t).c = client[t] /\ Staged(Kind[t], Waiting(t), Pair(t))
      /\ task[t] \in TaskRecord /\ client[t] \in ClientRecord
  BY PairOrdered
<1>3. PICK i : i = Tail(client[t].inbox)
  OBVIOUS
<1>4. PICK c : c = [client[t] EXCEPT !.inbox = i]
  OBVIOUS
<1>5. PICK p : p = [k |-> task[t], c |-> c]
  OBVIOUS
<1>6. i \in Seq(Notes)
  BY <1>1, <1>2, <1>3 DEF ClientRecord
<1>7. /\ c \in ClientRecord /\ c.inbox = i /\ c.nposted = client[t].nposted
      /\ c.proc = client[t].proc /\ c.wire = client[t].wire
      /\ c.hup = client[t].hup /\ c.got = client[t].got
  BY <1>2, <1>4, <1>6 DEF ClientRecord
<1>8. p \in PairType /\ p.k = task[t] /\ p.c = c
  BY <1>2, <1>5, <1>7, PairIntro
<1>9. task[t].active # "none"
  BY <1>1, <1>2 DEF Staged, NewTask
<1>10. Staged(Kind[t], Waiting(t), p)
  BY <1>1, <1>2, <1>7, <1>8, <1>9 DEF Staged, Over
<1>11. Ordered(p)
  BY <1>2, <1>7, <1>8
     DEF Ordered, Unpacked, Live, Lined, Packed, Way, Drains, Over
<1>12. PICK m : m = Head(client[t].inbox)
  OBVIOUS
<1>13. /\ m \in Notes /\ m = Note(m.name, m.n)
       /\ Told(log[t], Pair(t)) /\ log[t] \in Seq(Notes)
       /\ log = [log EXCEPT ![t] = log[t]]
  <2>1. client[t].inbox \in Seq(Notes)
    BY <1>2 DEF ClientRecord
  <2>2. m \in Notes
    BY <1>1, <1>12, <2>1
  <2>3. m = Note(m.name, m.n)
    BY <2>2 DEF Note, Notes
  <2>4. log \in [Tasks -> Seq(Notes)]
    BY DEF OInv, IInv, TypeOK
  <2> QED
    BY <2>2, <2>3, <2>4, PairOrdered
<1>14. PICK l : /\ log' = [log EXCEPT ![t] = l]
                /\ \/ l = Append(log[t], m)
                   \/ l = log[t] /\ m.name = "reply"
  <2>1. CASE m.name = "reply" /\ asking = t
    BY <1>12, <1>13, <2>1 DEF ReadMessage
  <2>2. CASE ~(m.name = "reply" /\ asking = t)
    BY <1>12, <1>13, <2>2 DEF ReadMessage, Record
  <2> QED
    BY <2>1, <2>2
<1>15. ASSUME NEW q, q.c.inbox = i, q.c.nposted = client[t].nposted,
              q.c.proc = client[t].proc, q.k.chan = "open" \/ q.c.hup,
              q.k.active = "finished" => m.name = "done"
       PROVE  Told(l, q)
  <2>1. /\ Pair(t).c.inbox # << >> /\ q.c.inbox = Tail(Pair(t).c.inbox)
        /\ q.c.nposted = Pair(t).c.nposted /\ q.c.proc = Pair(t).c.proc
        /\ m = Head(Pair(t).c.inbox)
    BY <1>1, <1>2, <1>3, <1>12, <1>15
  <2>2. /\ Told(Append(log[t], m), q)
        /\ m.name # "event" => Told(log[t], q)
    BY <1>2, <1>13, <1>15, <2>1, ReadTold
  <2> QED
    BY <1>14, <2>2
<1>16. task[t].chan = "open" /\ task[t].active = "active"
  BY <1>1 DEF OInv, IInv, Watched
<1>17. CASE m.name = "done"
  <2>1. PICK q : q = SetFinished(p)
    OBVIOUS
  <2>2. Update(t, q)
    BY <1>3, <1>4, <1>5, <1>12, <1>17, <2>1 DEF ReadMessage
  <2>3. /\ q \in PairType /\ Staged(Kind[t], Waiting(t), q) /\ Ordered(q)
        /\ q.c.proc = client[t].proc /\ q.c.inbox = i
        /\ q.c.nposted = client[t].nposted /\ q.c.hup
    BY <1>7, <1>8, <1>9, <1>10, <1>11, <1>16, <2>1, SetFinishedOrdered
  <2>4. Told(l, q)
    BY <1>15, <1>17, <2>3
  <2>5. t \in sigchld' => q.c.proc = "killed"
    BY <1>1, <2>3 DEF OInv
  <2> QED
    BY <1>1, <1>14, <2>2, <2>3, <2>4, <2>5, StepPlain
<1>18. CASE m.name # "done"
  <2>1. Update(t, p)
    BY <1>3, <1>4, <1>5, <1>12, <1>18 DEF ReadMessage
  <2>2. Told(l, p)
    BY <1>7, <1>8, <1>15, <1>16
  <2>3. t \in sigchld' => p.c.proc = "killed"
    BY <1>1, <1>7, <1>8 DEF OInv
  <2> QED
    BY <1>1, <1>8, <1>10, <1>11, <1>14, <2>1, <2>2, <2>3, StepPlain
<1> QED
  BY <1>17, <1>18

\* CloseChannel() and SetActivity() leave the bundle alone.
LEMMA ClosedBundle ==
    ASSUME NEW p \in PairType, NEW q, q = CloseChannel(p) \/ q = SetFinished(p)
    PROVE  q.k.bundle = p.k.bundle
<1>1. PICK r : r = CloseChannel(p)
  OBVIOUS
<1>2. r \in PairType /\ r.k.bundle = p.k.bundle
  <2>1. CASE p.k.chan = "none"
    BY <1>1, <2>1 DEF CloseChannel
  <2>2. CASE p.k.chan # "none"
    BY <1>1, <2>2, CloseChannelFields DEF IsClosed
  <2> QED
    BY <2>1, <2>2
<1>3. q = r \/ q = [k |-> [r.k EXCEPT !.active = "finished"], c |-> r.c]
  BY <1>1 DEF SetFinished
<1>4. r.k \in TaskRecord
  BY <1>2, KField
<1> QED
  BY <1>2, <1>3, <1>4 DEF TaskRecord

LEMMA LostOrdered ==
    ASSUME OInv, IInv', NEW t \in Tasks, Lost(t), task[t].active # "none",
           AtEOF(t) \/ client[t].proc = "killed",
           UNCHANGED <<backlog, waitFor>>, sigchld' \subseteq sigchld
    PROVE  OInv'
<1>1. /\ Pair(t) \in PairType /\ Ordered(Pair(t)) /\ Pair(t).k = task[t]
      /\ Pair(t).c = client[t] /\ Staged(Kind[t], Waiting(t), Pair(t))
  BY PairOrdered
<1>2. PICK q : /\ q = CloseChannel(Pair(t)) \/ q = SetFinished(Pair(t))
               /\ Update(t, q)
  BY DEF Lost
<1>3. /\ q \in PairType /\ Staged(Kind[t], Waiting(t), q) /\ Ordered(q)
      /\ q.c.proc = client[t].proc /\ q.c.inbox = Pair(t).c.inbox
      /\ q.c.nposted = Pair(t).c.nposted
      /\ \/ q.c.hup
         \/ Pair(t).k.chan = "none" /\ q.c.hup = Pair(t).c.hup
  BY <1>1, <1>2, CloseChannelOrdered, SetFinishedOrdered
<1>4. q.k.bundle = task[t].bundle
  BY <1>1, <1>2, ClosedBundle
<1>5. t \in sigchld' => q.c.proc = "killed"
  BY <1>3 DEF OInv
<1>6. \/ waitFor' = NoTask
      \/ waitFor' \in {t, waitFor} /\ (waitFor' = t => q.k.bundle = << >>)
  BY <1>4 DEF OInv
<1>7. PICK l : /\ log' = [log EXCEPT ![t] = l]
               /\ l = log[t] \/ l = Append(log[t], Note("fail", 0))
  <2>1. log = [log EXCEPT ![t] = log[t]]
    BY DEF OInv, IInv, TypeOK
  <2> QED
    BY <2>1 DEF Lost, Record
<1>8. Told(l, q)
  <2>1. /\ Over(Pair(t).c)
        /\ Pair(t).c.inbox = << >> \/ Pair(t).c.proc = "killed"
    BY <1>1 DEF AtEOF, Dead, Over
  <2>2. Told(log[t], Pair(t)) /\ log[t] \in Seq(Notes)
    BY PairOrdered
  <2> QED
    BY <1>1, <1>3, <1>7, <2>1, <2>2, LostTold
<1> QED
  BY <1>2, <1>3, <1>5, <1>6, <1>7, <1>8, StepPlain

LEMMA ReadEOFOrdered ==
    ASSUME OInv, IInv', NEW t \in Tasks, ReadEOF(t)
    PROVE  OInv'
<1>1. /\ task[t].sel = "client" /\ Lost(t) /\ AtEOF(t)
      /\ UNCHANGED <<backlog, sigchld, waitFor>>
  BY DEF ReadEOF
<1>2. task[t].active # "none"
  BY <1>1, PairOrdered DEF Staged, NewTask
<1> QED
  BY <1>1, <1>2, LostOrdered

LEMMA SigChldOrdered ==
    ASSUME OInv, IInv', NEW t \in Tasks, SigChld(t)
    PROVE  OInv'
<1>1. /\ t \in sigchld /\ sigchld' = sigchld \ {t}
      /\ UNCHANGED <<backlog, waitFor>>
      /\ Lost(t) \/ UNCHANGED <<task, client, log>>
  BY DEF SigChld
<1>2. CASE Lost(t)
  <2>1. task[t].active # "none" /\ client[t].proc = "killed"
    BY <1>1, PairOrdered DEF OInv, Staged, NewClient
  <2> QED
    BY <1>1, <1>2, <2>1, LostOrdered
<1>3. CASE UNCHANGED <<task, client, log>>
  BY <1>1, <1>3 DEF OInv, OneEach, Waiting, Pair
<1> QED
  BY <1>1, <1>2, <1>3

-----------------------------------------------------------------------------
(* The client process.                                                     *)

\* A step of the client leaves the Task alone.
LEMMA ClientUpdates ==
    ASSUME OInv, NEW t \in Tasks, NEW c \in ClientRecord, NEW p,
           p = [k |-> task[t], c |-> c],
           client' = [client EXCEPT ![t] = c], UNCHANGED task
    PROVE  /\ Update(t, p) /\ p \in PairType /\ p.k = task[t] /\ p.c = c
<1>1. task[t] \in TaskRecord /\ task \in [Tasks -> TaskRecord]
  BY PairOrdered DEF OInv, IInv, TypeOK
<1>2. task = [task EXCEPT ![t] = task[t]]
  BY <1>1
<1>3. p \in PairType /\ p.k = task[t] /\ p.c = c
  BY <1>1, PairIntro
<1> QED
  BY <1>2, <1>3 DEF Update

\* A running client does something, or a client dies.
LEMMA StepClient ==
    ASSUME OInv, IInv', NEW t \in Tasks, NEW c \in ClientRecord,
           client' = [client EXCEPT ![t] = c], ClientOnly(t),
           UNCHANGED backlog,
           Alive(t), c.proc \in {"running", "exited", "killed"},
           c.hup = client[t].hup,
           \A p : p = [k |-> task[t], c |-> c] => Ordered(p) /\ Told(log[t], p),
           \/ sigchld' = sigchld
           \/ sigchld' = sigchld \cup {t} /\ c.proc = "killed"
    PROVE  OInv'
<1>1. PICK p : p = [k |-> task[t], c |-> c]
  OBVIOUS
<1>2. Update(t, p) /\ p \in PairType /\ p.k = task[t] /\ p.c = c
  BY <1>1, ClientUpdates DEF ClientOnly
<1>3. /\ Staged(Kind[t], Waiting(t), Pair(t)) /\ Pair(t).k = task[t]
      /\ Pair(t).c = client[t]
  BY PairOrdered
<1>4. Staged(Kind[t], Waiting(t), p)
  BY <1>2, <1>3 DEF Staged, Alive, Over, NewClient
<1>5. Ordered(p) /\ Told(log[t], p)
  BY <1>1
<1>6. /\ t \notin sigchld
      /\ log' = [log EXCEPT ![t] = log[t]]
  BY DEF OInv, IInv, TypeOK, Alive, ClientOnly
<1>7. \/ waitFor' = waitFor /\ (waitFor' = t => p.k.bundle = << >>)
      \/ waitFor' = NoTask
  BY <1>2 DEF OInv, ClientOnly
<1>8. /\ \A u \in sigchld' : u \in sigchld \/ u = t
      /\ t \in sigchld' => p.c.proc = "killed"
  BY <1>2, <1>6
<1> QED
  BY <1>2, <1>4, <1>5, <1>6, <1>7, <1>8, StepPlain

LEMMA AliveOrdered ==
    ASSUME OInv, NEW t \in Tasks, NEW c, ~Over(client[t]), ~Over(c),
           c.wire = client[t].wire, c.hup = client[t].hup,
           c.got = client[t].got, NEW p, p = [k |-> task[t], c |-> c]
    PROVE  Ordered(p)
<1>1. p.k = task[t] /\ p.c = c
  OBVIOUS
<1>2. Ordered(Pair(t)) /\ Pair(t).k = task[t] /\ Pair(t).c = client[t]
  BY PairOrdered
<1> QED
  BY <1>1, <1>2 DEF Ordered, Unpacked, Live, Lined, Packed, Way, Drains

LEMMA DeadOrdered ==
    ASSUME OInv, NEW t \in Tasks, NEW c, Over(c),
           c.got = client[t].got, NEW p, p = [k |-> task[t], c |-> c]
    PROVE  Ordered(p)
<1>1. p.k = task[t] /\ p.c = c
  OBVIOUS
<1>2. Ordered(Pair(t)) /\ Pair(t).k = task[t] /\ Pair(t).c = client[t]
  BY PairOrdered
<1> QED
  BY <1>1, <1>2 DEF Ordered, Unpacked, Live

LEMMA ConnectOrdered ==
    ASSUME OInv, IInv', NEW t \in Tasks, Connect(t)
    PROVE  OInv'
<1>1. PICK c : c = [client[t] EXCEPT !.proc = "connected"]
  OBVIOUS
<1>2. /\ client[t].proc = "starting" /\ Kind[t] # "pipe"
      /\ client' = [client EXCEPT ![t] = c]
      /\ backlog' = Append(backlog, t) /\ ClientOnly(t) /\ UNCHANGED sigchld
  BY <1>1 DEF Connect
<1>3. client[t] \in ClientRecord
  BY PairOrdered
<1>4. /\ c \in ClientRecord /\ c.proc = "connected"
      /\ c.wire = client[t].wire /\ c.inbox = client[t].inbox
      /\ c.hup = client[t].hup /\ c.got = client[t].got
      /\ c.nposted = client[t].nposted
  BY <1>1, <1>3 DEF ClientRecord
<1>5. PICK p : p = [k |-> task[t], c |-> c]
  OBVIOUS
<1>6. Update(t, p) /\ p \in PairType /\ p.k = task[t] /\ p.c = c
  BY <1>2, <1>4, <1>5, ClientUpdates DEF ClientOnly
<1>7. /\ Staged(Kind[t], Waiting(t), Pair(t)) /\ Pair(t).k = task[t]
      /\ Pair(t).c = client[t]
  BY PairOrdered
<1>8. ~Waiting(t)
  BY <1>2, <1>7 DEF Staged
<1>9. PICK b : b = backlog'
  OBVIOUS
<1>10. /\ Len(b) = Len(backlog) + 1 /\ b[Len(backlog) + 1] = t
       /\ \A i \in 1..Len(backlog) : b[i] = backlog[i]
       /\ Len(backlog) \in Nat
  <2>1. backlog \in Seq(Tasks)
    BY DEF OInv, IInv, TypeOK
  <2> QED
    BY <1>2, <1>9, <2>1, AppendProperties
<1>11. Waiting(t)'
  <2>1. Len(b) \in 1..Len(b) /\ b[Len(b)] = t
    BY <1>10
  <2> QED
    BY <1>9, <2>1 DEF Waiting
<1>12. ASSUME NEW u \in Tasks, u # t PROVE Waiting(u)' = Waiting(u)
  <2>1. Waiting(u) => Waiting(u)'
    BY <1>9, <1>10 DEF Waiting
  <2>2. Waiting(u)' => Waiting(u)
    <3> SUFFICES ASSUME NEW i \in 1..Len(b), b[i] = u PROVE Waiting(u)
      BY <1>9 DEF Waiting
    <3>1. i \in 1..Len(backlog)
      BY <1>10, <1>12
    <3> QED
      BY <1>10, <3>1 DEF Waiting
  <2> QED
    BY <2>1, <2>2 DEF Waiting
<1>13. OneEach'
  <2> SUFFICES ASSUME NEW i \in 1..Len(b), NEW j \in 1..Len(b), b[i] = b[j]
               PROVE  i = j
    BY <1>9 DEF OneEach
  <2>1. \A m \in 1..Len(backlog) : backlog[m] # t
    BY <1>8 DEF Waiting
  <2>2. CASE i \in 1..Len(backlog) /\ j \in 1..Len(backlog)
    BY <1>10, <2>2 DEF OInv, OneEach
  <2>3. CASE i \notin 1..Len(backlog) \/ j \notin 1..Len(backlog)
    BY <1>10, <2>1, <2>3
  <2> QED
    BY <2>2, <2>3
<1>14. PICK w : w = Waiting(t)'
  OBVIOUS
<1>15. Staged(Kind[t], w, p)
  BY <1>2, <1>4, <1>6, <1>7 DEF Staged, NewClient, Over
<1>16. Ordered(p)
  BY <1>2, <1>4, <1>5, AliveOrdered DEF Over
<1>17. t \notin sigchld'
  BY <1>2 DEF OInv
<1>18. /\ waitFor' = waitFor
       /\ waitFor' = NoTask \/ (waitFor' = t => p.k.bundle = << >>)
  BY <1>2, <1>6 DEF OInv, ClientOnly
<1>19. Told(log[t], p)
  <2>1. Told(log[t], Pair(t)) /\ ~Over(Pair(t).c)
    BY <1>2, <1>7, PairOrdered DEF Over
  <2>2. /\ p.k = Pair(t).k /\ p.c.hup = Pair(t).c.hup
        /\ p.c.inbox = Pair(t).c.inbox /\ p.c.nposted = Pair(t).c.nposted
        /\ p.c.proc # "running"
    BY <1>4, <1>6, <1>7
  <2> QED
    BY <2>1, <2>2, SilentTold
<1>20. log' = [log EXCEPT ![t] = log[t]]
  BY <1>2 DEF OInv, IInv, TypeOK, ClientOnly
<1> QED
  BY <1>2, <1>6, <1>12, <1>13, <1>14, <1>15, <1>16, <1>17, <1>18, <1>19,
     <1>20, StepUpdate

\* Client::GetEvent(): the first message joins what has been read.
LEMMA ReceiveOrdered ==
    ASSUME OInv, NEW t \in Tasks, ~Over(client[t]), client[t].wire # << >>,
           NEW m, m = Head(client[t].wire), NEW c \in ClientRecord,
           c.proc = client[t].proc, c.hup = client[t].hup,
           c.wire = Tail(client[t].wire), c.got = client[t].got \o m.evs,
           NEW p, p = [k |-> task[t], c |-> c]
    PROVE  Ordered(p)
<1>1. p.k = task[t] /\ p.c = c
  OBVIOUS
<1>2. /\ Ordered(Pair(t)) /\ Pair(t).k = task[t] /\ Pair(t).c = client[t]
      /\ client[t] \in ClientRecord
  BY PairOrdered
<1>3. PICK g : g = client[t].got
  OBVIOUS
<1>4. PICK ms : ms = client[t].wire
  OBVIOUS
<1>5. g \in Seq(Nat) /\ ms \in Seq(Message) /\ ms # << >> /\ Len(g) \in Nat
  BY <1>2, <1>3, <1>4, LenProperties DEF ClientRecord
<1>6. m \in Message /\ m.evs \in Seq(Nat)
  <2>1. m \in Message
    BY <1>4, <1>5
  <2> QED
    BY <2>1 DEF Message
<1>7. Len(g \o m.evs) = Len(g) + Len(m.evs)
  BY <1>5, <1>6, ConcatProperties
<1>8. Unpacked(p)
  BY <1>1, <1>2 DEF Ordered, Unpacked
<1>9. CASE Live(Pair(t))
  <2>1. PICK x \in Nat : /\ Lined(Pair(t), x, FALSE)
                         /\ Packed(Pair(t), x, task[t].nsent)
    BY <1>2, <1>9 DEF Ordered
  <2>2. task[t].chan = "open" /\ Placed(g, 0, FALSE)
        /\ Chain(ms, Len(g), x, FALSE)
    BY <1>2, <1>3, <1>4, <1>5, <2>1 DEF Lined, Way
  <2>3. /\ Placed(m.evs, Len(g), FALSE)
        /\ Chain(Tail(ms), Len(g) + Len(m.evs), x, FALSE)
    BY <1>4, <1>5, <2>2, ChainHead
  <2>4. Placed(g \o m.evs, 0, FALSE)
    BY <1>5, <1>6, <2>2, <2>3, PlacedConcat
  <2>5. Placed(g \o m.evs, 0, TRUE)
    BY <2>4 DEF Placed
  <2>6. Lined(p, x, FALSE)
    BY <1>1, <1>3, <1>4, <1>7, <2>2, <2>3, <2>4 DEF Lined, Way
  <2>7. Packed(p, x, p.k.nsent)
    BY <1>1, <1>2, <2>1 DEF Packed
  <2>8. ~p.c.hup
    BY <1>1, <1>2, <1>9 DEF Live
  <2> QED
    BY <1>1, <1>3, <1>8, <2>1, <2>5, <2>6, <2>7, <2>8 DEF Ordered
<1>10. CASE ~Live(Pair(t))
  <2>1. client[t].hup /\ Drains(Pair(t))
    BY <1>2, <1>10 DEF Ordered, Live
  <2>2. PICK b \in Nat : Placed(g, 0, FALSE) /\ Chain(ms, Len(g), b, TRUE)
    BY <1>2, <1>3, <1>4, <2>1 DEF Drains
  <2>3. /\ Placed(m.evs, Len(g), TRUE /\ Tail(ms) = << >>)
        /\ Chain(Tail(ms), Len(g) + Len(m.evs), b, TRUE)
    BY <1>4, <1>5, <2>2, ChainHead
  <2>4. Placed(m.evs, Len(g), TRUE)
    BY <2>3 DEF Placed
  <2>5. Placed(g \o m.evs, 0, TRUE)
    BY <1>5, <1>6, <2>2, <2>4, PlacedConcat
  <2>6. ASSUME Tail(ms) # << >> PROVE Drains(p)
    <3>1. Placed(m.evs, Len(g), FALSE)
      BY <2>3, <2>6 DEF Placed
    <3>2. Placed(g \o m.evs, 0, FALSE)
      BY <1>5, <1>6, <2>2, <3>1, PlacedConcat
    <3> QED
      BY <1>1, <1>3, <1>4, <1>7, <2>3, <3>2 DEF Drains
  <2>7. ~Live(p)
    BY <1>1, <2>1 DEF Live
  <2> QED
    BY <1>1, <1>3, <1>4, <1>8, <2>5, <2>6, <2>7 DEF Ordered
<1> QED
  BY <1>9, <1>10

LEMMA FinishedFields ==
    ASSUME NEW c \in ClientRecord, NEW d, d = Finished(c)
    PROVE  /\ d \in ClientRecord /\ d.proc = "exited" /\ d.hup = c.hup
           /\ d.got = c.got /\ d.nposted = c.nposted
           /\ d.inbox = Append(c.inbox, Note("done", 0))
<1>1. d \in ClientRecord
  BY FinishedType
<1>2. PICK e, i : e = << >> /\ i = Append(c.inbox, Note("done", 0))
  OBVIOUS
<1>3. d = [c EXCEPT !.proc = "exited", !.wire = e, !.inbox = i]
  BY <1>2, Zenon DEF Finished
<1>4. /\ d.proc = "exited" /\ d.hup = c.hup /\ d.got = c.got
      /\ d.nposted = c.nposted /\ d.inbox = i
  BY <1>3 DEF ClientRecord
<1> QED
  BY <1>1, <1>2, <1>4

LEMMA ProcessOrdered ==
    ASSUME OInv, IInv', NEW t \in Tasks, Process(t)
    PROVE  OInv'
<1>1. PICK c : c = client[t]
  OBVIOUS
<1>2. c \in ClientRecord
  BY <1>1, PairOrdered
<1>3. /\ Pair(t) \in PairType /\ Pair(t).k = task[t] /\ Pair(t).c = c
      /\ Staged(Kind[t], Waiting(t), Pair(t))
      /\ Told(log[t], Pair(t)) /\ log[t] \in Seq(Notes)
  BY <1>1, PairOrdered
<1>4. CASE Connect(t)
  BY <1>4, ConnectOrdered
<1>5. CASE Establish(t) \/ Post(t) \/ Reply(t)
  <2>1. /\ Alive(t) /\ ~Over(c) /\ ClientOnly(t)
        /\ UNCHANGED <<backlog, sigchld>>
    BY <1>1, <1>5 DEF Establish, Post, Reply, Alive, Over
  <2>2. PICK d \in ClientRecord :
          /\ client' = [client EXCEPT ![t] = d] /\ d.proc = "running"
          /\ d.wire = c.wire /\ d.hup = c.hup /\ d.got = c.got
          /\ \A p : p = [k |-> task[t], c |-> d] => Told(log[t], p)
    <3>1. CASE Establish(t)
      <4>1. PICK i : i = Append(c.inbox, Note("established", 0))
        OBVIOUS
      <4>2. i \in Seq(Notes)
        BY <1>2, <4>1, InboxAppend
      <4>3. PICK d : d = [c EXCEPT !.proc = "running", !.inbox = i]
        OBVIOUS
      <4>4. client' = [client EXCEPT ![t] = d]
        BY <1>1, <3>1, <4>1, <4>3 DEF Establish
      <4>5. /\ d \in ClientRecord /\ d.proc = "running" /\ d.wire = c.wire
            /\ d.hup = c.hup /\ d.got = c.got
            /\ d.inbox = i /\ d.nposted = c.nposted
        BY <1>2, <4>2, <4>3, <4>4 DEF ClientRecord
      <4>6. PICK m : m = Note("established", 0)
        OBVIOUS
      <4>7. m \in Notes /\ m.name = "established"
        BY <4>6, NoteType DEF Note
      <4>8. ASSUME NEW p, p = [k |-> task[t], c |-> d] PROVE Told(log[t], p)
        <5>1. p.k = task[t] /\ p.c = d
          BY <4>8
        <5> QED
          BY <1>3, <2>1, <4>1, <4>6, <4>5, <4>7, <5>1, SpokenTold
      <4> QED
        BY <4>4, <4>5, <4>8
    <3>2. CASE Post(t)
      <4>1. PICK n : n = c.nposted + 1
        OBVIOUS
      <4>2. n \in Nat
        BY <1>2, <4>1 DEF ClientRecord
      <4>3. PICK i : i = Append(c.inbox, Note("event", n))
        OBVIOUS
      <4>4. i \in Seq(Notes)
        BY <1>2, <4>3, <4>1, <4>2, InboxAppend
      <4>5. PICK d : d = [c EXCEPT !.nposted = n, !.inbox = i]
        OBVIOUS
      <4>6. client' = [client EXCEPT ![t] = d] /\ c.proc = "running"
        BY <1>1, <3>2, <4>3, <4>5, <4>1 DEF Post
      <4>7. /\ d \in ClientRecord /\ d.proc = "running" /\ d.wire = c.wire
            /\ d.hup = c.hup /\ d.got = c.got
            /\ d.inbox = i /\ d.nposted = n
        BY <1>2, <4>4, <4>5, <4>6, <4>2 DEF ClientRecord
      <4>8. PICK m : m = Note("event", n)
        OBVIOUS
      <4>9. m \in Notes /\ m.name = "event" /\ m.n = n
        BY <4>2, <4>8, NoteType DEF Note
      <4>10. ~(c.inbox = << >> /\ task[t].chan = "none" /\ ~c.hup)
        BY <1>3, <4>6 DEF Told, Ended
      <4>11. ASSUME NEW p, p = [k |-> task[t], c |-> d] PROVE Told(log[t], p)
        <5>1. p.k = task[t] /\ p.c = d
          BY <4>11
        <5>2. IF m.name = "event"
              THEN /\ m.n = Pair(t).c.nposted + 1
                   /\ p.c.nposted = Pair(t).c.nposted + 1
              ELSE p.c.nposted = Pair(t).c.nposted
          BY <1>3, <4>1, <4>7, <4>9, <5>1
        <5>3. m.name # "done"
          BY <4>9
        <5>4. p.c.inbox = Append(Pair(t).c.inbox, m)
          BY <1>3, <4>3, <4>7, <4>8, <5>1
        <5> QED
          BY <1>3, <2>1, <4>7, <4>9, <4>10, <5>1, <5>2, <5>3, <5>4, SpokenTold
      <4> QED
        BY <4>6, <4>7, <4>11
    <3>3. CASE Reply(t)
      <4>1. PICK i : i = Append(c.inbox, Note("reply", 0))
        OBVIOUS
      <4>2. i \in Seq(Notes)
        BY <1>2, <4>1, InboxAppend
      <4>3. PICK d : d = [c EXCEPT !.owes = FALSE, !.inbox = i]
        OBVIOUS
      <4>4. client' = [client EXCEPT ![t] = d] /\ c.proc = "running"
        BY <1>1, <3>3, <4>1, <4>3 DEF Reply
      <4>5. /\ d \in ClientRecord /\ d.proc = "running" /\ d.wire = c.wire
            /\ d.hup = c.hup /\ d.got = c.got
            /\ d.inbox = i /\ d.nposted = c.nposted
        BY <1>2, <4>2, <4>3, <4>4 DEF ClientRecord
      <4>6. PICK m : m = Note("reply", 0)
        OBVIOUS
      <4>7. m \in Notes /\ m.name = "reply"
        BY <4>6, NoteType DEF Note
      <4>8. ~(c.inbox = << >> /\ task[t].chan = "none" /\ ~c.hup)
        BY <1>3, <4>4 DEF Told, Ended
      <4>9. ASSUME NEW p, p = [k |-> task[t], c |-> d] PROVE Told(log[t], p)
        <5>1. p.k = task[t] /\ p.c = d
          BY <4>9
        <5> QED
          BY <1>3, <2>1, <4>1, <4>5, <4>6, <4>7, <4>8, <5>1, SpokenTold
      <4> QED
        BY <4>4, <4>5, <4>9
    <3> QED
      BY <1>5, <3>1, <3>2, <3>3
  <2>3. ASSUME NEW p, p = [k |-> task[t], c |-> d]
        PROVE  Ordered(p) /\ Told(log[t], p)
    BY <1>1, <2>1, <2>2, <2>3, AliveOrdered DEF Over
  <2> QED
    BY <1>1, <2>1, <2>2, <2>3, StepClient
<1>6. CASE Receive(t) /\ ~IsTerminate(Head(client[t].wire))
  <2>1. /\ c.proc = "running" /\ c.wire # << >> /\ ClientOnly(t)
        /\ UNCHANGED <<backlog, sigchld>>
    BY <1>1, <1>6 DEF Receive
  <2>2. PICK m, w, g, o : /\ m = Head(c.wire) /\ w = Tail(c.wire)
                          /\ g = c.got \o m.evs
                          /\ o = (c.owes \/ m.kind = "request")
    OBVIOUS
  <2>3. PICK d : d = [c EXCEPT !.wire = w, !.got = g, !.owes = o]
    OBVIOUS
  <2>4. client' = [client EXCEPT ![t] = d]
    BY <1>1, <1>6, <2>2, <2>3, Zenon DEF Receive
  <2>5. /\ m \in Message /\ w \in Seq(Message) /\ c.got \in Seq(Nat)
        /\ o \in BOOLEAN
    BY <1>2, <2>1, <2>2 DEF ClientRecord
  <2>6. g \in Seq(Nat)
    BY <2>2, <2>5 DEF Message
  <2>7. /\ d \in ClientRecord /\ d.proc = c.proc /\ d.hup = c.hup
        /\ d.wire = w /\ d.got = g /\ d.inbox = c.inbox
        /\ d.nposted = c.nposted
    BY <1>2, <2>3, <2>5, <2>6 DEF ClientRecord
  <2>8. ASSUME NEW p, p = [k |-> task[t], c |-> d]
        PROVE  Ordered(p) /\ Told(log[t], p)
    <3>1. p.k = task[t] /\ p.c = d /\ ~Over(c)
      BY <2>1, <2>8 DEF Over
    <3>2. Told(log[t], p)
      BY <1>3, <2>7, <3>1, SilentTold
    <3> QED
      BY <1>1, <2>1, <2>2, <2>7, <2>8, <3>1, <3>2, ReceiveOrdered
  <2> QED
    BY <1>1, <2>1, <2>4, <2>7, <2>8, StepClient DEF Alive
<1>7. CASE HangUp(t) \/ Finish(t)
           \/ (Receive(t) /\ IsTerminate(Head(client[t].wire)))
  <2>1. PICK d : d = Finished(c)
    OBVIOUS
  <2>2. /\ client' = [client EXCEPT ![t] = d] /\ c.proc = "running"
        /\ ClientOnly(t) /\ UNCHANGED <<backlog, sigchld>>
    BY <1>1, <1>7, <2>1 DEF HangUp, Finish, Receive
  <2>3. /\ d \in ClientRecord /\ d.proc = "exited" /\ d.hup = c.hup
        /\ d.got = c.got /\ d.nposted = c.nposted
        /\ d.inbox = Append(c.inbox, Note("done", 0))
    BY <1>2, <2>1, FinishedFields
  <2>4. ASSUME NEW p, p = [k |-> task[t], c |-> d]
        PROVE  Ordered(p) /\ Told(log[t], p)
    <3>1. p.k = task[t] /\ p.c = d /\ Over(d) /\ ~Over(c)
      BY <2>2, <2>3, <2>4 DEF Over
    <3>2. PICK m : m = Note("done", 0)
      OBVIOUS
    <3>3. m \in Notes /\ m.name = "done"
      BY <3>2, NoteType DEF Note
    <3>4. ~(c.inbox = << >> /\ task[t].chan = "none" /\ ~c.hup)
      BY <1>3, <2>2 DEF Told, Ended
    <3>5. Told(log[t], p)
      BY <1>3, <2>3, <3>1, <3>2, <3>3, <3>4, SpokenTold
    <3> QED
      BY <1>1, <2>3, <2>4, <3>1, <3>5, DeadOrdered
  <2> QED
    BY <1>1, <2>2, <2>3, <2>4, StepClient DEF Alive
<1>8. CASE Exit(t) \/ Kill(t)
  <2>1. PICK e : e = << >>
    OBVIOUS
  <2>2. PICK s \in {"exited", "killed"} :
          /\ client' = [client EXCEPT ![t] = [c EXCEPT !.proc = s, !.wire = e]]
          /\ \/ sigchld' = sigchld
             \/ sigchld' = sigchld \cup {t} /\ s = "killed"
    BY <1>1, <1>8, <2>1 DEF Exit, Kill
  <2>3. Alive(t) /\ ClientOnly(t) /\ UNCHANGED backlog
    BY <1>8 DEF Exit, Kill
  <2>4. PICK d : d = [c EXCEPT !.proc = s, !.wire = e]
    OBVIOUS
  <2>5. e \in Seq(Message)
    BY <2>1, EmptySequences
  <2>6. /\ d \in ClientRecord /\ d.proc = s /\ d.hup = c.hup
        /\ d.got = c.got /\ d.inbox = c.inbox /\ d.nposted = c.nposted
    BY <1>2, <2>4, <2>5 DEF ClientRecord
  <2>7. ASSUME NEW p, p = [k |-> task[t], c |-> d]
        PROVE  Ordered(p) /\ Told(log[t], p)
    <3>1. /\ p.k = task[t] /\ p.c = d /\ Over(d) /\ ~Over(c)
          /\ d.proc # "running"
      BY <1>1, <2>3, <2>6, <2>7 DEF Over, Alive
    <3>2. Told(log[t], p)
      BY <1>3, <2>6, <3>1, SilentTold
    <3> QED
      BY <1>1, <2>6, <2>7, <3>1, <3>2, DeadOrdered
  <2>8. client' = [client EXCEPT ![t] = d]
    BY <2>2, <2>4
  <2> QED
    BY <1>1, <2>2, <2>3, <2>6, <2>7, <2>8, StepClient
<1> QED
  BY <1>4, <1>5, <1>6, <1>7, <1>8 DEF Process

-----------------------------------------------------------------------------
(* The theorems.                                                           *)

LEMMA InitOInv == Init => OInv
<1> SUFFICES ASSUME Init PROVE OInv
  OBVIOUS
<1>1. IInv
  BY InitIInv
<1>2. backlog = << >> /\ sigchld = {} /\ waitFor = NoTask
  BY DEF Init
<1>3. OneEach
  BY <1>2, LenEmpty DEF OneEach
<1>4. ASSUME NEW t \in Tasks
      PROVE  /\ Staged(Kind[t], Waiting(t), Pair(t)) /\ Ordered(Pair(t))
             /\ Told(log[t], Pair(t))
  <2>1. /\ task[t] = NewTask /\ client[t] = NewClient /\ ~Waiting(t)
        /\ log[t] = << >>
    BY <1>2, LenEmpty DEF Init, Waiting
  <2>2. PICK p : p = Pair(t)
    OBVIOUS
  <2>3. p.k = NewTask /\ p.c = NewClient
    BY <2>1, <2>2 DEF Pair
  <2>4. /\ p.k.active = "none" /\ p.k.chan = "none" /\ p.k.local = "none"
        /\ p.k.sel = "none" /\ p.k.pending = << >> /\ p.k.bundle = << >>
        /\ p.k.nsent = 0
    BY <2>3 DEF NewTask
  <2>5. /\ p.c.proc = "none" /\ p.c.wire = << >> /\ p.c.got = << >>
        /\ p.c.hup = FALSE
    BY <2>3 DEF NewClient
  <2>6. Staged(Kind[t], Waiting(t), p)
    BY <2>1, <2>3, <2>4, <2>5 DEF Staged
  <2>7. Lined(p, 0, FALSE)
    BY <2>4, <2>5, ChainEmpty, PlacedEmpty, LenEmpty DEF Lined, Way
  <2>8. Packed(p, 0, p.k.nsent) /\ Placed(p.c.got, 0, TRUE) /\ Unpacked(p)
    <3>1. Placed(<< >>, 0, FALSE) /\ Placed(<< >>, 0, TRUE) /\ 0 + 0 = 0
      BY DEF Placed
    <3> QED
      BY <2>4, <2>5, <3>1, LenEmpty DEF Packed, Unpacked
  <2>9. Ordered(p)
    BY <2>5, <2>7, <2>8 DEF Ordered
  <2>10. p.c.inbox = << >> /\ p.c.nposted = 0
    BY <2>3 DEF NewClient
  <2>11. Ended(p) /\ Tale(log[t], p.c.inbox, p.c.nposted)
    BY <2>1, <2>4, <2>5, <2>10, LenEmpty, TaleEmpty DEF Ended
  <2> QED
    BY <2>2, <2>6, <2>9, <2>10, <2>11 DEF Told
<1> QED
  BY <1>1, <1>2, <1>3, <1>4 DEF OInv

LEMMA NextOInv == OInv /\ [Next]_vars => OInv'
<1> SUFFICES ASSUME OInv, [Next]_vars PROVE OInv'
  OBVIOUS
<1>1. IInv'
  BY NextIInv DEF OInv
<1>2. ASSUME NEW t \in Tasks, Script(t) PROVE OInv'
  BY <1>1, <1>2, CreateOrdered, SendStepOrdered, DropOrdered,
     RequestLocalOrdered, RequestFreedOrdered DEF Script
<1>3. ASSUME NEW t \in Tasks, EventLoop(t) PROVE OInv'
  BY <1>1, <1>3, LocalReadyOrdered, ReadMessageOrdered, ReadEOFOrdered
     DEF EventLoop
<1>4. ASSUME NEW t \in Tasks, SigChld(t) PROVE OInv'
  BY <1>1, <1>4, SigChldOrdered
<1>5. ASSUME NEW t \in Tasks, Process(t) PROVE OInv'
  BY <1>1, <1>5, ProcessOrdered
<1>6. CASE AcceptReady \/ WaitAccept
  BY <1>1, <1>6, AcceptReadyOrdered, WaitAcceptOrdered
<1>7. CASE UNCHANGED vars
  BY <1>1, <1>7 DEF OInv, OneEach, Waiting, Pair, vars
<1> QED
  BY <1>2, <1>3, <1>4, <1>5, <1>6, <1>7 DEF Next

\* Every client reads the script's events in the order they were sent, none
\* missing and none twice, through pending_events, bundles, requests and the
\* channel, for any number of tasks, events and bundle sizes.
THEOREM EventsInOrder == Spec => []ReceivedInOrder
<1>1. OInv => ReceivedInOrder
  <2> SUFFICES ASSUME OInv, NEW t \in Tasks, NEW i \in DOMAIN client[t].got
               PROVE  \/ client[t].got[i] = i
                      \/ client[t].got[i] = Terminate
                         /\ i = Len(client[t].got)
    BY DEF ReceivedInOrder
  <2>1. /\ Placed(client[t].got, 0, TRUE) /\ client[t] \in ClientRecord
    BY PairOrdered DEF Ordered
  <2>2. client[t].got \in Seq(Nat)
    BY <2>1 DEF ClientRecord
  <2>3. i \in 1..Len(client[t].got)
    BY <2>2
  <2>4. 0 + i = i
    BY <2>3
  <2> QED
    BY <2>1, <2>3, <2>4 DEF Placed
<1> QED
  BY <1>1, InitOInv, NextOInv, PTL DEF Spec

\* A Task is deleted only after its client has been connected and its channel
\* closed, and never with its connection still waiting to be accepted: an
\* "established" event finds its task.
THEOREM TaskKept == Spec => []KeptUntilEstablished
<1>1. OInv => KeptUntilEstablished
  <2> SUFFICES ASSUME OInv, NEW t \in Tasks, task[t].active = "gone"
               PROVE  /\ client[t].hup
                      /\ \A i \in DOMAIN backlog : backlog[i] # t
    BY DEF KeptUntilEstablished
  <2>1. client[t].hup /\ ~Waiting(t)
    BY PairOrdered DEF Staged
  <2>2. DOMAIN backlog = 1..Len(backlog)
    BY DEF OInv, IInv, TypeOK
  <2> QED
    BY <2>1, <2>2 DEF Waiting
<1> QED
  BY <1>1, InitOInv, NextOInv, PTL DEF Spec

\* A client that leaves by exit() is heard to the end: when its task is
\* finished every event it posted is in the log, and the log never holds one
\* twice or out of order, whichever of "done", end of file and SIGCHLD the
\* interpreter meets first.
THEOREM CleanExitsHeard == Spec => []CleanExitHeard
<1>1. OInv => CleanExitHeard
  <2> SUFFICES ASSUME OInv, NEW t \in Tasks
               PROVE  LET events == {i \in DOMAIN log[t] :
                                        log[t][i].name = "event"}
                      IN  /\ \A i, j \in events :
                                 i < j => log[t][i].n < log[t][j].n
                          /\ task[t].active = "finished"
                             /\ client[t].proc = "exited"
                                 => \A n \in 1..client[t].nposted :
                                        \E i \in events : log[t][i].n = n
    BY DEF CleanExitHeard
  <2>1. /\ Told(log[t], Pair(t)) /\ Pair(t).k = task[t]
        /\ Pair(t).c = client[t] /\ log[t] \in Seq(Notes)
    BY PairOrdered
  <2>2. DOMAIN log[t] = 1..Len(log[t])
    BY <2>1
  <2>3. Tale(log[t], client[t].inbox, client[t].nposted) /\ Ended(Pair(t))
    BY <2>1 DEF Told
  <2>4. ASSUME task[t].active = "finished", client[t].proc = "exited",
               NEW n \in 1..client[t].nposted
        PROVE  Has(log[t], n)
    <3>1. Len(client[t].inbox) = 0
      BY <2>1, <2>3, <2>4, LenEmpty DEF Ended
    <3>2. ~Has(client[t].inbox, n)
      BY <3>1 DEF Has
    <3> QED
      BY <2>3, <3>2 DEF Tale
  <2>5. Rising(log[t])
    BY <2>3 DEF Tale
  <2> QED
    BY <2>2, <2>4, <2>5 DEF Has, Rising
<1> QED
  BY <1>1, InitOInv, NextOInv, PTL DEF Spec

=============================================================================
