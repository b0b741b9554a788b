----------------------------- MODULE LinkProofs -----------------------------
(***************************************************************************)
(* Proofs about Link, for any clients, links and statements: accept()      *)
(* yields the sink a link is for, the two ends of a connection agree, and  *)
(* links are as the script asked for them if it asks one at a time.        *)
(*                                                                         *)
(* Each socket is made for one sink; that is nowhere written down in the   *)
(* program, so the invariant says that there is a list of them.  All that  *)
(* is under way about a socket, who has connected to it and what is kept   *)
(* as a connection, is about the client in the list.                       *)
(***************************************************************************)
EXTENDS Link, FiniteSetTheorems, WellFoundedInduction, TLAPS

-----------------------------------------------------------------------------
(* Sequences and functions.                                                *)

\* x is among the elements of q.
In(q, x) == \E i \in 1..Len(q) : q[i] = x

LEMMA InPushed ==
    ASSUME NEW X, NEW q \in Seq(X), NEW m \in X, NEW p, p = Append(q, m)
    PROVE  p \in Seq(X) /\ \A x : In(p, x) => In(q, x) \/ x = m
<1>1. /\ p \in Seq(X)
      /\ \A i \in 1..Len(p) : (i \in 1..Len(q) /\ p[i] = q[i]) \/ p[i] = m
  OBVIOUS
<1> QED
  BY <1>1 DEF In

LEMMA InTail ==
    ASSUME NEW X, NEW q \in Seq(X), q # << >>, NEW p, p = Tail(q)
    PROVE  /\ p \in Seq(X) /\ \A x : In(p, x) => In(q, x)
           /\ In(q, Head(q)) /\ Head(q) \in X
<1>1. /\ p \in Seq(X) /\ Head(q) \in X /\ 1 \in 1..Len(q) /\ Head(q) = q[1]
      /\ \A i \in 1..Len(p) : i + 1 \in 1..Len(q) /\ p[i] = q[i + 1]
  OBVIOUS
<1> QED
  BY <1>1 DEF In

LEMMA InEmpty == \A x : ~In(<< >>, x)
  BY DEF In

\* g is f but for its value x at c.
IsChanged(f, g, c, x, X) ==
    /\ g \in [Clients -> X] /\ g[c] = x
    /\ \A d \in Clients : d # c => g[d] = f[d]

LEMMA ChangedFields ==
    ASSUME NEW X, NEW f \in [Clients -> X], NEW c \in Clients, NEW x \in X,
           NEW g, g = [f EXCEPT ![c] = x]
    PROVE  IsChanged(f, g, c, x, X)
  BY DEF IsChanged

\* The messages of v are those of w, and perhaps m for c.
IsSent(w, v, c, m) ==
    /\ v \in [Clients -> Seq(Message)]
    /\ \A d \in Clients : \A x : In(v[d], x) => In(w[d], x) \/ (d = c /\ x = m)

IsFewer(w, v) ==
    /\ v \in [Clients -> Seq(Message)]
    /\ \A d \in Clients : \A x : In(v[d], x) => In(w[d], x)

LEMMA PushedFields ==
    ASSUME NEW w \in [Clients -> Seq(Message)], NEW c \in Clients, NEW m \in Message,
           NEW v, v = [w EXCEPT ![c] = Append(w[c], m)]
    PROVE  IsSent(w, v, c, m)
<1>1. PICK p : p = Append(w[c], m)
  OBVIOUS
<1>2. w[c] \in Seq(Message)
  OBVIOUS
<1>3. p \in Seq(Message) /\ \A x : In(p, x) => In(w[c], x) \/ x = m
  BY <1>1, <1>2, InPushed
<1>4. IsChanged(w, v, c, p, Seq(Message))
  BY <1>1, <1>3, ChangedFields
<1> QED
  BY <1>3, <1>4 DEF IsSent, IsChanged

LEMMA SendToFields ==
    ASSUME NEW w \in [Clients -> Seq(Message)], NEW c \in Clients, NEW m \in Message,
           NEW v, v = SendTo(w, c, m)
    PROVE  IsSent(w, v, c, m)
<1>1. CASE alive[c]
  BY <1>1, PushedFields DEF SendTo
<1>2. CASE ~alive[c]
  BY <1>2 DEF SendTo, IsSent
<1> QED
  BY <1>1, <1>2

LEMMA ReadFields ==
    ASSUME NEW w \in [Clients -> Seq(Message)], NEW c \in Clients, w[c] # << >>,
           NEW v, v = [w EXCEPT ![c] = Tail(w[c])]
    PROVE  IsFewer(w, v) /\ In(w[c], Head(w[c])) /\ Head(w[c]) \in Message
<1>1. PICK p : p = Tail(w[c])
  OBVIOUS
<1>2. w[c] \in Seq(Message)
  OBVIOUS
<1>3. /\ p \in Seq(Message) /\ \A x : In(p, x) => In(w[c], x)
      /\ In(w[c], Head(w[c])) /\ Head(w[c]) \in Message
  BY <1>1, <1>2, InTail
<1>4. IsChanged(w, v, c, p, Seq(Message))
  BY <1>1, <1>3, ChangedFields
<1> QED
  BY <1>3, <1>4 DEF IsFewer, IsChanged

\* s with x in place of its k-th element.
IsPut(s, t, k, x, X) ==
    /\ t \in Seq(X) /\ Len(t) = Len(s) /\ Len(s) \in Nat /\ t[k] = x
    /\ \A j \in 1..Len(s) : j # k => t[j] = s[j]

LEMMA PutFields ==
    ASSUME NEW X, NEW s \in Seq(X), NEW k \in 1..Len(s), NEW x \in X,
           NEW t, t = [s EXCEPT ![k] = x]
    PROVE  IsPut(s, t, k, x, X)
<1>1. Len(s) \in Nat /\ DOMAIN s = 1..Len(s)
  OBVIOUS
<1>2. t \in [1..Len(s) -> X] /\ t[k] = x
      /\ \A j \in 1..Len(s) : j # k => t[j] = s[j]
  BY <1>1
<1>3. t \in Seq(X) /\ Len(t) = Len(s)
  BY <1>1, <1>2
<1> QED
  BY <1>1, <1>2, <1>3 DEF IsPut

LEMMA MinFields ==
    ASSUME NEW S \in SUBSET Nat, S # {}
    PROVE  Min(S) \in S /\ \A i \in S : Min(S) <= i
<1>1. PICK x \in S : \A y \in S : ~(<<y, x>> \in OpToRel(<, Nat))
  BY WFMin, NatLessThanWellFounded
<1>2. \A y \in S : ~(y < x)
  BY <1>1 DEF OpToRel
<1>3. \A y \in S : x <= y
  BY <1>2
<1> QED
  BY <1>3 DEF Min

-----------------------------------------------------------------------------
(* The invariant.                                                          *)

\* A message about a socket: S are the sockets, T the clients they are for.
Aimed(m, S, T) ==
    m.sock \in 1..Len(S) /\ S[m.sock].owner = m.src /\ T[m.sock] = m.snk

\* Its sink finds the source listening, if it has to connect: A says who is
\* alive, R who has a connection from whom.
Waits(m, S, A, R) == A[m.src] /\ R[m.snk][m.src] = 0 => S[m.sock].open

InWire(m, c, S, T, A, R) ==
    /\ m.op # "terminate" => m.name \in Names
    /\ m.op # "resp" => m.src = c
    /\ m.op = "orig" => Aimed(m, S, T)
    /\ m.op = "resp" => m.snk = c /\ Aimed(m, S, T) /\ Waits(m, S, A, R)

InPosted(m, c, S, T, A, R) ==
    m.src = c /\ m.name \in Names /\ Aimed(m, S, T) /\ Waits(m, S, A, R)

InBusy(m, c, S, T) == m.src = c /\ m.name \in Names /\ Aimed(m, S, T)

\* Only the client a socket is for has connected to it, and reads from it.
SockInv(S, T, A, R) ==
    \A k \in 1..Len(S) :
        /\ S[k].peer \subseteq {T[k]}
        /\ S[k].open => A[S[k].owner]
        /\ A[S[k].owner] /\ T[k] \in S[k].peer => R[T[k]][S[k].owner] = k

\* The connections that are kept.
SinkInv(N, S, T) ==
    \A s, t \in Clients : N[s][t] # 0 =>
        /\ N[s][t] \in 1..Len(S) /\ S[N[s][t]].owner = s
        /\ T[N[s][t]] = t /\ S[N[s][t]].peer = {t}

Mail(w, p, b, S, T, A, R) ==
    \A c \in Clients :
        /\ \A m : In(w[c], m) => InWire(m, c, S, T, A, R)
        /\ \A m : In(p[c], m) => InPosted(m, c, S, T, A, R)
        /\ b[c] # None => InBusy(b[c], c, S, T)

Agreed(T) ==
    /\ T \in Seq(Clients) /\ Len(T) = Len(socks)
    /\ SockInv(socks, T, alive, sources)
    /\ SinkInv(sinks, socks, T)
    /\ Mail(wire, posted, busy, socks, T, alive, sources)

IInv == TypeOK /\ \E T : Agreed(T)

\* Sockets, connections and the living have changed so that what is under
\* way still finds what it needs.
Later(S, T, A, R, S1, T1, A1, R1) ==
    /\ Len(S) \in Nat /\ Len(S1) \in Nat
    /\ \A k \in 1..Len(S) :
          /\ k \in 1..Len(S1) /\ S1[k].owner = S[k].owner /\ T1[k] = T[k]
          /\ A1[S[k].owner] /\ R1[T[k]][S[k].owner] = 0 =>
                /\ A[S[k].owner] /\ R[T[k]][S[k].owner] = 0
                /\ S[k].open => S1[k].open

LEMMA MailKept ==
    ASSUME NEW S, NEW T, NEW A, NEW R, NEW S1, NEW T1, NEW A1, NEW R1,
           Later(S, T, A, R, S1, T1, A1, R1)
    PROVE  \A m, c : /\ InWire(m, c, S, T, A, R) => InWire(m, c, S1, T1, A1, R1)
                     /\ InPosted(m, c, S, T, A, R) => InPosted(m, c, S1, T1, A1, R1)
                     /\ InBusy(m, c, S, T) => InBusy(m, c, S1, T1)
<1>1. ASSUME NEW m, Aimed(m, S, T)
      PROVE  Aimed(m, S1, T1) /\ (Waits(m, S, A, R) => Waits(m, S1, A1, R1))
  BY <1>1 DEF Aimed, Waits, Later
<1> QED
  BY <1>1 DEF InWire, InPosted, InBusy

LEMMA SinksKept ==
    ASSUME NEW S, NEW T, NEW A, NEW R, NEW S1, NEW T1, NEW A1, NEW R1,
           Later(S, T, A, R, S1, T1, A1, R1), NEW N, SinkInv(N, S, T),
           \A k \in 1..Len(S) : S[k].peer = {T[k]} => S1[k].peer = {T[k]}
    PROVE  SinkInv(N, S1, T1)
  BY DEF SinkInv, Later

-----------------------------------------------------------------------------
(* What steps do to the sockets.                                           *)

LEMMA SocketFields ==
    ASSUME NEW s \in Socket
    PROVE  s.owner \in Clients /\ s.open \in BOOLEAN /\ s.peer \in SUBSET Clients
  BY DEF Socket

LEMMA ShutSocket ==
    ASSUME NEW s \in Socket, NEW x, x = [s EXCEPT !.open = FALSE]
    PROVE  /\ x \in Socket /\ x.owner = s.owner /\ x.peer = s.peer
           /\ x.open = FALSE
  BY DEF Socket

\* S1 has the sockets of S, with the same owners and the same peers.
IsSocks(S, S1) ==
    /\ S1 \in Seq(Socket) /\ Len(S1) = Len(S) /\ Len(S) \in Nat
    /\ \A k \in 1..Len(S) : S1[k].owner = S[k].owner

\* The sockets of a process that has died are closed.
IsDead(S, S1, c) ==
    /\ IsSocks(S, S1)
    /\ \A k \in 1..Len(S) :
          /\ S1[k].peer = S[k].peer
          /\ IF S[k].owner = c THEN S1[k].open = FALSE ELSE S1[k].open = S[k].open

LEMMA DeadFields ==
    ASSUME NEW S \in Seq(Socket), NEW c, NEW S1,
           S1 = [i \in DOMAIN S |->
                    IF S[i].owner = c THEN [S[i] EXCEPT !.open = FALSE] ELSE S[i]]
    PROVE  IsDead(S, S1, c)
<1>1. \A i \in 1..Len(S) : S[i] \in Socket
  OBVIOUS
<1>2. DOMAIN S = 1..Len(S) /\ Len(S) \in Nat
  OBVIOUS
<1>3. ASSUME NEW k \in 1..Len(S)
      PROVE  /\ S1[k] \in Socket /\ S1[k].owner = S[k].owner /\ S1[k].peer = S[k].peer
             /\ IF S[k].owner = c THEN S1[k].open = FALSE ELSE S1[k].open = S[k].open
  <2>1. S1[k] = IF S[k].owner = c THEN [S[k] EXCEPT !.open = FALSE] ELSE S[k]
    BY <1>2
  <2>2. S[k] \in Socket
    BY <1>1
  <2>3. CASE S[k].owner = c
    BY <2>1, <2>2, <2>3, ShutSocket
  <2>4. CASE S[k].owner # c
    BY <2>1, <2>2, <2>4
  <2> QED
    BY <2>3, <2>4
<1>4. S1 \in Seq(Socket) /\ Len(S1) = Len(S)
  <2>1. S1 \in [1..Len(S) -> Socket]
    BY <1>2, <1>3
  <2> QED
    BY <1>2, <2>1
<1> QED
  BY <1>2, <1>3, <1>4 DEF IsDead, IsSocks

LEMMA DeadStep ==
    ASSUME NEW S, NEW T, NEW A \in [Clients -> BOOLEAN], NEW R, NEW c \in Clients,
           SockInv(S, T, A, R), NEW S1, IsDead(S, S1, c), NEW A1,
           IsChanged(A, A1, c, FALSE, BOOLEAN),
           \A k \in 1..Len(S) : S[k].owner \in Clients
    PROVE  /\ Later(S, T, A, R, S1, T, A1, R)
           /\ SockInv(S1, T, A1, R)
<1>1. /\ Len(S1) = Len(S) /\ Len(S) \in Nat
      /\ \A k \in 1..Len(S) :
            /\ S1[k].owner = S[k].owner /\ S1[k].peer = S[k].peer
            /\ S[k].owner # c => S1[k].open = S[k].open
            /\ S[k].owner = c => S1[k].open = FALSE
  BY DEF IsDead, IsSocks
<1>2. /\ A1[c] = FALSE /\ \A d \in Clients : d # c => A1[d] = A[d]
  BY DEF IsChanged
<1>3. \A k \in 1..Len(S) : A1[S[k].owner] => S[k].owner # c /\ A[S[k].owner]
  BY <1>2
<1>4. Later(S, T, A, R, S1, T, A1, R)
  BY <1>1, <1>3 DEF Later
<1>5. SockInv(S1, T, A1, R)
  <2> SUFFICES ASSUME NEW k \in 1..Len(S)
               PROVE  /\ S1[k].peer \subseteq {T[k]}
                      /\ S1[k].open => A1[S1[k].owner]
                      /\ A1[S1[k].owner] /\ T[k] \in S1[k].peer =>
                            R[T[k]][S1[k].owner] = k
    BY <1>1 DEF SockInv
  <2>1. CASE S[k].owner = c
    BY <1>1, <1>2, <2>1 DEF SockInv
  <2>2. CASE S[k].owner # c
    BY <1>1, <1>2, <2>2 DEF SockInv
  <2> QED
    BY <2>1, <2>2
<1> QED
  BY <1>4, <1>5

\* A socket is closed whose sink has a connection from its owner.
IsShut(S, S1, k) ==
    /\ IsSocks(S, S1)
    /\ \A j \in 1..Len(S) : /\ S1[j].peer = S[j].peer
                            /\ S1[j].open => S[j].open
                            /\ j # k => S1[j].open = S[j].open

LEMMA ShutFields ==
    ASSUME NEW S \in Seq(Socket), NEW k \in 1..Len(S), NEW S1,
           S1 = [S EXCEPT ![k] = [S[k] EXCEPT !.open = FALSE]]
    PROVE  IsShut(S, S1, k)
<1>1. PICK x : x = [S[k] EXCEPT !.open = FALSE]
  OBVIOUS
<1>2. S[k] \in Socket
  OBVIOUS
<1>3. x \in Socket /\ x.owner = S[k].owner /\ x.peer = S[k].peer /\ x.open = FALSE
  BY <1>1, <1>2, ShutSocket
<1>4. S1 = [S EXCEPT ![k] = x]
  BY <1>1
<1>5. /\ S1 \in Seq(Socket) /\ Len(S1) = Len(S) /\ Len(S) \in Nat /\ S1[k] = x
      /\ \A j \in 1..Len(S) : j # k => S1[j] = S[j]
  <2>1. IsPut(S, S1, k, x, Socket)
    BY <1>3, <1>4, PutFields
  <2> QED
    BY <2>1 DEF IsPut
<1> QED
  BY <1>3, <1>5 DEF IsShut, IsSocks

LEMMA ShutStep ==
    ASSUME NEW S, NEW T, NEW A, NEW R, SockInv(S, T, A, R), NEW k \in 1..Len(S), NEW S1,
           IsShut(S, S1, k), ~(A[S[k].owner] /\ R[T[k]][S[k].owner] = 0)
    PROVE  /\ Later(S, T, A, R, S1, T, A, R)
           /\ SockInv(S1, T, A, R)
<1>1. /\ Len(S1) = Len(S) /\ Len(S) \in Nat
      /\ \A j \in 1..Len(S) :
            /\ S1[j].owner = S[j].owner /\ S1[j].peer = S[j].peer
            /\ S1[j].open => S[j].open
            /\ j # k => S1[j].open = S[j].open
  BY DEF IsShut, IsSocks
<1>2. Later(S, T, A, R, S1, T, A, R)
  BY <1>1 DEF Later
<1>3. SockInv(S1, T, A, R)
  BY <1>1 DEF SockInv
<1> QED
  BY <1>2, <1>3

\* The client a socket is for connects to it.
IsJoined(S, S1, k, c) ==
    /\ IsSocks(S, S1)
    /\ S1[k].peer = S[k].peer \cup {c}
    /\ \A j \in 1..Len(S) : /\ S1[j].open = S[j].open
                            /\ j # k => S1[j].peer = S[j].peer

LEMMA JoinedFields ==
    ASSUME NEW S \in Seq(Socket), NEW k \in 1..Len(S), NEW c \in Clients, NEW S1,
           S1 = [S EXCEPT ![k] = [S[k] EXCEPT !.peer = @ \cup {c}]]
    PROVE  IsJoined(S, S1, k, c)
<1>1. PICK x : x = [S[k] EXCEPT !.peer = S[k].peer \cup {c}]
  OBVIOUS
<1>2. S[k] \in Socket
  OBVIOUS
<1>3. x \in Socket /\ x.owner = S[k].owner /\ x.open = S[k].open
      /\ x.peer = S[k].peer \cup {c}
  <2>1. PICK P : P = S[k].peer \cup {c}
    OBVIOUS
  <2>2. P \in SUBSET Clients /\ x = [S[k] EXCEPT !.peer = P]
    BY <1>1, <1>2, <2>1, SocketFields
  <2>3. PICK y : y = S[k]
    OBVIOUS
  <2>4. y \in Socket /\ x = [y EXCEPT !.peer = P]
    BY <1>2, <2>2, <2>3
  <2>5. x \in Socket /\ x.owner = y.owner /\ x.open = y.open /\ x.peer = P
    BY <2>2, <2>4 DEF Socket
  <2> QED
    BY <2>1, <2>3, <2>5, Zenon
<1>4. S1 = [S EXCEPT ![k] = x]
  BY <1>1
<1>5. /\ S1 \in Seq(Socket) /\ Len(S1) = Len(S) /\ Len(S) \in Nat /\ S1[k] = x
      /\ \A j \in 1..Len(S) : j # k => S1[j] = S[j]
  <2>1. IsPut(S, S1, k, x, Socket)
    BY <1>3, <1>4, PutFields
  <2> QED
    BY <2>1 DEF IsPut
<1> QED
  BY <1>3, <1>5 DEF IsJoined, IsSocks

\* c now has a connection from s, or none any more.
IsRow(R, R1, c, s, k) ==
    /\ R1 \in [Clients -> [Clients -> Nat]] /\ R1[c][s] = k
    /\ \A t, d \in Clients : t # c \/ d # s => R1[t][d] = R[t][d]

LEMMA RowFields ==
    ASSUME NEW R \in [Clients -> [Clients -> Nat]], NEW c \in Clients, NEW s \in Clients,
           NEW k \in Nat, NEW R1, R1 = [R EXCEPT ![c] = [R[c] EXCEPT ![s] = k]]
    PROVE  IsRow(R, R1, c, s, k)
<1>1. PICK f : f = [R[c] EXCEPT ![s] = k]
  OBVIOUS
<1>2. R[c] \in [Clients -> Nat]
  OBVIOUS
<1>3. /\ f \in [Clients -> Nat] /\ f[s] = k
      /\ \A d \in Clients : d # s => f[d] = R[c][d]
  BY <1>1, <1>2
<1>4. IsChanged(R, R1, c, f, [Clients -> Nat])
  BY <1>1, <1>3, ChangedFields
<1> QED
  BY <1>3, <1>4 DEF IsChanged, IsRow

LEMMA JoinStep ==
    ASSUME NEW S, NEW T \in Seq(Clients), NEW A, NEW R, SockInv(S, T, A, R),
           NEW k \in 1..Len(S), NEW c \in Clients, T[k] = c, NEW S1, IsJoined(S, S1, k, c),
           NEW R1, IsRow(R, R1, c, S[k].owner, k), R[c][S[k].owner] = 0,
           Len(T) = Len(S), \A j \in 1..Len(S) : S[j].owner \in Clients
    PROVE  /\ Later(S, T, A, R, S1, T, A, R1)
           /\ SockInv(S1, T, A, R1)
<1>1. /\ Len(S1) = Len(S) /\ Len(S) \in Nat
      /\ S1[k].peer = S[k].peer \cup {c}
      /\ \A j \in 1..Len(S) : /\ S1[j].owner = S[j].owner /\ S1[j].open = S[j].open
                              /\ j # k => S1[j].peer = S[j].peer
  BY DEF IsJoined, IsSocks
<1>2. /\ R1[c][S[k].owner] = k
      /\ \A t, d \in Clients : t # c \/ d # S[k].owner => R1[t][d] = R[t][d]
  BY DEF IsRow
<1>3. \A j \in 1..Len(S) : T[j] \in Clients /\ S[j].owner \in Clients /\ j # 0
  BY <1>1
<1>4. \A j \in 1..Len(S) : R1[T[j]][S[j].owner] = 0 => R[T[j]][S[j].owner] = 0
  BY <1>2, <1>3
<1>5. Later(S, T, A, R, S1, T, A, R1)
  BY <1>1, <1>4 DEF Later
<1>6. ASSUME NEW j \in 1..Len(S)
      PROVE  /\ S1[j].peer \subseteq {T[j]}
             /\ S1[j].open => A[S1[j].owner]
             /\ A[S1[j].owner] /\ T[j] \in S1[j].peer => R1[T[j]][S1[j].owner] = j
  <2>1. CASE j = k
    BY <1>1, <1>2, <2>1 DEF SockInv
  <2>2. CASE j # k
    <3>1. /\ S[j].peer \subseteq {T[j]}
          /\ S[j].open => A[S[j].owner]
          /\ A[S[j].owner] /\ T[j] \in S[j].peer => R[T[j]][S[j].owner] = j
      BY DEF SockInv
    <3>2. ASSUME A[S[j].owner], T[j] \in S[j].peer PROVE R1[T[j]][S[j].owner] = j
      <4>1. R[T[j]][S[j].owner] = j /\ j # 0
        BY <1>3, <3>1, <3>2
      <4>2. T[j] # c \/ S[j].owner # S[k].owner
        BY <4>1
      <4> QED
        BY <1>2, <1>3, <4>1, <4>2
    <3> QED
      BY <1>1, <2>2, <3>1, <3>2
  <2> QED
    BY <2>1, <2>2
<1>7. SockInv(S1, T, A, R1)
  BY <1>1, <1>6 DEF SockInv
<1> QED
  BY <1>5, <1>7

\* A connection from a dead client is forgotten.
LEMMA ForgetStep ==
    ASSUME NEW S, NEW T \in Seq(Clients), NEW A, NEW R, SockInv(S, T, A, R),
           NEW c \in Clients, NEW s \in Clients, ~A[s], NEW R1, IsRow(R, R1, c, s, 0),
           Len(T) = Len(S), Len(S) \in Nat, \A j \in 1..Len(S) : S[j].owner \in Clients
    PROVE  /\ Later(S, T, A, R, S, T, A, R1)
           /\ SockInv(S, T, A, R1)
<1>1. \A j \in 1..Len(S) : T[j] \in Clients /\ S[j].owner \in Clients
  OBVIOUS
<1>2. \A j \in 1..Len(S) : A[S[j].owner] => R1[T[j]][S[j].owner] = R[T[j]][S[j].owner]
  BY <1>1 DEF IsRow
<1> QED
  BY <1>2 DEF Later, SockInv

\* c has made a new socket, the k-th, for t.
IsMade(S, S1, T1, k, c, t) ==
    /\ S1 \in Seq(Socket) /\ T1 \in Seq(Clients) /\ Len(T1) = Len(S1)
    /\ k \in 1..Len(S1) /\ S1[k].owner = c /\ S1[k].open /\ T1[k] = t
    /\ \A j \in 1..Len(S) : S1[j] = S[j]

LEMMA NewStep ==
    ASSUME NEW S \in Seq(Socket), NEW T \in Seq(Clients), NEW A, NEW R, SockInv(S, T, A, R),
           Len(T) = Len(S), NEW c \in Clients, NEW t \in Clients, A[c], NEW S1, NEW T1,
           S1 = Append(S, [owner |-> c, open |-> TRUE, peer |-> {}]), T1 = Append(T, t)
    PROVE  /\ Later(S, T, A, R, S1, T1, A, R)
           /\ SockInv(S1, T1, A, R)
           /\ IsMade(S, S1, T1, Len(S) + 1, c, t)
<1>1. PICK x : x = [owner |-> c, open |-> TRUE, peer |-> {}]
  OBVIOUS
<1>2. x \in Socket /\ x.owner = c /\ x.open = TRUE /\ x.peer = {}
  BY <1>1 DEF Socket
<1>3. /\ S1 \in Seq(Socket) /\ Len(S1) = Len(S) + 1 /\ Len(S) \in Nat
      /\ S1[Len(S) + 1] = x /\ \A k \in 1..Len(S) : S1[k] = S[k]
  BY <1>1, <1>2
<1>4. /\ T1 \in Seq(Clients) /\ Len(T1) = Len(T) + 1
      /\ T1[Len(S) + 1] = t /\ \A k \in 1..Len(S) : T1[k] = T[k]
  OBVIOUS
<1>5. Len(S) + 1 \in 1..Len(S1) /\ \A k \in 1..Len(S1) : k \in 1..Len(S) \/ k = Len(S) + 1
  BY <1>3
<1>6. \A k \in 1..Len(S) : k \in 1..Len(S1)
  BY <1>3
<1>7. Len(S1) \in Nat
  BY <1>3
<1>8. Later(S, T, A, R, S1, T1, A, R)
  BY <1>3, <1>4, <1>6, <1>7 DEF Later
<1>9. SockInv(S1, T1, A, R)
  <2> SUFFICES ASSUME NEW k \in 1..Len(S1)
               PROVE  /\ S1[k].peer \subseteq {T1[k]}
                      /\ S1[k].open => A[S1[k].owner]
                      /\ A[S1[k].owner] /\ T1[k] \in S1[k].peer =>
                            R[T1[k]][S1[k].owner] = k
    BY DEF SockInv
  <2>1. CASE k = Len(S) + 1
    BY <1>2, <1>3, <2>1
  <2>2. CASE k \in 1..Len(S)
    BY <1>3, <1>4, <2>2 DEF SockInv
  <2> QED
    BY <1>5, <2>1, <2>2
<1>10. IsMade(S, S1, T1, Len(S) + 1, c, t)
  BY <1>2, <1>3, <1>4, <1>5 DEF IsMade
<1> QED
  BY <1>8, <1>9, <1>10

-----------------------------------------------------------------------------
(* Steps.                                                                  *)

\* All that is under way was so before or is as it should be.
NewMail(T) ==
    \A c \in Clients :
        /\ \A m : In(wire'[c], m) =>
              In(wire[c], m) \/ InWire(m, c, socks', T, alive', sources')
        /\ \A m : In(posted'[c], m) =>
              In(posted[c], m) \/ InPosted(m, c, socks', T, alive', sources')
        /\ busy'[c] # None =>
              busy'[c] = busy[c] \/ InBusy(busy'[c], c, socks', T)

LEMMA Step ==
    ASSUME NEW T, Agreed(T), NEW T1 \in Seq(Clients), Len(T1) = Len(socks'),
           Later(socks, T, alive, sources, socks', T1, alive', sources'),
           SockInv(socks', T1, alive', sources'), SinkInv(sinks', socks', T1),
           NewMail(T1)
    PROVE  Agreed(T1)'
<1>1. \A m, c : /\ InWire(m, c, socks, T, alive, sources) =>
                      InWire(m, c, socks', T1, alive', sources')
                /\ InPosted(m, c, socks, T, alive, sources) =>
                      InPosted(m, c, socks', T1, alive', sources')
                /\ InBusy(m, c, socks, T) => InBusy(m, c, socks', T1)
  BY MailKept
<1>2. Mail(wire, posted, busy, socks, T, alive, sources)
  BY DEF Agreed
<1>3. Mail(wire', posted', busy', socks', T1, alive', sources')
  <2> SUFFICES ASSUME NEW c \in Clients
               PROVE  /\ \A m : In(wire'[c], m) =>
                            InWire(m, c, socks', T1, alive', sources')
                      /\ \A m : In(posted'[c], m) =>
                            InPosted(m, c, socks', T1, alive', sources')
                      /\ busy'[c] # None => InBusy(busy'[c], c, socks', T1)
    BY DEF Mail
  <2>1. \A m : In(wire'[c], m) => InWire(m, c, socks', T1, alive', sources')
    BY <1>1, <1>2 DEF Mail, NewMail
  <2>2. \A m : In(posted'[c], m) => InPosted(m, c, socks', T1, alive', sources')
    BY <1>1, <1>2 DEF Mail, NewMail
  <2>3. busy'[c] # None => InBusy(busy'[c], c, socks', T1)
    BY <1>1, <1>2 DEF Mail, NewMail
  <2> QED
    BY <2>1, <2>2, <2>3
<1> QED
  BY <1>3 DEF Agreed

LEMMA QuietStep ==
    ASSUME NEW T, Agreed(T), TypeOK, UNCHANGED <<sinks, sources, socks, alive>>,
           NewMail(T)
    PROVE  Agreed(T)'
<1>1. /\ T \in Seq(Clients) /\ Len(T) = Len(socks) /\ Len(socks) \in Nat
      /\ SockInv(socks, T, alive, sources) /\ SinkInv(sinks, socks, T)
  BY DEF Agreed, TypeOK
<1>2. Later(socks, T, alive, sources, socks, T, alive, sources)
  BY <1>1 DEF Later
<1> QED
  BY <1>1, <1>2, Step

LEMMA MessageFields ==
    ASSUME NEW m \in Message
    PROVE  /\ m.src \in Clients /\ m.snk \in Clients /\ m.sock \in Nat
           /\ m.op \in {"link", "unlink", "orig", "resp", "terminate"}
           /\ m.name \in Names \cup {"any"}
  BY DEF Message

\* What the interpreter makes of a request for a rendezvous.
LEMMA OpMessage ==
    ASSUME NEW m \in Message, NEW o \in {"orig", "resp"}, NEW x,
           x = [m EXCEPT !.op = o]
    PROVE  /\ x \in Message /\ x.op = o /\ x.src = m.src /\ x.snk = m.snk
           /\ x.name = m.name /\ x.sock = m.sock
  BY DEF Message

\* What a client makes of the link it is asked for.
LEMMA SockMessage ==
    ASSUME NEW m \in Message, NEW k \in Nat, NEW x, x = [m EXCEPT !.sock = k]
    PROVE  /\ x \in Message /\ x.sock = k /\ x.src = m.src /\ x.snk = m.snk
           /\ x.name = m.name /\ x.op = m.op
  BY DEF Message

LEMMA StatementStep ==
    ASSUME IInv, NEW o \in {"link", "unlink"}, NEW p \in Pairs, NEW n \in Named[p],
           Statement(o, p, n)
    PROVE  IInv'
<1>1. TypeOK
  BY DEF IInv
<1>2. PICK T : Agreed(T)
  BY DEF IInv
<1>3. p[1] \in Clients /\ p[2] \in Clients /\ n \in Names
  BY PairsAssumption, NamedAssumption
<1>4. PICK m : m = [op |-> o, src |-> p[1], snk |-> p[2], name |-> n, sock |-> 0]
  OBVIOUS
<1>5. m \in Message /\ m.op = o /\ m.src = p[1] /\ m.name = n
  BY <1>3, <1>4 DEF Message
<1>6. wire' = SendTo(wire, p[1], m)
  BY <1>4 DEF Statement
<1>7. IsSent(wire, wire', p[1], m)
  BY <1>1, <1>3, <1>5, <1>6, SendToFields DEF TypeOK
<1>8. /\ UNCHANGED <<posted, links, sinks, sources, busy, socks, alive, known, up>>
      /\ UNCHANGED <<nlost, lost>>
  BY DEF Statement, clientVars
<1>9. asked' \in [Pairs -> [Names -> Nat]] /\ nstmt' \in Nat
  <2>1. asked[p] \in [Names -> Nat]
    BY <1>1 DEF TypeOK
  <2>2. PICK x : x = IF o = "link" THEN asked[p][n] + 1
                     ELSE IF asked[p][n] = 0 THEN 0 ELSE asked[p][n] - 1
    OBVIOUS
  <2>3. x \in Nat
    BY <1>3, <2>1, <2>2
  <2>4. PICK f : f = [asked[p] EXCEPT ![n] = x]
    OBVIOUS
  <2>5. f \in [Names -> Nat]
    BY <2>1, <2>3, <2>4
  <2>6. asked' = [asked EXCEPT ![p] = f]
    BY <2>2, <2>4 DEF Statement
  <2>7. asked' \in [Pairs -> [Names -> Nat]]
    BY <1>1, <2>5, <2>6 DEF TypeOK
  <2>8. nstmt' \in Nat
    BY <1>1 DEF TypeOK, Statement
  <2> QED
    BY <2>7, <2>8
<1>10. TypeOK'
  BY <1>1, <1>7, <1>8, <1>9 DEF TypeOK, IsSent
<1>11. InWire(m, p[1], socks', T, alive', sources')
  BY <1>3, <1>5 DEF InWire
<1>12. NewMail(T)
  BY <1>7, <1>8, <1>11 DEF NewMail, IsSent
<1>13. Agreed(T)'
  BY <1>1, <1>2, <1>8, <1>12, QuietStep
<1> QED
  BY <1>10, <1>13 DEF IInv

LEMMA RendezvousStep ==
    ASSUME IInv, NEW c \in Clients, Rendezvous(c)
    PROVE  IInv'
<1>1. TypeOK
  BY DEF IInv
<1>2. PICK T : Agreed(T)
  BY DEF IInv
<1>3. PICK m : m = Head(posted[c])
  OBVIOUS
<1>4. posted[c] # << >> /\ posted' = [posted EXCEPT ![c] = Tail(posted[c])]
  BY DEF Rendezvous
<1>5. IsFewer(posted, posted') /\ In(posted[c], m) /\ m \in Message
  BY <1>1, <1>3, <1>4, ReadFields DEF TypeOK
<1>6. InPosted(m, c, socks, T, alive, sources)
  BY <1>2, <1>5 DEF Agreed, Mail
<1>7. /\ UNCHANGED <<links, sinks, sources, busy, socks, alive, known>>
      /\ UNCHANGED <<asked, nstmt, nlost, lost>>
  BY DEF Rendezvous, clientVars, scriptVars
<1>8. CASE {m.src, m.snk} \subseteq known
  <2>1. PICK x, y : x = [m EXCEPT !.op = "orig"] /\ y = [m EXCEPT !.op = "resp"]
    OBVIOUS
  <2>2. /\ x \in Message /\ x.op = "orig" /\ x.src = m.src /\ x.snk = m.snk
        /\ x.name = m.name /\ x.sock = m.sock
    BY <1>5, <2>1, OpMessage
  <2>3. /\ y \in Message /\ y.op = "resp" /\ y.src = m.src /\ y.snk = m.snk
        /\ y.name = m.name /\ y.sock = m.sock
    BY <1>5, <2>1, OpMessage
  <2>4. PICK v : v = SendTo(wire, m.src, x)
    OBVIOUS
  <2>5. wire' = SendTo(v, m.snk, y) /\ up' = up
    BY <1>3, <1>8, <2>1, <2>4 DEF Rendezvous
  <2>6. m.src \in Clients /\ m.snk \in Clients
    BY <1>5, MessageFields
  <2>7. IsSent(wire, v, m.src, x)
    BY <1>1, <2>2, <2>4, <2>6, SendToFields DEF TypeOK
  <2>8. IsSent(v, wire', m.snk, y)
    <3>1. v \in [Clients -> Seq(Message)]
      BY <2>7 DEF IsSent
    <3> QED
      BY <2>3, <2>5, <2>6, <3>1, SendToFields
  <2>9. /\ wire' \in [Clients -> Seq(Message)]
        /\ \A d \in Clients : \A z : In(wire'[d], z) =>
              \/ In(wire[d], z) \/ (d = m.src /\ z = x) \/ (d = m.snk /\ z = y)
    BY <2>7, <2>8 DEF IsSent
  <2>10. /\ InWire(x, m.src, socks, T, alive, sources)
         /\ InWire(y, m.snk, socks, T, alive, sources)
    BY <1>6, <2>2, <2>3 DEF InWire, InPosted, Aimed, Waits
  <2>11. NewMail(T)
    BY <1>5, <1>7, <2>9, <2>10 DEF NewMail, IsFewer
  <2>12. TypeOK'
    BY <1>1, <1>5, <1>7, <2>5, <2>9 DEF TypeOK, IsFewer
  <2>13. Agreed(T)'
    BY <1>1, <1>2, <1>7, <2>11, QuietStep
  <2> QED
    BY <2>12, <2>13 DEF IInv
<1>9. CASE ~({m.src, m.snk} \subseteq known)
  <2>1. up' = FALSE /\ wire' = wire
    BY <1>3, <1>9 DEF Rendezvous
  <2>2. NewMail(T)
    BY <1>5, <1>7, <2>1 DEF NewMail, IsFewer
  <2>3. TypeOK'
    BY <1>1, <1>5, <1>7, <2>1 DEF TypeOK, IsFewer
  <2>4. Agreed(T)'
    BY <1>1, <1>2, <1>7, <2>2, QuietStep
  <2> QED
    BY <2>3, <2>4 DEF IInv
<1> QED
  BY <1>8, <1>9

LEMMA DropStep ==
    ASSUME IInv, NEW c \in Clients, Drop(c)
    PROVE  IInv'
<1>1. TypeOK
  BY DEF IInv
<1>2. PICK T : Agreed(T)
  BY DEF IInv
<1>3. PICK m : m = [op |-> "terminate", src |-> c, snk |-> c, name |-> "any", sock |-> 0]
  OBVIOUS
<1>4. m \in Message /\ m.op = "terminate" /\ m.src = c
  BY <1>3 DEF Message
<1>5. wire' = SendTo(wire, c, m)
  BY <1>3 DEF Drop
<1>6. IsSent(wire, wire', c, m)
  BY <1>1, <1>4, <1>5, SendToFields DEF TypeOK
<1>7. /\ UNCHANGED <<posted, links, sinks, sources, busy, socks, alive, up>>
      /\ UNCHANGED <<asked, nstmt, lost>>
  BY DEF Drop, clientVars, scriptVars
<1>8. nlost' \in Nat /\ known' \subseteq Clients
  BY <1>1 DEF Drop, TypeOK
<1>9. TypeOK'
  BY <1>1, <1>6, <1>7, <1>8 DEF TypeOK, IsSent
<1>10. InWire(m, c, socks', T, alive', sources')
  BY <1>4 DEF InWire
<1>11. NewMail(T)
  BY <1>6, <1>7, <1>10 DEF NewMail, IsSent
<1>12. Agreed(T)'
  BY <1>1, <1>2, <1>7, <1>11, QuietStep
<1> QED
  BY <1>9, <1>12 DEF IInv

-----------------------------------------------------------------------------
(* The clients' steps.                                                     *)

LEMMA LinkFields ==
    ASSUME NEW l \in EventLink
    PROVE  l.snk \in Clients /\ l.fd \in Nat /\ l.active \in BOOLEAN
  BY DEF EventLink

LEMMA AddOutputLinkType ==
    ASSUME TypeOK, NEW c \in Clients, NEW m \in Message, m.name \in Names,
           NEW want \in BOOLEAN, NEW fd \in Nat, NEW active \in BOOLEAN,
           AddOutputLink(c, m, want, fd, active)
    PROVE  links' \in [Clients -> [Names -> Seq(EventLink)]]
<1>1. PICK l : l = links[c][m.name]
  OBVIOUS
<1>2. PICK S : S = Matching(c, m, want)
  OBVIOUS
<1>3. PICK k : k = Min(S)
  OBVIOUS
<1>4. PICK x : x = [snk |-> m.snk, active |-> active,
                    fd |-> IF fd = 0 THEN l[k].fd ELSE fd]
  OBVIOUS
<1>5. PICK y : y = [snk |-> m.snk, fd |-> fd, active |-> active]
  OBVIOUS
<1>6. PICK q : q = IF S # {} THEN [l EXCEPT ![k] = x] ELSE Append(l, y)
  OBVIOUS
<1>7. links' = [links EXCEPT ![c] = [links[c] EXCEPT ![m.name] = q]]
  BY <1>1, <1>2, <1>3, <1>4, <1>5, <1>6 DEF AddOutputLink
<1>8. links[c] \in [Names -> Seq(EventLink)] /\ l \in Seq(EventLink)
  BY <1>1 DEF TypeOK
<1>9. S \subseteq 1..Len(l)
  BY <1>1, <1>2, <1>8 DEF Matching
<1>10. m.snk \in Clients
  BY MessageFields
<1>11. y \in EventLink
  BY <1>5, <1>10 DEF EventLink
<1>12. q \in Seq(EventLink)
  <2>1. CASE S = {}
    BY <1>6, <1>8, <1>11, <2>1
  <2>2. CASE S # {}
    <3>1. k \in S
      BY <1>3, <1>9, <2>2, MinFields
    <3>2. k \in 1..Len(l) /\ l[k] \in EventLink
      BY <1>8, <1>9, <3>1
    <3>3. l[k].fd \in Nat
      BY <3>2, LinkFields
    <3>4. x \in EventLink
      BY <1>4, <1>10, <3>3 DEF EventLink
    <3>5. q = [l EXCEPT ![k] = x]
      BY <1>6, <2>2
    <3>6. IsPut(l, q, k, x, EventLink)
      BY <1>8, <3>2, <3>4, <3>5, PutFields
    <3> QED
      BY <3>6 DEF IsPut
  <2> QED
    BY <2>1, <2>2
<1>13. PICK g : g = [links[c] EXCEPT ![m.name] = q]
  OBVIOUS
<1>14. g \in [Names -> Seq(EventLink)]
  BY <1>8, <1>12, <1>13
<1> QED
  BY <1>7, <1>13, <1>14 DEF TypeOK

\* What c reads, and what is left for it.
LEMMA ReadStep ==
    ASSUME TypeOK, NEW T, Agreed(T), NEW c \in Clients, NEW o, Read(c, o), NEW m,
           m = Head(wire[c])
    PROVE  /\ m \in Message /\ m.op = o /\ alive[c] = TRUE /\ busy[c] = None
           /\ InWire(m, c, socks, T, alive, sources)
           /\ IsFewer(wire, wire')
<1>1. /\ wire[c] # << >> /\ wire' = [wire EXCEPT ![c] = Tail(wire[c])]
      /\ m.op = o /\ alive[c] /\ busy[c] = None
  BY DEF Read
<1>2. alive[c] = TRUE
  BY <1>1 DEF TypeOK
<1>3. IsFewer(wire, wire') /\ In(wire[c], m) /\ m \in Message
  BY <1>1, ReadFields DEF TypeOK
<1>4. InWire(m, c, socks, T, alive, sources)
  BY <1>3 DEF Agreed, Mail
<1> QED
  BY <1>1, <1>2, <1>3, <1>4

LEMMA BuildLinkStep ==
    ASSUME IInv, NEW c \in Clients, BuildLink(c)
    PROVE  IInv'
<1>1. TypeOK
  BY DEF IInv
<1>2. PICK T : Agreed(T)
  BY DEF IInv
<1>3. PICK m : m = Head(wire[c])
  OBVIOUS
<1>4. /\ m \in Message /\ m.op = "link" /\ alive[c] = TRUE
      /\ InWire(m, c, socks, T, alive, sources) /\ IsFewer(wire, wire')
  BY <1>1, <1>2, <1>3, ReadStep DEF BuildLink
<1>5. m.name \in Names /\ m.src = c /\ m.snk \in Clients
  BY <1>4, MessageFields DEF InWire
<1>6. PICK fd, isNew : /\ fd = sinks[c][m.snk]
                       /\ isNew = (Matching(c, m, FALSE) = {})
  OBVIOUS
<1>7. /\ UNCHANGED <<sinks, sources, busy, alive, known, up>>
      /\ UNCHANGED <<asked, nstmt, nlost, lost>>
  BY DEF BuildLink, scriptVars
<1>8. links' \in [Clients -> [Names -> Seq(EventLink)]]
  <2>1. PICK f, a : /\ f = IF isNew THEN fd ELSE 0
                    /\ a = (~isNew \/ fd # 0)
    OBVIOUS
  <2>2. AddOutputLink(c, m, FALSE, f, a)
    BY <1>3, <1>6, <2>1 DEF BuildLink
  <2>3. f \in Nat /\ a \in BOOLEAN
    <3>1. fd \in Nat
      BY <1>1, <1>5, <1>6 DEF TypeOK
    <3>2. f \in Nat
      BY <2>1, <3>1
    <3>3. a \in BOOLEAN
      BY <2>1
    <3> QED
      BY <3>2, <3>3
  <2> QED
    BY <1>1, <1>4, <1>5, <2>2, <2>3, AddOutputLinkType
<1>9. CASE ~isNew \/ fd # 0
  <2>1. UNCHANGED <<socks, posted>>
    BY <1>3, <1>6, <1>9 DEF BuildLink
  <2>2. NewMail(T)
    BY <1>4, <1>7, <2>1 DEF NewMail, IsFewer
  <2>3. TypeOK'
    BY <1>1, <1>4, <1>7, <1>8, <2>1 DEF TypeOK, IsFewer
  <2>4. Agreed(T)'
    BY <1>1, <1>2, <1>7, <2>1, <2>2, QuietStep
  <2> QED
    BY <2>3, <2>4 DEF IInv
<1>10. CASE ~(~isNew \/ fd # 0)
  <2>1. PICK k, x : k = Len(socks) + 1 /\ x = [m EXCEPT !.sock = k]
    OBVIOUS
  <2>2. /\ socks' = Append(socks, [owner |-> c, open |-> TRUE, peer |-> {}])
        /\ posted' = [posted EXCEPT ![c] = Append(posted[c], x)]
    BY <1>3, <1>6, <1>10, <2>1 DEF BuildLink
  <2>3. /\ T \in Seq(Clients) /\ Len(T) = Len(socks)
        /\ socks \in Seq(Socket)
        /\ SockInv(socks, T, alive, sources) /\ SinkInv(sinks, socks, T)
    BY <1>1, <1>2 DEF Agreed, TypeOK
  <2>4. PICK T1 : T1 = Append(T, m.snk)
    OBVIOUS
  <2>5. /\ Later(socks, T, alive, sources, socks', T1, alive, sources)
        /\ SockInv(socks', T1, alive, sources)
        /\ socks' \in Seq(Socket) /\ T1 \in Seq(Clients) /\ Len(T1) = Len(socks')
        /\ k \in 1..Len(socks') /\ socks'[k].owner = c /\ socks'[k].open
        /\ T1[k] = m.snk
        /\ \A j \in 1..Len(socks) : socks'[j] = socks[j]
    <3>1. /\ Later(socks, T, alive, sources, socks', T1, alive, sources)
          /\ SockInv(socks', T1, alive, sources)
          /\ IsMade(socks, socks', T1, Len(socks) + 1, c, m.snk)
      BY <1>4, <1>5, <2>2, <2>3, <2>4, NewStep
    <3> QED
      BY <2>1, <3>1 DEF IsMade
  <2>6. SinkInv(sinks, socks', T1)
    BY <2>3, <2>5, SinksKept
  <2>7. k \in Nat
    BY <2>1, <2>3
  <2>8. x \in Message /\ x.sock = k /\ x.src = c /\ x.snk = m.snk /\ x.name = m.name
    BY <1>4, <1>5, <2>1, <2>7, SockMessage
  <2>9. IsSent(posted, posted', c, x)
    BY <1>1, <2>2, <2>8, PushedFields DEF TypeOK
  <2>10. InPosted(x, c, socks', T1, alive, sources)
    BY <1>5, <2>5, <2>8 DEF InPosted, Aimed, Waits
  <2>11. NewMail(T1)
    BY <1>4, <1>7, <2>9, <2>10 DEF NewMail, IsFewer, IsSent
  <2>12. TypeOK'
    BY <1>1, <1>4, <1>7, <1>8, <2>5, <2>9 DEF TypeOK, IsFewer, IsSent
  <2>13. Agreed(T1)'
    BY <1>2, <1>7, <2>5, <2>6, <2>11, Step
  <2> QED
    BY <2>12, <2>13 DEF IInv
<1> QED
  BY <1>9, <1>10

LEMMA UnlinkSinkStep ==
    ASSUME IInv, NEW c \in Clients, UnlinkSink(c)
    PROVE  IInv'
<1>1. TypeOK
  BY DEF IInv
<1>2. PICK T : Agreed(T)
  BY DEF IInv
<1>3. PICK m : m = Head(wire[c])
  OBVIOUS
<1>4. /\ m \in Message /\ m.op = "unlink"
      /\ InWire(m, c, socks, T, alive, sources) /\ IsFewer(wire, wire')
  BY <1>1, <1>2, <1>3, ReadStep DEF UnlinkSink
<1>5. m.name \in Names
  BY <1>4 DEF InWire
<1>6. /\ UNCHANGED <<posted, sinks, sources, busy, socks, alive, known, up>>
      /\ UNCHANGED <<asked, nstmt, nlost, lost>>
  BY DEF UnlinkSink, scriptVars
<1>7. AddOutputLink(c, m, TRUE, 0, FALSE)
  BY <1>3 DEF UnlinkSink
<1>8. links' \in [Clients -> [Names -> Seq(EventLink)]]
  BY <1>1, <1>4, <1>5, <1>7, AddOutputLinkType
<1>9. NewMail(T)
  BY <1>4, <1>6 DEF NewMail, IsFewer
<1>10. TypeOK'
  BY <1>1, <1>4, <1>6, <1>8 DEF TypeOK, IsFewer
<1>11. Agreed(T)'
  BY <1>1, <1>2, <1>6, <1>9, QuietStep
<1> QED
  BY <1>10, <1>11 DEF IInv

\* The end of a process, whatever it has read before.
LEMMA DiesStep ==
    ASSUME IInv, NEW c \in Clients, Dies(c), IsFewer(wire, wire'),
           UNCHANGED posted
    PROVE  /\ \E T : Agreed(T)'
           /\ links' = links /\ sinks' = sinks /\ sources' = sources
           /\ alive' \in [Clients -> BOOLEAN] /\ socks' \in Seq(Socket)
           /\ busy' \in [Clients -> Message \cup {None}]
<1>1. TypeOK
  BY DEF IInv
<1>2. PICK T : Agreed(T)
  BY DEF IInv
<1>3. /\ T \in Seq(Clients) /\ Len(T) = Len(socks)
      /\ socks \in Seq(Socket) /\ alive \in [Clients -> BOOLEAN]
      /\ SockInv(socks, T, alive, sources) /\ SinkInv(sinks, socks, T)
  BY <1>1, <1>2 DEF Agreed, TypeOK
<1>4. /\ links' = links /\ sinks' = sinks /\ sources' = sources
      /\ alive' = [alive EXCEPT ![c] = FALSE]
      /\ busy' = [busy EXCEPT ![c] = None]
  BY DEF Dies
<1>5. IsDead(socks, socks', c)
  BY <1>3, DeadFields DEF Dies
<1>6. IsChanged(alive, alive', c, FALSE, BOOLEAN)
  BY <1>3, <1>4, ChangedFields
<1>7. busy \in [Clients -> Message \cup {None}]
  BY <1>1 DEF TypeOK
<1>8. IsChanged(busy, busy', c, None, Message \cup {None})
  BY <1>4, <1>7, ChangedFields
<1>9. \A k \in 1..Len(socks) : socks[k].owner \in Clients
  BY <1>3, SocketFields
<1>10. /\ Later(socks, T, alive, sources, socks', T, alive', sources)
       /\ SockInv(socks', T, alive', sources)
  BY <1>3, <1>5, <1>6, <1>9, DeadStep
<1>11. /\ Len(socks') = Len(socks) /\ socks' \in Seq(Socket)
       /\ \A k \in 1..Len(socks) : socks'[k].peer = socks[k].peer
  BY <1>5 DEF IsDead, IsSocks
<1>12. SinkInv(sinks, socks', T)
  BY <1>3, <1>10, <1>11, SinksKept
<1>13. NewMail(T)
  BY <1>8 DEF NewMail, IsFewer, IsChanged
<1>14. Agreed(T)'
  BY <1>2, <1>3, <1>4, <1>10, <1>11, <1>12, <1>13, Step
<1> QED
  BY <1>4, <1>6, <1>8, <1>11, <1>14 DEF IsChanged

\* A socket is closed, and perhaps its connection kept, once its sink reads
\* from its owner.
LEMMA ClosedStep ==
    ASSUME TypeOK, NEW T, Agreed(T), NEW k \in 1..Len(socks), socks' = Closed(k),
           alive[socks[k].owner] => sources[T[k]][socks[k].owner] # 0,
           UNCHANGED <<sources, alive>>, SinkInv(sinks', socks, T),
           IsFewer(wire, wire'), UNCHANGED posted,
           \A d \in Clients : busy'[d] # None => busy'[d] = busy[d]
    PROVE  Agreed(T)' /\ socks' \in Seq(Socket)
<1>1. /\ T \in Seq(Clients) /\ Len(T) = Len(socks) /\ socks \in Seq(Socket)
      /\ SockInv(socks, T, alive, sources)
  BY DEF Agreed, TypeOK
<1>2. IsShut(socks, socks', k)
  BY <1>1, ShutFields DEF Closed
<1>3. /\ Later(socks, T, alive, sources, socks', T, alive, sources)
      /\ SockInv(socks', T, alive, sources)
  BY <1>1, <1>2, ShutStep
<1>4. /\ Len(socks') = Len(socks) /\ socks' \in Seq(Socket)
      /\ \A j \in 1..Len(socks) : socks'[j].peer = socks[j].peer
  BY <1>2 DEF IsShut, IsSocks
<1>5. SinkInv(sinks', socks', T)
  BY <1>1, <1>3, <1>4, SinksKept
<1>6. NewMail(T)
  BY DEF NewMail, IsFewer
<1>7. Agreed(T)'
  BY <1>1, <1>3, <1>4, <1>5, <1>6, Step
<1> QED
  BY <1>4, <1>7

LEMMA RendezvousAsOriginatorStep ==
    ASSUME IInv, NEW c \in Clients, RendezvousAsOriginator(c)
    PROVE  IInv'
<1>1. TypeOK
  BY DEF IInv
<1>2. PICK T : Agreed(T)
  BY DEF IInv
<1>3. PICK m : m = Head(wire[c])
  OBVIOUS
<1>4. /\ m \in Message /\ m.op = "orig" /\ alive[c] = TRUE
      /\ InWire(m, c, socks, T, alive, sources) /\ IsFewer(wire, wire')
  BY <1>1, <1>2, <1>3, ReadStep DEF RendezvousAsOriginator
<1>5. /\ m.name \in Names /\ m.src = c /\ m.snk \in Clients
      /\ Aimed(m, socks, T)
  BY <1>4, MessageFields DEF InWire
<1>6. PICK fd : fd = sinks[c][m.snk]
  OBVIOUS
<1>7. UNCHANGED <<posted, known, up, asked, nstmt, nlost, lost>>
  BY DEF RendezvousAsOriginator, scriptVars
<1>8. \/ Dies(c)
      \/ /\ fd # 0 /\ AddOutputLink(c, m, FALSE, fd, TRUE)
         /\ socks' = Closed(m.sock) /\ UNCHANGED <<sinks, sources, busy, alive>>
      \/ /\ busy' = [busy EXCEPT ![c] = m]
         /\ UNCHANGED <<links, sinks, sources, socks, alive>>
  BY <1>3, <1>6 DEF RendezvousAsOriginator
<1>9. CASE Dies(c)
  <2>1. /\ \E U : Agreed(U)'
        /\ links' = links /\ sinks' = sinks /\ sources' = sources
        /\ alive' \in [Clients -> BOOLEAN] /\ socks' \in Seq(Socket)
        /\ busy' \in [Clients -> Message \cup {None}]
    BY <1>4, <1>7, <1>9, DiesStep
  <2>2. TypeOK'
    BY <1>1, <1>4, <1>7, <2>1 DEF TypeOK, IsFewer
  <2> QED
    BY <2>1, <2>2 DEF IInv
<1>10. CASE /\ fd # 0 /\ AddOutputLink(c, m, FALSE, fd, TRUE)
            /\ socks' = Closed(m.sock) /\ UNCHANGED <<sinks, sources, busy, alive>>
  <2>1. fd \in Nat
    BY <1>1, <1>5, <1>6 DEF TypeOK
  <2>2. links' \in [Clients -> [Names -> Seq(EventLink)]]
    BY <1>1, <1>4, <1>5, <1>10, <2>1, AddOutputLinkType
  <2>3. /\ fd \in 1..Len(socks) /\ socks[fd].owner = c
        /\ T[fd] = m.snk /\ socks[fd].peer = {m.snk}
    BY <1>2, <1>5, <1>6, <1>10 DEF Agreed, SinkInv
  <2>4. sources[m.snk][c] = fd
    BY <1>2, <1>4, <2>3 DEF Agreed, SockInv
  <2>5. m.sock \in 1..Len(socks) /\ socks[m.sock].owner = c /\ T[m.sock] = m.snk
    BY <1>5 DEF Aimed
  <2>6. SinkInv(sinks', socks, T)
    BY <1>2, <1>10 DEF Agreed
  <2>7. Agreed(T)' /\ socks' \in Seq(Socket)
    BY <1>1, <1>2, <1>4, <1>7, <1>10, <2>4, <2>5, <2>6, ClosedStep
  <2>8. TypeOK'
    BY <1>1, <1>4, <1>7, <1>10, <2>2, <2>7 DEF TypeOK, IsFewer
  <2> QED
    BY <2>7, <2>8 DEF IInv
<1>11. CASE /\ busy' = [busy EXCEPT ![c] = m]
            /\ UNCHANGED <<links, sinks, sources, socks, alive>>
  <2>1. IsChanged(busy, busy', c, m, Message \cup {None})
    <3>1. busy \in [Clients -> Message \cup {None}]
      BY <1>1 DEF TypeOK
    <3> QED
      BY <1>4, <1>11, <3>1, ChangedFields
  <2>2. InBusy(m, c, socks, T)
    BY <1>5 DEF InBusy
  <2>3. NewMail(T)
    BY <1>4, <1>7, <1>11, <2>1, <2>2 DEF NewMail, IsFewer, IsChanged
  <2>4. TypeOK'
    BY <1>1, <1>4, <1>7, <1>11, <2>1 DEF TypeOK, IsFewer, IsChanged
  <2>5. Agreed(T)'
    BY <1>1, <1>2, <1>11, <2>3, QuietStep
  <2> QED
    BY <2>4, <2>5 DEF IInv
<1> QED
  BY <1>8, <1>9, <1>10, <1>11

LEMMA AcceptStep ==
    ASSUME IInv, NEW c \in Clients, Accept(c)
    PROVE  IInv'
<1>1. TypeOK
  BY DEF IInv
<1>2. PICK T : Agreed(T)
  BY DEF IInv
<1>3. PICK m : m = busy[c]
  OBVIOUS
<1>4. /\ m # None /\ socks[m.sock].peer # {}
      /\ sinks' = [sinks EXCEPT ![c] = [sinks[c] EXCEPT ![m.snk] = m.sock]]
      /\ AddOutputLink(c, m, FALSE, m.sock, TRUE) /\ socks' = Closed(m.sock)
      /\ busy' = [busy EXCEPT ![c] = None]
      /\ UNCHANGED <<wire, posted, sources, alive, known, up>>
      /\ UNCHANGED <<asked, nstmt, nlost, lost>>
  BY <1>3 DEF Accept, scriptVars
<1>5. m \in Message
  BY <1>1, <1>3, <1>4 DEF TypeOK
<1>6. InBusy(m, c, socks, T)
  BY <1>2, <1>3, <1>4 DEF Agreed, Mail
<1>7. PICK k : k = m.sock
  OBVIOUS
<1>8. /\ m.name \in Names /\ m.src = c /\ m.snk \in Clients /\ k \in Nat
      /\ k \in 1..Len(socks) /\ socks[k].owner = c /\ T[k] = m.snk
  BY <1>5, <1>6, <1>7, MessageFields DEF InBusy, Aimed
<1>9. links' \in [Clients -> [Names -> Seq(EventLink)]]
  BY <1>1, <1>4, <1>5, <1>7, <1>8, AddOutputLinkType
<1>10. socks[k].peer = {m.snk}
  <2>1. socks[k].peer \subseteq {m.snk}
    BY <1>2, <1>8 DEF Agreed, SockInv
  <2>2. socks[k].peer # {}
    BY <1>4, <1>7
  <2> QED
    BY <2>1, <2>2
<1>11. alive[c] => sources[m.snk][c] # 0
  <2>1. alive[c] => sources[m.snk][c] = k
    BY <1>2, <1>8, <1>10 DEF Agreed, SockInv
  <2> QED
    BY <1>8, <2>1
<1>12. IsRow(sinks, sinks', c, m.snk, k)
  BY <1>1, <1>4, <1>7, <1>8, RowFields DEF TypeOK
<1>13. SinkInv(sinks', socks, T)
  <2>1. SinkInv(sinks, socks, T)
    BY <1>2 DEF Agreed
  <2> SUFFICES ASSUME NEW s \in Clients, NEW t \in Clients, sinks'[s][t] # 0
               PROVE  /\ sinks'[s][t] \in 1..Len(socks) /\ socks[sinks'[s][t]].owner = s
                      /\ T[sinks'[s][t]] = t /\ socks[sinks'[s][t]].peer = {t}
    BY DEF SinkInv
  <2>2. CASE s = c /\ t = m.snk
    BY <1>8, <1>10, <1>12, <2>2 DEF IsRow
  <2>3. CASE ~(s = c /\ t = m.snk)
    <3>1. sinks'[s][t] = sinks[s][t]
      BY <1>12, <2>3 DEF IsRow
    <3> QED
      BY <2>1, <3>1 DEF SinkInv
  <2> QED
    BY <2>2, <2>3
<1>14. IsChanged(busy, busy', c, None, Message \cup {None})
  <2>1. busy \in [Clients -> Message \cup {None}]
    BY <1>1 DEF TypeOK
  <2> QED
    BY <1>4, <2>1, ChangedFields
<1>15. \A d \in Clients : busy'[d] # None => busy'[d] = busy[d]
  BY <1>14 DEF IsChanged
<1>16. IsFewer(wire, wire')
  BY <1>1, <1>4 DEF IsFewer, TypeOK
<1>17. Agreed(T)' /\ socks' \in Seq(Socket)
  BY <1>1, <1>2, <1>4, <1>7, <1>8, <1>11, <1>13, <1>15, <1>16, ClosedStep
<1>18. TypeOK'
  BY <1>1, <1>4, <1>9, <1>12, <1>14, <1>17 DEF TypeOK, IsRow, IsChanged
<1> QED
  BY <1>17, <1>18 DEF IInv

LEMMA RendezvousAsResponderStep ==
    ASSUME IInv, NEW c \in Clients, RendezvousAsResponder(c)
    PROVE  IInv'
<1>1. TypeOK
  BY DEF IInv
<1>2. PICK T : Agreed(T)
  BY DEF IInv
<1>3. PICK m : m = Head(wire[c])
  OBVIOUS
<1>4. /\ m \in Message /\ m.op = "resp"
      /\ InWire(m, c, socks, T, alive, sources) /\ IsFewer(wire, wire')
  BY <1>1, <1>2, <1>3, ReadStep DEF RendezvousAsResponder
<1>5. m.snk = c /\ m.src \in Clients /\ m.sock \in Nat /\ Aimed(m, socks, T)
  BY <1>4, MessageFields DEF InWire
<1>6. UNCHANGED <<posted, known, up, asked, nstmt, nlost, lost>>
  BY DEF RendezvousAsResponder, scriptVars
<1>7. \/ UNCHANGED <<links, sinks, sources, busy, socks, alive>>
      \/ /\ sources[c][m.src] = 0
         /\ socks' = [socks EXCEPT ![m.sock] =
                         [socks[m.sock] EXCEPT !.peer = @ \cup {c}]]
         /\ sources' = [sources EXCEPT ![c] =
                           [sources[c] EXCEPT ![m.src] = m.sock]]
         /\ UNCHANGED <<links, sinks, busy, alive>>
      \/ Dies(c)
  BY <1>3 DEF RendezvousAsResponder, clientVars
<1>8. CASE UNCHANGED <<links, sinks, sources, busy, socks, alive>>
  <2>1. NewMail(T)
    BY <1>4, <1>6, <1>8 DEF NewMail, IsFewer
  <2>2. TypeOK'
    BY <1>1, <1>4, <1>6, <1>8 DEF TypeOK, IsFewer
  <2>3. Agreed(T)'
    BY <1>1, <1>2, <1>8, <2>1, QuietStep
  <2> QED
    BY <2>2, <2>3 DEF IInv
<1>9. CASE /\ sources[c][m.src] = 0
           /\ socks' = [socks EXCEPT ![m.sock] =
                           [socks[m.sock] EXCEPT !.peer = @ \cup {c}]]
           /\ sources' = [sources EXCEPT ![c] =
                             [sources[c] EXCEPT ![m.src] = m.sock]]
           /\ UNCHANGED <<links, sinks, busy, alive>>
  <2>1. PICK k : k = m.sock
    OBVIOUS
  <2>2. k \in 1..Len(socks) /\ socks[k].owner = m.src /\ T[k] = c /\ k \in Nat
    BY <1>5, <2>1 DEF Aimed
  <2>3. /\ T \in Seq(Clients) /\ Len(T) = Len(socks) /\ socks \in Seq(Socket)
        /\ SockInv(socks, T, alive, sources) /\ SinkInv(sinks, socks, T)
        /\ sources \in [Clients -> [Clients -> Nat]]
    BY <1>1, <1>2 DEF Agreed, TypeOK
  <2>4. IsJoined(socks, socks', k, c)
    BY <1>9, <2>1, <2>2, <2>3, JoinedFields
  <2>5. IsRow(sources, sources', c, m.src, k)
    BY <1>5, <1>9, <2>1, <2>2, <2>3, RowFields
  <2>6. \A j \in 1..Len(socks) : socks[j].owner \in Clients
    BY <2>3, SocketFields
  <2>7. /\ Later(socks, T, alive, sources, socks', T, alive, sources')
        /\ SockInv(socks', T, alive, sources')
    BY <1>9, <2>2, <2>3, <2>4, <2>5, <2>6, JoinStep
  <2>8. /\ Len(socks') = Len(socks) /\ socks' \in Seq(Socket)
        /\ \A j \in 1..Len(socks) : socks[j].peer = {T[j]} => socks'[j].peer = {T[j]}
    <3>1. /\ Len(socks') = Len(socks) /\ socks' \in Seq(Socket)
          /\ socks'[k].peer = socks[k].peer \cup {c}
          /\ \A j \in 1..Len(socks) : j # k => socks'[j].peer = socks[j].peer
      BY <2>4 DEF IsJoined, IsSocks
    <3> QED
      BY <2>2, <3>1
  <2>9. SinkInv(sinks, socks', T)
    BY <2>3, <2>7, <2>8, SinksKept
  <2>10. NewMail(T)
    BY <1>4, <1>6, <1>9 DEF NewMail, IsFewer
  <2>11. TypeOK'
    BY <1>1, <1>4, <1>6, <1>9, <2>5, <2>8 DEF TypeOK, IsFewer, IsRow
  <2>12. Agreed(T)'
    BY <1>2, <1>9, <2>3, <2>7, <2>8, <2>9, <2>10, Step
  <2> QED
    BY <2>11, <2>12 DEF IInv
<1>10. CASE Dies(c)
  <2>1. /\ \E U : Agreed(U)'
        /\ links' = links /\ sinks' = sinks /\ sources' = sources
        /\ alive' \in [Clients -> BOOLEAN] /\ socks' \in Seq(Socket)
        /\ busy' \in [Clients -> Message \cup {None}]
    BY <1>4, <1>6, <1>10, DiesStep
  <2>2. TypeOK'
    BY <1>1, <1>4, <1>6, <2>1 DEF TypeOK, IsFewer
  <2> QED
    BY <2>1, <2>2 DEF IInv
<1> QED
  BY <1>7, <1>8, <1>9, <1>10

LEMMA TerminateStep ==
    ASSUME IInv, NEW c \in Clients, Terminate(c)
    PROVE  IInv'
<1>1. TypeOK
  BY DEF IInv
<1>2. PICK T : Agreed(T)
  BY DEF IInv
<1>3. IsFewer(wire, wire')
  <2>1. CASE Read(c, "terminate")
    BY <1>1, <1>2, <2>1, ReadStep
  <2>2. CASE UNCHANGED wire
    BY <1>1, <2>2 DEF IsFewer, TypeOK
  <2> QED
    BY <2>1, <2>2 DEF Terminate
<1>4. Dies(c) /\ UNCHANGED <<posted, known, up, asked, nstmt, nlost, lost>>
  BY DEF Terminate, scriptVars
<1>5. /\ \E U : Agreed(U)'
      /\ links' = links /\ sinks' = sinks /\ sources' = sources
      /\ alive' \in [Clients -> BOOLEAN] /\ socks' \in Seq(Socket)
      /\ busy' \in [Clients -> Message \cup {None}]
  BY <1>3, <1>4, DiesStep
<1>6. TypeOK'
  BY <1>1, <1>3, <1>4, <1>5 DEF TypeOK, IsFewer
<1> QED
  BY <1>5, <1>6 DEF IInv

LEMMA CrashStep ==
    ASSUME IInv, NEW c \in Clients, Crash(c)
    PROVE  IInv'
<1>1. TypeOK
  BY DEF IInv
<1>2. /\ Dies(c) /\ nlost' = nlost + 1
      /\ UNCHANGED <<wire, posted, known, up, asked, nstmt, lost>>
  BY DEF Crash, scriptVars
<1>3. IsFewer(wire, wire')
  BY <1>1, <1>2 DEF IsFewer, TypeOK
<1>4. /\ \E U : Agreed(U)'
      /\ links' = links /\ sinks' = sinks /\ sources' = sources
      /\ alive' \in [Clients -> BOOLEAN] /\ socks' \in Seq(Socket)
      /\ busy' \in [Clients -> Message \cup {None}]
  BY <1>2, <1>3, DiesStep
<1>5. TypeOK'
  BY <1>1, <1>2, <1>4 DEF TypeOK
<1> QED
  BY <1>4, <1>5 DEF IInv

LEMMA LinkLostStep ==
    ASSUME IInv, NEW c \in Clients, NEW s \in Clients, LinkLost(c, s)
    PROVE  IInv'
<1>1. TypeOK
  BY DEF IInv
<1>2. PICK T : Agreed(T)
  BY DEF IInv
<1>3. /\ ~alive[s]
      /\ sources' = [sources EXCEPT ![c] = [sources[c] EXCEPT ![s] = 0]]
      /\ UNCHANGED <<wire, posted, links, sinks, busy, socks, alive, known, up>>
      /\ UNCHANGED <<asked, nstmt, nlost, lost>>
  BY DEF LinkLost, scriptVars
<1>4. /\ T \in Seq(Clients) /\ Len(T) = Len(socks) /\ socks \in Seq(Socket)
      /\ Len(socks) \in Nat /\ 0 \in Nat
      /\ SockInv(socks, T, alive, sources) /\ SinkInv(sinks, socks, T)
      /\ sources \in [Clients -> [Clients -> Nat]]
  BY <1>1, <1>2 DEF Agreed, TypeOK
<1>5. IsRow(sources, sources', c, s, 0)
  BY <1>3, <1>4, RowFields
<1>6. \A j \in 1..Len(socks) : socks[j].owner \in Clients
  BY <1>4, SocketFields
<1>7. /\ Later(socks, T, alive, sources, socks, T, alive, sources')
      /\ SockInv(socks, T, alive, sources')
  BY <1>3, <1>4, <1>5, <1>6, ForgetStep
<1>8. NewMail(T)
  BY <1>3 DEF NewMail
<1>9. TypeOK'
  BY <1>1, <1>3, <1>5 DEF TypeOK, IsRow
<1>10. Agreed(T)'
  BY <1>2, <1>3, <1>4, <1>7, <1>8, Step
<1> QED
  BY <1>9, <1>10 DEF IInv

LEMMA PostStep ==
    ASSUME IInv, NEW c \in Clients, NEW n \in Names, Post(c, n)
    PROVE  IInv'
<1>1. TypeOK
  BY DEF IInv
<1>2. PICK T : Agreed(T)
  BY DEF IInv
<1>3. /\ UNCHANGED <<wire, posted, links, sinks, sources, busy, socks, alive, known>>
      /\ UNCHANGED <<up, asked, nstmt, nlost>>
  BY DEF Post, clientVars, scriptVars
<1>4. lost' \in BOOLEAN
  BY DEF Post
<1>5. NewMail(T)
  BY <1>3 DEF NewMail
<1>6. TypeOK'
  BY <1>1, <1>3, <1>4 DEF TypeOK
<1>7. Agreed(T)'
  BY <1>1, <1>2, <1>3, <1>5, QuietStep
<1> QED
  BY <1>6, <1>7 DEF IInv

-----------------------------------------------------------------------------
(* The results.                                                            *)

LEMMA InitIInv == Init => IInv
<1> SUFFICES ASSUME Init PROVE IInv
  OBVIOUS
<1>1. TypeOK
  <2>1. /\ wire \in [Clients -> Seq(Message)] /\ posted \in [Clients -> Seq(Message)]
        /\ socks \in Seq(Socket)
    BY DEF Init
  <2>2. links \in [Clients -> [Names -> Seq(EventLink)]]
    <3>1. [n \in Names |-> << >>] \in [Names -> Seq(EventLink)]
      OBVIOUS
    <3> QED
      BY <3>1 DEF Init
  <2>3. /\ sinks \in [Clients -> [Clients -> Nat]]
        /\ sources \in [Clients -> [Clients -> Nat]]
        /\ asked \in [Pairs -> [Names -> Nat]] /\ nstmt \in Nat /\ nlost \in Nat
    BY DEF Init
  <2>4. /\ busy \in [Clients -> Message \cup {None}]
        /\ alive \in [Clients -> BOOLEAN] /\ known \subseteq Clients
        /\ up \in BOOLEAN /\ lost \in BOOLEAN
    BY DEF Init
  <2> QED
    BY <2>1, <2>2, <2>3, <2>4 DEF TypeOK
<1>2. Len(socks) = 0 /\ << >> \in Seq(Clients) /\ Len(<< >>) = Len(socks)
  BY DEF Init
<1>3. \A k \in 1..Len(socks) : FALSE
  BY <1>2
<1>4. \A s, t \in Clients : sinks[s][t] = 0
  BY DEF Init
<1>5. \A c \in Clients : wire[c] = << >> /\ posted[c] = << >> /\ busy[c] = None
  BY DEF Init
<1>6. SockInv(socks, << >>, alive, sources) /\ SinkInv(sinks, socks, << >>)
  BY <1>3, <1>4 DEF SockInv, SinkInv
<1>7. Mail(wire, posted, busy, socks, << >>, alive, sources)
  BY <1>5, InEmpty DEF Mail
<1>8. Agreed(<< >>)
  BY <1>2, <1>6, <1>7 DEF Agreed
<1> QED
  BY <1>1, <1>8 DEF IInv

LEMMA NextIInv == IInv /\ [Next]_vars => IInv'
<1> SUFFICES ASSUME IInv, [Next]_vars PROVE IInv'
  OBVIOUS
<1>1. CASE UNCHANGED vars
  <2>1. /\ TypeOK
        /\ UNCHANGED <<wire, posted, links, sinks, sources, busy, socks, alive, known>>
        /\ UNCHANGED <<up, asked, nstmt, nlost, lost>>
    BY <1>1 DEF IInv, vars
  <2>2. PICK T : Agreed(T)
    BY DEF IInv
  <2>3. NewMail(T)
    BY <2>1 DEF NewMail
  <2>4. Agreed(T)'
    BY <2>1, <2>2, <2>3, QuietStep
  <2>5. TypeOK'
    BY <2>1 DEF TypeOK
  <2> QED
    BY <2>4, <2>5 DEF IInv
<1>2. ASSUME NEW p \in Pairs, NEW n \in Named[p],
             Statement("link", p, n) \/ Statement("unlink", p, n)
      PROVE  IInv'
  BY <1>2, StatementStep
<1>3. ASSUME NEW c \in Clients, Library(c) PROVE IInv'
  BY <1>3, BuildLinkStep, UnlinkSinkStep, RendezvousAsOriginatorStep, AcceptStep,
     RendezvousAsResponderStep, TerminateStep DEF Library
<1>4. ASSUME NEW c \in Clients, Rendezvous(c) \/ Drop(c) \/ Crash(c) PROVE IInv'
  BY <1>4, RendezvousStep, DropStep, CrashStep
<1>5. ASSUME NEW c \in Clients, NEW s \in Clients, LinkLost(c, s) PROVE IInv'
  BY <1>5, LinkLostStep
<1>6. ASSUME NEW c \in Clients, NEW n \in Names, Post(c, n) PROVE IInv'
  BY <1>6, PostStep
<1> QED
  BY <1>1, <1>2, <1>3, <1>4, <1>5, <1>6 DEF Next

LEMMA AgreedRight == IInv => RightSink
<1> SUFFICES ASSUME IInv PROVE RightSink
  OBVIOUS
<1>1. PICK T : Agreed(T)
  BY DEF IInv
<1> QED
  BY <1>1 DEF Agreed, SinkInv, RightSink

LEMMA AgreedEnds == IInv => EndsAgree
<1> SUFFICES ASSUME IInv PROVE EndsAgree
  OBVIOUS
<1>1. TypeOK
  BY DEF IInv
<1>2. PICK T : Agreed(T)
  BY DEF IInv
<1>3. ASSUME NEW s \in Clients, NEW t \in Clients, alive[s], sinks[s][t] # 0
      PROVE  sources[t][s] = sinks[s][t]
  <2>1. PICK k : k = sinks[s][t]
    OBVIOUS
  <2>2. k \in 1..Len(socks) /\ socks[k].owner = s /\ T[k] = t /\ socks[k].peer = {t}
    BY <1>2, <1>3, <2>1 DEF Agreed, SinkInv
  <2>3. sources[t][s] = k
    BY <1>2, <1>3, <2>2 DEF Agreed, SockInv
  <2> QED
    BY <2>1, <2>3
<1>4. ASSUME NEW t \in Clients, NEW m, m = Head(wire[t]), wire[t] # << >>,
             m.op = "resp", alive[m.src], sources[t][m.src] = 0
      PROVE  socks[m.sock].open
  <2>1. wire[t] \in Seq(Message)
    BY <1>1 DEF TypeOK
  <2>2. In(wire[t], m)
    BY <1>4, <2>1, InTail
  <2>3. InWire(m, t, socks, T, alive, sources)
    BY <1>2, <2>2 DEF Agreed, Mail
  <2> QED
    BY <1>4, <2>3 DEF InWire, Waits
<1> QED
  BY <1>3, <1>4 DEF EndsAgree

\* The variables keep their types: every descriptor a client keeps is that of
\* a socket, and AddOutputLink() finds the link it sets where it looked for it.
THEOREM TypeCorrect == Spec => []TypeOK
<1>1. IInv => TypeOK
  BY DEF IInv
<1> QED
  BY <1>1, InitIInv, NextIInv, PTL DEF Spec

\* However requests for links overlap, in whichever order clients accept and
\* connect and whoever dies on the way, accept() yields the sink the link is
\* for: a socket is used for one rendezvous only (Client.cc, BuildLink).
THEOREM SinksAreRight == Spec => []RightSink
<1> QED
  BY InitIInv, NextIInv, AgreedRight, PTL DEF Spec

\* What a source writes to is what its sink reads from, and a sink that has
\* to connect finds its source listening, for any number of clients and
\* links (Client.cc, RendezvousAsOriginator and RendezvousAsResponder).
THEOREM EndsAlwaysAgree == Spec => []EndsAgree
<1> QED
  BY InitIInv, NextIInv, AgreedEnds, PTL DEF Spec

-----------------------------------------------------------------------------
(***************************************************************************)
(* Links as asked for, where the script makes no statement about a link    *)
(* while an earlier one is under way (Orderly).                            *)
(*                                                                         *)
(* For every client and each sink and event at most one statement is under *)
(* way, as a request to link or to unlink or as a rendezvous.  The         *)
(* invariant says what that stage means for the client's list of links.    *)
(***************************************************************************)

Stages == {"none", "link", "unlink", "rdv"}

\* Of the links l for an event: those to t that are active or not, and those
\* that have no connection.
Has(l, t, active) == {i \in 1..Len(l) : l[i].snk = t /\ l[i].active = active}
Bare(l, t) == {i \in 1..Len(l) : l[i].snk = t /\ l[i].fd = 0}

\* A link without connection is the one inactive link to its sink, and waits
\* for a rendezvous; what is to be unlinked is there.
Sound(l, t, st) ==
    /\ st = "rdv" => Bare(l, t) # {}
    /\ Bare(l, t) # {} => st \in {"rdv", "none"}
    /\ \A i \in Bare(l, t) : Bare(l, t) = {i} /\ Has(l, t, FALSE) = {i}
    /\ st = "unlink" => Has(l, t, TRUE) # {}

\* While the interpreter runs: the links that are active and those asked for
\* differ by the statement that is under way.
Counted(l, t, st, n) ==
    /\ Bare(l, t) # {} => st = "rdv"
    /\ st = "unlink" => Cardinality(Has(l, t, TRUE)) = n + 1
    /\ st \in {"link", "rdv"} => n = Cardinality(Has(l, t, TRUE)) + 1
    /\ st = "none" => n = Cardinality(Has(l, t, TRUE))

\* What c has in hand, with w for it, p from it and itself in accept() for b.
Work(m) == m.op \in {"link", "unlink", "orig"}
StageOf(m) == IF m.op = "orig" THEN "rdv" ELSE m.op

InHand(w, p, b, st, x) ==
    \/ In(w, x) /\ Work(x) /\ StageOf(x) = st
    \/ st = "rdv" /\ In(p, x)
    \/ st = "rdv" /\ b # None /\ x = b

Of(x, t, n) == x.snk = t /\ x.name = n

Pending(w, p, b, st, t, n) == \E x : InHand(w, p, b, st, x) /\ Of(x, t, n)

\* F says at what stage each sink and event is.
Staged(w, p, b, F) ==
    /\ F \in [Clients -> [Names -> Stages]]
    /\ \A t \in Clients, n \in Names, st \in Stages \ {"none"} :
          Pending(w, p, b, st, t, n) <=> F[t][n] = st

\* No two things in hand are for the same sink and event.
Alike(x, y) == x.snk = y.snk /\ x.name = y.name

Apart(q) ==
    \A i, j \in 1..Len(q) :
        i < j /\ Work(q[i]) /\ Work(q[j]) => ~Alike(q[i], q[j])

Single(w, p, b) ==
    /\ Apart(w) /\ Apart(p)
    /\ \A x : In(p, x) => x.op = "link"
    /\ \A x, y : In(w, x) /\ Work(x) /\ In(p, y) => ~Alike(x, y)
    /\ b # None => /\ \A x : In(w, x) /\ Work(x) => ~Alike(x, b)
                   /\ \A x : In(p, x) => ~Alike(x, b)

Sounds(l, F) == \A t \in Clients, n \in Names : Sound(l[n], t, F[t][n])

Counts(c, l, F, A) ==
    \A t \in Clients, n \in Names :
        <<c, t>> \in Pairs => Counted(l[n], t, F[t][n], A[<<c, t>>][n])

InTurn(c, F) ==
    /\ Staged(wire[c], posted[c], busy[c], F)
    /\ Sounds(links[c], F)
    /\ up => Counts(c, links[c], F, asked)

Turn(c) == alive[c] => /\ Single(wire[c], posted[c], busy[c])
                       /\ \E F : InTurn(c, F)

\* Unless a client is lost all are there, and none is told to go.
Calm ==
    nlost = 0 =>
        /\ up /\ known = Clients
        /\ \A c \in Clients : alive[c] /\ \A m : In(wire[c], m) => m.op # "terminate"

Rest == Calm /\ ~lost /\ \A c \in Clients : Turn(c)

KInv == IInv /\ Rest

-----------------------------------------------------------------------------
(* Lists of links.                                                         *)

\* The links to the other sinks are as before.
OthersKept(l, l1, t) ==
    \A u \in Clients : u # t => /\ Bare(l1, u) = Bare(l, u)
                                /\ \A a \in BOOLEAN : Has(l1, u, a) = Has(l, u, a)

\* The k-th link, to t, has become active or inactive, or is new: a is what
\* it is, b what it is not.
IsTurned(l, l1, t, k, a, b) ==
    /\ Has(l1, t, a) = Has(l, t, a) \cup {k}
    /\ Has(l1, t, b) = Has(l, t, b) \ {k}

IsLink(x, t, a, f) == x \in EventLink /\ x.snk = t /\ x.active = a /\ x.fd = f

IsBared(l, l1, t, k, f) ==
    Bare(l1, t) = IF f = 0 THEN Bare(l, t) \cup {k} ELSE Bare(l, t) \ {k}

LEMMA TurnedFields ==
    ASSUME NEW l \in Seq(EventLink), NEW k \in 1..Len(l), NEW a \in BOOLEAN,
           NEW b \in BOOLEAN, a # b, NEW t \in Clients, NEW f, l[k].snk = t,
           NEW x, IsLink(x, t, a, f), NEW l1, l1 = [l EXCEPT ![k] = x]
    PROVE  /\ OthersKept(l, l1, t) /\ IsTurned(l, l1, t, k, a, b)
           /\ IsBared(l, l1, t, k, f)
<1>1. x \in EventLink /\ x.snk = t /\ x.active = a /\ x.fd = f
  BY DEF IsLink
<1>2. IsPut(l, l1, k, x, EventLink)
  BY <1>1, PutFields
<1>3. /\ Len(l1) = Len(l) /\ l1[k] = x
      /\ \A j \in 1..Len(l) : j # k => l1[j] = l[j]
  BY <1>2 DEF IsPut
<1>4. OthersKept(l, l1, t)
  <2> SUFFICES ASSUME NEW u \in Clients, u # t
               PROVE  /\ Bare(l1, u) = Bare(l, u)
                      /\ \A d \in BOOLEAN : Has(l1, u, d) = Has(l, u, d)
    BY DEF OthersKept
  <2>1. Bare(l1, u) = Bare(l, u)
    BY <1>1, <1>3 DEF Bare
  <2>2. ASSUME NEW d \in BOOLEAN PROVE Has(l1, u, d) = Has(l, u, d)
    BY <1>1, <1>3 DEF Has
  <2> QED
    BY <2>1, <2>2
<1>5. Has(l1, t, a) = Has(l, t, a) \cup {k}
  BY <1>1, <1>3 DEF Has
<1>6. Has(l1, t, b) = Has(l, t, b) \ {k}
  BY <1>1, <1>3 DEF Has
<1>7. f = 0 => Bare(l1, t) = Bare(l, t) \cup {k}
  BY <1>1, <1>3 DEF Bare
<1>8. f # 0 => Bare(l1, t) = Bare(l, t) \ {k}
  BY <1>1, <1>3 DEF Bare
<1> QED
  BY <1>4, <1>5, <1>6, <1>7, <1>8 DEF IsTurned, IsBared

LEMMA AddedFields ==
    ASSUME NEW l \in Seq(EventLink), NEW a \in BOOLEAN, NEW b \in BOOLEAN, a # b,
           NEW t \in Clients, NEW f, NEW x, IsLink(x, t, a, f),
           NEW l1, l1 = Append(l, x), NEW k, k = Len(l) + 1
    PROVE  /\ OthersKept(l, l1, t) /\ IsTurned(l, l1, t, k, a, b)
           /\ IsBared(l, l1, t, k, f) /\ k \notin 1..Len(l)
<1>1. x \in EventLink /\ x.snk = t /\ x.active = a /\ x.fd = f
  BY DEF IsLink
<1>2. /\ Len(l1) = k /\ l1[k] = x /\ Len(l) \in Nat
      /\ \A j \in 1..Len(l) : l1[j] = l[j] /\ j # k
  BY <1>1
<1>3. 1..Len(l1) = (1..Len(l)) \cup {k} /\ k \notin 1..Len(l)
  BY <1>2
<1>4. OthersKept(l, l1, t)
  <2> SUFFICES ASSUME NEW u \in Clients, u # t
               PROVE  /\ Bare(l1, u) = Bare(l, u)
                      /\ \A d \in BOOLEAN : Has(l1, u, d) = Has(l, u, d)
    BY DEF OthersKept
  <2>1. Bare(l1, u) = Bare(l, u)
    BY <1>1, <1>2, <1>3 DEF Bare
  <2>2. ASSUME NEW d \in BOOLEAN PROVE Has(l1, u, d) = Has(l, u, d)
    BY <1>1, <1>2, <1>3 DEF Has
  <2> QED
    BY <2>1, <2>2
<1>5. Has(l1, t, a) = Has(l, t, a) \cup {k}
  BY <1>1, <1>2, <1>3 DEF Has
<1>6. Has(l1, t, b) = Has(l, t, b) \ {k}
  BY <1>1, <1>2, <1>3 DEF Has
<1>7. f = 0 => Bare(l1, t) = Bare(l, t) \cup {k}
  BY <1>1, <1>2, <1>3 DEF Bare
<1>8. f # 0 => Bare(l1, t) = Bare(l, t) \ {k}
  BY <1>1, <1>2, <1>3 DEF Bare
<1> QED
  BY <1>3, <1>4, <1>5, <1>6, <1>7, <1>8 DEF IsTurned, IsBared

LEMMA HasFinite ==
    ASSUME NEW l \in Seq(EventLink), NEW t, NEW a
    PROVE  /\ IsFiniteSet(Has(l, t, a)) /\ Cardinality(Has(l, t, a)) \in Nat
           /\ Has(l, t, a) \subseteq 1..Len(l)
<1>1. Len(l) \in Int /\ 1 \in Int
  OBVIOUS
<1>2. IsFiniteSet(1..Len(l))
  BY <1>1, FS_Interval
<1>3. Has(l, t, a) \in SUBSET (1..Len(l))
  BY DEF Has
<1>4. IsFiniteSet(Has(l, t, a))
  BY <1>2, <1>3, FS_Subset
<1> QED
  BY <1>3, <1>4, FS_CardinalityType

\* What stays of the stage of a sink and event when a link is made active,
LEMMA Activated ==
    ASSUME NEW l \in Seq(EventLink), NEW l1, NEW t, NEW k, NEW st \in {"link", "rdv"},
           IsTurned(l, l1, t, k, TRUE, FALSE), k \notin Has(l, t, TRUE),
           Bare(l1, t) = {}
    PROVE  /\ Sound(l1, t, "none")
           /\ \A n \in Nat : Counted(l, t, st, n) => Counted(l1, t, "none", n)
<1>1. Sound(l1, t, "none")
  BY DEF Sound
<1>2. Cardinality(Has(l1, t, TRUE)) = Cardinality(Has(l, t, TRUE)) + 1
  <2>1. IsFiniteSet(Has(l, t, TRUE))
    BY HasFinite
  <2>2. Cardinality(Has(l, t, TRUE) \cup {k}) = Cardinality(Has(l, t, TRUE)) + 1
    BY <2>1, FS_AddElement
  <2> QED
    BY <2>2 DEF IsTurned
<1> QED
  BY <1>1, <1>2 DEF Counted

\* when one is made inactive,
LEMMA Deactivated ==
    ASSUME NEW l \in Seq(EventLink), NEW l1, NEW t, NEW k,
           IsTurned(l, l1, t, k, FALSE, TRUE), k \in Has(l, t, TRUE),
           Bare(l1, t) = {}
    PROVE  /\ Sound(l1, t, "none")
           /\ \A n \in Nat : Counted(l, t, "unlink", n) => Counted(l1, t, "none", n)
<1>1. Sound(l1, t, "none")
  BY DEF Sound
<1>2. /\ Cardinality(Has(l1, t, TRUE)) = Cardinality(Has(l, t, TRUE)) - 1
      /\ Cardinality(Has(l, t, TRUE)) \in Nat
  <2>1. IsFiniteSet(Has(l, t, TRUE)) /\ Cardinality(Has(l, t, TRUE)) \in Nat
    BY HasFinite
  <2>2. Cardinality(Has(l, t, TRUE) \ {k}) = Cardinality(Has(l, t, TRUE)) - 1
    BY <2>1, FS_RemoveElement
  <2> QED
    BY <2>1, <2>2 DEF IsTurned
<1>3. ASSUME NEW n \in Nat, Counted(l, t, "unlink", n) PROVE Counted(l1, t, "none", n)
  <2>1. Cardinality(Has(l, t, TRUE)) = n + 1
    BY <1>3 DEF Counted
  <2>2. Cardinality(Has(l1, t, TRUE)) = n
    <3>1. \A x, y : x = y - 1 /\ y = n + 1 => x = n
      OBVIOUS
    <3> QED
      BY <1>2, <2>1, <3>1, Zenon
  <2> QED
    BY <2>2 DEF Counted
<1> QED
  BY <1>1, <1>3

\* and when one is added that waits for its connection.
LEMMA Awaiting ==
    ASSUME NEW l, NEW l1, NEW t, NEW k, IsTurned(l, l1, t, k, FALSE, TRUE),
           Has(l, t, FALSE) = {}, k \notin Has(l, t, TRUE), Bare(l, t) = {},
           Bare(l1, t) = Bare(l, t) \cup {k}
    PROVE  /\ Sound(l1, t, "rdv")
           /\ \A n \in Nat : Counted(l, t, "link", n) => Counted(l1, t, "rdv", n)
<1>1. Bare(l1, t) = {k} /\ Has(l1, t, FALSE) = {k} /\ Has(l1, t, TRUE) = Has(l, t, TRUE)
  BY DEF IsTurned
<1>2. Sound(l1, t, "rdv")
  BY <1>1 DEF Sound
<1> QED
  BY <1>1, <1>2 DEF Counted

\* A statement about what is settled.
LEMMA Stated ==
    ASSUME NEW l \in Seq(EventLink), NEW t, NEW n \in Nat, Sound(l, t, "none"),
           Counted(l, t, "none", n)
    PROVE  /\ Sound(l, t, "link") /\ Counted(l, t, "link", n + 1)
           /\ n > 0 => Sound(l, t, "unlink") /\ Counted(l, t, "unlink", n - 1)
<1>1. Bare(l, t) = {} /\ Cardinality(Has(l, t, TRUE)) = n
  BY DEF Counted
<1>2. n > 0 => Has(l, t, TRUE) # {}
  <2>1. Has(l, t, TRUE) = {} => Cardinality(Has(l, t, TRUE)) = 0
    BY FS_EmptySet
  <2>2. n > 0 => Cardinality(Has(l, t, TRUE)) # 0
    <3>1. n > 0 => n # 0
      OBVIOUS
    <3> QED
      BY <1>1, <3>1, Zenon
  <2> QED
    BY <2>1, <2>2, Zenon
<1>3. Sound(l, t, "link") /\ (n > 0 => Sound(l, t, "unlink"))
  BY <1>1, <1>2 DEF Sound
<1>4. Counted(l, t, "link", n + 1)
  BY <1>1 DEF Counted
<1>5. Counted(l, t, "unlink", n - 1)
  <2>1. PICK k : k = n - 1
    OBVIOUS
  <2>2. n = k + 1
    BY <2>1
  <2>3. Counted(l, t, "unlink", k)
    BY <1>1, <2>2 DEF Counted
  <2> QED
    BY <2>1, <2>3
<1> QED
  BY <1>3, <1>4, <1>5

LEMMA OthersSound ==
    ASSUME NEW l, NEW l1, NEW t, OthersKept(l, l1, t), NEW u \in Clients, u # t, NEW st
    PROVE  /\ Sound(l, u, st) => Sound(l1, u, st)
           /\ \A n : Counted(l, u, st, n) => Counted(l1, u, st, n)
<1>1. /\ Bare(l1, u) = Bare(l, u) /\ Has(l1, u, TRUE) = Has(l, u, TRUE)
      /\ Has(l1, u, FALSE) = Has(l, u, FALSE)
  BY DEF OthersKept
<1> QED
  BY <1>1 DEF Sound, Counted

-----------------------------------------------------------------------------
(* What a client has in hand.                                              *)

LEMMA InPush ==
    ASSUME NEW q \in Seq(Message), NEW m \in Message, NEW p, p = Append(q, m)
    PROVE  \A x : In(p, x) <=> In(q, x) \/ x = m
<1>1. /\ Len(p) = Len(q) + 1 /\ Len(q) \in Nat /\ p[Len(q) + 1] = m
      /\ \A i \in 1..Len(q) : p[i] = q[i]
  OBVIOUS
<1>2. Len(q) + 1 \in 1..Len(p) /\ \A i \in 1..Len(q) : i \in 1..Len(p)
  BY <1>1
<1>3. \A i \in 1..Len(p) : i \in 1..Len(q) \/ i = Len(q) + 1
  BY <1>1
<1> QED
  BY <1>1, <1>2, <1>3 DEF In

LEMMA InSplit ==
    ASSUME NEW q \in Seq(Message), q # << >>, NEW p, p = Tail(q), NEW m, m = Head(q)
    PROVE  \A x : In(q, x) <=> In(p, x) \/ x = m
<1>1. /\ Len(p) = Len(q) - 1 /\ Len(q) \in Nat /\ Len(q) > 0 /\ q[1] = m
      /\ \A i \in 1..Len(p) : p[i] = q[i + 1]
  OBVIOUS
<1>2. 1 \in 1..Len(q) /\ \A i \in 1..Len(p) : i + 1 \in 1..Len(q)
  BY <1>1
<1>3. ASSUME NEW i \in 1..Len(q), i # 1
      PROVE  i - 1 \in 1..Len(p) /\ p[i - 1] = q[i]
  BY <1>1, <1>3
<1>4. ASSUME NEW x, In(q, x) PROVE In(p, x) \/ x = m
  BY <1>1, <1>3, <1>4 DEF In
<1>5. ASSUME NEW x, In(p, x) \/ x = m PROVE In(q, x)
  BY <1>1, <1>2, <1>5 DEF In
<1> QED
  BY <1>4, <1>5

LEMMA ApartPush ==
    ASSUME NEW q \in Seq(Message), NEW m \in Message, NEW p, p = Append(q, m), Apart(q),
           \A x : In(q, x) /\ Work(x) /\ Work(m) => ~Alike(x, m)
    PROVE  Apart(p)
<1>1. /\ Len(p) = Len(q) + 1 /\ Len(q) \in Nat /\ p[Len(q) + 1] = m
      /\ \A i \in 1..Len(q) : p[i] = q[i]
  OBVIOUS
<1>2. \A i \in 1..Len(q) : In(q, q[i])
  BY DEF In
<1> SUFFICES ASSUME NEW i \in 1..Len(p), NEW j \in 1..Len(p), i < j, Work(p[i]), Work(p[j])
             PROVE  ~Alike(p[i], p[j])
  BY DEF Apart
<1>3. i \in 1..Len(q)
  BY <1>1
<1>4. CASE j \in 1..Len(q)
  BY <1>1, <1>3, <1>4 DEF Apart
<1>5. CASE j = Len(q) + 1
  BY <1>1, <1>2, <1>3, <1>5
<1> QED
  BY <1>1, <1>4, <1>5

LEMMA ApartTail ==
    ASSUME NEW q \in Seq(Message), q # << >>, NEW p, p = Tail(q), NEW m, m = Head(q),
           Apart(q)
    PROVE  /\ Apart(p)
           /\ \A x : In(p, x) /\ Work(x) /\ Work(m) => ~Alike(x, m)
<1>1. /\ Len(p) = Len(q) - 1 /\ Len(q) \in Nat /\ Len(q) > 0 /\ q[1] = m
      /\ \A i \in 1..Len(p) : p[i] = q[i + 1]
  OBVIOUS
<1>2. /\ 1 \in 1..Len(q)
      /\ \A i \in 1..Len(p) : i + 1 \in 1..Len(q) /\ 1 < i + 1
  BY <1>1
<1>3. \A i, j \in 1..Len(p) : i < j => i + 1 < j + 1
  OBVIOUS
<1>4. Apart(p)
  BY <1>1, <1>2, <1>3 DEF Apart
<1>5. ASSUME NEW i \in 1..Len(p), Work(p[i]), Work(m) PROVE ~Alike(p[i], m)
  <2>1. ~Alike(q[1], q[i + 1])
    BY <1>1, <1>2, <1>5 DEF Apart
  <2> QED
    BY <1>1, <2>1 DEF Alike
<1> QED
  BY <1>4, <1>5 DEF In

\* F1 is F but for the stage st of t and n.
IsMarked(F, F1, t, n, st) ==
    /\ F1 \in [Clients -> [Names -> Stages]] /\ F1[t][n] = st
    /\ \A u \in Clients, k \in Names : u # t \/ k # n => F1[u][k] = F[u][k]

LEMMA Marked ==
    ASSUME NEW F \in [Clients -> [Names -> Stages]], NEW t \in Clients, NEW n \in Names,
           NEW st \in Stages
    PROVE  \E F1 : IsMarked(F, F1, t, n, st)
<1>1. PICK f : f = [F[t] EXCEPT ![n] = st]
  OBVIOUS
<1>2. F[t] \in [Names -> Stages]
  OBVIOUS
<1>3. /\ f \in [Names -> Stages] /\ f[n] = st
      /\ \A k \in Names : k # n => f[k] = F[t][k]
  BY <1>1, <1>2
<1>4. PICK F1 : F1 = [F EXCEPT ![t] = f]
  OBVIOUS
<1>5. IsChanged(F, F1, t, f, [Names -> Stages])
  BY <1>3, <1>4, ChangedFields
<1> QED
  BY <1>3, <1>5 DEF IsChanged, IsMarked

\* m has come to what is in hand, at stage st.
IsOneMore(w, p, b, w1, p1, b1, st, m) ==
    \A s \in Stages \ {"none"} : \A x :
        InHand(w1, p1, b1, s, x) <=> InHand(w, p, b, s, x) \/ (s = st /\ x = m)

NoneAlike(w, p, b, m) ==
    /\ \A x : In(w, x) /\ Work(x) => ~Alike(x, m)
    /\ \A x : In(p, x) => ~Alike(x, m)
    /\ b # None => ~Alike(b, m)

LEMMA OneMoreStaged ==
    ASSUME NEW w, NEW p, NEW b, NEW w1, NEW p1, NEW b1, NEW st \in Stages \ {"none"},
           NEW m \in Message, m.name \in Names, NEW F, Staged(w, p, b, F),
           IsOneMore(w, p, b, w1, p1, b1, st, m), F[m.snk][m.name] = "none",
           NEW F1, IsMarked(F, F1, m.snk, m.name, st)
    PROVE  Staged(w1, p1, b1, F1)
<1>1. m.snk \in Clients
  BY MessageFields
<1> SUFFICES ASSUME NEW t \in Clients, NEW n \in Names, NEW s \in Stages \ {"none"}
             PROVE  Pending(w1, p1, b1, s, t, n) <=> F1[t][n] = s
  BY DEF Staged, IsMarked
<1>2. Pending(w1, p1, b1, s, t, n) <=>
         Pending(w, p, b, s, t, n) \/ (s = st /\ Of(m, t, n))
  BY DEF Pending, IsOneMore
<1>3. Pending(w, p, b, s, t, n) <=> F[t][n] = s
  BY DEF Staged
<1>4. CASE t = m.snk /\ n = m.name
  BY <1>2, <1>3, <1>4 DEF Of, IsMarked
<1>5. CASE ~(t = m.snk /\ n = m.name)
  BY <1>2, <1>3, <1>5 DEF Of, IsMarked
<1> QED
  BY <1>4, <1>5

LEMMA OneLessStaged ==
    ASSUME NEW w, NEW p, NEW b, NEW w1, NEW p1, NEW b1, NEW st \in Stages \ {"none"},
           NEW m \in Message, m.name \in Names, NEW F, Staged(w, p, b, F),
           IsOneMore(w1, p1, b1, w, p, b, st, m), NoneAlike(w1, p1, b1, m),
           NEW F1, IsMarked(F, F1, m.snk, m.name, "none")
    PROVE  Staged(w1, p1, b1, F1) /\ F[m.snk][m.name] = st
<1>1. m.snk \in Clients
  BY MessageFields
<1>2. \A t, n, s : s \in Stages \ {"none"} =>
         (Pending(w, p, b, s, t, n) <=>
             Pending(w1, p1, b1, s, t, n) \/ (s = st /\ Of(m, t, n)))
  BY DEF Pending, IsOneMore
<1>3. F[m.snk][m.name] = st
  BY <1>1, <1>2 DEF Staged, Of
<1>4. Staged(w1, p1, b1, F1)
  <2> SUFFICES ASSUME NEW t \in Clients, NEW n \in Names, NEW s \in Stages \ {"none"}
               PROVE  Pending(w1, p1, b1, s, t, n) <=> F1[t][n] = s
    BY DEF Staged, IsMarked
  <2>1. Pending(w, p, b, s, t, n) <=> F[t][n] = s
    BY DEF Staged
  <2>2. CASE t = m.snk /\ n = m.name
    <3>1. ~Pending(w1, p1, b1, s, t, n)
      BY <2>2 DEF Pending, InHand, NoneAlike, Alike, Of
    <3> QED
      BY <2>2, <3>1 DEF IsMarked
  <2>3. CASE ~(t = m.snk /\ n = m.name)
    BY <1>2, <2>1, <2>3 DEF Of, IsMarked
  <2> QED
    BY <2>2, <2>3
<1> QED
  BY <1>3, <1>4

\* What is at no stage has nothing in hand.
LEMMA Free ==
    ASSUME NEW w, NEW p, NEW b, NEW F, Staged(w, p, b, F), NEW m, m.snk \in Clients,
           m.name \in Names, F[m.snk][m.name] = "none"
    PROVE  NoneAlike(w, p, b, m)
<1>1. ASSUME NEW s \in Stages \ {"none"}, NEW x, InHand(w, p, b, s, x) PROVE ~Alike(x, m)
  <2>1. ~Pending(w, p, b, s, m.snk, m.name)
    BY DEF Staged
  <2> QED
    BY <1>1, <2>1 DEF Pending, Alike, Of
<1>2. ASSUME NEW x, Work(x) PROVE StageOf(x) \in Stages \ {"none"}
  BY <1>2 DEF Work, StageOf, Stages
<1>3. "rdv" \in Stages \ {"none"}
  BY DEF Stages
<1>4. \A x : In(w, x) /\ Work(x) => ~Alike(x, m)
  BY <1>1, <1>2 DEF InHand
<1>5. \A x : In(p, x) => ~Alike(x, m)
  BY <1>1, <1>3 DEF InHand
<1>6. b # None => ~Alike(b, m)
  BY <1>1, <1>3 DEF InHand
<1> QED
  BY <1>4, <1>5, <1>6 DEF NoneAlike

LEMMA WorkStage ==
    ASSUME NEW m, Work(m)
    PROVE  StageOf(m) \in Stages \ {"none"}
  BY DEF Work, StageOf, Stages

\* Something to do arrives,
LEMMA Arrives ==
    ASSUME NEW w \in Seq(Message), NEW p, NEW b, Single(w, p, b), NEW m \in Message,
           Work(m), NoneAlike(w, p, b, m), NEW w1, w1 = Append(w, m)
    PROVE  Single(w1, p, b) /\ IsOneMore(w, p, b, w1, p, b, StageOf(m), m)
<1>1. \A x : In(w1, x) <=> In(w, x) \/ x = m
  BY InPush
<1>2. Apart(w)
  BY DEF Single
<1>3. \A x : In(w, x) /\ Work(x) /\ Work(m) => ~Alike(x, m)
  BY DEF NoneAlike
<1>4. Apart(w1)
  BY <1>2, <1>3, ApartPush
<1>5. \A x : Alike(x, m) <=> Alike(m, x)
  BY DEF Alike
<1>6. \A x, y : In(w1, x) /\ Work(x) /\ In(p, y) => ~Alike(x, y)
  BY <1>1, <1>5 DEF Single, NoneAlike
<1>7. b # None => \A x : In(w1, x) /\ Work(x) => ~Alike(x, b)
  BY <1>1, <1>5 DEF Single, NoneAlike
<1>8. Single(w1, p, b)
  BY <1>4, <1>6, <1>7 DEF Single
<1>9. IsOneMore(w, p, b, w1, p, b, StageOf(m), m)
  BY <1>1 DEF IsOneMore, InHand
<1> QED
  BY <1>8, <1>9

\* or is taken up;
LEMMA Taken ==
    ASSUME NEW w \in Seq(Message), w # << >>, NEW p, NEW b, Single(w, p, b), NEW m,
           m = Head(w), Work(m), NEW w1, w1 = Tail(w)
    PROVE  /\ Single(w1, p, b) /\ NoneAlike(w1, p, b, m)
           /\ IsOneMore(w1, p, b, w, p, b, StageOf(m), m)
<1>1. \A x : In(w, x) <=> In(w1, x) \/ x = m
  BY InSplit
<1>2. Apart(w)
  BY DEF Single
<1>3. /\ Apart(w1)
      /\ \A x : In(w1, x) /\ Work(x) /\ Work(m) => ~Alike(x, m)
  BY <1>2, ApartTail
<1>4. \A x : Alike(x, m) <=> Alike(m, x)
  BY DEF Alike
<1>5. Single(w1, p, b)
  BY <1>1, <1>3 DEF Single
<1>6. NoneAlike(w1, p, b, m)
  BY <1>1, <1>3, <1>4 DEF Single, NoneAlike
<1>7. IsOneMore(w1, p, b, w, p, b, StageOf(m), m)
  BY <1>1 DEF IsOneMore, InHand
<1> QED
  BY <1>5, <1>6, <1>7

\* a rendezvous is asked for,
LEMMA Asks ==
    ASSUME NEW w, NEW p \in Seq(Message), NEW b, Single(w, p, b), NEW m \in Message,
           m.op = "link", NoneAlike(w, p, b, m), NEW p1, p1 = Append(p, m)
    PROVE  Single(w, p1, b) /\ IsOneMore(w, p, b, w, p1, b, "rdv", m)
<1>1. \A x : In(p1, x) <=> In(p, x) \/ x = m
  BY InPush
<1>2. Apart(p)
  BY DEF Single
<1>3. \A x : In(p, x) /\ Work(x) /\ Work(m) => ~Alike(x, m)
  BY DEF NoneAlike
<1>4. Apart(p1)
  BY <1>2, <1>3, ApartPush
<1>5. \A x, y : In(w, x) /\ Work(x) /\ In(p1, y) => ~Alike(x, y)
  BY <1>1 DEF Single, NoneAlike
<1>6. \A x : Alike(x, m) <=> Alike(m, x)
  BY DEF Alike
<1>7. b # None => \A x : In(p1, x) => ~Alike(x, b)
  BY <1>1, <1>6 DEF Single, NoneAlike
<1>8. \A x : In(p1, x) => x.op = "link"
  BY <1>1 DEF Single
<1>9. Single(w, p1, b)
  BY <1>4, <1>5, <1>7, <1>8 DEF Single
<1>10. IsOneMore(w, p, b, w, p1, b, "rdv", m)
  BY <1>1 DEF IsOneMore, InHand
<1> QED
  BY <1>9, <1>10

\* and the interpreter reads that;
LEMMA Asked ==
    ASSUME NEW w, NEW p \in Seq(Message), p # << >>, NEW b, Single(w, p, b), NEW m,
           m = Head(p), NEW p1, p1 = Tail(p)
    PROVE  /\ Single(w, p1, b) /\ NoneAlike(w, p1, b, m)
           /\ IsOneMore(w, p1, b, w, p, b, "rdv", m)
<1>1. \A x : In(p, x) <=> In(p1, x) \/ x = m
  BY InSplit
<1>2. Apart(p) /\ \A x : In(p, x) => x.op = "link"
  BY DEF Single
<1>3. \A x : In(p, x) => Work(x)
  BY <1>2 DEF Work
<1>4. /\ Apart(p1)
      /\ \A x : In(p1, x) /\ Work(x) /\ Work(m) => ~Alike(x, m)
  BY <1>2, ApartTail
<1>5. \A x : In(p1, x) => ~Alike(x, m)
  BY <1>1, <1>3, <1>4
<1>6. Single(w, p1, b)
  BY <1>1, <1>4 DEF Single
<1>7. \A x : Alike(x, m) <=> Alike(m, x)
  BY DEF Alike
<1>8. NoneAlike(w, p1, b, m)
  BY <1>1, <1>5, <1>7 DEF Single, NoneAlike
<1>9. IsOneMore(w, p1, b, w, p, b, "rdv", m)
  BY <1>1 DEF IsOneMore, InHand
<1> QED
  BY <1>6, <1>8, <1>9

\* the client goes into accept() and comes out of it.
LEMMA Enters ==
    ASSUME NEW w, NEW p, Single(w, p, None), NEW m, NoneAlike(w, p, None, m), m # None
    PROVE  Single(w, p, m) /\ IsOneMore(w, p, None, w, p, m, "rdv", m)
<1>1. Single(w, p, m)
  BY DEF Single, NoneAlike
<1>2. IsOneMore(w, p, None, w, p, m, "rdv", m)
  BY DEF IsOneMore, InHand
<1> QED
  BY <1>1, <1>2

LEMMA Leaves ==
    ASSUME NEW w, NEW p, NEW m, Single(w, p, m), m # None
    PROVE  /\ Single(w, p, None) /\ NoneAlike(w, p, None, m)
           /\ IsOneMore(w, p, None, w, p, m, "rdv", m)
<1>1. Single(w, p, None) /\ NoneAlike(w, p, None, m)
  BY DEF Single, NoneAlike
<1>2. IsOneMore(w, p, None, w, p, m, "rdv", m)
  BY DEF IsOneMore, InHand
<1> QED
  BY <1>1, <1>2

\* What is no work comes and goes.
IsSameWork(w, w1) ==
    /\ Apart(w) => Apart(w1)
    /\ \A x : Work(x) => (In(w1, x) <=> In(w, x))

LEMMA SameWorkKept ==
    ASSUME NEW w, NEW w1, IsSameWork(w, w1), NEW p, NEW b
    PROVE  /\ Single(w, p, b) => Single(w1, p, b)
           /\ \A F : Staged(w, p, b, F) => Staged(w1, p, b, F)
<1>1. Single(w, p, b) => Single(w1, p, b)
  BY DEF IsSameWork, Single
<1>2. \A st, x : InHand(w, p, b, st, x) <=> InHand(w1, p, b, st, x)
  BY DEF IsSameWork, InHand
<1>3. \A st, t, n : Pending(w, p, b, st, t, n) <=> Pending(w1, p, b, st, t, n)
  BY <1>2 DEF Pending
<1>4. \A F : Staged(w, p, b, F) => Staged(w1, p, b, F)
  BY <1>3 DEF Staged
<1> QED
  BY <1>1, <1>4

LEMMA SameWorkRefl == \A w : IsSameWork(w, w)
  BY DEF IsSameWork

LEMMA SameWorkPush ==
    ASSUME NEW w \in Seq(Message), NEW m \in Message, ~Work(m), NEW w1, w1 = Append(w, m)
    PROVE  IsSameWork(w, w1)
<1>1. \A x : In(w1, x) <=> In(w, x) \/ x = m
  BY InPush
<1>2. Apart(w) => Apart(w1)
  BY ApartPush
<1> QED
  BY <1>1, <1>2 DEF IsSameWork

LEMMA SameWorkTail ==
    ASSUME NEW w \in Seq(Message), w # << >>, ~Work(Head(w)), NEW w1, w1 = Tail(w)
    PROVE  IsSameWork(w, w1)
<1>1. \A x : In(w, x) <=> In(w1, x) \/ x = Head(w)
  BY InSplit
<1>2. Apart(w) => Apart(w1)
  BY ApartTail
<1> QED
  BY <1>1, <1>2 DEF IsSameWork

-----------------------------------------------------------------------------
(* What steps do to what a client has in hand and to its links.            *)

\* Of links' only those of c for n to t differ.
OnlyLinks(c, n, t) ==
    /\ \A d \in Clients : d # c => links'[d] = links[d]
    /\ \A k \in Names : k # n => links'[c][k] = links[c][k]
    /\ OthersKept(links[c][n], links'[c][n], t)

\* The link that was looked for is the k-th, and is now a; or it is new.
IsFound(l, l1, t, want, fd, a, b) ==
    \E k \in Has(l, t, want) :
        /\ IsTurned(l, l1, t, k, a, b)
        /\ fd = 0 => Bare(l1, t) = Bare(l, t)
        /\ fd # 0 => Bare(l1, t) = Bare(l, t) \ {k}

IsAdded(l, l1, t, fd, a, b) ==
    \E k :
        /\ k \notin Has(l, t, TRUE) /\ k \notin Has(l, t, FALSE)
        /\ IsTurned(l, l1, t, k, a, b)
        /\ fd = 0 => Bare(l1, t) = Bare(l, t) \cup {k}
        /\ fd # 0 => Bare(l1, t) = Bare(l, t)

LEMMA MatchingHas ==
    ASSUME TypeOK, NEW c \in Clients, NEW m \in Message, m.name \in Names, NEW a
    PROVE  Matching(c, m, a) = Has(links[c][m.name], m.snk, a)
<1>1. links[c][m.name] \in Seq(EventLink)
  BY DEF TypeOK
<1>2. DOMAIN links[c][m.name] = 1..Len(links[c][m.name])
  BY <1>1
<1> QED
  BY <1>2 DEF Matching, Has

LEMMA AddOutputLinkFields ==
    ASSUME TypeOK, NEW c \in Clients, NEW m \in Message, m.name \in Names,
           NEW want \in BOOLEAN, NEW fd \in Nat, NEW a \in BOOLEAN, NEW b \in BOOLEAN,
           a # b, AddOutputLink(c, m, want, fd, a), NEW l, l = links[c][m.name],
           NEW l1, l1 = links'[c][m.name]
    PROVE  /\ l \in Seq(EventLink)
           /\ OnlyLinks(c, m.name, m.snk)
           /\ Has(l, m.snk, want) # {} => IsFound(l, l1, m.snk, want, fd, a, b)
           /\ Has(l, m.snk, want) = {} => IsAdded(l, l1, m.snk, fd, a, b)
<1>1. PICK t : t = m.snk
  OBVIOUS
<1>2. PICK S : S = Has(l, t, want)
  OBVIOUS
<1>3. PICK k : k = Min(S)
  OBVIOUS
<1>4. PICK f : f = IF fd = 0 THEN l[k].fd ELSE fd
  OBVIOUS
<1>5. PICK x : x = [snk |-> t, active |-> a, fd |-> f]
  OBVIOUS
<1>6. PICK y : y = [snk |-> t, fd |-> fd, active |-> a]
  OBVIOUS
<1>7. PICK q : q = IF S # {} THEN [l EXCEPT ![k] = x] ELSE Append(l, y)
  OBVIOUS
<1>8. S = Matching(c, m, want)
  BY <1>1, <1>2, MatchingHas
<1>9. links' = [links EXCEPT ![c] = [links[c] EXCEPT ![m.name] = q]]
  BY <1>1, <1>3, <1>4, <1>5, <1>6, <1>7, <1>8 DEF AddOutputLink
<1>10. PICK g : g = [links[c] EXCEPT ![m.name] = q]
  OBVIOUS
<1>11. links[c] \in [Names -> Seq(EventLink)] /\ l \in Seq(EventLink) /\ t \in Clients
  BY <1>1, MessageFields DEF TypeOK
<1>12. /\ DOMAIN g = Names /\ g[m.name] = q
       /\ \A n \in Names : n # m.name => g[n] = links[c][n]
  BY <1>10, <1>11
<1>13. links'[c] = g /\ \A d \in Clients : d # c => links'[d] = links[d]
  BY <1>9, <1>10 DEF TypeOK
<1>14. l1 = q
  BY <1>12, <1>13
<1>15. CASE S # {}
  <2>1. S \subseteq 1..Len(l)
    BY <1>2 DEF Has
  <2>2. k \in S
    BY <1>3, <1>15, <2>1, MinFields
  <2>3. k \in 1..Len(l) /\ l[k].snk = t /\ l[k] \in EventLink
    BY <1>2, <1>11, <2>2 DEF Has
  <2>4. l[k].fd \in Nat
    BY <2>3, LinkFields
  <2>5. f \in Nat
    BY <1>4, <2>4
  <2>6. l1 = [l EXCEPT ![k] = x]
    BY <1>7, <1>14, <1>15
  <2>7. /\ OthersKept(l, l1, t) /\ IsTurned(l, l1, t, k, a, b)
        /\ f = 0 => Bare(l1, t) = Bare(l, t) \cup {k}
        /\ f # 0 => Bare(l1, t) = Bare(l, t) \ {k}
    <3>1. IsLink(x, t, a, f)
      BY <1>5, <1>11, <2>5 DEF EventLink, IsLink
    <3>2. /\ OthersKept(l, l1, t) /\ IsTurned(l, l1, t, k, a, b)
          /\ IsBared(l, l1, t, k, f)
      BY <1>11, <2>3, <2>6, <3>1, TurnedFields
    <3> QED
      BY <3>2 DEF IsBared
  <2>8. k \in Bare(l, t) <=> l[k].fd = 0
    BY <2>3 DEF Bare
  <2>9. fd = 0 => Bare(l1, t) = Bare(l, t)
    BY <1>4, <2>7, <2>8
  <2>10. fd # 0 => Bare(l1, t) = Bare(l, t) \ {k}
    BY <1>4, <2>7
  <2>11. IsFound(l, l1, t, want, fd, a, b)
    BY <1>2, <2>2, <2>7, <2>9, <2>10 DEF IsFound
  <2>12. OnlyLinks(c, m.name, t)
    BY <1>12, <1>13, <2>7 DEF OnlyLinks
  <2> QED
    BY <1>1, <1>2, <1>11, <1>15, <2>11, <2>12
<1>16. CASE S = {}
  <2>1. l1 = Append(l, y)
    BY <1>7, <1>14, <1>16
  <2>2. PICK j : j = Len(l) + 1
    OBVIOUS
  <2>3. /\ OthersKept(l, l1, t) /\ IsTurned(l, l1, t, j, a, b)
        /\ fd = 0 => Bare(l1, t) = Bare(l, t) \cup {j}
        /\ fd # 0 => Bare(l1, t) = Bare(l, t)
        /\ j \notin 1..Len(l)
    <3>1. IsLink(y, t, a, fd)
      BY <1>6, <1>11 DEF EventLink, IsLink
    <3>2. /\ OthersKept(l, l1, t) /\ IsTurned(l, l1, t, j, a, b)
          /\ IsBared(l, l1, t, j, fd) /\ j \notin 1..Len(l)
      BY <1>11, <2>1, <2>2, <3>1, AddedFields
    <3>3. j \notin Bare(l, t)
      BY <3>2 DEF Bare
    <3> QED
      BY <3>2, <3>3 DEF IsBared
  <2>4. j \notin Has(l, t, TRUE) /\ j \notin Has(l, t, FALSE)
    BY <2>3 DEF Has
  <2>5. IsAdded(l, l1, t, fd, a, b)
    BY <2>3, <2>4 DEF IsAdded
  <2>6. OnlyLinks(c, m.name, t)
    BY <1>12, <1>13, <2>3 DEF OnlyLinks
  <2> QED
    BY <1>1, <1>2, <1>11, <1>16, <2>5, <2>6
<1> QED
  BY <1>15, <1>16

\* What is asked of d is as before.
SameAsked(d) == \A t \in Clients : <<d, t>> \in Pairs => asked'[<<d, t>>] = asked[<<d, t>>]

LEMMA OtherTurn ==
    ASSUME NEW d \in Clients, Turn(d), alive'[d] => alive[d],
           IsSameWork(wire[d], wire'[d]), posted'[d] = posted[d], busy'[d] = busy[d],
           links'[d] = links[d], up' => up, SameAsked(d)
    PROVE  Turn(d)'
<1> SUFFICES ASSUME alive'[d]
             PROVE  /\ Single(wire'[d], posted'[d], busy'[d])
                    /\ \E F : InTurn(d, F)'
  BY DEF Turn
<1>1. Single(wire[d], posted[d], busy[d])
  BY DEF Turn
<1>2. PICK F : InTurn(d, F)
  BY DEF Turn
<1>3. Single(wire'[d], posted'[d], busy'[d])
  BY <1>1, SameWorkKept
<1>4. Staged(wire'[d], posted'[d], busy'[d], F)
  BY <1>2, SameWorkKept DEF InTurn
<1>5. Sounds(links'[d], F) /\ (up' => Counts(d, links'[d], F, asked))
  BY <1>2 DEF InTurn
<1>6. up' => Counts(d, links'[d], F, asked')
  BY <1>5 DEF Counts, SameAsked
<1> QED
  BY <1>3, <1>4, <1>5, <1>6 DEF InTurn

\* The stage of t and n, and with it the links of c for n to t, have changed.
IsStep(c, F, n, t, st) ==
    /\ OnlyLinks(c, n, t)
    /\ Sound(links'[c][n], t, st)
    /\ up' => up
    /\ up' => \A x \in Nat : Counted(links[c][n], t, F[t][n], x) =>
                                Counted(links'[c][n], t, st, x)

LEMMA ActorTurn ==
    ASSUME TypeOK, NEW c \in Clients, NEW F, InTurn(c, F), NEW n \in Names,
           NEW t \in Clients, NEW st \in Stages, IsStep(c, F, n, t, st), SameAsked(c),
           NEW F1, IsMarked(F, F1, t, n, st),
           Staged(wire'[c], posted'[c], busy'[c], F1),
           Single(wire'[c], posted'[c], busy'[c])
    PROVE  Turn(c)'
<1>1. ASSUME NEW u \in Clients, NEW k \in Names
      PROVE  /\ Sound(links'[c][k], u, F1[u][k])
             /\ up' /\ <<c, u>> \in Pairs =>
                   Counted(links'[c][k], u, F1[u][k], asked'[<<c, u>>][k])
  <2>1. Sound(links[c][k], u, F[u][k])
    BY DEF InTurn, Sounds
  <2>2. up' /\ <<c, u>> \in Pairs =>
           /\ asked'[<<c, u>>] = asked[<<c, u>>] /\ asked[<<c, u>>][k] \in Nat
           /\ Counted(links[c][k], u, F[u][k], asked[<<c, u>>][k])
    BY DEF InTurn, Counts, SameAsked, IsStep, TypeOK
  <2>3. CASE k # n
    <3>1. links'[c][k] = links[c][k] /\ F1[u][k] = F[u][k]
      BY <2>3 DEF IsStep, OnlyLinks, IsMarked
    <3> QED
      BY <2>1, <2>2, <3>1
  <2>4. CASE k = n /\ u # t
    <3>1. OthersKept(links[c][n], links'[c][n], t) /\ F1[u][n] = F[u][n]
      BY <2>4 DEF IsStep, OnlyLinks, IsMarked
    <3>2. /\ Sound(links[c][n], u, F[u][n]) => Sound(links'[c][n], u, F[u][n])
          /\ \A x : Counted(links[c][n], u, F[u][n], x) =>
                       Counted(links'[c][n], u, F[u][n], x)
      BY <2>4, <3>1, OthersSound
    <3> QED
      BY <2>1, <2>2, <2>4, <3>1, <3>2
  <2>5. CASE k = n /\ u = t
    <3>1. F1[u][k] = st
      BY <2>5 DEF IsMarked
    <3> QED
      BY <2>2, <2>5, <3>1 DEF IsStep
  <2> QED
    BY <2>3, <2>4, <2>5
<1>2. Sounds(links'[c], F1)
  BY <1>1 DEF Sounds
<1>3. up' => Counts(c, links'[c], F1, asked')
  BY <1>1 DEF Counts
<1>4. InTurn(c, F1)'
  BY <1>2, <1>3 DEF InTurn
<1> QED
  BY <1>4 DEF Turn

-----------------------------------------------------------------------------
(* Steps.                                                                  *)

LEMMA CalmKept ==
    ASSUME Calm, UNCHANGED <<nlost, up, known, alive>>,
           \A d \in Clients : \A m : In(wire'[d], m) =>
              In(wire[d], m) \/ m.op # "terminate"
    PROVE  Calm'
  BY DEF Calm

\* The rest of a step of c, of which the others notice nothing.
OthersSame(c) ==
    \A d \in Clients : d # c =>
        /\ alive'[d] => alive[d]
        /\ IsSameWork(wire[d], wire'[d]) /\ posted'[d] = posted[d]
        /\ busy'[d] = busy[d] /\ links'[d] = links[d] /\ SameAsked(d)

LEMMA TurnsKept ==
    ASSUME Rest, NEW c \in Clients, OthersSame(c), up' => up, Turn(c)'
    PROVE  \A d \in Clients : Turn(d)'
<1> SUFFICES ASSUME NEW d \in Clients, d # c PROVE Turn(d)'
  OBVIOUS
<1>1. Turn(d)
  BY DEF Rest
<1> QED
  BY <1>1, OtherTurn DEF OthersSame

LEMMA SameAskedAll ==
    ASSUME asked' = asked
    PROVE  \A d : SameAsked(d)
  BY DEF SameAsked

\* What c reads, as it concerns what it has in hand.
LEMMA ReadPool ==
    ASSUME TypeOK, NEW c \in Clients, NEW o, Read(c, o)
    PROVE  /\ wire[c] \in Seq(Message) /\ wire[c] # << >> /\ wire'[c] = Tail(wire[c])
           /\ \A d \in Clients : d # c => wire'[d] = wire[d]
           /\ alive[c] /\ busy[c] = None
<1>1. /\ wire[c] # << >> /\ wire' = [wire EXCEPT ![c] = Tail(wire[c])]
      /\ alive[c] /\ busy[c] = None
  BY DEF Read
<1>2. wire \in [Clients -> Seq(Message)]
  BY DEF TypeOK
<1>3. wire'[c] = Tail(wire[c]) /\ \A d \in Clients : d # c => wire'[d] = wire[d]
  BY <1>1, <1>2
<1> QED
  BY <1>1, <1>2, <1>3

\* c takes up m: its stage was m's, and nothing like it is left.
LEMMA TakenUp ==
    ASSUME TypeOK, NEW c \in Clients, NEW o, Read(c, o), NEW m, m = Head(wire[c]),
           m \in Message, m.name \in Names, Work(m), Turn(c), NEW w1, w1 = wire'[c]
    PROVE  \E F, F0 : /\ InTurn(c, F) /\ F \in [Clients -> [Names -> Stages]]
                      /\ F[m.snk][m.name] = StageOf(m)
                      /\ IsMarked(F, F0, m.snk, m.name, "none")
                      /\ Staged(w1, posted[c], None, F0)
                      /\ Single(w1, posted[c], None)
                      /\ NoneAlike(w1, posted[c], None, m)
<1>1. /\ wire[c] \in Seq(Message) /\ wire[c] # << >> /\ w1 = Tail(wire[c])
      /\ alive[c] /\ busy[c] = None
  BY ReadPool
<1>2. Single(wire[c], posted[c], None)
  BY <1>1 DEF Turn
<1>3. PICK F : InTurn(c, F)
  BY <1>1 DEF Turn
<1>4. Staged(wire[c], posted[c], None, F) /\ F \in [Clients -> [Names -> Stages]]
  BY <1>1, <1>3 DEF InTurn, Staged
<1>5. m.snk \in Clients /\ "none" \in Stages
  BY MessageFields DEF Stages
<1>6. PICK F0 : IsMarked(F, F0, m.snk, m.name, "none")
  BY <1>4, <1>5, Marked
<1>7. /\ Single(w1, posted[c], None) /\ NoneAlike(w1, posted[c], None, m)
      /\ IsOneMore(w1, posted[c], None, wire[c], posted[c], None, StageOf(m), m)
  BY <1>1, <1>2, Taken
<1>8. StageOf(m) \in Stages \ {"none"}
  BY WorkStage
<1>9. Staged(w1, posted[c], None, F0) /\ F[m.snk][m.name] = StageOf(m)
  <2>1. PICK st, w, p : st = StageOf(m) /\ w = wire[c] /\ p = posted[c]
    OBVIOUS
  <2>2. /\ st \in Stages \ {"none"} /\ Staged(w, p, None, F)
        /\ NoneAlike(w1, p, None, m) /\ IsOneMore(w1, p, None, w, p, None, st, m)
    BY <1>4, <1>7, <1>8, <2>1
  <2>3. Staged(w1, p, None, F0) /\ F[m.snk][m.name] = st
    BY <1>6, <2>2, OneLessStaged
  <2> QED
    BY <2>1, <2>3
<1> QED
  BY <1>3, <1>4, <1>6, <1>7, <1>9

\* c has taken up m, and has come to an end with it.
LEMMA DoneTurn ==
    ASSUME TypeOK, NEW c \in Clients, NEW F, InTurn(c, F), NEW m \in Message,
           m.name \in Names, NEW F0, IsMarked(F, F0, m.snk, m.name, "none"),
           Staged(wire'[c], posted'[c], busy'[c], F0),
           Single(wire'[c], posted'[c], busy'[c]), asked' = asked,
           IsStep(c, F, m.name, m.snk, "none")
    PROVE  Turn(c)'
<1>1. m.snk \in Clients /\ "none" \in Stages
  BY MessageFields DEF Stages
<1>2. SameAsked(c)
  BY SameAskedAll
<1> QED
  BY <1>1, <1>2, ActorTurn

\* c has taken up m, and goes on with x.
LEMMA GoesOnTurn ==
    ASSUME TypeOK, NEW c \in Clients, NEW F, InTurn(c, F), NEW m \in Message,
           m.name \in Names, NEW F0, IsMarked(F, F0, m.snk, m.name, "none"),
           NEW w, NEW p, NEW b, Staged(w, p, b, F0), NEW x \in Message, Alike(x, m),
           NEW w1, IsOneMore(w, p, b, w1, posted'[c], busy'[c], "rdv", x),
           Single(w1, posted'[c], busy'[c]), IsSameWork(w1, wire'[c]), asked' = asked,
           IsStep(c, F, m.name, m.snk, "rdv")
    PROVE  Turn(c)'
<1>1. /\ m.snk \in Clients /\ x.snk = m.snk /\ x.name = m.name
      /\ "rdv" \in Stages \ {"none"} /\ "rdv" \in Stages
  BY MessageFields DEF Alike, Stages
<1>2. F0 \in [Clients -> [Names -> Stages]] /\ F0[m.snk][m.name] = "none"
  BY DEF IsMarked
<1>3. PICK F1 : IsMarked(F0, F1, m.snk, m.name, "rdv")
  BY <1>1, <1>2, Marked
<1>4. Staged(w1, posted'[c], busy'[c], F1)
  BY <1>1, <1>2, <1>3, OneMoreStaged
<1>5. /\ Staged(wire'[c], posted'[c], busy'[c], F1)
      /\ Single(wire'[c], posted'[c], busy'[c])
  BY <1>4, SameWorkKept
<1>6. IsMarked(F, F1, m.snk, m.name, "rdv")
  BY <1>3 DEF IsMarked
<1>7. SameAsked(c)
  BY SameAskedAll
<1> QED
  BY <1>1, <1>5, <1>6, <1>7, ActorTurn

LEMMA StatementRest ==
    ASSUME Orderly, KInv, NEW o \in {"link", "unlink"}, NEW p \in Pairs,
           NEW n \in Named[p], Statement(o, p, n)
    PROVE  Rest'
<1>1. TypeOK /\ Rest
  BY DEF KInv, IInv
<1>2. PICK T : Agreed(T)
  BY DEF KInv, IInv
<1>3. PICK c, t : c = p[1] /\ t = p[2]
  OBVIOUS
<1>4. c \in Clients /\ t \in Clients /\ n \in Names /\ p = <<c, t>>
  BY <1>3, PairsAssumption, NamedAssumption
<1>5. PICK m : m = [op |-> o, src |-> c, snk |-> t, name |-> n, sock |-> 0]
  OBVIOUS
<1>6. m \in Message /\ m.op = o /\ m.src = c /\ m.snk = t /\ m.name = n
  BY <1>4, <1>5 DEF Message
<1>7. /\ wire' = SendTo(wire, c, m) /\ up /\ Settled(p, n)
      /\ o = "unlink" => asked[p][n] > 0
      /\ UNCHANGED <<posted, links, sinks, sources, busy, socks, alive, known, up>>
      /\ UNCHANGED <<nlost, lost>>
  BY <1>3, <1>5 DEF Statement, clientVars
<1>8. wire \in [Clients -> Seq(Message)] /\ asked \in [Pairs -> [Names -> Nat]]
  BY <1>1 DEF TypeOK
<1>9. PICK a : a = IF o = "link" THEN asked[p][n] + 1
                   ELSE IF asked[p][n] = 0 THEN 0 ELSE asked[p][n] - 1
  OBVIOUS
<1>10. /\ \A q \in Pairs : q # p => asked'[q] = asked[q]
       /\ \A k \in Names : k # n => asked'[p][k] = asked[p][k]
       /\ asked'[p][n] = a
  <2>1. PICK f : f = [asked[p] EXCEPT ![n] = a]
    OBVIOUS
  <2>2. asked' = [asked EXCEPT ![p] = f]
    BY <1>9, <2>1 DEF Statement
  <2>3. asked[p] \in [Names -> Nat]
    BY <1>8
  <2>4. f[n] = a /\ \A k \in Names : k # n => f[k] = asked[p][k]
    BY <1>4, <2>1, <2>3
  <2>5. asked'[p] = f /\ \A q \in Pairs : q # p => asked'[q] = asked[q]
    BY <1>8, <2>2
  <2> QED
    BY <2>4, <2>5
<1>11. \A d \in Clients : d # c => wire'[d] = wire[d] /\ SameAsked(d)
  <2>1. \A d \in Clients : d # c => wire'[d] = wire[d]
    BY <1>7, <1>8 DEF SendTo
  <2>2. ASSUME NEW d \in Clients, d # c, NEW u \in Clients PROVE <<d, u>> # p
    BY <1>4, <2>2
  <2>3. \A d \in Clients : d # c => SameAsked(d)
    BY <1>10, <2>2 DEF SameAsked
  <2> QED
    BY <2>1, <2>3
<1>12. OthersSame(c)
  BY <1>7, <1>11, SameWorkRefl DEF OthersSame
<1>13. Turn(c)'
  <2>1. CASE ~alive[c]
    BY <1>7, <2>1 DEF Turn
  <2>2. CASE alive[c]
    <3>1. wire[c] \in Seq(Message) /\ wire'[c] = Append(wire[c], m)
      BY <1>4, <1>7, <1>8, <2>2 DEF SendTo
    <3>2. Single(wire[c], posted[c], busy[c])
      BY <1>1, <1>4, <2>2 DEF Rest, Turn
    <3>3. PICK F : InTurn(c, F)
      BY <1>1, <1>4, <2>2 DEF Rest, Turn
    <3>4. Staged(wire[c], posted[c], busy[c], F) /\ F \in [Clients -> [Names -> Stages]]
      BY <3>3 DEF InTurn, Staged
    <3>5. F[t][n] = "none"
      <4>1. ASSUME NEW st \in Stages \ {"none"} PROVE ~Pending(wire[c], posted[c], busy[c], st, t, n)
        <5>1. SUFFICES ASSUME NEW x, InHand(wire[c], posted[c], busy[c], st, x), Of(x, t, n)
                       PROVE  FALSE
          BY DEF Pending
        <5>2. x.src = c
          BY <1>2, <1>4, <5>1 DEF Agreed, Mail, InHand, Work, InWire, InPosted, InBusy
        <5>3. In(wire[c], x) \/ In(posted[c], x) \/ (busy[c] # None /\ x = busy[c])
          BY <5>1 DEF InHand
        <5>4. x \in UnderWay
          <6>1. wire[c] \in Seq(Message) /\ posted[c] \in Seq(Message)
            BY <1>1, <1>4 DEF TypeOK
          <6>2. In(wire[c], x) => x \in Range(wire[c])
            BY <6>1 DEF In, Range
          <6>3. In(posted[c], x) => x \in Range(posted[c])
            BY <6>1 DEF In, Range
          <6>4. x \in Range(wire[c]) \cup Range(posted[c]) \cup ({busy[c]} \ {None})
            BY <5>3, <6>2, <6>3
          <6> QED
            BY <1>4, <6>4 DEF UnderWay
        <5> QED
          BY <1>3, <1>7, <5>1, <5>2, <5>4 DEF Settled, Of
      <4>2. F[t][n] \in Stages
        BY <1>4, <3>4
      <4>3. \A st \in Stages \ {"none"} : F[t][n] # st
        BY <1>4, <3>4, <4>1 DEF Staged
      <4> QED
        BY <4>2, <4>3
    <3>6. Work(m) /\ StageOf(m) = o /\ o \in Stages \ {"none"} /\ o \in Stages
      BY <1>6 DEF Work, StageOf, Stages
    <3>7. NoneAlike(wire[c], posted[c], busy[c], m)
      BY <1>4, <1>6, <3>4, <3>5, Free
    <3>8. /\ Single(wire'[c], posted[c], busy[c])
          /\ IsOneMore(wire[c], posted[c], busy[c], wire'[c], posted[c], busy[c], o, m)
      BY <1>6, <3>1, <3>2, <3>6, <3>7, Arrives
    <3>9. PICK F1 : IsMarked(F, F1, t, n, o)
      BY <1>4, <3>4, <3>6, Marked
    <3>10. Staged(wire'[c], posted[c], busy[c], F1)
      BY <1>4, <1>6, <3>4, <3>5, <3>6, <3>8, <3>9, OneMoreStaged
    <3>11. PICK l : l = links[c][n]
      OBVIOUS
    <3>12. /\ l \in Seq(EventLink) /\ asked[p][n] \in Nat
           /\ Sound(l, t, "none") /\ Counted(l, t, "none", asked[p][n])
      BY <1>1, <1>4, <1>7, <1>8, <3>3, <3>5, <3>11 DEF InTurn, Sounds, Counts, TypeOK
    <3>13. Sound(l, t, o) /\ Counted(l, t, o, a)
      <4>1. CASE o = "link"
        BY <1>9, <3>12, <4>1, Stated
      <4>2. CASE o = "unlink"
        <5>1. asked[p][n] > 0 /\ asked[p][n] # 0
          BY <1>7, <3>12, <4>2
        <5>2. a = asked[p][n] - 1
          BY <1>9, <4>2, <5>1
        <5> QED
          BY <3>12, <4>2, <5>1, <5>2, Stated
      <4> QED
        BY <4>1, <4>2
    <3>14. ASSUME NEW u \in Clients, NEW k \in Names
           PROVE  /\ Sound(links[c][k], u, F1[u][k])
                  /\ <<c, u>> \in Pairs =>
                        Counted(links[c][k], u, F1[u][k], asked'[<<c, u>>][k])
      <4>1. /\ Sound(links[c][k], u, F[u][k])
            /\ <<c, u>> \in Pairs =>
                  Counted(links[c][k], u, F[u][k], asked[<<c, u>>][k])
        BY <1>7, <3>3 DEF InTurn, Sounds, Counts
      <4>2. CASE u = t /\ k = n
        <5>1. F1[u][k] = o /\ links[c][k] = l /\ <<c, u>> = p
          BY <1>4, <3>9, <3>11, <4>2 DEF IsMarked
        <5> QED
          BY <1>10, <3>13, <4>2, <5>1
      <4>3. CASE ~(u = t /\ k = n)
        <5>1. F1[u][k] = F[u][k]
          BY <3>9, <4>3 DEF IsMarked
        <5>2. <<c, u>> \in Pairs => asked'[<<c, u>>][k] = asked[<<c, u>>][k]
          <6>1. <<c, u>> = p <=> u = t
            BY <1>4
          <6> QED
            BY <1>10, <4>3, <6>1
        <5> QED
          BY <4>1, <5>1, <5>2
      <4> QED
        BY <4>2, <4>3
    <3>15. Sounds(links'[c], F1) /\ Counts(c, links'[c], F1, asked')
      BY <1>7, <3>14 DEF Sounds, Counts
    <3>16. Staged(wire'[c], posted'[c], busy'[c], F1) /\ Single(wire'[c], posted'[c], busy'[c])
      BY <1>7, <3>8, <3>10
    <3>17. InTurn(c, F1)'
      BY <3>15, <3>16 DEF InTurn
    <3> QED
      BY <3>16, <3>17 DEF Turn
  <2> QED
    BY <2>1, <2>2
<1>14. Calm'
  <2>1. IsSent(wire, wire', c, m)
    BY <1>4, <1>6, <1>7, <1>8, SendToFields
  <2>2. \A d \in Clients : \A x : In(wire'[d], x) => In(wire[d], x) \/ x.op # "terminate"
    BY <1>6, <2>1 DEF IsSent
  <2> QED
    BY <1>1, <1>7, <2>2, CalmKept DEF Rest
<1>15. \A d \in Clients : Turn(d)'
  BY <1>1, <1>4, <1>7, <1>12, <1>13, TurnsKept
<1> QED
  BY <1>1, <1>7, <1>14, <1>15 DEF Rest

LEMMA OthersKeptRefl == \A l, t : OthersKept(l, l, t)
  BY DEF OthersKept

\* The links are as before, and so is the stage, or the interpreter ends.
LEMMA SameLinksStep ==
    ASSUME NEW c \in Clients, NEW F, InTurn(c, F), NEW n \in Names, NEW t \in Clients,
           F[t][n] = "rdv", links' = links,
           NEW st \in {"rdv", "none"}, up' => up /\ st = "rdv"
    PROVE  IsStep(c, F, n, t, st)
<1>1. OnlyLinks(c, n, t)
  BY OthersKeptRefl DEF OnlyLinks
<1>2. Sound(links[c][n], t, "rdv")
  BY DEF InTurn, Sounds
<1>3. Sound(links[c][n], t, st)
  BY <1>2 DEF Sound
<1> QED
  BY <1>1, <1>3 DEF IsStep

LEMMA RendezvousRest ==
    ASSUME KInv, NEW c \in Clients, Rendezvous(c)
    PROVE  Rest'
<1>1. TypeOK /\ Rest
  BY DEF KInv, IInv
<1>2. PICK T : Agreed(T)
  BY DEF KInv, IInv
<1>3. PICK m : m = Head(posted[c])
  OBVIOUS
<1>4. posted[c] # << >> /\ posted' = [posted EXCEPT ![c] = Tail(posted[c])] /\ up
  BY DEF Rendezvous
<1>5. IsFewer(posted, posted') /\ In(posted[c], m) /\ m \in Message
  BY <1>1, <1>3, <1>4, ReadFields DEF TypeOK
<1>6. InPosted(m, c, socks, T, alive, sources)
  BY <1>2, <1>5 DEF Agreed, Mail
<1>7. m.src = c /\ m.snk \in Clients /\ m.name \in Names
  BY <1>5, <1>6, MessageFields DEF InPosted
<1>8. /\ UNCHANGED <<links, sinks, sources, busy, socks, alive, known>>
      /\ UNCHANGED <<asked, nstmt, nlost, lost>>
  BY DEF Rendezvous, clientVars, scriptVars
<1>9. /\ posted'[c] = Tail(posted[c]) /\ posted[c] \in Seq(Message)
      /\ \A d \in Clients : d # c => posted'[d] = posted[d]
  BY <1>1, <1>4 DEF TypeOK
<1>10. ASSUME alive[c]
       PROVE  \E F, F0 : /\ InTurn(c, F) /\ F[m.snk][m.name] = "rdv"
                         /\ IsMarked(F, F0, m.snk, m.name, "none")
                         /\ Staged(wire[c], posted'[c], busy[c], F0)
                         /\ Single(wire[c], posted'[c], busy[c])
                         /\ NoneAlike(wire[c], posted'[c], busy[c], m)
  <2>1. Single(wire[c], posted[c], busy[c])
    BY <1>1, <1>10 DEF Rest, Turn
  <2>2. PICK F : InTurn(c, F)
    BY <1>1, <1>10 DEF Rest, Turn
  <2>3. Staged(wire[c], posted[c], busy[c], F) /\ F \in [Clients -> [Names -> Stages]]
    BY <2>2 DEF InTurn, Staged
  <2>4. "none" \in Stages /\ "rdv" \in Stages \ {"none"}
    BY DEF Stages
  <2>5. PICK F0 : IsMarked(F, F0, m.snk, m.name, "none")
    BY <1>7, <2>3, <2>4, Marked
  <2>6. PICK w, p, p1, b : w = wire[c] /\ p = posted[c] /\ p1 = posted'[c] /\ b = busy[c]
    OBVIOUS
  <2>7. /\ Single(w, p1, b) /\ NoneAlike(w, p1, b, m)
        /\ IsOneMore(w, p1, b, w, p, b, "rdv", m)
    BY <1>3, <1>4, <1>9, <2>1, <2>6, Asked
  <2>8. Staged(w, p1, b, F0) /\ F[m.snk][m.name] = "rdv"
    <3>1. Staged(w, p, b, F)
      BY <2>3, <2>6
    <3> QED
      BY <1>5, <1>7, <2>4, <2>5, <2>7, <3>1, OneLessStaged
  <2> QED
    BY <2>2, <2>5, <2>6, <2>7, <2>8
<1>11. CASE {m.src, m.snk} \subseteq known
  <2>1. PICK x, y : x = [m EXCEPT !.op = "orig"] /\ y = [m EXCEPT !.op = "resp"]
    OBVIOUS
  <2>2. /\ x \in Message /\ x.op = "orig" /\ x.snk = m.snk /\ x.name = m.name
    BY <1>5, <2>1, OpMessage
  <2>3. y \in Message /\ y.op = "resp"
    BY <1>5, <2>1, OpMessage
  <2>4. Work(x) /\ StageOf(x) = "rdv" /\ ~Work(y) /\ Alike(x, m)
    BY <2>2, <2>3 DEF Work, StageOf, Alike
  <2>5. PICK v : v = SendTo(wire, c, x)
    OBVIOUS
  <2>6. wire' = SendTo(v, m.snk, y) /\ up' = up
    BY <1>3, <1>7, <1>11, <2>1, <2>5 DEF Rendezvous
  <2>7. wire \in [Clients -> Seq(Message)]
    BY <1>1 DEF TypeOK
  <2>8. IsSent(wire, v, c, x)
    BY <2>2, <2>5, <2>7, SendToFields
  <2>9. v \in [Clients -> Seq(Message)]
    BY <2>8 DEF IsSent
  <2>10. IsSent(v, wire', m.snk, y)
    BY <1>7, <2>3, <2>6, <2>9, SendToFields
  <2>11. \A d \in Clients : d # c => v[d] = wire[d]
    BY <2>5, <2>7 DEF SendTo
  <2>12. ASSUME NEW d \in Clients PROVE IsSameWork(v[d], wire'[d])
    <3>1. v[d] \in Seq(Message)
      BY <2>9
    <3>2. wire'[d] = v[d] \/ wire'[d] = Append(v[d], y)
      BY <2>6, <2>9 DEF SendTo
    <3> QED
      BY <2>3, <2>4, <3>1, <3>2, SameWorkRefl, SameWorkPush
  <2>13. OthersSame(c)
    <3>1. \A d : SameAsked(d)
      BY <1>8, SameAskedAll
    <3> QED
      BY <1>8, <1>9, <2>11, <2>12, <3>1 DEF OthersSame
  <2>14. Turn(c)'
    <3>1. CASE ~alive[c]
      BY <1>8, <3>1 DEF Turn
    <3>2. CASE alive[c]
      <4>1. PICK F, F0 : /\ InTurn(c, F) /\ F[m.snk][m.name] = "rdv"
                         /\ IsMarked(F, F0, m.snk, m.name, "none")
                         /\ Staged(wire[c], posted'[c], busy[c], F0)
                         /\ Single(wire[c], posted'[c], busy[c])
                         /\ NoneAlike(wire[c], posted'[c], busy[c], m)
        BY <1>10, <3>2
      <4>2. wire[c] \in Seq(Message) /\ v[c] = Append(wire[c], x)
        BY <2>5, <2>7, <3>2 DEF SendTo
      <4>3. NoneAlike(wire[c], posted'[c], busy[c], x)
        BY <2>2, <4>1 DEF NoneAlike, Alike
      <4>4. /\ Single(v[c], posted'[c], busy[c])
            /\ IsOneMore(wire[c], posted'[c], busy[c], v[c], posted'[c], busy[c], "rdv", x)
        <5>1. PICK w1 : w1 = v[c]
          OBVIOUS
        <5>2. /\ Single(w1, posted'[c], busy[c])
              /\ IsOneMore(wire[c], posted'[c], busy[c], w1, posted'[c], busy[c], StageOf(x), x)
          BY <2>2, <2>4, <4>1, <4>2, <4>3, <5>1, Arrives
        <5> QED
          BY <2>4, <5>1, <5>2
      <4>5. IsStep(c, F, m.name, m.snk, "rdv")
        BY <1>7, <1>8, <2>6, <4>1, SameLinksStep
      <4>6. PICK w, p, b, w1 : w = wire[c] /\ p = posted'[c] /\ b = busy[c] /\ w1 = v[c]
        OBVIOUS
      <4>7. /\ Staged(w, p, b, F0) /\ Single(w1, posted'[c], busy'[c])
            /\ IsOneMore(w, p, b, w1, posted'[c], busy'[c], "rdv", x)
            /\ IsSameWork(w1, wire'[c])
        BY <1>8, <2>12, <4>1, <4>4, <4>6
      <4> QED
        BY <1>1, <1>5, <1>7, <1>8, <2>2, <2>4, <4>1, <4>5, <4>7, GoesOnTurn
    <3> QED
      BY <3>1, <3>2
  <2>15. Calm'
    <3>1. \A d \in Clients : \A z : In(wire'[d], z) => In(wire[d], z) \/ z.op # "terminate"
      BY <2>2, <2>3, <2>8, <2>10 DEF IsSent
    <3> QED
      BY <1>1, <1>8, <2>6, <3>1, CalmKept DEF Rest
  <2>16. \A d \in Clients : Turn(d)'
    BY <1>1, <2>6, <2>13, <2>14, TurnsKept
  <2> QED
    BY <1>1, <1>8, <2>15, <2>16 DEF Rest
<1>12. CASE ~({m.src, m.snk} \subseteq known)
  <2>1. up' = FALSE /\ wire' = wire
    BY <1>3, <1>12 DEF Rendezvous
  <2>2. Turn(c)'
    <3>1. CASE ~alive[c]
      BY <1>8, <3>1 DEF Turn
    <3>2. CASE alive[c]
      <4>1. PICK F, F0 : /\ InTurn(c, F) /\ F[m.snk][m.name] = "rdv"
                         /\ IsMarked(F, F0, m.snk, m.name, "none")
                         /\ Staged(wire[c], posted'[c], busy[c], F0)
                         /\ Single(wire[c], posted'[c], busy[c])
        BY <1>10, <3>2
      <4>2. IsStep(c, F, m.name, m.snk, "none")
        BY <1>7, <1>8, <2>1, <4>1, SameLinksStep
      <4>3. /\ Staged(wire'[c], posted'[c], busy'[c], F0)
            /\ Single(wire'[c], posted'[c], busy'[c])
        BY <1>8, <2>1, <4>1
      <4> QED
        BY <1>1, <1>5, <1>7, <1>8, <4>1, <4>2, <4>3, DoneTurn
    <3> QED
      BY <3>1, <3>2
  <2>3. OthersSame(c)
    <3>1. \A d : SameAsked(d)
      BY <1>8, SameAskedAll
    <3> QED
      BY <1>8, <1>9, <2>1, <3>1, SameWorkRefl DEF OthersSame
  <2>4. Calm'
    <3>1. nlost # 0
      BY <1>1, <1>7, <1>12 DEF Rest, Calm
    <3> QED
      BY <1>8, <3>1 DEF Calm
  <2>5. \A d \in Clients : Turn(d)'
    BY <1>1, <2>1, <2>2, <2>3, TurnsKept
  <2> QED
    BY <1>1, <1>8, <2>4, <2>5 DEF Rest
<1> QED
  BY <1>11, <1>12

LEMMA DropRest ==
    ASSUME KInv, NEW c \in Clients, Drop(c)
    PROVE  Rest'
<1>1. TypeOK /\ Rest
  BY DEF KInv, IInv
<1>2. PICK m : m = [op |-> "terminate", src |-> c, snk |-> c, name |-> "any", sock |-> 0]
  OBVIOUS
<1>3. m \in Message /\ ~Work(m)
  BY <1>2 DEF Message, Work
<1>4. wire' = SendTo(wire, c, m) /\ wire \in [Clients -> Seq(Message)]
  BY <1>1, <1>2 DEF Drop, TypeOK
<1>5. /\ UNCHANGED <<posted, links, sinks, sources, busy, socks, alive, up>>
      /\ UNCHANGED <<asked, nstmt, lost>> /\ nlost' = nlost + 1 /\ nlost \in Nat
  BY <1>1 DEF Drop, clientVars, scriptVars, TypeOK
<1>6. ASSUME NEW d \in Clients PROVE Turn(d)'
  <2>1. wire[d] \in Seq(Message) /\ (wire'[d] = wire[d] \/ wire'[d] = Append(wire[d], m))
    BY <1>4 DEF SendTo
  <2>2. IsSameWork(wire[d], wire'[d])
    BY <1>3, <2>1, SameWorkRefl, SameWorkPush
  <2>3. Turn(d) /\ SameAsked(d)
    BY <1>1, <1>5, SameAskedAll DEF Rest
  <2> QED
    BY <1>5, <2>2, <2>3, OtherTurn
<1>7. nlost' # 0
  BY <1>5
<1>8. Calm'
  BY <1>7 DEF Calm
<1> QED
  BY <1>1, <1>5, <1>6, <1>8 DEF Rest

\* Of a reading client the others notice nothing but that.
LEMMA ReadOthers ==
    ASSUME TypeOK, NEW c \in Clients, NEW o, Read(c, o), UNCHANGED asked,
           \A d \in Clients : d # c => /\ posted'[d] = posted[d] /\ busy'[d] = busy[d]
                                       /\ links'[d] = links[d] /\ alive'[d] = alive[d]
    PROVE  OthersSame(c)
<1>1. \A d \in Clients : d # c => wire'[d] = wire[d]
  BY ReadPool
<1>2. \A d : SameAsked(d)
  BY SameAskedAll
<1> QED
  BY <1>1, <1>2, SameWorkRefl DEF OthersSame

LEMMA HasApart ==
    ASSUME NEW l, NEW t, NEW k \in Has(l, t, FALSE)
    PROVE  k \notin Has(l, t, TRUE)
  BY DEF Has

LEMMA CalmRead ==
    ASSUME TypeOK, Calm, UNCHANGED <<nlost, up, known, alive>>, IsFewer(wire, wire')
    PROVE  Calm'
<1>1. \A d \in Clients : \A m : In(wire'[d], m) => In(wire[d], m) \/ m.op # "terminate"
  BY DEF IsFewer
<1> QED
  BY <1>1, CalmKept

LEMMA BuildLinkRest ==
    ASSUME KInv, NEW c \in Clients, BuildLink(c)
    PROVE  Rest'
<1>1. TypeOK /\ Rest
  BY DEF KInv, IInv
<1>2. PICK T : Agreed(T)
  BY DEF KInv, IInv
<1>3. PICK m : m = Head(wire[c])
  OBVIOUS
<1>4. /\ m \in Message /\ m.op = "link" /\ alive[c] = TRUE /\ busy[c] = None
      /\ InWire(m, c, socks, T, alive, sources) /\ IsFewer(wire, wire')
      /\ Read(c, "link")
  BY <1>1, <1>2, <1>3, ReadStep DEF BuildLink
<1>5. m.name \in Names /\ m.src = c /\ m.snk \in Clients
  BY <1>4, MessageFields DEF InWire
<1>6. PICK t, n, fd : t = m.snk /\ n = m.name /\ fd = sinks[c][m.snk]
  OBVIOUS
<1>7. /\ UNCHANGED <<sinks, sources, busy, alive, known, up>>
      /\ UNCHANGED <<asked, nstmt, nlost, lost>>
  BY DEF BuildLink, scriptVars
<1>8. PICK l, l1 : l = links[c][n] /\ l1 = links'[c][n]
  OBVIOUS
<1>9. Matching(c, m, FALSE) = Has(l, t, FALSE)
  BY <1>1, <1>4, <1>5, <1>6, <1>8, MatchingHas
<1>10. fd \in Nat
  BY <1>1, <1>5, <1>6 DEF TypeOK
<1>11. Work(m) /\ StageOf(m) = "link"
  BY <1>4 DEF Work, StageOf
<1>12. PICK w1 : w1 = wire'[c]
  OBVIOUS
<1>13. Turn(c)
  BY <1>1 DEF Rest
<1>14. Calm'
  BY <1>1, <1>4, <1>7, CalmRead DEF Rest
<1>15. CASE Has(l, t, FALSE) # {} \/ fd # 0
  <2>1. UNCHANGED <<socks, posted>>
    BY <1>3, <1>6, <1>9, <1>15 DEF BuildLink
  <2>2. PICK F, F0 : /\ InTurn(c, F) /\ F \in [Clients -> [Names -> Stages]]
                     /\ F[m.snk][m.name] = StageOf(m)
                     /\ IsMarked(F, F0, m.snk, m.name, "none")
                     /\ Staged(w1, posted[c], None, F0)
                     /\ Single(w1, posted[c], None)
    BY <1>1, <1>3, <1>4, <1>5, <1>11, <1>12, <1>13, TakenUp
  <2>3. Sound(l, t, "link")
    BY <1>5, <1>6, <1>8, <1>11, <2>2 DEF InTurn, Sounds
  <2>4. Bare(l, t) = {}
    BY <2>3 DEF Sound
  <2>5. /\ l \in Seq(EventLink) /\ OnlyLinks(c, n, t)
        /\ \E k : /\ IsTurned(l, l1, t, k, TRUE, FALSE) /\ k \notin Has(l, t, TRUE)
                  /\ Bare(l1, t) = {}
    <3>1. CASE Has(l, t, FALSE) # {}
      <4>1. AddOutputLink(c, m, FALSE, 0, TRUE)
        BY <1>3, <1>9, <3>1 DEF BuildLink
      <4>2. /\ l \in Seq(EventLink) /\ OnlyLinks(c, n, t)
            /\ IsFound(l, l1, t, FALSE, 0, TRUE, FALSE)
        BY <1>1, <1>4, <1>5, <1>6, <1>8, <3>1, <4>1, AddOutputLinkFields
      <4> QED
        BY <2>4, <4>2, HasApart DEF IsFound
    <3>2. CASE Has(l, t, FALSE) = {}
      <4>1. fd # 0 /\ AddOutputLink(c, m, FALSE, fd, TRUE)
        BY <1>3, <1>6, <1>9, <1>15, <3>2 DEF BuildLink
      <4>2. /\ l \in Seq(EventLink) /\ OnlyLinks(c, n, t)
            /\ IsAdded(l, l1, t, fd, TRUE, FALSE)
        BY <1>1, <1>4, <1>5, <1>6, <1>8, <1>10, <3>2, <4>1, AddOutputLinkFields
      <4> QED
        BY <2>4, <4>1, <4>2 DEF IsAdded
    <3> QED
      BY <3>1, <3>2
  <2>6. PICK k : /\ IsTurned(l, l1, t, k, TRUE, FALSE) /\ k \notin Has(l, t, TRUE)
                 /\ Bare(l1, t) = {}
    BY <2>5
  <2>7. /\ Sound(l1, t, "none")
        /\ \A x \in Nat : Counted(l, t, "link", x) => Counted(l1, t, "none", x)
    BY <2>5, <2>6, Activated
  <2>8. IsStep(c, F, m.name, m.snk, "none")
    BY <1>6, <1>7, <1>8, <1>11, <2>2, <2>5, <2>7 DEF IsStep
  <2>9. /\ Staged(wire'[c], posted'[c], busy'[c], F0)
        /\ Single(wire'[c], posted'[c], busy'[c])
    BY <1>4, <1>7, <1>12, <2>1, <2>2
  <2>10. Turn(c)'
    BY <1>1, <1>4, <1>5, <1>7, <2>2, <2>8, <2>9, DoneTurn
  <2>11. OthersSame(c)
    <3>1. \A d \in Clients : d # c => /\ posted'[d] = posted[d] /\ busy'[d] = busy[d]
                                      /\ links'[d] = links[d] /\ alive'[d] = alive[d]
      BY <1>7, <2>1, <2>5 DEF OnlyLinks
    <3> QED
      BY <1>1, <1>4, <1>7, <3>1, ReadOthers
  <2>12. \A d \in Clients : Turn(d)'
    BY <1>1, <1>7, <2>10, <2>11, TurnsKept
  <2> QED
    BY <1>1, <1>7, <1>14, <2>12 DEF Rest
<1>16. CASE Has(l, t, FALSE) = {} /\ fd = 0
  <2>1. PICK k, x : k = Len(socks) + 1 /\ x = [m EXCEPT !.sock = k]
    OBVIOUS
  <2>2. /\ posted' = [posted EXCEPT ![c] = Append(posted[c], x)]
        /\ AddOutputLink(c, m, FALSE, 0, FALSE)
    BY <1>3, <1>6, <1>9, <1>16, <2>1 DEF BuildLink
  <2>3. k \in Nat
    BY <1>1, <2>1 DEF TypeOK
  <2>4. x \in Message /\ x.snk = m.snk /\ x.name = m.name /\ x.op = "link"
    BY <1>4, <2>1, <2>3, SockMessage
  <2>5. /\ posted[c] \in Seq(Message) /\ posted'[c] = Append(posted[c], x)
        /\ \A d \in Clients : d # c => posted'[d] = posted[d]
    BY <1>1, <2>2 DEF TypeOK
  <2>6. PICK F, F0 : /\ InTurn(c, F) /\ F \in [Clients -> [Names -> Stages]]
                     /\ F[m.snk][m.name] = StageOf(m)
                     /\ IsMarked(F, F0, m.snk, m.name, "none")
                     /\ Staged(w1, posted[c], None, F0)
                     /\ Single(w1, posted[c], None)
                     /\ NoneAlike(w1, posted[c], None, m)
    BY <1>1, <1>3, <1>4, <1>5, <1>11, <1>12, <1>13, TakenUp
  <2>7. Sound(l, t, "link")
    BY <1>5, <1>6, <1>8, <1>11, <2>6 DEF InTurn, Sounds
  <2>8. Bare(l, t) = {}
    BY <2>7 DEF Sound
  <2>9. /\ OnlyLinks(c, n, t) /\ IsAdded(l, l1, t, 0, FALSE, TRUE)
    BY <1>1, <1>4, <1>5, <1>6, <1>8, <1>16, <2>2, AddOutputLinkFields
  <2>10. PICK j : /\ IsTurned(l, l1, t, j, FALSE, TRUE) /\ j \notin Has(l, t, TRUE)
                  /\ Bare(l1, t) = Bare(l, t) \cup {j}
    BY <2>9 DEF IsAdded
  <2>11. /\ Sound(l1, t, "rdv")
         /\ \A z \in Nat : Counted(l, t, "link", z) => Counted(l1, t, "rdv", z)
    BY <1>16, <2>8, <2>10, Awaiting
  <2>12. IsStep(c, F, m.name, m.snk, "rdv")
    BY <1>6, <1>7, <1>8, <1>11, <2>6, <2>9, <2>11 DEF IsStep
  <2>13. NoneAlike(w1, posted[c], None, x) /\ Alike(x, m)
    BY <2>4, <2>6 DEF NoneAlike, Alike
  <2>14. PICK p, p1 : p = posted[c] /\ p1 = posted'[c]
    OBVIOUS
  <2>15. Single(w1, p1, None) /\ IsOneMore(w1, p, None, w1, p1, None, "rdv", x)
    BY <2>4, <2>5, <2>6, <2>13, <2>14, Asks
  <2>16. /\ Staged(w1, p, None, F0) /\ Single(w1, posted'[c], busy'[c])
         /\ IsOneMore(w1, p, None, w1, posted'[c], busy'[c], "rdv", x)
         /\ IsSameWork(w1, wire'[c])
    BY <1>4, <1>7, <1>12, <2>6, <2>14, <2>15, SameWorkRefl
  <2>17. Turn(c)'
    BY <1>1, <1>4, <1>5, <1>7, <2>4, <2>6, <2>12, <2>13, <2>16, GoesOnTurn
  <2>18. OthersSame(c)
    <3>1. \A d \in Clients : d # c => /\ posted'[d] = posted[d] /\ busy'[d] = busy[d]
                                      /\ links'[d] = links[d] /\ alive'[d] = alive[d]
      BY <1>7, <2>5, <2>9 DEF OnlyLinks
    <3> QED
      BY <1>1, <1>4, <1>7, <3>1, ReadOthers
  <2>19. \A d \in Clients : Turn(d)'
    BY <1>1, <1>7, <2>17, <2>18, TurnsKept
  <2> QED
    BY <1>1, <1>7, <1>14, <2>19 DEF Rest
<1> QED
  BY <1>15, <1>16

LEMMA UnlinkSinkRest ==
    ASSUME KInv, NEW c \in Clients, UnlinkSink(c)
    PROVE  Rest'
<1>1. TypeOK /\ Rest
  BY DEF KInv, IInv
<1>2. PICK T : Agreed(T)
  BY DEF KInv, IInv
<1>3. PICK m : m = Head(wire[c])
  OBVIOUS
<1>4. /\ m \in Message /\ m.op = "unlink" /\ busy[c] = None
      /\ InWire(m, c, socks, T, alive, sources) /\ IsFewer(wire, wire')
      /\ Read(c, "unlink")
  BY <1>1, <1>2, <1>3, ReadStep DEF UnlinkSink
<1>5. m.name \in Names /\ m.snk \in Clients
  BY <1>4, MessageFields DEF InWire
<1>6. PICK t, n : t = m.snk /\ n = m.name
  OBVIOUS
<1>7. /\ UNCHANGED <<posted, sinks, sources, busy, socks, alive, known, up>>
      /\ UNCHANGED <<asked, nstmt, nlost, lost>>
  BY DEF UnlinkSink, scriptVars
<1>8. PICK l, l1, w1 : l = links[c][n] /\ l1 = links'[c][n] /\ w1 = wire'[c]
  OBVIOUS
<1>9. Work(m) /\ StageOf(m) = "unlink"
  BY <1>4 DEF Work, StageOf
<1>10. Turn(c)
  BY <1>1 DEF Rest
<1>11. PICK F, F0 : /\ InTurn(c, F) /\ F \in [Clients -> [Names -> Stages]]
                    /\ F[m.snk][m.name] = StageOf(m)
                    /\ IsMarked(F, F0, m.snk, m.name, "none")
                    /\ Staged(w1, posted[c], None, F0)
                    /\ Single(w1, posted[c], None)
  BY <1>1, <1>3, <1>4, <1>5, <1>8, <1>9, <1>10, TakenUp
<1>12. Sound(l, t, "unlink")
  BY <1>5, <1>6, <1>8, <1>9, <1>11 DEF InTurn, Sounds
<1>13. Bare(l, t) = {} /\ Has(l, t, TRUE) # {}
  BY <1>12 DEF Sound
<1>14. AddOutputLink(c, m, TRUE, 0, FALSE)
  BY <1>3 DEF UnlinkSink
<1>15. /\ l \in Seq(EventLink) /\ OnlyLinks(c, n, t)
       /\ IsFound(l, l1, t, TRUE, 0, FALSE, TRUE)
  BY <1>1, <1>4, <1>5, <1>6, <1>8, <1>13, <1>14, AddOutputLinkFields
<1>16. PICK k : /\ IsTurned(l, l1, t, k, FALSE, TRUE) /\ k \in Has(l, t, TRUE)
                /\ Bare(l1, t) = {}
  BY <1>13, <1>15 DEF IsFound
<1>17. /\ Sound(l1, t, "none")
       /\ \A x \in Nat : Counted(l, t, "unlink", x) => Counted(l1, t, "none", x)
  BY <1>15, <1>16, Deactivated
<1>18. IsStep(c, F, m.name, m.snk, "none")
  BY <1>6, <1>7, <1>8, <1>9, <1>11, <1>15, <1>17 DEF IsStep
<1>19. /\ Staged(wire'[c], posted'[c], busy'[c], F0)
       /\ Single(wire'[c], posted'[c], busy'[c])
  BY <1>4, <1>7, <1>8, <1>11
<1>20. Turn(c)'
  BY <1>1, <1>4, <1>5, <1>7, <1>11, <1>18, <1>19, DoneTurn
<1>21. OthersSame(c)
  <2>1. \A d \in Clients : d # c => /\ posted'[d] = posted[d] /\ busy'[d] = busy[d]
                                    /\ links'[d] = links[d] /\ alive'[d] = alive[d]
    BY <1>7, <1>15 DEF OnlyLinks
  <2> QED
    BY <1>1, <1>4, <1>7, <2>1, ReadOthers
<1>22. \A d \in Clients : Turn(d)'
  BY <1>1, <1>7, <1>20, <1>21, TurnsKept
<1>23. Calm'
  BY <1>1, <1>4, <1>7, CalmRead DEF Rest
<1> QED
  BY <1>1, <1>7, <1>22, <1>23 DEF Rest

\* The one link that waits for a connection gets it.
LEMMA Connects ==
    ASSUME TypeOK, NEW c \in Clients, NEW m \in Message, m.name \in Names,
           NEW fd \in Nat, fd # 0, AddOutputLink(c, m, FALSE, fd, TRUE),
           Sound(links[c][m.name], m.snk, "rdv"), NEW F, F[m.snk][m.name] = "rdv",
           UNCHANGED up
    PROVE  IsStep(c, F, m.name, m.snk, "none")
<1>1. PICK t, n : t = m.snk /\ n = m.name
  OBVIOUS
<1>2. PICK l, l1 : l = links[c][n] /\ l1 = links'[c][n]
  OBVIOUS
<1>3. PICK i \in Bare(l, t) : Bare(l, t) = {i} /\ Has(l, t, FALSE) = {i}
  BY <1>1, <1>2 DEF Sound
<1>4. /\ l \in Seq(EventLink) /\ OnlyLinks(c, n, t)
      /\ IsFound(l, l1, t, FALSE, fd, TRUE, FALSE)
  BY <1>1, <1>2, <1>3, AddOutputLinkFields
<1>5. PICK k \in Has(l, t, FALSE) : /\ IsTurned(l, l1, t, k, TRUE, FALSE)
                                    /\ Bare(l1, t) = Bare(l, t) \ {k}
  BY <1>4 DEF IsFound
<1>6. k \notin Has(l, t, TRUE) /\ Bare(l1, t) = {}
  BY <1>3, <1>5, HasApart
<1>7. "rdv" \in {"link", "rdv"}
  OBVIOUS
<1>8. /\ Sound(l1, t, "none")
      /\ \A x \in Nat : Counted(l, t, "rdv", x) => Counted(l1, t, "none", x)
  BY <1>4, <1>5, <1>6, <1>7, Activated
<1> QED
  BY <1>1, <1>2, <1>4, <1>8 DEF IsStep

LEMMA RendezvousAsOriginatorRest ==
    ASSUME KInv, NEW c \in Clients, RendezvousAsOriginator(c)
    PROVE  Rest'
<1>1. TypeOK /\ Rest
  BY DEF KInv, IInv
<1>2. PICK T : Agreed(T)
  BY DEF KInv, IInv
<1>3. PICK m : m = Head(wire[c])
  OBVIOUS
<1>4. /\ m \in Message /\ m.op = "orig" /\ busy[c] = None
      /\ InWire(m, c, socks, T, alive, sources) /\ IsFewer(wire, wire')
      /\ Read(c, "orig")
  BY <1>1, <1>2, <1>3, ReadStep DEF RendezvousAsOriginator
<1>5. m.name \in Names /\ m.snk \in Clients
  BY <1>4, MessageFields DEF InWire
<1>6. PICK fd, w1 : fd = sinks[c][m.snk] /\ w1 = wire'[c]
  OBVIOUS
<1>7. UNCHANGED <<posted, known, up, asked, nstmt, nlost, lost>>
  BY DEF RendezvousAsOriginator, scriptVars
<1>8. Work(m) /\ StageOf(m) = "rdv"
  BY <1>4 DEF Work, StageOf
<1>9. Turn(c)
  BY <1>1 DEF Rest
<1>10. PICK F, F0 : /\ InTurn(c, F) /\ F \in [Clients -> [Names -> Stages]]
                    /\ F[m.snk][m.name] = StageOf(m)
                    /\ IsMarked(F, F0, m.snk, m.name, "none")
                    /\ Staged(w1, posted[c], None, F0)
                    /\ Single(w1, posted[c], None)
                    /\ NoneAlike(w1, posted[c], None, m)
  BY <1>1, <1>3, <1>4, <1>5, <1>6, <1>8, <1>9, TakenUp
<1>11. F[m.snk][m.name] = "rdv" /\ Sound(links[c][m.name], m.snk, "rdv")
  BY <1>5, <1>8, <1>10 DEF InTurn, Sounds
<1>12. Matching(c, m, FALSE) # {}
  <2>1. Has(links[c][m.name], m.snk, FALSE) # {}
    BY <1>11 DEF Sound
  <2> QED
    BY <1>1, <1>4, <1>5, <2>1, MatchingHas
<1>13. \/ /\ fd # 0 /\ AddOutputLink(c, m, FALSE, fd, TRUE)
          /\ UNCHANGED <<sinks, sources, busy, alive>>
       \/ /\ busy' = [busy EXCEPT ![c] = m]
          /\ UNCHANGED <<links, sinks, sources, socks, alive>>
  BY <1>3, <1>6, <1>12 DEF RendezvousAsOriginator
<1>14. UNCHANGED <<nlost, up, known, alive>>
  BY <1>7, <1>13
<1>15. Calm'
  BY <1>1, <1>4, <1>14, CalmRead DEF Rest
<1>16. Turn(c)' /\ OthersSame(c)
  <2>1. CASE /\ fd # 0 /\ AddOutputLink(c, m, FALSE, fd, TRUE)
             /\ UNCHANGED <<sinks, sources, busy, alive>>
    <3>1. fd \in Nat
      BY <1>1, <1>5, <1>6 DEF TypeOK
    <3>2. IsStep(c, F, m.name, m.snk, "none")
      BY <1>1, <1>4, <1>5, <1>7, <1>11, <2>1, <3>1, Connects
    <3>3. /\ Staged(wire'[c], posted'[c], busy'[c], F0)
          /\ Single(wire'[c], posted'[c], busy'[c])
      BY <1>4, <1>6, <1>7, <1>10, <2>1
    <3>4. Turn(c)'
      BY <1>1, <1>4, <1>5, <1>7, <1>10, <3>2, <3>3, DoneTurn
    <3>5. \A d \in Clients : d # c => /\ posted'[d] = posted[d] /\ busy'[d] = busy[d]
                                      /\ links'[d] = links[d] /\ alive'[d] = alive[d]
      BY <1>7, <2>1, <3>2 DEF IsStep, OnlyLinks
    <3> QED
      BY <1>1, <1>4, <1>7, <3>4, <3>5, ReadOthers
  <2>2. CASE /\ busy' = [busy EXCEPT ![c] = m]
             /\ UNCHANGED <<links, sinks, sources, socks, alive>>
    <3>1. busy'[c] = m /\ \A d \in Clients : d # c => busy'[d] = busy[d]
      BY <1>1, <2>2 DEF TypeOK
    <3>2. IsStep(c, F, m.name, m.snk, "rdv")
      BY <1>5, <1>7, <1>10, <1>11, <2>2, SameLinksStep
    <3>3. Alike(m, m) /\ IsSameWork(w1, wire'[c])
      BY <1>6, SameWorkRefl DEF Alike
    <3>4. CASE m # None
      <4>1. PICK p : p = posted[c]
        OBVIOUS
      <4>2. Single(w1, p, m) /\ IsOneMore(w1, p, None, w1, p, m, "rdv", m)
        BY <1>10, <3>4, <4>1, Enters
      <4>3. /\ Staged(w1, p, None, F0) /\ Single(w1, posted'[c], busy'[c])
            /\ IsOneMore(w1, p, None, w1, posted'[c], busy'[c], "rdv", m)
        BY <1>7, <1>10, <3>1, <4>1, <4>2
      <4>4. Turn(c)'
        BY <1>1, <1>4, <1>5, <1>7, <1>10, <3>2, <3>3, <4>3, GoesOnTurn
      <4>5. \A d \in Clients : d # c => /\ posted'[d] = posted[d] /\ busy'[d] = busy[d]
                                        /\ links'[d] = links[d] /\ alive'[d] = alive[d]
        BY <1>7, <2>2, <3>1
      <4> QED
        BY <1>1, <1>4, <1>7, <4>4, <4>5, ReadOthers
    <3> QED
      BY <1>4, <3>4, NoneAssumption
  <2> QED
    BY <1>13, <2>1, <2>2
<1>17. \A d \in Clients : Turn(d)'
  BY <1>1, <1>7, <1>16, TurnsKept
<1> QED
  BY <1>1, <1>7, <1>15, <1>17 DEF Rest

LEMMA AcceptRest ==
    ASSUME KInv, NEW c \in Clients, Accept(c)
    PROVE  Rest'
<1>1. TypeOK /\ Rest
  BY DEF KInv, IInv
<1>2. PICK T : Agreed(T)
  BY DEF KInv, IInv
<1>3. PICK m : m = busy[c]
  OBVIOUS
<1>4. /\ m # None /\ AddOutputLink(c, m, FALSE, m.sock, TRUE)
      /\ busy' = [busy EXCEPT ![c] = None]
      /\ UNCHANGED <<wire, posted, sources, alive, known, up>>
      /\ UNCHANGED <<asked, nstmt, nlost, lost>>
  BY <1>3 DEF Accept, scriptVars
<1>5. m \in Message
  BY <1>1, <1>3, <1>4 DEF TypeOK
<1>6. InBusy(m, c, socks, T)
  BY <1>2, <1>3, <1>4 DEF Agreed, Mail
<1>7. PICK k : k = m.sock
  OBVIOUS
<1>8. m.name \in Names /\ m.snk \in Clients /\ k \in Nat /\ k # 0
  <2>1. k \in 1..Len(socks) /\ m.name \in Names
    BY <1>6, <1>7 DEF InBusy, Aimed
  <2> QED
    BY <1>5, <1>7, <2>1, MessageFields
<1>9. busy'[c] = None /\ \A d \in Clients : d # c => busy'[d] = busy[d]
  BY <1>1, <1>4 DEF TypeOK
<1>10. ASSUME alive[c] PROVE Turn(c)' /\ \E F : IsStep(c, F, m.name, m.snk, "none")
  <2>1. Single(wire[c], posted[c], m)
    BY <1>1, <1>3, <1>10 DEF Rest, Turn
  <2>2. PICK F : InTurn(c, F)
    BY <1>1, <1>10 DEF Rest, Turn
  <2>3. Staged(wire[c], posted[c], m, F) /\ F \in [Clients -> [Names -> Stages]]
    BY <1>3, <2>2 DEF InTurn, Staged
  <2>4. "none" \in Stages /\ "rdv" \in Stages \ {"none"}
    BY DEF Stages
  <2>5. PICK F0 : IsMarked(F, F0, m.snk, m.name, "none")
    BY <1>8, <2>3, <2>4, Marked
  <2>6. PICK w, p : w = wire[c] /\ p = posted[c]
    OBVIOUS
  <2>7. /\ Single(w, p, None) /\ NoneAlike(w, p, None, m)
        /\ IsOneMore(w, p, None, w, p, m, "rdv", m)
    BY <1>4, <2>1, <2>6, Leaves
  <2>8. Staged(w, p, m, F)
    BY <2>3, <2>6
  <2>9. Staged(w, p, None, F0) /\ F[m.snk][m.name] = "rdv"
    BY <1>5, <1>8, <2>4, <2>5, <2>7, <2>8, OneLessStaged
  <2>10. Sound(links[c][m.name], m.snk, "rdv")
    BY <1>8, <2>2, <2>9 DEF InTurn, Sounds
  <2>11. IsStep(c, F, m.name, m.snk, "none")
    BY <1>1, <1>4, <1>5, <1>7, <1>8, <2>9, <2>10, Connects
  <2>12. /\ Staged(wire'[c], posted'[c], busy'[c], F0)
         /\ Single(wire'[c], posted'[c], busy'[c])
    BY <1>4, <1>9, <2>6, <2>7, <2>9
  <2> QED
    BY <1>1, <1>4, <1>5, <1>8, <2>2, <2>5, <2>11, <2>12, DoneTurn
<1>11. Turn(c)'
  BY <1>4, <1>10 DEF Turn
<1>12. \A d \in Clients : d # c => links'[d] = links[d]
  BY <1>1, <1>4 DEF AddOutputLink, TypeOK
<1>13. OthersSame(c)
  <2>1. \A d : SameAsked(d)
    BY <1>4, SameAskedAll
  <2> QED
    BY <1>4, <1>9, <1>12, <2>1, SameWorkRefl DEF OthersSame
<1>14. \A d \in Clients : Turn(d)'
  BY <1>1, <1>4, <1>11, <1>13, TurnsKept
<1>15. Calm'
  <2>1. IsFewer(wire, wire')
    BY <1>1, <1>4 DEF IsFewer, TypeOK
  <2> QED
    BY <1>1, <1>4, <2>1, CalmRead DEF Rest
<1> QED
  BY <1>1, <1>4, <1>14, <1>15 DEF Rest

\* A process ends that had read nothing, or what was no work, before.
LEMMA DiesRest ==
    ASSUME TypeOK, Rest, NEW c \in Clients, Dies(c), nlost' # 0,
           \A d \in Clients : d # c => wire'[d] = wire[d],
           UNCHANGED <<posted, up, asked, lost>>
    PROVE  Rest'
<1>1. /\ alive' = [alive EXCEPT ![c] = FALSE] /\ busy' = [busy EXCEPT ![c] = None]
      /\ links' = links
  BY DEF Dies
<1>2. /\ ~alive'[c]
      /\ \A d \in Clients : d # c => alive'[d] = alive[d] /\ busy'[d] = busy[d]
  BY <1>1 DEF TypeOK
<1>3. Turn(c)'
  BY <1>2 DEF Turn
<1>4. \A d : SameAsked(d)
  BY SameAskedAll
<1>5. OthersSame(c)
  BY <1>1, <1>2, <1>4, SameWorkRefl DEF OthersSame
<1>6. \A d \in Clients : Turn(d)'
  BY <1>3, <1>5, TurnsKept
<1>7. Calm'
  BY DEF Calm
<1> QED
  BY <1>6, <1>7 DEF Rest

LEMMA RendezvousAsResponderRest ==
    ASSUME KInv, NEW c \in Clients, RendezvousAsResponder(c)
    PROVE  Rest'
<1>1. TypeOK /\ Rest
  BY DEF KInv, IInv
<1>2. PICK T : Agreed(T)
  BY DEF KInv, IInv
<1>3. PICK m : m = Head(wire[c])
  OBVIOUS
<1>4. /\ m \in Message /\ m.op = "resp"
      /\ InWire(m, c, socks, T, alive, sources) /\ IsFewer(wire, wire')
      /\ Read(c, "resp")
  BY <1>1, <1>2, <1>3, ReadStep DEF RendezvousAsResponder
<1>5. m.snk = c /\ m.src \in Clients /\ Waits(m, socks, alive, sources)
  BY <1>4, MessageFields DEF InWire
<1>6. UNCHANGED <<posted, known, up, asked, nstmt, nlost, lost>>
  BY DEF RendezvousAsResponder, scriptVars
<1>7. /\ wire[c] \in Seq(Message) /\ wire[c] # << >> /\ wire'[c] = Tail(wire[c])
      /\ \A d \in Clients : d # c => wire'[d] = wire[d]
  BY <1>1, <1>4, ReadPool
<1>8. \/ UNCHANGED <<links, busy, alive>>
      \/ sources[c][m.src] = 0 /\ ~socks[m.sock].open /\ Dies(c)
  BY <1>3 DEF RendezvousAsResponder, clientVars
<1>9. CASE UNCHANGED <<links, busy, alive>>
  <2>1. ~Work(m)
    BY <1>4 DEF Work
  <2>2. IsSameWork(wire[c], wire'[c])
    BY <1>3, <1>7, <2>1, SameWorkTail
  <2>3. \A d \in Clients : IsSameWork(wire[d], wire'[d])
    BY <1>7, <2>2, SameWorkRefl
  <2>4. ASSUME NEW d \in Clients PROVE Turn(d)'
    <3>1. Turn(d) /\ SameAsked(d)
      BY <1>1, <1>6, SameAskedAll DEF Rest
    <3> QED
      BY <1>6, <1>9, <2>3, <3>1, OtherTurn
  <2>5. Calm'
    BY <1>1, <1>4, <1>6, <1>9, CalmRead DEF Rest
  <2> QED
    BY <1>1, <1>6, <2>4, <2>5 DEF Rest
<1>10. CASE sources[c][m.src] = 0 /\ ~socks[m.sock].open /\ Dies(c)
  <2>1. ~alive[m.src]
    BY <1>5, <1>10 DEF Waits
  <2>2. nlost' # 0
    BY <1>1, <1>5, <1>6, <2>1 DEF Rest, Calm
  <2> QED
    BY <1>1, <1>6, <1>7, <1>10, <2>2, DiesRest
<1> QED
  BY <1>8, <1>9, <1>10

LEMMA TerminateRest ==
    ASSUME KInv, NEW c \in Clients, Terminate(c)
    PROVE  Rest'
<1>1. TypeOK /\ Rest
  BY DEF KInv, IInv
<1>2. PICK T : Agreed(T)
  BY DEF KInv, IInv
<1>3. Dies(c) /\ UNCHANGED <<posted, known, up, asked, nstmt, nlost, lost>>
  BY DEF Terminate, scriptVars
<1>4. CASE Read(c, "terminate")
  <2>1. /\ wire[c] \in Seq(Message) /\ wire[c] # << >>
        /\ \A d \in Clients : d # c => wire'[d] = wire[d]
    BY <1>1, <1>4, ReadPool
  <2>2. In(wire[c], Head(wire[c])) /\ Head(wire[c]).op = "terminate"
    BY <1>4, <2>1, InTail DEF Read
  <2>3. nlost' # 0
    BY <1>1, <1>3, <2>2 DEF Rest, Calm
  <2> QED
    BY <1>1, <1>3, <2>1, <2>3, DiesRest
<1>5. CASE ~up /\ UNCHANGED wire
  <2>1. nlost' # 0
    BY <1>1, <1>3, <1>5 DEF Rest, Calm
  <2> QED
    BY <1>1, <1>3, <1>5, <2>1, DiesRest
<1> QED
  BY <1>4, <1>5 DEF Terminate

LEMMA CrashRest ==
    ASSUME KInv, NEW c \in Clients, Crash(c)
    PROVE  Rest'
<1>1. TypeOK /\ Rest
  BY DEF KInv, IInv
<1>2. /\ Dies(c) /\ nlost' = nlost + 1 /\ nlost \in Nat
      /\ UNCHANGED <<wire, posted, known, up, asked, nstmt, lost>>
  BY <1>1 DEF Crash, scriptVars, TypeOK
<1>3. nlost' # 0
  BY <1>2
<1> QED
  BY <1>1, <1>2, <1>3, DiesRest

\* Steps that leave alone what the invariant is about.
LEMMA QuietRest ==
    ASSUME Rest, UNCHANGED <<wire, posted, busy, links, alive, up, known, asked>>,
           UNCHANGED <<nlost, lost>>
    PROVE  Rest'
<1>1. ASSUME NEW d \in Clients PROVE Turn(d)'
  <2>1. Turn(d) /\ SameAsked(d) /\ IsSameWork(wire[d], wire'[d])
    BY SameAskedAll, SameWorkRefl DEF Rest
  <2> QED
    BY <2>1, OtherTurn
<1>2. Calm'
  BY DEF Rest, Calm
<1> QED
  BY <1>1, <1>2 DEF Rest

LEMMA PostRest ==
    ASSUME KInv, NEW c \in Clients, NEW n \in Names, Post(c, n)
    PROVE  Rest'
<1>1. TypeOK /\ Rest
  BY DEF KInv, IInv
<1>2. /\ UNCHANGED <<wire, posted, busy, links, alive, up, known, asked>>
      /\ UNCHANGED nlost /\ alive[c]
      /\ lost' = (lost \/ \E i \in DOMAIN links[c][n] :
                             links[c][n][i].active /\ links[c][n][i].fd = 0)
  BY DEF Post, clientVars, scriptVars
<1>3. PICK l : l = links[c][n]
  OBVIOUS
<1>4. l \in Seq(EventLink) /\ DOMAIN l = 1..Len(l)
  BY <1>1, <1>3 DEF TypeOK
<1>5. PICK F : InTurn(c, F)
  BY <1>1, <1>2 DEF Rest, Turn
<1>6. ASSUME NEW i \in 1..Len(l), l[i].active, l[i].fd = 0 PROVE FALSE
  <2>1. PICK t : t = l[i].snk
    OBVIOUS
  <2>2. t \in Clients /\ l[i].active \in BOOLEAN
    BY <1>4, <2>1, LinkFields
  <2>3. i \in Bare(l, t)
    BY <1>6, <2>1 DEF Bare
  <2>4. Sound(l, t, F[t][n])
    BY <1>3, <1>5, <2>2 DEF InTurn, Sounds
  <2>5. i \in Has(l, t, FALSE)
    BY <2>3, <2>4 DEF Sound
  <2> QED
    BY <1>6, <2>5 DEF Has
<1>7. ~\E i \in DOMAIN links[c][n] :
          links[c][n][i].active /\ links[c][n][i].fd = 0
  BY <1>3, <1>4, <1>6
<1>8. lost \in BOOLEAN
  BY <1>1 DEF TypeOK
<1>9. lost' = lost
  BY <1>2, <1>7, <1>8, Zenon
<1> QED
  BY <1>1, <1>2, <1>9, QuietRest

LEMMA InitKInv == Init => KInv
<1> SUFFICES ASSUME Init PROVE KInv
  OBVIOUS
<1>1. IInv
  BY InitIInv
<1>2. \A x : ~In(<< >>, x)
  BY InEmpty
<1>3. ASSUME NEW c \in Clients PROVE Turn(c)
  <2>1. wire[c] = << >> /\ posted[c] = << >> /\ busy[c] = None
    BY DEF Init
  <2>2. Apart(<< >>)
    BY DEF Apart
  <2>3. Single(wire[c], posted[c], busy[c])
    BY <1>2, <2>1, <2>2 DEF Single
  <2>4. PICK F : F = [t \in Clients |-> [n \in Names |-> "none"]]
    OBVIOUS
  <2>5. /\ F \in [Clients -> [Names -> Stages]]
        /\ \A t \in Clients, n \in Names : F[t][n] = "none"
    BY <2>4 DEF Stages
  <2>6. Staged(wire[c], posted[c], busy[c], F)
    BY <1>2, <2>1, <2>5 DEF Staged, Pending, InHand
  <2>7. ASSUME NEW t \in Clients, NEW n \in Names
        PROVE  /\ links[c][n] = << >> /\ Sound(<< >>, t, "none")
               /\ Counted(<< >>, t, "none", 0)
               /\ <<c, t>> \in Pairs => asked[<<c, t>>][n] = 0
    <3>1. Bare(<< >>, t) = {} /\ Has(<< >>, t, TRUE) = {}
      BY DEF Bare, Has
    <3>2. Sound(<< >>, t, "none")
      BY <3>1 DEF Sound
    <3>3. Cardinality(Has(<< >>, t, TRUE)) = 0
      BY <3>1, FS_EmptySet
    <3>4. Counted(<< >>, t, "none", 0)
      BY <3>1, <3>3 DEF Counted
    <3>5. links[c][n] = << >> /\ (<<c, t>> \in Pairs => asked[<<c, t>>][n] = 0)
      BY DEF Init
    <3> QED
      BY <3>2, <3>4, <3>5
  <2>8. Sounds(links[c], F) /\ Counts(c, links[c], F, asked)
    BY <2>5, <2>7 DEF Sounds, Counts
  <2> QED
    BY <2>3, <2>6, <2>8 DEF Turn, InTurn
<1>4. Calm
  BY <1>2 DEF Calm, Init
<1>5. ~lost
  BY DEF Init
<1> QED
  BY <1>1, <1>3, <1>4, <1>5 DEF KInv, Rest

LEMMA NextKInv ==
    ASSUME Orderly
    PROVE  KInv /\ [Next]_vars => KInv'
<1> SUFFICES ASSUME KInv, [Next]_vars PROVE KInv'
  OBVIOUS
<1>1. IInv'
  BY NextIInv DEF KInv
<1>2. CASE UNCHANGED vars
  BY <1>1, <1>2, QuietRest DEF KInv, vars
<1>3. ASSUME NEW p \in Pairs, NEW n \in Named[p],
             Statement("link", p, n) \/ Statement("unlink", p, n)
      PROVE  Rest'
  BY <1>3, StatementRest
<1>4. ASSUME NEW c \in Clients, Library(c) PROVE Rest'
  BY <1>4, BuildLinkRest, UnlinkSinkRest, RendezvousAsOriginatorRest, AcceptRest,
     RendezvousAsResponderRest, TerminateRest DEF Library
<1>5. ASSUME NEW c \in Clients, Rendezvous(c) \/ Drop(c) \/ Crash(c) PROVE Rest'
  BY <1>5, RendezvousRest, DropRest, CrashRest
<1>6. ASSUME NEW c \in Clients, NEW s \in Clients, LinkLost(c, s) PROVE Rest'
  <2>1. /\ UNCHANGED <<wire, posted, busy, links, alive, up, known, asked>>
        /\ UNCHANGED <<nlost, lost>>
    BY <1>6 DEF LinkLost, scriptVars
  <2> QED
    BY <2>1, QuietRest DEF KInv
<1>7. ASSUME NEW c \in Clients, NEW n \in Names, Post(c, n) PROVE Rest'
  BY <1>7, PostRest
<1> QED
  BY <1>1, <1>2, <1>3, <1>4, <1>5, <1>6, <1>7 DEF Next, KInv

\* With nothing under way every stage is "none", and no link is bare.
LEMMA KInvLinked == KInv => LinkedAsAsked
<1> SUFFICES ASSUME KInv, Quiet, nlost = 0, NEW p \in Pairs, NEW n \in Names
             PROVE  asked[p][n] = Cardinality({i \in DOMAIN links[p[1]][n] :
                                          /\ links[p[1]][n][i].snk = p[2]
                                          /\ links[p[1]][n][i].active
                                          /\ links[p[1]][n][i].fd # 0})
  BY DEF LinkedAsAsked
<1>1. TypeOK /\ Rest
  BY DEF KInv, IInv
<1>2. PICK c, t : c = p[1] /\ t = p[2]
  OBVIOUS
<1>3. c \in Clients /\ t \in Clients /\ p = <<c, t>>
  BY <1>2, PairsAssumption
<1>4. up /\ alive[c]
  BY <1>1, <1>3 DEF Rest, Calm
<1>5. PICK F : InTurn(c, F)
  BY <1>1, <1>3, <1>4 DEF Rest, Turn
<1>6. \A x : ~In(wire[c], x) /\ ~In(posted[c], x) /\ busy[c] = None
  <2>1. wire[c] \in Seq(Message) /\ posted[c] \in Seq(Message)
    BY <1>1, <1>3 DEF TypeOK
  <2>2. Range(wire[c]) \cup Range(posted[c]) \cup ({busy[c]} \ {None}) = {}
    BY <1>3 DEF Quiet, UnderWay
  <2>3. \A x : In(wire[c], x) => x \in Range(wire[c])
    BY <2>1 DEF In, Range
  <2>4. \A x : In(posted[c], x) => x \in Range(posted[c])
    BY <2>1 DEF In, Range
  <2> QED
    BY <2>2, <2>3, <2>4
<1>7. F[t][n] = "none"
  <2>1. \A st : ~Pending(wire[c], posted[c], busy[c], st, t, n)
    BY <1>6 DEF Pending, InHand
  <2>2. F[t][n] \in Stages /\ \A st \in Stages \ {"none"} : F[t][n] # st
    BY <1>3, <1>5, <2>1 DEF InTurn, Staged
  <2> QED
    BY <2>2
<1>8. PICK l : l = links[c][n]
  OBVIOUS
<1>9. Counted(l, t, "none", asked[p][n])
  BY <1>3, <1>4, <1>5, <1>7, <1>8 DEF InTurn, Counts
<1>10. Bare(l, t) = {} /\ asked[p][n] = Cardinality(Has(l, t, TRUE))
  BY <1>9 DEF Counted
<1>11. l \in Seq(EventLink) /\ DOMAIN l = 1..Len(l)
  BY <1>1, <1>3, <1>8 DEF TypeOK
<1>12. Has(l, t, TRUE) = {i \in DOMAIN l : /\ l[i].snk = t
                                           /\ l[i].active
                                           /\ l[i].fd # 0}
  <2>1. \A i \in 1..Len(l) : l[i] \in EventLink
    BY <1>11
  <2>2. \A i \in 1..Len(l) : l[i].active \in BOOLEAN
    BY <2>1, LinkFields
  <2>3. \A i \in 1..Len(l) : l[i].snk = t => l[i].fd # 0
    BY <1>10 DEF Bare
  <2> QED
    BY <1>11, <2>2, <2>3 DEF Has
<1> QED
  BY <1>2, <1>8, <1>10, <1>12

-----------------------------------------------------------------------------
(* The results.                                                            *)

\* However many links are made and unmade, in whichever order requests and
\* rendezvous are handled, and whoever is lost on the way: a client never
\* sends an event down a link that has no connection (Client.cc, SendEvent),
\* as long as the script waits for one link before it asks for it again.
THEOREM NothingEverLost ==
    ASSUME Orderly
    PROVE  Spec => []NothingLost
<1>1. KInv => NothingLost
  BY DEF KInv, Rest, NothingLost
<1> QED
  BY <1>1, InitKInv, NextKInv, PTL DEF Spec

\* When all is read and nobody was lost each link is there, and connected, as
\* often as the script asked for it, under the same condition. Without that
\* condition a link may be missing: the run Link_twice shows how.
THEOREM AlwaysLinkedAsAsked ==
    ASSUME Orderly
    PROVE  Spec => []LinkedAsAsked
<1> QED
  BY InitKInv, NextKInv, KInvLinked, PTL DEF Spec

=============================================================================
