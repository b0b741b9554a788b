---------------------------- MODULE GlishdProofs ----------------------------
(***************************************************************************)
(* Proofs about Glishd, for any users, groups, shared clients and          *)
(* connections: a daemon that asks the server takes the answer to its own  *)
(* question, and the registry follows what the users' daemons hold.        *)
(*                                                                         *)
(* Both are about what is on its way between the server and a daemon: of   *)
(* questions and answers there is one at most, and the registrations a     *)
(* daemon has posted, read in order after what the server has entered,     *)
(* come out at what the daemon has.                                        *)
(***************************************************************************)
EXTENDS Glishd, TLAPS

\* The events a dUser posts and those it is sent.
UpMsg == [ev : {"register", "client", "client-gone"}, n : Names]
           \cup [ev : {"client-up"}, n : Names \cup {Alias}]
DownMsg == [ev : {"client"}, n : Names, val : BOOLEAN]
             \cup [ev : {"reply"}, n : Names \cup {Alias}, val : BOOLEAN]

Wait == {NoWait} \cup [k : Conns, n : Names, for : {"client-up", "client"}]
          \cup [k : Conns, n : {Alias}, for : {"script"}]

Daemon == [at : {"none", "run", "gone"}, wait : Wait, master : BOOLEAN,
           clients : [Names -> Conns \cup {NoConn}]]

Req == [op : {"register", "client-up", "client"}, n : Names]
         \cup {[op |-> "terminate", n |-> ""]}

Conn == [at : {"new", "fd", "trans", "interp", "client", "closed"},
         reqs : Seq(Req), sent : Nat, gone : BOOLEAN, joined : BOOLEAN]

Owner == Users \cup {NoUser}

TypeInv ==
    /\ server \in BOOLEAN
    /\ world \in [Names -> Owner]
    /\ group \in [Groups -> [Names -> Owner]]
    /\ daemon \in [Users -> Daemon]
    /\ up \in [Users -> Seq(UpMsg)]
    /\ down \in [Users -> Seq(DownMsg)]
    /\ fds \in [Users -> Seq(Conns)]
    /\ conn \in [Conns -> Conn]

\* What a daemon's life leaves in its pipes.
LifeOf(u) ==
    /\ daemon[u].at = "none" => /\ daemon[u] = NoDaemon
                                /\ up[u] = <<>> /\ down[u] = <<>>
    /\ daemon[u].at = "gone" => down[u] = <<>>
    /\ ~server => up[u] = <<>>
    /\ server /\ daemon[u].at = "run" => daemon[u].master = TRUE

-----------------------------------------------------------------------------
(* Sequences.                                                              *)

IsPushed(s, p, x, X) ==
    /\ p \in Seq(X) /\ Len(p) = Len(s) + 1 /\ Len(s) \in Nat
    /\ p[Len(s) + 1] = x
    /\ \A i \in 1..Len(s) : p[i] = s[i]

IsTail(s, p, X) ==
    /\ p \in Seq(X) /\ Len(p) = Len(s) - 1 /\ Len(s) \in Nat \ {0}
    /\ Head(s) = s[1] /\ Head(s) \in X
    /\ \A i \in 1..Len(p) : p[i] = s[i + 1]

LEMMA PushFields ==
    ASSUME NEW X, NEW s \in Seq(X), NEW x \in X, NEW p, p = Append(s, x)
    PROVE  IsPushed(s, p, x, X)
  BY DEF IsPushed

LEMMA TailFields ==
    ASSUME NEW X, NEW s \in Seq(X), s # <<>>, NEW p, p = Tail(s)
    PROVE  IsTail(s, p, X)
  BY DEF IsTail

\* g is f but for its value x at u.
IsChanged(f, g, u, x, X) ==
    /\ g \in [Users -> X] /\ g[u] = x
    /\ \A v \in Users : v # u => g[v] = f[v]

LEMMA ChangedFields ==
    ASSUME NEW X, NEW f \in [Users -> X], NEW u \in Users, NEW x \in X,
           NEW g, g = [f EXCEPT ![u] = x]
    PROVE  IsChanged(f, g, u, x, X)
  BY DEF IsChanged

-----------------------------------------------------------------------------
(* Questions and answers.                                                  *)

NoAsk(q) == \A i \in 1..Len(q) : q[i].ev # "client-up"
NoReply(r) == \A i \in 1..Len(r) : r[i].ev # "reply"

\* Of the questions in q and the answers in r there is one at most, and it
\* is the one the daemon waits for as w says.
Question(q, r, w) ==
    /\ \A i \in 1..Len(q) : q[i].ev = "client-up" =>
          /\ w # NoWait /\ q[i].n = w.n
          /\ \A j \in 1..Len(q) : q[j].ev = "client-up" => i = j
          /\ NoReply(r)
    /\ \A i \in 1..Len(r) : r[i].ev = "reply" =>
          /\ w # NoWait /\ r[i].n = w.n
          /\ \A j \in 1..Len(r) : r[j].ev = "reply" => i = j

LEMMA QuestionIdle ==
    ASSUME NEW q, NEW r, NEW w, NoAsk(q), NoReply(r)
    PROVE  Question(q, r, w)
  BY DEF Question, NoAsk, NoReply

LEMMA QuestionNoWait ==
    ASSUME NEW q, NEW r, Question(q, r, NoWait)
    PROVE  NoAsk(q) /\ NoReply(r)
  BY DEF Question, NoAsk, NoReply

\* The daemon posts something else, or is sent something else.
LEMMA QuestionOther ==
    ASSUME NEW q, NEW r, NEW w, Question(q, r, w), NEW p, NEW m, NEW X
    PROVE  /\ IsPushed(q, p, m, X) /\ m.ev # "client-up" => Question(p, r, w)
           /\ IsPushed(r, p, m, X) /\ m.ev # "reply" => Question(q, p, w)
           /\ IsTail(q, p, X) => Question(p, r, w)
           /\ IsTail(r, p, X) => Question(q, p, w)
<1>1. ASSUME NEW s, IsPushed(s, p, m, X)
      PROVE  /\ \A i \in 1..Len(s) : i \in 1..Len(p) /\ p[i] = s[i]
             /\ \A i \in 1..Len(p) : (i \in 1..Len(s) /\ p[i] = s[i]) \/ p[i] = m
  BY <1>1 DEF IsPushed
<1>2. ASSUME IsPushed(q, p, m, X), m.ev # "client-up" PROVE Question(p, r, w)
  BY <1>1, <1>2 DEF Question, NoReply
<1>3. ASSUME IsPushed(r, p, m, X), m.ev # "reply" PROVE Question(q, p, w)
  BY <1>1, <1>3 DEF Question, NoReply
<1>4. ASSUME IsTail(q, p, X) PROVE Question(p, r, w)
  <2>1. \A i \in 1..Len(p) : i + 1 \in 1..Len(q) /\ p[i] = q[i + 1]
    BY <1>4 DEF IsTail
  <2>2. \A i, j \in 1..Len(p) :
           p[i].ev = "client-up" /\ p[j].ev = "client-up" => i + 1 = j + 1
    BY <2>1 DEF Question
  <2>3. \A i, j \in 1..Len(p) : i + 1 = j + 1 => i = j
    BY <1>4 DEF IsTail
  <2> QED
    BY <2>1, <2>2, <2>3 DEF Question, NoReply
<1>5. ASSUME IsTail(r, p, X) PROVE Question(q, p, w)
  <2>1. \A i \in 1..Len(p) : i + 1 \in 1..Len(r) /\ p[i] = r[i + 1]
    BY <1>5 DEF IsTail
  <2>2. \A i, j \in 1..Len(p) : p[i].ev = "reply" /\ p[j].ev = "reply" => i + 1 = j + 1
    BY <2>1 DEF Question
  <2>3. \A i, j \in 1..Len(p) : i + 1 = j + 1 => i = j
    BY <1>5 DEF IsTail
  <2> QED
    BY <2>1, <2>2, <2>3 DEF Question, NoReply
<1> QED
  BY <1>2, <1>3, <1>4, <1>5

\* The daemon asks.
LEMMA QuestionAsked ==
    ASSUME NEW q, NEW r, NoAsk(q), NoReply(r), NEW w, NEW p, NEW m, NEW X,
           IsPushed(q, p, m, X), w # NoWait, m.n = w.n
    PROVE  Question(p, r, w)
<1>1. \A i \in 1..Len(p) : (i \in 1..Len(q) /\ p[i] = q[i]) \/ (i = Len(q) + 1 /\ p[i] = m)
  BY DEF IsPushed
<1> QED
  BY <1>1 DEF Question, NoAsk, NoReply

\* The server answers.
LEMMA QuestionAnswered ==
    ASSUME NEW q, NEW r, NEW w, Question(q, r, w), NEW X, NEW Y, NEW p, NEW t, NEW e,
           IsTail(q, p, X), q[1].ev = "client-up", IsPushed(r, t, e, Y), e.n = q[1].n
    PROVE  Question(p, t, w)
<1>1. /\ \A i \in 1..Len(p) : i + 1 \in 1..Len(q) /\ p[i] = q[i + 1] /\ i + 1 # 1
      /\ 1 \in 1..Len(q)
  BY DEF IsTail
<1>2. NoReply(r) /\ w # NoWait /\ q[1].n = w.n
  BY <1>1 DEF Question
<1>3. NoAsk(p)
  BY <1>1 DEF Question, NoAsk
<1>4. \A i \in 1..Len(t) : (i \in 1..Len(r) /\ t[i] = r[i]) \/ (i = Len(r) + 1 /\ t[i] = e)
  BY DEF IsPushed
<1> QED
  BY <1>2, <1>3, <1>4 DEF Question, NoAsk, NoReply

\* The daemon takes the answer: nothing is under way any more.
LEMMA QuestionTaken ==
    ASSUME NEW q, NEW r, NEW w, Question(q, r, w), NEW X, NEW t,
           IsTail(r, t, X), r[1].ev = "reply"
    PROVE  r[1].n = w.n /\ NoAsk(q) /\ NoReply(t)
<1>1. /\ \A i \in 1..Len(t) : i + 1 \in 1..Len(r) /\ t[i] = r[i + 1] /\ i + 1 # 1
      /\ 1 \in 1..Len(r)
  BY DEF IsTail
<1>2. NoReply(t) /\ r[1].n = w.n
  BY <1>1 DEF Question, NoReply
<1>3. NoAsk(q)
  BY <1>1 DEF Question, NoAsk, NoReply
<1> QED
  BY <1>2, <1>3

-----------------------------------------------------------------------------
(* Registrations under way.                                                *)

IsReg(e, n) == e.ev = "register" /\ e.n = n
IsGone(e, n) == e.ev = "client-gone" /\ e.n = n
Silent(e, n) == ~IsReg(e, n) /\ ~IsGone(e, n)

\* When the server comes to a "client-gone" for n in q, from user u, it has
\* n entered for u: it has now, as s, or will when it has read what is before.
Known(q, n, s, u) ==
    \A i \in 1..Len(q) : IsGone(q[i], n) =>
        \/ /\ s = u
           /\ \A l \in 1..Len(q) : l < i => ~IsGone(q[l], n)
        \/ \E j \in 1..Len(q) :
              /\ j < i /\ IsReg(q[j], n)
              /\ \A l \in 1..Len(q) : j < l /\ l < i => ~IsGone(q[l], n)

\* Once the server has read q it has n entered for u just when u's daemon
\* has the client, as k.
Latest(q, n, s, u, k) ==
    \/ /\ \A i \in 1..Len(q) : Silent(q[i], n)
       /\ s = u <=> k # NoConn
    \/ \E i \in 1..Len(q) :
          /\ \/ IsReg(q[i], n) /\ k # NoConn
             \/ IsGone(q[i], n) /\ k = NoConn
          /\ \A l \in 1..Len(q) : i < l => Silent(q[l], n)

LEMMA PushIndices ==
    ASSUME NEW q, NEW p, NEW m, NEW X, IsPushed(q, p, m, X)
    PROVE  /\ Len(q) + 1 \in 1..Len(p) /\ p[Len(q) + 1] = m /\ Len(q) \in Nat
           /\ \A i \in 1..Len(q) : i \in 1..Len(p) /\ p[i] = q[i] /\ i < Len(q) + 1
           /\ \A i \in 1..Len(p) : i \in Nat /\ i <= Len(q) + 1
                                   /\ (i \in 1..Len(q) \/ i = Len(q) + 1)
  BY DEF IsPushed

LEMMA KnownPushed ==
    ASSUME NEW q, NEW n, NEW s, NEW u, Known(q, n, s, u), NEW p, NEW m, NEW X,
           IsPushed(q, p, m, X), ~IsGone(m, n)
    PROVE  Known(p, n, s, u)
<1> SUFFICES ASSUME NEW i \in 1..Len(p), IsGone(p[i], n)
             PROVE  \/ /\ s = u
                       /\ \A l \in 1..Len(p) : l < i => ~IsGone(p[l], n)
                    \/ \E j \in 1..Len(p) :
                          /\ j < i /\ IsReg(p[j], n)
                          /\ \A l \in 1..Len(p) : j < l /\ l < i => ~IsGone(p[l], n)
  BY DEF Known
<1>1. i \in 1..Len(q) /\ p[i] = q[i]
  BY PushIndices
<1>2. \A l \in 1..Len(p) : l < i => l \in 1..Len(q) /\ p[l] = q[l]
  BY <1>1, PushIndices
<1>3. CASE /\ s = u
           /\ \A l \in 1..Len(q) : l < i => ~IsGone(q[l], n)
  BY <1>2, <1>3
<1>4. ASSUME NEW j \in 1..Len(q), j < i, IsReg(q[j], n),
             \A l \in 1..Len(q) : j < l /\ l < i => ~IsGone(q[l], n)
      PROVE  \E k \in 1..Len(p) :
                /\ k < i /\ IsReg(p[k], n)
                /\ \A l \in 1..Len(p) : k < l /\ l < i => ~IsGone(p[l], n)
  <2>1. j \in 1..Len(p) /\ IsReg(p[j], n)
    BY <1>4, PushIndices
  <2> QED
    BY <1>2, <1>4, <2>1
<1> QED
  BY <1>1, <1>3, <1>4 DEF Known

\* The client goes that the daemon had.
LEMMA KnownGone ==
    ASSUME NEW q, NEW n, NEW s, NEW u, NEW k, Known(q, n, s, u), Latest(q, n, s, u, k),
           k # NoConn, NEW p, NEW m, NEW X, IsPushed(q, p, m, X), IsGone(m, n)
    PROVE  Known(p, n, s, u)
<1> SUFFICES ASSUME NEW i \in 1..Len(p), IsGone(p[i], n)
             PROVE  \/ /\ s = u
                       /\ \A l \in 1..Len(p) : l < i => ~IsGone(p[l], n)
                    \/ \E j \in 1..Len(p) :
                          /\ j < i /\ IsReg(p[j], n)
                          /\ \A l \in 1..Len(p) : j < l /\ l < i => ~IsGone(p[l], n)
  BY DEF Known
<1>1. \A l \in 1..Len(p) : l < i => l \in 1..Len(q) /\ p[l] = q[l]
  BY PushIndices
<1>2. CASE i \in 1..Len(q)
  <2>1. IsGone(q[i], n)
    BY <1>2, PushIndices
  <2>2. CASE /\ s = u
             /\ \A l \in 1..Len(q) : l < i => ~IsGone(q[l], n)
    BY <1>1, <2>2
  <2>3. ASSUME NEW j \in 1..Len(q), j < i, IsReg(q[j], n),
               \A l \in 1..Len(q) : j < l /\ l < i => ~IsGone(q[l], n)
        PROVE  \E h \in 1..Len(p) :
                  /\ h < i /\ IsReg(p[h], n)
                  /\ \A l \in 1..Len(p) : h < l /\ l < i => ~IsGone(p[l], n)
    <3>1. j \in 1..Len(p) /\ IsReg(p[j], n)
      BY <2>3, PushIndices
    <3> QED
      BY <1>1, <2>3, <3>1
  <2> QED
    BY <1>2, <2>1, <2>2, <2>3 DEF Known
<1>3. CASE i = Len(q) + 1
  <2>1. CASE /\ \A l \in 1..Len(q) : Silent(q[l], n)
             /\ s = u <=> k # NoConn
    BY <1>1, <2>1 DEF Silent
  <2>2. ASSUME NEW j \in 1..Len(q), IsReg(q[j], n),
               \A l \in 1..Len(q) : j < l => Silent(q[l], n)
        PROVE  \E h \in 1..Len(p) :
                  /\ h < i /\ IsReg(p[h], n)
                  /\ \A l \in 1..Len(p) : h < l /\ l < i => ~IsGone(p[l], n)
    <3>1. j \in 1..Len(p) /\ IsReg(p[j], n) /\ j < i
      BY <1>3, <2>2, PushIndices
    <3> QED
      BY <1>1, <2>2, <3>1 DEF Silent
  <2> QED
    BY <2>1, <2>2 DEF Latest
<1> QED
  BY <1>2, <1>3, PushIndices

LEMMA LatestPushed ==
    ASSUME NEW q, NEW n, NEW s, NEW u, NEW p, NEW m, NEW X, IsPushed(q, p, m, X)
    PROVE  /\ IsReg(m, n) => \A k : k # NoConn => Latest(p, n, s, u, k)
           /\ IsGone(m, n) => Latest(p, n, s, u, NoConn)
           /\ Silent(m, n) => \A k : Latest(q, n, s, u, k) => Latest(p, n, s, u, k)
<1>1. PICK z : z = Len(q) + 1
  OBVIOUS
<1>2. z \in 1..Len(p) /\ p[z] = m /\ \A l \in 1..Len(p) : ~(z < l)
  BY <1>1, PushIndices
<1>3. ASSUME IsReg(m, n), NEW k, k # NoConn PROVE Latest(p, n, s, u, k)
  BY <1>2, <1>3 DEF Latest
<1>4. ASSUME IsGone(m, n) PROVE Latest(p, n, s, u, NoConn)
  BY <1>2, <1>4 DEF Latest
<1>5. ASSUME Silent(m, n), NEW k, Latest(q, n, s, u, k) PROVE Latest(p, n, s, u, k)
  <2>1. \A i \in 1..Len(p) : (i \in 1..Len(q) /\ p[i] = q[i]) \/ p[i] = m
    BY PushIndices
  <2>2. CASE /\ \A i \in 1..Len(q) : Silent(q[i], n)
             /\ s = u <=> k # NoConn
    <3>1. \A i \in 1..Len(p) : Silent(p[i], n)
      BY <1>5, <2>1, <2>2
    <3> QED
      BY <2>2, <3>1 DEF Latest
  <2>3. ASSUME NEW i \in 1..Len(q),
               \/ IsReg(q[i], n) /\ k # NoConn
               \/ IsGone(q[i], n) /\ k = NoConn,
               \A l \in 1..Len(q) : i < l => Silent(q[l], n)
        PROVE  Latest(p, n, s, u, k)
    <3>1. i \in 1..Len(p) /\ p[i] = q[i]
      BY PushIndices
    <3>2. \A l \in 1..Len(p) : i < l => Silent(p[l], n)
      BY <1>5, <2>1, <2>3
    <3> QED
      BY <2>3, <3>1, <3>2 DEF Latest
  <2> QED
    BY <1>5, <2>2, <2>3 DEF Latest
<1> QED
  BY <1>3, <1>4, <1>5

LEMMA TailIndices ==
    ASSUME NEW q, NEW p, NEW X, IsTail(q, p, X)
    PROVE  /\ 1 \in 1..Len(q)
           /\ \A i \in 1..Len(p) : i \in Nat /\ i + 1 \in 1..Len(q) /\ p[i] = q[i + 1] /\ 1 < i + 1
           /\ \A i \in 1..Len(q) : i \in Nat /\ (i = 1 \/ (i - 1 \in 1..Len(p) /\ p[i - 1] = q[i]
                                                /\ i - 1 \in Nat))
  BY DEF IsTail

\* The server reads an event of u: with s it has n entered, with t it has
\* after.
LEMMA KnownTail ==
    ASSUME NEW q, NEW n, NEW s, NEW u, Known(q, n, s, u), NEW p, NEW X, NEW t,
           IsTail(q, p, X),
           \/ Silent(q[1], n) /\ (s = u => t = u)
           \/ IsReg(q[1], n) /\ t = u
           \/ IsGone(q[1], n)
    PROVE  Known(p, n, t, u) /\ (IsGone(q[1], n) => s = u)
<1>1. ASSUME IsGone(q[1], n) PROVE s = u
  <2>1. 1 \in 1..Len(q) /\ \A j \in 1..Len(q) : ~(j < 1)
    BY TailIndices
  <2> QED
    BY <1>1, <2>1 DEF Known
<1> SUFFICES ASSUME NEW i \in 1..Len(p), IsGone(p[i], n)
             PROVE  \/ /\ t = u
                       /\ \A l \in 1..Len(p) : l < i => ~IsGone(p[l], n)
                    \/ \E j \in 1..Len(p) :
                          /\ j < i /\ IsReg(p[j], n)
                          /\ \A l \in 1..Len(p) : j < l /\ l < i => ~IsGone(p[l], n)
  BY <1>1 DEF Known
<1>2. i + 1 \in 1..Len(q) /\ IsGone(q[i + 1], n) /\ i \in Nat /\ 1 < i + 1 /\ 1 \in 1..Len(q)
  BY TailIndices
<1>3. \A l \in 1..Len(p) : /\ l + 1 \in 1..Len(q) /\ p[l] = q[l + 1] /\ l \in Nat /\ 1 < l + 1
                           /\ l < i => l + 1 < i + 1
  BY <1>2, TailIndices
<1>4. CASE /\ s = u
           /\ \A l \in 1..Len(q) : l < i + 1 => ~IsGone(q[l], n)
  <2>1. \A l \in 1..Len(p) : l < i => ~IsGone(p[l], n)
    BY <1>3, <1>4
  <2>2. ~IsGone(q[1], n)
    BY <1>2, <1>4
  <2>3. t = u
    BY <1>4, <2>2 DEF Silent
  <2> QED
    BY <2>1, <2>3
<1>5. ASSUME NEW j \in 1..Len(q), j < i + 1, IsReg(q[j], n),
             \A l \in 1..Len(q) : j < l /\ l < i + 1 => ~IsGone(q[l], n)
      PROVE  \/ /\ t = u
                /\ \A l \in 1..Len(p) : l < i => ~IsGone(p[l], n)
             \/ \E h \in 1..Len(p) :
                   /\ h < i /\ IsReg(p[h], n)
                   /\ \A l \in 1..Len(p) : h < l /\ l < i => ~IsGone(p[l], n)
  <2>1. CASE j = 1
    <3>1. t = u
      BY <1>5, <2>1 DEF Silent, IsReg, IsGone
    <3>2. \A l \in 1..Len(p) : l < i => ~IsGone(p[l], n)
      BY <1>3, <1>5, <2>1
    <3> QED
      BY <3>1, <3>2
  <2>2. CASE j # 1
    <3>1. PICK h : h = j - 1
      OBVIOUS
    <3>2. h \in 1..Len(p) /\ p[h] = q[j] /\ h \in Nat /\ j = h + 1 /\ h < i
      BY <1>2, <1>5, <2>2, <3>1, TailIndices
    <3>3. \A l \in 1..Len(p) : h < l => h + 1 < l + 1
      BY <1>3, <3>2
    <3>4. \A l \in 1..Len(p) : h < l /\ l < i => ~IsGone(p[l], n)
      BY <1>3, <1>5, <3>2, <3>3
    <3> QED
      BY <1>5, <3>2, <3>4
  <2> QED
    BY <2>1, <2>2
<1> QED
  BY <1>2, <1>4, <1>5 DEF Known

LEMMA LatestTail ==
    ASSUME NEW q, NEW n, NEW s, NEW u, NEW k, Latest(q, n, s, u, k), NEW p, NEW X,
           NEW t, IsTail(q, p, X),
           \/ Silent(q[1], n) /\ (s = u <=> t = u)
           \/ IsReg(q[1], n) /\ t = u
           \/ IsGone(q[1], n) /\ t # u
    PROVE  Latest(p, n, t, u, k)
<1>1. CASE /\ \A i \in 1..Len(q) : Silent(q[i], n)
           /\ s = u <=> k # NoConn
  <2>1. Silent(q[1], n) /\ \A i \in 1..Len(p) : Silent(p[i], n)
    BY <1>1, TailIndices
  <2>2. s = u <=> t = u
    BY <2>1 DEF Silent
  <2> QED
    BY <1>1, <2>1, <2>2 DEF Latest
<1>2. ASSUME NEW i \in 1..Len(q),
             \/ IsReg(q[i], n) /\ k # NoConn
             \/ IsGone(q[i], n) /\ k = NoConn,
             \A l \in 1..Len(q) : i < l => Silent(q[l], n)
      PROVE  Latest(p, n, t, u, k)
  <2>1. CASE i = 1
    <3>1. t = u <=> k # NoConn
      BY <1>2, <2>1 DEF Silent, IsReg, IsGone
    <3>2. \A l \in 1..Len(p) : Silent(p[l], n)
      BY <1>2, <2>1, TailIndices
    <3> QED
      BY <3>1, <3>2 DEF Latest
  <2>2. CASE i # 1
    <3>1. PICK h : h = i - 1
      OBVIOUS
    <3>2. h \in 1..Len(p) /\ p[h] = q[i] /\ h \in Nat /\ i = h + 1
      BY <2>2, <3>1, TailIndices
    <3>3. \A l \in 1..Len(p) : h < l => h + 1 < l + 1
      BY <3>2, TailIndices
    <3>4. \A l \in 1..Len(p) : h < l => Silent(p[l], n)
      BY <1>2, <3>2, <3>3, TailIndices
    <3> QED
      BY <1>2, <3>2, <3>4 DEF Latest
  <2> QED
    BY <2>1, <2>2
<1> QED
  BY <1>1, <1>2 DEF Latest

-----------------------------------------------------------------------------
(* The registry.                                                           *)

\* A name is in the list its way of sharing says.
Shares(W, G) ==
    /\ W \in [Names -> Owner] /\ G \in [Groups -> [Names -> Owner]]
    /\ \A n \in Names :
          /\ ShareOf[n] = "WORLD" => \A g \in Groups : G[g][n] = NoUser
          /\ ShareOf[n] # "WORLD" => W[n] = NoUser

\* The user who registered n, as user u finds it.
Slot(W, G, u, n) ==
    IF G[GroupOf[u]][n] # NoUser THEN G[GroupOf[u]][n] ELSE W[n]

Listed(W, G, u) ==
    \E n \in Names : W[n] = u \/ \E g \in Groups : G[g][n] = u

LEMMA SlotOf ==
    ASSUME NEW u \in Users, NEW n \in Names
    PROVE  /\ GroupOf[u] \in Groups
           /\ Registered(GroupOf[u], n) = Slot(world, group, u, n)
  BY DEF Registered, Slot, Groups

LEMMA SlotType ==
    ASSUME NEW W, NEW G, Shares(W, G), NEW u \in Users, NEW n \in Names
    PROVE  /\ Slot(W, G, u, n) \in Owner
           /\ ShareOf[n] = "WORLD" => Slot(W, G, u, n) = W[n]
           /\ ShareOf[n] # "WORLD" => Slot(W, G, u, n) = G[GroupOf[u]][n]
           /\ Slot(W, G, u, n) = u => Listed(W, G, u)
<1>1. GroupOf[u] \in Groups
  BY DEF Groups
<1>2. Slot(W, G, u, n) = IF G[GroupOf[u]][n] # NoUser THEN G[GroupOf[u]][n] ELSE W[n]
  BY DEF Slot
<1>3. /\ W[n] \in Owner /\ G[GroupOf[u]][n] \in Owner
      /\ ShareOf[n] = "WORLD" => G[GroupOf[u]][n] = NoUser
      /\ ShareOf[n] # "WORLD" => W[n] = NoUser
  BY <1>1 DEF Shares
<1>4. ASSUME Slot(W, G, u, n) = u PROVE Listed(W, G, u)
  BY <1>1, <1>2, <1>4 DEF Listed
<1> QED
  BY <1>2, <1>3, <1>4

\* The entry for n that u finds, and no other, has become x.
IsEntered(W, G, V, H, u, n, x) ==
    /\ Shares(V, H)
    /\ Slot(V, H, u, n) = x
    /\ \A v \in Users : \A m \in Names :
          \/ Slot(V, H, v, m) = Slot(W, G, v, m)
          \/ /\ m = n /\ Slot(V, H, v, m) = x
             /\ Slot(W, G, v, m) = Slot(W, G, u, n)
    /\ \A v \in Users : v # x /\ ~Listed(W, G, v) => ~Listed(V, H, v)

\* The lists with x for n.
IsWorldSet(W, V, n, x) ==
    /\ V \in [Names -> Owner] /\ V[n] = x
    /\ \A m \in Names : m # n => V[m] = W[m]

IsGroupSet(G, H, g, n, x) ==
    /\ H \in [Groups -> [Names -> Owner]] /\ H[g][n] = x
    /\ \A h \in Groups : \A m \in Names :
          H[h][m] = G[h][m] \/ (h = g /\ m = n /\ H[h][m] = x)

LEMMA WorldSet ==
    ASSUME NEW W \in [Names -> Owner], NEW n \in Names, NEW x \in Owner, NEW V,
           V = [W EXCEPT ![n] = x]
    PROVE  IsWorldSet(W, V, n, x)
  BY DEF IsWorldSet

LEMMA GroupSet ==
    ASSUME NEW G \in [Groups -> [Names -> Owner]], NEW g \in Groups,
           NEW n \in Names, NEW x \in Owner, NEW H, H = [G EXCEPT ![g][n] = x]
    PROVE  IsGroupSet(G, H, g, n, x)
<1>1. G[g] \in [Names -> Owner]
  OBVIOUS
<1>2. PICK r : r = [G[g] EXCEPT ![n] = x]
  OBVIOUS
<1>3. r \in [Names -> Owner] /\ r[n] = x /\ \A m \in Names : m # n => r[m] = G[g][m]
  BY <1>1, <1>2
<1>4. H = [G EXCEPT ![g] = r]
  BY <1>2
<1>5. /\ H \in [Groups -> [Names -> Owner]] /\ H[g] = r
      /\ \A h \in Groups : h # g => H[h] = G[h]
  BY <1>3, <1>4
<1>6. \A h \in Groups : \A m \in Names : H[h][m] = G[h][m] \/ (h = g /\ m = n /\ H[h][m] = x)
  BY <1>3, <1>5
<1> QED
  BY <1>3, <1>5, <1>6 DEF IsGroupSet

LEMMA EnterWorld ==
    ASSUME NEW W, NEW G, Shares(W, G), NEW u \in Users, NEW n \in Names,
           ShareOf[n] = "WORLD", NEW x \in Owner, NEW V, IsWorldSet(W, V, n, x)
    PROVE  IsEntered(W, G, V, G, u, n, x)
<1>1. /\ V \in [Names -> Owner] /\ V[n] = x
      /\ \A m \in Names : m # n => V[m] = W[m]
  BY DEF IsWorldSet
<1>2. Shares(V, G)
  BY <1>1 DEF Shares
<1>3. \A v \in Users : Slot(V, G, v, n) = x /\ Slot(W, G, v, n) = W[n]
  <2> SUFFICES ASSUME NEW v \in Users
               PROVE  Slot(V, G, v, n) = x /\ Slot(W, G, v, n) = W[n]
    OBVIOUS
  <2>1. Slot(V, G, v, n) = V[n]
    BY <1>2, SlotType
  <2>2. Slot(W, G, v, n) = W[n]
    BY SlotType
  <2> QED
    BY <1>1, <2>1, <2>2
<1>4. \A v \in Users : \A m \in Names : m # n => Slot(V, G, v, m) = Slot(W, G, v, m)
  BY <1>1 DEF Slot
<1>5. \A v \in Users : v # x /\ ~Listed(W, G, v) => ~Listed(V, G, v)
  BY <1>1 DEF Listed
<1> QED
  BY <1>2, <1>3, <1>4, <1>5 DEF IsEntered

LEMMA EnterGroup ==
    ASSUME NEW W, NEW G, Shares(W, G), NEW u \in Users, NEW n \in Names,
           ShareOf[n] # "WORLD", NEW x \in Owner, NEW H,
           IsGroupSet(G, H, GroupOf[u], n, x)
    PROVE  IsEntered(W, G, W, H, u, n, x)
<1>1. PICK g : g = GroupOf[u]
  OBVIOUS
<1>2. g \in Groups /\ \A v \in Users : GroupOf[v] \in Groups
  BY <1>1 DEF Groups
<1>3. H \in [Groups -> [Names -> Owner]] /\ H[g][n] = x
  BY <1>1 DEF IsGroupSet
<1>4. \A h \in Groups : \A m \in Names : H[h][m] = G[h][m] \/ (h = g /\ m = n /\ H[h][m] = x)
  BY <1>1 DEF IsGroupSet
<1>5. Shares(W, H)
  <2>1. ASSUME NEW m \in Names, ShareOf[m] = "WORLD", NEW h \in Groups
        PROVE  H[h][m] = NoUser
    <3>1. m # n
      BY <2>1
    <3>2. H[h][m] = G[h][m]
      BY <1>4, <3>1
    <3> QED
      BY <2>1, <3>2 DEF Shares
  <2> QED
    BY <1>3, <2>1 DEF Shares
<1>6. Slot(W, H, u, n) = x
  <2>1. Slot(W, H, u, n) = H[GroupOf[u]][n]
    BY <1>5, SlotType
  <2> QED
    BY <1>1, <1>3, <2>1
<1>7. ASSUME NEW v \in Users, NEW m \in Names
       PROVE  \/ Slot(W, H, v, m) = Slot(W, G, v, m)
              \/ /\ m = n /\ Slot(W, H, v, m) = x
                 /\ Slot(W, G, v, m) = Slot(W, G, u, n)
  <2>1. CASE H[GroupOf[v]][m] = G[GroupOf[v]][m]
    BY <2>1 DEF Slot
  <2>2. CASE GroupOf[v] = g /\ m = n /\ H[GroupOf[v]][m] = x
    <3>1. Slot(W, H, v, m) = x
      <4>1. Slot(W, H, v, n) = H[GroupOf[v]][n]
        BY <1>5, SlotType
      <4> QED
        BY <2>2, <4>1
    <3>2. Slot(W, G, v, m) = Slot(W, G, u, n)
      BY <1>1, <2>2 DEF Slot
    <3> QED
      BY <2>2, <3>1, <3>2
  <2> QED
    BY <1>2, <1>4, <2>1, <2>2
<1>8. \A v \in Users : v # x /\ ~Listed(W, G, v) => ~Listed(W, H, v)
  BY <1>4 DEF Listed
<1> QED
  BY <1>5, <1>6, <1>7, <1>8 DEF IsEntered

\* dServer::Register() and dServer::ClientGone() change one entry.
LEMMA RegisterFields ==
    ASSUME Shares(world, group), NEW u \in Users, NEW n \in Names, Register(u, n)
    PROVE  /\ IsEntered(world, group, world', group', u, n, u) /\ down' = down
           /\ contested \subseteq contested'
           /\ Slot(world, group, u, n) \notin {u, NoUser} => n \in contested'
<1>1. u \in Owner
  BY DEF Owner
<1>2. /\ contested' = IF Registered(GroupOf[u], n) \notin {u, NoUser}
                      THEN contested \cup {n} ELSE contested
      /\ down' = down
      /\ IF ShareOf[n] = "WORLD"
         THEN world' = [world EXCEPT ![n] = u] /\ group' = group
         ELSE group' = [group EXCEPT ![GroupOf[u]][n] = u] /\ world' = world
  BY DEF Register
<1>3. /\ contested \subseteq contested'
      /\ Slot(world, group, u, n) \notin {u, NoUser} => n \in contested'
  BY <1>2, SlotOf
<1>4. PICK V : V = world'
  OBVIOUS
<1>5. PICK H : H = group'
  OBVIOUS
<1>6. IsEntered(world, group, V, H, u, n, u)
  <2>1. CASE ShareOf[n] = "WORLD"
    <3>1. V = [world EXCEPT ![n] = u] /\ H = group
      BY <1>2, <1>4, <1>5, <2>1
    <3> QED
      BY <1>1, <2>1, <3>1, WorldSet, EnterWorld DEF Shares
  <2>2. CASE ShareOf[n] # "WORLD"
    <3>1. H = [group EXCEPT ![GroupOf[u]][n] = u] /\ V = world
      BY <1>2, <1>4, <1>5, <2>2
    <3> QED
      BY <1>1, <2>2, <3>1, GroupSet, EnterGroup DEF Shares, Groups
  <2> QED
    BY <2>1, <2>2
<1> QED
  BY <1>2, <1>3, <1>4, <1>5, <1>6

LEMMA ClientGoneFields ==
    ASSUME Shares(world, group), NEW u \in Users, NEW n \in Names, ServerGone(u, n)
    PROVE  /\ IsEntered(world, group, world', group', u, n, NoUser) /\ down' = down
           /\ contested' = contested
<1>1. NoUser \in Owner
  BY DEF Owner
<1>2. /\ contested' = contested /\ down' = down
      /\ IF group[GroupOf[u]][n] # NoUser
         THEN group' = [group EXCEPT ![GroupOf[u]][n] = NoUser] /\ world' = world
         ELSE world' = [world EXCEPT ![n] = NoUser] /\ group' = group
  BY DEF ServerGone
<1>3. GroupOf[u] \in Groups
  BY DEF Groups
<1>4. PICK V : V = world'
  OBVIOUS
<1>5. PICK H : H = group'
  OBVIOUS
<1>6. IsEntered(world, group, V, H, u, n, NoUser)
  <2>1. CASE group[GroupOf[u]][n] # NoUser
    <3>1. H = [group EXCEPT ![GroupOf[u]][n] = NoUser] /\ V = world
      BY <1>2, <1>4, <1>5, <2>1
    <3>2. ShareOf[n] # "WORLD"
      BY <1>3, <2>1 DEF Shares
    <3> QED
      BY <1>1, <3>1, <3>2, GroupSet, EnterGroup DEF Shares, Groups
  <2>2. CASE group[GroupOf[u]][n] = NoUser
    <3>1. V = [world EXCEPT ![n] = NoUser] /\ H = group
      BY <1>2, <1>4, <1>5, <2>2
    <3>2. CASE ShareOf[n] = "WORLD"
      BY <1>1, <3>1, <3>2, WorldSet, EnterWorld DEF Shares
    <3>3. CASE ShareOf[n] # "WORLD"
      <4>1. V = world
        BY <3>1, <3>3 DEF Shares
      <4>2. Slot(V, H, u, n) = NoUser
        BY <2>2, <3>1, <3>3, <4>1, SlotType
      <4> QED
        BY <3>1, <4>1, <4>2 DEF IsEntered
    <3> QED
      BY <3>2, <3>3
  <2> QED
    BY <2>1, <2>2
<1> QED
  BY <1>2, <1>4, <1>5, <1>6

\* All that u has registered is struck out.
LEMMA ClearFields ==
    ASSUME Shares(world, group), NEW u \in Users, Clear(u)
    PROVE  /\ Shares(world', group')
           /\ ~Listed(world', group', u)
           /\ \A v \in Users : ~Listed(world, group, v) => ~Listed(world', group', v)
           /\ \A v \in Users : \A n \in Names : v # u =>
                 (Slot(world', group', v, n) = v <=> Slot(world, group, v, n) = v)
<1>1. /\ world' = [n \in Names |-> IF world[n] = u THEN NoUser ELSE world[n]]
      /\ group' = [g \in Groups |-> [n \in Names |->
                      IF group[g][n] = u THEN NoUser ELSE group[g][n]]]
  BY DEF Clear
<1>2. /\ \A n \in Names : world'[n] = IF world[n] = u THEN NoUser ELSE world[n]
      /\ \A g \in Groups : \A n \in Names :
            group'[g][n] = IF group[g][n] = u THEN NoUser ELSE group[g][n]
  BY <1>1
<1>3. /\ \A n \in Names : world[n] \in Owner
      /\ \A g \in Groups : \A n \in Names : group[g][n] \in Owner
      /\ NoUser \in Owner
  BY DEF Shares, Owner
<1>4. world' \in [Names -> Owner] /\ group' \in [Groups -> [Names -> Owner]]
  BY <1>1, <1>3
<1>5. Shares(world', group')
  BY <1>2, <1>4 DEF Shares
<1>6. \A v \in Users : v # NoUser
  BY NoneAssumption
<1>7. ~Listed(world', group', u)
  BY <1>2, <1>6 DEF Listed
<1>8. \A v \in Users : ~Listed(world, group, v) => ~Listed(world', group', v)
  BY <1>2, <1>6 DEF Listed
<1>9. ASSUME NEW v \in Users, NEW n \in Names, v # u
      PROVE  Slot(world', group', v, n) = v <=> Slot(world, group, v, n) = v
  <2>1. GroupOf[v] \in Groups
    BY DEF Groups
  <2>2. CASE ShareOf[n] = "WORLD"
    <3>1. Slot(world', group', v, n) = world'[n] /\ Slot(world, group, v, n) = world[n]
      BY <1>5, <2>2, SlotType
    <3> QED
      BY <1>2, <1>6, <1>9, <3>1
  <2>3. CASE ShareOf[n] # "WORLD"
    <3>1. /\ Slot(world', group', v, n) = group'[GroupOf[v]][n]
          /\ Slot(world, group, v, n) = group[GroupOf[v]][n]
      BY <1>5, <2>3, SlotType
    <3> QED
      BY <1>2, <1>6, <1>9, <2>1, <3>1
  <2> QED
    BY <2>2, <2>3
<1> QED
  BY <1>5, <1>7, <1>8, <1>9

-----------------------------------------------------------------------------
(* The records.                                                            *)

LEMMA DaemonFields ==
    ASSUME NEW d \in Daemon
    PROVE  /\ d.at \in {"none", "run", "gone"} /\ d.wait \in Wait
           /\ d.master \in BOOLEAN /\ d.clients \in [Names -> Conns \cup {NoConn}]
  BY DEF Daemon

\* A daemon after a change of its state; c is what d has become.
LEMMA DaemonSet ==
    ASSUME NEW d \in Daemon, NEW c
    PROVE  /\ c = [d EXCEPT !.master = FALSE] =>
                 /\ c \in Daemon /\ c.wait = d.wait
                 /\ c.at = d.at /\ c.clients = d.clients
           /\ c = [d EXCEPT !.at = "run", !.master = TRUE] =>
                 /\ c \in Daemon /\ c.wait = d.wait
                 /\ c.at = "run" /\ c.master = TRUE /\ c.clients = d.clients
  BY DEF Daemon

\* c is d with w for what it waits for.
IsWaitSet(d, c, w) ==
    /\ c \in Daemon /\ c.wait = w
    /\ c.at = d.at /\ c.master = d.master /\ c.clients = d.clients

LEMMA DaemonWait ==
    ASSUME NEW d \in Daemon, NEW w \in Wait, NEW c, c = [d EXCEPT !.wait = w]
    PROVE  IsWaitSet(d, c, w)
  BY DEF Daemon, IsWaitSet

\* c is d with k for the client n.
IsClientSet(d, c, n, k) ==
    /\ c \in Daemon /\ c.at = d.at /\ c.wait = d.wait /\ c.master = d.master
    /\ c.clients[n] = k
    /\ \A m \in Names : m # n => c.clients[m] = d.clients[m]

LEMMA DaemonClient ==
    ASSUME NEW d \in Daemon, NEW c, NEW n \in Names, NEW k \in Conns \cup {NoConn},
           c = [d EXCEPT !.clients[n] = k]
    PROVE  IsClientSet(d, c, n, k)
<1>1. PICK f : f = [d.clients EXCEPT ![n] = k]
  OBVIOUS
<1>2. /\ f \in [Names -> Conns \cup {NoConn}] /\ f[n] = k
      /\ \A m \in Names : m # n => f[m] = d.clients[m]
  BY <1>1, DaemonFields
<1>3. c = [d EXCEPT !.clients = f]
  BY <1>1
<1>4. /\ c \in Daemon /\ c.at = d.at /\ c.wait = d.wait /\ c.master = d.master
      /\ c.clients = f
  BY <1>2, <1>3 DEF Daemon
<1> QED
  BY <1>2, <1>4 DEF IsClientSet

\* A daemon that ends, and one that is not there.
LEMMA DaemonEnds ==
    /\ NoDaemon \in Daemon /\ NoDaemon.at = "none" /\ NoDaemon.wait = NoWait
    /\ \A n \in Names : NoDaemon.clients[n] = NoConn
    /\ [NoDaemon EXCEPT !.at = "gone"] \in Daemon
    /\ [NoDaemon EXCEPT !.at = "gone"].at = "gone"
  BY DEF NoDaemon, Daemon, Wait

\* The daemon of u has become c.
LEMMA DaemonChange ==
    ASSUME daemon \in [Users -> Daemon], NEW u \in Users, NEW c \in Daemon,
           daemon' = [daemon EXCEPT ![u] = c]
    PROVE  IsChanged(daemon, daemon', u, c, Daemon)
  BY DEF IsChanged

\* A connection changes and stays one.
LEMMA ConnSet ==
    ASSUME NEW c \in Conn, NEW d
    PROVE  /\ c.reqs \in Seq(Req)
           /\ \A a \in {"fd", "trans"} : d = [c EXCEPT !.at = a] => d \in Conn
           /\ d = [c EXCEPT !.joined = TRUE] => d \in Conn
           /\ d = [c EXCEPT !.gone = TRUE] => d \in Conn
           /\ \A q \in Seq(Req) : \A a \in {"interp", "client"} :
                 d = [c EXCEPT !.at = a, !.reqs = q] => d \in Conn
           /\ \A q \in Seq(Req) : \A i \in Nat :
                 d = [c EXCEPT !.reqs = q, !.sent = i] => d \in Conn
  BY DEF Conn

LEMMA ConnEnds == NewConn \in Conn /\ Closed \in Conn
<1>1. NewConn \in Conn
  <2>1. <<>> \in Seq(Req)
    OBVIOUS
  <2> QED
    BY <2>1 DEF NewConn, Conn
<1>2. \A c \in Conn : [c EXCEPT !.at = "closed"] \in Conn
  BY DEF Conn
<1> QED
  BY <1>1, <1>2 DEF Closed

LEMMA ConnChange ==
    ASSUME conn \in [Conns -> Conn], NEW k \in Conns, NEW c \in Conn,
           conn' = [conn EXCEPT ![k] = c]
    PROVE  conn' \in [Conns -> Conn]
  OBVIOUS

\* The next request on a connection.
LEMMA ReqFields ==
    ASSUME NEW c \in Conn, c.reqs # <<>>
    PROVE  /\ Tail(c.reqs) \in Seq(Req)
           /\ Head(c.reqs).op # "terminate" =>
                 /\ Head(c.reqs).n \in Names
                 /\ Head(c.reqs).op \in {"register", "client-up", "client"}
<1>1. c.reqs \in Seq(Req)
  BY ConnSet
<1>2. Head(c.reqs) \in Req /\ Tail(c.reqs) \in Seq(Req)
  BY <1>1
<1>3. ASSUME NEW r \in Req, r.op # "terminate"
      PROVE  r.n \in Names /\ r.op \in {"register", "client-up", "client"}
  <2>1. r # [op |-> "terminate", n |-> ""]
    <3>1. [op |-> "terminate", n |-> ""].op = "terminate"
      OBVIOUS
    <3> QED
      BY <1>3, <3>1, Zenon
  <2>2. r \in [op : {"register", "client-up", "client"}, n : Names]
    BY <2>1 DEF Req
  <2> QED
    BY <2>2
<1> QED
  BY <1>2, <1>3

LEMMA WaitFields ==
    /\ NoWait \in Wait
    /\ \A w \in Wait : w # NoWait =>
          \/ w.k \in Conns /\ w.n \in Names /\ w.for \in {"client-up", "client"}
          \/ w.k \in Conns /\ w.n = Alias /\ w.for = "script"
    /\ \A k \in Conns : \A n \in Names : \A f \in {"client-up", "client"} : \A w :
          w = [k |-> k, n |-> n, for |-> f] => w \in Wait /\ w # NoWait /\ w.n = n
<1>1. NoWait.for = ""
  BY DEF NoWait
<1>2. ASSUME NEW k \in Conns, NEW n \in Names, NEW f \in {"client-up", "client"}, NEW w,
             w = [k |-> k, n |-> n, for |-> f]
      PROVE  w \in Wait /\ w # NoWait /\ w.n = n
  <2>1. w \in Wait /\ w.for = f /\ w.n = n
    BY <1>2 DEF Wait
  <2> QED
    BY <1>1, <2>1
<1>3. ASSUME NEW w \in Wait, w # NoWait
      PROVE  \/ w.k \in Conns /\ w.n \in Names /\ w.for \in {"client-up", "client"}
             \/ w.k \in Conns /\ w.n = Alias /\ w.for = "script"
  BY <1>3 DEF Wait
<1> QED
  BY <1>2, <1>3 DEF Wait

\* The second name that ClientRunning() tries.
LEMMA WaitAlias ==
    ASSUME NEW w \in Wait, w # NoWait, NEW x, x = [w EXCEPT !.n = Alias, !.for = "script"]
    PROVE  x \in Wait /\ x # NoWait /\ x.n = Alias
<1>1. NoWait.for = ""
  BY DEF NoWait
<1>2. w \in [k : Conns, n : Names, for : {"client-up", "client"}]
        \/ w \in [k : Conns, n : {Alias}, for : {"script"}]
  BY DEF Wait
<1>3. x \in [k : Conns, n : {Alias}, for : {"script"}]
  BY <1>2
<1>4. x.for = "script" /\ x.n = Alias
  BY <1>3
<1> QED
  BY <1>1, <1>3, <1>4 DEF Wait

\* What is posted to the server, or lost without one.
Posted(u, e) ==
    /\ up' \in [Users -> Seq(UpMsg)]
    /\ \A v \in Users : v # u => up'[v] = up[v]
    /\ server => IsPushed(up[u], up'[u], e, UpMsg)
    /\ ~server => up'[u] = up[u]

LEMMA PostUpFields ==
    ASSUME up \in [Users -> Seq(UpMsg)], NEW u \in Users, NEW ev, NEW n, NEW e \in UpMsg,
           e = [ev |-> ev, n |-> n], up' = PostUp(u, ev, n)
    PROVE  Posted(u, e)
<1>1. CASE server
  <2>1. PICK q : q = Append(up[u], e)
    OBVIOUS
  <2>2. up' = [up EXCEPT ![u] = q]
    BY <1>1, <2>1 DEF PostUp
  <2>3. IsPushed(up[u], q, e, UpMsg) /\ q \in Seq(UpMsg)
    <3>1. up[u] \in Seq(UpMsg)
      OBVIOUS
    <3>2. IsPushed(up[u], q, e, UpMsg)
      BY <2>1, <3>1, PushFields
    <3> QED
      BY <3>2 DEF IsPushed
  <2>4. IsChanged(up, up', u, q, Seq(UpMsg))
    BY <2>2, <2>3, ChangedFields
  <2> QED
    BY <1>1, <2>3, <2>4 DEF Posted, IsChanged
<1>2. CASE ~server
  BY <1>2 DEF PostUp, Posted
<1> QED
  BY <1>1, <1>2

LEMMA UpMsgs ==
    /\ \A n \in Names : \A v \in {"register", "client", "client-gone"} : \A e :
          e = [ev |-> v, n |-> n] => e \in UpMsg /\ e.ev = v /\ e.n = n
    /\ \A n \in Names \cup {Alias} : \A e :
          e = [ev |-> "client-up", n |-> n] => e \in UpMsg /\ e.ev = "client-up" /\ e.n = n
    /\ \A e \in UpMsg : e.ev \in {"register", "client", "client-gone", "client-up"}
    /\ \A e \in UpMsg : e.ev # "client-up" => e.n \in Names
    /\ \A e \in UpMsg : e.n \in Names \cup {Alias}
<1>1. \A n \in Names : \A v \in {"register", "client", "client-gone"} : \A e :
          e = [ev |-> v, n |-> n] => e \in UpMsg /\ e.ev = v /\ e.n = n
  BY DEF UpMsg
<1>2. \A n \in Names \cup {Alias} : \A e :
          e = [ev |-> "client-up", n |-> n] => e \in UpMsg /\ e.ev = "client-up" /\ e.n = n
  BY DEF UpMsg
<1>3. \A e \in UpMsg : /\ e.ev \in {"register", "client", "client-gone", "client-up"}
                       /\ e.ev # "client-up" => e.n \in Names
                       /\ e.n \in Names \cup {Alias}
  BY DEF UpMsg
<1> QED
  BY <1>1, <1>2, <1>3

\* What is sent to a daemon that runs.
Sent(u, e) ==
    /\ down' \in [Users -> Seq(DownMsg)]
    /\ \A v \in Users : v # u => down'[v] = down[v]
    /\ daemon[u].at = "run" => IsPushed(down[u], down'[u], e, DownMsg)
    /\ daemon[u].at # "run" => down'[u] = down[u]

LEMMA PostDownFields ==
    ASSUME down \in [Users -> Seq(DownMsg)], NEW u \in Users, NEW e \in DownMsg,
           down' = PostDown(u, e)
    PROVE  Sent(u, e)
<1>1. CASE daemon[u].at = "run"
  <2>1. PICK q : q = Append(down[u], e)
    OBVIOUS
  <2>2. down' = [down EXCEPT ![u] = q]
    BY <1>1, <2>1 DEF PostDown
  <2>3. IsPushed(down[u], q, e, DownMsg) /\ q \in Seq(DownMsg)
    <3>1. down[u] \in Seq(DownMsg)
      OBVIOUS
    <3>2. IsPushed(down[u], q, e, DownMsg)
      BY <2>1, <3>1, PushFields
    <3> QED
      BY <3>2 DEF IsPushed
  <2>4. IsChanged(down, down', u, q, Seq(DownMsg))
    BY <2>2, <2>3, ChangedFields
  <2> QED
    BY <1>1, <2>3, <2>4 DEF Sent, IsChanged
<1>2. CASE daemon[u].at # "run"
  BY <1>2 DEF PostDown, Sent
<1> QED
  BY <1>1, <1>2

LEMMA DownMsgs ==
    /\ \A n \in Names : \A e : e = [ev |-> "client", n |-> n, val |-> TRUE] =>
          e \in DownMsg /\ e.ev = "client"
    /\ \A n \in Names \cup {Alias} : \A b \in BOOLEAN : \A e :
          e = [ev |-> "reply", n |-> n, val |-> b] => e \in DownMsg /\ e.ev = "reply" /\ e.n = n
    /\ \A e \in DownMsg : e.ev \in {"client", "reply"}
<1>1. \A n \in Names : \A e : e = [ev |-> "client", n |-> n, val |-> TRUE] =>
          e \in DownMsg /\ e.ev = "client"
  BY DEF DownMsg
<1>2. \A n \in Names \cup {Alias} : \A b \in BOOLEAN : \A e :
          e = [ev |-> "reply", n |-> n, val |-> b] => e \in DownMsg /\ e.ev = "reply" /\ e.n = n
  BY DEF DownMsg
<1>3. \A e \in DownMsg : e.ev \in {"client", "reply"}
  BY DEF DownMsg
<1> QED
  BY <1>1, <1>2, <1>3

-----------------------------------------------------------------------------
(* The invariant.                                                          *)

\* What the server has entered for n, what u's daemon has posted of it and
\* what it has, agree.
Follows(q, n, s, u, d) ==
    /\ Known(q, n, s, u)
    /\ d.at = "run" => Latest(q, n, s, u, d.clients[n])

Matters(n, C) == n \in Names /\ ShareOf[n] # "USER" /\ n \notin C

Answers(u) ==
    u \notin mixed /\ daemon[u].at = "run" => Question(up[u], down[u], daemon[u].wait)

Entries(u) ==
    /\ daemon[u].at = "none" => ~Listed(world, group, u)
    /\ server => \A n : Matters(n, contested) =>
                    Follows(up[u], n, Slot(world, group, u, n), u, daemon[u])

UserInv(u) == LifeOf(u) /\ Answers(u) /\ Entries(u)

IInv ==
    /\ TypeInv
    /\ Shares(world, group)
    /\ \A u \in Users : UserInv(u)

LEMMA FollowsSame ==
    ASSUME NEW q, NEW n, NEW s, NEW t, NEW u, NEW d, s = u <=> t = u,
           Follows(q, n, s, u, d)
    PROVE  Follows(q, n, t, u, d)
  BY DEF Follows, Known, Latest

LEMMA FollowsEmpty ==
    ASSUME NEW q, q = <<>>, NEW n, NEW s, NEW u, NEW d,
           d.at = "run" => (s = u <=> d.clients[n] # NoConn)
    PROVE  Follows(q, n, s, u, d)
<1>1. \A i \in 1..Len(q) : FALSE
  OBVIOUS
<1> QED
  BY <1>1 DEF Follows, Known, Latest

\* A user a step says nothing to, or only a "client" event.
LEMMA Untouched ==
    ASSUME TypeInv, NEW v \in Users, UserInv(v),
           daemon'[v] = daemon[v], up'[v] = up[v], server' = server,
           mixed \subseteq mixed', contested \subseteq contested',
           \/ down'[v] = down[v]
           \/ /\ daemon[v].at = "run"
              /\ \E e : e.ev = "client" /\ IsPushed(down[v], down'[v], e, DownMsg),
           ~Listed(world, group, v) => ~Listed(world', group', v),
           \A n : Matters(n, contested') =>
              (Slot(world, group, v, n) = v <=> Slot(world', group', v, n) = v)
    PROVE  UserInv(v)'
<1>1. LifeOf(v)'
  BY DEF UserInv, LifeOf
<1>2. Answers(v)'
  <2>1. CASE down'[v] = down[v]
    BY <2>1 DEF UserInv, Answers
  <2>2. ASSUME NEW e, e.ev = "client", IsPushed(down[v], down'[v], e, DownMsg)
        PROVE  Answers(v)'
    <3> SUFFICES ASSUME v \notin mixed, daemon[v].at = "run"
                 PROVE  Question(up[v], down'[v], daemon[v].wait)
      BY DEF Answers
    <3>1. Question(up[v], down[v], daemon[v].wait)
      BY DEF UserInv, Answers
    <3>2. e.ev # "reply"
      BY <2>2
    <3> QED
      BY <2>2, <3>1, <3>2, QuestionOther
  <2> QED
    BY <2>1, <2>2
<1>3. Entries(v)'
  <2>1. daemon'[v].at = "none" => ~Listed(world', group', v)
    BY DEF UserInv, Entries
  <2>2. ASSUME server', NEW n, Matters(n, contested')
        PROVE  Follows(up'[v], n, Slot(world', group', v, n), v, daemon'[v])
    <3>1. Matters(n, contested)
      BY <2>2 DEF Matters
    <3>2. Follows(up[v], n, Slot(world, group, v, n), v, daemon[v])
      BY <2>2, <3>1 DEF UserInv, Entries
    <3>3. Slot(world, group, v, n) = v <=> Slot(world', group', v, n) = v
      BY <2>2
    <3>4. Follows(up[v], n, Slot(world', group', v, n), v, daemon[v])
      BY <3>2, <3>3, FollowsSame
    <3> QED
      BY <3>4
  <2> QED
    BY <2>1, <2>2 DEF Entries
<1> QED
  BY <1>1, <1>2, <1>3 DEF UserInv

\* A step of user u's daemon alone.
Only(u) ==
    /\ server' = server /\ world' = world /\ group' = group
    /\ contested' = contested /\ mixed \subseteq mixed'
    /\ \A v \in Users : v # u =>
          daemon'[v] = daemon[v] /\ up'[v] = up[v] /\ down'[v] = down[v]

LEMMA OnlyStep ==
    ASSUME IInv, TypeInv', NEW u \in Users, Only(u), UserInv(u)'
    PROVE  IInv'
<1>1. Shares(world, group)'
  BY DEF IInv, Only
<1>2. ASSUME NEW v \in Users, v # u PROVE UserInv(v)'
  <2>1. /\ daemon'[v] = daemon[v] /\ up'[v] = up[v] /\ server' = server
        /\ down'[v] = down[v] /\ mixed \subseteq mixed' /\ contested' = contested
        /\ world' = world /\ group' = group
    BY <1>2 DEF Only
  <2>2. TypeInv /\ UserInv(v)
    BY DEF IInv
  <2> QED
    BY <2>1, <2>2, Untouched
<1> QED
  BY <1>1, <1>2 DEF IInv

-----------------------------------------------------------------------------
(* The steps of a user's daemon.                                           *)

\* A daemon that does not wait posts something, and its wait and what it is
\* sent stay as they are.
LEMMA AnswersPosted ==
    ASSUME NEW u \in Users, Answers(u), mixed' = mixed, down'[u] = down[u],
           daemon'[u].wait = daemon[u].wait, daemon'[u].at = daemon[u].at,
           NEW e, e.ev # "client-up", up'[u] = up[u] \/ Posted(u, e)
    PROVE  Answers(u)'
<1> SUFFICES ASSUME u \notin mixed, daemon[u].at = "run"
             PROVE  Question(up'[u], down[u], daemon[u].wait)
  BY DEF Answers
<1>1. Question(up[u], down[u], daemon[u].wait)
  BY DEF Answers
<1>2. up'[u] = up[u] \/ IsPushed(up[u], up'[u], e, UpMsg)
  BY DEF Posted
<1> QED
  BY <1>1, <1>2, QuestionOther

\* A client of u's daemon has changed to k, and the server is told with e.
ClientChange(u, n, k, e) ==
    /\ TypeInv' /\ Only(u) /\ mixed' = mixed /\ down' = down
    /\ daemon[u].at = "run" /\ daemon[u].wait = NoWait
    /\ n \in Names /\ IsClientSet(daemon[u], daemon'[u], n, k)
    /\ up'[u] = up[u] \/ Posted(u, e)
    /\ ShareOf[n] # "USER" /\ daemon[u].master => Posted(u, e)

LEMMA ClientChanged ==
    ASSUME TypeInv, NEW u \in Users, NEW n \in Names, NEW k \in Conns \cup {NoConn},
           Running(u), daemon' = [daemon EXCEPT ![u].clients[n] = k],
           NEW e, up' = up \/ Posted(u, e),
           ShareOf[n] # "USER" /\ daemon[u].master => Posted(u, e),
           conn' \in [Conns -> Conn],
           UNCHANGED <<server, world, group, down, fds, mixed, contested, heirs>>
    PROVE  ClientChange(u, n, k, e)
<1>1. PICK c : c = daemon[u]
  OBVIOUS
<1>2. PICK d : d = [c EXCEPT !.clients[n] = k]
  OBVIOUS
<1>3. c \in Daemon
  BY <1>1 DEF TypeInv
<1>4. IsClientSet(c, d, n, k)
  BY <1>2, <1>3, DaemonClient
<1>5. daemon' = [daemon EXCEPT ![u] = d] /\ d \in Daemon
  BY <1>1, <1>2, <1>4 DEF IsClientSet
<1>6. IsChanged(daemon, daemon', u, d, Daemon)
  BY <1>5, DaemonChange DEF TypeInv
<1>7. daemon'[u] = d /\ daemon' \in [Users -> Daemon]
  BY <1>6 DEF IsChanged
<1>8. up' \in [Users -> Seq(UpMsg)] /\ \A v \in Users : v # u => up'[v] = up[v]
  BY DEF Posted, TypeInv
<1>9. TypeInv'
  BY <1>7, <1>8 DEF TypeInv
<1>10. Only(u)
  BY <1>6, <1>8 DEF Only, IsChanged
<1> QED
  BY <1>1, <1>4, <1>7, <1>9, <1>10 DEF ClientChange, Running

\* A shared client registers.
LEMMA RegisterEffect ==
    ASSUME TypeInv, NEW k \in Conns, UserRegister(k)
    PROVE  \E n \in Names : \E e : /\ ClientChange(UserOf[k], n, k, e)
                                   /\ e.ev = "register" /\ e.n = n
<1>1. PICK u : u = UserOf[k]
  OBVIOUS
<1>2. PICK n : n = Head(conn[k].reqs).n
  OBVIOUS
<1>3. /\ Running(u) /\ conn[k].reqs # <<>> /\ Head(conn[k].reqs).op = "register"
      /\ daemon' = [daemon EXCEPT ![u].clients[n] = k]
      /\ conn' = [conn EXCEPT ![k].at = "client", ![k].reqs = Tail(@)]
      /\ up' = IF daemon[u].master /\ ShareOf[n] \in {"GROUP", "WORLD"}
               THEN PostUp(u, "register", n) ELSE up
      /\ UNCHANGED <<server, world, group, down, fds, mixed, contested, heirs>>
  BY <1>1, <1>2 DEF UserRegister
<1>4. u \in Users /\ conn[k] \in Conn
  BY <1>1, GlishdAssumption DEF TypeInv
<1>5. n \in Names /\ Tail(conn[k].reqs) \in Seq(Req)
  BY <1>2, <1>3, <1>4, ReqFields
<1>6. conn' \in [Conns -> Conn]
  <2>1. PICK c : c = [conn[k] EXCEPT !.at = "client", !.reqs = Tail(conn[k].reqs)]
    OBVIOUS
  <2>2. c \in Conn
    BY <1>4, <1>5, <2>1, ConnSet
  <2>3. conn' = [conn EXCEPT ![k] = c]
    BY <1>3, <2>1
  <2> QED
    BY <2>2, <2>3, ConnChange DEF TypeInv
<1>7. PICK e : e = [ev |-> "register", n |-> n]
  OBVIOUS
<1>8. e \in UpMsg /\ e.ev = "register" /\ e.n = n
  BY <1>5, <1>7, UpMsgs
<1>9. /\ up' = up \/ Posted(u, e)
      /\ ShareOf[n] # "USER" /\ daemon[u].master => Posted(u, e)
  <2>1. ASSUME up' = PostUp(u, "register", n) PROVE Posted(u, e)
    BY <1>4, <1>7, <1>8, <2>1, PostUpFields DEF TypeInv
  <2>2. ShareOf[n] # "USER" => ShareOf[n] \in {"GROUP", "WORLD"}
    BY <1>5, GlishdAssumption
  <2> QED
    BY <1>3, <2>1, <2>2
<1>10. ClientChange(u, n, k, e)
  BY <1>3, <1>4, <1>5, <1>6, <1>9, ClientChanged
<1> QED
  BY <1>1, <1>5, <1>8, <1>10

\* What a change of a client leaves as it is.
LEMMA ChangeStep ==
    ASSUME IInv, NEW u \in Users, NEW n \in Names, NEW k, NEW e, ClientChange(u, n, k, e),
           e.n = n,
           \/ e.ev = "register" /\ k # NoConn
           \/ e.ev = "client-gone" /\ k = NoConn /\ daemon[u].clients[n] # NoConn
    PROVE  IInv'
<1>1. TypeInv /\ UserInv(u)
  BY DEF IInv
<1>2. TypeInv' /\ Only(u) /\ mixed' = mixed
  BY DEF ClientChange
<1>3. /\ daemon[u].at = "run" /\ daemon'[u].at = "run"
      /\ daemon'[u].wait = daemon[u].wait /\ daemon'[u].master = daemon[u].master
      /\ daemon'[u].clients[n] = k
      /\ \A m \in Names : m # n => daemon'[u].clients[m] = daemon[u].clients[m]
      /\ down' = down
      /\ up'[u] = up[u] \/ Posted(u, e)
      /\ ShareOf[n] # "USER" /\ daemon[u].master => Posted(u, e)
  BY DEF ClientChange, IsClientSet
<1>4. LifeOf(u)'
  <2>1. ~server => up'[u] = <<>>
    BY <1>1, <1>3 DEF UserInv, LifeOf, Posted
  <2> QED
    BY <1>1, <1>2, <1>3, <2>1 DEF UserInv, LifeOf, Only
<1>5. Answers(u)'
  <2>1. e.ev # "client-up" /\ Answers(u)
    BY <1>1, <1>3 DEF UserInv
  <2> QED
    BY <1>1, <1>2, <1>3, <2>1, AnswersPosted
<1>6. ASSUME server', NEW m, Matters(m, contested')
      PROVE  Follows(up'[u], m, Slot(world', group', u, m), u, daemon'[u])
  <2>1. PICK s : s = Slot(world, group, u, m)
    OBVIOUS
  <2>2. /\ Slot(world', group', u, m) = s /\ m \in Names /\ ShareOf[m] # "USER"
        /\ Matters(m, contested) /\ server
    BY <1>2, <1>6, <2>1 DEF Only, Matters
  <2>3. Known(up[u], m, s, u) /\ Latest(up[u], m, s, u, daemon[u].clients[m])
    BY <1>1, <1>3, <2>1, <2>2 DEF UserInv, Entries, Follows
  <2>4. CASE m = n
    <3>1. daemon[u].master = TRUE
      BY <1>1, <1>3, <2>2 DEF UserInv, LifeOf
    <3>2. IsPushed(up[u], up'[u], e, UpMsg)
      BY <1>3, <2>2, <2>4, <3>1 DEF Posted
    <3>3. CASE e.ev = "register" /\ k # NoConn
      <4>1. IsReg(e, m) /\ ~IsGone(e, m)
        BY <2>4, <3>3 DEF IsReg, IsGone
      <4>2. Known(up'[u], m, s, u)
        BY <2>3, <3>2, <4>1, KnownPushed
      <4>3. Latest(up'[u], m, s, u, k)
        BY <3>2, <3>3, <4>1, LatestPushed
      <4> QED
        BY <1>3, <2>2, <2>4, <4>2, <4>3 DEF Follows
    <3>4. CASE e.ev = "client-gone" /\ k = NoConn /\ daemon[u].clients[n] # NoConn
      <4>1. IsGone(e, m)
        BY <2>4, <3>4 DEF IsGone
      <4>2. Known(up'[u], m, s, u)
        BY <2>3, <2>4, <3>2, <3>4, <4>1, KnownGone
      <4>3. Latest(up'[u], m, s, u, NoConn)
        BY <3>2, <4>1, LatestPushed
      <4> QED
        BY <1>3, <2>2, <2>4, <3>4, <4>2, <4>3 DEF Follows
    <3> QED
      BY <3>3, <3>4
  <2>5. CASE m # n
    <3>1. Silent(e, m) /\ ~IsGone(e, m)
      BY <1>3, <2>5 DEF Silent, IsReg, IsGone
    <3>2. up'[u] = up[u] \/ IsPushed(up[u], up'[u], e, UpMsg)
      BY <1>3, <2>2 DEF Posted
    <3>3. Known(up'[u], m, s, u)
      BY <2>3, <3>1, <3>2, KnownPushed
    <3>4. Latest(up'[u], m, s, u, daemon[u].clients[m])
      <4>1. CASE up'[u] = up[u]
        BY <2>3, <4>1
      <4>2. CASE IsPushed(up[u], up'[u], e, UpMsg)
        <5>1. \A x : Latest(up[u], m, s, u, x) => Latest(up'[u], m, s, u, x)
          BY <3>1, <4>2, LatestPushed
        <5> QED
          BY <2>3, <5>1
      <4> QED
        BY <3>2, <4>1, <4>2
    <3>5. daemon'[u].clients[m] = daemon[u].clients[m]
      BY <1>3, <2>2, <2>5
    <3> QED
      BY <2>2, <3>3, <3>4, <3>5 DEF Follows
  <2> QED
    BY <2>4, <2>5
<1>7. Entries(u)'
  BY <1>3, <1>6 DEF Entries
<1> QED
  BY <1>2, <1>4, <1>5, <1>7, OnlyStep DEF UserInv

LEMMA RegisterStep ==
    ASSUME IInv, NEW k \in Conns, UserRegister(k)
    PROVE  IInv'
<1>1. TypeInv /\ UserOf[k] \in Users /\ k # NoConn
  BY GlishdAssumption, NoneAssumption DEF IInv
<1>2. PICK n \in Names : \E e : /\ ClientChange(UserOf[k], n, k, e)
                                /\ e.ev = "register" /\ e.n = n
  BY <1>1, RegisterEffect
<1> QED
  BY <1>1, <1>2, ChangeStep

\* dUser::ProcessClients(): a shared client has ended.
LEMMA ClientGoneStep ==
    ASSUME IInv, NEW u \in Users, NEW n \in Names, UserClientGone(u, n)
    PROVE  IInv'
<1>1. PICK k : k = daemon[u].clients[n]
  OBVIOUS
<1>2. /\ Running(u) /\ k # NoConn
      /\ up' = IF daemon[u].master THEN PostUp(u, "client-gone", n) ELSE up
      /\ daemon' = [daemon EXCEPT ![u].clients[n] = NoConn]
      /\ conn' = [conn EXCEPT ![k] = Closed]
      /\ UNCHANGED <<server, world, group, down, fds, mixed, contested, heirs>>
  BY <1>1 DEF UserClientGone
<1>3. TypeInv
  BY DEF IInv
<1>4. daemon[u].clients \in [Names -> Conns \cup {NoConn}]
  BY <1>3, DaemonFields DEF TypeInv
<1>5. k \in Conns
  BY <1>1, <1>2, <1>4
<1>6. conn' \in [Conns -> Conn]
  BY <1>2, <1>3, <1>5, ConnChange, ConnEnds DEF TypeInv
<1>7. PICK e : e = [ev |-> "client-gone", n |-> n]
  OBVIOUS
<1>8. e \in UpMsg /\ e.ev = "client-gone" /\ e.n = n
  BY <1>7, UpMsgs
<1>9. /\ up' = up \/ Posted(u, e)
      /\ ShareOf[n] # "USER" /\ daemon[u].master => Posted(u, e)
  <2>1. ASSUME up' = PostUp(u, "client-gone", n) PROVE Posted(u, e)
    BY <1>3, <1>7, <1>8, <2>1, PostUpFields DEF TypeInv
  <2> QED
    BY <1>2, <2>1
<1>10. ClientChange(u, n, NoConn, e)
  BY <1>2, <1>3, <1>6, <1>9, ClientChanged
<1> QED
  BY <1>1, <1>2, <1>8, <1>10, ChangeStep

\* A step that leaves what u's daemon holds of clients as it is, and posts
\* nothing about them.
LEMMA EntriesKept ==
    ASSUME NEW u \in Users, Entries(u), Only(u), daemon[u].at = "run", daemon'[u].at = "run",
           daemon'[u].clients = daemon[u].clients, NEW e,
           e.ev \notin {"register", "client-gone"}, up'[u] = up[u] \/ Posted(u, e)
    PROVE  Entries(u)'
<1>1. ASSUME server', NEW m, Matters(m, contested')
      PROVE  Follows(up'[u], m, Slot(world', group', u, m), u, daemon'[u])
  <2>1. PICK s : s = Slot(world, group, u, m)
    OBVIOUS
  <2>2. Slot(world', group', u, m) = s /\ Matters(m, contested) /\ server
    BY <1>1, <2>1 DEF Only
  <2>3. Known(up[u], m, s, u) /\ Latest(up[u], m, s, u, daemon[u].clients[m])
    BY <2>1, <2>2 DEF Entries, Follows
  <2>4. CASE up'[u] = up[u]
    BY <2>2, <2>3, <2>4 DEF Follows
  <2>5. CASE IsPushed(up[u], up'[u], e, UpMsg)
    <3>1. Silent(e, m) /\ ~IsGone(e, m)
      BY DEF Silent, IsReg, IsGone
    <3>2. Known(up'[u], m, s, u)
      BY <2>3, <2>5, <3>1, KnownPushed
    <3>3. \A x : Latest(up[u], m, s, u, x) => Latest(up'[u], m, s, u, x)
      BY <2>5, <3>1, LatestPushed
    <3> QED
      BY <2>2, <2>3, <3>2, <3>3 DEF Follows
  <2> QED
    BY <2>2, <2>4, <2>5 DEF Posted
<1> QED
  BY <1>1 DEF Entries

\* A request of an interpreter: it is answered here, or the server is asked.
LEMMA RequestStep ==
    ASSUME IInv, NEW k \in Conns, UserRequest(k)
    PROVE  IInv'
<1>1. PICK u : u = UserOf[k]
  OBVIOUS
<1>2. PICK r : r = Head(conn[k].reqs)
  OBVIOUS
<1>3. /\ Running(u) /\ conn[k].reqs # <<>> /\ r.op \in {"client-up", "client"}
      /\ conn' = [conn EXCEPT ![k].at = "interp", ![k].reqs = Tail(@)]
      /\ LookupClient(k, r)
      /\ UNCHANGED <<server, world, group, down, fds, mixed, contested, heirs>>
  BY <1>1, <1>2 DEF UserRequest
<1>4. TypeInv /\ u \in Users /\ UserInv(u) /\ conn[k] \in Conn
  BY <1>1, GlishdAssumption DEF IInv, TypeInv
<1>5. r.n \in Names /\ Tail(conn[k].reqs) \in Seq(Req)
  BY <1>2, <1>3, <1>4, ReqFields
<1>6. conn' \in [Conns -> Conn]
  <2>1. PICK c : c = [conn[k] EXCEPT !.at = "interp", !.reqs = Tail(conn[k].reqs)]
    OBVIOUS
  <2>2. c \in Conn
    BY <1>4, <1>5, <2>1, ConnSet
  <2>3. conn' = [conn EXCEPT ![k] = c]
    BY <1>3, <2>1
  <2> QED
    BY <1>4, <2>2, <2>3, ConnChange DEF TypeInv
<1>7. CASE UNCHANGED <<daemon, up>>
  <2>1. TypeInv' /\ Only(u) /\ UserInv(u)'
    BY <1>3, <1>4, <1>6, <1>7 DEF TypeInv, Only, UserInv, LifeOf, Answers, Entries
  <2> QED
    BY <1>4, <2>1, OnlyStep
<1>8. CASE /\ daemon' = [daemon EXCEPT ![u].wait = [k |-> k, n |-> r.n, for |-> r.op]]
           /\ up' = PostUp(u, "client-up", r.n)
  <2>1. PICK w : w = [k |-> k, n |-> r.n, for |-> r.op]
    OBVIOUS
  <2>2. w \in Wait /\ w # NoWait /\ w.n = r.n
    BY <1>3, <1>5, <2>1, WaitFields
  <2>3. PICK d : d = [daemon[u] EXCEPT !.wait = w]
    OBVIOUS
  <2>4. daemon[u] \in Daemon
    BY <1>4 DEF TypeInv
  <2>5. /\ d \in Daemon /\ d.wait = w /\ d.at = daemon[u].at
        /\ d.master = daemon[u].master /\ d.clients = daemon[u].clients
    BY <2>2, <2>3, <2>4, DaemonWait DEF IsWaitSet
  <2>6. daemon' = [daemon EXCEPT ![u] = d]
    BY <1>8, <2>1, <2>3
  <2>7. IsChanged(daemon, daemon', u, d, Daemon)
    BY <1>4, <2>5, <2>6, DaemonChange DEF TypeInv
  <2>8. daemon'[u] = d /\ daemon' \in [Users -> Daemon]
    BY <2>7 DEF IsChanged
  <2>9. PICK e : e = [ev |-> "client-up", n |-> r.n]
    OBVIOUS
  <2>10. e \in UpMsg /\ e.ev = "client-up" /\ e.n = r.n
    BY <1>5, <2>9, UpMsgs
  <2>11. Posted(u, e)
    BY <1>4, <1>8, <2>9, <2>10, PostUpFields DEF TypeInv
  <2>12. TypeInv'
    BY <1>3, <1>4, <1>6, <2>8, <2>11 DEF TypeInv, Posted
  <2>13. Only(u)
    BY <1>3, <2>7, <2>11 DEF Only, IsChanged, Posted
  <2>14. LifeOf(u)'
    <3>1. ~server => up'[u] = <<>>
      BY <1>4, <2>11 DEF UserInv, LifeOf, Posted
    <3>2. daemon'[u].at = "run" /\ daemon[u].at = "run"
      BY <1>3, <2>5, <2>8 DEF Running
    <3> QED
      BY <1>3, <1>4, <2>5, <2>8, <3>1, <3>2 DEF UserInv, LifeOf
  <2>15. Answers(u)'
    <3> SUFFICES ASSUME u \notin mixed PROVE Question(up'[u], down[u], w)
      BY <1>3, <2>5, <2>8 DEF Answers
    <3>1. Question(up[u], down[u], NoWait)
      BY <1>3, <1>4 DEF UserInv, Answers, Running
    <3>2. NoAsk(up[u]) /\ NoReply(down[u])
      BY <3>1, QuestionNoWait
    <3>3. CASE server
      <4>1. IsPushed(up[u], up'[u], e, UpMsg) /\ e.n = w.n
        BY <2>2, <2>10, <2>11, <3>3 DEF Posted
      <4> QED
        BY <2>2, <3>2, <4>1, QuestionAsked
    <3>4. CASE ~server
      BY <2>11, <3>2, <3>4, QuestionIdle DEF Posted
    <3> QED
      BY <3>3, <3>4
  <2>16. Entries(u)'
    <3>1. daemon[u].at = "run" /\ daemon'[u].at = "run" /\ daemon'[u].clients = daemon[u].clients
      BY <1>3, <2>5, <2>8 DEF Running
    <3>2. e.ev \notin {"register", "client-gone"}
      BY <2>10
    <3> QED
      BY <1>4, <2>11, <2>13, <3>1, <3>2, EntriesKept DEF UserInv
  <2> QED
    BY <1>4, <2>12, <2>13, <2>14, <2>15, <2>16, OnlyStep DEF UserInv
<1> QED
  BY <1>1, <1>3, <1>7, <1>8 DEF LookupClient

\* LookupClientInMaster(): the next event is taken for the answer.
LEMMA AnswerStep ==
    ASSUME IInv, NEW u \in Users, UserAnswer(u)
    PROVE  IInv'
<1>1. PICK w : w = daemon[u].wait
  OBVIOUS
<1>2. PICK e : e = IF down[u] = <<>> THEN [ev |-> "eof", n |-> w.n, val |-> FALSE]
                   ELSE Head(down[u])
  OBVIOUS
<1>3. PICK found : found = (e.ev = "reply" /\ e.val)
  OBVIOUS
<1>4. PICK again : again = (w.for = "client-up" /\ ~found)
  OBVIOUS
<1>5. PICK x : x = IF again THEN [w EXCEPT !.n = Alias, !.for = "script"] ELSE NoWait
  OBVIOUS
<1>6. /\ daemon[u].at = "run" /\ w # NoWait
      /\ down[u] # <<>> \/ MasterEof(u)
      /\ down' = [down EXCEPT ![u] = IF @ = <<>> THEN @ ELSE Tail(@)]
      /\ daemon' = [daemon EXCEPT ![u].wait = x]
      /\ up' = IF again THEN PostUp(u, "client-up", Alias)
               ELSE IF w.for = "client" /\ found THEN PostUp(u, "client", w.n)
               ELSE up
      /\ mixed' = IF e.ev = "client" \/ e.n # w.n THEN mixed \cup {u} ELSE mixed
      /\ UNCHANGED <<server, world, group, fds, heirs, conn, contested>>
  BY <1>1, <1>2, <1>3, <1>4, <1>5 DEF UserAnswer
<1>7. TypeInv /\ UserInv(u) /\ daemon[u] \in Daemon
  BY DEF IInv, TypeInv
<1>8. w \in Wait
  BY <1>1, <1>7, DaemonFields
<1>9. x \in Wait /\ (again => x # NoWait /\ x.n = Alias) /\ (~again => x = NoWait)
  <2>1. CASE again
    BY <1>5, <1>6, <1>8, <2>1, WaitAlias
  <2>2. CASE ~again
    BY <1>5, <2>2, WaitFields
  <2> QED
    BY <2>1, <2>2
<1>10. PICK d : d = [daemon[u] EXCEPT !.wait = x]
  OBVIOUS
<1>11. /\ d \in Daemon /\ d.wait = x /\ d.at = daemon[u].at
       /\ d.master = daemon[u].master /\ d.clients = daemon[u].clients
  BY <1>7, <1>9, <1>10, DaemonWait DEF IsWaitSet
<1>12. daemon' = [daemon EXCEPT ![u] = d]
  BY <1>6, <1>10
<1>13. IsChanged(daemon, daemon', u, d, Daemon)
  BY <1>7, <1>11, <1>12, DaemonChange DEF TypeInv
<1>14. daemon'[u] = d /\ daemon' \in [Users -> Daemon]
  BY <1>13 DEF IsChanged
<1>15. PICK q : q = IF down[u] = <<>> THEN down[u] ELSE Tail(down[u])
  OBVIOUS
<1>16. down[u] \in Seq(DownMsg)
  BY <1>7 DEF TypeInv
<1>17. /\ q \in Seq(DownMsg)
       /\ down[u] # <<>> => IsTail(down[u], q, DownMsg) /\ e = down[u][1] /\ e \in DownMsg
       /\ down[u] = <<>> => q = <<>>
  <2>1. CASE down[u] = <<>>
    BY <1>15, <1>16, <2>1
  <2>2. CASE down[u] # <<>>
    <3>1. IsTail(down[u], q, DownMsg)
      BY <1>15, <1>16, <2>2, TailFields
    <3> QED
      BY <1>2, <2>2, <3>1 DEF IsTail
  <2> QED
    BY <2>1, <2>2
<1>18. IsChanged(down, down', u, q, Seq(DownMsg))
  <2>1. down' = [down EXCEPT ![u] = q]
    BY <1>6, <1>15
  <2> QED
    BY <1>7, <1>17, <2>1, ChangedFields DEF TypeInv
<1>19. PICK a : a = [ev |-> "client-up", n |-> Alias]
  OBVIOUS
<1>20. PICK c : c = [ev |-> "client", n |-> w.n]
  OBVIOUS
<1>21. a \in UpMsg /\ a.ev = "client-up" /\ a.n = Alias
  BY <1>19, UpMsgs
<1>22. again => Posted(u, a)
  BY <1>6, <1>7, <1>19, <1>21, PostUpFields DEF TypeInv
<1>23. ~again => up' = up \/ (Posted(u, c) /\ c.ev = "client")
  <2>1. ASSUME ~again, up' # up PROVE Posted(u, c) /\ c.ev = "client"
    <3>1. w.for = "client" /\ up' = PostUp(u, "client", w.n)
      BY <1>6, <2>1
    <3>2. w.n \in Names
      BY <1>6, <1>8, <3>1, WaitFields
    <3>3. c \in UpMsg /\ c.ev = "client"
      BY <1>20, <3>2, UpMsgs
    <3> QED
      BY <1>7, <1>20, <3>1, <3>3, PostUpFields DEF TypeInv
  <2> QED
    BY <2>1
<1>24. up' \in [Users -> Seq(UpMsg)] /\ \A v \in Users : v # u => up'[v] = up[v]
  BY <1>7, <1>22, <1>23 DEF Posted, TypeInv
<1>25. TypeInv'
  BY <1>6, <1>7, <1>14, <1>18, <1>24 DEF TypeInv, IsChanged
<1>26. Only(u)
  BY <1>6, <1>13, <1>18, <1>24 DEF Only, IsChanged
<1>27. daemon'[u].at = "run" /\ daemon'[u].clients = daemon[u].clients /\ daemon'[u].wait = x
       /\ daemon'[u].master = daemon[u].master
  BY <1>6, <1>11, <1>14
<1>28. LifeOf(u)'
  <2>1. ~server => up'[u] = <<>>
    BY <1>7, <1>22, <1>23 DEF UserInv, LifeOf, Posted
  <2> QED
    BY <1>6, <1>7, <1>27, <2>1 DEF UserInv, LifeOf
<1>29. Answers(u)'
  <2> SUFFICES ASSUME u \notin mixed' PROVE Question(up'[u], q, x)
    BY <1>18, <1>27 DEF Answers, IsChanged
  <2>1. u \notin mixed /\ e.ev # "client"
    BY <1>6
  <2>2. Question(up[u], down[u], w)
    BY <1>1, <1>6, <1>7, <2>1 DEF UserInv, Answers
  <2>3. NoAsk(up[u]) /\ NoReply(q)
    <3>1. CASE down[u] = <<>>
      <4>1. ~server
        BY <1>6, <3>1 DEF MasterEof
      <4>2. up[u] = <<>> /\ q = <<>>
        BY <1>7, <1>17, <3>1, <4>1 DEF UserInv, LifeOf
      <4> QED
        BY <4>2 DEF NoAsk, NoReply
    <3>2. CASE down[u] # <<>>
      <4>1. down[u][1].ev = "reply"
        BY <1>17, <2>1, <3>2, DownMsgs
      <4> QED
        BY <1>17, <2>2, <3>2, <4>1, QuestionTaken
    <3> QED
      BY <3>1, <3>2
  <2>4. Question(up[u], q, x)
    BY <2>3, QuestionIdle
  <2>5. CASE up'[u] = up[u]
    BY <2>4, <2>5
  <2>6. CASE again /\ IsPushed(up[u], up'[u], a, UpMsg)
    <3>1. a.n = x.n /\ x # NoWait
      BY <1>9, <1>21, <2>6
    <3> QED
      BY <2>3, <2>6, <3>1, QuestionAsked
  <2>7. CASE c.ev = "client" /\ IsPushed(up[u], up'[u], c, UpMsg)
    <3>1. c.ev # "client-up"
      BY <2>7
    <3> QED
      BY <2>4, <2>7, <3>1, QuestionOther
  <2> QED
    BY <1>22, <1>23, <2>5, <2>6, <2>7 DEF Posted
<1>30. Entries(u)'
  <2>1. CASE again
    <3>1. a.ev \notin {"register", "client-gone"}
      BY <1>21
    <3> QED
      BY <1>6, <1>7, <1>22, <1>26, <1>27, <2>1, <3>1, EntriesKept DEF UserInv
  <2>2. CASE up' = up
    <3>1. a.ev \notin {"register", "client-gone"} /\ up'[u] = up[u]
      BY <1>21, <2>2
    <3> QED
      BY <1>6, <1>7, <1>26, <1>27, <3>1, EntriesKept DEF UserInv
  <2>3. CASE Posted(u, c) /\ c.ev = "client"
    <3>1. c.ev \notin {"register", "client-gone"}
      BY <2>3
    <3> QED
      BY <1>6, <1>7, <1>26, <1>27, <2>3, <3>1, EntriesKept DEF UserInv
  <2> QED
    BY <1>23, <2>1, <2>2, <2>3
<1> QED
  BY <1>25, <1>26, <1>28, <1>29, <1>30, OnlyStep DEF UserInv

\* dUser::ProcessMaster(): an event is read, or the end of the server seen.
LEMMA MasterStep ==
    ASSUME IInv, NEW u \in Users, UserMaster(u)
    PROVE  IInv'
<1>1. /\ Running(u)
      /\ UNCHANGED <<server, world, group, up, mixed, contested, heirs>>
  BY DEF UserMaster
<1>2. TypeInv /\ UserInv(u) /\ daemon[u] \in Daemon /\ down[u] \in Seq(DownMsg)
  BY DEF IInv, TypeInv
<1>3. CASE down[u] # <<>>
  <2>1. PICK q : q = Tail(down[u])
    OBVIOUS
  <2>2. down' = [down EXCEPT ![u] = q] /\ daemon' = daemon /\ fds' = fds
    BY <1>3, <2>1 DEF UserMaster
  <2>3. IsTail(down[u], q, DownMsg)
    BY <1>2, <1>3, <2>1, TailFields
  <2>4. q \in Seq(DownMsg)
    BY <2>3 DEF IsTail
  <2>5. IsChanged(down, down', u, q, Seq(DownMsg))
    BY <1>2, <2>2, <2>4, ChangedFields DEF TypeInv
  <2>6. conn' \in [Conns -> Conn]
    <3>1. PICK k : k = IF Head(down[u]).ev = "client"
                       THEN daemon[u].clients[Head(down[u]).n] ELSE NoConn
      OBVIOUS
    <3>2. conn' = IF k = NoConn THEN conn ELSE [conn EXCEPT ![k].joined = TRUE]
      BY <1>3, <3>1 DEF UserMaster
    <3>3. CASE k = NoConn
      BY <1>2, <3>2, <3>3 DEF TypeInv
    <3>4. CASE k # NoConn
      <4>1. Head(down[u]) \in DownMsg
        BY <1>2, <1>3
      <4>2. \A e \in DownMsg : e.ev = "client" => e.n \in Names
        BY DEF DownMsg
      <4>3. daemon[u].clients \in [Names -> Conns \cup {NoConn}]
        BY <1>2, DaemonFields
      <4>4. k \in Conns
        BY <3>1, <3>4, <4>1, <4>2, <4>3
      <4>5. PICK c : c = [conn[k] EXCEPT !.joined = TRUE]
        OBVIOUS
      <4>6. conn[k] \in Conn
        BY <1>2, <4>4 DEF TypeInv
      <4>7. c \in Conn
        BY <4>5, <4>6, ConnSet
      <4>8. conn' = [conn EXCEPT ![k] = c]
        BY <3>2, <3>4, <4>5
      <4> QED
        BY <1>2, <4>4, <4>7, <4>8, ConnChange DEF TypeInv
    <3> QED
      BY <3>3, <3>4
  <2>7. TypeInv'
    BY <1>1, <1>2, <2>2, <2>5, <2>6 DEF TypeInv, IsChanged
  <2>8. Only(u)
    BY <1>1, <2>2, <2>5 DEF Only, IsChanged
  <2>9. LifeOf(u)' /\ Entries(u)'
    BY <1>1, <1>2, <2>2 DEF UserInv, LifeOf, Entries, Running
  <2>10. Answers(u)'
    <3> SUFFICES ASSUME u \notin mixed, daemon[u].at = "run"
                 PROVE  Question(up[u], q, daemon[u].wait)
      BY <1>1, <2>2, <2>5 DEF Answers, IsChanged
    <3>1. Question(up[u], down[u], daemon[u].wait)
      BY <1>2 DEF UserInv, Answers
    <3> QED
      BY <2>3, <3>1, QuestionOther
  <2> QED
    BY <2>7, <2>8, <2>9, <2>10, OnlyStep DEF UserInv
<1>4. CASE down[u] = <<>>
  <2>1. /\ MasterEof(u) /\ down' = down
        /\ daemon' = [daemon EXCEPT ![u].master = FALSE]
        /\ fds' = [fds EXCEPT ![u] = <<>>]
        /\ conn' = [k \in Conns |-> IF k \in Range(fds[u]) THEN Closed ELSE conn[k]]
    BY <1>4 DEF UserMaster
  <2>2. ~server
    BY <2>1 DEF MasterEof
  <2>3. PICK d : d = [daemon[u] EXCEPT !.master = FALSE]
    OBVIOUS
  <2>4. /\ d \in Daemon /\ d.wait = daemon[u].wait
        /\ d.at = daemon[u].at /\ d.clients = daemon[u].clients
    BY <1>2, <2>3, DaemonSet
  <2>5. daemon' = [daemon EXCEPT ![u] = d]
    BY <2>1, <2>3
  <2>6. IsChanged(daemon, daemon', u, d, Daemon)
    BY <1>2, <2>4, <2>5, DaemonChange DEF TypeInv
  <2>7. fds' \in [Users -> Seq(Conns)]
    BY <1>2, <2>1 DEF TypeInv
  <2>8. conn' \in [Conns -> Conn]
    BY <1>2, <2>1, ConnEnds DEF TypeInv
  <2>9. TypeInv'
    BY <1>1, <1>2, <2>1, <2>6, <2>7, <2>8 DEF TypeInv, IsChanged
  <2>10. Only(u)
    BY <1>1, <2>1, <2>6 DEF Only, IsChanged
  <2>11. daemon'[u] = d /\ daemon[u].at = "run"
    BY <1>1, <2>6 DEF IsChanged, Running
  <2>12. LifeOf(u)' /\ Entries(u)' /\ Answers(u)'
    BY <1>1, <1>2, <2>1, <2>2, <2>4, <2>11 DEF UserInv, LifeOf, Entries, Answers
  <2> QED
    BY <2>9, <2>10, <2>12, OnlyStep DEF UserInv
<1> QED
  BY <1>3, <1>4

\* A user's daemon ends.
LEMMA EndedStep ==
    ASSUME IInv, NEW u \in Users, daemon[u].at = "run", Ended(u)
    PROVE  IInv'
<1>1. PICK d : d = [NoDaemon EXCEPT !.at = "gone"]
  OBVIOUS
<1>2. /\ daemon' = [daemon EXCEPT ![u] = d]
      /\ conn' = [k \in Conns |-> IF UserOf[k] = u /\ conn[k].at # "new"
                                  THEN Closed ELSE conn[k]]
      /\ fds' = [fds EXCEPT ![u] = <<>>]
      /\ down' = [down EXCEPT ![u] = <<>>]
      /\ UNCHANGED <<server, world, group, up, mixed, contested>>
  BY <1>1 DEF Ended
<1>3. TypeInv /\ UserInv(u)
  BY DEF IInv
<1>4. d \in Daemon /\ d.at = "gone"
  BY <1>1, DaemonEnds
<1>5. IsChanged(daemon, daemon', u, d, Daemon)
  BY <1>2, <1>3, <1>4, DaemonChange DEF TypeInv
<1>6. PICK q : q = <<>>
  OBVIOUS
<1>7. IsChanged(down, down', u, q, Seq(DownMsg))
  <2>1. q \in Seq(DownMsg)
    BY <1>6
  <2>2. down' = [down EXCEPT ![u] = q]
    BY <1>2, <1>6
  <2> QED
    BY <1>3, <2>1, <2>2, ChangedFields DEF TypeInv
<1>8. fds' \in [Users -> Seq(Conns)]
  BY <1>2, <1>3 DEF TypeInv
<1>9. conn' \in [Conns -> Conn]
  BY <1>2, <1>3, ConnEnds DEF TypeInv
<1>10. TypeInv'
  BY <1>2, <1>3, <1>5, <1>7, <1>8, <1>9 DEF TypeInv, IsChanged
<1>11. Only(u)
  BY <1>2, <1>5, <1>7 DEF Only, IsChanged
<1>12. daemon'[u].at = "gone" /\ down'[u] = <<>>
  BY <1>4, <1>5, <1>6, <1>7 DEF IsChanged
<1>13. LifeOf(u)' /\ Answers(u)'
  BY <1>2, <1>3, <1>12 DEF UserInv, LifeOf, Answers
<1>14. Entries(u)'
  BY <1>2, <1>3, <1>12 DEF UserInv, Entries, Follows
<1> QED
  BY <1>10, <1>11, <1>13, <1>14, OnlyStep DEF UserInv

\* A step that changes the connections only.
LEMMA ConnStep ==
    ASSUME IInv, conn' \in [Conns -> Conn], fds' \in [Users -> Seq(Conns)],
           UNCHANGED <<server, world, group, daemon, up, down, mixed, contested>>
    PROVE  IInv'
<1>1. TypeInv'
  BY DEF IInv, TypeInv
<1>2. ASSUME NEW v \in Users PROVE UserInv(v)'
  BY DEF IInv, UserInv, LifeOf, Answers, Entries
<1> QED
  BY <1>1, <1>2 DEF IInv

LEMMA ConnectionStep ==
    ASSUME IInv
    PROVE  /\ \A u \in Users : UserConnect(u) => IInv'
           /\ \A k \in Conns : UserPeerGone(k) \/ PeerSends(k) \/ PeerGone(k) => IInv'
<1>1. /\ conn \in [Conns -> Conn] /\ fds \in [Users -> Seq(Conns)]
  BY DEF IInv, TypeInv
<1>2. ASSUME NEW u \in Users, UserConnect(u) PROVE IInv'
  <2>1. PICK k : k = Head(fds[u])
    OBVIOUS
  <2>2. /\ fds[u] # <<>> /\ fds' = [fds EXCEPT ![u] = Tail(@)]
        /\ conn' = [conn EXCEPT ![k].at = "trans"]
        /\ UNCHANGED <<server, world, group, daemon, up, down, mixed, contested>>
    BY <1>2, <2>1 DEF UserConnect
  <2>3. fds[u] \in Seq(Conns)
    BY <1>1
  <2>4. k \in Conns /\ Tail(fds[u]) \in Seq(Conns)
    BY <2>1, <2>2, <2>3
  <2>5. fds' \in [Users -> Seq(Conns)]
    BY <1>1, <2>2, <2>4
  <2>6. PICK c : c = [conn[k] EXCEPT !.at = "trans"]
    OBVIOUS
  <2>7. conn[k] \in Conn
    BY <1>1, <2>4
  <2>8. c \in Conn
    BY <2>6, <2>7, ConnSet
  <2>9. conn' = [conn EXCEPT ![k] = c]
    BY <2>2, <2>6
  <2>10. conn' \in [Conns -> Conn]
    BY <1>1, <2>4, <2>8, <2>9, ConnChange
  <2> QED
    BY <2>2, <2>5, <2>10, ConnStep
<1>3. ASSUME NEW k \in Conns, NEW c \in Conn, conn' = [conn EXCEPT ![k] = c],
             UNCHANGED <<server, world, group, daemon, up, down, fds, mixed, contested, heirs>>
      PROVE  IInv'
  <2>1. conn' \in [Conns -> Conn] /\ fds' \in [Users -> Seq(Conns)]
    BY <1>1, <1>3, ConnChange
  <2> QED
    BY <1>3, <2>1, ConnStep
<1>4. ASSUME NEW k \in Conns, UserPeerGone(k) PROVE IInv'
  BY <1>3, <1>4, ConnEnds DEF UserPeerGone
<1>5. ASSUME NEW k \in Conns, PeerGone(k) PROVE IInv'
  <2>1. PICK c : c = [conn[k] EXCEPT !.gone = TRUE]
    OBVIOUS
  <2>2. conn[k] \in Conn
    BY <1>1
  <2>3. c \in Conn
    BY <2>1, <2>2, ConnSet
  <2>4. conn' = [conn EXCEPT ![k] = c]
    BY <1>5, <2>1 DEF PeerGone
  <2> QED
    BY <1>3, <1>5, <2>3, <2>4 DEF PeerGone
<1>6. ASSUME NEW k \in Conns, PeerSends(k) PROVE IInv'
  <2>1. PICK r \in Requests(k) :
           conn' = [conn EXCEPT ![k].reqs = Append(@, r),
                                ![k].sent = IF r.op = "register" THEN MaxReq ELSE @ + 1]
    BY <1>6 DEF PeerSends
  <2>2. conn[k] \in Conn
    BY <1>1
  <2>3. conn[k].reqs \in Seq(Req) /\ conn[k].sent \in Nat
    BY <2>2 DEF Conn
  <2>4. r \in Req
    <3>1. [op : {"register"}, n : Names] \subseteq Req
      BY DEF Req
    <3>2. [op : {"client-up", "client"}, n : Names] \subseteq Req
      BY DEF Req
    <3> QED
      BY <3>1, <3>2 DEF Requests, Req
  <2>5. PICK q : q = Append(conn[k].reqs, r)
    OBVIOUS
  <2>6. PICK i : i = IF r.op = "register" THEN MaxReq ELSE conn[k].sent + 1
    OBVIOUS
  <2>7. q \in Seq(Req) /\ i \in Nat
    BY <2>3, <2>4, <2>5, <2>6, GlishdAssumption
  <2>8. PICK c : c = [conn[k] EXCEPT !.reqs = q, !.sent = i]
    OBVIOUS
  <2>9. c \in Conn
    BY <2>2, <2>7, <2>8, ConnSet
  <2>10. conn' = [conn EXCEPT ![k] = c]
    BY <2>1, <2>5, <2>6, <2>8
  <2> QED
    BY <1>3, <1>6, <2>9, <2>10 DEF PeerSends
<1> QED
  BY <1>2, <1>4, <1>5, <1>6

-----------------------------------------------------------------------------
(* The steps of the server.                                                *)

\* dServer::ProcessConnect(): a daemon is forked for the connection.
LEMMA ForkStep ==
    ASSUME IInv, NEW u \in Users, daemon[u].at = "none",
           daemon' = [daemon EXCEPT ![u].at = "run", ![u].master = TRUE],
           conn' \in [Conns -> Conn],
           UNCHANGED <<server, world, group, up, down, fds, mixed, contested>>
    PROVE  IInv'
<1>1. TypeInv /\ UserInv(u) /\ daemon[u] \in Daemon
  BY DEF IInv, TypeInv
<1>2. PICK d : d = [daemon[u] EXCEPT !.at = "run", !.master = TRUE]
  OBVIOUS
<1>3. /\ d \in Daemon /\ d.wait = daemon[u].wait
      /\ d.at = "run" /\ d.master = TRUE /\ d.clients = daemon[u].clients
  BY <1>1, <1>2, DaemonSet
<1>4. daemon' = [daemon EXCEPT ![u] = d]
  BY <1>2
<1>5. IsChanged(daemon, daemon', u, d, Daemon)
  BY <1>1, <1>3, <1>4, DaemonChange DEF TypeInv
<1>6. daemon'[u] = d
  BY <1>5 DEF IsChanged
<1>7. TypeInv'
  BY <1>1, <1>5 DEF TypeInv, IsChanged
<1>8. Only(u)
  BY <1>5 DEF Only, IsChanged
<1>9. daemon[u] = NoDaemon /\ up[u] = <<>> /\ down[u] = <<>> /\ ~Listed(world, group, u)
  BY <1>1 DEF UserInv, LifeOf, Entries
<1>10. LifeOf(u)'
  BY <1>1, <1>3, <1>6, <1>9 DEF LifeOf, UserInv
<1>11. Answers(u)'
  <2>1. NoAsk(up[u]) /\ NoReply(down[u])
    BY <1>9 DEF NoAsk, NoReply
  <2> QED
    BY <2>1, QuestionIdle DEF Answers
<1>12. Entries(u)'
  <2>1. ASSUME NEW n, Matters(n, contested)
        PROVE  Follows(up[u], n, Slot(world, group, u, n), u, d)
    <3>1. n \in Names
      BY <2>1 DEF Matters
    <3>2. Slot(world, group, u, n) # u
      BY <1>9, <3>1, SlotType DEF IInv
    <3>3. d.clients[n] = NoConn
      BY <1>3, <1>9, <3>1, DaemonEnds
    <3> QED
      BY <1>9, <3>2, <3>3, FollowsEmpty
  <2> QED
    BY <1>3, <1>6, <2>1 DEF Entries
<1> QED
  BY <1>7, <1>8, <1>10, <1>11, <1>12, OnlyStep DEF UserInv

LEMMA ConnectStep ==
    ASSUME IInv, NEW k \in Conns, ServerConnect(k)
    PROVE  IInv'
<1>1. PICK u : u = UserOf[k]
  OBVIOUS
<1>2. u \in Users /\ conn \in [Conns -> Conn] /\ fds \in [Users -> Seq(Conns)]
      /\ conn[k] \in Conn /\ daemon[u] \in Daemon
  BY <1>1, GlishdAssumption DEF IInv, TypeInv
<1>3. UNCHANGED <<server, world, group, up, down, mixed, contested>>
  BY DEF ServerConnect
<1>4. ASSUME NEW a \in {"fd", "trans"}, conn' = [conn EXCEPT ![k].at = a]
      PROVE  conn' \in [Conns -> Conn]
  <2>1. PICK c : c = [conn[k] EXCEPT !.at = a]
    OBVIOUS
  <2>2. c \in Conn
    BY <1>2, <2>1, ConnSet
  <2>3. conn' = [conn EXCEPT ![k] = c]
    BY <1>4, <2>1
  <2> QED
    BY <1>2, <2>2, <2>3, ConnChange
<1>5. CASE daemon[u].at = "run"
  <2>1. /\ fds' = [fds EXCEPT ![u] = Append(@, k)] /\ conn' = [conn EXCEPT ![k].at = "fd"]
        /\ daemon' = daemon
    BY <1>1, <1>5 DEF ServerConnect
  <2>2. Append(fds[u], k) \in Seq(Conns)
    BY <1>2
  <2>3. fds' \in [Users -> Seq(Conns)] /\ conn' \in [Conns -> Conn]
    BY <1>2, <1>4, <2>1, <2>2
  <2> QED
    BY <1>3, <2>1, <2>3, ConnStep
<1>6. CASE daemon[u].at = "gone"
  <2>1. conn' = [conn EXCEPT ![k] = Closed] /\ fds' = fds /\ daemon' = daemon
    BY <1>1, <1>6 DEF ServerConnect
  <2>2. conn' \in [Conns -> Conn] /\ fds' \in [Users -> Seq(Conns)]
    BY <1>2, <2>1, ConnEnds, ConnChange
  <2> QED
    BY <1>3, <2>1, <2>2, ConnStep
<1>7. CASE daemon[u].at = "none"
  <2>1. /\ daemon' = [daemon EXCEPT ![u].at = "run", ![u].master = TRUE]
        /\ conn' = [conn EXCEPT ![k].at = "trans"] /\ fds' = fds
    BY <1>1, <1>7 DEF ServerConnect
  <2>2. conn' \in [Conns -> Conn]
    BY <1>4, <2>1
  <2> QED
    BY <1>2, <1>3, <1>7, <2>1, <2>2, ForkStep
<1> QED
  BY <1>2, <1>5, <1>6, <1>7, DaemonFields

\* ProcessUsers(): a daemon that has ended is struck out.
LEMMA UserGoneStep ==
    ASSUME IInv, NEW u \in Users, ServerUserGone(u)
    PROVE  IInv'
<1>1. /\ server /\ up[u] = <<>> /\ Clear(u)
      /\ daemon' = [daemon EXCEPT ![u] = NoDaemon]
      /\ down' = [down EXCEPT ![u] = <<>>]
      /\ UNCHANGED <<server, up, fds, conn, mixed, contested, heirs>>
  BY DEF ServerUserGone
<1>2. TypeInv /\ Shares(world, group)
  BY DEF IInv
<1>3. /\ Shares(world', group') /\ ~Listed(world', group', u)
      /\ \A v \in Users : ~Listed(world, group, v) => ~Listed(world', group', v)
      /\ \A v \in Users : \A n \in Names : v # u =>
            (Slot(world', group', v, n) = v <=> Slot(world, group, v, n) = v)
  BY <1>1, <1>2, ClearFields
<1>4. IsChanged(daemon, daemon', u, NoDaemon, Daemon)
  BY <1>1, <1>2, DaemonChange, DaemonEnds DEF TypeInv
<1>5. PICK q : q = <<>>
  OBVIOUS
<1>6. IsChanged(down, down', u, q, Seq(DownMsg))
  <2>1. q \in Seq(DownMsg) /\ down' = [down EXCEPT ![u] = q]
    BY <1>1, <1>5
  <2> QED
    BY <1>2, <2>1, ChangedFields DEF TypeInv
<1>7. TypeInv'
  <2>1. world' \in [Names -> Owner] /\ group' \in [Groups -> [Names -> Owner]]
    BY <1>3 DEF Shares
  <2> QED
    BY <1>1, <1>2, <1>4, <1>6, <2>1 DEF TypeInv, IsChanged
<1>8. ASSUME NEW v \in Users, v # u PROVE UserInv(v)'
  <2>1. /\ daemon'[v] = daemon[v] /\ up'[v] = up[v] /\ server' = server
        /\ down'[v] = down[v] /\ mixed \subseteq mixed' /\ contested \subseteq contested'
    BY <1>1, <1>4, <1>6, <1>8 DEF IsChanged
  <2>2. UserInv(v) /\ (~Listed(world, group, v) => ~Listed(world', group', v))
    BY <1>3 DEF IInv
  <2>3. \A n : Matters(n, contested') =>
           (Slot(world, group, v, n) = v <=> Slot(world', group', v, n) = v)
    BY <1>3, <1>8 DEF Matters
  <2> QED
    BY <1>2, <2>1, <2>2, <2>3, Untouched
<1>9. UserInv(u)'
  <2>1. daemon'[u] = NoDaemon /\ down'[u] = <<>> /\ NoDaemon.at = "none"
    BY <1>4, <1>5, <1>6, DaemonEnds DEF IsChanged
  <2>2. LifeOf(u)' /\ Answers(u)'
    BY <1>1, <2>1 DEF LifeOf, Answers
  <2>3. \A n : Follows(up[u], n, Slot(world', group', u, n), u, NoDaemon)
    BY <1>1, <2>1, FollowsEmpty
  <2>4. Entries(u)'
    BY <1>1, <1>3, <2>1, <2>3 DEF Entries
  <2> QED
    BY <2>2, <2>4 DEF UserInv
<1> QED
  BY <1>3, <1>7, <1>8, <1>9 DEF IInv

LEMMA ExitStep ==
    ASSUME IInv, ServerExit
    PROVE  IInv'
<1>1. /\ server' = FALSE
      /\ world' = [n \in Names |-> NoUser]
      /\ group' = [g \in Groups |-> [n \in Names |-> NoUser]]
      /\ up' = [u \in Users |-> <<>>]
      /\ UNCHANGED <<daemon, down, fds, conn, mixed, contested, heirs>>
  BY DEF ServerExit
<1>2. Shares(world', group') /\ \A v \in Users : ~Listed(world', group', v)
  BY <1>1, NoneAssumption DEF Shares, Listed, Owner
<1>3. TypeInv'
  <2>1. up' \in [Users -> Seq(UpMsg)]
    BY <1>1
  <2>2. world' \in [Names -> Owner] /\ group' \in [Groups -> [Names -> Owner]]
    BY <1>2 DEF Shares
  <2> QED
    BY <1>1, <2>1, <2>2 DEF IInv, TypeInv
<1>4. ASSUME NEW v \in Users PROVE UserInv(v)'
  <2>1. UserInv(v) /\ up'[v] = <<>>
    BY <1>1 DEF IInv
  <2>2. LifeOf(v)'
    BY <1>1, <2>1 DEF UserInv, LifeOf
  <2>3. Answers(v)'
    <3> SUFFICES ASSUME v \notin mixed, daemon[v].at = "run"
                 PROVE  Question(up'[v], down[v], daemon[v].wait)
      BY <1>1 DEF Answers
    <3>1. Question(up[v], down[v], daemon[v].wait)
      BY <2>1 DEF UserInv, Answers
    <3>2. \A i \in 1..Len(up'[v]) : FALSE
      BY <2>1
    <3> QED
      BY <3>1, <3>2 DEF Question
  <2>4. Entries(v)'
    BY <1>1, <1>2 DEF Entries
  <2> QED
    BY <2>2, <2>3, <2>4 DEF UserInv
<1> QED
  BY <1>2, <1>3, <1>4 DEF IInv

\* What an event that the server reads does to the entries: those of other
\* users stay, and the one u finds is as the event says.
IsRead(u) ==
    /\ Shares(world', group') /\ contested \subseteq contested'
    /\ \A v \in Users : v # u /\ ~Listed(world, group, v) => ~Listed(world', group', v)
    /\ \A v \in Users : v # u => \A n : Matters(n, contested') =>
          (Slot(world, group, v, n) = v <=> Slot(world', group', v, n) = v)
    /\ \A n : Matters(n, contested') =>
          \/ /\ Silent(up[u][1], n)
             /\ Slot(world, group, u, n) = u <=> Slot(world', group', u, n) = u
          \/ IsReg(up[u][1], n) /\ Slot(world', group', u, n) = u
          \/ IsGone(up[u][1], n) /\ Slot(world', group', u, n) # u

\* What is sent meanwhile to user v.
IsSent(v) ==
    \/ down'[v] = down[v]
    \/ /\ daemon[v].at = "run"
       /\ \E e : e.ev = "client" /\ IsPushed(down[v], down'[v], e, DownMsg)

LEMMA ReadStep ==
    ASSUME IInv, NEW u \in Users, server, up[u] # <<>>,
           up' = [up EXCEPT ![u] = Tail(@)],
           UNCHANGED <<server, daemon, fds, conn, mixed, heirs>>,
           IsRead(u), down' \in [Users -> Seq(DownMsg)],
           \A v \in Users : v # u => IsSent(v),
           Answers(u)', daemon[u].at # "run" => down'[u] = down[u]
    PROVE  IInv'
<1>1. TypeInv /\ UserInv(u) /\ up[u] \in Seq(UpMsg)
  BY DEF IInv, TypeInv
<1>2. PICK p : p = Tail(up[u])
  OBVIOUS
<1>3. IsTail(up[u], p, UpMsg)
  BY <1>1, <1>2, TailFields
<1>4. IsChanged(up, up', u, p, Seq(UpMsg))
  <2>1. p \in Seq(UpMsg)
    BY <1>3 DEF IsTail
  <2>2. up' = [up EXCEPT ![u] = p]
    BY <1>2
  <2> QED
    BY <1>1, <2>1, <2>2, ChangedFields DEF TypeInv
<1>5. TypeInv'
  <2>1. world' \in [Names -> Owner] /\ group' \in [Groups -> [Names -> Owner]]
    BY DEF IsRead, Shares
  <2> QED
    BY <1>1, <1>4, <2>1 DEF TypeInv, IsChanged
<1>6. ASSUME NEW v \in Users, v # u PROVE UserInv(v)'
  <2>1. UserInv(v) /\ daemon'[v] = daemon[v] /\ up'[v] = up[v] /\ IsSent(v)
    BY <1>4, <1>6 DEF IInv, IsChanged
  <2>2. /\ ~Listed(world, group, v) => ~Listed(world', group', v)
        /\ \A n : Matters(n, contested') =>
              (Slot(world, group, v, n) = v <=> Slot(world', group', v, n) = v)
        /\ contested \subseteq contested'
    BY <1>6 DEF IsRead
  <2>3. mixed \subseteq mixed' /\ server' = server
    OBVIOUS
  <2> QED
    BY <1>1, <2>1, <2>2, <2>3, Untouched DEF IsSent
<1>7. UserInv(u)'
  <2>1. daemon[u].at # "none" /\ up'[u] = p
    BY <1>1, <1>4 DEF UserInv, LifeOf, IsChanged
  <2>2. LifeOf(u)'
    BY <1>1, <2>1 DEF UserInv, LifeOf
  <2>3. ASSUME NEW n, Matters(n, contested')
        PROVE  Follows(p, n, Slot(world', group', u, n), u, daemon[u])
    <3>1. PICK s : s = Slot(world, group, u, n)
      OBVIOUS
    <3>2. PICK t : t = Slot(world', group', u, n)
      OBVIOUS
    <3>3. Matters(n, contested)
      BY <2>3 DEF Matters, IsRead
    <3>4. Known(up[u], n, s, u) /\ (daemon[u].at = "run" => Latest(up[u], n, s, u, daemon[u].clients[n]))
      BY <1>1, <3>1, <3>3 DEF UserInv, Entries, Follows
    <3>5. \/ Silent(up[u][1], n) /\ (s = u <=> t = u)
          \/ IsReg(up[u][1], n) /\ t = u
          \/ IsGone(up[u][1], n) /\ t # u
      BY <2>3, <3>1, <3>2 DEF IsRead
    <3>6. Known(p, n, t, u)
      BY <1>3, <3>4, <3>5, KnownTail
    <3>7. PICK k : k = daemon[u].clients[n]
      OBVIOUS
    <3>8. ASSUME daemon[u].at = "run" PROVE Latest(p, n, t, u, k)
      <4>1. Latest(up[u], n, s, u, k)
        BY <3>4, <3>7, <3>8
      <4> QED
        BY <1>3, <3>5, <4>1, LatestTail
    <3> QED
      BY <3>2, <3>6, <3>7, <3>8 DEF Follows
  <2>4. Entries(u)'
    BY <2>1, <2>3 DEF Entries
  <2> QED
    BY <2>2, <2>4 DEF UserInv
<1>8. Shares(world, group)'
  BY DEF IsRead
<1> QED
  BY <1>5, <1>6, <1>7, <1>8 DEF IInv

\* dServer::Register(), for a name no other user has registered, enters u
\* where nobody else was.
LEMMA ReadRegister ==
    ASSUME IInv, NEW u \in Users, server, NEW n \in Names, Register(u, n),
           up[u][1].ev = "register", up[u][1].n = n
    PROVE  IsRead(u)
<1>1. Shares(world, group)
  BY DEF IInv
<1>2. PICK V : V = world'
  OBVIOUS
<1>3. PICK H : H = group'
  OBVIOUS
<1>4. /\ IsEntered(world, group, V, H, u, n, u) /\ contested \subseteq contested'
      /\ Slot(world, group, u, n) \notin {u, NoUser} => n \in contested'
  BY <1>1, <1>2, <1>3, RegisterFields
<1>5. ASSUME NEW v \in Users, v # u, NEW m, Matters(m, contested')
      PROVE  Slot(world, group, v, m) = v <=> Slot(V, H, v, m) = v
  <2>1. CASE Slot(V, H, v, m) = Slot(world, group, v, m)
    BY <2>1
  <2>2. CASE /\ m = n /\ Slot(V, H, v, m) = u
             /\ Slot(world, group, v, m) = Slot(world, group, u, n)
    <3>1. Slot(world, group, u, n) \in {u, NoUser}
      BY <1>4, <1>5, <2>2 DEF Matters
    <3> QED
      BY <1>5, <2>2, <3>1, NoneAssumption
  <2> QED
    BY <1>4, <1>5, <2>1, <2>2 DEF IsEntered, Matters
<1>6. ASSUME NEW m, Matters(m, contested')
      PROVE  \/ /\ Silent(up[u][1], m)
                /\ Slot(world, group, u, m) = u <=> Slot(V, H, u, m) = u
             \/ IsReg(up[u][1], m) /\ Slot(V, H, u, m) = u
  <2>1. CASE m = n
    BY <1>4, <2>1 DEF IsEntered, IsReg
  <2>2. CASE m # n
    <3>1. Slot(V, H, u, m) = Slot(world, group, u, m)
      BY <1>4, <1>6, <2>2 DEF IsEntered, Matters
    <3>2. Silent(up[u][1], m)
      BY <2>2 DEF Silent, IsReg, IsGone
    <3> QED
      BY <3>1, <3>2
  <2> QED
    BY <2>1, <2>2
<1>7. /\ Shares(V, H)
      /\ \A v \in Users : v # u /\ ~Listed(world, group, v) => ~Listed(V, H, v)
  BY <1>4 DEF IsEntered
<1> QED
  BY <1>2, <1>3, <1>4, <1>5, <1>6, <1>7 DEF IsRead

\* dServer::ClientGone(), for such a name, strikes out u.
LEMMA ReadGone ==
    ASSUME IInv, NEW u \in Users, server, NEW n \in Names, ServerGone(u, n),
           up[u] # <<>>, up[u][1].ev = "client-gone", up[u][1].n = n
    PROVE  IsRead(u)
<1>1. Shares(world, group) /\ up[u] \in Seq(UpMsg) /\ UserInv(u)
  BY DEF IInv, TypeInv
<1>2. PICK V : V = world'
  OBVIOUS
<1>3. PICK H : H = group'
  OBVIOUS
<1>4. IsEntered(world, group, V, H, u, n, NoUser) /\ contested' = contested
  BY <1>1, <1>2, <1>3, ClientGoneFields
<1>5. ASSUME Matters(n, contested) PROVE Slot(world, group, u, n) = u
  <2>1. PICK p : p = Tail(up[u])
    OBVIOUS
  <2>2. IsTail(up[u], p, UpMsg)
    BY <1>1, <2>1, TailFields
  <2>3. Known(up[u], n, Slot(world, group, u, n), u)
    BY <1>1, <1>5 DEF UserInv, Entries, Follows
  <2>4. IsGone(up[u][1], n)
    BY DEF IsGone
  <2> QED
    BY <2>2, <2>3, <2>4, KnownTail
<1>6. ASSUME NEW v \in Users, v # u, NEW m, Matters(m, contested)
      PROVE  Slot(world, group, v, m) = v <=> Slot(V, H, v, m) = v
  <2>1. CASE Slot(V, H, v, m) = Slot(world, group, v, m)
    BY <2>1
  <2>2. CASE /\ m = n /\ Slot(V, H, v, m) = NoUser
             /\ Slot(world, group, v, m) = Slot(world, group, u, n)
    BY <1>5, <1>6, <2>2, NoneAssumption
  <2> QED
    BY <1>4, <1>6, <2>1, <2>2 DEF IsEntered, Matters
<1>7. ASSUME NEW m, Matters(m, contested)
      PROVE  \/ /\ Silent(up[u][1], m)
                /\ Slot(world, group, u, m) = u <=> Slot(V, H, u, m) = u
             \/ IsGone(up[u][1], m) /\ Slot(V, H, u, m) # u
  <2>1. CASE m = n
    BY <1>4, <2>1, NoneAssumption DEF IsEntered, IsGone
  <2>2. CASE m # n
    <3>1. Slot(V, H, u, m) = Slot(world, group, u, m)
      BY <1>4, <1>7, <2>2 DEF IsEntered, Matters
    <3>2. Silent(up[u][1], m)
      BY <2>2 DEF Silent, IsReg, IsGone
    <3> QED
      BY <3>1, <3>2
  <2> QED
    BY <2>1, <2>2
<1>8. /\ Shares(V, H)
      /\ \A v \in Users : v # u /\ ~Listed(world, group, v) => ~Listed(V, H, v)
  BY <1>4, NoneAssumption DEF IsEntered
<1> QED
  BY <1>2, <1>3, <1>4, <1>6, <1>7, <1>8 DEF IsRead

\* The other events say nothing of the registry.
LEMMA ReadOther ==
    ASSUME IInv, NEW u \in Users, up[u][1].ev \notin {"register", "client-gone"},
           UNCHANGED <<world, group, contested>>
    PROVE  IsRead(u)
<1>1. \A n : Silent(up[u][1], n)
  BY DEF Silent, IsReg, IsGone
<1> QED
  BY <1>1 DEF IInv, IsRead

\* An event that is not a question is read, and perhaps a "client" event sent.
LEMMA AnswersRead ==
    ASSUME IInv, NEW u \in Users, up[u] # <<>>, up' = [up EXCEPT ![u] = Tail(@)],
           UNCHANGED <<daemon, mixed>>, IsSent(u)
    PROVE  Answers(u)'
<1>1. TypeInv /\ UserInv(u) /\ up[u] \in Seq(UpMsg)
  BY DEF IInv, TypeInv
<1>2. PICK p : p = Tail(up[u])
  OBVIOUS
<1>3. IsTail(up[u], p, UpMsg) /\ up'[u] = p
  BY <1>1, <1>2, TailFields DEF TypeInv
<1> SUFFICES ASSUME u \notin mixed, daemon[u].at = "run"
             PROVE  Question(p, down'[u], daemon[u].wait)
  BY <1>3 DEF Answers
<1>4. Question(up[u], down[u], daemon[u].wait)
  BY <1>1 DEF UserInv, Answers
<1>5. Question(p, down[u], daemon[u].wait)
  BY <1>3, <1>4, QuestionOther
<1>6. CASE down'[u] = down[u]
  BY <1>5, <1>6
<1>7. ASSUME NEW e, e.ev = "client", IsPushed(down[u], down'[u], e, DownMsg)
      PROVE  Question(p, down'[u], daemon[u].wait)
  <2>1. e.ev # "reply"
    BY <1>7
  <2> QED
    BY <1>5, <1>7, <2>1, QuestionOther
<1> QED
  BY <1>6, <1>7 DEF IsSent

\* dServer::CreateClient(): the owner's daemon is told.
LEMMA CreateSent ==
    ASSUME IInv, NEW u \in Users, NEW n \in Names, ServerCreate(u, n)
    PROVE  /\ down' \in [Users -> Seq(DownMsg)]
           /\ \A v \in Users : IsSent(v) /\ (daemon[v].at # "run" => down'[v] = down[v])
<1>1. down \in [Users -> Seq(DownMsg)] /\ Shares(world, group)
  BY DEF IInv, TypeInv
<1>2. PICK o : o = Slot(world, group, u, n)
  OBVIOUS
<1>3. o \in Owner /\ o = Registered(GroupOf[u], n)
  BY <1>1, <1>2, SlotType, SlotOf
<1>4. PICK e : e = [ev |-> "client", n |-> n, val |-> TRUE]
  OBVIOUS
<1>5. e \in DownMsg /\ e.ev = "client"
  BY <1>4, DownMsgs
<1>6. down' = IF o = NoUser THEN down ELSE PostDown(o, e)
  BY <1>3, <1>4 DEF ServerCreate
<1>7. CASE o = NoUser
  BY <1>1, <1>6, <1>7 DEF IsSent
<1>8. CASE o # NoUser
  <2>1. o \in Users
    BY <1>3, <1>8 DEF Owner
  <2>2. Sent(o, e)
    BY <1>1, <1>5, <1>6, <1>8, <2>1, PostDownFields
  <2> QED
    BY <1>5, <2>1, <2>2 DEF Sent, IsSent
<1> QED
  BY <1>7, <1>8

\* dServer::ClientRunning(): the question is answered.
LEMMA LookupSent ==
    ASSUME IInv, NEW u \in Users, up[u] # <<>>, up[u][1].ev = "client-up",
           ServerLookup(u, up[u][1].n), up' = [up EXCEPT ![u] = Tail(@)],
           UNCHANGED <<daemon, mixed>>
    PROVE  /\ down' \in [Users -> Seq(DownMsg)]
           /\ \A v \in Users : v # u => IsSent(v)
           /\ daemon[u].at # "run" => down'[u] = down[u]
           /\ Answers(u)'
<1>1. TypeInv /\ UserInv(u) /\ up[u] \in Seq(UpMsg) /\ down \in [Users -> Seq(DownMsg)]
  BY DEF IInv, TypeInv
<1>2. PICK p : p = Tail(up[u])
  OBVIOUS
<1>3. IsTail(up[u], p, UpMsg) /\ up'[u] = p
  BY <1>1, <1>2, TailFields DEF TypeInv
<1>4. PICK n : n = up[u][1].n
  OBVIOUS
<1>5. n \in Names \cup {Alias}
  BY <1>3, <1>4, UpMsgs DEF IsTail
<1>6. PICK b \in BOOLEAN : b = (Registered(GroupOf[u], n) # NoUser)
  OBVIOUS
<1>7. PICK e : e = [ev |-> "reply", n |-> n, val |-> b]
  OBVIOUS
<1>8. e \in DownMsg /\ e.ev = "reply" /\ e.n = n
  BY <1>5, <1>7, DownMsgs
<1>9. down' = PostDown(u, e)
  BY <1>4, <1>6, <1>7 DEF ServerLookup
<1>10. Sent(u, e)
  BY <1>1, <1>8, <1>9, PostDownFields
<1>11. Answers(u)'
  <2> SUFFICES ASSUME u \notin mixed, daemon[u].at = "run"
               PROVE  Question(p, down'[u], daemon[u].wait)
    BY <1>3 DEF Answers
  <2>1. Question(up[u], down[u], daemon[u].wait)
    BY <1>1 DEF UserInv, Answers
  <2>2. IsPushed(down[u], down'[u], e, DownMsg) /\ e.n = up[u][1].n
    BY <1>4, <1>8, <1>10 DEF Sent
  <2> QED
    BY <1>3, <2>1, <2>2, QuestionAnswered
<1> QED
  BY <1>10, <1>11 DEF Sent, IsSent

LEMMA EventStep ==
    ASSUME IInv, NEW u \in Users, ServerEvent(u)
    PROVE  IInv'
<1>1. PICK e : e = up[u][1]
  OBVIOUS
<1>2. /\ server /\ up[u] # <<>>
      /\ up' = [up EXCEPT ![u] = Tail(@)]
      /\ UNCHANGED <<server, daemon, fds, conn, mixed, heirs>>
  BY DEF ServerEvent
<1>3. up[u] \in Seq(UpMsg) /\ down \in [Users -> Seq(DownMsg)]
  BY DEF IInv, TypeInv
<1>4. e = Head(up[u]) /\ e \in UpMsg
  BY <1>1, <1>2, <1>3
<1>5. /\ e.ev \in {"register", "client", "client-gone", "client-up"}
      /\ e.ev # "client-up" => e.n \in Names
  BY <1>4, UpMsgs
<1>6. CASE e.ev = "register"
  <2>1. Register(u, e.n)
    BY <1>4, <1>6 DEF ServerEvent
  <2>2. IsRead(u)
    BY <1>1, <1>2, <1>5, <1>6, <2>1, ReadRegister
  <2>3. down' = down /\ \A v \in Users : IsSent(v)
    BY <2>1 DEF Register, IsSent
  <2>4. Answers(u)'
    BY <1>2, <2>3, AnswersRead
  <2> QED
    BY <1>2, <1>3, <2>2, <2>3, <2>4, ReadStep
<1>7. CASE e.ev = "client"
  <2>1. ServerCreate(u, e.n)
    BY <1>4, <1>7 DEF ServerEvent
  <2>2. IsRead(u)
    <3>1. e.ev \notin {"register", "client-gone"} /\ UNCHANGED <<world, group, contested>>
      BY <1>7, <2>1 DEF ServerCreate
    <3> QED
      BY <1>1, <3>1, ReadOther
  <2>3. /\ down' \in [Users -> Seq(DownMsg)]
        /\ \A v \in Users : IsSent(v) /\ (daemon[v].at # "run" => down'[v] = down[v])
    BY <1>5, <1>7, <2>1, CreateSent
  <2>4. Answers(u)'
    BY <1>2, <2>3, AnswersRead
  <2> QED
    BY <1>2, <2>2, <2>3, <2>4, ReadStep
<1>8. CASE e.ev = "client-up"
  <2>1. ServerLookup(u, e.n)
    BY <1>4, <1>8 DEF ServerEvent
  <2>2. IsRead(u)
    <3>1. e.ev \notin {"register", "client-gone"} /\ UNCHANGED <<world, group, contested>>
      BY <1>8, <2>1 DEF ServerLookup
    <3> QED
      BY <1>1, <3>1, ReadOther
  <2>3. /\ down' \in [Users -> Seq(DownMsg)] /\ \A v \in Users : v # u => IsSent(v)
        /\ daemon[u].at # "run" => down'[u] = down[u]
        /\ Answers(u)'
    BY <1>1, <1>2, <1>8, <2>1, LookupSent
  <2> QED
    BY <1>2, <2>2, <2>3, ReadStep
<1>9. CASE e.ev = "client-gone"
  <2>1. ServerGone(u, e.n)
    BY <1>4, <1>9 DEF ServerEvent
  <2>2. IsRead(u)
    BY <1>1, <1>2, <1>5, <1>9, <2>1, ReadGone
  <2>3. down' = down /\ \A v \in Users : IsSent(v)
    BY <2>1 DEF ServerGone, IsSent
  <2>4. Answers(u)'
    BY <1>2, <2>3, AnswersRead
  <2> QED
    BY <1>2, <1>3, <2>2, <2>3, <2>4, ReadStep
<1> QED
  BY <1>5, <1>6, <1>7, <1>8, <1>9

-----------------------------------------------------------------------------
(* The theorems.                                                           *)

LEMMA InitInv == Init => IInv
<1> SUFFICES ASSUME Init PROVE IInv
  OBVIOUS
<1>1. Shares(world, group) /\ \A v \in Users : ~Listed(world, group, v)
  BY NoneAssumption DEF Init, Shares, Listed, Owner
<1>2. TypeInv
  <2>1. up \in [Users -> Seq(UpMsg)] /\ down \in [Users -> Seq(DownMsg)]
        /\ fds \in [Users -> Seq(Conns)]
    BY DEF Init
  <2>2. daemon \in [Users -> Daemon] /\ conn \in [Conns -> Conn]
    BY DaemonEnds, ConnEnds DEF Init
  <2> QED
    BY <1>1, <2>1, <2>2 DEF Init, TypeInv, Shares
<1>3. ASSUME NEW v \in Users PROVE UserInv(v)
  <2>1. daemon[v] = NoDaemon /\ up[v] = <<>> /\ down[v] = <<>> /\ NoDaemon.at = "none"
    BY DaemonEnds DEF Init
  <2>2. LifeOf(v) /\ Answers(v)
    BY <2>1 DEF LifeOf, Answers, Init
  <2>3. \A n : Follows(up[v], n, Slot(world, group, v, n), v, daemon[v])
    BY <2>1, FollowsEmpty
  <2> QED
    BY <1>1, <2>2, <2>3 DEF UserInv, Entries
<1> QED
  BY <1>1, <1>2, <1>3 DEF IInv

LEMMA StepInv == IInv /\ [Next]_vars => IInv'
<1> SUFFICES ASSUME IInv, [Next]_vars PROVE IInv'
  OBVIOUS
<1>1. ASSUME NEW k \in Conns, ServerConnect(k) PROVE IInv'
  BY <1>1, ConnectStep
<1>2. ASSUME NEW u \in Users, ServerEvent(u) \/ ServerUserGone(u) PROVE IInv'
  BY <1>2, EventStep, UserGoneStep
<1>3. CASE ServerExit
  BY <1>3, ExitStep
<1>4. ASSUME NEW u \in Users, UserConnect(u) \/ UserAnswer(u) \/ UserMaster(u) PROVE IInv'
  BY <1>4, ConnectionStep, AnswerStep, MasterStep
<1>5. ASSUME NEW u \in Users, UserExit(u) PROVE IInv'
  BY <1>5, EndedStep DEF UserExit, Running
<1>6. ASSUME NEW u \in Users, NEW n \in Names, UserClientGone(u, n) PROVE IInv'
  BY <1>6, ClientGoneStep
<1>7. ASSUME NEW k \in Conns, UserRegister(k) \/ UserRequest(k) PROVE IInv'
  BY <1>7, RegisterStep, RequestStep
<1>8. ASSUME NEW k \in Conns, UserPeerGone(k) \/ PeerSends(k) \/ PeerGone(k) PROVE IInv'
  BY <1>8, ConnectionStep
<1>9. ASSUME NEW k \in Conns, UserTerminate(k) PROVE IInv'
  <2>1. UserOf[k] \in Users /\ daemon[UserOf[k]].at = "run" /\ Ended(UserOf[k])
    BY <1>9, GlishdAssumption DEF UserTerminate, Running
  <2> QED
    BY <2>1, EndedStep
<1>10. CASE UNCHANGED vars
  <2>1. conn' \in [Conns -> Conn] /\ fds' \in [Users -> Seq(Conns)]
    BY <1>10 DEF IInv, TypeInv, vars
  <2> QED
    BY <1>10, <2>1, ConnStep DEF vars
<1> QED
  BY <1>1, <1>2, <1>3, <1>4, <1>5, <1>6, <1>7, <1>8, <1>9, <1>10 DEF Next

LEMMA InvOwnAnswer == IInv => OwnAnswer
<1> SUFFICES ASSUME IInv, NEW u \in Users, u \notin mixed, daemon[u].at = "run",
                    NEW i \in 1..Len(down[u]), down[u][i].ev = "reply"
             PROVE  down[u][i].n = daemon[u].wait.n
  BY DEF OwnAnswer
<1>1. Question(up[u], down[u], daemon[u].wait)
  BY DEF IInv, UserInv, Answers
<1> QED
  BY <1>1 DEF Question

LEMMA InvRegistryFollows == IInv => RegistryFollows
<1> SUFFICES ASSUME IInv, server, NEW u \in Users, NEW n \in Names
             PROVE  /\ daemon[u].at = "none" =>
                         u \notin {world[n]} \cup {group[g][n] : g \in Groups}
                    /\ /\ ShareOf[n] # "USER" /\ n \notin contested
                       /\ daemon[u].at = "run"
                       /\ \A i \in 1..Len(up[u]) :
                             up[u][i].ev \notin {"register", "client-gone"}
                       => (Registered(GroupOf[u], n) = u <=> daemon[u].clients[n] # NoConn)
  BY DEF RegistryFollows
<1>1. UserInv(u)
  BY DEF IInv
<1>2. ASSUME daemon[u].at = "none"
      PROVE  u \notin {world[n]} \cup {group[g][n] : g \in Groups}
  BY <1>1, <1>2 DEF UserInv, Entries, Listed
<1>3. ASSUME ShareOf[n] # "USER", n \notin contested, daemon[u].at = "run",
             \A i \in 1..Len(up[u]) : up[u][i].ev \notin {"register", "client-gone"}
      PROVE  Registered(GroupOf[u], n) = u <=> daemon[u].clients[n] # NoConn
  <2>1. PICK s : s = Slot(world, group, u, n)
    OBVIOUS
  <2>2. Latest(up[u], n, s, u, daemon[u].clients[n])
    BY <1>1, <1>3, <2>1 DEF UserInv, Entries, Follows, Matters
  <2>3. s = u <=> daemon[u].clients[n] # NoConn
    BY <1>3, <2>2 DEF Latest, IsReg, IsGone
  <2> QED
    BY <2>1, <2>3, SlotOf
<1> QED
  BY <1>2, <1>3

\* A user's daemon that asks the server about a client takes the answer to
\* its own question, unless LookupClientInMaster() has already taken a
\* "client" event for an answer.
THEOREM OwnAnswers == Spec => []OwnAnswer
<1>1. Init => IInv
  BY InitInv
<1>2. IInv /\ [Next]_vars => IInv'
  BY StepInv
<1>3. IInv => OwnAnswer
  BY InvOwnAnswer
<1> QED
  BY <1>1, <1>2, <1>3, PTL DEF Spec

\* The registry follows the shared clients: dServer::CreateClient() finds an
\* entry for the daemon of every user in it, and a name that one user only
\* has registered is entered, once the server has read what the daemon has
\* posted, exactly when the daemon has the client.
THEOREM RegistryFollowed == Spec => []RegistryFollows
<1>1. Init => IInv
  BY InitInv
<1>2. IInv /\ [Next]_vars => IInv'
  BY StepInv
<1>3. IInv => RegistryFollows
  BY InvRegistryFollows
<1> QED
  BY <1>1, <1>2, <1>3, PTL DEF Spec

=============================================================================
