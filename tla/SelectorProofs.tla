--------------------------- MODULE SelectorProofs ---------------------------
(***************************************************************************)
(* Proofs about Selector: for any number of clients and descriptors, the   *)
(* selectees, the descriptor sets and the channels agree until a channel   *)
(* is closed below a SendSelectee, and a pass never blocks in a read on a  *)
(* client that is not new.                                                 *)
(*                                                                         *)
(* The invariant ties every selectee to the channel it was made for, which *)
(* needs that two channels never share a descriptor, and with it that a    *)
(* new channel finds two free descriptors.  A handler runs in the middle   *)
(* of a pass, so the invariant is stated of the state a statement leaves   *)
(* and of the descriptors that are still to be visited.                    *)
(***************************************************************************)
EXTENDS Selector, FiniteSetTheorems, WellFoundedInduction, TLAPS

Channel == [r : 0..NFd, w : 0..NFd, unread : 0..MaxUnread, gone : BOOLEAN,
            room : BOOLEAN, pend : BOOLEAN, fresh : BOOLEAN]

SelectorState == [sel : [Fd -> Selectee \cup {NoSel}],
                  r : SUBSET Fd, w : SUBSET Fd]

PassState == [on : BOOLEAN, rm : SUBSET Fd, wm : SUBSET Fd, status : Nat]

WriteSel(c) == [type |-> "WRITE", c |-> c, old |-> c \in Sockets]

\* An open channel has its own descriptors: one for a socket, two for pipes.
OwnFds(t, socket) == t.w # 0 /\ (t.w = t.r <=> socket)

Apart(t, u) == t.r # u.r /\ t.r # u.w /\ t.w # u.r /\ t.w # u.w

Channels(T) ==
    /\ T \in [Clients -> Channel]
    /\ \A c \in Clients : /\ T[c].r = 0 => T[c] = Closed
                          /\ T[c].r # 0 => OwnFds(T[c], c \in Sockets)
    /\ \A c, d \in Clients : c # d /\ T[c].r # 0 /\ T[d].r # 0
                                => Apart(T[c], T[d])

\* The selectee of fd and its bits, with the channel they are there for.
Unwatched(S, fd) == S.sel[fd] = NoSel /\ fd \notin S.r /\ fd \notin S.w

Reads(S, T, fd, c) ==
    T[c].r = fd /\ S.sel[fd] = ReadSel(c) /\ fd \in S.r /\ fd \notin S.w

Writes(S, T, fd, c) ==
    /\ T[c].w = fd /\ S.sel[fd] = WriteSel(c) /\ fd \in S.w
    /\ fd \in S.r <=> c \in Sockets

Matched(S, T) ==
    \A fd \in Fd : \/ Unwatched(S, fd)
                   \/ \E c \in Clients : Reads(S, T, fd, c) \/ Writes(S, T, fd, c)

\* Every open channel has its selectees.
Attended(S, T, c) ==
    /\ Reads(S, T, T[c].r, c) \/ (c \in Sockets /\ Writes(S, T, T[c].r, c))
    /\ T[c].pend => Writes(S, T, T[c].w, c)

Watching(S, T) == \A c \in Clients : T[c].r # 0 => Attended(S, T, c)

\* A read from this channel will not block for ever.
Speaks(t) == t.unread > 0 \/ t.gone \/ t.fresh

\* The same of the descriptors M that are still to be visited.
Ready(S, T, M) ==
    \A fd \in M : S.sel[fd].type = "READ" => Speaks(T[S.sel[fd].c])

Fit(S, T, n, M) ==
    /\ S \in SelectorState /\ Channels(T) /\ n \in BOOLEAN
    /\ ~n => Matched(S, T) /\ Watching(S, T) /\ Ready(S, T, M)

IInv ==
    /\ Fit(selector, chan, torn, pass.rm \cup pass.wm)
    /\ pass \in PassState /\ up \in BOOLEAN
    /\ ~pass.on => pass = NoPass

-----------------------------------------------------------------------------
(* Free descriptors.                                                       *)

LEMMA LeastNatural ==
    ASSUME NEW T \in SUBSET Nat, T # {}
    PROVE  \E x \in T : \A y \in T : x <= y
<1>1. PICK x \in T : \A y \in T : ~(<<y, x>> \in OpToRel(<, Nat))
  BY NatLessThanWellFounded, WFMin
<1>2. ASSUME NEW y \in T PROVE x <= y
  <2>1. ~(y < x)
    BY <1>1 DEF OpToRel
  <2>2. x \in Nat /\ y \in Nat
    OBVIOUS
  <2> QED
    BY <2>1, <2>2
<1> QED
  BY <1>2

LEMMA MinMember ==
    ASSUME NEW T \in SUBSET Nat, T # {}
    PROVE  Min(T) \in T
  BY LeastNatural DEF Min

\* The image of a finite set under a function is no larger.
LEMMA ImageBound ==
    ASSUME NEW D, IsFiniteSet(D), NEW f, NEW I, I = {f[d] : d \in D},
           f = [d \in D |-> f[d]]
    PROVE  IsFiniteSet(I) /\ Cardinality(I) \in Nat
           /\ Cardinality(I) <= Cardinality(D)
<1>1. f \in Surjection(D, I)
  BY DEF Surjection
<1> QED
  BY <1>1, FS_Surjection, FS_CardinalityType

\* NFd >= 2 * Cardinality(Clients): a client without a channel finds two
\* descriptors that no other client uses.
LEMMA TwoFree ==
    ASSUME NEW T, Channels(T), NEW c \in Clients, T[c].r = 0, NEW free,
           free = Fd \ ({T[d].r : d \in Clients} \cup {T[d].w : d \in Clients})
    PROVE  free # {} /\ \A r : free \ {r} # {}
<1>1. PICK D : D = Clients \ {c}
  OBVIOUS
<1>2. /\ IsFiniteSet(D) /\ Cardinality(D) = Cardinality(Clients) - 1
      /\ Cardinality(Clients) \in Nat /\ Cardinality(D) \in Nat
  BY <1>1, FS_RemoveElement, FS_CardinalityType, SelectorAssumption
<1>3. PICK R : R = {T[d].r : d \in D}
  OBVIOUS
<1>4. PICK W : W = {T[d].w : d \in D}
  OBVIOUS
<1>5. /\ IsFiniteSet(R) /\ Cardinality(R) \in Nat
      /\ Cardinality(R) <= Cardinality(D)
  <2>1. PICK f : f = [d \in D |-> T[d].r]
    OBVIOUS
  <2>2. R = {f[d] : d \in D} /\ f = [d \in D |-> f[d]]
    BY <1>3, <2>1
  <2> QED
    BY <1>2, <2>2, ImageBound
<1>6. /\ IsFiniteSet(W) /\ Cardinality(W) \in Nat
      /\ Cardinality(W) <= Cardinality(D)
  <2>1. PICK f : f = [d \in D |-> T[d].w]
    OBVIOUS
  <2>2. W = {f[d] : d \in D} /\ f = [d \in D |-> f[d]]
    BY <1>4, <2>1
  <2> QED
    BY <1>2, <2>2, ImageBound
<1>7. PICK U : U = R \cup W
  OBVIOUS
<1>8. IsFiniteSet(U) /\ Cardinality(U) \in Nat
      /\ Cardinality(U) <= Cardinality(R) + Cardinality(W)
  <2>1. /\ IsFiniteSet(U)
        /\ Cardinality(U) = Cardinality(R) + Cardinality(W) - Cardinality(R \cap W)
    BY <1>5, <1>6, <1>7, FS_Union
  <2>2. Cardinality(R \cap W) \in Nat /\ Cardinality(U) \in Nat
    BY <1>5, <2>1, FS_Intersection, FS_CardinalityType
  <2> QED
    BY <1>5, <1>6, <2>1, <2>2
<1>9. /\ IsFiniteSet(Fd) /\ Cardinality(Fd) = NFd /\ NFd \in Nat
      /\ NFd >= 2 * Cardinality(Clients)
  <2>1. NFd \in Nat /\ NFd >= 2 * Cardinality(Clients)
    BY SelectorAssumption
  <2>2. IsFiniteSet(1..NFd) /\ Cardinality(1..NFd) = IF 1 > NFd THEN 0 ELSE NFd - 1 + 1
    BY <2>1, FS_Interval
  <2> QED
    BY <2>1, <2>2 DEF Fd
<1>10. PICK F : F = Fd \ U
  OBVIOUS
<1>11. IsFiniteSet(F) /\ Cardinality(F) \in Nat /\ Cardinality(F) >= 2
  <2>1. IsFiniteSet(F) /\ Cardinality(F) = Cardinality(Fd) - Cardinality(Fd \cap U)
    BY <1>9, <1>10, FS_Difference
  <2>2. /\ Cardinality(Fd \cap U) <= Cardinality(U)
        /\ Cardinality(Fd \cap U) \in Nat /\ Cardinality(F) \in Nat
    BY <1>8, <1>9, <2>1, FS_Intersection, FS_CardinalityType
  <2> QED
    BY <1>2, <1>5, <1>6, <1>8, <1>9, <2>1, <2>2
<1>12. F \subseteq free
  <2>1. T[c].r = 0 /\ T[c].w = 0
    BY DEF Channels, Closed
  <2>2. 0 \notin Fd
    BY <1>9 DEF Fd
  <2> QED
    BY <1>1, <1>3, <1>4, <1>7, <1>10, <2>1, <2>2
<1>13. F # {}
  BY <1>11, FS_EmptySet
<1>14. ASSUME NEW r PROVE F \ {r} # {}
  <2>1. /\ IsFiniteSet(F \ {r})
        /\ Cardinality(F \ {r}) =
              IF r \in F THEN Cardinality(F) - 1 ELSE Cardinality(F)
    BY <1>11, FS_RemoveElement
  <2>2. Cardinality(F \ {r}) # 0
    BY <1>11, <2>1
  <2> QED
    BY <2>1, <2>2, FS_EmptySet
<1> QED
  BY <1>12, <1>13, <1>14

-----------------------------------------------------------------------------
(* Selector's operations.                                                  *)

LEMMA SelecteeType ==
    ASSUME NEW c \in Clients
    PROVE  /\ ReadSel(c) \in Selectee /\ WriteSel(c) \in Selectee
           /\ ReadSel(c).type = "READ" /\ ReadSel(c).c = c
           /\ WriteSel(c).type = "WRITE" /\ WriteSel(c).c = c
           /\ WriteSel(c).old = (c \in Sockets)
           /\ NoSel.type = "none" /\ ReadSel(c) # NoSel /\ WriteSel(c) # NoSel
<1>1. /\ ReadSel(c) \in Selectee /\ WriteSel(c) \in Selectee
  BY DEF ReadSel, WriteSel, Selectee
<1>2. /\ ReadSel(c).type = "READ" /\ ReadSel(c).c = c
      /\ WriteSel(c).type = "WRITE" /\ WriteSel(c).c = c
      /\ WriteSel(c).old = (c \in Sockets) /\ NoSel.type = "none"
  BY DEF ReadSel, WriteSel, NoSel
<1> QED
  BY <1>1, <1>2

\* R is S with the selectee s on fd.
Added(S, R, fd, s) ==
    /\ R \in SelectorState
    /\ R.sel[fd] = s
    /\ \A g \in Fd : g # fd => R.sel[g] = S.sel[g]
    /\ R.r = IF s.type = "READ" THEN S.r \cup {fd} ELSE S.r
    /\ R.w = IF s.type = "WRITE" THEN S.w \cup {fd} ELSE S.w

\* R is S without the selectee on fd.
Deleted(S, R, fd) ==
    /\ R \in SelectorState
    /\ fd \notin S.r \cup S.w => R = S
    /\ fd \in S.r \cup S.w =>
          /\ R.sel[fd] = NoSel
          /\ R.r = IF S.sel[fd].type = "READ" THEN S.r \ {fd} ELSE S.r
          /\ R.w = IF S.sel[fd].type = "WRITE" THEN S.w \ {fd} ELSE S.w
    /\ \A g \in Fd : g # fd => /\ R.sel[g] = S.sel[g]
                               /\ g \in R.r <=> g \in S.r
                               /\ g \in R.w <=> g \in S.w

LEMMA AddFields ==
    ASSUME NEW S \in SelectorState, NEW fd \in Fd, NEW s \in Selectee,
           NEW R, R = AddSelectee(S, fd, s)
    PROVE  Added(S, R, fd, s)
<1>1. PICK r : r = IF s.type = "READ" THEN S.r \cup {fd} ELSE S.r
  OBVIOUS
<1>2. PICK w : w = IF s.type = "WRITE" THEN S.w \cup {fd} ELSE S.w
  OBVIOUS
<1>3. R = [S EXCEPT !.sel[fd] = s, !.r = r, !.w = w]
  BY <1>1, <1>2 DEF AddSelectee
<1>4. /\ S.sel \in [Fd -> Selectee \cup {NoSel}]
      /\ r \in SUBSET Fd /\ w \in SUBSET Fd
  BY <1>1, <1>2 DEF SelectorState
<1>5. R = [sel |-> [S.sel EXCEPT ![fd] = s], r |-> r, w |-> w]
  BY <1>3 DEF SelectorState
<1>6. [S.sel EXCEPT ![fd] = s] \in [Fd -> Selectee \cup {NoSel}]
  BY <1>4
<1> QED
  BY <1>1, <1>2, <1>4, <1>5, <1>6 DEF SelectorState, Added

LEMMA DeleteFields ==
    ASSUME NEW S \in SelectorState, NEW fd \in Fd,
           NEW R, R = DeleteSelectee(S, fd)
    PROVE  Deleted(S, R, fd)
<1>1. CASE fd \notin S.r \cup S.w
  BY <1>1 DEF DeleteSelectee, Deleted
<1>2. CASE fd \in S.r \cup S.w
  <2>1. PICK r : r = IF S.sel[fd].type = "READ" THEN S.r \ {fd} ELSE S.r
    OBVIOUS
  <2>2. PICK w : w = IF S.sel[fd].type = "WRITE" THEN S.w \ {fd} ELSE S.w
    OBVIOUS
  <2>3. R = [S EXCEPT !.sel[fd] = NoSel, !.r = r, !.w = w]
    BY <1>2, <2>1, <2>2 DEF DeleteSelectee
  <2>4. /\ S.sel \in [Fd -> Selectee \cup {NoSel}]
        /\ r \in SUBSET Fd /\ w \in SUBSET Fd
    BY <2>1, <2>2 DEF SelectorState
  <2>5. R = [sel |-> [S.sel EXCEPT ![fd] = NoSel], r |-> r, w |-> w]
    BY <2>3 DEF SelectorState
  <2>6. [S.sel EXCEPT ![fd] = NoSel] \in [Fd -> Selectee \cup {NoSel}]
    BY <2>4
  <2> QED
    BY <1>2, <2>1, <2>2, <2>4, <2>5, <2>6 DEF SelectorState, Deleted
<1> QED
  BY <1>1, <1>2

-----------------------------------------------------------------------------
(* Channels.                                                               *)

LEMMA ChannelFields ==
    ASSUME NEW T, Channels(T), NEW c \in Clients
    PROVE  /\ T[c] \in Channel /\ T[c].r \in 0..NFd /\ T[c].w \in 0..NFd
           /\ T[c].r # 0 => T[c].r \in Fd /\ T[c].w \in Fd
           /\ T[c].r = 0 => T[c].w = 0
           /\ NFd \in Nat /\ 0 \notin Fd
<1>1. T[c] \in Channel /\ NFd \in Nat
  BY SelectorAssumption DEF Channels
<1>2. T[c].r \in 0..NFd /\ T[c].w \in 0..NFd
  BY <1>1 DEF Channel
<1>3. T[c].r # 0 => T[c].w # 0
  BY DEF Channels, OwnFds
<1>4. T[c].r = 0 => T[c].w = 0
  BY DEF Channels, Closed
<1> QED
  BY <1>1, <1>2, <1>3, <1>4 DEF Fd

\* A descriptor belongs to one client.
LEMMA OneOwner ==
    ASSUME NEW T, Channels(T), NEW c \in Clients, NEW d \in Clients,
           NEW fd \in Fd, T[c].r = fd \/ T[c].w = fd,
           T[d].r = fd \/ T[d].w = fd
    PROVE  c = d /\ T[c].r # 0
<1>1. fd # 0
  BY ChannelFields
<1>2. T[c].r # 0 /\ T[d].r # 0
  BY <1>1, ChannelFields
<1> QED
  BY <1>2 DEF Channels, Apart

\* U is T with the channel t for c, on the descriptors it had.
Changed(T, U, c, t) ==
    /\ Channels(U) /\ U[c] = t
    /\ \A d \in Clients : /\ d # c => U[d] = T[d]
                          /\ U[d].r = T[d].r /\ U[d].w = T[d].w

LEMMA ChannelsKept ==
    ASSUME NEW T, Channels(T), NEW c \in Clients, T[c].r # 0,
           NEW t \in Channel, t.r = T[c].r, t.w = T[c].w,
           NEW U, U = [T EXCEPT ![c] = t]
    PROVE  Changed(T, U, c, t)
<1>1. T \in [Clients -> Channel]
  BY DEF Channels
<1>2. /\ U \in [Clients -> Channel] /\ U[c] = t
      /\ \A d \in Clients : d # c => U[d] = T[d]
  BY <1>1
<1>3. \A d \in Clients : U[d].r = T[d].r /\ U[d].w = T[d].w
  BY <1>2
<1>4. \A d \in Clients : /\ U[d].r = 0 => U[d] = Closed
                         /\ U[d].r # 0 => OwnFds(U[d], d \in Sockets)
  BY <1>2, <1>3 DEF Channels, OwnFds
<1>5. \A d, e \in Clients : d # e /\ U[d].r # 0 /\ U[e].r # 0
          => Apart(U[d], U[e])
  BY <1>3 DEF Channels, Apart
<1> QED
  BY <1>2, <1>3, <1>4, <1>5 DEF Channels, Changed

LEMMA FlushedFields ==
    ASSUME NEW t \in Channel, NEW u \in Flushed(t)
    PROVE  /\ u \in Channel /\ u.r = t.r /\ u.w = t.w
           /\ u.unread = t.unread /\ u.gone = t.gone /\ u.fresh = t.fresh
  BY DEF Flushed, Channel

\* Nothing that Matched and Watching tell apart has changed.
LEMMA SameDescriptors ==
    ASSUME NEW S, NEW T, NEW U, Matched(S, T), Watching(S, T),
           \A d \in Clients : /\ U[d].r = T[d].r /\ U[d].w = T[d].w
                              /\ U[d].pend => T[d].pend
    PROVE  Matched(S, U) /\ Watching(S, U)
<1>1. \A fd, d : d \in Clients => /\ Reads(S, T, fd, d) = Reads(S, U, fd, d)
                                  /\ Writes(S, T, fd, d) = Writes(S, U, fd, d)
  BY DEF Reads, Writes
<1>2. Matched(S, U)
  BY <1>1 DEF Matched
<1> QED
  BY <1>1, <1>2 DEF Watching, Attended

-----------------------------------------------------------------------------
(* What a statement does.                                                  *)

\* Sequencer::SendSuspended(), when the descriptor takes no more.
LEMMA SuspendedFit ==
    ASSUME NEW S \in SelectorState, NEW T, Channels(T), NEW c \in Clients,
           T[c].r # 0, NEW u, u.w = T[c].w, NEW R, R = SendSuspended(S, u, c)
    PROVE  /\ R \in SelectorState
           /\ Matched(S, T) /\ Watching(S, T) =>
                 /\ Matched(R, T) /\ Watching(R, T)
                 /\ Writes(R, T, T[c].w, c)
                 /\ \A fd \in Fd : R.sel[fd].type = "READ" => R.sel[fd] = S.sel[fd]
<1>1. PICK fd : fd = T[c].w
  OBVIOUS
<1>2. fd \in Fd /\ T[c].r \in Fd
  BY <1>1, ChannelFields
<1>3. PICK old : old = FindSelectee(S, fd)
  OBVIOUS
<1>4. PICK s : s = [type |-> "WRITE", c |-> c, old |-> old.type = "READ"]
  OBVIOUS
<1>5. R = IF old.type = "WRITE" THEN S ELSE AddSelectee(S, fd, s)
  BY <1>1, <1>3, <1>4 DEF SendSuspended
<1>6. s \in Selectee /\ s.type = "WRITE"
  BY <1>4 DEF Selectee
<1>7. ASSUME old.type # "WRITE"
      PROVE  /\ R \in SelectorState
             /\ R.sel[fd] = s /\ R.r = S.r /\ R.w = S.w \cup {fd}
             /\ \A g \in Fd : g # fd => R.sel[g] = S.sel[g]
  <2>1. R = AddSelectee(S, fd, s)
    BY <1>5, <1>7
  <2>2. Added(S, R, fd, s)
    BY <1>2, <1>6, <2>1, AddFields
  <2> QED
    BY <1>6, <2>2 DEF Added
<1>8. ASSUME Matched(S, T), Watching(S, T)
      PROVE  /\ Matched(R, T) /\ Watching(R, T) /\ Writes(R, T, T[c].w, c)
             /\ \A g \in Fd : R.sel[g].type = "READ" => R.sel[g] = S.sel[g]
  <2>1. Attended(S, T, c)
    BY <1>8 DEF Watching
  <2>2. T[c].w = T[c].r <=> c \in Sockets
    BY DEF Channels, OwnFds
  <2>3. CASE Writes(S, T, fd, c)
    <3>1. old = WriteSel(c)
      BY <1>3, <2>3 DEF Writes, FindSelectee
    <3>2. R = S
      BY <1>5, <3>1, SelecteeType
    <3> QED
      BY <1>1, <1>8, <2>3, <3>2
  <2>4. CASE ~Writes(S, T, fd, c)
    <3>1. \/ c \notin Sockets /\ Unwatched(S, fd)
          \/ c \in Sockets /\ Reads(S, T, fd, c)
      <4>1. CASE c \in Sockets
        BY <1>1, <2>1, <2>2, <2>4, <4>1 DEF Attended
      <4>2. CASE c \notin Sockets
        <5>1. ASSUME NEW d \in Clients, Reads(S, T, fd, d) \/ Writes(S, T, fd, d)
              PROVE  FALSE
          <6>1. T[d].r = fd \/ T[d].w = fd
            BY <5>1 DEF Reads, Writes
          <6>2. d = c
            BY <1>1, <1>2, <6>1, OneOwner
          <6> QED
            BY <1>1, <2>2, <2>4, <4>2, <5>1, <6>2 DEF Reads
        <5> QED
          BY <1>2, <1>8, <4>2, <5>1 DEF Matched
      <4> QED
        BY <4>1, <4>2
    <3>2. \/ old = NoSel /\ c \notin Sockets
          \/ old = ReadSel(c) /\ c \in Sockets
      BY <1>3, <3>1 DEF FindSelectee, Unwatched, Reads
    <3>3. s = WriteSel(c) /\ old.type # "WRITE"
      BY <1>4, <3>2, SelecteeType DEF WriteSel
    <3>4. /\ R.sel[fd] = WriteSel(c) /\ R.r = S.r /\ R.w = S.w \cup {fd}
          /\ \A g \in Fd : g # fd => R.sel[g] = S.sel[g]
      BY <1>7, <3>3
    <3>5. Writes(R, T, fd, c)
      BY <1>1, <3>1, <3>4 DEF Writes, Unwatched, Reads
    <3>6. ASSUME NEW g \in Fd, g # fd
          PROVE  /\ Unwatched(S, g) => Unwatched(R, g)
                 /\ \A d \in Clients : /\ Reads(S, T, g, d) => Reads(R, T, g, d)
                                       /\ Writes(S, T, g, d) => Writes(R, T, g, d)
      BY <3>4, <3>6 DEF Unwatched, Reads, Writes
    <3>7. Matched(R, T)
      <4> SUFFICES ASSUME NEW g \in Fd
                   PROVE  \/ Unwatched(R, g)
                          \/ \E d \in Clients : Reads(R, T, g, d) \/ Writes(R, T, g, d)
        BY DEF Matched
      <4>1. CASE g = fd
        BY <3>5, <4>1
      <4>2. CASE g # fd
        BY <1>8, <3>6, <4>2 DEF Matched
      <4> QED
        BY <4>1, <4>2
    <3>8. Watching(R, T)
      <4> SUFFICES ASSUME NEW d \in Clients, T[d].r # 0 PROVE Attended(R, T, d)
        BY DEF Watching
      <4>1. Attended(S, T, d) /\ T[d].r \in Fd /\ T[d].w \in Fd
        BY <1>8, ChannelFields DEF Watching
      <4>2. CASE d = c
        <5>1. CASE c \in Sockets
          BY <1>1, <2>2, <3>5, <4>2, <5>1 DEF Attended
        <5>2. CASE c \notin Sockets
          <6>1. T[c].r # fd
            BY <1>1, <2>2, <5>2
          <6> QED
            BY <1>1, <1>2, <3>5, <3>6, <4>1, <4>2, <5>2, <6>1 DEF Attended
        <5> QED
          BY <5>1, <5>2
      <4>3. CASE d # c
        <5>1. T[d].r # fd /\ T[d].w # fd
          BY <1>1, <1>2, <4>3, OneOwner
        <5> QED
          BY <3>6, <4>1, <5>1 DEF Attended
      <4> QED
        BY <4>2, <4>3
    <3>9. \A g \in Fd : R.sel[g].type = "READ" => R.sel[g] = S.sel[g]
      BY <3>4, SelecteeType
    <3> QED
      BY <1>1, <3>5, <3>7, <3>8, <3>9
  <2> QED
    BY <2>3, <2>4
<1> QED
  BY <1>5, <1>7, <1>8

LEMMA SelecteeClient ==
    ASSUME NEW S \in SelectorState, NEW fd \in Fd, S.sel[fd].type # "none"
    PROVE  S.sel[fd].c \in Clients /\ S.sel[fd] \in Selectee
<1>1. S.sel[fd] \in Selectee \cup {NoSel}
  BY DEF SelectorState
<1> QED
  BY <1>1 DEF NoSel, Selectee

\* A read that would not have blocked still does not.
LEMMA ReadyKept ==
    ASSUME NEW S \in SelectorState, NEW R, NEW T, NEW U, NEW M \in SUBSET Fd,
           Ready(S, T, M),
           \A fd \in M : R.sel[fd].type = "READ" => R.sel[fd] = S.sel[fd],
           \A d \in Clients : Speaks(T[d]) => Speaks(U[d])
    PROVE  Ready(R, U, M)
<1> SUFFICES ASSUME NEW fd \in M, R.sel[fd].type = "READ"
             PROVE  Speaks(U[R.sel[fd].c])
  BY DEF Ready
<1>1. R.sel[fd] = S.sel[fd] /\ S.sel[fd].type = "READ"
  OBVIOUS
<1>2. S.sel[fd].c \in Clients
  BY <1>1, SelecteeClient
<1>3. Speaks(T[S.sel[fd].c])
  BY <1>1 DEF Ready
<1> QED
  BY <1>1, <1>2, <1>3

\* Task::sendEvent()
LEMMA SendFit ==
    ASSUME NEW S, NEW T, NEW n, NEW M \in SUBSET Fd, Fit(S, T, n, M),
           NEW c \in Clients, T[c].r # 0, NEW o \in SendEvent(S, T, n, c)
    PROVE  Fit(o.S, o.T, o.torn, M)
<1>1. PICK u \in Flushed(T[c]) :
          o = Outcome(IF u.pend THEN SendSuspended(S, u, c) ELSE S,
                      [T EXCEPT ![c] = u], n)
  BY DEF SendEvent
<1>2. PICK R : R = IF u.pend THEN SendSuspended(S, u, c) ELSE S
  OBVIOUS
<1>3. PICK U : U = [T EXCEPT ![c] = u]
  OBVIOUS
<1>4. o.S = R /\ o.T = U /\ o.torn = n
  BY <1>1, <1>2, <1>3 DEF Outcome
<1>5. S \in SelectorState /\ Channels(T) /\ n \in BOOLEAN
  BY DEF Fit
<1>6. T[c] \in Channel
  BY <1>5, ChannelFields
<1>7. /\ u \in Channel /\ u.r = T[c].r /\ u.w = T[c].w
      /\ u.unread = T[c].unread /\ u.gone = T[c].gone /\ u.fresh = T[c].fresh
  BY <1>6, FlushedFields
<1>8. /\ Channels(U) /\ U[c] = u
      /\ \A d \in Clients : /\ d # c => U[d] = T[d]
                            /\ U[d].r = T[d].r /\ U[d].w = T[d].w
  <2>1. Changed(T, U, c, u)
    BY <1>3, <1>5, <1>7, ChannelsKept
  <2> QED
    BY <2>1 DEF Changed
<1>9. \A d \in Clients : Speaks(T[d]) => Speaks(U[d])
  BY <1>7, <1>8 DEF Speaks
<1>10. R \in SelectorState
  BY <1>2, <1>5, <1>7, SuspendedFit
<1>11. ASSUME ~n PROVE Matched(R, U) /\ Watching(R, U) /\ Ready(R, U, M)
  <2>1. Matched(S, T) /\ Watching(S, T) /\ Ready(S, T, M)
    BY <1>11 DEF Fit
  <2>2. CASE ~u.pend
    <3>1. R = S
      BY <1>2, <2>2
    <3>2. \A d \in Clients : U[d].pend => T[d].pend
      BY <1>8, <2>2
    <3>3. Matched(R, U) /\ Watching(R, U)
      BY <1>8, <2>1, <3>1, <3>2, SameDescriptors
    <3> QED
      BY <1>5, <1>9, <2>1, <3>1, <3>3, ReadyKept
  <2>3. CASE u.pend
    <3>1. R = SendSuspended(S, u, c)
      BY <1>2, <2>3
    <3>2. /\ Matched(R, T) /\ Watching(R, T) /\ Writes(R, T, T[c].w, c)
          /\ \A fd \in Fd : R.sel[fd].type = "READ" => R.sel[fd] = S.sel[fd]
      BY <1>5, <1>7, <2>1, <3>1, SuspendedFit
    <3>3. \A fd, d : d \in Clients => /\ Reads(R, T, fd, d) = Reads(R, U, fd, d)
                                      /\ Writes(R, T, fd, d) = Writes(R, U, fd, d)
      BY <1>8 DEF Reads, Writes
    <3>4. Matched(R, U)
      BY <3>2, <3>3 DEF Matched
    <3>5. Watching(R, U)
      <4> SUFFICES ASSUME NEW d \in Clients, U[d].r # 0 PROVE Attended(R, U, d)
        BY DEF Watching
      <4>1. Attended(R, T, d)
        BY <1>8, <3>2 DEF Watching
      <4>2. CASE d = c
        BY <1>8, <3>2, <3>3, <4>1, <4>2 DEF Attended
      <4>3. CASE d # c
        BY <1>8, <3>3, <4>1, <4>3 DEF Attended
      <4> QED
        BY <4>2, <4>3
    <3>6. Ready(R, U, M)
      BY <1>5, <1>9, <2>1, <3>2, ReadyKept
    <3> QED
      BY <3>4, <3>5, <3>6
  <2> QED
    BY <2>2, <2>3
<1> QED
  BY <1>4, <1>5, <1>8, <1>10, <1>11 DEF Fit

\* A selectee is that of the channel on its descriptor.
LEMMA SelecteeOwner ==
    ASSUME NEW S, NEW T, Matched(S, T), NEW fd \in Fd,
           S.sel[fd].type # "none", NEW d, d = S.sel[fd].c
    PROVE  /\ d \in Clients
           /\ S.sel[fd].type = "READ" => Reads(S, T, fd, d)
           /\ S.sel[fd].type # "READ" => Writes(S, T, fd, d)
<1>1. PICK c \in Clients : Reads(S, T, fd, c) \/ Writes(S, T, fd, c)
  BY SelecteeType DEF Matched, Unwatched, NoSel
<1>2. CASE Reads(S, T, fd, c)
  <2>1. S.sel[fd] = ReadSel(c)
    BY <1>2 DEF Reads
  <2> QED
    BY <1>2, <2>1, SelecteeType
<1>3. CASE Writes(S, T, fd, c)
  <2>1. S.sel[fd] = WriteSel(c)
    BY <1>3 DEF Writes
  <2> QED
    BY <1>3, <2>1, SelecteeType
<1> QED
  BY <1>1, <1>2, <1>3

\* t may be the channel of c, beside the other channels of T.
FitsIn(T, c, t) ==
    /\ t \in Channel
    /\ t.r = 0 => t = Closed
    /\ t.r # 0 => /\ OwnFds(t, c \in Sockets)
                  /\ \A d \in Clients : d # c /\ T[d].r # 0 =>
                        Apart(t, T[d]) /\ Apart(T[d], t)

\* U is T with the channel t for c.
Replaced(T, U, c, t) ==
    Channels(U) /\ U[c] = t /\ \A d \in Clients : d # c => U[d] = T[d]

\* R is S, but for the descriptor fd.
Elsewhere(S, R, fd) ==
    \A g \in Fd : g # fd => /\ R.sel[g] = S.sel[g]
                            /\ g \in R.r <=> g \in S.r
                            /\ g \in R.w <=> g \in S.w

\* On other descriptors than fd the clients other than c have what they had.
OthersKeep(S, T, R, U, c, fd) ==
    /\ \A g \in Fd : g # fd /\ Unwatched(S, g) => Unwatched(R, g)
    /\ \A g \in Fd : \A d \in Clients : g # fd /\ d # c =>
          /\ Reads(S, T, g, d) => Reads(R, U, g, d)
          /\ Writes(S, T, g, d) => Writes(R, U, g, d)

LEMMA OtherChannels ==
    ASSUME NEW T, Channels(T), NEW c \in Clients, NEW t, FitsIn(T, c, t),
           NEW U, U = [T EXCEPT ![c] = t]
    PROVE  Replaced(T, U, c, t)
<1>1. T \in [Clients -> Channel]
  BY DEF Channels
<1>2. /\ U \in [Clients -> Channel] /\ U[c] = t
      /\ \A d \in Clients : d # c => U[d] = T[d]
  BY <1>1 DEF FitsIn
<1>3. \A d \in Clients : /\ U[d].r = 0 => U[d] = Closed
                         /\ U[d].r # 0 => OwnFds(U[d], d \in Sockets)
  BY <1>2 DEF Channels, FitsIn
<1>4. ASSUME NEW d \in Clients, NEW e \in Clients, d # e,
             U[d].r # 0, U[e].r # 0
      PROVE  Apart(U[d], U[e])
  <2>1. CASE d = c
    BY <1>2, <1>4, <2>1 DEF FitsIn
  <2>2. CASE e = c
    BY <1>2, <1>4, <2>2 DEF FitsIn
  <2>3. CASE d # c /\ e # c
    BY <1>2, <1>4, <2>3 DEF Channels
  <2> QED
    BY <2>1, <2>2, <2>3
<1> QED
  BY <1>2, <1>3, <1>4 DEF Channels, Replaced

LEMMA OthersKept ==
    ASSUME NEW S, NEW T, NEW R, NEW U, NEW c \in Clients, NEW fd,
           \A d \in Clients : d # c => U[d] = T[d], Elsewhere(S, R, fd)
    PROVE  OthersKeep(S, T, R, U, c, fd)
<1>1. ASSUME NEW g \in Fd, g # fd, Unwatched(S, g) PROVE Unwatched(R, g)
  BY <1>1 DEF Elsewhere, Unwatched
<1>2. ASSUME NEW g \in Fd, NEW d \in Clients, g # fd, d # c,
             Reads(S, T, g, d)
      PROVE  Reads(R, U, g, d)
  BY <1>2 DEF Elsewhere, Reads
<1>3. ASSUME NEW g \in Fd, NEW d \in Clients, g # fd, d # c,
             Writes(S, T, g, d)
      PROVE  Writes(R, U, g, d)
  BY <1>3 DEF Elsewhere, Writes
<1> QED
  BY <1>1, <1>2, <1>3 DEF OthersKeep

LEMMA ClosedChannel ==
    Closed \in Channel /\ Closed.r = 0 /\ Closed.w = 0
<1>1. 0 \in 0..NFd /\ 0 \in 0..MaxUnread
  BY SelectorAssumption
<1> QED
  BY <1>1 DEF Closed, Channel

IsNew(t, r, w) ==
    /\ t \in Channel /\ t.r = r /\ t.w = w
    /\ t.fresh = TRUE /\ t.pend = FALSE

LEMMA NewChannel ==
    ASSUME NEW r \in Fd, NEW w \in Fd, NEW t,
           t = [r |-> r, w |-> w, unread |-> 0, gone |-> FALSE, room |-> TRUE,
                pend |-> FALSE, fresh |-> TRUE]
    PROVE  IsNew(t, r, w)
<1>1. r \in 0..NFd /\ w \in 0..NFd /\ 0 \in 0..MaxUnread
  BY SelectorAssumption DEF Fd
<1>2. t \in Channel
  BY <1>1 DEF Channel
<1>3. t.r = r /\ t.w = w /\ t.fresh = TRUE /\ t.pend = FALSE
  OBVIOUS
<1> QED
  BY <1>2, <1>3 DEF IsNew

\* The close of a channel with no SendSelectee.
LEMMA CloseFit ==
    ASSUME NEW S, NEW T, NEW n, NEW M \in SUBSET Fd, Fit(S, T, n, M),
           NEW c \in Clients, T[c].r # 0, NEW o, o = CloseChannel(S, T, n, c)
    PROVE  Fit(o.S, o.T, o.torn, M)
<1>1. PICK R : R = DeleteSelectee(S, T[c].r)
  OBVIOUS
<1>2. PICK U : U = [T EXCEPT ![c] = Closed]
  OBVIOUS
<1>3. PICK m : m = (n \/ FindSelectee(S, T[c].w).type = "WRITE")
  OBVIOUS
<1>4. o.S = R /\ o.T = U /\ o.torn = m
  BY <1>1, <1>2, <1>3 DEF Outcome, CloseChannel
<1>5. S \in SelectorState /\ Channels(T) /\ n \in BOOLEAN
  BY DEF Fit
<1>6. /\ Channels(U) /\ U[c] = Closed
      /\ \A d \in Clients : d # c => U[d] = T[d]
  <2>1. FitsIn(T, c, Closed)
    BY ClosedChannel DEF FitsIn
  <2>2. Replaced(T, U, c, Closed)
    BY <1>2, <1>5, <2>1, OtherChannels
  <2> QED
    BY <2>2 DEF Replaced
<1>7. PICK fd : fd = T[c].r
  OBVIOUS
<1>8. fd \in Fd /\ T[c].w \in Fd
  BY <1>5, <1>7, ChannelFields
<1>9. Deleted(S, R, fd)
  BY <1>1, <1>5, <1>7, <1>8, DeleteFields
<1>10. R \in SelectorState
  BY <1>9 DEF Deleted
<1>11. ASSUME ~m PROVE Matched(R, U) /\ Watching(R, U) /\ Ready(R, U, M)
  <2>1. /\ ~n /\ Matched(S, T) /\ Watching(S, T) /\ Ready(S, T, M)
        /\ FindSelectee(S, T[c].w).type # "WRITE"
    BY <1>3, <1>11 DEF Fit
  <2>2. ~Writes(S, T, T[c].w, c)
    BY <2>1, SelecteeType DEF Writes, FindSelectee
  <2>3. Reads(S, T, fd, c)
    <3>1. T[c].w = T[c].r <=> c \in Sockets
      BY <1>5 DEF Channels, OwnFds
    <3>2. Attended(S, T, c)
      BY <2>1 DEF Watching
    <3> QED
      BY <1>7, <2>2, <3>1, <3>2 DEF Attended
  <2>4. Unwatched(R, fd)
    <3>1. S.sel[fd].type = "READ" /\ fd \in S.r /\ fd \notin S.w
      BY <2>3, SelecteeType DEF Reads
    <3> QED
      BY <1>9, <3>1 DEF Deleted, Unwatched
  <2>5. /\ \A g \in Fd : g # fd /\ Unwatched(S, g) => Unwatched(R, g)
        /\ \A g \in Fd : \A d \in Clients : g # fd /\ d # c =>
              /\ Reads(S, T, g, d) => Reads(R, U, g, d)
              /\ Writes(S, T, g, d) => Writes(R, U, g, d)
    <3>1. Elsewhere(S, R, fd)
      BY <1>9 DEF Deleted, Elsewhere
    <3>2. OthersKeep(S, T, R, U, c, fd)
      BY <1>6, <3>1, OthersKept
    <3> QED
      BY <3>2 DEF OthersKeep
  <2>6. Matched(R, U)
    <3> SUFFICES ASSUME NEW g \in Fd, g # fd, ~Unwatched(S, g)
                 PROVE  \E d \in Clients : Reads(R, U, g, d) \/ Writes(R, U, g, d)
      BY <2>4, <2>5 DEF Matched
    <3>1. PICK d \in Clients : Reads(S, T, g, d) \/ Writes(S, T, g, d)
      BY <2>1 DEF Matched
    <3>2. d # c
      BY <1>7, <2>2, <3>1 DEF Reads, Writes
    <3> QED
      BY <2>5, <3>1, <3>2
  <2>7. Watching(R, U)
    <3> SUFFICES ASSUME NEW d \in Clients, U[d].r # 0 PROVE Attended(R, U, d)
      BY DEF Watching
    <3>1. d # c /\ U[d] = T[d]
      BY <1>6, ClosedChannel
    <3>2. Attended(S, T, d) /\ T[d].r \in Fd /\ T[d].w \in Fd
      BY <1>5, <2>1, <3>1, ChannelFields DEF Watching
    <3>3. T[d].r # fd /\ T[d].w # fd
      BY <1>5, <1>7, <1>8, <3>1, OneOwner
    <3> QED
      BY <2>5, <3>1, <3>2, <3>3 DEF Attended
  <2>8. Ready(R, U, M)
    <3> SUFFICES ASSUME NEW g \in M, R.sel[g].type = "READ"
                 PROVE  Speaks(U[R.sel[g].c])
      BY DEF Ready
    <3>1. g \in Fd /\ g # fd
      BY <2>4, SelecteeType DEF Unwatched, NoSel
    <3>2. R.sel[g] = S.sel[g]
      BY <1>9, <3>1 DEF Deleted
    <3>3. PICK d : d = S.sel[g].c
      OBVIOUS
    <3>4. S.sel[g].type = "READ"
      BY <3>2
    <3>5. d \in Clients /\ Reads(S, T, g, d)
      BY <2>1, <3>1, <3>3, <3>4, SelecteeOwner
    <3>6. d # c
      BY <1>7, <3>1, <3>5 DEF Reads
    <3> QED
      BY <1>6, <2>1, <3>2, <3>3, <3>4, <3>5, <3>6 DEF Ready
  <2> QED
    BY <2>6, <2>7, <2>8
<1>12. m \in BOOLEAN
  BY <1>3, <1>5
<1> QED
  BY <1>4, <1>6, <1>10, <1>11, <1>12 DEF Fit

\* A channel for a client that has none, and its selectee.
LEMMA OpenFit ==
    ASSUME NEW S, NEW T, NEW n, NEW M \in SUBSET Fd, Fit(S, T, n, M),
           NEW c \in Clients, T[c].r = 0, NEW o, o = OpenChannel(S, T, n, c)
    PROVE  Fit(o.S, o.T, o.torn, M)
<1>1. PICK free : free = Fd \ ({T[d].r : d \in Clients} \cup {T[d].w : d \in Clients})
  OBVIOUS
<1>2. PICK r : r = Min(free)
  OBVIOUS
<1>3. PICK w : w = IF c \in Sockets THEN r ELSE Min(free \ {r})
  OBVIOUS
<1>4. PICK t : t = [Closed EXCEPT !.r = r, !.w = w, !.fresh = TRUE]
  OBVIOUS
<1>5. PICK R : R = AddSelectee(S, r, ReadSel(c))
  OBVIOUS
<1>6. PICK U : U = [T EXCEPT ![c] = t]
  OBVIOUS
<1>7. o.S = R /\ o.T = U /\ o.torn = n
  BY <1>1, <1>2, <1>3, <1>4, <1>5, <1>6 DEF Outcome, OpenChannel
<1>8. S \in SelectorState /\ Channels(T) /\ n \in BOOLEAN
  BY DEF Fit
<1>9. free \subseteq Fd /\ free \in SUBSET Nat
  BY <1>1 DEF Fd
<1>10. r \in free /\ w \in free /\ (w = r <=> c \in Sockets)
  <2>1. free # {} /\ free \ {r} # {}
    BY <1>1, <1>8, TwoFree
  <2>2. r \in free
    BY <1>2, <1>9, <2>1, MinMember
  <2>3. Min(free \ {r}) \in free \ {r}
    BY <1>9, <2>1, MinMember
  <2> QED
    BY <1>3, <2>2, <2>3
<1>11. r \in Fd /\ w \in Fd /\ r # 0 /\ w # 0
  BY <1>8, <1>9, <1>10, ChannelFields
<1>12. ASSUME NEW d \in Clients
       PROVE  T[d].r # r /\ T[d].w # r /\ T[d].r # w /\ T[d].w # w
  BY <1>1, <1>10
<1>13. t \in Channel /\ t.r = r /\ t.w = w /\ t.fresh = TRUE /\ t.pend = FALSE
  <2>1. t = [r |-> r, w |-> w, unread |-> 0, gone |-> FALSE, room |-> TRUE,
             pend |-> FALSE, fresh |-> TRUE]
    BY <1>4 DEF Closed
  <2>2. IsNew(t, r, w)
    BY <1>11, <2>1, NewChannel
  <2> QED
    BY <2>2 DEF IsNew
<1>14. /\ Channels(U) /\ U[c] = t
       /\ \A d \in Clients : d # c => U[d] = T[d]
  <2>1. FitsIn(T, c, t)
    BY <1>10, <1>11, <1>12, <1>13 DEF FitsIn, OwnFds, Apart
  <2>2. Replaced(T, U, c, t)
    BY <1>6, <1>8, <2>1, OtherChannels
  <2> QED
    BY <2>2 DEF Replaced
<1>15. /\ R \in SelectorState /\ R.sel[r] = ReadSel(c)
       /\ \A g \in Fd : g # r => R.sel[g] = S.sel[g]
       /\ R.r = S.r \cup {r} /\ R.w = S.w
  <2>1. ReadSel(c) \in Selectee /\ ReadSel(c).type = "READ"
    BY SelecteeType
  <2>2. Added(S, R, r, ReadSel(c))
    BY <1>5, <1>8, <1>11, <2>1, AddFields
  <2> QED
    BY <2>1, <2>2 DEF Added
<1>16. ASSUME ~n PROVE Matched(R, U) /\ Watching(R, U) /\ Ready(R, U, M)
  <2>1. Matched(S, T) /\ Watching(S, T) /\ Ready(S, T, M)
    BY <1>16 DEF Fit
  <2>2. Unwatched(S, r)
    BY <1>11, <1>12, <2>1 DEF Matched, Reads, Writes
  <2>3. Reads(R, U, r, c)
    BY <1>13, <1>14, <1>15, <2>2 DEF Reads, Unwatched
  <2>4. /\ \A g \in Fd : g # r /\ Unwatched(S, g) => Unwatched(R, g)
        /\ \A g \in Fd : \A d \in Clients : g # r /\ d # c =>
              /\ Reads(S, T, g, d) => Reads(R, U, g, d)
              /\ Writes(S, T, g, d) => Writes(R, U, g, d)
    <3>1. Elsewhere(S, R, r)
      BY <1>15 DEF Elsewhere
    <3>2. OthersKeep(S, T, R, U, c, r)
      BY <1>14, <3>1, OthersKept
    <3> QED
      BY <3>2 DEF OthersKeep
  <2>5. ASSUME NEW g \in Fd, NEW d \in Clients, T[d].r = g \/ T[d].w = g
        PROVE  d # c
    BY <1>8, <2>5, ChannelFields
  <2>6. Matched(R, U)
    <3> SUFFICES ASSUME NEW g \in Fd, g # r, ~Unwatched(S, g)
                 PROVE  \E d \in Clients : Reads(R, U, g, d) \/ Writes(R, U, g, d)
      BY <2>3, <2>4 DEF Matched
    <3>1. PICK d \in Clients : Reads(S, T, g, d) \/ Writes(S, T, g, d)
      BY <2>1 DEF Matched
    <3>2. d # c
      BY <2>5, <3>1 DEF Reads, Writes
    <3> QED
      BY <2>4, <3>1, <3>2
  <2>7. Watching(R, U)
    <3> SUFFICES ASSUME NEW d \in Clients, U[d].r # 0 PROVE Attended(R, U, d)
      BY DEF Watching
    <3>1. CASE d = c
      BY <1>13, <1>14, <2>3, <3>1 DEF Attended
    <3>2. CASE d # c
      <4>1. U[d] = T[d] /\ T[d].r # 0
        BY <1>14, <3>2
      <4>2. Attended(S, T, d) /\ T[d].r \in Fd /\ T[d].w \in Fd
        BY <1>8, <2>1, <4>1, ChannelFields DEF Watching
      <4> QED
        BY <1>12, <2>4, <3>2, <4>1, <4>2 DEF Attended
    <3> QED
      BY <3>1, <3>2
  <2>8. Ready(R, U, M)
    <3> SUFFICES ASSUME NEW g \in M, R.sel[g].type = "READ"
                 PROVE  Speaks(U[R.sel[g].c])
      BY DEF Ready
    <3>1. CASE g = r
      <4>1. R.sel[g].c = c
        BY <1>15, <3>1, SelecteeType
      <4> QED
        BY <1>13, <1>14, <4>1 DEF Speaks
    <3>2. CASE g # r
      <4>1. R.sel[g] = S.sel[g] /\ S.sel[g].type = "READ" /\ g \in Fd
        BY <1>15, <3>2
      <4>2. PICK d : d = S.sel[g].c
        OBVIOUS
      <4>3. d \in Clients /\ Reads(S, T, g, d)
        BY <2>1, <4>1, <4>2, SelecteeOwner
      <4>4. d # c
        BY <2>5, <4>1, <4>3 DEF Reads
      <4> QED
        BY <1>14, <2>1, <4>1, <4>2, <4>3, <4>4 DEF Ready
    <3> QED
      BY <3>1, <3>2
  <2> QED
    BY <2>6, <2>7, <2>8
<1> QED
  BY <1>7, <1>8, <1>14, <1>15, <1>16 DEF Fit

LEMMA StatementFit ==
    ASSUME NEW S, NEW T, NEW n, NEW M \in SUBSET Fd, Fit(S, T, n, M),
           NEW o \in Statement(S, T, n)
    PROVE  Fit(o.S, o.T, o.torn, M)
<1>1. CASE o = Outcome(S, T, n)
  <2>1. o.S = S /\ o.T = T /\ o.torn = n
    BY <1>1 DEF Outcome
  <2> QED
    BY <2>1
<1>2. ASSUME NEW c \in Clients, T[c].r # 0, o \in SendEvent(S, T, n, c)
      PROVE  Fit(o.S, o.T, o.torn, M)
  BY <1>2, SendFit
<1>3. ASSUME NEW c \in Clients, T[c].r = 0, o = OpenChannel(S, T, n, c)
      PROVE  Fit(o.S, o.T, o.torn, M)
  BY <1>3, OpenFit
<1>4. ASSUME NEW c \in Clients, T[c].r # 0, o = CloseChannel(S, T, n, c)
      PROVE  Fit(o.S, o.T, o.torn, M)
  BY <1>4, CloseFit
<1>5. \/ o = Outcome(S, T, n)
      \/ \E c \in Clients : T[c].r # 0 /\ o \in SendEvent(S, T, n, c)
      \/ \E c \in Clients : T[c].r = 0 /\ o = OpenChannel(S, T, n, c)
      \/ \E c \in Clients : T[c].r # 0 /\ o = CloseChannel(S, T, n, c)
  BY DEF Statement
<1> QED
  BY <1>1, <1>2, <1>3, <1>4, <1>5

LEMMA HandlerFit ==
    ASSUME NEW S, NEW T, NEW n, NEW M \in SUBSET Fd, Fit(S, T, n, M),
           Handler(S, T, n)
    PROVE  Fit(selector', chan', torn', M)
<1>1. PICK o \in Statement(S, T, n) :
          \E p \in Statement(o.S, o.T, o.torn) : Take(p)
  BY DEF Handler
<1>2. PICK p \in Statement(o.S, o.T, o.torn) : Take(p)
  BY <1>1
<1>3. Fit(o.S, o.T, o.torn, M)
  BY <1>1, StatementFit
<1>4. Fit(p.S, p.T, p.torn, M)
  BY <1>2, <1>3, StatementFit
<1> QED
  BY <1>2, <1>4 DEF Take

-----------------------------------------------------------------------------
(* The steps of a pass.                                                    *)

\* A channel changes in what was sent or read; if it has nothing to say any
\* more, its descriptor is not to be visited again.
LEMMA TrafficFit ==
    ASSUME NEW S, NEW T, NEW n, NEW M \in SUBSET Fd, Fit(S, T, n, M),
           NEW c \in Clients, T[c].r # 0,
           NEW t \in Channel, t.r = T[c].r, t.w = T[c].w, t.pend => T[c].pend,
           (Speaks(T[c]) => Speaks(t)) \/ T[c].r \notin M,
           NEW U, U = [T EXCEPT ![c] = t]
    PROVE  Fit(S, U, n, M)
<1>1. S \in SelectorState /\ Channels(T) /\ n \in BOOLEAN
  BY DEF Fit
<1>2. /\ Channels(U) /\ U[c] = t
      /\ \A d \in Clients : /\ d # c => U[d] = T[d]
                            /\ U[d].r = T[d].r /\ U[d].w = T[d].w
  <2>1. Changed(T, U, c, t)
    BY <1>1, ChannelsKept
  <2> QED
    BY <2>1 DEF Changed
<1>3. ASSUME ~n PROVE Matched(S, U) /\ Watching(S, U) /\ Ready(S, U, M)
  <2>1. Matched(S, T) /\ Watching(S, T) /\ Ready(S, T, M)
    BY <1>3 DEF Fit
  <2>2. \A d \in Clients : U[d].pend => T[d].pend
    BY <1>2
  <2>3. Matched(S, U) /\ Watching(S, U)
    BY <1>2, <2>1, <2>2, SameDescriptors
  <2>4. Ready(S, U, M)
    <3> SUFFICES ASSUME NEW g \in M, S.sel[g].type = "READ"
                 PROVE  Speaks(U[S.sel[g].c])
      BY DEF Ready
    <3>1. PICK d : d = S.sel[g].c
      OBVIOUS
    <3>2. d \in Clients /\ Reads(S, T, g, d)
      BY <2>1, <3>1, SelecteeOwner
    <3>3. Speaks(T[d])
      BY <2>1, <3>1 DEF Ready
    <3>4. CASE d = c
      <4>1. T[c].r \in M
        BY <3>2, <3>4 DEF Reads
      <4> QED
        BY <1>2, <3>1, <3>3, <3>4, <4>1
    <3>5. CASE d # c
      BY <1>2, <3>1, <3>2, <3>3, <3>5
    <3> QED
      BY <3>4, <3>5
  <2> QED
    BY <2>3, <2>4
<1> QED
  BY <1>1, <1>2, <1>3 DEF Fit

\* The descriptors still to be visited may become fewer.
LEMMA FewerFit ==
    ASSUME NEW S, NEW T, NEW n, NEW M, Fit(S, T, n, M), NEW N \in SUBSET M
    PROVE  Fit(S, T, n, N)
<1>1. Ready(S, T, M) => Ready(S, T, N)
  BY DEF Ready
<1> QED
  BY <1>1 DEF Fit

\* What resume() leaves when the whole write is done.
LEMMA DoneFields ==
    ASSUME NEW S \in SelectorState, NEW fd \in Fd, NEW s \in Selectee,
           NEW R, R = SendDone(S, fd, s)
    PROVE  R \in SelectorState
<1>1. PICK S1 : S1 = DeleteSelectee(S, fd)
  OBVIOUS
<1>2. Deleted(S, S1, fd)
  BY <1>1, DeleteFields
<1>3. S1 \in SelectorState
  BY <1>2 DEF Deleted
<1>4. PICK R1 : R1 = AddSelectee(S1, fd, ReadSel(s.c))
  OBVIOUS
<1>5. R = IF s.old THEN R1 ELSE S1
  BY <1>1, <1>4 DEF SendDone
<1>6. s.c \in Clients
  BY DEF Selectee
<1>7. Added(S1, R1, fd, ReadSel(s.c))
  BY <1>3, <1>4, <1>6, SelecteeType, AddFields
<1> QED
  BY <1>3, <1>5, <1>7 DEF Added

LEMMA DoneFit ==
    ASSUME NEW S \in SelectorState, NEW T, Channels(T), NEW fd \in Fd,
           NEW c \in Clients, Matched(S, T), Watching(S, T),
           Writes(S, T, fd, c), ~T[c].pend,
           NEW R, R = SendDone(S, fd, WriteSel(c))
    PROVE  /\ Matched(R, T) /\ Watching(R, T)
           /\ \A g \in Fd : g # fd => R.sel[g] = S.sel[g]
<1>1. PICK S1 : S1 = DeleteSelectee(S, fd)
  OBVIOUS
<1>2. Deleted(S, S1, fd)
  BY <1>1, DeleteFields
<1>3. S.sel[fd].type = "WRITE" /\ fd \in S.w /\ (fd \in S.r <=> c \in Sockets)
  BY SelecteeType DEF Writes
<1>4. /\ S1 \in SelectorState /\ S1.sel[fd] = NoSel
      /\ S1.r = S.r /\ S1.w = S.w \ {fd}
      /\ \A g \in Fd : g # fd => S1.sel[g] = S.sel[g]
  BY <1>2, <1>3 DEF Deleted
<1>5. PICK R1 : R1 = AddSelectee(S1, fd, ReadSel(c))
  OBVIOUS
<1>6. R = IF c \in Sockets THEN R1 ELSE S1
  BY <1>1, <1>5, SelecteeType DEF SendDone
<1>7. /\ R1.sel[fd] = ReadSel(c) /\ R1.r = S.r \cup {fd} /\ R1.w = S.w \ {fd}
      /\ \A g \in Fd : g # fd => R1.sel[g] = S.sel[g]
  <2>1. ReadSel(c) \in Selectee /\ ReadSel(c).type = "READ"
    BY SelecteeType
  <2>2. Added(S1, R1, fd, ReadSel(c))
    BY <1>4, <1>5, <2>1, AddFields
  <2> QED
    BY <1>4, <2>1, <2>2 DEF Added
<1>8. T[c].w = fd /\ T[c].r # 0 /\ (T[c].r = fd <=> c \in Sockets)
  <2>1. T[c].w = fd
    BY DEF Writes
  <2>2. T[c].r # 0
    BY <2>1, ChannelFields
  <2> QED
    BY <2>1, <2>2 DEF Channels, OwnFds
<1>9. /\ c \in Sockets => Reads(R, T, fd, c)
      /\ c \notin Sockets => Unwatched(R, fd)
  BY <1>3, <1>4, <1>6, <1>7, <1>8 DEF Reads, Unwatched
<1>10. \A g \in Fd : g # fd => /\ R.sel[g] = S.sel[g]
                               /\ g \in R.r <=> g \in S.r
                               /\ g \in R.w <=> g \in S.w
  BY <1>4, <1>6, <1>7
<1>11. ASSUME NEW g \in Fd, g # fd
       PROVE  /\ Unwatched(S, g) => Unwatched(R, g)
              /\ \A d \in Clients : /\ Reads(S, T, g, d) => Reads(R, T, g, d)
                                    /\ Writes(S, T, g, d) => Writes(R, T, g, d)
  BY <1>10, <1>11 DEF Unwatched, Reads, Writes
<1>12. Matched(R, T)
  <2> SUFFICES ASSUME NEW g \in Fd
               PROVE  \/ Unwatched(R, g)
                      \/ \E d \in Clients : Reads(R, T, g, d) \/ Writes(R, T, g, d)
    BY DEF Matched
  <2>1. CASE g = fd
    BY <1>9, <2>1
  <2>2. CASE g # fd
    BY <1>11, <2>2 DEF Matched
  <2> QED
    BY <2>1, <2>2
<1>13. Watching(R, T)
  <2> SUFFICES ASSUME NEW d \in Clients, T[d].r # 0 PROVE Attended(R, T, d)
    BY DEF Watching
  <2>1. Attended(S, T, d) /\ T[d].r \in Fd /\ T[d].w \in Fd
    BY ChannelFields DEF Watching
  <2>2. CASE d = c
    <3>1. CASE c \in Sockets
      BY <1>8, <1>9, <2>2, <3>1 DEF Attended
    <3>2. CASE c \notin Sockets
      BY <1>8, <1>11, <2>1, <2>2, <3>2 DEF Attended
    <3> QED
      BY <3>1, <3>2
  <2>3. CASE d # c
    <3>1. T[d].r # fd /\ T[d].w # fd
      BY <1>8, <2>3, OneOwner
    <3> QED
      BY <1>11, <2>1, <3>1 DEF Attended
  <2> QED
    BY <2>2, <2>3
<1> QED
  BY <1>10, <1>12, <1>13

LEMMA MasksType ==
    ASSUME pass \in PassState
    PROVE  /\ pass.on \in BOOLEAN /\ pass.rm \subseteq Fd /\ pass.wm \subseteq Fd
           /\ pass.rm \cup pass.wm \in SUBSET Fd /\ pass.status \in Nat
  BY DEF PassState

\* A visit takes the descriptor out of the masks.
LEMMA VisitedPass ==
    ASSUME pass \in PassState, pass.status > 0, pass.rm \cup pass.wm # {}
    PROVE  /\ NextFd \in Fd /\ NextFd \in pass.rm \cup pass.wm
           /\ Visited \in PassState /\ Visited.on = pass.on
           /\ Visited.rm \cup Visited.wm = (pass.rm \cup pass.wm) \ {NextFd}
<1>1. PICK m : m = pass.rm \cup pass.wm
  OBVIOUS
<1>2. m \in SUBSET Nat /\ m \subseteq Fd /\ m # {}
  BY <1>1, MasksType DEF Fd
<1>3. NextFd \in m
  BY <1>1, <1>2, MinMember DEF NextFd
<1>4. PICK f : f = NextFd
  OBVIOUS
<1>5. Visited = [pass EXCEPT !.rm = @ \ {f}, !.wm = @ \ {f}, !.status = @ - 1]
  BY <1>4 DEF Visited
<1>6. Visited = [on |-> pass.on, rm |-> pass.rm \ {f}, wm |-> pass.wm \ {f},
                 status |-> pass.status - 1]
  BY <1>5 DEF PassState
<1>7. pass.status - 1 \in Nat
  BY MasksType
<1>8. Visited \in PassState
  BY <1>6, <1>7, MasksType DEF PassState
<1>9. /\ Visited.on = pass.on /\ Visited.rm = pass.rm \ {f}
      /\ Visited.wm = pass.wm \ {f}
  BY <1>6
<1> QED
  BY <1>1, <1>2, <1>3, <1>4, <1>8, <1>9

\* EmptyTaskChannel() reads an event, and its handler runs.
LEMMA ReadStep ==
    ASSUME NEW M \in SUBSET Fd, Fit(selector, chan, torn, M), NEW f \in M,
           NEW c, selector.sel[f].type = "READ", c = selector.sel[f].c,
           chan[c].unread > 0,
           Handler(selector, [chan EXCEPT ![c].unread = @ - 1], torn)
    PROVE  Fit(selector', chan', torn', M \ {f})
<1>1. selector \in SelectorState /\ Channels(chan) /\ torn \in BOOLEAN
  BY DEF Fit
<1>2. c \in Clients
  BY <1>1, SelecteeClient
<1>3. chan[c] \in Channel /\ chan \in [Clients -> Channel]
  BY <1>1, <1>2 DEF Channels
<1>4. PICK k : k = chan[c]
  OBVIOUS
<1>5. k.r # 0
  <2>1. Closed.unread = 0
    BY DEF Closed
  <2>2. k.r = 0 => k.unread = 0
    BY <1>1, <1>2, <1>4, <2>1 DEF Channels
  <2> QED
    BY <1>4, <2>2
<1>6. PICK t : t = [k EXCEPT !.unread = @ - 1]
  OBVIOUS
<1>7. t \in Channel /\ t.r = k.r /\ t.w = k.w /\ t.pend = k.pend
  <2>1. k \in Channel /\ k.unread \in 0..MaxUnread /\ MaxUnread \in Nat
    BY <1>3, <1>4, SelectorAssumption DEF Channel
  <2>2. k.unread - 1 \in 0..MaxUnread
    BY <1>4, <2>1
  <2> QED
    BY <1>6, <2>1, <2>2 DEF Channel
<1>8. PICK T : T = [chan EXCEPT ![c] = t]
  OBVIOUS
<1>9. [chan EXCEPT ![c].unread = @ - 1] = T
  BY <1>4, <1>6, <1>8
<1>10. PICK N : N = M \ {f}
  OBVIOUS
<1>11. Fit(selector, chan, torn, N)
  BY <1>10, FewerFit
<1>12. N \in SUBSET Fd /\ f \in Fd
  BY <1>10
<1>13. CASE ~torn
  <2>1. Matched(selector, chan)
    BY <1>13 DEF Fit
  <2>2. Reads(selector, chan, f, c)
    BY <1>12, <2>1, SelecteeOwner
  <2>3. chan[c].r \notin N
    BY <1>10, <2>2 DEF Reads
  <2>4. Fit(selector, T, torn, N)
    BY <1>2, <1>4, <1>5, <1>7, <1>8, <1>11, <1>12, <2>3, TrafficFit
  <2>5. Handler(selector, T, torn)
    BY <1>9
  <2> QED
    BY <1>10, <1>12, <2>4, <2>5, HandlerFit
<1>14. CASE torn
  <2>1. Changed(chan, T, c, t)
    BY <1>1, <1>2, <1>4, <1>5, <1>7, <1>8, ChannelsKept
  <2>2. Fit(selector, T, torn, N)
    BY <1>1, <1>14, <2>1 DEF Fit, Changed
  <2>3. Handler(selector, T, torn)
    BY <1>9
  <2> QED
    BY <1>10, <1>12, <2>2, <2>3, HandlerFit
<1> QED
  BY <1>1, <1>13, <1>14

\* EmptyTaskChannel() finds the end of the file: the selectee is deleted by
\* the handler of the channel and again by CloseChannel().
LEMMA EndOfFileStep ==
    ASSUME NEW M \in SUBSET Fd, Fit(selector, chan, torn, M), NEW f \in M,
           NEW c, selector.sel[f].type = "READ", c = selector.sel[f].c,
           chan[c].gone,
           Take(CloseChannel(DeleteSelectee(selector, chan[c].r), chan, torn, c))
    PROVE  Fit(selector', chan', torn', M \ {f})
<1>1. selector \in SelectorState /\ Channels(chan) /\ torn \in BOOLEAN
  BY DEF Fit
<1>2. c \in Clients
  BY <1>1, SelecteeClient
<1>3. chan[c].r # 0
  <2>1. Closed.gone = FALSE
    BY DEF Closed
  <2> QED
    BY <1>1, <1>2, <2>1 DEF Channels
<1>4. PICK r : r = chan[c].r
  OBVIOUS
<1>5. PICK w : w = chan[c].w
  OBVIOUS
<1>6. r \in Fd /\ w \in Fd
  BY <1>1, <1>2, <1>3, <1>4, <1>5, ChannelFields
<1>7. PICK S : S = DeleteSelectee(selector, r)
  OBVIOUS
<1>8. Deleted(selector, S, r)
  BY <1>1, <1>6, <1>7, DeleteFields
<1>9. PICK o : o = CloseChannel(S, chan, torn, c)
  OBVIOUS
<1>10. selector' = o.S /\ chan' = o.T /\ torn' = o.torn
  BY <1>4, <1>7, <1>9 DEF Take
<1>11. PICK N : N = M \ {f}
  OBVIOUS
<1>12. N \in SUBSET Fd /\ f \in Fd /\ Fit(selector, chan, torn, N)
  BY <1>11, FewerFit
<1>13. CASE torn
  <2>1. Fit(S, chan, torn, N)
    BY <1>1, <1>8, <1>13 DEF Fit, Deleted
  <2> QED
    BY <1>2, <1>3, <1>9, <1>10, <1>11, <1>12, <2>1, CloseFit
<1>14. CASE ~torn
  <2>1. Matched(selector, chan)
    BY <1>14 DEF Fit
  <2>2. Reads(selector, chan, f, c)
    BY <1>12, <2>1, SelecteeOwner
  <2>3. r = f /\ f \in selector.r /\ f \notin selector.w
    BY <1>4, <2>2 DEF Reads
  <2>4. S.sel[r] = NoSel /\ r \notin S.r /\ r \notin S.w
    BY <1>8, <2>3 DEF Deleted
  <2>5. DeleteSelectee(S, r) = S
    BY <2>4 DEF DeleteSelectee
  <2>6. FindSelectee(S, w).type = "WRITE" <=> FindSelectee(selector, w).type = "WRITE"
    <3>1. CASE w = r
      BY <2>3, <2>4, <3>1 DEF FindSelectee, NoSel
    <3>2. CASE w # r
      BY <1>6, <1>8, <3>2 DEF FindSelectee, Deleted
    <3> QED
      BY <3>1, <3>2
  <2>7. o = CloseChannel(selector, chan, torn, c)
    BY <1>4, <1>5, <1>7, <1>9, <2>5, <2>6 DEF CloseChannel
  <2> QED
    BY <1>2, <1>3, <1>10, <1>11, <1>12, <2>7, CloseFit
<1> QED
  BY <1>1, <1>13, <1>14

\* SendSelectee: resume() goes on with the write.
LEMMA ResumeStep ==
    ASSUME NEW M \in SUBSET Fd, Fit(selector, chan, torn, M), NEW f \in M,
           selector.sel[f].type = "WRITE", NotifySend(f, selector.sel[f])
    PROVE  Fit(selector', chan', torn', M \ {f})
<1>1. selector \in SelectorState /\ Channels(chan) /\ torn \in BOOLEAN
  BY DEF Fit
<1>2. PICK s : s = selector.sel[f]
  OBVIOUS
<1>3. PICK c : c = s.c
  OBVIOUS
<1>4. f \in Fd /\ c \in Clients /\ s \in Selectee
  BY <1>1, <1>2, <1>3, SelecteeClient
<1>5. PICK t : t = chan[c]
  OBVIOUS
<1>6. t \in Channel
  BY <1>1, <1>4, <1>5 DEF Channels
<1>7. PICK u : /\ t.w = f => u \in (IF t.pend THEN Flushed(t) ELSE {t})
               /\ chan' = IF t.w = f THEN [chan EXCEPT ![c] = u] ELSE chan
               /\ selector' = IF u.pend THEN selector ELSE SendDone(selector, f, s)
               /\ torn' = torn
  BY <1>2, <1>3, <1>5 DEF NotifySend
<1>8. t.w = f => /\ u \in Channel /\ u.r = t.r /\ u.w = t.w
                 /\ u.unread = t.unread /\ u.gone = t.gone /\ u.fresh = t.fresh
                 /\ u.pend => t.pend
  BY <1>6, <1>7, FlushedFields
<1>9. t.w = f => t.r # 0
  BY <1>1, <1>4, <1>5, ChannelFields
<1>10. selector' \in SelectorState
  BY <1>1, <1>4, <1>7, DoneFields
<1>11. PICK N : N = M \ {f}
  OBVIOUS
<1>12. N \in SUBSET Fd /\ Fit(selector, chan, torn, N)
  BY <1>11, FewerFit
<1>13. PICK U : U = chan'
  OBVIOUS
<1>14. t.w = f => U = [chan EXCEPT ![c] = u]
  BY <1>7, <1>13
<1>15. CASE torn
  <2>1. Channels(U)
    <3>1. CASE t.w = f
      <4>1. Changed(chan, U, c, u)
        BY <1>1, <1>4, <1>5, <1>8, <1>9, <1>14, <3>1, ChannelsKept
      <4> QED
        BY <4>1 DEF Changed
    <3>2. CASE t.w # f
      BY <1>1, <1>7, <1>13, <3>2
    <3> QED
      BY <3>1, <3>2
  <2> QED
    BY <1>1, <1>7, <1>10, <1>13, <1>15, <2>1 DEF Fit
<1>16. CASE ~torn
  <2>1. Matched(selector, chan)
    BY <1>16 DEF Fit
  <2>2. Writes(selector, chan, f, c)
    BY <1>2, <1>3, <1>4, <2>1, SelecteeOwner
  <2>3. t.w = f /\ s = WriteSel(c)
    BY <1>2, <1>5, <2>2 DEF Writes
  <2>4. Speaks(t) => Speaks(u)
    BY <1>8, <2>3 DEF Speaks
  <2>5. Fit(selector, U, torn, N)
    BY <1>4, <1>5, <1>8, <1>9, <1>12, <1>14, <2>3, <2>4, TrafficFit
  <2>6. CASE u.pend
    BY <1>7, <1>11, <1>13, <2>5, <2>6
  <2>7. CASE ~u.pend
    <3>1. Channels(U) /\ Matched(selector, U) /\ Watching(selector, U)
          /\ Ready(selector, U, N)
      BY <1>16, <2>5 DEF Fit
    <3>2. U[c] = u
      BY <1>1, <1>4, <1>14, <2>3 DEF Channels
    <3>3. Writes(selector, U, f, c)
      BY <1>5, <1>8, <2>2, <2>3, <3>2 DEF Writes
    <3>4. PICK R : R = selector'
      OBVIOUS
    <3>5. R = SendDone(selector, f, WriteSel(c))
      BY <1>7, <2>3, <2>7, <3>4
    <3>6. /\ Matched(R, U) /\ Watching(R, U)
          /\ \A g \in Fd : g # f => R.sel[g] = selector.sel[g]
      BY <1>1, <1>4, <2>7, <3>1, <3>2, <3>3, <3>5, DoneFit
    <3>7. Ready(R, U, N)
      BY <1>11, <1>12, <3>1, <3>6 DEF Ready
    <3> QED
      BY <1>1, <1>7, <1>10, <1>11, <1>13, <1>16, <3>1, <3>4, <3>6, <3>7 DEF Fit
  <2> QED
    BY <2>6, <2>7
<1> QED
  BY <1>1, <1>15, <1>16

\* select() reports the descriptors of channels that have something to say.
LEMMA SelectStep ==
    ASSUME IInv, Select
    PROVE  IInv'
<1>1. PICK rm : rm = {fd \in selector.r : Readable(fd)}
  OBVIOUS
<1>2. PICK wm : wm = {fd \in selector.w : Writable(fd)}
  OBVIOUS
<1>3. /\ pass' = [on |-> TRUE, rm |-> rm, wm |-> wm,
                  status |-> Cardinality(rm) + Cardinality(wm)]
      /\ UNCHANGED <<selector, chan, up, torn>>
  BY <1>1, <1>2, Zenon DEF Select
<1>4. /\ selector \in SelectorState /\ Channels(chan) /\ torn \in BOOLEAN
      /\ up \in BOOLEAN
  BY DEF IInv, Fit
<1>5. rm \in SUBSET Fd /\ wm \in SUBSET Fd
  BY <1>1, <1>2, <1>4 DEF SelectorState
<1>6. Cardinality(rm) + Cardinality(wm) \in Nat
  <2>1. IsFiniteSet(Fd)
    BY SelectorAssumption, FS_Interval DEF Fd
  <2>2. Cardinality(rm) \in Nat /\ Cardinality(wm) \in Nat
    BY <1>5, <2>1, FS_Subset, FS_CardinalityType
  <2> QED
    BY <2>2
<1>7. pass' \in PassState /\ pass'.rm = rm /\ pass'.wm = wm /\ pass'.on = TRUE
  BY <1>3, <1>5, <1>6 DEF PassState
<1>8. ASSUME ~torn PROVE Ready(selector, chan, rm \cup wm)
  <2> SUFFICES ASSUME NEW g \in rm \cup wm, selector.sel[g].type = "READ"
               PROVE  Speaks(chan[selector.sel[g].c])
    BY DEF Ready
  <2>1. Matched(selector, chan)
    BY <1>8 DEF IInv, Fit
  <2>2. PICK d : d = selector.sel[g].c
    OBVIOUS
  <2>3. g \in Fd /\ d \in Clients /\ Reads(selector, chan, g, d)
    BY <1>5, <2>1, <2>2, SelecteeOwner
  <2>4. g \in rm
    BY <1>2, <2>3 DEF Reads
  <2>5. PICK c \in Clients : chan[c].r = g /\ (chan[c].unread > 0 \/ chan[c].gone)
    BY <1>1, <2>4 DEF Readable
  <2>6. c = d
    BY <1>4, <2>3, <2>5, OneOwner DEF Reads
  <2> QED
    BY <2>2, <2>5, <2>6 DEF Speaks
<1>9. Fit(selector, chan, torn, rm \cup wm)
  BY <1>4, <1>8 DEF IInv, Fit
<1>10. Fit(selector', chan', torn', pass'.rm \cup pass'.wm)
  BY <1>3, <1>7, <1>9
<1> QED
  BY <1>3, <1>4, <1>7, <1>10 DEF IInv

LEMMA VisitStep ==
    ASSUME IInv, Visit
    PROVE  IInv'
<1>1. PICK M : M = pass.rm \cup pass.wm
  OBVIOUS
<1>2. PICK f : f = NextFd
  OBVIOUS
<1>3. PICK s : s = selector.sel[f]
  OBVIOUS
<1>4. /\ pass.on /\ pass.status > 0 /\ M # {} /\ pass' = Visited /\ up' = up
      /\ CASE s.type = "none"  -> UNCHANGED <<selector, chan, torn>>
           [] s.type = "READ"  -> NotifyClient(s.c)
           [] s.type = "WRITE" -> NotifySend(f, s)
  BY <1>1, <1>2, <1>3 DEF Visit
<1>5. Fit(selector, chan, torn, M) /\ pass \in PassState /\ up \in BOOLEAN
  BY <1>1 DEF IInv
<1>6. /\ f \in Fd /\ f \in M /\ pass' \in PassState /\ pass'.on = pass.on
      /\ pass'.rm \cup pass'.wm = M \ {f}
  BY <1>1, <1>2, <1>4, <1>5, VisitedPass
<1>7. M \in SUBSET Fd
  BY <1>1, <1>5, MasksType
<1>8. s.type = "none" \/ s.type = "READ" \/ s.type = "WRITE"
  <2>1. s \in Selectee \cup {NoSel}
    BY <1>3, <1>5, <1>6 DEF Fit, SelectorState
  <2> QED
    BY <2>1 DEF Selectee, NoSel
<1>9. Fit(selector', chan', torn', M \ {f})
  <2>1. CASE s.type = "none"
    <3>1. selector' = selector /\ chan' = chan /\ torn' = torn
      BY <1>4, <2>1
    <3>2. Fit(selector, chan, torn, M \ {f})
      BY <1>5, FewerFit
    <3> QED
      BY <3>1, <3>2
  <2>2. CASE s.type = "READ"
    <3>1. NotifyClient(s.c)
      BY <1>4, <2>2
    <3>2. CASE /\ chan[s.c].unread > 0
               /\ Handler(selector, [chan EXCEPT ![s.c].unread = @ - 1], torn)
      BY <1>3, <1>5, <1>6, <1>7, <2>2, <3>2, ReadStep
    <3>3. CASE /\ chan[s.c].gone
               /\ Take(CloseChannel(DeleteSelectee(selector, chan[s.c].r),
                                    chan, torn, s.c))
      BY <1>3, <1>5, <1>6, <1>7, <2>2, <3>3, EndOfFileStep
    <3> QED
      BY <3>1, <3>2, <3>3 DEF NotifyClient
  <2>3. CASE s.type = "WRITE"
    <3>1. NotifySend(f, s)
      BY <1>4, <2>3
    <3> QED
      BY <1>3, <1>5, <1>6, <1>7, <2>3, <3>1, ResumeStep
  <2> QED
    BY <1>8, <2>1, <2>2, <2>3
<1>10. Fit(selector', chan', torn', pass'.rm \cup pass'.wm)
  BY <1>6, <1>9
<1> QED
  BY <1>4, <1>5, <1>6, <1>10 DEF IInv

LEMMA EndPassStep ==
    ASSUME IInv, EndPass
    PROVE  IInv'
<1>1. /\ pass' = NoPass /\ UNCHANGED <<selector, chan, torn>>
      /\ up' \in BOOLEAN
  BY DEF EndPass
<1>2. NoPass \in PassState /\ NoPass.rm \cup NoPass.wm = {}
  BY DEF NoPass, PassState
<1>3. Fit(selector, chan, torn, {})
  BY FewerFit DEF IInv
<1>4. Fit(selector', chan', torn', pass'.rm \cup pass'.wm)
  BY <1>1, <1>2, <1>3
<1> QED
  BY <1>1, <1>2, <1>4 DEF IInv

LEMMA ScriptStep ==
    ASSUME IInv, Script
    PROVE  IInv'
<1>1. PICK o \in Statement(selector, chan, torn) : Take(o)
  BY DEF Script
<1>2. pass' = pass /\ up' = up
  BY DEF Script
<1>3. PICK M : M = pass.rm \cup pass.wm
  OBVIOUS
<1>4. M \in SUBSET Fd /\ Fit(selector, chan, torn, M)
  BY <1>3, MasksType DEF IInv
<1>5. Fit(o.S, o.T, o.torn, M)
  BY <1>4, StatementFit
<1>6. Fit(selector', chan', torn', pass'.rm \cup pass'.wm)
  BY <1>1, <1>2, <1>3, <1>5 DEF Take
<1> QED
  BY <1>2, <1>6 DEF IInv

\* What a client does to its own end of a channel.
LEMMA ClientStep ==
    ASSUME IInv, NEW c \in Clients,
           ClientPosts(c) \/ ClientReads(c) \/ ClientGone(c)
    PROVE  IInv'
<1>1. chan[c].r # 0 /\ UNCHANGED <<selector, pass, up, torn>>
  BY DEF ClientPosts, ClientReads, ClientGone, IsOpen
<1>2. PICK M : M = pass.rm \cup pass.wm
  OBVIOUS
<1>3. M \in SUBSET Fd /\ Fit(selector, chan, torn, M) /\ Channels(chan)
  BY <1>2, MasksType DEF IInv, Fit
<1>4. PICK k : k = chan[c]
  OBVIOUS
<1>5. k \in Channel /\ k.unread \in 0..MaxUnread /\ MaxUnread \in Nat
  BY <1>3, <1>4, SelectorAssumption DEF Channels, Channel
<1>6. PICK t : /\ chan' = [chan EXCEPT ![c] = t]
               /\ t \in Channel /\ t.r = k.r /\ t.w = k.w /\ t.pend = k.pend
               /\ Speaks(k) => Speaks(t)
  <2>1. CASE ClientPosts(c)
    <3>1. PICK t : t = [k EXCEPT !.unread = @ + 1, !.fresh = FALSE]
      OBVIOUS
    <3>2. chan' = [chan EXCEPT ![c] = t] /\ k.unread < MaxUnread
      BY <1>4, <2>1, <3>1 DEF ClientPosts
    <3>3. k.unread + 1 \in 0..MaxUnread /\ k.unread + 1 > 0
      BY <1>5, <3>2
    <3>4. /\ t \in Channel /\ t.r = k.r /\ t.w = k.w /\ t.pend = k.pend
          /\ Speaks(t)
      BY <1>5, <3>1, <3>3 DEF Channel, Speaks
    <3> QED
      BY <3>2, <3>4
  <2>2. CASE ClientReads(c)
    <3>1. PICK t : t = [k EXCEPT !.room = TRUE]
      OBVIOUS
    <3>2. chan' = [chan EXCEPT ![c] = t]
      BY <1>4, <2>2, <3>1 DEF ClientReads
    <3>3. /\ t \in Channel /\ t.r = k.r /\ t.w = k.w /\ t.pend = k.pend
          /\ Speaks(k) => Speaks(t)
      BY <1>5, <3>1 DEF Channel, Speaks
    <3> QED
      BY <3>2, <3>3
  <2>3. CASE ClientGone(c)
    <3>1. PICK t : t = [k EXCEPT !.gone = TRUE, !.fresh = FALSE]
      OBVIOUS
    <3>2. chan' = [chan EXCEPT ![c] = t]
      BY <1>4, <2>3, <3>1 DEF ClientGone
    <3>3. /\ t \in Channel /\ t.r = k.r /\ t.w = k.w /\ t.pend = k.pend
          /\ Speaks(t)
      BY <1>5, <3>1 DEF Channel, Speaks
    <3> QED
      BY <3>2, <3>3
  <2> QED
    BY <2>1, <2>2, <2>3
<1>7. Fit(selector, chan', torn, M)
  <2>1. PICK U : U = chan'
    OBVIOUS
  <2>2. U = [chan EXCEPT ![c] = t]
    BY <1>6, <2>1
  <2>3. Fit(selector, U, torn, M)
    BY <1>1, <1>3, <1>4, <1>6, <2>2, TrafficFit
  <2> QED
    BY <2>1, <2>3
<1>8. Fit(selector', chan', torn', pass'.rm \cup pass'.wm)
  BY <1>1, <1>2, <1>7
<1> QED
  BY <1>1, <1>8 DEF IInv

LEMMA InitFit ==
    ASSUME Init
    PROVE  IInv
<1>1. /\ selector.sel = [fd \in Fd |-> NoSel] /\ selector.r = {} /\ selector.w = {}
      /\ selector \in SelectorState
  BY DEF Init, SelectorState
<1>2. chan = [c \in Clients |-> Closed] /\ pass = NoPass /\ up = TRUE /\ torn = FALSE
  BY DEF Init
<1>3. Channels(chan)
  BY <1>2, ClosedChannel DEF Channels
<1>4. Matched(selector, chan)
  BY <1>1 DEF Matched, Unwatched
<1>5. Watching(selector, chan)
  BY <1>2, ClosedChannel DEF Watching
<1>6. NoPass \in PassState /\ NoPass.rm = {} /\ NoPass.wm = {}
  BY DEF NoPass, PassState
<1>7. Ready(selector, chan, pass.rm \cup pass.wm)
  BY <1>2, <1>6 DEF Ready
<1> QED
  BY <1>1, <1>2, <1>3, <1>4, <1>5, <1>6, <1>7 DEF IInv, Fit

LEMMA Inductive ==
    Spec => []IInv
<1>1. Init => IInv
  BY InitFit
<1>2. IInv /\ [Next]_vars => IInv'
  <2> SUFFICES ASSUME IInv, [Next]_vars PROVE IInv'
    OBVIOUS
  <2>1. CASE Select
    BY <2>1, SelectStep
  <2>2. CASE Visit
    BY <2>2, VisitStep
  <2>3. CASE EndPass
    BY <2>3, EndPassStep
  <2>4. CASE Script
    BY <2>4, ScriptStep
  <2>5. ASSUME NEW c \in Clients, ClientPosts(c) \/ ClientReads(c) \/ ClientGone(c)
        PROVE  IInv'
    BY <2>5, ClientStep
  <2>6. CASE UNCHANGED vars
    <3>1. selector' = selector /\ chan' = chan /\ pass' = pass /\ up' = up
          /\ torn' = torn
      BY <2>6 DEF vars
    <3>2. Fit(selector', chan', torn', pass'.rm \cup pass'.wm)
      BY <3>1 DEF IInv
    <3> QED
      BY <3>1, <3>2 DEF IInv
  <2> QED
    BY <2>1, <2>2, <2>3, <2>4, <2>5, <2>6 DEF Next
<1> QED
  BY <1>1, <1>2, PTL DEF Spec

-----------------------------------------------------------------------------
(* The properties.                                                         *)

\* The selectees, the descriptor sets, the channels and the masks of a pass
\* always have their types, and a channel has descriptors exactly while it
\* is open: OpenChannel always finds free ones.
THEOREM TypeCorrect == Spec => []TypeOK
<1>1. IInv => TypeOK
  <2> SUFFICES ASSUME IInv PROVE TypeOK
    OBVIOUS
  <2>1. selector \in SelectorState /\ Channels(chan) /\ torn \in BOOLEAN
        /\ pass \in PassState /\ up \in BOOLEAN /\ (~pass.on => pass = NoPass)
    BY DEF IInv, Fit
  <2>2. /\ selector.sel \in [Fd -> Selectee \cup {NoSel}]
        /\ selector.r \subseteq Fd /\ selector.w \subseteq Fd
    BY <2>1 DEF SelectorState
  <2>3. chan \in [Clients -> Channel]
        /\ \A c \in Clients : ~IsOpen(c) => chan[c] = Closed
    BY <2>1 DEF Channels, IsOpen
  <2> QED
    BY <2>1, <2>2, <2>3, MasksType DEF TypeOK, Channel
<1> QED
  BY <1>1, Inductive, PTL

\* AddSelectee(), DeleteSelectee() and SendSuspended() keep the sets that go
\* to select() in step with the selectees and the open descriptors, through
\* every handler of a pass, as long as no channel is closed below a
\* SendSelectee.
THEOREM SetsAlwaysMatch == Spec => []SetsMatch
<1>1. IInv => SetsMatch
  <2> SUFFICES ASSUME IInv, ~torn
               PROVE  /\ BadFds = {}
                      /\ \A fd \in Fd :
                            /\ fd \in selector.r \cup selector.w
                                  <=> selector.sel[fd] # NoSel
                            /\ selector.sel[fd].type = "WRITE" <=> fd \in selector.w
                            /\ selector.sel[fd].type = "READ" => fd \in selector.r
    BY DEF SetsMatch
  <2>1. Matched(selector, chan) /\ selector \in SelectorState
    BY DEF IInv, Fit
  <2>2. ASSUME NEW fd \in Fd
        PROVE  /\ fd \in selector.r \cup selector.w
                     <=> selector.sel[fd] # NoSel
               /\ selector.sel[fd].type = "WRITE" <=> fd \in selector.w
               /\ selector.sel[fd].type = "READ" => fd \in selector.r
               /\ fd \in selector.r \cup selector.w => fd \in OpenFds
    <3>1. CASE Unwatched(selector, fd)
      BY <3>1 DEF Unwatched, NoSel
    <3>2. ASSUME NEW c \in Clients, Reads(selector, chan, fd, c)
          PROVE  /\ selector.sel[fd] # NoSel /\ selector.sel[fd].type = "READ"
                 /\ fd \in selector.r /\ fd \notin selector.w /\ fd \in OpenFds
      BY <3>2, SelecteeType DEF Reads, OpenFds
    <3>3. ASSUME NEW c \in Clients, Writes(selector, chan, fd, c)
          PROVE  /\ selector.sel[fd] # NoSel /\ selector.sel[fd].type = "WRITE"
                 /\ fd \in selector.w /\ fd \in OpenFds
      BY <3>3, SelecteeType DEF Writes, OpenFds
    <3> QED
      BY <2>1, <3>1, <3>2, <3>3 DEF Matched
  <2>3. selector.r \subseteq Fd /\ selector.w \subseteq Fd
    BY <2>1 DEF SelectorState
  <2>4. BadFds = {}
    BY <2>2, <2>3 DEF BadFds
  <2> QED
    BY <2>2, <2>4
<1> QED
  BY <1>1, Inductive, PTL

\* However many channels are opened, written to and closed in whatever order,
\* an open one keeps a selectee that reads it, or a SendSelectee that will
\* put it back when resume() is done, and a suspended write keeps its own.
THEOREM AlwaysWatched == Spec => []ChannelWatched
<1>1. IInv => ChannelWatched
  <2> SUFFICES ASSUME IInv, ~torn, NEW c \in Clients, IsOpen(c)
               PROVE  /\ chan[c].r \in selector.r
                      /\ \/ selector.sel[chan[c].r] = ReadSel(c)
                         \/ selector.sel[chan[c].r] =
                               [type |-> "WRITE", c |-> c, old |-> TRUE]
                      /\ chan[c].pend =>
                            /\ chan[c].w \in selector.w
                            /\ selector.sel[chan[c].w].type = "WRITE"
                            /\ selector.sel[chan[c].w].c = c
    BY DEF ChannelWatched
  <2>1. Attended(selector, chan, c)
    BY DEF IInv, Fit, Watching, IsOpen
  <2>2. c \in Sockets => WriteSel(c) = [type |-> "WRITE", c |-> c, old |-> TRUE]
    BY DEF WriteSel
  <2>3. /\ chan[c].r \in selector.r
        /\ \/ selector.sel[chan[c].r] = ReadSel(c)
           \/ c \in Sockets /\ selector.sel[chan[c].r] = WriteSel(c)
    BY <2>1 DEF Attended, Reads, Writes
  <2>4. chan[c].pend => /\ chan[c].w \in selector.w
                        /\ selector.sel[chan[c].w] = WriteSel(c)
    BY <2>1 DEF Attended, Writes
  <2> QED
    BY <2>2, <2>3, <2>4, SelecteeType
<1> QED
  BY <1>1, Inductive, PTL

\* A pass of DoSelection() goes on with what select() reported before the
\* handlers ran: a descriptor that was closed and opened again meanwhile is
\* read all the same, and this is the only read that may have to wait, for
\* the "established" event of the new client.
THEOREM OnlyNewBlocks == Spec => []BlocksOnlyOnNew
<1>1. IInv => BlocksOnlyOnNew
  <2> SUFFICES ASSUME IInv, ~torn, pass.on, pass.status > 0,
                      pass.rm \cup pass.wm # {},
                      selector.sel[NextFd].type = "READ"
               PROVE  LET s == selector.sel[NextFd]
                      IN  chan[s.c].unread > 0 \/ chan[s.c].gone \/ chan[s.c].fresh
    BY DEF BlocksOnlyOnNew
  <2>1. Ready(selector, chan, pass.rm \cup pass.wm)
    BY DEF IInv, Fit
  <2>2. NextFd \in pass.rm \cup pass.wm
    BY VisitedPass DEF IInv
  <2>3. Speaks(chan[selector.sel[NextFd].c])
    BY <2>1, <2>2 DEF Ready
  <2> QED
    BY <2>3 DEF Speaks
<1> QED
  BY <1>1, Inductive, PTL

=============================================================================
