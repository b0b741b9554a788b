---------------------------- MODULE AwaitProofs ----------------------------
(***************************************************************************)
(* Proofs about Await: however event loops nest, and for any number of     *)
(* clients, await statements and requests, the interpreter never blocks in *)
(* a read, each await has its loop, the first await gets the first event,  *)
(* events are created in the order they were posted, and, where no ^C cuts *)
(* a request short, every request returns its own reply.                   *)
(*                                                                         *)
(* The invariants are about the frames below the top of the stack, to      *)
(* which the interpreter will come back: what they must find then.         *)
(***************************************************************************)
EXTENDS Await, FiniteSetTheorems, WellFoundedInduction, TLAPS

\* An entry of await_list is what Await() or AwaitReply() made.
Sound(a) == /\ a.kind = "stmt" => a.form \in Awaits
            /\ a.kind = "reply" => a.form = NoForm

Serving(f) == f.kind = "loop" /\ f.phase = "serve"

\* A loop that serves, and nothing else, has EmptyTaskChannel() above it.
Nesting(s) ==
    /\ s # << >> => s[1].kind = "loop"
    /\ \A i \in 1..Len(s) : s[i].kind = "empty" =>
          ~s[i].await /\ i > 1 /\ Serving(s[i - 1])
    /\ \A i \in 1..(Len(s) - 1) : Serving(s[i]) => s[i + 1].kind = "empty"

\* The loop of frame i has not been overtaken by a recursive one: all that
\* select() reported to it can still be read.
Current(s, i) ==
    Serving(s[i]) /\ (i = Len(s) \/ ~s[i].nested) =>
        \A c \in s[i].ready : open[c] => Readable(c)

AllCurrent(s) == \A i \in 1..Len(s) : Current(s, i)

\* The same without the loop on top.
CurrentBelow(s) ==
    \A i \in 1..Len(s) : Serving(s[i]) /\ ~s[i].nested =>
        \A c \in s[i].ready : open[c] => Readable(c)

\* The awaits among the first i frames.
Count(s, i) == Cardinality({j \in 1..i : s[j].await})

\* The await that an event ended: a statement, or a request with a reply;
\* where no statement excepts or changes anything, one with its event.
Simple ==
    \A f \in Awaits : f.except = {} /\ \A g \in Awaits : f.stmt = g.stmt => f = g

Over(a) == /\ a.kind = "stmt" \/ a.filled # NoEvent
           /\ Simple => a.filled # NoEvent

\* Frame i saw an event end the await that was active then, which will be
\* active again when the interpreter comes back to the frame.
Ending(s, a, i) ==
    s[i].fin => Count(s, i) \in 1..Len(a) /\ Over(a[Count(s, i)])

TInv == TypeOK /\ \A i \in DOMAIN awaits : Sound(awaits[i])

\* The stack s and the await_list a belong together.
Paired(s, a) ==
    /\ Nesting(s)
    /\ Len(a) = Count(s, Len(s))
    /\ \A i \in 1..Len(s) : Ending(s, a, i)

SInv == ~hung /\ Paired(stack, awaits) /\ AllCurrent(stack)

-----------------------------------------------------------------------------
(* Sequences.                                                              *)

IsPopped(s, p, X) ==
    /\ p \in Seq(X) /\ Len(p) = Len(s) - 1 /\ Len(s) \in Nat \ {0}
    /\ DOMAIN s = 1..Len(s) /\ DOMAIN p = 1..Len(p)
    /\ \A i \in 1..Len(p) : p[i] = s[i]

IsPushed(s, p, x, X) ==
    /\ p \in Seq(X) /\ Len(p) = Len(s) + 1 /\ Len(s) \in Nat
    /\ DOMAIN s = 1..Len(s) /\ DOMAIN p = 1..Len(p)
    /\ p[Len(s) + 1] = x
    /\ \A i \in 1..Len(s) : p[i] = s[i]

IsTail(s, p, X) ==
    /\ p \in Seq(X) /\ Len(p) = Len(s) - 1 /\ Len(s) \in Nat \ {0}
    /\ DOMAIN s = 1..Len(s) /\ DOMAIN p = 1..Len(p)
    /\ Head(s) = s[1] /\ Head(s) \in X
    /\ \A i \in 1..Len(p) : p[i] = s[i + 1]

IsSet(s, p, k, x, X) ==
    /\ p \in Seq(X) /\ Len(p) = Len(s) /\ Len(s) \in Nat
    /\ DOMAIN s = 1..Len(s) /\ DOMAIN p = 1..Len(s)
    /\ p[k] = x
    /\ \A i \in 1..Len(s) : i # k => p[i] = s[i]

LEMMA SeqFields ==
    ASSUME NEW X, NEW s \in Seq(X)
    PROVE  /\ Len(s) \in Nat /\ DOMAIN s = 1..Len(s)
           /\ s # << >> <=> Len(s) > 0
           /\ \A i \in 1..Len(s) : s[i] \in X
  OBVIOUS

LEMMA PopFields ==
    ASSUME NEW X, NEW s \in Seq(X), s # << >>, NEW p, p = Pop(s)
    PROVE  IsPopped(s, p, X)
<1>1. Len(s) \in Nat \ {0} /\ DOMAIN s = 1..Len(s)
  OBVIOUS
<1>2. p = SubSeq(s, 1, Len(s) - 1)
  BY DEF Pop
<1>3. p \in Seq(X) /\ Len(p) = Len(s) - 1
  BY <1>1, <1>2
<1>4. \A i \in 1..Len(p) : p[i] = s[i]
  BY <1>1, <1>2, <1>3
<1> QED
  BY <1>1, <1>3, <1>4 DEF IsPopped

LEMMA PushFields ==
    ASSUME NEW X, NEW s \in Seq(X), NEW x \in X, NEW p, p = Append(s, x)
    PROVE  IsPushed(s, p, x, X)
  BY DEF IsPushed

LEMMA TailFields ==
    ASSUME NEW X, NEW s \in Seq(X), s # << >>, NEW p, p = Tail(s)
    PROVE  IsTail(s, p, X)
  BY DEF IsTail

LEMMA SetFields ==
    ASSUME NEW X, NEW s \in Seq(X), NEW k \in 1..Len(s), NEW x \in X,
           NEW p, p = [s EXCEPT ![k] = x]
    PROVE  IsSet(s, p, k, x, X)
  BY DEF IsSet

LEMMA TopFields ==
    ASSUME NEW X, NEW s \in Seq(X), s # << >>
    PROVE  Top(s) \in X /\ Top(s) = s[Len(s)] /\ Len(s) \in 1..Len(s)
  BY DEF Top

LEMMA LeastNatural ==
    ASSUME NEW T \in SUBSET Nat, T # {}
    PROVE  \E x \in T : \A y \in T : x <= y
<1>1. PICK x \in T : \A y \in T : ~(<<y, x>> \in OpToRel(<, Nat))
  BY NatLessThanWellFounded, WFMin
<1>2. ASSUME NEW y \in T PROVE x <= y
  <2>1. ~(y < x)
    BY <1>1 DEF OpToRel
  <2>2. x \in Nat /\ y \in Nat
    OBVIOUS
  <2> QED
    BY <2>1, <2>2
<1> QED
  BY <1>2

LEMMA OldestMember ==
    ASSUME NEW T \in SUBSET Nat, T # {}
    PROVE  Oldest(T) \in T /\ \A j \in T : Oldest(T) <= j
  BY LeastNatural DEF Oldest

-----------------------------------------------------------------------------
(* What an event does to await_list and to the stack.                      *)

Msgs == [name: EventName, n: Nat]

\* Only the oldest taker of e has changed.
IsFilled(e, F) ==
    /\ F \in Seq(Entry) /\ Len(F) = Len(awaits)
    /\ Takers(e) = {} => F = awaits
    /\ Takers(e) # {} =>
          \E k \in Takers(e) :
              /\ k = Oldest(Takers(e)) /\ k \in 1..Len(awaits)
              /\ \A j \in Takers(e) : k <= j
              /\ F[k].kind = awaits[k].kind /\ F[k].form = awaits[k].form
              /\ F[k].client = awaits[k].client /\ F[k].id = awaits[k].id
              /\ F[k].filled = e
              /\ \A i \in 1..Len(awaits) : i # k => F[i] = awaits[i]

LEMMA FillFields ==
    ASSUME awaits \in Seq(Entry), NEW e \in Event, NEW F, F = Fill(e)
    PROVE  IsFilled(e, F)
<1>1. CASE Takers(e) = {}
  BY <1>1 DEF Fill, IsFilled
<1>2. CASE Takers(e) # {}
  <2>1. Takers(e) \subseteq 1..Len(awaits) /\ Takers(e) \in SUBSET Nat
    BY DEF Takers
  <2>2. PICK k : k = Oldest(Takers(e))
    OBVIOUS
  <2>3. k \in Takers(e) /\ k \in 1..Len(awaits) /\ \A j \in Takers(e) : k <= j
    BY <1>2, <2>1, <2>2, OldestMember
  <2>4. awaits[k] \in Entry
    BY <2>3
  <2>5. PICK a : a = [awaits[k] EXCEPT !.filled = e]
    OBVIOUS
  <2>6. /\ a \in Entry /\ a.filled = e
        /\ a.kind = awaits[k].kind /\ a.form = awaits[k].form
        /\ a.client = awaits[k].client /\ a.id = awaits[k].id
    BY <2>4, <2>5 DEF Entry
  <2>7. F = [awaits EXCEPT ![k] = a]
    BY <1>2, <2>2, <2>5 DEF Fill
  <2>8. IsSet(awaits, F, k, a, Entry)
    BY <2>3, <2>6, <2>7, SetFields
  <2> QED
    BY <1>2, <2>2, <2>3, <2>6, <2>8 DEF IsFilled, IsSet
<1> QED
  BY <1>1, <1>2

\* The loop on top of s goes on to c, and the loops below see it.
IsEntered(s, p, c, b) ==
    /\ p \in Seq(Frame) /\ Len(p) = Len(s) + 1 /\ Len(s) \in Nat \ {0}
    /\ p[Len(p)].kind = "empty" /\ p[Len(p)].await = FALSE
    /\ p[Len(p)].fin = b /\ p[Len(p)].client = {c}
    /\ \A i \in 1..Len(s) :
          /\ p[i].kind = s[i].kind /\ p[i].await = s[i].await
          /\ p[i].phase = s[i].phase /\ p[i].fin = s[i].fin
          /\ p[i].nested = (i < Len(s))
          /\ p[i].ready = IF i = Len(s) THEN s[i].ready \ {c} ELSE s[i].ready

IsMarked(f, g, R, b) ==
    /\ g \in Frame /\ g.kind = f.kind /\ g.await = f.await
    /\ g.phase = f.phase /\ g.fin = f.fin /\ g.client = f.client
    /\ g.nested = b /\ g.ready = R

LEMMA FrameFields ==
    ASSUME NEW f \in Frame, NEW R \in SUBSET Clients, NEW b \in BOOLEAN,
           NEW g, g = [[f EXCEPT !.ready = R] EXCEPT !.nested = b]
    PROVE  IsMarked(f, g, R, b)
  BY DEF Frame, IsMarked

LEMMA EnterFields ==
    ASSUME NEW s \in Seq(Frame), s # << >>, NEW c \in Clients, NEW b \in BOOLEAN,
           NEW p,
           p = Append(
               Noticed([s EXCEPT
                   ![Len(s)] = [Top(s) EXCEPT !.ready = Top(s).ready \ {c}]]),
               EmptyFrame(c, b))
    PROVE  IsEntered(s, p, c, b)
<1>1. PICK n : n = Len(s)
  OBVIOUS
<1>2. n \in Nat \ {0} /\ n \in 1..n /\ DOMAIN s = 1..n /\ Top(s) = s[n]
      /\ \A i \in 1..n : s[i] \in Frame
  BY <1>1, SeqFields DEF Top
<1>3. PICK R : R = [i \in 1..n |-> IF i = n THEN s[i].ready \ {c} ELSE s[i].ready]
  OBVIOUS
<1>4. \A i \in 1..n : R[i] \in SUBSET Clients /\ s[i].ready \in SUBSET Clients
  BY <1>2, <1>3 DEF Frame
<1>5. PICK t : t = [s EXCEPT ![n] = [s[n] EXCEPT !.ready = R[n]]]
  OBVIOUS
<1>6. /\ DOMAIN t = 1..n
      /\ \A i \in 1..n : t[i] = [s[i] EXCEPT !.ready = R[i]]
  <2>1. \A i \in 1..n : i # n => t[i] = s[i] /\ R[i] = s[i].ready
    BY <1>2, <1>3, <1>5
  <2>2. \A i \in 1..n : [s[i] EXCEPT !.ready = s[i].ready] = s[i]
    BY <1>2 DEF Frame
  <2>3. t[n] = [s[n] EXCEPT !.ready = R[n]] /\ DOMAIN t = 1..n
    BY <1>2, <1>5
  <2> QED
    BY <2>1, <2>2, <2>3
<1>7. t \in Seq(Frame) /\ Len(t) = n
  <2>1. [s[n] EXCEPT !.ready = R[n]] \in Frame
    BY <1>2, <1>4 DEF Frame
  <2> QED
    BY <1>1, <1>2, <1>5, <2>1, SetFields DEF IsSet
<1>8. PICK q : q = Noticed(t)
  OBVIOUS
<1>9. q = [i \in 1..n |-> [[s[i] EXCEPT !.ready = R[i]] EXCEPT !.nested = i < n]]
  BY <1>6, <1>7, <1>8 DEF Noticed
<1>10. \A i \in 1..n :
          /\ q[i] \in Frame /\ q[i].kind = s[i].kind /\ q[i].await = s[i].await
          /\ q[i].phase = s[i].phase /\ q[i].fin = s[i].fin
          /\ q[i].nested = (i < n) /\ q[i].ready = R[i]
  <2> SUFFICES ASSUME NEW i \in 1..n
               PROVE  /\ q[i] \in Frame /\ q[i].kind = s[i].kind
                      /\ q[i].await = s[i].await /\ q[i].phase = s[i].phase
                      /\ q[i].fin = s[i].fin /\ q[i].nested = (i < n)
                      /\ q[i].ready = R[i]
    OBVIOUS
  <2>1. PICK m : m = (i < n)
    OBVIOUS
  <2>2. q[i] = [[s[i] EXCEPT !.ready = R[i]] EXCEPT !.nested = m]
    BY <1>9, <2>1
  <2>3. s[i] \in Frame /\ R[i] \in SUBSET Clients /\ m \in BOOLEAN
    BY <1>2, <1>4, <2>1
  <2>4. IsMarked(s[i], q[i], R[i], m)
    BY <2>2, <2>3, FrameFields
  <2> QED
    BY <2>1, <2>4 DEF IsMarked
<1>11. q \in Seq(Frame) /\ Len(q) = n
  <2>1. DOMAIN q = 1..n /\ q = [i \in 1..n |-> q[i]]
    BY <1>9
  <2>2. q \in [1..n -> Frame]
    BY <1>10, <2>1
  <2> QED
    BY <1>2, <2>2
<1>12. PICK g : g = EmptyFrame(c, b)
  OBVIOUS
<1>13. /\ g \in Frame /\ g.kind = "empty" /\ g.await = FALSE /\ g.fin = b
       /\ g.client = {c}
  BY <1>12 DEF EmptyFrame, Frame
<1>14. p = Append(q, g)
  BY <1>1, <1>2, <1>3, <1>5, <1>8, <1>12
<1>15. IsPushed(q, p, g, Frame)
  BY <1>11, <1>13, <1>14, PushFields
<1>16. /\ p \in Seq(Frame) /\ Len(p) = n + 1 /\ p[n + 1] = g
       /\ \A i \in 1..n : p[i] = q[i]
  BY <1>11, <1>15 DEF IsPushed
<1>17. \A i \in 1..n : R[i] = IF i = n THEN s[i].ready \ {c} ELSE s[i].ready
  BY <1>3
<1>18. ASSUME NEW i \in 1..n
       PROVE  /\ p[i].kind = s[i].kind /\ p[i].await = s[i].await
              /\ p[i].phase = s[i].phase /\ p[i].fin = s[i].fin
              /\ p[i].nested = (i < n)
              /\ p[i].ready = IF i = n THEN s[i].ready \ {c} ELSE s[i].ready
  <2>1. p[i] = q[i]
    BY <1>16
  <2> QED
    BY <1>10, <1>17, <2>1
<1> QED
  BY <1>1, <1>2, <1>13, <1>16, <1>18 DEF IsEntered

IsCreated(c, e) ==
    /\ created' \in [Clients -> Seq(Event)] /\ notes' \in Seq(Event)
    /\ \A d \in Clients : d # c => created'[d] = created[d]
    /\ \/ created'[c] = created[c]
       \/ /\ ~IsReply(e) /\ ~Ignores(e)
          /\ IsPushed(created[c], created'[c], e, Event)

\* The event is what was next on the wire, or the end of the file.
IsRead(c, e) ==
    /\ e \in Event /\ e.agent = c
    /\ wire' \in [Clients -> Seq(Msgs)] /\ open' \in [Clients -> BOOLEAN]
    /\ \A d \in Clients : d # c => wire'[d] = wire[d] /\ open'[d] = open[d]
    /\ \/ /\ IsTail(wire[c], wire'[c], Msgs)
          /\ e.name = wire[c][1].name /\ e.n = wire[c][1].n
       \/ wire' = wire /\ e.name = "fail"

\* EmptyTaskChannel() has read the event e from c.
Hears(c, e) ==
    /\ IsRead(c, e) /\ IsCreated(c, e) /\ IsFilled(e, awaits')
    /\ IsEntered(stack, stack', c, Finishes(e))
    /\ hung' = hung

LEMMA NewEventFields ==
    ASSUME TypeOK, stack # << >>, NEW c \in Clients, NEW e \in Event,
           NewEvent(c, e)
    PROVE  /\ IsCreated(c, e) /\ IsFilled(e, awaits')
           /\ IsEntered(stack, stack', c, Finishes(e))
<1>1. PICK drop : drop = (IsReply(e) \/ Ignores(e))
  OBVIOUS
<1>2. PICK b : b = Finishes(e)
  OBVIOUS
<1>3. b \in BOOLEAN /\ drop \in BOOLEAN
  BY <1>1, <1>2 DEF Finishes
<1>4. /\ awaits' = Fill(e)
      /\ created' = IF drop THEN created
                    ELSE [created EXCEPT ![c] = Append(created[c], e)]
      /\ notes' = IF drop \/ DsgOf(e) \notin Whenevers THEN notes
                  ELSE Append(notes, e)
      /\ stack' = Append(
             Noticed([stack EXCEPT
                 ![Len(stack)] = [Top(stack) EXCEPT
                                      !.ready = Top(stack).ready \ {c}]]),
             EmptyFrame(c, b))
  BY <1>1, <1>2, Zenon DEF NewEvent
<1>5. /\ awaits \in Seq(Entry) /\ stack \in Seq(Frame) /\ notes \in Seq(Event)
      /\ created \in [Clients -> Seq(Event)]
  BY DEF TypeOK
<1>6. IsFilled(e, awaits')
  BY <1>4, <1>5, FillFields
<1>7. IsEntered(stack, stack', c, b)
  <2>1. PICK s : s = stack
    OBVIOUS
  <2>2. PICK p : p = stack'
    OBVIOUS
  <2>3. IsEntered(s, p, c, b)
    BY <1>3, <1>4, <1>5, <2>1, <2>2, EnterFields
  <2> QED
    BY <2>1, <2>2, <2>3
<1>8. notes' \in Seq(Event)
  <2>1. Append(notes, e) \in Seq(Event)
    BY <1>5
  <2> QED
    BY <1>4, <1>5, <2>1
<1>9. CASE drop
  BY <1>4, <1>5, <1>8, <1>6, <1>7, <1>2, <1>9 DEF IsCreated
<1>10. CASE ~drop
  <2>1. created[c] \in Seq(Event)
    BY <1>5
  <2>2. PICK p : p = Append(created[c], e)
    OBVIOUS
  <2>3. IsPushed(created[c], p, e, Event) /\ p \in Seq(Event)
    BY <2>1, <2>2, PushFields DEF IsPushed
  <2>4. created' = [created EXCEPT ![c] = p]
    BY <1>4, <1>10, <2>2
  <2>5. /\ created' \in [Clients -> Seq(Event)] /\ created'[c] = p
        /\ \A d \in Clients : d # c => created'[d] = created[d]
    BY <1>5, <2>3, <2>4
  <2> QED
    BY <1>1, <1>2, <1>6, <1>7, <1>8, <1>10, <2>3, <2>5 DEF IsCreated
<1> QED
  BY <1>3, <1>9, <1>10

\* Serve(c) blocks, or hears an event.
LEMMA ServeFields ==
    ASSUME TypeOK, NEW c \in Clients, Serve(c)
    PROVE  /\ stack # << >> /\ Serving(Top(stack)) /\ c \in Top(stack).ready
           /\ open[c] /\ ~hung
           /\ UNCHANGED <<alive, posted, asked, nactive, nreq, nint, left>>
           /\ \/ ServeNothing(c)
              \/ \E e \in Event : Hears(c, e)
<1>1. /\ stack # << >> /\ Serving(Top(stack)) /\ c \in Top(stack).ready
      /\ open[c] /\ ~hung
      /\ UNCHANGED <<alive, posted, asked, nactive, nreq, nint, left>>
  BY DEF Serve, InLoop, Serving
<1>2. /\ wire \in [Clients -> Seq(Msgs)] /\ open \in [Clients -> BOOLEAN]
      /\ wire[c] \in Seq(Msgs)
  BY DEF TypeOK, Msgs
<1>3. CASE ServeMessage(c)
  <2>1. PICK m : m = Head(wire[c])
    OBVIOUS
  <2>2. PICK e : e = [agent |-> c, name |-> m.name, n |-> m.n]
    OBVIOUS
  <2>3. /\ wire[c] # << >> /\ NewEvent(c, e) /\ hung' = hung
        /\ open' = [open EXCEPT ![c] = m.name # "done"]
        /\ wire' = [wire EXCEPT ![c] = Tail(wire[c])]
    BY <1>3, <2>1, <2>2 DEF ServeMessage
  <2>4. PICK p : p = Tail(wire[c])
    OBVIOUS
  <2>5. IsTail(wire[c], p, Msgs)
    BY <1>2, <2>3, <2>4, TailFields
  <2>6. m = wire[c][1] /\ m \in Msgs /\ p \in Seq(Msgs)
    BY <2>1, <2>5 DEF IsTail
  <2>7. e \in Event /\ e.agent = c /\ e.name = m.name /\ e.n = m.n
    BY <2>2, <2>6 DEF Event, Msgs
  <2>8. /\ wire' \in [Clients -> Seq(Msgs)] /\ wire'[c] = p
        /\ \A d \in Clients : d # c => wire'[d] = wire[d]
    BY <1>2, <2>3, <2>4, <2>6
  <2>9. /\ open' \in [Clients -> BOOLEAN]
        /\ \A d \in Clients : d # c => open'[d] = open[d]
    BY <1>2, <2>3
  <2>10. IsRead(c, e)
    BY <2>5, <2>6, <2>7, <2>8, <2>9 DEF IsRead
  <2> QED
    BY <1>1, <2>3, <2>7, <2>10, NewEventFields DEF Hears
<1>4. CASE ServeEOF(c)
  <2>1. PICK e : e = [agent |-> c, name |-> "fail", n |-> 0]
    OBVIOUS
  <2>2. /\ NewEvent(c, e) /\ hung' = hung /\ wire' = wire
        /\ open' = [open EXCEPT ![c] = FALSE]
    BY <1>4, <2>1 DEF ServeEOF
  <2>3. e \in Event /\ e.agent = c /\ e.name = "fail"
    BY <2>1 DEF Event, EventName, EndNames
  <2>4. /\ open' \in [Clients -> BOOLEAN]
        /\ \A d \in Clients : d # c => open'[d] = open[d]
    BY <1>2, <2>2
  <2>5. IsRead(c, e)
    BY <1>2, <2>2, <2>3, <2>4 DEF IsRead
  <2> QED
    BY <1>1, <2>2, <2>3, <2>5, NewEventFields DEF Hears
<1> QED
  BY <1>1, <1>3, <1>4 DEF Serve

-----------------------------------------------------------------------------
(* Counting the awaits on the stack.                                       *)

LEMMA CountType ==
    ASSUME NEW s, NEW i \in Nat
    PROVE  Count(s, i) \in Nat /\ IsFiniteSet({j \in 1..i : s[j].await})
<1>1. IsFiniteSet(1..i)
  BY FS_Interval
<1>2. IsFiniteSet({j \in 1..i : s[j].await})
  BY <1>1, FS_Subset
<1> QED
  BY <1>2, FS_CardinalityType DEF Count

LEMMA CountSame ==
    ASSUME NEW s, NEW p, NEW i \in Nat, \A j \in 1..i : p[j].await = s[j].await
    PROVE  Count(p, i) = Count(s, i)
<1>1. {j \in 1..i : p[j].await} = {j \in 1..i : s[j].await}
  OBVIOUS
<1> QED
  BY <1>1 DEF Count

LEMMA CountNext ==
    ASSUME NEW s, NEW i \in Nat, NEW k, k = i + 1
    PROVE  Count(s, k) = IF s[k].await THEN Count(s, i) + 1 ELSE Count(s, i)
<1>1. PICK D : D = {j \in 1..i : s[j].await}
  OBVIOUS
<1>2. IsFiniteSet(D) /\ Cardinality(D) = Count(s, i)
  BY <1>1, CountType DEF Count
<1>3. PICK E : E = {j \in 1..k : s[j].await}
  OBVIOUS
<1>4. Cardinality(E) = Count(s, k)
  BY <1>3 DEF Count
<1>5. E = IF s[k].await THEN D \cup {k} ELSE D
  BY <1>1, <1>3
<1>6. k \notin D
  BY <1>1
<1>7. Cardinality(D \cup {k}) = Cardinality(D) + 1
  BY <1>2, <1>6, FS_AddElement
<1> QED
  BY <1>2, <1>4, <1>5, <1>7

LEMMA CountZero ==
    ASSUME NEW s
    PROVE  Count(s, 0) = 0
<1>1. {j \in 1..0 : s[j].await} = {}
  OBVIOUS
<1> QED
  BY <1>1, FS_EmptySet DEF Count

LEMMA CountRises ==
    ASSUME NEW s, NEW i \in Nat, NEW k \in Nat, i <= k
    PROVE  Count(s, i) <= Count(s, k)
<1>1. {j \in 1..i : s[j].await} \subseteq {j \in 1..k : s[j].await}
  OBVIOUS
<1> QED
  BY <1>1, CountType, FS_Subset DEF Count

-----------------------------------------------------------------------------
(* Entering and leaving.                                                   *)

\* Await() or AwaitReply() calls EventLoop().
LEMMA PushPaired ==
    ASSUME NEW s \in Seq(Frame), NEW a \in Seq(Entry), Paired(s, a),
           s = << >> \/ ~Serving(Top(s)),
           NEW f \in Frame, f.kind = "loop", f.phase = "queue", f.await, ~f.fin,
           NEW x \in Entry, NEW p, p = Append(s, f), NEW b, b = Append(a, x)
    PROVE  Paired(p, b)
<1>1. PICK n : n = Len(s)
  OBVIOUS
<1>2. PICK m : m = Len(a)
  OBVIOUS
<1>3. /\ n \in Nat /\ Len(p) = n + 1 /\ p[n + 1] = f /\ DOMAIN p = 1..(n + 1)
      /\ \A i \in 1..n : p[i] = s[i]
  BY <1>1, PushFields DEF IsPushed
<1>4. m \in Nat /\ Len(b) = m + 1 /\ \A i \in 1..m : b[i] = a[i]
  BY <1>2, PushFields DEF IsPushed
<1>5. n > 0 => ~Serving(s[n])
  BY <1>1, SeqFields DEF Top
<1>6. Nesting(p)
  <2>1. p # << >> => p[1].kind = "loop"
    BY <1>1, <1>3, SeqFields DEF Paired, Nesting
  <2>2. \A i \in 1..Len(p) : p[i].kind = "empty" =>
            ~p[i].await /\ i > 1 /\ Serving(p[i - 1])
    <3> SUFFICES ASSUME NEW i \in 1..(n + 1), p[i].kind = "empty"
                 PROVE  ~p[i].await /\ i > 1 /\ Serving(p[i - 1])
      BY <1>3
    <3>1. i \in 1..n /\ p[i] = s[i]
      BY <1>3
    <3>2. ~s[i].await /\ i > 1 /\ Serving(s[i - 1])
      BY <1>1, <3>1 DEF Paired, Nesting
    <3>3. i - 1 \in 1..n
      BY <1>3, <3>1, <3>2
    <3> QED
      BY <1>3, <3>1, <3>2, <3>3
  <2>3. \A i \in 1..(Len(p) - 1) : Serving(p[i]) => p[i + 1].kind = "empty"
    <3> SUFFICES ASSUME NEW i \in 1..n, Serving(p[i])
                 PROVE  p[i + 1].kind = "empty"
      BY <1>3
    <3>1. Serving(s[i])
      BY <1>3
    <3>2. i < n
      BY <1>3, <1>5, <3>1
    <3>3. s[i + 1].kind = "empty" /\ i + 1 \in 1..n
      BY <1>1, <1>3, <3>1, <3>2 DEF Paired, Nesting
    <3> QED
      BY <1>3, <3>3
  <2> QED
    BY <2>1, <2>2, <2>3 DEF Nesting
<1>7. ASSUME NEW i \in 0..n PROVE Count(p, i) = Count(s, i)
  <2>1. i \in Nat /\ \A j \in 1..i : p[j].await = s[j].await
    BY <1>3
  <2> QED
    BY <2>1, CountSame
<1>8. Count(p, n + 1) = Count(p, n) + 1
  BY <1>3, CountNext
<1>9. Len(b) = Count(p, Len(p))
  BY <1>1, <1>2, <1>3, <1>4, <1>7, <1>8 DEF Paired
<1>10. ASSUME NEW i \in 1..Len(p) PROVE Ending(p, b, i)
  <2>1. CASE i = n + 1
    BY <1>3, <2>1 DEF Ending
  <2>2. CASE i # n + 1
    <3>1. i \in 1..n /\ p[i] = s[i] /\ Ending(s, a, i)
      BY <1>1, <1>3, <2>2 DEF Paired
    <3>2. Count(p, i) = Count(s, i)
      BY <1>7, <3>1
    <3> QED
      BY <1>2, <1>4, <3>1, <3>2 DEF Ending
  <2> QED
    BY <2>1, <2>2
<1> QED
  BY <1>6, <1>9, <1>10 DEF Paired

\* The frames below the top.
LEMMA PopNesting ==
    ASSUME NEW s \in Seq(Frame), s # << >>, Nesting(s), NEW p, p = Pop(s)
    PROVE  /\ Nesting(p)
           /\ Top(s).kind = "empty" => p # << >> /\ Serving(Top(p))
           /\ Top(s).kind = "loop" /\ p # << >> => ~Serving(Top(p))
<1>1. PICK n : n = Len(p)
  OBVIOUS
<1>2. /\ p \in Seq(Frame) /\ n \in Nat /\ Len(s) = n + 1
      /\ \A i \in 1..n : p[i] = s[i]
  BY <1>1, PopFields DEF IsPopped
<1>3. Top(s) = s[n + 1] /\ (p # << >> <=> n > 0) /\ Top(p) = p[n]
  BY <1>1, <1>2, SeqFields DEF Top
<1>4. p # << >> => p[1].kind = "loop"
  BY <1>2, <1>3 DEF Nesting
<1>5. ASSUME NEW i \in 1..n, p[i].kind = "empty"
      PROVE  ~p[i].await /\ i > 1 /\ Serving(p[i - 1])
  <2>1. ~s[i].await /\ i > 1 /\ Serving(s[i - 1])
    BY <1>2, <1>5 DEF Nesting
  <2>2. i - 1 \in 1..n
    BY <1>2, <2>1
  <2> QED
    BY <1>2, <1>5, <2>1, <2>2
<1>6. ASSUME NEW i \in 1..(n - 1), Serving(p[i]) PROVE p[i + 1].kind = "empty"
  <2>1. i \in 1..n /\ i + 1 \in 1..n
    BY <1>2
  <2>2. s[i + 1].kind = "empty"
    BY <1>2, <1>6, <2>1 DEF Nesting
  <2> QED
    BY <1>2, <2>1, <2>2
<1>7. ASSUME Top(s).kind = "empty" PROVE p # << >> /\ Serving(Top(p))
  <2>1. n + 1 > 1 /\ Serving(s[(n + 1) - 1])
    BY <1>2, <1>3, <1>7 DEF Nesting
  <2>2. n \in 1..n /\ (n + 1) - 1 = n
    BY <1>2, <2>1
  <2> QED
    BY <1>2, <1>3, <2>1, <2>2
<1>8. ASSUME Top(s).kind = "loop", p # << >> PROVE ~Serving(Top(p))
  <2>1. n \in 1..n /\ n \in 1..(Len(s) - 1)
    BY <1>2, <1>3, <1>8
  <2>2. Serving(s[n]) => s[n + 1].kind = "empty"
    BY <2>1 DEF Nesting
  <2> QED
    BY <1>2, <1>3, <1>8, <2>1, <2>2
<1> QED
  BY <1>1, <1>4, <1>5, <1>6, <1>7, <1>8 DEF Nesting

\* EventLoop() returns, or EmptyTaskChannel() does: the await goes with it.
LEMMA PopPaired ==
    ASSUME NEW s \in Seq(Frame), s # << >>, NEW a \in Seq(Entry), Paired(s, a),
           NEW p, p = Pop(s), NEW b, b = IF Top(s).await THEN Pop(a) ELSE a
    PROVE  Paired(p, b) /\ b \in Seq(Entry) /\ p \in Seq(Frame)
           /\ (Top(s).await => a # << >>)
<1>1. PICK n : n = Len(p)
  OBVIOUS
<1>2. /\ p \in Seq(Frame) /\ n \in Nat /\ Len(s) = n + 1
      /\ \A i \in 1..n : p[i] = s[i]
  BY <1>1, PopFields DEF IsPopped
<1>3. Top(s) = s[n + 1] /\ Top(s) \in Frame /\ Top(s).await \in BOOLEAN
  <2>1. Top(s) = s[n + 1] /\ Top(s) \in Frame
    BY <1>2, TopFields
  <2> QED
    BY <2>1 DEF Frame
<1>4. Nesting(p)
  BY PopNesting DEF Paired
<1>5. \A i \in 0..n : Count(p, i) = Count(s, i)
  BY <1>2, CountSame
<1>6. /\ Count(s, n + 1) = IF Top(s).await THEN Count(s, n) + 1 ELSE Count(s, n)
      /\ Count(s, n) \in Nat
  BY <1>2, <1>3, CountNext, CountType
<1>7. Len(a) = Count(s, n + 1) /\ Len(a) \in Nat
  BY <1>2 DEF Paired
<1>8. Top(s).await => a # << >>
  BY <1>6, <1>7, SeqFields
<1>9. /\ b \in Seq(Entry) /\ Len(b) = Count(s, n) /\ Len(b) <= Len(a)
      /\ \A i \in 1..Len(b) : b[i] = a[i]
  <2>1. CASE Top(s).await
    <3>1. b = Pop(a) /\ IsPopped(a, b, Entry)
      BY <1>8, <2>1, PopFields
    <3> QED
      BY <1>6, <1>7, <2>1, <3>1 DEF IsPopped
  <2>2. CASE ~Top(s).await
    BY <1>6, <1>7, <2>2
  <2> QED
    BY <1>3, <2>1, <2>2
<1>10. Len(b) = Count(p, Len(p))
  BY <1>1, <1>2, <1>5, <1>9
<1>11. ASSUME NEW i \in 1..Len(p), p[i].fin
       PROVE  Count(p, i) \in 1..Len(b) /\ Over(b[Count(p, i)])
  <2>1. i \in 1..n /\ i \in Nat /\ i <= n
    BY <1>1, <1>2
  <2>2. Count(s, i) \in 1..Len(a) /\ Over(a[Count(s, i)])
    BY <1>2, <1>11, <2>1 DEF Paired, Ending
  <2>3. Count(s, i) <= Count(s, n)
    BY <1>2, <2>1, CountRises
  <2>4. Count(s, i) \in 1..Len(b) /\ Count(p, i) = Count(s, i)
    BY <1>5, <1>6, <1>9, <2>1, <2>2, <2>3
  <2> QED
    BY <1>9, <2>2, <2>4
<1> QED
  BY <1>2, <1>4, <1>8, <1>9, <1>10, <1>11 DEF Paired, Ending

\* The loop on top goes on with its pass, or ends it.
LEMMA SetTopPaired ==
    ASSUME NEW s \in Seq(Frame), s # << >>, NEW a, Paired(s, a),
           NEW f \in Frame, f.kind = Top(s).kind, f.await = Top(s).await,
           f.fin = Top(s).fin, f.kind = "loop",
           NEW p, p = [s EXCEPT ![Len(s)] = f]
    PROVE  Paired(p, a) /\ IsSet(s, p, Len(s), f, Frame)
<1>1. PICK n : n = Len(s)
  OBVIOUS
<1>2. n \in Nat \ {0} /\ n \in 1..n /\ Top(s) = s[n]
  BY <1>1, SeqFields DEF Top
<1>3. IsSet(s, p, n, f, Frame)
  BY <1>1, <1>2, SetFields
<1>4. /\ p \in Seq(Frame) /\ Len(p) = n /\ p[n] = f
      /\ \A i \in 1..n : i # n => p[i] = s[i]
  BY <1>1, <1>3 DEF IsSet
<1>5. \A i \in 1..n : /\ p[i].kind = s[i].kind /\ p[i].await = s[i].await
                      /\ p[i].fin = s[i].fin
  BY <1>2, <1>4
<1>6. Nesting(p)
  <2>1. p # << >> => p[1].kind = "loop"
    BY <1>1, <1>2, <1>5 DEF Paired, Nesting
  <2>2. ASSUME NEW i \in 1..n, p[i].kind = "empty"
        PROVE  ~p[i].await /\ i > 1 /\ Serving(p[i - 1])
    <3>1. ~s[i].await /\ i > 1 /\ Serving(s[i - 1])
      BY <1>1, <1>5, <2>2 DEF Paired, Nesting
    <3>2. i - 1 \in 1..n /\ i - 1 # n
      BY <1>2, <3>1
    <3> QED
      BY <1>4, <1>5, <3>1, <3>2
  <2>3. ASSUME NEW i \in 1..(n - 1), Serving(p[i]) PROVE p[i + 1].kind = "empty"
    <3>1. i \in 1..n /\ i # n /\ i + 1 \in 1..n
      BY <1>2
    <3>2. s[i + 1].kind = "empty"
      BY <1>1, <1>4, <2>3, <3>1 DEF Paired, Nesting
    <3> QED
      BY <1>5, <3>1, <3>2
  <2> QED
    BY <1>4, <2>1, <2>2, <2>3 DEF Nesting
<1>7. ASSUME NEW i \in 0..n PROVE Count(p, i) = Count(s, i)
  <2>1. i \in Nat /\ \A j \in 1..i : p[j].await = s[j].await
    BY <1>2, <1>5
  <2> QED
    BY <2>1, CountSame
<1>8. Len(a) = Count(p, Len(p))
  <2>1. n \in 0..n
    BY <1>2
  <2>2. Count(p, n) = Count(s, n)
    BY <1>7, <2>1
  <2> QED
    BY <1>1, <1>4, <2>2 DEF Paired
<1>9. ASSUME NEW i \in 1..Len(p) PROVE Ending(p, a, i)
  <2>1. i \in 1..n /\ i \in 0..n
    BY <1>4
  <2>2. Ending(s, a, i) /\ Count(p, i) = Count(s, i) /\ p[i].fin = s[i].fin
    BY <1>1, <1>5, <1>7, <2>1 DEF Paired
  <2> QED
    BY <2>2 DEF Ending
<1> QED
  BY <1>1, <1>3, <1>6, <1>8, <1>9 DEF Paired

\* What HasInterest() finds, where statements except nothing.
LEMMA FinishOver ==
    ASSUME TInv, NEW e \in Event, Finishes(e)
    PROVE  awaits # << >> /\ Takers(e) = {} /\ Over(awaits[Len(awaits)])
<1>1. PICK a : a = Top(awaits)
  OBVIOUS
<1>2. /\ Takers(e) = {} /\ awaits # << >>
      /\ IsReplyFor(a, e) \/ HasInterest(a, e)
  BY <1>1 DEF Finishes
<1>3. awaits \in Seq(Entry) /\ left \subseteq Awaits
  BY DEF TInv, TypeOK
<1>4. a = awaits[Len(awaits)] /\ Len(awaits) \in DOMAIN awaits
  BY <1>1, <1>2, <1>3, SeqFields DEF Top
<1>5. ~Accepts(a, e)
  BY <1>2, <1>4 DEF Takers
<1>6. a.kind = "stmt" \/ a.filled # NoEvent
  BY <1>2, <1>5 DEF Accepts, HasInterest
<1>7. ASSUME Simple PROVE a.filled # NoEvent
  <2>1. CASE IsReplyFor(a, e)
    BY <1>5, <2>1 DEF Accepts
  <2>2. CASE HasInterest(a, e)
    <3>1. PICK f \in Registered : f.stmt = a.form.stmt /\ DsgOf(e) \in f.want \cup f.except
      BY <2>2 DEF HasInterest
    <3>2. f \in Awaits
      BY <1>3, <3>1 DEF Registered, TInv, Sound
    <3>3. a.form \in Awaits
      BY <1>4, <2>2 DEF HasInterest, TInv, Sound
    <3>4. f = a.form /\ f.except = {}
      BY <1>7, <3>1, <3>2, <3>3 DEF Simple
    <3>5. DsgOf(e) \in a.form.want
      BY <3>1, <3>4
    <3> QED
      BY <1>5, <2>2, <3>5 DEF Accepts
  <2> QED
    BY <1>2, <2>1, <2>2
<1> QED
  BY <1>2, <1>4, <1>6, <1>7 DEF Over

\* An event is heard: whatever it fills or ends.
LEMMA EnterPaired ==
    ASSUME TInv, Paired(stack, awaits), stack # << >>, Serving(Top(stack)),
           NEW c, NEW e \in Event, NEW F, IsFilled(e, F),
           NEW p, IsEntered(stack, p, c, Finishes(e))
    PROVE  Paired(p, F)
<1>1. PICK n : n = Len(stack)
  OBVIOUS
<1>2. stack \in Seq(Frame) /\ awaits \in Seq(Entry)
  BY DEF TInv, TypeOK
<1>3. n \in Nat \ {0} /\ n \in 1..n /\ Top(stack) = stack[n]
  BY <1>1, <1>2, SeqFields DEF Top
<1>4. /\ p \in Seq(Frame) /\ Len(p) = n + 1
      /\ p[n + 1].kind = "empty" /\ p[n + 1].await = FALSE
      /\ p[n + 1].fin = Finishes(e)
      /\ \A i \in 1..n : /\ p[i].kind = stack[i].kind /\ p[i].await = stack[i].await
                         /\ p[i].phase = stack[i].phase /\ p[i].fin = stack[i].fin
  BY <1>1 DEF IsEntered
<1>5. \A i \in 1..n : Serving(p[i]) <=> Serving(stack[i])
  BY <1>4 DEF Serving
<1>6. Nesting(p)
  <2>1. p # << >> => p[1].kind = "loop"
    BY <1>1, <1>2, <1>3, <1>4, SeqFields DEF Paired, Nesting
  <2>2. ASSUME NEW i \in 1..(n + 1), p[i].kind = "empty"
        PROVE  ~p[i].await /\ i > 1 /\ Serving(p[i - 1])
    <3>1. CASE i = n + 1
      <4>1. i - 1 = n /\ i > 1 /\ Serving(p[n])
        BY <1>3, <1>5, <3>1
      <4> QED
        BY <1>4, <3>1, <4>1
    <3>2. CASE i # n + 1
      <4>1. i \in 1..n
        BY <1>3, <3>2
      <4>2. ~stack[i].await /\ i > 1 /\ Serving(stack[i - 1])
        BY <1>1, <1>4, <2>2, <4>1 DEF Paired, Nesting
      <4>3. i - 1 \in 1..n
        BY <1>3, <4>1, <4>2
      <4> QED
        BY <1>4, <1>5, <4>1, <4>2, <4>3
    <3> QED
      BY <3>1, <3>2
  <2>3. ASSUME NEW i \in 1..n, Serving(p[i]) PROVE p[i + 1].kind = "empty"
    <3>1. CASE i = n
      BY <1>4, <3>1
    <3>2. CASE i # n
      <4>1. i \in 1..(n - 1) /\ i + 1 \in 1..n
        BY <1>3, <3>2
      <4>2. stack[i + 1].kind = "empty"
        BY <1>1, <1>5, <2>3, <4>1 DEF Paired, Nesting
      <4> QED
        BY <1>4, <4>1, <4>2
    <3> QED
      BY <3>1, <3>2
  <2>4. Len(p) - 1 = n
    BY <1>3, <1>4
  <2> QED
    BY <1>4, <2>1, <2>2, <2>3, <2>4 DEF Nesting
<1>7. ASSUME NEW i \in 0..n PROVE Count(p, i) = Count(stack, i)
  <2>1. i \in Nat /\ \A j \in 1..i : p[j].await = stack[j].await
    BY <1>3, <1>4
  <2> QED
    BY <2>1, CountSame
<1>8. Count(p, n + 1) = Count(stack, n)
  <2>1. Count(p, n + 1) = Count(p, n)
    BY <1>3, <1>4, CountNext
  <2> QED
    BY <1>3, <1>7, <2>1
<1>9. Len(F) = Len(awaits) /\ Len(awaits) = Count(stack, n) /\ Len(awaits) \in Nat
  BY <1>1, <1>2, SeqFields DEF IsFilled, Paired
<1>10. ASSUME NEW k \in 1..Len(awaits), Over(awaits[k]) PROVE Over(F[k])
  <2>1. CASE Takers(e) = {}
    BY <1>10, <2>1 DEF IsFilled
  <2>2. CASE Takers(e) # {}
    <3>1. PICK o \in Takers(e) : F[o].filled = e /\ \A i \in 1..Len(awaits) : i # o => F[i] = awaits[i]
      BY <2>2 DEF IsFilled
    <3>2. e # NoEvent
      BY NoEventAssumption
    <3> QED
      BY <1>10, <3>1, <3>2 DEF Over
  <2> QED
    BY <2>1, <2>2
<1>11. ASSUME NEW i \in 1..(n + 1), p[i].fin
       PROVE  Count(p, i) \in 1..Len(F) /\ Over(F[Count(p, i)])
  <2>1. CASE i = n + 1
    <3>1. Finishes(e)
      BY <1>4, <1>11, <2>1
    <3>2. /\ awaits # << >> /\ Takers(e) = {} /\ Over(awaits[Len(awaits)])
      BY <3>1, FinishOver
    <3>3. Len(awaits) \in 1..Len(awaits)
      BY <1>2, <3>2, SeqFields
    <3> QED
      BY <1>8, <1>9, <1>10, <2>1, <3>2, <3>3
  <2>2. CASE i # n + 1
    <3>1. i \in 1..n /\ i \in 0..n
      BY <1>3, <2>2
    <3>2. Count(stack, i) \in 1..Len(awaits) /\ Over(awaits[Count(stack, i)])
      BY <1>1, <1>4, <1>11, <3>1 DEF Paired, Ending
    <3> QED
      BY <1>7, <1>9, <1>10, <3>1, <3>2
  <2> QED
    BY <2>1, <2>2
<1> QED
  BY <1>4, <1>6, <1>8, <1>9, <1>11 DEF Paired, Ending

-----------------------------------------------------------------------------
(* The steps of the interpreter.                                           *)

IInv == TInv /\ SInv

LEMMA Types ==
    ASSUME IInv
    PROVE  /\ TypeOK /\ stack \in Seq(Frame) /\ awaits \in Seq(Entry)
           /\ notes \in Seq(Event) /\ left \subseteq Awaits
           /\ Paired(stack, awaits) /\ Nesting(stack) /\ AllCurrent(stack)
           /\ hung = FALSE
  BY DEF IInv, TInv, SInv, TypeOK, Paired

\* What is left to show where the clients, their channels and the events
\* are as they were.
LEMMA StackStep ==
    ASSUME IInv,
           UNCHANGED <<wire, alive, posted, open, created, hung>>,
           asked' \in [Clients -> Seq(Nat)],
           nactive' \in Int, nreq' \in Nat, nint' \in Nat, left' \subseteq Awaits,
           notes' \in Seq(Event),
           NEW s \in Seq(Frame), stack' = s, NEW a \in Seq(Entry), awaits' = a,
           \A i \in 1..Len(a) : Sound(a[i]), Paired(s, a), AllCurrent(s)
    PROVE  IInv'
<1>1. TypeOK'
  BY DEF IInv, TInv, TypeOK
<1>2. ~hung' /\ Paired(stack', awaits')
  BY DEF IInv, SInv
<1>3. AllCurrent(stack)'
  BY DEF AllCurrent, Current, Readable
<1>4. \A i \in DOMAIN awaits' : Sound(awaits'[i])
  BY SeqFields
<1> QED
  BY <1>1, <1>2, <1>3, <1>4 DEF IInv, TInv, SInv

LEMMA SoundEntries ==
    ASSUME IInv
    PROVE  \A i \in 1..Len(awaits) : Sound(awaits[i])
  BY Types, SeqFields DEF IInv, TInv

\* The frame that SetTop() leaves is current.
LEMMA SetTopStep ==
    ASSUME IInv, stack # << >>, NEW f \in Frame, Top(stack).kind = "loop",
           f.kind = "loop", f.await = Top(stack).await, f.fin = Top(stack).fin,
           SetTop(f), Serving(f) => \A c \in f.ready : open[c] => Readable(c),
           UNCHANGED <<wire, alive, posted, asked, open, awaits, notes, created,
                       nactive, nreq, nint, hung, left>>
    PROVE  IInv'
<1>1. PICK p : p = [stack EXCEPT ![Len(stack)] = f]
  OBVIOUS
<1>2. /\ Paired(p, awaits) /\ p \in Seq(Frame) /\ Len(p) = Len(stack)
      /\ p[Len(stack)] = f
      /\ \A i \in 1..Len(stack) : i # Len(stack) => p[i] = stack[i]
  <2>1. Paired(p, awaits) /\ IsSet(stack, p, Len(stack), f, Frame)
    BY <1>1, Types, SetTopPaired
  <2> QED
    BY <2>1 DEF IsSet
<1>3. AllCurrent(p)
  BY <1>2, Types DEF AllCurrent, Current
<1>4. stack' = p /\ awaits' = awaits
  BY <1>1 DEF SetTop
<1>5. nactive' \in Int /\ nreq' \in Nat /\ nint' \in Nat /\ left' \subseteq Awaits
      /\ notes' \in Seq(Event) /\ asked' \in [Clients -> Seq(Nat)]
  BY Types DEF TypeOK
<1> QED
  BY <1>2, <1>3, <1>4, <1>5, Types, SoundEntries, StackStep

LEMMA SelectStep ==
    ASSUME IInv, Select
    PROVE  IInv'
<1>1. PICK R : R = {c \in Clients : open[c] /\ Readable(c)}
  OBVIOUS
<1>2. PICK f : f = [Top(stack) EXCEPT !.phase = "serve", !.ready = R]
  OBVIOUS
<1>3. /\ stack # << >> /\ Top(stack).kind = "loop" /\ SetTop(f)
      /\ UNCHANGED <<wire, alive, posted, asked, open, awaits, notes, created,
                     nactive, nreq, nint, hung, left>>
  BY <1>1, <1>2 DEF Select, InLoop
<1>4. Top(stack) \in Frame /\ R \in SUBSET Clients
  BY <1>1, <1>3, Types, TopFields
<1>5. /\ f \in Frame /\ f.kind = "loop" /\ f.await = Top(stack).await
      /\ f.fin = Top(stack).fin /\ f.ready = R
  BY <1>2, <1>3, <1>4 DEF Frame
<1> QED
  BY <1>1, <1>3, <1>5, SetTopStep

LEMMA PassOverStep ==
    ASSUME IInv, PassOver
    PROVE  IInv'
<1>1. PICK f : f = [Top(stack) EXCEPT !.phase = "queue", !.ready = {}]
  OBVIOUS
<1>2. /\ stack # << >> /\ Top(stack).kind = "loop" /\ SetTop(f)
      /\ UNCHANGED <<wire, alive, posted, asked, open, awaits, notes, created,
                     nactive, nreq, nint, hung, left>>
  BY <1>1 DEF PassOver, InLoop
<1>3. Top(stack) \in Frame
  BY <1>2, Types, TopFields
<1>4. /\ f \in Frame /\ f.kind = "loop" /\ f.await = Top(stack).await
      /\ f.fin = Top(stack).fin /\ f.ready = {}
  BY <1>1, <1>2, <1>3 DEF Frame
<1> QED
  BY <1>2, <1>4, SetTopStep

\* What is under a loop that is left.
LEMMA LeaveFields ==
    ASSUME NEW s \in Seq(Frame), s # << >>, Top(s).kind = "loop",
           NEW a \in Seq(Entry), Paired(s, a), CurrentBelow(s),
           \A i \in 1..Len(a) : Sound(a[i]),
           NEW p, p = Pop(s), NEW b, b = IF Top(s).await THEN Pop(a) ELSE a
    PROVE  /\ Paired(p, b) /\ p \in Seq(Frame) /\ b \in Seq(Entry)
           /\ AllCurrent(p) /\ \A i \in 1..Len(b) : Sound(b[i])
<1>1. Paired(p, b) /\ p \in Seq(Frame) /\ b \in Seq(Entry)
      /\ (Top(s).await => a # << >>)
  BY PopPaired
<1>2. IsPopped(s, p, Frame)
  BY PopFields
<1>3. p # << >> => ~Serving(Top(p))
  BY PopNesting DEF Paired
<1>4. AllCurrent(p)
  <2> SUFFICES ASSUME NEW i \in 1..Len(p), Serving(p[i]), i = Len(p) \/ ~p[i].nested
               PROVE  \A c \in p[i].ready : open[c] => Readable(c)
    BY DEF AllCurrent, Current
  <2>1. i # Len(p)
    BY <1>1, <1>3, SeqFields DEF Top
  <2>2. p[i] = s[i] /\ i \in 1..Len(s)
    BY <1>2 DEF IsPopped
  <2> QED
    BY <2>1, <2>2 DEF CurrentBelow
<1>5. \A i \in 1..Len(b) : Sound(b[i])
  <2>1. CASE Top(s).await
    <3>1. IsPopped(a, b, Entry)
      BY <1>1, <2>1, PopFields
    <3>2. PICK m : m = Len(a)
      OBVIOUS
    <3>3. m \in Nat /\ Len(b) = m - 1 /\ \A i \in 1..Len(b) : b[i] = a[i]
      BY <3>1, <3>2 DEF IsPopped
    <3>4. \A i \in 1..m : Sound(a[i])
      BY <3>2
    <3> QED
      BY <3>3, <3>4
  <2>2. CASE ~Top(s).await
    BY <2>2
  <2> QED
    BY <2>1, <2>2
<1> QED
  BY <1>1, <1>4, <1>5

LEMMA AwaitOverStep ==
    ASSUME IInv, AwaitOver
    PROVE  IInv'
<1>1. /\ stack # << >> /\ Top(stack).kind = "loop" /\ LeaveLoop(stack)
      /\ UNCHANGED <<wire, alive, posted, asked, open, notes, created, nactive,
                     nreq, nint, hung, left>>
  BY DEF AwaitOver, InLoop
<1>2. PICK p : p = Pop(stack)
  OBVIOUS
<1>3. PICK b : b = IF Top(stack).await THEN Pop(awaits) ELSE awaits
  OBVIOUS
<1>4. stack' = p /\ awaits' = b
  BY <1>1, <1>2, <1>3 DEF LeaveLoop
<1>5. /\ Paired(p, b) /\ p \in Seq(Frame) /\ b \in Seq(Entry)
      /\ AllCurrent(p) /\ \A i \in 1..Len(b) : Sound(b[i])
  <2>1. CurrentBelow(stack)
    BY Types DEF AllCurrent, Current, CurrentBelow
  <2> QED
    BY <1>1, <1>2, <1>3, <2>1, Types, SoundEntries, LeaveFields
<1>6. nactive' \in Int /\ nreq' \in Nat /\ nint' \in Nat /\ left' \subseteq Awaits
      /\ notes' \in Seq(Event) /\ asked' \in [Clients -> Seq(Nat)]
  BY <1>1, Types DEF TypeOK
<1> QED
  BY <1>1, <1>4, <1>5, <1>6, StackStep

\* EmptyTaskChannel() returns to the loop that called it, which goes on with
\* its pass, gives it up, or returns.
LEMMA ServedStep ==
    ASSUME IInv, Served
    PROVE  IInv'
<1>1. PICK q : q = Pop(stack)
  OBVIOUS
<1>2. /\ stack # << >> /\ Top(stack).kind = "empty"
      /\ nactive' = nactive \/ nactive' = nactive - 1
      /\ IF Top(stack).fin THEN LeaveLoop(q)
         ELSE stack' = ServedBelow(q) /\ UNCHANGED awaits
      /\ UNCHANGED <<wire, alive, posted, asked, open, notes, created, nreq,
                     nint, hung, left>>
  BY <1>1, Zenon DEF Served
<1>3. /\ nactive' \in Int /\ nreq' \in Nat /\ nint' \in Nat /\ left' \subseteq Awaits
      /\ notes' \in Seq(Event) /\ asked' \in [Clients -> Seq(Nat)]
  <2>1. nactive' \in Int
    BY <1>2, Types DEF TypeOK
  <2> QED
    BY <1>2, <2>1, Types DEF TypeOK
<1>4. ~Top(stack).await
  BY <1>2, Types, TopFields DEF Nesting
<1>5. /\ Paired(q, awaits) /\ q \in Seq(Frame)
  BY <1>1, <1>2, <1>4, Types, PopPaired
<1>6. q # << >> /\ Serving(Top(q))
  BY <1>1, <1>2, Types, PopNesting
<1>7. CurrentBelow(q)
  <2>1. IsPopped(stack, q, Frame)
    BY <1>1, <1>2, Types, PopFields
  <2> SUFFICES ASSUME NEW i \in 1..Len(q), Serving(q[i]), ~q[i].nested
               PROVE  \A c \in q[i].ready : open[c] => Readable(c)
    BY DEF CurrentBelow
  <2>2. q[i] = stack[i] /\ i \in 1..Len(stack)
    BY <2>1 DEF IsPopped
  <2> QED
    BY <2>2, Types DEF AllCurrent, Current
<1>8. CASE Top(stack).fin
  <2>1. PICK p : p = Pop(q)
    OBVIOUS
  <2>2. PICK b : b = IF Top(q).await THEN Pop(awaits) ELSE awaits
    OBVIOUS
  <2>3. stack' = p /\ awaits' = b
    BY <1>2, <1>8, <2>1, <2>2 DEF LeaveLoop
  <2>4. Top(q).kind = "loop"
    BY <1>6 DEF Serving
  <2>5. /\ Paired(p, b) /\ p \in Seq(Frame) /\ b \in Seq(Entry)
        /\ AllCurrent(p) /\ \A i \in 1..Len(b) : Sound(b[i])
    BY <1>5, <1>6, <1>7, <2>1, <2>2, <2>4, Types, SoundEntries, LeaveFields
  <2> QED
    BY <1>2, <1>3, <2>3, <2>5, StackStep
<1>9. CASE ~Top(stack).fin
  <2>1. stack' = ServedBelow(q) /\ awaits' = awaits
    BY <1>2, <1>9
  <2>2. CASE ~Top(q).nested
    <3>1. stack' = q
      BY <2>1, <2>2 DEF ServedBelow
    <3>2. AllCurrent(q)
      BY <1>7, <2>2 DEF CurrentBelow, AllCurrent, Current, Top
    <3> QED
      BY <1>2, <1>3, <1>5, <2>1, <3>1, <3>2, Types, SoundEntries, StackStep
  <2>3. CASE Top(q).nested
    <3>1. PICK f : f = [Top(q) EXCEPT !.phase = "queue", !.ready = {}, !.nested = FALSE]
      OBVIOUS
    <3>2. Top(q) \in Frame /\ Top(q).kind = "loop"
      BY <1>5, <1>6, TopFields DEF Serving
    <3>3. /\ f \in Frame /\ f.kind = "loop" /\ f.await = Top(q).await
          /\ f.fin = Top(q).fin /\ f.phase = "queue"
      BY <3>1, <3>2 DEF Frame
    <3>4. PICK p : p = [q EXCEPT ![Len(q)] = f]
      OBVIOUS
    <3>5. stack' = p
      BY <2>1, <2>3, <3>1, <3>4 DEF ServedBelow
    <3>6. Paired(p, awaits) /\ IsSet(q, p, Len(q), f, Frame)
      BY <1>5, <1>6, <3>2, <3>3, <3>4, SetTopPaired
    <3>7. p \in Seq(Frame)
      BY <3>6 DEF IsSet
    <3>8. AllCurrent(p)
      <4> SUFFICES ASSUME NEW i \in 1..Len(p), Serving(p[i]),
                          i = Len(p) \/ ~p[i].nested
                   PROVE  \A c \in p[i].ready : open[c] => Readable(c)
        BY DEF AllCurrent, Current
      <4>1. ~Serving(f)
        BY <3>3 DEF Serving
      <4>2. i # Len(q) /\ i \in 1..Len(q) /\ p[i] = q[i] /\ Len(p) = Len(q)
        BY <3>6, <4>1 DEF IsSet
      <4> QED
        BY <1>7, <4>2 DEF CurrentBelow
    <3> QED
      BY <1>2, <1>3, <2>1, <3>5, <3>6, <3>7, <3>8, Types, SoundEntries, StackStep
  <2> QED
    BY <2>2, <2>3
<1> QED
  BY <1>8, <1>9

LEMMA TailNotes ==
    ASSUME IInv, Control
    PROVE  /\ notes' \in Seq(Event)
           /\ stack = << >> \/ ~Serving(Top(stack))
<1>1. notes \in Seq(Event)
  BY Types
<1>2. CASE ~hung /\ stack = << >> /\ UNCHANGED notes
  BY <1>1, <1>2
<1>3. CASE InQueue /\ notes' = Tail(notes)
  <2>1. notes # << >>
    BY <1>3 DEF InQueue
  <2>2. Tail(notes) \in Seq(Event)
    BY <1>1, <2>1
  <2>3. ~Serving(Top(stack))
    BY <1>3 DEF InQueue, InLoop, Serving
  <2> QED
    BY <1>3, <2>2, <2>3
<1> QED
  BY <1>2, <1>3 DEF Control

LEMMA RunBodyStep ==
    ASSUME IInv, RunBody
    PROVE  IInv'
<1>1. /\ Control
      /\ UNCHANGED <<wire, alive, posted, asked, open, awaits, stack, created,
                     nactive, nreq, nint, hung, left>>
  BY DEF RunBody, Control
<1>2. nactive' \in Int /\ nreq' \in Nat /\ nint' \in Nat /\ left' \subseteq Awaits
      /\ notes' \in Seq(Event) /\ asked' \in [Clients -> Seq(Nat)]
  BY <1>1, Types, TailNotes DEF TypeOK
<1> QED
  BY <1>1, <1>2, Types, SoundEntries, StackStep

\* A new await, and its loop.
LEMMA PushStep ==
    ASSUME IInv, stack = << >> \/ ~Serving(Top(stack)),
           NEW x \in Entry, Sound(x), awaits' = Append(awaits, x),
           stack' = Append(stack, LoopFrame(TRUE))
    PROVE  \E p \in Seq(Frame) : \E b \in Seq(Entry) :
              /\ stack' = p /\ awaits' = b /\ Paired(p, b) /\ AllCurrent(p)
              /\ \A i \in 1..Len(b) : Sound(b[i])
<1>1. PICK f : f = LoopFrame(TRUE)
  OBVIOUS
<1>2. /\ f \in Frame /\ f.kind = "loop" /\ f.phase = "queue" /\ f.await = TRUE
      /\ f.fin = FALSE
  BY <1>1 DEF LoopFrame, Frame
<1>3. PICK p : p = Append(stack, f)
  OBVIOUS
<1>4. PICK b : b = Append(awaits, x)
  OBVIOUS
<1>5. stack' = p /\ awaits' = b
  BY <1>1, <1>3, <1>4
<1>6. Paired(p, b)
  BY <1>2, <1>3, <1>4, Types, PushPaired
<1>7. IsPushed(stack, p, f, Frame) /\ IsPushed(awaits, b, x, Entry)
  BY <1>2, <1>3, <1>4, Types, PushFields
<1>8. p \in Seq(Frame) /\ b \in Seq(Entry)
  BY <1>7 DEF IsPushed
<1>9. AllCurrent(p)
  <2> SUFFICES ASSUME NEW i \in 1..Len(p), Serving(p[i]), i = Len(p) \/ ~p[i].nested
               PROVE  \A c \in p[i].ready : open[c] => Readable(c)
    BY DEF AllCurrent, Current
  <2>1. ~Serving(f)
    BY <1>2 DEF Serving
  <2>2. i # Len(p) /\ i \in 1..Len(stack) /\ p[i] = stack[i]
    BY <1>7, <2>1 DEF IsPushed
  <2> QED
    BY <2>2, Types DEF AllCurrent, Current
<1>10. \A i \in 1..Len(b) : Sound(b[i])
  BY <1>7, SoundEntries DEF IsPushed
<1> QED
  BY <1>5, <1>6, <1>8, <1>9, <1>10

LEMMA StartAwaitStep ==
    ASSUME IInv, NEW a \in Awaits, StartAwait(a)
    PROVE  IInv'
<1>1. PICK x : x = StmtEntry(a)
  OBVIOUS
<1>2. /\ Control /\ awaits' = Append(awaits, x)
      /\ stack' = Append(stack, LoopFrame(TRUE))
      /\ UNCHANGED <<wire, alive, posted, asked, open, created, nactive, nreq,
                     nint, hung, left>>
  BY <1>1 DEF StartAwait
<1>3. x \in Entry /\ Sound(x)
  BY <1>1 DEF StmtEntry, Entry, Sound
<1>4. nactive' \in Int /\ nreq' \in Nat /\ nint' \in Nat /\ left' \subseteq Awaits
      /\ notes' \in Seq(Event) /\ asked' \in [Clients -> Seq(Nat)]
  BY <1>2, Types, TailNotes DEF TypeOK
<1>5. \E p \in Seq(Frame) : \E b \in Seq(Entry) :
         /\ stack' = p /\ awaits' = b /\ Paired(p, b) /\ AllCurrent(p)
         /\ \A i \in 1..Len(b) : Sound(b[i])
  BY <1>2, <1>3, TailNotes, PushStep
<1> QED
  BY <1>2, <1>4, <1>5, StackStep

LEMMA StartRequestStep ==
    ASSUME IInv, NEW c \in Clients, StartRequest(c)
    PROVE  IInv'
<1>1. PICK x : x = ReplyEntry(c, nreq + 1)
  OBVIOUS
<1>2. /\ Control /\ awaits' = Append(awaits, x) /\ nreq' = nreq + 1
      /\ asked' = [asked EXCEPT ![c] = Append(asked[c], nreq + 1)]
      /\ stack' = Append(stack, LoopFrame(TRUE))
      /\ UNCHANGED <<wire, alive, posted, open, created, nactive, nint, hung,
                     left>>
  BY <1>1 DEF StartRequest
<1>3. nreq \in Nat /\ nreq + 1 \in Nat /\ asked \in [Clients -> Seq(Nat)]
  BY Types DEF TypeOK
<1>4. x \in Entry /\ Sound(x)
  BY <1>1, <1>3 DEF ReplyEntry, Entry, Sound
<1>5. asked' \in [Clients -> Seq(Nat)]
  <2>1. Append(asked[c], nreq + 1) \in Seq(Nat)
    BY <1>3
  <2> QED
    BY <1>2, <1>3, <2>1
<1>6. nactive' \in Int /\ nreq' \in Nat /\ nint' \in Nat /\ left' \subseteq Awaits
      /\ notes' \in Seq(Event)
  BY <1>2, <1>3, Types, TailNotes DEF TypeOK
<1>7. \E p \in Seq(Frame) : \E b \in Seq(Entry) :
         /\ stack' = p /\ awaits' = b /\ Paired(p, b) /\ AllCurrent(p)
         /\ \A i \in 1..Len(b) : Sound(b[i])
  BY <1>2, <1>4, TailNotes, PushStep
<1> QED
  BY <1>2, <1>5, <1>6, <1>7, StackStep

LEMMA EmptyFits ==
    /\ Paired(<< >>, << >>) /\ AllCurrent(<< >>)
    /\ << >> \in Seq(Frame) /\ << >> \in Seq(Entry)
    /\ \A i \in 1..Len(<< >>) : Sound((<< >>)[i])
<1>1. Len(<< >>) = 0 /\ 1..0 = {} /\ 1..(0 - 1) = {}
  OBVIOUS
<1>2. PICK e : e = << >>
  OBVIOUS
<1>3. PICK n : n = Len(e)
  OBVIOUS
<1>4. n = 0 /\ 1..n = {} /\ 1..(n - 1) = {}
  BY <1>1, <1>2, <1>3
<1>5. Count(e, n) = 0
  BY <1>4, CountZero
<1>6. Nesting(e)
  BY <1>2, <1>3, <1>4 DEF Nesting
<1>7. Paired(e, e) /\ AllCurrent(e) /\ \A i \in 1..Len(e) : Sound(e[i])
  BY <1>3, <1>4, <1>5, <1>6 DEF Paired, AllCurrent
<1>8. e \in Seq(Frame) /\ e \in Seq(Entry)
  BY <1>2
<1> QED
  BY <1>2, <1>7, <1>8

LEMMA EnterLoopStep ==
    ASSUME IInv, EnterLoop
    PROVE  IInv'
<1>1. PICK f : f = LoopFrame(FALSE)
  OBVIOUS
<1>2. /\ f \in Frame /\ f.kind = "loop" /\ f.phase = "queue" /\ f.await = FALSE
      /\ f.fin = FALSE
  BY <1>1 DEF LoopFrame, Frame
<1>3. PICK p : p = << f >>
  OBVIOUS
<1>4. p \in Seq(Frame) /\ Len(p) = 1 /\ p[1] = f /\ \A i \in 1..1 : i = 1
  BY <1>2, <1>3
<1>5. /\ stack = << >> /\ stack' = p
      /\ UNCHANGED <<wire, alive, posted, asked, open, awaits, notes, created,
                     nactive, nreq, nint, hung, left>>
  BY <1>1, <1>3 DEF EnterLoop
<1>6. Nesting(p)
  BY <1>2, <1>4 DEF Nesting
<1>7. Len(awaits) = Count(p, 1)
  <2>1. PICK z : z = Len(stack)
    OBVIOUS
  <2>2. z = 0
    BY <1>5, <2>1
  <2>3. Len(awaits) = Count(stack, 0)
    BY <2>1, <2>2, Types DEF Paired
  <2>4. Count(p, 1) = Count(p, 0)
    BY <1>2, <1>4, CountNext
  <2> QED
    BY <2>3, <2>4, CountZero
<1>8. Paired(p, awaits) /\ AllCurrent(p)
  <2>1. ~Serving(f)
    BY <1>2 DEF Serving
  <2>2. AllCurrent(p)
    BY <1>4, <2>1 DEF AllCurrent, Current
  <2>3. \A i \in 1..Len(p) : Ending(p, awaits, i)
    BY <1>2, <1>4 DEF Ending
  <2> QED
    BY <1>4, <1>6, <1>7, <2>2, <2>3 DEF Paired
<1>9. nactive' \in Int /\ nreq' \in Nat /\ nint' \in Nat /\ left' \subseteq Awaits
      /\ notes' \in Seq(Event) /\ asked' \in [Clients -> Seq(Nat)]
  BY <1>5, Types DEF TypeOK
<1> QED
  BY <1>4, <1>5, <1>8, <1>9, Types, SoundEntries, StackStep

LEMMA InterruptStep ==
    ASSUME IInv, Interrupt
    PROVE  IInv'
<1>1. /\ stack' = << >> /\ awaits' = << >> /\ left' = Registered /\ hung' = FALSE
      /\ nint' = nint + 1
      /\ UNCHANGED <<wire, alive, posted, asked, open, notes, created, nactive,
                     nreq>>
  BY DEF Interrupt
<1>2. Registered \subseteq Awaits
  BY Types DEF Registered, IInv, TInv, Sound
<1>3. nactive' \in Int /\ nreq' \in Nat /\ nint' \in Nat /\ left' \subseteq Awaits
      /\ notes' \in Seq(Event) /\ asked' \in [Clients -> Seq(Nat)]
  BY <1>1, <1>2, Types DEF TypeOK
<1>4. PICK e : e = << >>
  OBVIOUS
<1>5. /\ Paired(e, e) /\ AllCurrent(e) /\ e \in Seq(Frame) /\ e \in Seq(Entry)
      /\ \A i \in 1..Len(e) : Sound(e[i])
  BY <1>4, EmptyFits
<1>6. stack' = e /\ awaits' = e /\ hung' = hung
  BY <1>1, <1>4, Types
<1> QED
  BY <1>1, <1>3, <1>5, <1>6, StackStep

\* select() was right about the channel, and so the read does not block; the
\* loop's other channels are left as they were.
LEMMA ServeStep ==
    ASSUME IInv, NEW c \in Clients, Serve(c)
    PROVE  IInv'
<1>1. /\ stack # << >> /\ Serving(Top(stack)) /\ c \in Top(stack).ready
      /\ open[c] /\ ~hung
      /\ UNCHANGED <<alive, posted, asked, nactive, nreq, nint, left>>
      /\ ServeNothing(c) \/ \E e \in Event : Hears(c, e)
  BY Types, ServeFields
<1>2. PICK n : n = Len(stack)
  OBVIOUS
<1>3. n \in Nat \ {0} /\ n \in 1..n /\ Top(stack) = stack[n]
  BY <1>1, <1>2, Types, SeqFields DEF Top
<1>4. \A d \in stack[n].ready : open[d] => Readable(d)
  BY <1>1, <1>2, <1>3, Types DEF AllCurrent, Current
<1>5. ~ServeNothing(c)
  BY <1>1, <1>3, <1>4 DEF ServeNothing
<1>6. PICK e \in Event : Hears(c, e)
  BY <1>1, <1>5
<1>7. PICK p : p = stack'
  OBVIOUS
<1>8. PICK F : F = awaits'
  OBVIOUS
<1>9. IsFilled(e, F) /\ IsEntered(stack, p, c, Finishes(e))
  BY <1>6, <1>7, <1>8 DEF Hears
<1>10. Paired(p, F)
  BY <1>1, <1>9, Types, EnterPaired DEF IInv
<1>11. AllCurrent(stack)'
  <2> SUFFICES ASSUME NEW i \in 1..Len(p), Serving(p[i]), i = Len(p) \/ ~p[i].nested,
                      NEW d \in p[i].ready, open'[d]
               PROVE  Readable(d)'
    BY <1>7 DEF AllCurrent, Current
  <2>1. /\ Len(p) = n + 1 /\ p[n + 1].kind = "empty"
        /\ p \in Seq(Frame)
        /\ \A k \in 1..n : /\ p[k].nested = (k < n)
                           /\ k = n => p[k].ready = stack[k].ready \ {c}
    BY <1>2, <1>9 DEF IsEntered
  <2>2. i = n
    <3>1. i # n + 1
      BY <2>1 DEF Serving
    <3>2. i \in 1..n /\ i # Len(p)
      BY <1>3, <2>1, <3>1
    <3>3. p[i].nested = (i < n)
      BY <2>1, <3>2
    <3>4. ~(i < n)
      BY <3>2, <3>3, Zenon
    <3> QED
      BY <1>3, <3>2, <3>4
  <2>3. d \in stack[n].ready /\ d # c
    BY <1>3, <2>1, <2>2
  <2>4. d \in Clients
    <3>1. stack[n] \in Frame
      BY <1>2, <1>3, Types, SeqFields
    <3> QED
      BY <2>3, <3>1 DEF Frame
  <2>5. wire'[d] = wire[d] /\ open'[d] = open[d] /\ alive' = alive
    BY <1>1, <1>6, <2>3, <2>4 DEF Hears, IsRead
  <2> QED
    BY <1>4, <2>3, <2>5 DEF Readable
<1>12. \A i \in DOMAIN F : Sound(F[i])
  <2>1. F \in Seq(Entry) /\ Len(F) = Len(awaits)
    BY <1>9 DEF IsFilled
  <2> SUFFICES ASSUME NEW i \in 1..Len(awaits) PROVE Sound(F[i])
    BY <2>1, SeqFields
  <2>2. Sound(awaits[i])
    BY SoundEntries
  <2>3. CASE Takers(e) = {}
    BY <1>9, <2>2, <2>3 DEF IsFilled
  <2>4. CASE Takers(e) # {}
    BY <1>9, <2>2, <2>4 DEF IsFilled, Sound
  <2> QED
    BY <2>3, <2>4
<1>13. TypeOK'
  <2>1. /\ wire' \in [Clients -> Seq(Msgs)] /\ open' \in [Clients -> BOOLEAN]
        /\ created' \in [Clients -> Seq(Event)] /\ notes' \in Seq(Event)
        /\ hung' = hung /\ F \in Seq(Entry) /\ p \in Seq(Frame)
    BY <1>6, <1>9 DEF Hears, IsRead, IsCreated, IsFilled, IsEntered
  <2> QED
    BY <1>1, <1>7, <1>8, <2>1, Types DEF TypeOK, Msgs
<1>14. ~hung'
  BY <1>1, <1>6 DEF Hears
<1> QED
  BY <1>7, <1>8, <1>10, <1>11, <1>12, <1>13, <1>14 DEF IInv, TInv, SInv

-----------------------------------------------------------------------------
(* The steps of the clients.                                               *)

\* A client puts a message on the wire, or none, and may have ended.
Sends(c, m) ==
    /\ c \in Clients /\ m \in Msgs /\ alive[c]
    /\ wire' \in [Clients -> Seq(Msgs)]
    /\ wire' = wire \/ IsPushed(wire[c], wire'[c], m, Msgs)
    /\ \A d \in Clients : d # c => wire'[d] = wire[d]
    /\ alive' \in [Clients -> BOOLEAN]
    /\ \A d \in Clients : ~alive[d] => ~alive'[d]
    /\ posted' \in [Clients -> Nat] /\ asked' \in [Clients -> Seq(Nat)]
    /\ Interpreter

LEMMA WireAppend ==
    ASSUME TypeOK, NEW c \in Clients, NEW m \in Msgs,
           wire' = [wire EXCEPT ![c] = Append(@, m)]
    PROVE  /\ wire' \in [Clients -> Seq(Msgs)]
           /\ IsPushed(wire[c], wire'[c], m, Msgs)
           /\ \A d \in Clients : d # c => wire'[d] = wire[d]
<1>1. wire \in [Clients -> Seq(Msgs)] /\ wire[c] \in Seq(Msgs)
  BY DEF TypeOK, Msgs
<1>2. PICK p : p = Append(wire[c], m)
  OBVIOUS
<1>3. IsPushed(wire[c], p, m, Msgs) /\ p \in Seq(Msgs)
  BY <1>1, <1>2, PushFields DEF IsPushed
<1>4. wire' = [wire EXCEPT ![c] = p]
  BY <1>1, <1>2
<1>5. /\ wire' \in [Clients -> Seq(Msgs)] /\ wire'[c] = p
      /\ \A d \in Clients : d # c => wire'[d] = wire[d]
  BY <1>1, <1>3, <1>4
<1> QED
  BY <1>3, <1>5

LEMMA PostFields ==
    ASSUME TypeOK, NEW c \in Clients, NEW name \in Names, Post(c, name)
    PROVE  /\ Sends(c, Msg(name, posted[c] + 1))
           /\ posted' = [posted EXCEPT ![c] = @ + 1] /\ asked' = asked
<1>1. PICK m : m = Msg(name, posted[c] + 1)
  OBVIOUS
<1>2. /\ alive[c] /\ posted' = [posted EXCEPT ![c] = @ + 1]
      /\ wire' = [wire EXCEPT ![c] = Append(@, m)]
      /\ alive' = alive /\ asked' = asked /\ Interpreter
  BY <1>1 DEF Post
<1>3. m \in Msgs
  BY <1>1 DEF Msg, Msgs, EventName, TypeOK
<1>4. /\ posted' \in [Clients -> Nat] /\ asked' \in [Clients -> Seq(Nat)]
      /\ alive' \in [Clients -> BOOLEAN]
  BY <1>2 DEF TypeOK
<1> QED
  BY <1>1, <1>2, <1>3, <1>4, WireAppend DEF Sends

LEMMA ReplyFields ==
    ASSUME TypeOK, NEW c \in Clients, Reply(c)
    PROVE  /\ Sends(c, Msg("reply", asked[c][1]))
           /\ IsPushed(wire[c], wire'[c], Msg("reply", asked[c][1]), Msgs)
           /\ IsTail(asked[c], asked'[c], Nat)
           /\ \A d \in Clients : d # c => asked'[d] = asked[d]
           /\ posted' = posted
<1>1. PICK m : m = Msg("reply", Head(asked[c]))
  OBVIOUS
<1>2. /\ alive[c] /\ asked[c] # << >>
      /\ wire' = [wire EXCEPT ![c] = Append(@, m)]
      /\ asked' = [asked EXCEPT ![c] = Tail(@)]
      /\ alive' = alive /\ posted' = posted /\ Interpreter
  BY <1>1 DEF Reply
<1>3. asked \in [Clients -> Seq(Nat)] /\ asked[c] \in Seq(Nat)
  BY DEF TypeOK
<1>4. PICK p : p = Tail(asked[c])
  OBVIOUS
<1>5. IsTail(asked[c], p, Nat)
  BY <1>2, <1>3, <1>4, TailFields
<1>6. Head(asked[c]) = asked[c][1] /\ asked[c][1] \in Nat /\ p \in Seq(Nat)
  BY <1>5 DEF IsTail
<1>7. /\ asked' \in [Clients -> Seq(Nat)] /\ asked'[c] = p
      /\ \A d \in Clients : d # c => asked'[d] = asked[d]
  BY <1>2, <1>3, <1>4, <1>6
<1>8. m \in Msgs /\ m = Msg("reply", asked[c][1])
  BY <1>1, <1>6 DEF Msg, Msgs, EventName
<1>9. posted' \in [Clients -> Nat] /\ alive' \in [Clients -> BOOLEAN]
  BY <1>2 DEF TypeOK
<1> QED
  BY <1>2, <1>5, <1>7, <1>8, <1>9, WireAppend DEF Sends

LEMMA EndFields ==
    ASSUME TypeOK, NEW c \in Clients, Finish(c) \/ Crash(c)
    PROVE  Sends(c, Msg("done", 0)) /\ posted' = posted /\ asked' = asked
<1>1. PICK m : m = Msg("done", 0)
  OBVIOUS
<1>2. m \in Msgs
  BY <1>1 DEF Msg, Msgs, EventName, EndNames
<1>3. /\ alive[c] /\ alive' = [alive EXCEPT ![c] = FALSE]
      /\ posted' = posted /\ asked' = asked /\ Interpreter
      /\ wire' = wire \/ wire' = [wire EXCEPT ![c] = Append(@, m)]
  BY <1>1 DEF Finish, Crash
<1>4. /\ alive' \in [Clients -> BOOLEAN] /\ wire \in [Clients -> Seq(Msgs)]
      /\ \A d \in Clients : ~alive[d] => ~alive'[d]
      /\ posted' \in [Clients -> Nat] /\ asked' \in [Clients -> Seq(Nat)]
  BY <1>3 DEF TypeOK, Msgs
<1> QED
  BY <1>1, <1>2, <1>3, <1>4, WireAppend DEF Sends

\* What a client does takes nothing from the wire.
LEMMA ClientStep ==
    ASSUME IInv, NEW c, NEW m, Sends(c, m)
    PROVE  IInv'
<1>1. UNCHANGED <<open, awaits, left, stack, notes, created, nactive, nreq,
                  nint, hung>>
  BY DEF Sends, Interpreter
<1>2. TypeOK'
  BY <1>1, Types DEF TypeOK, Sends, Msgs
<1>3. ASSUME NEW d \in Clients, Readable(d) PROVE Readable(d)'
  <2>1. CASE ~alive[d]
    BY <2>1 DEF Readable, Sends
  <2>2. CASE wire[d] # << >>
    <3>1. CASE d = c /\ IsPushed(wire[c], wire'[c], m, Msgs)
      <4>1. wire'[c] \in Seq(Msgs) /\ Len(wire'[c]) > 0
        BY <3>1 DEF IsPushed
      <4>2. wire'[d] # << >>
        BY <3>1, <4>1, SeqFields
      <4> QED
        BY <4>2 DEF Readable
    <3>2. CASE d # c \/ wire' = wire
      BY <2>2, <3>2 DEF Readable, Sends
    <3> QED
      BY <3>1, <3>2 DEF Sends
  <2> QED
    BY <1>3, <2>1, <2>2 DEF Readable
<1>4. AllCurrent(stack)'
  <2> SUFFICES ASSUME NEW i \in 1..Len(stack), Serving(stack[i]),
                      i = Len(stack) \/ ~stack[i].nested,
                      NEW d \in stack[i].ready, open[d]
               PROVE  Readable(d)'
    BY <1>1 DEF AllCurrent, Current
  <2>1. stack[i] \in Frame
    BY Types, SeqFields
  <2>2. d \in Clients
    BY <2>1 DEF Frame
  <2>3. Readable(d)
    BY Types DEF AllCurrent, Current
  <2> QED
    BY <1>3, <2>2, <2>3
<1>5. Paired(stack', awaits') /\ ~hung' /\ \A i \in DOMAIN awaits' : Sound(awaits'[i])
  BY <1>1 DEF IInv, TInv, SInv
<1> QED
  BY <1>2, <1>4, <1>5 DEF IInv, TInv, SInv

LEMMA InitIInv ==
    ASSUME Init
    PROVE  IInv
<1>1. PICK e : e = << >>
  OBVIOUS
<1>2. /\ Paired(e, e) /\ AllCurrent(e) /\ e \in Seq(Frame) /\ e \in Seq(Entry)
      /\ \A i \in 1..Len(e) : Sound(e[i])
  BY <1>1, EmptyFits
<1>3. awaits = e /\ stack = e /\ hung = FALSE
  BY <1>1 DEF Init
<1>4. Cardinality(Clients) \in Nat
  BY ClientsAssumption, FS_CardinalityType
<1>5. TypeOK
  <2>1. /\ e \in Seq(Msgs) /\ e \in Seq(Nat) /\ e \in Seq(Event)
    BY <1>1
  <2>2. /\ wire = [c \in Clients |-> e] /\ asked = [c \in Clients |-> e]
        /\ created = [c \in Clients |-> e] /\ notes = e
    BY <1>1 DEF Init
  <2>3. /\ wire \in [Clients -> Seq(Msgs)] /\ asked \in [Clients -> Seq(Nat)]
        /\ created \in [Clients -> Seq(Event)] /\ notes \in Seq(Event)
    BY <2>1, <2>2
  <2>4. /\ alive \in [Clients -> BOOLEAN] /\ posted \in [Clients -> Nat]
        /\ open \in [Clients -> BOOLEAN] /\ left \subseteq Awaits
        /\ nreq \in Nat /\ nint \in Nat /\ hung \in BOOLEAN
    BY DEF Init
  <2>5. nactive \in Int
    <3>1. nactive = Cardinality(Clients)
      BY DEF Init
    <3> QED
      BY <1>4, <3>1
  <2> QED
    BY <1>2, <1>3, <2>3, <2>4, <2>5 DEF TypeOK, Msgs
<1>6. \A i \in DOMAIN awaits : Sound(awaits[i])
  BY <1>2, <1>3, SeqFields
<1> QED
  BY <1>2, <1>3, <1>5, <1>6 DEF IInv, TInv, SInv

LEMMA StepIInv ==
    ASSUME IInv, [Next]_vars
    PROVE  IInv'
<1>1. CASE Loop
  BY <1>1, SelectStep, AwaitOverStep, PassOverStep, ServedStep, RunBodyStep
     DEF Loop
<1>2. CASE EnterLoop
  BY <1>2, EnterLoopStep
<1>3. CASE Interrupt
  BY <1>3, InterruptStep
<1>4. ASSUME NEW a \in Awaits, StartAwait(a) PROVE IInv'
  BY <1>4, StartAwaitStep
<1>5. ASSUME NEW c \in Clients, Serve(c) \/ StartRequest(c) PROVE IInv'
  BY <1>5, ServeStep, StartRequestStep
<1>6. ASSUME NEW c \in Clients, Reply(c) \/ Finish(c) \/ Crash(c) PROVE IInv'
  BY <1>6, Types, ReplyFields, EndFields, ClientStep
<1>7. ASSUME NEW c \in Clients, NEW name \in Names, Post(c, name) PROVE IInv'
  BY <1>7, Types, PostFields, ClientStep
<1>8. CASE UNCHANGED vars
  <2>1. UNCHANGED <<wire, alive, posted, open, created, hung>>
        /\ UNCHANGED <<stack, awaits, asked, nactive, nreq, nint, left, notes>>
    BY <1>8 DEF vars
  <2>2. nactive' \in Int /\ nreq' \in Nat /\ nint' \in Nat /\ left' \subseteq Awaits
        /\ notes' \in Seq(Event) /\ asked' \in [Clients -> Seq(Nat)]
    BY <2>1, Types DEF TypeOK
  <2> QED
    BY <2>1, <2>2, Types, SoundEntries, StackStep
<1> QED
  BY <1>1, <1>2, <1>3, <1>4, <1>5, <1>6, <1>7, <1>8 DEF Next

LEMMA Inductive ==
    Spec => []IInv
<1>1. Init => IInv
  BY InitIInv
<1>2. IInv /\ [Next]_vars => IInv'
  BY StepIInv
<1> QED
  BY <1>1, <1>2, PTL DEF Spec

\* The interpreter's stack, await_list and notification_queue, and what is
\* on the wires, always have their types.
THEOREM TypeCorrect == Spec => []TypeOK
<1>1. IInv => TypeOK
  BY Types
<1> QED
  BY <1>1, Inductive, PTL

\* EmptyTaskChannel() reads with force_read, and never from a channel that a
\* recursive DoSelection() has emptied: a loop whose masks are out of date
\* gives up its pass before it reads again.
THEOREM NeverBlocks == Spec => []NeverBlocksInRead
<1>1. IInv => NeverBlocksInRead
  BY DEF IInv, SInv, NeverBlocksInRead
<1> QED
  BY <1>1, Inductive, PTL

\* Await() and AwaitReply() push an entry and call EventLoop(); however the
\* loops come to return, the entry goes with its own loop.
THEOREM LoopsMatch == Spec => []AwaitsMatchLoops
<1>1. IInv => AwaitsMatchLoops
  <2> SUFFICES ASSUME IInv PROVE AwaitsMatchLoops
    OBVIOUS
  <2>1. Len(awaits) = Count(stack, Len(stack)) /\ DOMAIN stack = 1..Len(stack)
    BY Types, SeqFields DEF Paired
  <2> QED
    BY <2>1 DEF AwaitsMatchLoops, Count
<1> QED
  BY <1>1, Inductive, PTL

-----------------------------------------------------------------------------
(* What becomes of the awaits.                                             *)

\* The active await is over.
Returned == IsPopped(awaits, awaits', Entry) /\ Over(awaits[Len(awaits)])

LEMMA ServedAwaits ==
    ASSUME IInv, Served
    PROVE  awaits' = awaits \/ Returned
<1>1. PICK q : q = Pop(stack)
  OBVIOUS
<1>2. /\ stack # << >> /\ Top(stack).kind = "empty"
      /\ IF Top(stack).fin THEN LeaveLoop(q)
         ELSE stack' = ServedBelow(q) /\ UNCHANGED awaits
  BY <1>1, Zenon DEF Served
<1>3. CASE Top(stack).fin /\ Top(q).await
  <2>1. awaits' = Pop(awaits)
    BY <1>2, <1>3 DEF LeaveLoop
  <2>2. Len(stack) \in 1..Len(stack) /\ Top(stack) = stack[Len(stack)]
    BY <1>2, Types, TopFields
  <2>3. Ending(stack, awaits, Len(stack)) /\ Len(awaits) = Count(stack, Len(stack))
    BY <2>2, Types DEF Paired
  <2>4. Len(awaits) \in 1..Len(awaits) /\ Over(awaits[Len(awaits)])
    BY <1>3, <2>2, <2>3 DEF Ending
  <2>5. awaits # << >>
    BY <2>4, Types, SeqFields
  <2> QED
    BY <2>1, <2>4, <2>5, Types, PopFields DEF Returned
<1>4. CASE ~(Top(stack).fin /\ Top(q).await)
  BY <1>2, <1>4 DEF LeaveLoop
<1> QED
  BY <1>3, <1>4

LEMMA AwaitOverAwaits ==
    ASSUME IInv, AwaitOver
    PROVE  awaits' = awaits \/ Returned
<1>1. /\ awaits # << >> /\ Top(awaits).filled # NoEvent
      /\ awaits' = IF Top(stack).await THEN Pop(awaits) ELSE awaits
  BY DEF AwaitOver, AwaitDone, LeaveLoop
<1>2. Top(awaits) = awaits[Len(awaits)]
  BY DEF Top
<1>3. Over(awaits[Len(awaits)])
  BY <1>1, <1>2 DEF Over
<1>4. awaits' = awaits \/ awaits' = Pop(awaits)
  BY <1>1
<1> QED
  BY <1>1, <1>3, <1>4, Types, PopFields DEF Returned

LEMMA NewEntry ==
    ASSUME IInv, NEW x \in Entry, awaits' = Append(awaits, x)
    PROVE  IsPushed(awaits, awaits', x, Entry)
  BY Types, PushFields

LEMMA AwaitsStep ==
    ASSUME IInv, [Next]_vars
    PROVE  \/ awaits' = awaits
           \/ Returned
           \/ awaits' = << >>
           \/ \E x \in Entry : /\ x.filled = NoEvent
                               /\ IsPushed(awaits, awaits', x, Entry)
           \/ \E c \in Clients : \E e \in Event : Hears(c, e)
<1>1. CASE Loop
  BY <1>1, ServedAwaits, AwaitOverAwaits DEF Loop, Select, PassOver, RunBody
<1>2. CASE EnterLoop
  BY <1>2 DEF EnterLoop
<1>3. CASE Interrupt
  BY <1>3 DEF Interrupt
<1>4. ASSUME NEW a \in Awaits, StartAwait(a)
      PROVE  \E x \in Entry : /\ x.filled = NoEvent
                              /\ IsPushed(awaits, awaits', x, Entry)
  <2>1. PICK x : x = StmtEntry(a)
    OBVIOUS
  <2>2. x \in Entry /\ x.filled = NoEvent
    BY <2>1 DEF StmtEntry, Entry
  <2>3. awaits' = Append(awaits, x)
    BY <1>4, <2>1 DEF StartAwait
  <2> QED
    BY <2>2, <2>3, NewEntry
<1>5. ASSUME NEW c \in Clients, StartRequest(c)
      PROVE  \E x \in Entry : /\ x.filled = NoEvent
                              /\ IsPushed(awaits, awaits', x, Entry)
  <2>1. PICK x : x = ReplyEntry(c, nreq + 1)
    OBVIOUS
  <2>2. x \in Entry /\ x.filled = NoEvent
    BY <2>1, Types DEF ReplyEntry, Entry, TypeOK
  <2>3. awaits' = Append(awaits, x)
    BY <1>5, <2>1 DEF StartRequest
  <2> QED
    BY <2>2, <2>3, NewEntry
<1>6. ASSUME NEW c \in Clients, Serve(c)
      PROVE  awaits' = awaits \/ \E e \in Event : Hears(c, e)
  BY <1>6, Types, ServeFields DEF ServeNothing
<1>7. ASSUME NEW c \in Clients, Reply(c) \/ Finish(c) \/ Crash(c) PROVE awaits' = awaits
  BY <1>7 DEF Reply, Finish, Crash, Interpreter
<1>8. ASSUME NEW c \in Clients, NEW name \in Names, Post(c, name) PROVE awaits' = awaits
  BY <1>8 DEF Post, Interpreter
<1>9. CASE UNCHANGED vars
  BY <1>9 DEF vars
<1> QED
  BY <1>1, <1>2, <1>3, <1>4, <1>5, <1>6, <1>7, <1>8, <1>9 DEF Next

\* a would take e, were it not filled.
Wants(a, e) ==
    IsReplyFor(a, e) \/ (a.kind = "stmt" /\ DsgOf(e) \in a.form.want)

FirstIn(s) ==
    \A i, j \in 1..Len(s) :
        i < j /\ s[j].filled # NoEvent /\ Wants(s[i], s[j].filled)
            => s[i].filled # NoEvent

LEMMA FirstMeaning ==
    ASSUME IInv
    PROVE  FirstAwaitFirst <=> FirstIn(awaits)
<1>1. DOMAIN awaits = 1..Len(awaits)
  BY Types, SeqFields
<1> QED
  BY <1>1 DEF FirstAwaitFirst, FirstIn, Wants

\* An await that is not filled and wants e is among the takers of e.
LEMMA WantsTakes ==
    ASSUME IInv, NEW i \in 1..Len(awaits), NEW e, Wants(awaits[i], e),
           awaits[i].filled = NoEvent
    PROVE  i \in Takers(e)
<1>1. i \in DOMAIN awaits
  BY Types, SeqFields
<1>2. CASE IsReplyFor(awaits[i], e)
  BY <1>1, <1>2 DEF Takers, Accepts
<1>3. CASE awaits[i].kind = "stmt" /\ DsgOf(e) \in awaits[i].form.want
  <2>1. awaits[i].form \in Registered
    BY <1>1, <1>3 DEF Registered
  <2>2. HasInterest(awaits[i], e)
    BY <1>3, <2>1 DEF HasInterest
  <2> QED
    BY <1>1, <1>3, <2>2 DEF Takers, Accepts
<1> QED
  BY <1>2, <1>3 DEF Wants

LEMMA FirstStep ==
    ASSUME IInv, [Next]_vars, FirstIn(awaits)
    PROVE  FirstIn(awaits')
<1>1. CASE awaits' = awaits
  BY <1>1
<1>2. CASE Returned
  <2>1. PICK n : n = Len(awaits)
    OBVIOUS
  <2>2. /\ n \in Nat /\ Len(awaits') = n - 1
        /\ \A i \in 1..Len(awaits') : awaits'[i] = awaits[i] /\ i \in 1..n
    BY <1>2, <2>1 DEF Returned, IsPopped
  <2>3. \A i, j \in 1..n :
            i < j /\ awaits[j].filled # NoEvent /\ Wants(awaits[i], awaits[j].filled)
                => awaits[i].filled # NoEvent
    BY <2>1 DEF FirstIn
  <2> QED
    BY <2>2, <2>3 DEF FirstIn
<1>3. CASE awaits' = << >>
  BY <1>3 DEF FirstIn
<1>4. ASSUME NEW x \in Entry, x.filled = NoEvent,
             IsPushed(awaits, awaits', x, Entry)
      PROVE  FirstIn(awaits')
  <2> SUFFICES ASSUME NEW i \in 1..Len(awaits'), NEW j \in 1..Len(awaits'), i < j,
                      awaits'[j].filled # NoEvent,
                      Wants(awaits'[i], awaits'[j].filled)
               PROVE  awaits'[i].filled # NoEvent
    BY DEF FirstIn
  <2>1. j \in 1..Len(awaits) /\ i \in 1..Len(awaits)
    BY <1>4 DEF IsPushed
  <2>2. awaits'[i] = awaits[i] /\ awaits'[j] = awaits[j]
    BY <1>4, <2>1 DEF IsPushed
  <2> QED
    BY <2>1, <2>2 DEF FirstIn
<1>5. ASSUME NEW c \in Clients, NEW e \in Event, Hears(c, e)
      PROVE  FirstIn(awaits')
  <2>1. PICK F : F = awaits'
    OBVIOUS
  <2>2. IsFilled(e, F)
    BY <1>5, <2>1 DEF Hears
  <2>3. CASE Takers(e) = {}
    BY <2>1, <2>2, <2>3 DEF IsFilled
  <2>4. CASE Takers(e) # {}
    <3>1. PICK k \in Takers(e) :
              /\ k \in 1..Len(awaits) /\ \A j \in Takers(e) : k <= j
              /\ F[k].kind = awaits[k].kind /\ F[k].form = awaits[k].form
              /\ F[k].client = awaits[k].client /\ F[k].filled = e
              /\ \A i \in 1..Len(awaits) : i # k => F[i] = awaits[i]
      BY <2>2, <2>4 DEF IsFilled
    <3>2. e # NoEvent /\ Len(F) = Len(awaits)
      BY <2>2, NoEventAssumption DEF IsFilled
    <3> SUFFICES ASSUME NEW i \in 1..Len(awaits), NEW j \in 1..Len(awaits), i < j,
                        F[j].filled # NoEvent, Wants(F[i], F[j].filled),
                        F[i].filled = NoEvent
                 PROVE  FALSE
      BY <2>1, <3>2 DEF FirstIn
    <3>3. i # k /\ F[i] = awaits[i]
      BY <3>1, <3>2
    <3>4. CASE j = k
      <4>1. Wants(awaits[i], e)
        BY <3>1, <3>3, <3>4
      <4>2. i \in Takers(e)
        BY <3>3, <4>1, WantsTakes
      <4> QED
        BY <3>1, <3>4, <4>2
    <3>5. CASE j # k
      BY <3>1, <3>3, <3>5 DEF FirstIn
    <3> QED
      BY <3>4, <3>5
  <2> QED
    BY <2>3, <2>4
<1> QED
  BY <1>1, <1>2, <1>3, <1>4, <1>5, AwaitsStep

\* Sequencer::NewEvent() looks through await_list from its oldest entry, so
\* of two awaits that want an event the older one has it first, whatever
\* other loops, bodies and interrupts come between.
THEOREM FirstServed == Spec => []FirstAwaitFirst
<1>1. Init => FirstIn(awaits)
  BY DEF Init, FirstIn
<1>2. IInv /\ FirstIn(awaits) /\ [Next]_vars => FirstIn(awaits)'
  BY FirstStep
<1>3. IInv /\ FirstIn(awaits) => FirstAwaitFirst
  BY FirstMeaning
<1> QED
  BY <1>1, <1>2, <1>3, Inductive, PTL DEF Spec

\* An await that ends in the middle of a pass has its event, where no await
\* statement has an except clause or is executed again with other agents:
\* with either, Agent::HasRegisteredInterest() may end an await that has none.
THEOREM AwaitsGetEvents ==
    ASSUME Simple
    PROVE  Spec => AwaitGetsEvent
<1>1. IInv /\ [Next]_vars =>
        [Served /\ Len(awaits') < Len(awaits) => Top(awaits).filled # NoEvent]_vars
  <2> SUFFICES ASSUME IInv, Served, Len(awaits') < Len(awaits)
               PROVE  Top(awaits).filled # NoEvent
    OBVIOUS
  <2>1. awaits' # awaits
    BY Types, SeqFields
  <2>2. Over(awaits[Len(awaits)])
    BY <2>1, ServedAwaits DEF Returned
  <2> QED
    BY <2>2 DEF Over, Top
<1> QED
  BY <1>1, Inductive, PTL DEF Spec, AwaitGetsEvent

-----------------------------------------------------------------------------
(* The order of a client's events.                                         *)

\* A step takes nothing from a wire and puts nothing on it, or hears an
\* event, or puts a message of a client on its wire.
LEMMA WireStep ==
    ASSUME IInv, [Next]_vars
    PROVE  \/ UNCHANGED <<wire, created, posted>>
           \/ /\ UNCHANGED <<posted, asked, nreq, nint>>
              /\ \E c \in Clients : \E e \in Event : Hears(c, e)
           \/ \E c \in Clients : \E name \in Names : Post(c, name)
           \/ \E c \in Clients : Reply(c) \/ Finish(c) \/ Crash(c)
<1>1. CASE Loop
  BY <1>1 DEF Loop, Select, AwaitOver, PassOver, Served, RunBody
<1>2. CASE EnterLoop \/ Interrupt
  BY <1>2 DEF EnterLoop, Interrupt
<1>3. ASSUME NEW a \in Awaits, StartAwait(a) PROVE UNCHANGED <<wire, created, posted>>
  BY <1>3 DEF StartAwait
<1>4. ASSUME NEW c \in Clients, StartRequest(c)
      PROVE  UNCHANGED <<wire, created, posted>>
  BY <1>4 DEF StartRequest
<1>5. ASSUME NEW c \in Clients, Serve(c)
      PROVE  \/ UNCHANGED <<wire, created, posted>>
             \/ /\ UNCHANGED <<posted, asked, nreq, nint>>
                /\ \E e \in Event : Hears(c, e)
  BY <1>5, Types, ServeFields DEF ServeNothing
<1>6. CASE UNCHANGED vars
  BY <1>6 DEF vars
<1> QED
  BY <1>1, <1>2, <1>3, <1>4, <1>5, <1>6 DEF Next

\* What was created comes before what is on the wire, and n bounds both.
InOrder(s, w, n) ==
    /\ Rising(s) /\ Rising(w)
    /\ \A i \in DOMAIN s : s[i].name \in Names =>
          /\ s[i].n <= n
          /\ \A j \in DOMAIN w : w[j].name \in Names => s[i].n < w[j].n
    /\ \A j \in DOMAIN w : w[j].name \in Names => w[j].n <= n

CInv == \A c \in Clients : InOrder(created[c], wire[c], posted[c])


\* A message posted, or one that is no event of the client's own.
LEMMA OrderSent ==
    ASSUME NEW s \in Seq(Event), NEW w \in Seq(Msgs), NEW v, NEW m \in Msgs,
           NEW n \in Nat, NEW k \in Nat, n <= k, InOrder(s, w, n),
           v = w \/ IsPushed(w, v, m, Msgs),
           m.name \in Names => m.n = k /\ n < k
    PROVE  InOrder(s, v, k)
<1>1. /\ DOMAIN s = 1..Len(s) /\ DOMAIN w = 1..Len(w) /\ Len(s) \in Nat /\ Len(w) \in Nat
      /\ \A i \in 1..Len(s) : s[i].n \in Nat
      /\ \A i \in 1..Len(w) : w[i].n \in Nat
  <2>1. /\ \A i \in 1..Len(s) : s[i] \in Event
        /\ \A i \in 1..Len(w) : w[i] \in Msgs
    BY SeqFields
  <2> QED
    BY <2>1, SeqFields DEF Event, Msgs
<1>2. CASE v = w
  BY <1>1, <1>2 DEF InOrder
<1>3. CASE IsPushed(w, v, m, Msgs)
  <2>1. /\ Len(v) = Len(w) + 1 /\ DOMAIN v = 1..Len(v) /\ v[Len(w) + 1] = m
        /\ \A i \in 1..Len(w) : v[i] = w[i]
    BY <1>3 DEF IsPushed
  <2>2. m.n \in Nat
    BY DEF Msgs
  <2>3. \A j \in DOMAIN v : v[j].name \in Names => v[j].n <= k
    BY <1>1, <2>1, <2>2 DEF InOrder
  <2>4. ASSUME NEW j \in 1..Len(v) PROVE j \in 1..Len(w) \/ j = Len(w) + 1
    BY <1>1, <2>1
  <2>5. Rising(v)
    <3> SUFFICES ASSUME NEW i \in 1..Len(v), NEW j \in 1..Len(v), i < j,
                        v[i].name \in Names, v[j].name \in Names
                 PROVE  v[i].n < v[j].n
      BY <2>1 DEF Rising
    <3>1. i \in 1..Len(w) /\ v[i] = w[i]
      BY <1>1, <2>1
    <3>2. CASE j \in 1..Len(w)
      BY <1>1, <2>1, <3>1, <3>2 DEF InOrder, Rising
    <3>3. CASE j = Len(w) + 1
      BY <1>1, <2>1, <2>2, <3>1, <3>3 DEF InOrder
    <3> QED
      BY <2>4, <3>2, <3>3
  <2>6. ASSUME NEW i \in 1..Len(s), s[i].name \in Names
        PROVE  /\ s[i].n <= k
               /\ \A j \in DOMAIN v : v[j].name \in Names => s[i].n < v[j].n
    <3>1. s[i].n <= n /\ s[i].n \in Nat
      BY <1>1, <2>6 DEF InOrder
    <3>2. ASSUME NEW j \in DOMAIN v, v[j].name \in Names PROVE s[i].n < v[j].n
      <4>1. CASE j \in 1..Len(w)
        BY <1>1, <2>1, <2>6, <3>2, <4>1 DEF InOrder
      <4>2. CASE j = Len(w) + 1
        BY <2>1, <2>2, <3>1, <3>2, <4>2
      <4> QED
        BY <1>1, <2>1, <4>1, <4>2
    <3> QED
      BY <3>1, <3>2
  <2> QED
    BY <1>1, <2>3, <2>5, <2>6 DEF InOrder
<1> QED
  BY <1>2, <1>3

\* An event heard is created, or not, and is on the wire no more.
LEMMA OrderHeard ==
    ASSUME NEW s \in Seq(Event), NEW w \in Seq(Msgs), NEW n \in Nat, InOrder(s, w, n),
           NEW e \in Event, NEW t, NEW v,
           t = s \/ IsPushed(s, t, e, Event),
           \/ IsTail(w, v, Msgs) /\ e.name = w[1].name /\ e.n = w[1].n
           \/ v = w /\ e.name \notin Names
    PROVE  InOrder(t, v, n)
<1>1. /\ DOMAIN s = 1..Len(s) /\ DOMAIN w = 1..Len(w) /\ Len(s) \in Nat /\ Len(w) \in Nat
      /\ \A i \in 1..Len(s) : s[i].n \in Nat
      /\ \A i \in 1..Len(w) : w[i].n \in Nat
  <2>1. /\ \A i \in 1..Len(s) : s[i] \in Event
        /\ \A i \in 1..Len(w) : w[i] \in Msgs
    BY SeqFields
  <2> QED
    BY <2>1, SeqFields DEF Event, Msgs
<1>2. PICK d \in {0, 1} :
         /\ Len(v) = Len(w) - d /\ DOMAIN v = 1..Len(v) /\ Len(v) \in Nat
         /\ \A i \in 1..Len(v) : v[i] = w[i + d] /\ i + d \in 1..Len(w)
         /\ e.name \in Names => d = 1 /\ 1 \in 1..Len(w) /\ e.name = w[1].name /\ e.n = w[1].n
  <2>1. CASE IsTail(w, v, Msgs) /\ e.name = w[1].name /\ e.n = w[1].n
    <3>1. /\ Len(v) = Len(w) - 1 /\ DOMAIN v = 1..Len(v) /\ Len(v) \in Nat
          /\ \A i \in 1..Len(v) : v[i] = w[i + 1] /\ i + 1 \in 1..Len(w)
          /\ 1 \in 1..Len(w)
      BY <2>1 DEF IsTail
    <3> QED
      BY <2>1, <3>1
  <2>2. CASE v = w /\ e.name \notin Names
    <3>1. /\ Len(v) = Len(w) - 0 /\ DOMAIN v = 1..Len(v) /\ Len(v) \in Nat
          /\ \A i \in 1..Len(v) : v[i] = w[i + 0] /\ i + 0 \in 1..Len(w)
      BY <1>1, <2>2
    <3> QED
      BY <2>2, <3>1
  <2> QED
    BY <2>1, <2>2
<1>3. /\ \A i, j \in 1..Len(w) :
            i < j /\ w[i].name \in Names /\ w[j].name \in Names => w[i].n < w[j].n
      /\ \A i, j \in 1..Len(s) :
            i < j /\ s[i].name \in Names /\ s[j].name \in Names => s[i].n < s[j].n
      /\ \A i \in 1..Len(s) : \A j \in 1..Len(w) :
            s[i].name \in Names /\ w[j].name \in Names => s[i].n < w[j].n
      /\ \A i \in 1..Len(s) : s[i].name \in Names => s[i].n <= n
      /\ \A i \in 1..Len(w) : w[i].name \in Names => w[i].n <= n
  BY <1>1 DEF InOrder, Rising
<1>4. Rising(v)
  <2> SUFFICES ASSUME NEW i \in 1..Len(v), NEW j \in 1..Len(v), i < j,
                      v[i].name \in Names, v[j].name \in Names
               PROVE  v[i].n < v[j].n
    BY <1>2 DEF Rising
  <2>1. i + d < j + d
    BY <1>2
  <2> QED
    BY <1>2, <1>3, <2>1
<1>5. \A j \in 1..Len(v) : v[j].name \in Names => v[j].n <= n
  BY <1>2, <1>3
<1>6. \A i \in 1..Len(s) : \A j \in 1..Len(v) :
         s[i].name \in Names /\ v[j].name \in Names => s[i].n < v[j].n
  BY <1>2, <1>3
<1>7. CASE t = s
  BY <1>1, <1>2, <1>3, <1>4, <1>5, <1>6, <1>7 DEF InOrder, Rising
<1>8. CASE IsPushed(s, t, e, Event)
  <2>1. /\ Len(t) = Len(s) + 1 /\ DOMAIN t = 1..Len(t) /\ t[Len(s) + 1] = e
        /\ \A i \in 1..Len(s) : t[i] = s[i]
    BY <1>8 DEF IsPushed
  <2>2. ASSUME NEW i \in 1..Len(t) PROVE i \in 1..Len(s) \/ i = Len(s) + 1
    BY <1>1, <2>1
  <2>3. Rising(t)
    <3> SUFFICES ASSUME NEW i \in 1..Len(t), NEW j \in 1..Len(t), i < j,
                        t[i].name \in Names, t[j].name \in Names
                 PROVE  t[i].n < t[j].n
      BY <2>1 DEF Rising
    <3>1. i \in 1..Len(s) /\ t[i] = s[i]
      BY <1>1, <2>1
    <3>2. CASE j \in 1..Len(s)
      BY <1>3, <2>1, <3>1, <3>2
    <3>3. CASE j = Len(s) + 1
      BY <1>2, <1>3, <2>1, <3>1, <3>3
    <3> QED
      BY <2>2, <3>2, <3>3
  <2>4. ASSUME NEW i \in 1..Len(t), t[i].name \in Names
        PROVE  /\ t[i].n <= n
               /\ \A j \in 1..Len(v) : v[j].name \in Names => t[i].n < v[j].n
    <3>1. CASE i \in 1..Len(s)
      BY <1>3, <1>6, <2>1, <2>4, <3>1
    <3>2. CASE i = Len(s) + 1
      <4>1. t[i] = e /\ d = 1 /\ 1 \in 1..Len(w) /\ w[1].name \in Names /\ e.n = w[1].n
        BY <1>2, <2>1, <2>4, <3>2
      <4>2. ASSUME NEW j \in 1..Len(v), v[j].name \in Names PROVE e.n < v[j].n
        <5>1. v[j] = w[j + 1] /\ j + 1 \in 1..Len(w) /\ 1 < j + 1
          BY <1>2, <4>1
        <5> QED
          BY <1>3, <4>1, <4>2, <5>1
      <4> QED
        BY <1>3, <4>1, <4>2
    <3> QED
      BY <2>2, <3>1, <3>2
  <2> QED
    BY <1>2, <1>4, <1>5, <2>1, <2>3, <2>4 DEF InOrder
<1> QED
  BY <1>7, <1>8

LEMMA OrderStep ==
    ASSUME IInv, CInv, [Next]_vars
    PROVE  CInv'
<1>1. /\ created \in [Clients -> Seq(Event)] /\ wire \in [Clients -> Seq(Msgs)]
      /\ posted \in [Clients -> Nat]
      /\ \A d \in Clients : InOrder(created[d], wire[d], posted[d])
  BY Types DEF TypeOK, Msgs, CInv
<1>2. CASE UNCHANGED <<wire, created, posted>>
  BY <1>2 DEF CInv
<1>3. ASSUME NEW c \in Clients, NEW e \in Event, Hears(c, e), UNCHANGED posted
      PROVE  CInv'
  <2>1. IsRead(c, e) /\ IsCreated(c, e)
    BY <1>3 DEF Hears
  <2>2. "fail" \notin Names
    BY NamesAssumption DEF EndNames
  <2>3. InOrder(created'[c], wire'[c], posted[c])
    <3>1. created'[c] = created[c] \/ IsPushed(created[c], created'[c], e, Event)
      BY <2>1 DEF IsCreated
    <3>2. \/ IsTail(wire[c], wire'[c], Msgs) /\ e.name = wire[c][1].name /\ e.n = wire[c][1].n
          \/ wire'[c] = wire[c] /\ e.name \notin Names
      BY <2>1, <2>2 DEF IsRead
    <3> QED
      BY <1>1, <3>1, <3>2, OrderHeard
  <2>4. \A d \in Clients : d # c => created'[d] = created[d] /\ wire'[d] = wire[d]
    BY <2>1 DEF IsRead, IsCreated
  <2> QED
    BY <1>1, <1>3, <2>3, <2>4 DEF CInv
<1>4. ASSUME NEW c \in Clients, NEW m, Sends(c, m), NEW k \in Nat, posted[c] <= k,
             posted'[c] = k, \A d \in Clients : d # c => posted'[d] = posted[d],
             m.name \in Names => m.n = k /\ posted[c] < k
      PROVE  CInv'
  <2>1. /\ m \in Msgs /\ created' = created
        /\ wire'[c] = wire[c] \/ IsPushed(wire[c], wire'[c], m, Msgs)
        /\ \A d \in Clients : d # c => wire'[d] = wire[d]
    BY <1>4 DEF Sends, Interpreter
  <2>2. InOrder(created[c], wire'[c], k)
    BY <1>1, <1>4, <2>1, OrderSent
  <2> QED
    BY <1>1, <1>4, <2>1, <2>2 DEF CInv
<1>5. ASSUME NEW c \in Clients, NEW name \in Names, Post(c, name) PROVE CInv'
  <2>1. PICK m : m = Msg(name, posted[c] + 1)
    OBVIOUS
  <2>2. PICK k : k = posted[c] + 1
    OBVIOUS
  <2>3. Sends(c, m) /\ posted' = [posted EXCEPT ![c] = @ + 1]
    BY <1>5, <2>1, Types, PostFields
  <2>4. m.name = name /\ m.n = k
    BY <2>1, <2>2 DEF Msg
  <2>5. /\ posted'[c] = k /\ k \in Nat /\ posted[c] <= k /\ posted[c] < k
        /\ \A d \in Clients : d # c => posted'[d] = posted[d]
    BY <1>1, <2>2, <2>3
  <2> QED
    BY <1>4, <2>3, <2>4, <2>5
<1>6. ASSUME NEW c \in Clients, NEW m, Sends(c, m), posted' = posted,
             m.name \notin Names
      PROVE  CInv'
  <2>1. posted[c] \in Nat /\ posted[c] <= posted[c]
    BY <1>1
  <2> QED
    BY <1>4, <1>6, <2>1
<1>7. ASSUME NEW c \in Clients, Reply(c) PROVE CInv'
  <2>1. PICK m : m = Msg("reply", asked[c][1])
    OBVIOUS
  <2>2. m.name \notin Names
    BY <2>1, NamesAssumption DEF Msg
  <2>3. Sends(c, m) /\ posted' = posted
    BY <1>7, <2>1, Types, ReplyFields
  <2> QED
    BY <1>6, <2>2, <2>3
<1>8. ASSUME NEW c \in Clients, Finish(c) \/ Crash(c) PROVE CInv'
  <2>1. PICK m : m = Msg("done", 0)
    OBVIOUS
  <2>2. m.name \notin Names
    BY <2>1, NamesAssumption DEF Msg, EndNames
  <2>3. Sends(c, m) /\ posted' = posted
    BY <1>8, <2>1, Types, EndFields
  <2> QED
    BY <1>6, <2>2, <2>3
<1> QED
  BY <1>2, <1>3, <1>5, <1>7, <1>8, WireStep

LEMMA OrderInit ==
    ASSUME Init
    PROVE  CInv
<1>1. PICK e : e = << >>
  OBVIOUS
<1>2. DOMAIN e = {}
  BY <1>1
<1>3. \A c \in Clients : created[c] = e /\ wire[c] = e
  BY <1>1 DEF Init
<1> QED
  BY <1>2, <1>3 DEF CInv, InOrder, Rising

\* A client's events are read from its channel by whichever loop is on top,
\* and each is created before the next is read, so that whenevers see them
\* in the order they were posted, each once.
THEOREM CreatedAsPosted == Spec => []CreatedInOrder
<1>1. Init => CInv
  BY OrderInit
<1>2. IInv /\ CInv /\ [Next]_vars => CInv'
  BY OrderStep
<1>3. CInv => CreatedInOrder
  BY DEF CInv, InOrder, CreatedInOrder
<1> QED
  BY <1>1, <1>2, <1>3, Inductive, PTL DEF Spec

-----------------------------------------------------------------------------
(* "await only".                                                           *)

\* No ^C leaves the interest of an await registered, or an await statement
\* names the same agents whenever it is executed.
Steady ==
    \/ MaxInterrupts = 0
    \/ \A f, g \in Awaits : f.stmt = g.stmt => f = g

LeftInv == MaxInterrupts = 0 => left = {}

LEMMA LeftStep ==
    ASSUME IInv, LeftInv, [Next]_vars
    PROVE  LeftInv'
<1>1. CASE Loop
  BY <1>1 DEF Loop, Select, AwaitOver, PassOver, Served, RunBody, LeftInv
<1>2. CASE EnterLoop
  BY <1>2 DEF EnterLoop, LeftInv
<1>3. CASE Interrupt
  <2>1. nint \in Nat /\ nint < MaxInterrupts
    BY <1>3, Types DEF Interrupt, TypeOK
  <2>2. MaxInterrupts # 0
    BY <2>1
  <2> QED
    BY <2>2 DEF LeftInv
<1>4. ASSUME NEW a \in Awaits, StartAwait(a) PROVE LeftInv'
  BY <1>4 DEF StartAwait, LeftInv
<1>5. ASSUME NEW c \in Clients, Serve(c) \/ StartRequest(c) PROVE LeftInv'
  BY <1>5 DEF Serve, StartRequest, LeftInv
<1>6. ASSUME NEW c \in Clients, Reply(c) \/ Finish(c) \/ Crash(c) PROVE LeftInv'
  BY <1>6 DEF Reply, Finish, Crash, Interpreter, LeftInv
<1>7. ASSUME NEW c \in Clients, NEW name \in Names, Post(c, name) PROVE LeftInv'
  BY <1>7 DEF Post, Interpreter, LeftInv
<1>8. CASE UNCHANGED vars
  BY <1>8 DEF vars, LeftInv
<1> QED
  BY <1>1, <1>2, <1>3, <1>4, <1>5, <1>6, <1>7, <1>8 DEF Next

\* Some pending await statement names e.
Named(e) ==
    \E i \in DOMAIN awaits :
        /\ awaits[i].kind = "stmt"
        /\ DsgOf(e) \in awaits[i].form.want \cup awaits[i].form.except

LEMMA CreatedNamed ==
    ASSUME IInv, LeftInv, Steady, NEW e \in Event, awaits # << >>,
           Top(awaits).form.only, ~IsReply(e), ~Ignores(e)
    PROVE  Named(e)
<1>1. /\ Top(awaits) = awaits[Len(awaits)] /\ Len(awaits) \in DOMAIN awaits
      /\ Top(awaits) \in Entry /\ Sound(Top(awaits))
  BY Types, TopFields, SeqFields, SoundEntries
<1>2. CASE Takers(e) # {}
  <2>1. Takers(e) \subseteq DOMAIN awaits /\ Takers(e) \in SUBSET Nat
    BY Types, SeqFields DEF Takers
  <2>2. PICK k : k = Oldest(Takers(e))
    OBVIOUS
  <2>3. k \in Takers(e) /\ k \in DOMAIN awaits
    BY <1>2, <2>1, <2>2, OldestMember
  <2>4. awaits[k].kind # "reply"
    BY <1>2, <2>2 DEF IsReply
  <2>5. awaits[k].kind = "stmt" /\ DsgOf(e) \in awaits[k].form.want
    BY <2>3, <2>4 DEF Takers, Accepts, IsReplyFor, HasInterest
  <2> QED
    BY <2>3, <2>5 DEF Named
<1>3. CASE Takers(e) = {}
  <2>1. Top(awaits).kind = "stmt" /\ Top(awaits).form \in Awaits
    <3>1. Top(awaits).form # NoForm
      BY DEF NoForm
    <3> QED
      BY <1>1, <3>1 DEF Entry, Sound
  <2>2. HasInterest(Top(awaits), e)
    BY <1>3, <2>1 DEF Ignores
  <2>3. PICK f \in Registered : /\ f.stmt = Top(awaits).form.stmt
                                /\ DsgOf(e) \in f.want \cup f.except
    BY <2>2 DEF HasInterest
  <2>4. CASE f \in left
    <3>1. MaxInterrupts # 0 /\ f \in Awaits
      BY <2>4, Types DEF LeftInv
    <3>2. f = Top(awaits).form
      BY <2>1, <2>3, <3>1 DEF Steady
    <3> QED
      BY <1>1, <2>1, <2>3, <3>2 DEF Named
  <2>5. CASE f \notin left
    BY <2>3, <2>5 DEF Named, Registered
  <2> QED
    BY <2>4, <2>5
<1> QED
  BY <1>2, <1>3

\* While an "await only" is active NewEvent() lets an event through to the
\* whenevers only if a pending await names it, unless an await that ^C cut
\* short has left interest in other agents registered for the same statement.
THEOREM OnlyHeld ==
    ASSUME Steady
    PROVE  Spec => OnlyHolds
<1>1. Init => LeftInv
  BY DEF Init, LeftInv
<1>2. IInv /\ LeftInv /\ [Next]_vars => LeftInv'
  BY LeftStep
<1>3. IInv /\ LeftInv /\ [Next]_vars =>
        [\A c \in Clients :
            /\ created'[c] # created[c]
            /\ awaits # << >>
            /\ Top(awaits).form.only
            => \E i \in DOMAIN awaits :
                   /\ awaits[i].kind = "stmt"
                   /\ DsgOf(Top(created'[c])) \in
                          awaits[i].form.want \cup awaits[i].form.except]_vars
  <2> SUFFICES ASSUME IInv, LeftInv, [Next]_vars, NEW d \in Clients,
                      created'[d] # created[d], awaits # << >>, Top(awaits).form.only
               PROVE  Named(Top(created'[d]))
    BY DEF Named
  <2>1. ~UNCHANGED created
    OBVIOUS
  <2>2. PICK c \in Clients, e \in Event : Hears(c, e)
    BY <2>1, WireStep DEF Post, Reply, Finish, Crash, Interpreter
  <2>3. IsCreated(c, e)
    BY <2>2 DEF Hears
  <2>4. /\ d = c /\ ~IsReply(e) /\ ~Ignores(e)
        /\ IsPushed(created[d], created'[d], e, Event)
    BY <2>3 DEF IsCreated
  <2>5. Top(created'[d]) = e
    BY <2>4 DEF IsPushed, Top
  <2>6. Named(e)
    BY <2>4, CreatedNamed
  <2> QED
    BY <2>5, <2>6
<1> QED
  BY <1>1, <1>2, <1>3, Inductive, PTL DEF Spec, OnlyHolds

-----------------------------------------------------------------------------
(* Requests and their replies.                                             *)

\* No request is cut short by ^C, and no statement awaits a "reply".
Orderly ==
    /\ MaxInterrupts = 0
    /\ \A f \in Awaits : \A c \in Clients : <<c, "reply">> \notin f.want

\* Request n is with the client, in q, or its reply is on the wire w.
Due(q, w, n) ==
    \/ \E i \in 1..Len(q) : q[i] = n
    \/ \E i \in 1..Len(w) : w[i].name = "reply" /\ w[i].n = n

\* The client answers requests in the order they were made.
InLine(q, w) ==
    /\ \A i, j \in 1..Len(q) : i < j => q[i] < q[j]
    /\ \A i, j \in 1..Len(w) :
          i < j /\ w[i].name = "reply" /\ w[j].name = "reply" => w[i].n < w[j].n
    /\ \A i \in 1..Len(w) : \A j \in 1..Len(q) :
          w[i].name = "reply" => w[i].n < q[j]

Pending(a, c) == a.kind = "reply" /\ a.client = {c} /\ a.filled = NoEvent

\* Some AwaitReply() call waits for the answer of c to request n.
Waiting(a, c, n) == \E i \in 1..Len(a) : Pending(a[i], c) /\ a[i].id = n

\* Requests are numbered as they are made, the last one n, and those filled
\* have their own replies.
Numbered(a, n) ==
    /\ \A i \in 1..Len(a) : a[i].kind = "reply" =>
          a[i].id <= n /\ (a[i].filled # NoEvent => a[i].filled.n = a[i].id)
    /\ \A i, j \in 1..Len(a) :
          i < j /\ a[i].kind = "reply" /\ a[j].kind = "reply" => a[i].id < a[j].id

\* What c owes is what is waited for.
Answers(a, c) ==
    /\ InLine(asked[c], wire[c])
    /\ \A n \in Nat : Due(asked[c], wire[c], n) <=> Waiting(a, c, n)

RInv == Numbered(awaits, nreq) /\ \A c \in Clients : Answers(awaits, c)

LEMMA ReplyTypes ==
    ASSUME IInv, NEW c \in Clients
    PROVE  /\ asked[c] \in Seq(Nat) /\ wire[c] \in Seq(Msgs)
           /\ Len(asked[c]) \in Nat /\ Len(wire[c]) \in Nat
           /\ \A i \in 1..Len(asked[c]) : asked[c][i] \in Nat
           /\ \A i \in 1..Len(wire[c]) : wire[c][i] \in Msgs /\ wire[c][i].n \in Nat
           /\ \A i \in 1..Len(awaits) : awaits[i] \in Entry /\ awaits[i].id \in Nat
           /\ nreq \in Nat
<1>1. asked[c] \in Seq(Nat) /\ wire[c] \in Seq(Msgs) /\ nreq \in Nat
  BY Types DEF TypeOK, Msgs
<1>2. /\ \A i \in 1..Len(asked[c]) : asked[c][i] \in Nat
      /\ \A i \in 1..Len(wire[c]) : wire[c][i] \in Msgs
      /\ \A i \in 1..Len(awaits) : awaits[i] \in Entry
  BY <1>1, Types, SeqFields
<1> QED
  BY <1>1, <1>2, SeqFields DEF Msgs, Entry

\* A message that is no reply is sent.
LEMMA DueSent ==
    ASSUME NEW q, NEW w \in Seq(Msgs), NEW v, NEW m, IsPushed(w, v, m, Msgs),
           m.name # "reply", InLine(q, w)
    PROVE  InLine(q, v) /\ \A n \in Nat : Due(q, v, n) <=> Due(q, w, n)
<1>1. /\ Len(v) = Len(w) + 1 /\ Len(w) \in Nat /\ v[Len(w) + 1] = m
      /\ \A i \in 1..Len(w) : v[i] = w[i]
  BY DEF IsPushed
<1>2. \A i \in 1..Len(v) : v[i].name = "reply" => i \in 1..Len(w) /\ v[i] = w[i]
  BY <1>1
<1>3. \A i \in 1..Len(w) : i \in 1..Len(v) /\ v[i] = w[i]
  BY <1>1
<1>4. InLine(q, v)
  BY <1>2 DEF InLine
<1>5. \A n \in Nat : Due(q, v, n) <=> Due(q, w, n)
  BY <1>2, <1>3 DEF Due
<1> QED
  BY <1>4, <1>5

\* The oldest request is replied to.
LEMMA DueReplied ==
    ASSUME NEW q \in Seq(Nat), NEW p, IsTail(q, p, Nat),
           NEW w \in Seq(Msgs), NEW v, NEW m, IsPushed(w, v, m, Msgs),
           m.name = "reply", m.n = q[1], InLine(q, w)
    PROVE  InLine(p, v) /\ \A n \in Nat : Due(p, v, n) <=> Due(q, w, n)
<1>1. /\ Len(v) = Len(w) + 1 /\ Len(w) \in Nat /\ v[Len(w) + 1] = m
      /\ \A i \in 1..Len(w) : v[i] = w[i] /\ i \in 1..Len(v)
      /\ Len(w) + 1 \in 1..Len(v)
  BY DEF IsPushed
<1>2. /\ Len(p) = Len(q) - 1 /\ Len(q) \in Nat \ {0} /\ 1 \in 1..Len(q)
      /\ \A i \in 1..Len(p) : p[i] = q[i + 1] /\ i + 1 \in 1..Len(q) /\ 1 < i + 1
  BY DEF IsTail
<1>3. \A i \in 1..Len(v) : i \in 1..Len(w) \/ i = Len(w) + 1
  BY <1>1
<1>4. \A i \in 1..Len(q) : i = 1 \/ (i - 1 \in 1..Len(p) /\ p[i - 1] = q[i])
  BY <1>2
<1>5. /\ \A i, j \in 1..Len(q) : i < j => q[i] < q[j]
      /\ \A i, j \in 1..Len(w) :
            i < j /\ w[i].name = "reply" /\ w[j].name = "reply" => w[i].n < w[j].n
      /\ \A i \in 1..Len(w) : \A j \in 1..Len(q) :
            w[i].name = "reply" => w[i].n < q[j]
  BY DEF InLine
<1>6. \A i, j \in 1..Len(p) : i < j => p[i] < p[j]
  <2> SUFFICES ASSUME NEW i \in 1..Len(p), NEW j \in 1..Len(p), i < j
               PROVE  p[i] < p[j]
    OBVIOUS
  <2>1. i + 1 < j + 1
    BY <1>2
  <2> QED
    BY <1>2, <1>5, <2>1
<1>7. \A i, j \in 1..Len(v) :
          i < j /\ v[i].name = "reply" /\ v[j].name = "reply" => v[i].n < v[j].n
  <2> SUFFICES ASSUME NEW i \in 1..Len(v), NEW j \in 1..Len(v), i < j,
                      v[i].name = "reply", v[j].name = "reply"
               PROVE  v[i].n < v[j].n
    OBVIOUS
  <2>1. i \in 1..Len(w) /\ v[i] = w[i]
    BY <1>1
  <2>2. CASE j \in 1..Len(w)
    BY <1>1, <1>5, <2>1, <2>2
  <2>3. CASE j = Len(w) + 1
    BY <1>1, <1>2, <1>5, <2>1, <2>3
  <2> QED
    BY <1>3, <2>2, <2>3
<1>8. \A i \in 1..Len(v) : \A j \in 1..Len(p) : v[i].name = "reply" => v[i].n < p[j]
  <2> SUFFICES ASSUME NEW i \in 1..Len(v), NEW j \in 1..Len(p), v[i].name = "reply"
               PROVE  v[i].n < p[j]
    OBVIOUS
  <2>1. CASE i \in 1..Len(w)
    BY <1>1, <1>2, <1>5, <2>1
  <2>2. CASE i = Len(w) + 1
    BY <1>1, <1>2, <1>5, <2>2
  <2> QED
    BY <1>3, <2>1, <2>2
<1>9. ASSUME NEW n \in Nat PROVE Due(p, v, n) <=> Due(q, w, n)
  <2>1. ASSUME Due(p, v, n) PROVE Due(q, w, n)
    <3>1. CASE \E i \in 1..Len(p) : p[i] = n
      BY <1>2, <3>1 DEF Due
    <3>2. CASE \E i \in 1..Len(v) : v[i].name = "reply" /\ v[i].n = n
      BY <1>1, <1>2, <1>3, <3>2 DEF Due
    <3> QED
      BY <2>1, <3>1, <3>2 DEF Due
  <2>2. ASSUME Due(q, w, n) PROVE Due(p, v, n)
    <3>1. CASE \E i \in 1..Len(q) : q[i] = n
      BY <1>1, <1>4, <3>1 DEF Due
    <3>2. CASE \E i \in 1..Len(w) : w[i].name = "reply" /\ w[i].n = n
      BY <1>1, <3>2 DEF Due
    <3> QED
      BY <2>2, <3>1, <3>2 DEF Due
  <2> QED
    BY <2>1, <2>2
<1> QED
  BY <1>6, <1>7, <1>8, <1>9 DEF InLine

\* A request is made: it is the newest.
LEMMA DueAsked ==
    ASSUME NEW q \in Seq(Nat), NEW w \in Seq(Msgs), NEW k \in Nat, NEW p,
           IsPushed(q, p, k, Nat), InLine(q, w),
           \A n \in Nat : Due(q, w, n) => n < k
    PROVE  InLine(p, w) /\ \A n \in Nat : Due(p, w, n) <=> (Due(q, w, n) \/ n = k)
<1>1. /\ Len(p) = Len(q) + 1 /\ Len(q) \in Nat /\ p[Len(q) + 1] = k
      /\ \A i \in 1..Len(q) : p[i] = q[i] /\ i \in 1..Len(p)
      /\ Len(q) + 1 \in 1..Len(p)
  BY DEF IsPushed
<1>2. \A i \in 1..Len(p) : i \in 1..Len(q) \/ i = Len(q) + 1
  BY <1>1
<1>3. /\ \A i \in 1..Len(q) : q[i] < k
      /\ \A i \in 1..Len(w) : w[i].name = "reply" => w[i].n < k
  <2>1. /\ \A i \in 1..Len(q) : q[i] \in Nat
        /\ \A i \in 1..Len(w) : w[i] \in Msgs
    BY SeqFields
  <2> QED
    BY <2>1 DEF Due, Msgs
<1>4. \A i, j \in 1..Len(p) : i < j => p[i] < p[j]
  <2> SUFFICES ASSUME NEW i \in 1..Len(p), NEW j \in 1..Len(p), i < j
               PROVE  p[i] < p[j]
    OBVIOUS
  <2>1. i \in 1..Len(q)
    BY <1>1
  <2>2. CASE j \in 1..Len(q)
    BY <1>1, <2>1, <2>2 DEF InLine
  <2>3. CASE j = Len(q) + 1
    BY <1>1, <1>3, <2>1, <2>3
  <2> QED
    BY <1>2, <2>2, <2>3
<1>5. \A i \in 1..Len(w) : \A j \in 1..Len(p) : w[i].name = "reply" => w[i].n < p[j]
  BY <1>1, <1>2, <1>3 DEF InLine
<1>6. InLine(p, w)
  BY <1>4, <1>5 DEF InLine
<1>7. \A n \in Nat : Due(p, w, n) <=> (Due(q, w, n) \/ n = k)
  BY <1>1, <1>2 DEF Due
<1> QED
  BY <1>6, <1>7

\* A message is read: nothing is owed that was not, and what was first, if
\* it is a reply, no more.
LEMMA DueRead ==
    ASSUME NEW q \in Seq(Nat), NEW w \in Seq(Msgs), NEW v, IsTail(w, v, Msgs),
           InLine(q, w)
    PROVE  /\ InLine(q, v)
           /\ w[1].name # "reply" => \A n \in Nat : Due(q, v, n) <=> Due(q, w, n)
           /\ w[1].name = "reply" =>
                 /\ Due(q, w, w[1].n)
                 /\ \A n \in Nat : Due(q, w, n) => w[1].n <= n
                 /\ \A n \in Nat : Due(q, v, n) <=> (Due(q, w, n) /\ n # w[1].n)
<1>1. /\ Len(v) = Len(w) - 1 /\ Len(w) \in Nat \ {0} /\ 1 \in 1..Len(w)
      /\ \A i \in 1..Len(v) : v[i] = w[i + 1] /\ i + 1 \in 1..Len(w) /\ 1 < i + 1
  BY DEF IsTail
<1>2. \A i \in 1..Len(w) : i = 1 \/ (i - 1 \in 1..Len(v) /\ v[i - 1] = w[i] /\ 1 < i)
  BY <1>1
<1>3. /\ \A i, j \in 1..Len(q) : i < j => q[i] < q[j]
      /\ \A i, j \in 1..Len(w) :
            i < j /\ w[i].name = "reply" /\ w[j].name = "reply" => w[i].n < w[j].n
      /\ \A i \in 1..Len(w) : \A j \in 1..Len(q) :
            w[i].name = "reply" => w[i].n < q[j]
  BY DEF InLine
<1>4. /\ \A i \in 1..Len(q) : q[i] \in Nat
      /\ \A i \in 1..Len(w) : w[i].n \in Nat
  <2>1. \A i \in 1..Len(w) : w[i] \in Msgs
    BY SeqFields
  <2> QED
    BY <2>1, SeqFields DEF Msgs
<1>5. \A i, j \in 1..Len(v) :
          i < j /\ v[i].name = "reply" /\ v[j].name = "reply" => v[i].n < v[j].n
  <2> SUFFICES ASSUME NEW i \in 1..Len(v), NEW j \in 1..Len(v), i < j,
                      v[i].name = "reply", v[j].name = "reply"
               PROVE  v[i].n < v[j].n
    OBVIOUS
  <2>1. i + 1 < j + 1
    BY <1>1
  <2> QED
    BY <1>1, <1>3, <2>1
<1>6. InLine(q, v)
  BY <1>1, <1>3, <1>5 DEF InLine
<1>7. \A n \in Nat : Due(q, v, n) => Due(q, w, n)
  BY <1>1 DEF Due
<1>8. \A n \in Nat : Due(q, w, n) => Due(q, v, n) \/ (w[1].name = "reply" /\ w[1].n = n)
  BY <1>2 DEF Due
<1>9. ASSUME w[1].name = "reply"
      PROVE  /\ Due(q, w, w[1].n)
             /\ \A n \in Nat : Due(q, w, n) => w[1].n <= n
             /\ \A n \in Nat : Due(q, v, n) => w[1].n < n
  <2>1. Due(q, w, w[1].n)
    BY <1>1, <1>9 DEF Due
  <2>2. \A n \in Nat : Due(q, v, n) => w[1].n < n
    BY <1>1, <1>3, <1>4, <1>9 DEF Due
  <2>3. \A n \in Nat : Due(q, w, n) => w[1].n <= n
    <3> SUFFICES ASSUME NEW n \in Nat, Due(q, w, n) PROVE w[1].n <= n
      OBVIOUS
    <3>1. w[1].n \in Nat
      BY <1>1, <1>4
    <3>2. w[1].n < n \/ w[1].n = n
      BY <1>8, <2>2
    <3> QED
      BY <3>1, <3>2
  <2> QED
    BY <2>1, <2>2, <2>3
<1>10. ASSUME w[1].name = "reply"
       PROVE  \A n \in Nat : Due(q, v, n) <=> (Due(q, w, n) /\ n # w[1].n)
  BY <1>1, <1>4, <1>7, <1>8, <1>9, <1>10
<1> QED
  BY <1>6, <1>7, <1>8, <1>9, <1>10

\* The active await is over: it was waiting for nothing.
LEMMA WaitPopped ==
    ASSUME NEW a \in Seq(Entry), NEW b, IsPopped(a, b, Entry), NEW n \in Nat,
           a[Len(a)].kind = "stmt" \/ a[Len(a)].filled # NoEvent, Numbered(a, n)
    PROVE  /\ Numbered(b, n)
           /\ \A c \in Clients : \A m \in Nat : Waiting(b, c, m) <=> Waiting(a, c, m)
<1>1. /\ Len(b) = Len(a) - 1 /\ Len(a) \in Nat \ {0}
      /\ \A i \in 1..Len(b) : b[i] = a[i] /\ i \in 1..Len(a)
      /\ \A i \in 1..Len(a) : i = Len(a) \/ i \in 1..Len(b)
  BY DEF IsPopped
<1>2. \A c : ~Pending(a[Len(a)], c)
  BY DEF Pending
<1>3. Numbered(b, n)
  BY <1>1 DEF Numbered
<1>4. \A c \in Clients : \A m \in Nat : Waiting(b, c, m) <=> Waiting(a, c, m)
  BY <1>1, <1>2 DEF Waiting
<1> QED
  BY <1>3, <1>4

LEMMA WaitPushed ==
    ASSUME NEW a \in Seq(Entry), NEW b, NEW x \in Entry, IsPushed(a, b, x, Entry),
           x.filled = NoEvent, NEW n \in Nat, Numbered(a, n), NEW k \in Nat, n <= k,
           x.kind = "reply" => n < k /\ x.id = k
    PROVE  /\ Numbered(b, k)
           /\ \A c \in Clients : \A m \in Nat :
                 Waiting(b, c, m) <=> Waiting(a, c, m) \/ (Pending(x, c) /\ x.id = m)
<1>1. /\ Len(b) = Len(a) + 1 /\ Len(a) \in Nat /\ b[Len(a) + 1] = x
      /\ \A i \in 1..Len(a) : b[i] = a[i] /\ i \in 1..Len(b)
      /\ \A i \in 1..Len(b) : i \in 1..Len(a) \/ i = Len(a) + 1
      /\ Len(a) + 1 \in 1..Len(b)
  BY DEF IsPushed
<1>2. \A i \in 1..Len(a) : a[i].id \in Nat
  <2>1. \A i \in 1..Len(a) : a[i] \in Entry
    BY SeqFields
  <2> QED
    BY <2>1 DEF Entry
<1>3. ASSUME NEW i \in 1..Len(b), b[i].kind = "reply"
      PROVE  b[i].id <= k /\ (b[i].filled # NoEvent => b[i].filled.n = b[i].id)
  <2>1. CASE i \in 1..Len(a)
    <3>1. /\ b[i] = a[i] /\ a[i].id \in Nat /\ a[i].id <= n
          /\ a[i].filled # NoEvent => a[i].filled.n = a[i].id
      BY <1>1, <1>2, <1>3, <2>1 DEF Numbered
    <3> QED
      BY <3>1
  <2>2. CASE i = Len(a) + 1
    BY <1>1, <1>3, <2>2
  <2> QED
    BY <1>1, <2>1, <2>2
<1>4. ASSUME NEW i \in 1..Len(b), NEW j \in 1..Len(b), i < j, b[i].kind = "reply",
             b[j].kind = "reply"
      PROVE  b[i].id < b[j].id
  <2>1. i \in 1..Len(a) /\ b[i] = a[i] /\ a[i].id \in Nat /\ a[i].id <= n
    <3>1. i \in 1..Len(a)
      BY <1>1, <1>4
    <3> QED
      BY <1>1, <1>2, <1>4, <3>1 DEF Numbered
  <2>2. CASE j \in 1..Len(a)
    BY <1>1, <1>4, <2>1, <2>2 DEF Numbered
  <2>3. CASE j = Len(a) + 1
    BY <1>1, <1>4, <2>1, <2>3
  <2> QED
    BY <1>1, <2>2, <2>3
<1>5. \A c \in Clients : \A m \in Nat :
         Waiting(b, c, m) <=> Waiting(a, c, m) \/ (Pending(x, c) /\ x.id = m)
  BY <1>1 DEF Waiting
<1> QED
  BY <1>3, <1>4, <1>5 DEF Numbered

\* What is waited for, and what is owed, when no client has been heard.
LEMMA QuietReplies ==
    ASSUME IInv, RInv, UNCHANGED <<wire, asked, nreq>>, awaits' = awaits \/ Returned
    PROVE  RInv'
<1>1. CASE awaits' = awaits
  BY <1>1 DEF RInv, Answers
<1>2. CASE Returned
  <2>1. nreq \in Nat /\ awaits \in Seq(Entry)
    BY Types DEF TypeOK
  <2>2. IsPopped(awaits, awaits', Entry)
        /\ (awaits[Len(awaits)].kind = "stmt" \/ awaits[Len(awaits)].filled # NoEvent)
    BY <1>2 DEF Returned, Over
  <2>3. PICK b : b = awaits'
    OBVIOUS
  <2>4. /\ Numbered(b, nreq)
        /\ \A c \in Clients : \A m \in Nat : Waiting(b, c, m) <=> Waiting(awaits, c, m)
    BY <2>1, <2>2, <2>3, WaitPopped DEF RInv
  <2> QED
    BY <2>3, <2>4 DEF RInv, Answers
<1> QED
  BY <1>1, <1>2

LEMMA AwaitReplies ==
    ASSUME IInv, RInv, NEW a \in Awaits, StartAwait(a)
    PROVE  RInv'
<1>1. PICK x : x = StmtEntry(a)
  OBVIOUS
<1>2. x \in Entry /\ x.filled = NoEvent /\ x.kind = "stmt"
  BY <1>1 DEF StmtEntry, Entry
<1>3. awaits' = Append(awaits, x) /\ UNCHANGED <<wire, asked, nreq>>
  BY <1>1 DEF StartAwait
<1>4. nreq \in Nat /\ awaits \in Seq(Entry) /\ nreq <= nreq
  BY Types DEF TypeOK
<1>5. PICK b : b = awaits'
  OBVIOUS
<1>6. IsPushed(awaits, b, x, Entry)
  BY <1>2, <1>3, <1>5, NewEntry
<1>7. /\ Numbered(b, nreq)
      /\ \A c \in Clients : \A m \in Nat :
            Waiting(b, c, m) <=> Waiting(awaits, c, m) \/ (Pending(x, c) /\ x.id = m)
  BY <1>2, <1>4, <1>6, WaitPushed DEF RInv
<1>8. \A c : ~Pending(x, c)
  BY <1>2 DEF Pending
<1> QED
  BY <1>3, <1>5, <1>7, <1>8 DEF RInv, Answers

LEMMA RequestReplies ==
    ASSUME IInv, RInv, NEW c \in Clients, StartRequest(c)
    PROVE  RInv'
<1>1. PICK k : k = nreq + 1
  OBVIOUS
<1>2. nreq \in Nat /\ k \in Nat /\ nreq < k /\ nreq <= k /\ awaits \in Seq(Entry)
  BY <1>1, Types DEF TypeOK
<1>3. PICK x : x = ReplyEntry(c, k)
  OBVIOUS
<1>4. /\ x \in Entry /\ x.filled = NoEvent /\ x.kind = "reply" /\ x.id = k
      /\ x.client = {c}
  BY <1>2, <1>3 DEF ReplyEntry, Entry
<1>5. /\ awaits' = Append(awaits, x) /\ wire' = wire /\ nreq' = k
      /\ asked' = [asked EXCEPT ![c] = Append(asked[c], k)]
  BY <1>1, <1>3 DEF StartRequest
<1>6. PICK b : b = awaits'
  OBVIOUS
<1>7. IsPushed(awaits, b, x, Entry)
  BY <1>4, <1>5, <1>6, NewEntry
<1>8. /\ Numbered(b, k)
      /\ \A d \in Clients : \A m \in Nat :
            Waiting(b, d, m) <=> Waiting(awaits, d, m) \/ (Pending(x, d) /\ x.id = m)
  BY <1>2, <1>4, <1>7, WaitPushed DEF RInv
<1>9. Pending(x, c) /\ \A d \in Clients : d # c => ~Pending(x, d)
  BY <1>4 DEF Pending
<1>10. PICK p : p = Append(asked[c], k)
  OBVIOUS
<1>11. asked[c] \in Seq(Nat) /\ wire[c] \in Seq(Msgs)
  BY ReplyTypes
<1>12. IsPushed(asked[c], p, k, Nat)
  BY <1>2, <1>10, <1>11, PushFields
<1>13. asked'[c] = p /\ \A d \in Clients : d # c => asked'[d] = asked[d]
  BY <1>5, <1>10, Types DEF TypeOK
<1>14. \A n \in Nat : Due(asked[c], wire[c], n) => n < k
  <2> SUFFICES ASSUME NEW n \in Nat, Due(asked[c], wire[c], n) PROVE n < k
    OBVIOUS
  <2>1. Waiting(awaits, c, n)
    BY DEF RInv, Answers
  <2>2. PICK i \in 1..Len(awaits) : awaits[i].kind = "reply" /\ awaits[i].id = n
    BY <2>1 DEF Waiting, Pending
  <2>3. n <= nreq
    BY <2>2 DEF RInv, Numbered
  <2> QED
    BY <1>1, <1>2, <2>3
<1>15. /\ InLine(p, wire[c])
       /\ \A n \in Nat : Due(p, wire[c], n) <=> (Due(asked[c], wire[c], n) \/ n = k)
  BY <1>2, <1>11, <1>12, <1>14, DueAsked DEF RInv, Answers
<1>16. Answers(b, c)'
  <2>1. InLine(asked'[c], wire'[c])
    BY <1>5, <1>13, <1>15
  <2>2. ASSUME NEW n \in Nat PROVE Due(asked'[c], wire'[c], n) <=> Waiting(b, c, n)
    <3>1. Due(asked'[c], wire'[c], n) <=> (Due(asked[c], wire[c], n) \/ n = k)
      BY <1>5, <1>13, <1>15
    <3>2. Waiting(b, c, n) <=> Waiting(awaits, c, n) \/ n = k
      BY <1>4, <1>8, <1>9
    <3>3. Due(asked[c], wire[c], n) <=> Waiting(awaits, c, n)
      BY DEF RInv, Answers
    <3> QED
      BY <3>1, <3>2, <3>3
  <2> QED
    BY <2>1, <2>2 DEF Answers
<1>17. ASSUME NEW d \in Clients, d # c PROVE Answers(b, d)'
  <2>1. asked'[d] = asked[d] /\ wire'[d] = wire[d]
    BY <1>5, <1>13, <1>17
  <2>2. \A n \in Nat : Waiting(b, d, n) <=> Waiting(awaits, d, n)
    BY <1>8, <1>9, <1>17
  <2> QED
    BY <2>1, <2>2 DEF RInv, Answers
<1> QED
  BY <1>5, <1>6, <1>8, <1>16, <1>17 DEF RInv

LEMMA SentReplies ==
    ASSUME IInv, RInv, NEW c \in Clients, NEW m, Sends(c, m),
           InLine(asked'[c], wire'[c]),
           \A n \in Nat : Due(asked'[c], wire'[c], n) <=> Due(asked[c], wire[c], n),
           \A d \in Clients : d # c => asked'[d] = asked[d]
    PROVE  RInv'
<1>1. /\ awaits' = awaits /\ nreq' = nreq
      /\ \A d \in Clients : d # c => wire'[d] = wire[d]
  BY DEF Sends, Interpreter
<1>2. Answers(awaits, c)'
  BY <1>1 DEF RInv, Answers
<1>3. \A d \in Clients : d # c => Answers(awaits, d)'
  BY <1>1 DEF RInv, Answers
<1> QED
  BY <1>1, <1>2, <1>3 DEF RInv

LEMMA ClientReplies ==
    ASSUME IInv, RInv, NEW c \in Clients,
           \/ Reply(c) \/ Finish(c) \/ Crash(c)
           \/ \E name \in Names : Post(c, name)
    PROVE  RInv'
<1>1. asked[c] \in Seq(Nat) /\ wire[c] \in Seq(Msgs) /\ InLine(asked[c], wire[c])
  BY ReplyTypes DEF RInv, Answers
<1>2. CASE Reply(c)
  <2>1. PICK m : m = Msg("reply", asked[c][1])
    OBVIOUS
  <2>2. m.name = "reply" /\ m.n = asked[c][1]
    BY <2>1 DEF Msg
  <2>3. /\ Sends(c, m) /\ IsPushed(wire[c], wire'[c], m, Msgs)
        /\ IsTail(asked[c], asked'[c], Nat)
        /\ \A d \in Clients : d # c => asked'[d] = asked[d]
    BY <1>2, <2>1, Types, ReplyFields
  <2>4. /\ InLine(asked'[c], wire'[c])
        /\ \A n \in Nat : Due(asked'[c], wire'[c], n) <=> Due(asked[c], wire[c], n)
    BY <1>1, <2>2, <2>3, DueReplied
  <2> QED
    BY <2>3, <2>4, SentReplies
<1>3. ASSUME NEW m, Sends(c, m), m.name # "reply", asked' = asked PROVE RInv'
  <2>1. /\ InLine(asked'[c], wire'[c])
        /\ \A n \in Nat : Due(asked'[c], wire'[c], n) <=> Due(asked[c], wire[c], n)
    <3>1. CASE wire' = wire
      BY <1>1, <1>3, <3>1
    <3>2. CASE IsPushed(wire[c], wire'[c], m, Msgs)
      BY <1>1, <1>3, <3>2, DueSent
    <3> QED
      BY <1>3, <3>1, <3>2 DEF Sends
  <2> QED
    BY <1>3, <2>1, SentReplies
<1>4. CASE Finish(c) \/ Crash(c)
  <2>1. PICK m : m = Msg("done", 0)
    OBVIOUS
  <2>2. m.name # "reply"
    BY <2>1 DEF Msg
  <2>3. Sends(c, m) /\ asked' = asked
    BY <1>4, <2>1, Types, EndFields
  <2> QED
    BY <1>3, <2>2, <2>3
<1>5. ASSUME NEW name \in Names, Post(c, name) PROVE RInv'
  <2>1. PICK m : m = Msg(name, posted[c] + 1)
    OBVIOUS
  <2>2. m.name # "reply"
    BY <2>1, NamesAssumption DEF Msg
  <2>3. Sends(c, m) /\ asked' = asked
    BY <1>5, <2>1, Types, PostFields
  <2> QED
    BY <1>3, <2>2, <2>3
<1> QED
  BY <1>2, <1>4, <1>5

\* An event that is no reply fills no request.
LEMMA OtherFilled ==
    ASSUME IInv, RInv, NEW e \in Event, e.name # "reply", NEW F, IsFilled(e, F)
    PROVE  /\ Numbered(F, nreq)
           /\ \A c \in Clients : \A n \in Nat : Waiting(F, c, n) <=> Waiting(awaits, c, n)
<1>1. CASE Takers(e) = {}
  BY <1>1 DEF IsFilled, RInv
<1>2. CASE Takers(e) # {}
  <2>1. PICK k \in Takers(e) :
            /\ k \in 1..Len(awaits) /\ F[k].kind = awaits[k].kind
            /\ \A i \in 1..Len(awaits) : i # k => F[i] = awaits[i]
    BY <1>2 DEF IsFilled
  <2>2. awaits[k].kind # "reply"
    BY <2>1 DEF Takers, Accepts, IsReplyFor, HasInterest
  <2>3. Len(F) = Len(awaits)
    BY DEF IsFilled
  <2>4. /\ \A i \in 1..Len(F) : F[i].kind = "reply" => i \in 1..Len(awaits) /\ F[i] = awaits[i]
        /\ \A i \in 1..Len(awaits) : awaits[i].kind = "reply" => i \in 1..Len(F) /\ F[i] = awaits[i]
    BY <2>1, <2>2, <2>3
  <2>5. Numbered(F, nreq)
    BY <2>4 DEF Numbered, RInv
  <2>6. \A c \in Clients : \A n \in Nat : Waiting(F, c, n) <=> Waiting(awaits, c, n)
    BY <2>4 DEF Waiting, Pending
  <2> QED
    BY <2>5, <2>6
<1> QED
  BY <1>1, <1>2

\* A reply fills the oldest request to its client: that is the one it is to.
LEMMA ReplyFilled ==
    ASSUME IInv, RInv, Orderly, NEW e \in Event, e.name = "reply",
           Due(asked[e.agent], wire[e.agent], e.n),
           \A n \in Nat : Due(asked[e.agent], wire[e.agent], n) => e.n <= n,
           NEW F, IsFilled(e, F)
    PROVE  /\ Numbered(F, nreq)
           /\ \A c \in Clients : \A n \in Nat :
                 Waiting(F, c, n) <=> Waiting(awaits, c, n) /\ ~(c = e.agent /\ n = e.n)
<1>1. PICK c : c = e.agent
  OBVIOUS
<1>2. c \in Clients /\ e.n \in Nat /\ e # NoEvent
  BY <1>1, NoEventAssumption DEF Event
<1>3. PICK i \in 1..Len(awaits) : Pending(awaits[i], c) /\ awaits[i].id = e.n
  <2>1. Waiting(awaits, c, e.n)
    BY <1>1, <1>2 DEF RInv, Answers
  <2> QED
    BY <2>1 DEF Waiting
<1>4. i \in Takers(e)
  <2>1. i \in DOMAIN awaits
    BY Types, SeqFields
  <2> QED
    BY <1>1, <1>3, <2>1 DEF Takers, Accepts, IsReplyFor, Pending
<1>5. PICK k \in Takers(e) :
          /\ k \in 1..Len(awaits) /\ k <= i
          /\ F[k].kind = awaits[k].kind /\ F[k].id = awaits[k].id /\ F[k].filled = e
          /\ \A j \in 1..Len(awaits) : j # k => F[j] = awaits[j]
  BY <1>4 DEF IsFilled
<1>6. Pending(awaits[k], c)
  <2>1. Accepts(awaits[k], e)
    BY <1>5 DEF Takers
  <2>2. ~(awaits[k].kind = "stmt" /\ DsgOf(e) \in awaits[k].form.want)
    <3>1. awaits[k].kind = "stmt" => awaits[k].form \in Awaits
      BY <1>5, SoundEntries DEF Sound
    <3>2. DsgOf(e) = <<c, "reply">>
      BY <1>1 DEF DsgOf
    <3> QED
      BY <1>2, <3>1, <3>2 DEF Orderly
  <2>3. IsReplyFor(awaits[k], e)
    BY <2>1, <2>2 DEF Accepts, HasInterest
  <2> QED
    BY <1>1, <2>1, <2>3 DEF IsReplyFor, Accepts, Pending
<1>7. /\ \A j \in 1..Len(awaits) : awaits[j].id \in Nat
      /\ \A a, b \in 1..Len(awaits) :
            a < b /\ awaits[a].kind = "reply" /\ awaits[b].kind = "reply"
                => awaits[a].id < awaits[b].id
  BY <1>2, ReplyTypes DEF RInv, Numbered
<1>8. k = i
  <2>1. e.n <= awaits[k].id
    <3>1. Waiting(awaits, c, awaits[k].id) /\ awaits[k].id \in Nat
      BY <1>5, <1>6, <1>7 DEF Waiting
    <3> QED
      BY <1>1, <1>2, <3>1 DEF RInv, Answers
  <2>2. k < i => awaits[k].id < e.n
    BY <1>3, <1>5, <1>6, <1>7 DEF Pending
  <2>3. k \in Int /\ i \in Int /\ awaits[k].id \in Int /\ e.n \in Int
    BY <1>2, <1>5, <1>7
  <2> QED
    BY <1>5, <2>1, <2>2, <2>3
<1>9. Len(F) = Len(awaits)
  BY DEF IsFilled
<1>10. \A j \in 1..Len(F) : F[j].kind = awaits[j].kind /\ F[j].id = awaits[j].id
  BY <1>5, <1>9
<1>11. Numbered(F, nreq)
  <2>1. ASSUME NEW j \in 1..Len(F), F[j].kind = "reply"
        PROVE  F[j].id <= nreq /\ (F[j].filled # NoEvent => F[j].filled.n = F[j].id)
    <3>1. F[j].id <= nreq
      BY <1>9, <1>10, <2>1 DEF RInv, Numbered
    <3>2. CASE j = k
      BY <1>3, <1>5, <1>8, <3>1, <3>2
    <3>3. CASE j # k
      BY <1>5, <1>9, <2>1, <3>1, <3>3 DEF RInv, Numbered
    <3> QED
      BY <3>2, <3>3
  <2>2. \A a, b \in 1..Len(F) :
            a < b /\ F[a].kind = "reply" /\ F[b].kind = "reply" => F[a].id < F[b].id
    BY <1>7, <1>9, <1>10
  <2> QED
    BY <2>1, <2>2 DEF Numbered
<1>12. ASSUME NEW d \in Clients, NEW n \in Nat
       PROVE  Waiting(F, d, n) <=> Waiting(awaits, d, n) /\ ~(d = c /\ n = e.n)
  <2>1. \A j \in 1..Len(F) : Pending(F[j], d) <=> Pending(awaits[j], d) /\ j # k
    <3>1. ~Pending(F[k], d)
      BY <1>2, <1>5 DEF Pending
    <3> QED
      BY <1>5, <1>9, <3>1
  <2>2. \A j \in 1..Len(awaits) : Pending(awaits[j], d) /\ awaits[j].id = n =>
            (j = k <=> d = c /\ n = e.n)
    <3> SUFFICES ASSUME NEW j \in 1..Len(awaits), Pending(awaits[j], d), awaits[j].id = n
                 PROVE  j = k <=> d = c /\ n = e.n
      OBVIOUS
    <3>1. ASSUME j = k PROVE d = c /\ n = e.n
      BY <1>3, <1>8, <3>1 DEF Pending
    <3>2. ASSUME n = e.n PROVE j = k
      <4>1. /\ j < k => awaits[j].id < awaits[k].id
            /\ k < j => awaits[k].id < awaits[j].id
        BY <1>5, <1>6, <1>7 DEF Pending
      <4>2. awaits[j].id = awaits[k].id /\ awaits[j].id \in Nat
        BY <1>3, <1>7, <1>8, <3>2
      <4>3. j \in Int /\ k \in Int /\ ~(awaits[j].id < awaits[k].id)
            /\ ~(awaits[k].id < awaits[j].id)
        BY <1>5, <4>2
      <4> QED
        BY <4>1, <4>3
    <3> QED
      BY <3>1, <3>2
  <2> QED
    BY <1>9, <1>10, <2>1, <2>2 DEF Waiting
<1> QED
  BY <1>1, <1>11, <1>12

LEMMA HeardReplies ==
    ASSUME IInv, RInv, Orderly, NEW c \in Clients, NEW e \in Event, Hears(c, e),
           asked' = asked, nreq' = nreq
    PROVE  RInv'
<1>1. IsRead(c, e) /\ IsFilled(e, awaits') /\ e.agent = c
  BY DEF Hears, IsRead
<1>2. PICK F : F = awaits'
  OBVIOUS
<1>3. PICK v : v = wire'[c]
  OBVIOUS
<1>4. asked[c] \in Seq(Nat) /\ wire[c] \in Seq(Msgs) /\ InLine(asked[c], wire[c])
  BY ReplyTypes DEF RInv, Answers
<1>5. \A d \in Clients : d # c => wire'[d] = wire[d]
  BY <1>1 DEF IsRead
<1>6. CASE e.name = "reply"
  <2>1. /\ IsTail(wire[c], v, Msgs) /\ wire[c][1].name = "reply"
        /\ wire[c][1].n = e.n
    BY <1>1, <1>3, <1>6 DEF IsRead
  <2>2. /\ InLine(asked[c], v) /\ Due(asked[c], wire[c], e.n)
        /\ \A n \in Nat : Due(asked[c], wire[c], n) => e.n <= n
        /\ \A n \in Nat : Due(asked[c], v, n) <=> (Due(asked[c], wire[c], n) /\ n # e.n)
    BY <1>4, <2>1, DueRead
  <2>3. /\ Numbered(F, nreq)
        /\ \A d \in Clients : \A n \in Nat :
              Waiting(F, d, n) <=> Waiting(awaits, d, n) /\ ~(d = c /\ n = e.n)
    BY <1>1, <1>2, <1>6, <2>2, ReplyFilled
  <2>4. Answers(F, c)'
    BY <1>3, <2>2, <2>3 DEF RInv, Answers
  <2>5. ASSUME NEW d \in Clients, d # c PROVE Answers(F, d)'
    BY <1>5, <2>3, <2>5 DEF RInv, Answers
  <2> QED
    BY <1>2, <2>3, <2>4, <2>5 DEF RInv
<1>7. CASE e.name # "reply"
  <2>1. /\ Numbered(F, nreq)
        /\ \A d \in Clients : \A n \in Nat : Waiting(F, d, n) <=> Waiting(awaits, d, n)
    BY <1>1, <1>2, <1>7, OtherFilled
  <2>2. /\ InLine(asked[c], v)
        /\ \A n \in Nat : Due(asked[c], v, n) <=> Due(asked[c], wire[c], n)
    <3>1. CASE IsTail(wire[c], v, Msgs) /\ e.name = wire[c][1].name
      BY <1>4, <1>7, <3>1, DueRead
    <3>2. CASE v = wire[c]
      BY <1>4, <3>2
    <3> QED
      BY <1>1, <1>3, <3>1, <3>2 DEF IsRead
  <2>3. Answers(F, c)'
    BY <1>3, <2>1, <2>2 DEF RInv, Answers
  <2>4. ASSUME NEW d \in Clients, d # c PROVE Answers(F, d)'
    BY <1>5, <2>1, <2>4 DEF RInv, Answers
  <2> QED
    BY <1>2, <2>1, <2>3, <2>4 DEF RInv
<1> QED
  BY <1>6, <1>7

LEMMA RepliesStep ==
    ASSUME IInv, RInv, Orderly, [Next]_vars
    PROVE  RInv'
<1>1. CASE Loop
  <2>1. UNCHANGED <<wire, asked, nreq>>
    BY <1>1 DEF Loop, Select, AwaitOver, PassOver, Served, RunBody
  <2>2. awaits' = awaits \/ Returned
    BY <1>1, ServedAwaits, AwaitOverAwaits DEF Loop, Select, PassOver, RunBody
  <2> QED
    BY <2>1, <2>2, QuietReplies
<1>2. CASE EnterLoop
  BY <1>2, QuietReplies DEF EnterLoop
<1>3. CASE Interrupt
  <2>1. nint \in Nat /\ nint < 0
    BY <1>3, Types DEF Interrupt, TypeOK, Orderly
  <2> QED
    BY <2>1
<1>4. ASSUME NEW a \in Awaits, StartAwait(a) PROVE RInv'
  BY <1>4, AwaitReplies
<1>5. ASSUME NEW c \in Clients, StartRequest(c) PROVE RInv'
  BY <1>5, RequestReplies
<1>6. ASSUME NEW c \in Clients, Serve(c) PROVE RInv'
  <2>1. asked' = asked /\ nreq' = nreq
    BY <1>6 DEF Serve
  <2>2. CASE ServeNothing(c)
    BY <2>1, <2>2, QuietReplies DEF ServeNothing
  <2>3. CASE \E e \in Event : Hears(c, e)
    BY <2>1, <2>3, HeardReplies
  <2> QED
    BY <1>6, <2>2, <2>3, Types, ServeFields
<1>7. ASSUME NEW c \in Clients,
             \/ Reply(c) \/ Finish(c) \/ Crash(c)
             \/ \E name \in Names : Post(c, name)
      PROVE  RInv'
  BY <1>7, ClientReplies
<1>8. CASE UNCHANGED vars
  BY <1>8, QuietReplies DEF vars
<1> QED
  BY <1>1, <1>2, <1>3, <1>4, <1>5, <1>6, <1>7, <1>8 DEF Next

LEMMA RepliesInit ==
    ASSUME Init
    PROVE  RInv
<1>1. PICK e : e = << >>
  OBVIOUS
<1>2. 1..Len(e) = {}
  BY <1>1
<1>3. awaits = e /\ \A c \in Clients : asked[c] = e /\ wire[c] = e
  BY <1>1 DEF Init
<1>4. Numbered(e, nreq)
  BY <1>2 DEF Numbered
<1>5. InLine(e, e) /\ \A n \in Nat : ~Due(e, e, n) /\ \A c \in Clients : ~Waiting(e, c, n)
  BY <1>2 DEF InLine, Due, Waiting
<1> QED
  BY <1>3, <1>4, <1>5 DEF RInv, Answers

\* Replies carry no request's name: AwaitReply() takes the next "reply" of
\* its client.  Where no ^C leaves a reply that nobody waits for, and no
\* await statement takes one, it is the reply to that very request, however
\* requests nest, because the client answers in order and the oldest
\* request is served first.
THEOREM RequestsGetOwnReplies ==
    ASSUME Orderly
    PROVE  Spec => []OwnReply
<1>1. Init => RInv
  BY RepliesInit
<1>2. IInv /\ RInv /\ [Next]_vars => RInv'
  BY RepliesStep
<1>3. IInv /\ RInv => OwnReply
  <2>1. ASSUME IInv PROVE DOMAIN awaits = 1..Len(awaits)
    BY <2>1, Types, SeqFields
  <2> QED
    BY <2>1 DEF RInv, Numbered, OwnReply
<1> QED
  BY <1>1, <1>2, <1>3, Inductive, PTL DEF Spec

=============================================================================
