---------------------------- MODULE TaskProofs ----------------------------
(***************************************************************************)
(* Proofs about Task: type correctness, and that every active client, and  *)
(* no other, is watched, for any number of tasks of any kind and without   *)
(* bounds on what is sent.                                                 *)
(*                                                                         *)
(* The argument: every method of Task maps a well-formed pair to one, the  *)
(* sending methods without touching the fields Watched speaks of (Keeps),  *)
(* and every handler ends with Update() of the pair it has built.          *)
(***************************************************************************)
EXTENDS Task, TLAPS

PairType == [k: TaskRecord, c: ClientRecord]

\* q is p after something that only sends.
Keeps(p, q) ==
    /\ q \in PairType
    /\ q.k.active = p.k.active
    /\ q.k.chan = p.k.chan
    /\ q.k.sel = p.k.sel

\* Watched, of one Task object.
Fit(k) ==
    /\ k.active = "active" <=> k.sel = "client"
    /\ k.sel = "client" => k.chan = "open"

Good(p) == p \in PairType /\ Fit(p.k)

-----------------------------------------------------------------------------
(* Messages and the sending methods.                                       *)

\* The messages the interpreter builds are messages.
LEMMA EventType ==
    ASSUME NEW n \in Nat
    PROVE  Event(n) \in Message /\ Ask(n) \in Message
  BY DEF Event, Ask, Message

LEMMA BundleType ==
    ASSUME NEW ns \in Seq(Nat)
    PROVE  Bundle(ns) \in Message
  BY DEF Bundle, Message

LEMMA NoteType ==
    ASSUME NEW name \in {"established", "event", "reply", "done", "fail"},
           NEW n \in Nat
    PROVE  Note(name, n) \in Notes
  BY DEF Note, Notes

LEMMA PairParts ==
    ASSUME NEW p \in PairType
    PROVE  p.k \in TaskRecord /\ p.c \in ClientRecord
  BY DEF PairType

LEMMA PairIntro ==
    ASSUME NEW k \in TaskRecord, NEW c \in ClientRecord
    PROVE  [k |-> k, c |-> c] \in PairType
  BY DEF PairType

LEMMA EmptySequences == << >> \in Seq(Message) /\ << >> \in Seq(Nat)
  OBVIOUS

\* Storing a sequence in a Task leaves the rest of it alone.
LEMMA StorePending ==
    ASSUME NEW k \in TaskRecord, NEW s \in Seq(Message)
    PROVE  LET r == [k EXCEPT !.pending = s]
           IN  /\ r \in TaskRecord
               /\ r.active = k.active /\ r.chan = k.chan /\ r.sel = k.sel
  BY DEF TaskRecord

LEMMA StoreBundle ==
    ASSUME NEW k \in TaskRecord, NEW s \in Seq(Nat)
    PROVE  LET r == [k EXCEPT !.bundle = s]
           IN  /\ r \in TaskRecord
               /\ r.active = k.active /\ r.chan = k.chan /\ r.sel = k.sel
  BY DEF TaskRecord

LEMMA StoreAssociated ==
    ASSUME NEW k \in TaskRecord, NEW s \in Seq(Message)
    PROVE  LET r == [k EXCEPT !.pending = s, !.chan = "open",
                              !.active = "active", !.sel = "client",
                              !.regd = FALSE]
           IN  r \in TaskRecord /\ Fit(r)
  BY DEF TaskRecord, Fit

LEMMA StoreDestroyed ==
    ASSUME NEW k \in TaskRecord, k.sel # "client",
           NEW s \in Seq(Message), NEW b \in Seq(Nat)
    PROVE  LET r == [k EXCEPT !.active = "gone", !.held = FALSE,
                              !.local = "none", !.pending = s, !.bundle = b]
           IN  r \in TaskRecord /\ Fit(r)
  BY DEF TaskRecord, Fit

\* Writing to the channel leaves the Task alone.
LEMMA WriteType ==
    ASSUME NEW p \in PairType, NEW ms \in Seq(Message)
    PROVE  Write(p, ms) \in PairType /\ Write(p, ms).k = p.k
<1>1. p.c \in ClientRecord /\ p.k \in TaskRecord
  BY PairParts
<1>2. p.c.wire \o ms \in Seq(Message)
  BY <1>1 DEF ClientRecord
<1>3. [p.c EXCEPT !.wire = @ \o ms] \in ClientRecord
  BY <1>1, <1>2 DEF ClientRecord
<1>4. [k |-> p.k, c |-> [p.c EXCEPT !.wire = @ \o ms]] \in PairType
  BY <1>1, <1>3, PairIntro
<1> QED
  BY <1>4 DEF Write

LEMMA SendEventKeeps ==
    ASSUME NEW p \in PairType, NEW m \in Message
    PROVE  Keeps(p, SendEvent(p, m))
<1>1. p.c \in ClientRecord /\ p.k \in TaskRecord
  BY PairParts
<1>2. CASE p.k.chan = "none"
  <2> DEFINE k == [p.k EXCEPT !.pending = Append(@, m)]
  <2>0. Append(p.k.pending, m) \in Seq(Message)
    BY <1>1 DEF TaskRecord
  <2>1. k \in TaskRecord /\ k.active = p.k.active /\ k.chan = p.k.chan
                         /\ k.sel = p.k.sel
    BY <1>1, <2>0, StorePending
  <2>2. SendEvent(p, m) = [k |-> k, c |-> p.c]
    BY <1>2 DEF SendEvent
  <2> HIDE DEF k
  <2>3. [k |-> k, c |-> p.c] \in PairType
    BY <1>1, <2>1, PairIntro
  <2> QED
    BY <2>1, <2>2, <2>3 DEF Keeps
<1>3. CASE p.k.chan = "open"
  <2>1. SendEvent(p, m) = Write(p, <<m>>)
    BY <1>3 DEF SendEvent
  <2>2. <<m>> \in Seq(Message)
    OBVIOUS
  <2> QED
    BY <2>1, <2>2, WriteType DEF Keeps
<1>4. CASE p.k.chan # "none" /\ p.k.chan # "open"
  BY <1>4 DEF SendEvent, Keeps
<1> QED
  BY <1>2, <1>3, <1>4

LEMMA FlushEventsKeeps ==
    ASSUME NEW p \in PairType
    PROVE  Keeps(p, FlushEvents(p))
<1>1. CASE p.k.bundle = << >>
  BY <1>1 DEF FlushEvents, Keeps
<1>2. CASE p.k.bundle # << >>
  <2> DEFINE q == SendEvent(p, Bundle(p.k.bundle))
             k == [q.k EXCEPT !.bundle = << >>]
  <2>1. p.k.bundle \in Seq(Nat)
    BY PairParts DEF TaskRecord
  <2>2. Keeps(p, q)
    BY <2>1, BundleType, SendEventKeeps
  <2>3. FlushEvents(p) = [k |-> k, c |-> q.c]
    BY <1>2 DEF FlushEvents
  <2> HIDE DEF q
  <2>4. q.k \in TaskRecord /\ q.c \in ClientRecord
    BY <2>2, PairParts DEF Keeps
  <2>5. k \in TaskRecord /\ k.active = q.k.active /\ k.chan = q.k.chan
                         /\ k.sel = q.k.sel
    BY <2>4, EmptySequences, StoreBundle
  <2> HIDE DEF k
  <2>6. [k |-> k, c |-> q.c] \in PairType
    BY <2>4, <2>5, PairIntro
  <2> QED
    BY <2>2, <2>3, <2>5, <2>6 DEF Keeps
<1> QED
  BY <1>1, <1>2

LEMMA KeepsTransitive ==
    ASSUME NEW p, NEW q, NEW r, Keeps(p, q), Keeps(q, r)
    PROVE  Keeps(p, r)
  BY DEF Keeps

LEMMA SendOrBundleKeeps ==
    ASSUME NEW p \in PairType, NEW n \in Nat
    PROVE  Keeps(p, SendOrBundle(p, n))
<1>1. CASE p.k.bundleSize = 0
  BY <1>1, EventType, SendEventKeeps DEF SendOrBundle
<1>2. CASE p.k.bundleSize # 0
  <2> DEFINE k == [p.k EXCEPT !.bundle = Append(@, n)]
             q == [k |-> k, c |-> p.c]
  <2>1. p.k \in TaskRecord /\ p.c \in ClientRecord
    BY PairParts
  <2>0. Append(p.k.bundle, n) \in Seq(Nat)
    BY <2>1 DEF TaskRecord
  <2>2. k \in TaskRecord /\ k.active = p.k.active /\ k.chan = p.k.chan
                         /\ k.sel = p.k.sel
    BY <2>0, <2>1, StoreBundle
  <2>3. SendOrBundle(p, n) = FlushEvents(q) \/ SendOrBundle(p, n) = q
    BY <1>2 DEF SendOrBundle
  <2> HIDE DEF k
  <2>4. Keeps(p, q)
    BY <2>1, <2>2, PairIntro DEF Keeps
  <2>5. Keeps(q, FlushEvents(q))
    BY <2>4, FlushEventsKeeps DEF Keeps
  <2> HIDE DEF q
  <2> QED
    BY <2>3, <2>4, <2>5, KeepsTransitive
<1> QED
  BY <1>1, <1>2

LEMMA BundleEventsKeeps ==
    ASSUME NEW p \in PairType, NEW n \in Nat
    PROVE  Keeps(p, BundleEvents(p, n))
<1> DEFINE size == IF n <= 1 THEN 0 ELSE n
           k == [p.k EXCEPT !.bundleSize = size]
           q == [k |-> k, c |-> p.c]
<1>1. p.k \in TaskRecord /\ p.c \in ClientRecord
  BY PairParts
<1>2. size \in Nat
  OBVIOUS
<1>3. BundleEvents(p, n) = FlushEvents(q) \/ BundleEvents(p, n) = q
  BY DEF BundleEvents
<1> HIDE DEF size
<1>4. k \in TaskRecord /\ k.active = p.k.active /\ k.chan = p.k.chan
                       /\ k.sel = p.k.sel
  BY <1>1, <1>2 DEF TaskRecord
<1> HIDE DEF k
<1>5. Keeps(p, q)
  BY <1>1, <1>4, PairIntro DEF Keeps
<1>6. Keeps(q, FlushEvents(q))
  BY <1>5, FlushEventsKeeps DEF Keeps
<1> HIDE DEF q
<1> QED
  BY <1>3, <1>5, <1>6, KeepsTransitive

LEMMA CountedKeeps ==
    ASSUME NEW p \in PairType
    PROVE  Keeps(p, Counted(p))
<1> DEFINE k == [p.k EXCEPT !.nsent = @ + 1]
<1>1. p.k \in TaskRecord /\ p.c \in ClientRecord
  BY PairParts
<1>2. k \in TaskRecord /\ k.active = p.k.active /\ k.chan = p.k.chan
                       /\ k.sel = p.k.sel
  BY <1>1 DEF TaskRecord
<1>3. Counted(p) = [k |-> k, c |-> p.c]
  BY DEF Counted
<1> HIDE DEF k
<1> QED
  BY <1>1, <1>2, <1>3, PairIntro DEF Keeps

LEMMA SendRequestKeeps ==
    ASSUME NEW p \in PairType
    PROVE  Keeps(p, SendRequest(p))
<1>1. p.k.nsent + 1 \in Nat
  BY PairParts DEF TaskRecord
<1>2. Ask(p.k.nsent + 1) \in Message
  BY <1>1, EventType
<1>3. Keeps(p, Counted(p)) /\ Counted(p) \in PairType
  BY CountedKeeps DEF Keeps
<1>4. Keeps(Counted(p), SendRequest(p))
  BY <1>2, <1>3, SendEventKeeps DEF SendRequest
<1> QED
  BY <1>3, <1>4, KeepsTransitive

LEMMA KeepsGood ==
    ASSUME NEW p, NEW q, Good(p), Keeps(p, q)
    PROVE  Good(q)
  BY DEF Good, Keeps, Fit

-----------------------------------------------------------------------------
(* The methods that connect, close and delete.                             *)

LEMMA AssociateGood ==
    ASSUME NEW p \in PairType, p.c.inbox # << >>
    PROVE  Good(Associate(p))
<1> DEFINE q == Write(p, p.k.pending)
           k == [q.k EXCEPT !.pending = << >>, !.chan = "open",
                            !.active = "active", !.sel = "client",
                            !.regd = FALSE]
           c == [q.c EXCEPT !.inbox = Tail(@)]
<1>1. p.k.pending \in Seq(Message)
  BY PairParts DEF TaskRecord
<1>2. q \in PairType
  BY <1>1, WriteType
<1>3. q.c.inbox = p.c.inbox
  BY PairParts DEF Write, ClientRecord
<1>4. Associate(p) = [k |-> k, c |-> c]
  BY DEF Associate
<1> HIDE DEF q
<1>5. q.k \in TaskRecord /\ q.c \in ClientRecord
  BY <1>2, PairParts
<1>6. k \in TaskRecord /\ Fit(k)
  BY <1>5, EmptySequences, StoreAssociated
<1>7. Tail(q.c.inbox) \in Seq(Notes)
  BY <1>3, <1>5 DEF ClientRecord
<1>8. c \in ClientRecord
  BY <1>5, <1>7 DEF ClientRecord
<1> HIDE DEF k, c
<1> QED
  BY <1>4, <1>6, <1>8, PairIntro DEF Good

LEMMA CloseChannelGood ==
    ASSUME NEW p, Good(p)
    PROVE  /\ CloseChannel(p) \in PairType
           /\ CloseChannel(p).k.sel # "client"
           /\ CloseChannel(p).k.chan = "none"
<1>1. CASE p.k.chan = "none"
  BY <1>1 DEF CloseChannel, Good, Fit
<1>2. CASE p.k.chan # "none"
  <2> DEFINE k == [p.k EXCEPT !.chan = "none", !.sel = "none",
                              !.local = IF @ = "live" THEN "freed" ELSE @]
             c == [p.c EXCEPT !.hup = TRUE]
  <2>1. p.k \in TaskRecord /\ p.c \in ClientRecord
    BY PairParts DEF Good
  <2>2. k \in TaskRecord /\ k.sel = "none" /\ k.chan = "none"
    BY <2>1 DEF TaskRecord
  <2>3. c \in ClientRecord
    BY <2>1 DEF ClientRecord
  <2>4. CloseChannel(p) = [k |-> k, c |-> c]
    BY <1>2 DEF CloseChannel
  <2> HIDE DEF k, c
  <2> QED
    BY <2>2, <2>3, <2>4, PairIntro
<1> QED
  BY <1>1, <1>2

LEMMA SetFinishedGood ==
    ASSUME NEW p, Good(p)
    PROVE  Good(SetFinished(p))
<1> DEFINE q == CloseChannel(p)
           k == [q.k EXCEPT !.active = "finished"]
<1>1. q \in PairType /\ q.k.sel # "client"
  BY CloseChannelGood
<1>2. SetFinished(p) = [k |-> k, c |-> q.c]
  BY DEF SetFinished
<1> HIDE DEF q
<1>3. q.k \in TaskRecord /\ q.c \in ClientRecord
  BY <1>1, PairParts
<1>4. k \in TaskRecord /\ Fit(k)
  BY <1>1, <1>3 DEF TaskRecord, Fit
<1> HIDE DEF k
<1> QED
  BY <1>2, <1>3, <1>4, PairIntro DEF Good

LEMMA DestroyGood ==
    ASSUME NEW p, Good(p)
    PROVE  Good(Destroy(p))
<1> DEFINE r == SendOrBundle(p, Terminate)
           q == CloseChannel(r)
           k == [q.k EXCEPT !.active = "gone", !.held = FALSE,
                            !.local = "none", !.pending = << >>,
                            !.bundle = << >>]
<1>1. Good(r)
  BY SendOrBundleKeeps, KeepsGood DEF Terminate, Good
<1>2. Destroy(p) = [k |-> k, c |-> q.c]
  BY DEF Destroy
<1> HIDE DEF r
<1>3. q \in PairType /\ q.k.sel # "client"
  BY <1>1, CloseChannelGood
<1> HIDE DEF q
<1>4. q.k \in TaskRecord /\ q.c \in ClientRecord
  BY <1>3, PairParts
<1>5. k \in TaskRecord /\ Fit(k)
  BY <1>3, <1>4, EmptySequences, StoreDestroyed
<1> HIDE DEF k
<1> QED
  BY <1>2, <1>4, <1>5, PairIntro DEF Good

-----------------------------------------------------------------------------
(* The handlers.                                                           *)

IInv == TypeOK /\ Watched

\* The two functions an Update() changes.
TablesOK ==
    /\ task \in [Tasks -> TaskRecord]
    /\ client \in [Tasks -> ClientRecord]
    /\ Watched

LEMMA PairGood ==
    ASSUME IInv, NEW t \in Tasks
    PROVE  /\ Good(Pair(t)) /\ Pair(t) \in PairType
           /\ Pair(t).k = task[t] /\ Pair(t).c = client[t]
           /\ task[t] \in TaskRecord /\ client[t] \in ClientRecord
<1>1. task[t] \in TaskRecord /\ client[t] \in ClientRecord
  BY DEF IInv, TypeOK
<1>2. Pair(t) \in PairType
  BY <1>1, PairIntro DEF Pair
<1>3. Pair(t).k = task[t] /\ Pair(t).c = client[t]
  BY DEF Pair
<1>4. Fit(task[t])
  BY DEF IInv, Watched, Fit
<1> QED
  BY <1>1, <1>2, <1>3, <1>4 DEF Good

LEMMA UpdateGood ==
    ASSUME IInv, NEW t \in Tasks, NEW p, Good(p), Update(t, p)
    PROVE  TablesOK'
<1>1. p.k \in TaskRecord /\ p.c \in ClientRecord /\ Fit(p.k)
  BY PairParts DEF Good
<1>2. task' = [task EXCEPT ![t] = p.k] /\ client' = [client EXCEPT ![t] = p.c]
  BY DEF Update
<1>3. task \in [Tasks -> TaskRecord] /\ client \in [Tasks -> ClientRecord]
  BY DEF IInv, TypeOK
<1>4. task' \in [Tasks -> TaskRecord] /\ client' \in [Tasks -> ClientRecord]
  BY <1>1, <1>2, <1>3
<1>5. ASSUME NEW u \in Tasks PROVE Fit(task'[u])
  <2>1. Fit(task[u])
    BY DEF IInv, Watched, Fit
  <2>2. task'[u] = IF u = t THEN p.k ELSE task[u]
    BY <1>2, <1>3
  <2> QED
    BY <1>1, <2>1, <2>2
<1>6. Watched'
  BY <1>5 DEF Watched, Fit
<1> QED
  BY <1>4, <1>6 DEF TablesOK

LEMMA ClientGood ==
    ASSUME IInv, NEW t \in Tasks, NEW c \in ClientRecord,
           client' = [client EXCEPT ![t] = c], UNCHANGED task
    PROVE  TablesOK'
  BY DEF IInv, TypeOK, TablesOK, Watched

LEMMA TablesSame ==
    ASSUME IInv, UNCHANGED <<task, client>>
    PROVE  TablesOK'
  BY DEF IInv, TypeOK, TablesOK, Watched

LEMMA RecordType ==
    ASSUME IInv, NEW t \in Tasks, NEW n \in Nat,
           NEW name \in {"established", "event", "reply", "done", "fail"},
           Record(t, name, n)
    PROVE  log' \in [Tasks -> Seq(Notes)]
<1>1. Note(name, n) \in Notes
  BY NoteType
<1>2. log[t] \in Seq(Notes)
  BY DEF IInv, TypeOK
<1>3. Append(log[t], Note(name, n)) \in Seq(Notes)
  BY <1>1, <1>2
<1> QED
  BY <1>3 DEF Record, IInv, TypeOK

\* What is left of TypeOK.
RestOK ==
    /\ backlog \in Seq(Tasks)
    /\ waitFor \in Tasks \cup {NoTask}
    /\ asking \in Tasks \cup {NoTask}
    /\ sigchld \subseteq Tasks
    /\ log \in [Tasks -> Seq(Notes)]
    /\ up \in BOOLEAN

LEMMA IInvParts == IInv <=> TablesOK /\ RestOK
  BY DEF IInv, TypeOK, TablesOK, RestOK

LEMMA IInvPartsPrime == IInv' <=> TablesOK' /\ RestOK'
  BY DEF IInv, TypeOK, TablesOK, RestOK

-----------------------------------------------------------------------------
(* Script statements.                                                      *)

LEMMA CreateStep ==
    ASSUME IInv, NEW t \in Tasks, Create(t)
    PROVE  IInv'
<1> DEFINE k == [task[t] EXCEPT
                    !.active = "initial", !.held = TRUE, !.regd = TRUE,
                    !.local = IF Kind[t] = "pipe" THEN "live" ELSE @,
                    !.sel = IF Kind[t] = "pipe" THEN "local" ELSE @]
           c == [client[t] EXCEPT !.proc = "starting"]
           p == [k |-> k, c |-> c]
<1>1. task[t] \in TaskRecord /\ client[t] \in ClientRecord /\ Fit(task[t])
  BY PairGood DEF Good
<1>2. task[t].active = "none"
  BY DEF Create
<1>3. k \in TaskRecord /\ Fit(k)
  BY <1>1, <1>2 DEF TaskRecord, Fit
<1>4. c \in ClientRecord
  BY <1>1 DEF ClientRecord
<1>5. Update(t, p)
  BY DEF Create, Update
<1> HIDE DEF k, c
<1>6. Good(p)
  BY <1>3, <1>4, PairIntro DEF Good
<1> HIDE DEF p
<1>7. TablesOK'
  BY <1>5, <1>6, UpdateGood
<1>8. RestOK'
  BY IInvParts DEF Create, RestOK
<1> QED
  BY <1>7, <1>8, IInvPartsPrime

LEMMA SendStep ==
    ASSUME IInv, NEW t \in Tasks, Send(t)
    PROVE  IInv'
<1> DEFINE p == SendOrBundle(Counted(Pair(t)), task[t].nsent + 1)
<1>1. Good(Pair(t)) /\ Pair(t) \in PairType /\ task[t] \in TaskRecord
  BY PairGood
<1>2. Good(Counted(Pair(t)))
  BY <1>1, CountedKeeps, KeepsGood
<1>3. task[t].nsent + 1 \in Nat
  BY <1>1 DEF TaskRecord
<1>4. Good(p)
  BY <1>2, <1>3, SendOrBundleKeeps, KeepsGood DEF Good
<1>5. Update(t, p)
  BY DEF Send
<1> HIDE DEF p
<1>6. TablesOK'
  BY <1>4, <1>5, UpdateGood
<1>7. RestOK'
  BY IInvParts DEF Send, RestOK
<1> QED
  BY <1>6, <1>7, IInvPartsPrime

LEMMA SetBundleStep ==
    ASSUME IInv, NEW t \in Tasks, SetBundle(t)
    PROVE  IInv'
<1>1. PICK n \in BundleSizes : Update(t, BundleEvents(Pair(t), n))
  BY DEF SetBundle
<1>2. n \in Nat
  BY BundleAssumption
<1>3. Good(BundleEvents(Pair(t), n))
  BY <1>2, PairGood, BundleEventsKeeps, KeepsGood
<1>4. TablesOK'
  BY <1>1, <1>3, UpdateGood
<1>5. RestOK'
  BY IInvParts DEF SetBundle, RestOK
<1> QED
  BY <1>4, <1>5, IInvPartsPrime

LEMMA FlushStep ==
    ASSUME IInv, NEW t \in Tasks, Flush(t)
    PROVE  IInv'
<1>1. Good(FlushEvents(Pair(t)))
  BY PairGood, FlushEventsKeeps, KeepsGood
<1>2. TablesOK'
  BY <1>1, UpdateGood DEF Flush
<1>3. RestOK'
  BY IInvParts DEF Flush, RestOK
<1> QED
  BY <1>2, <1>3, IInvPartsPrime

LEMMA DropStep ==
    ASSUME IInv, NEW t \in Tasks, Drop(t)
    PROVE  IInv'
<1>1. CASE task[t].regd
  <2> DEFINE k == [task[t] EXCEPT !.held = FALSE]
             p == [k |-> k, c |-> client[t]]
  <2>1. task[t] \in TaskRecord /\ client[t] \in ClientRecord /\ Fit(task[t])
    BY PairGood DEF Good
  <2>2. k \in TaskRecord /\ Fit(k)
    BY <2>1 DEF TaskRecord, Fit
  <2>3. task' = [task EXCEPT ![t] = k] /\ client' = client /\ up' = up
    BY <1>1 DEF Drop
  <2>4. client' = [client EXCEPT ![t] = client[t]]
    BY <2>3 DEF IInv, TypeOK
  <2> HIDE DEF k
  <2>5. Good(p)
    BY <2>1, <2>2, PairIntro DEF Good
  <2>6. Update(t, p)
    BY <2>3, <2>4 DEF Update
  <2> HIDE DEF p
  <2>7. TablesOK'
    BY <2>5, <2>6, UpdateGood
  <2>8. RestOK'
    BY <2>3, IInvParts DEF Drop, RestOK
  <2> QED
    BY <2>7, <2>8, IInvPartsPrime
<1>2. CASE ~task[t].regd
  <2>1. Good(Destroy(Pair(t)))
    BY PairGood, DestroyGood
  <2>2. Update(t, Destroy(Pair(t))) /\ up' = ~NilSelector(Pair(t))
    BY <1>2 DEF Drop
  <2>3. TablesOK'
    BY <2>1, <2>2, UpdateGood
  <2>4. up' \in BOOLEAN
    BY <2>2 DEF NilSelector
  <2>5. RestOK'
    BY <2>4, IInvParts DEF Drop, RestOK
  <2> QED
    BY <2>3, <2>5, IInvPartsPrime
<1> QED
  BY <1>1, <1>2

-----------------------------------------------------------------------------
(* Requests.                                                               *)

LEMMA RequestStep ==
    ASSUME IInv, NEW t \in Tasks, Request(t)
    PROVE  IInv'
<1>1. Good(FlushEvents(Pair(t)))
  BY PairGood, FlushEventsKeeps, KeepsGood
<1>2. Good(SendRequest(FlushEvents(Pair(t))))
  BY <1>1, SendRequestKeeps, KeepsGood DEF Good
<1>3. TablesOK'
  BY <1>2, UpdateGood DEF Request
<1>4. RestOK'
  BY IInvParts DEF Request, RestOK
<1> QED
  BY <1>3, <1>4, IInvPartsPrime

LEMMA FlushedUnconnected ==
    ASSUME IInv, NEW t \in Tasks, task[t].chan = "none"
    PROVE  LET q == Counted(FlushEvents(Pair(t)))
           IN  /\ q.k \in TaskRecord /\ q.c \in ClientRecord
               /\ q.k.active # "active" /\ q.k.sel # "client"
<1> DEFINE p == FlushEvents(Pair(t))
           q == Counted(p)
<1>1. Good(Pair(t)) /\ Pair(t) \in PairType /\ Pair(t).k = task[t]
  BY PairGood
<1>2. Keeps(Pair(t), p)
  BY <1>1, FlushEventsKeeps
<1> HIDE DEF p
<1>3. Keeps(p, q)
  BY <1>2, CountedKeeps DEF Keeps
<1> HIDE DEF q
<1>4. Keeps(Pair(t), q)
  BY <1>2, <1>3, KeepsTransitive
<1>5. q.k \in TaskRecord /\ q.c \in ClientRecord
  BY <1>4, PairParts DEF Keeps
<1>6. q.k.active # "active" /\ q.k.sel # "client"
  BY <1>1, <1>4 DEF Keeps, Good, Fit
<1> QED
  BY <1>5, <1>6 DEF q, p

\* A dead channel, orphan or stale, is not watched.
LEMMA DeadChannelGood ==
    ASSUME NEW k \in TaskRecord, NEW c \in ClientRecord,
           k.active # "active", k.sel # "client",
           NEW s \in {"none", "local"}, NEW ch \in {"orphan", "stale"}
    PROVE  Good([k |-> [k EXCEPT !.chan = ch, !.sel = s], c |-> c])
<1> DEFINE r == [k EXCEPT !.chan = ch, !.sel = s]
<1>1. r \in TaskRecord /\ Fit(r)
  BY DEF TaskRecord, Fit
<1> HIDE DEF r
<1>2. Good([k |-> r, c |-> c])
  BY <1>1, PairIntro DEF Good
<1> QED
  BY <1>2 DEF r

LEMMA RequestLocalStep ==
    ASSUME IInv, NEW t \in Tasks, RequestLocal(t)
    PROVE  IInv'
<1> DEFINE p == FlushEvents(Pair(t))
           q == Counted(p)
           r == [k |-> [q.k EXCEPT !.chan = "orphan", !.sel = "none"],
                 c |-> q.c]
<1>1. task[t].chan = "none" /\ Readable(t)
  BY DEF RequestLocal
<1>2. CASE AtEOF(t)
  <2>1. Good(r)
    BY <1>1, FlushedUnconnected, DeadChannelGood
  <2>2. Update(t, r) /\ UNCHANGED log
    BY <1>2 DEF RequestLocal
  <2> HIDE DEF r
  <2>3. TablesOK'
    BY <2>1, <2>2, UpdateGood
  <2>4. RestOK'
    BY <2>2, IInvParts DEF RequestLocal, RestOK
  <2> QED
    BY <2>3, <2>4, IInvPartsPrime
<1>3. CASE ~AtEOF(t)
  <2>1. Update(t, SendRequest(Associate(p))) /\ Record(t, "established", 0)
    BY <1>3 DEF RequestLocal
  <2>2. p \in PairType /\ p.c.inbox = client[t].inbox
    <3>1. Pair(t) \in PairType /\ Pair(t).c = client[t]
      BY PairGood
    <3>2. p \in PairType
      BY <3>1, FlushEventsKeeps DEF Keeps
    <3>3. p.c.inbox = Pair(t).c.inbox
      BY <3>1, PairParts DEF FlushEvents, SendEvent, Write, ClientRecord
    <3> QED
      BY <3>1, <3>2, <3>3
  <2>3. client[t].inbox # << >>
    BY <1>1, <1>3 DEF Readable, AtEOF
  <2> HIDE DEF p
  <2>4. Good(Associate(p))
    BY <2>2, <2>3, AssociateGood
  <2>5. Good(SendRequest(Associate(p)))
    BY <2>4, SendRequestKeeps, KeepsGood DEF Good
  <2>6. TablesOK'
    BY <2>1, <2>5, UpdateGood
  <2>7. log' \in [Tasks -> Seq(Notes)]
    BY <2>1, RecordType
  <2>8. RestOK'
    BY <2>7, IInvParts DEF RequestLocal, RestOK
  <2> QED
    BY <2>6, <2>8, IInvPartsPrime
<1> QED
  BY <1>2, <1>3

LEMMA RequestFreedStep ==
    ASSUME IInv, NEW t \in Tasks, RequestFreed(t)
    PROVE  IInv'
<1> DEFINE q == Counted(FlushEvents(Pair(t)))
           k == [q.k EXCEPT !.chan = "stale"]
           r == [k |-> k, c |-> q.c]
<1>1. task[t].chan = "none" /\ Update(t, r)
  BY DEF RequestFreed
<1>2. q.k \in TaskRecord /\ q.c \in ClientRecord
      /\ q.k.active # "active" /\ q.k.sel # "client"
  BY <1>1, FlushedUnconnected
<1> HIDE DEF q
<1>3. k \in TaskRecord /\ Fit(k)
  BY <1>2 DEF TaskRecord, Fit
<1> HIDE DEF k
<1>4. Good(r)
  BY <1>2, <1>3, PairIntro DEF Good
<1> HIDE DEF r
<1>5. TablesOK'
  BY <1>1, <1>4, UpdateGood
<1>6. RestOK'
  BY IInvParts DEF RequestFreed, RestOK
<1> QED
  BY <1>5, <1>6, IInvPartsPrime

LEMMA RequestWaitStep ==
    ASSUME IInv, NEW t \in Tasks, RequestWait(t)
    PROVE  IInv'
<1>1. Good(FlushEvents(Pair(t)))
  BY PairGood, FlushEventsKeeps, KeepsGood
<1>2. TablesOK'
  BY <1>1, UpdateGood DEF RequestWait
<1>3. RestOK'
  BY IInvParts DEF RequestWait, RestOK
<1> QED
  BY <1>2, <1>3, IInvPartsPrime

-----------------------------------------------------------------------------
(* Connections.                                                            *)

LEMMA NewConnectionBrokenGood ==
    ASSUME IInv, NEW t \in Tasks, NewConnectionBroken(t)
    PROVE  TablesOK' /\ log' \in [Tasks -> Seq(Notes)]
<1> DEFINE k == [task[t] EXCEPT !.sel = IF @ = "local" THEN "none" ELSE @]
           p == [k |-> k, c |-> client[t]]
<1>1. task[t] \in TaskRecord /\ client[t] \in ClientRecord /\ Fit(task[t])
  BY PairGood DEF Good
<1>2. k \in TaskRecord /\ Fit(k)
  BY <1>1 DEF TaskRecord, Fit
<1>3. task' = [task EXCEPT ![t] = k] /\ client' = client /\ log' = log
  BY DEF NewConnectionBroken
<1>4. client' = [client EXCEPT ![t] = client[t]]
  BY <1>3 DEF IInv, TypeOK
<1> HIDE DEF k
<1>5. Good(p) /\ Update(t, p)
  BY <1>1, <1>2, <1>3, <1>4, PairIntro DEF Good, Update
<1> HIDE DEF p
<1> QED
  BY <1>3, <1>5, UpdateGood, IInvParts DEF RestOK

LEMMA AssociatedGood ==
    ASSUME IInv, NEW t \in Tasks, Readable(t), ~AtEOF(t)
    PROVE  Good(Associate(Pair(t)))
<1>1. client[t].inbox # << >>
  BY DEF Readable, AtEOF
<1> QED
  BY <1>1, PairGood, AssociateGood

LEMMA NewConnectionKeptGood ==
    ASSUME IInv, NEW t \in Tasks, NEW p, Good(p), NewConnectionKept(t, p)
    PROVE  TablesOK' /\ log' \in [Tasks -> Seq(Notes)]
<1>1. Update(t, p) /\ Record(t, "established", 0)
  BY DEF NewConnectionKept
<1> QED
  BY <1>1, UpdateGood, RecordType

LEMMA NewConnectionUnwantedGood ==
    ASSUME IInv, NEW t \in Tasks, Readable(t), NewConnectionUnwanted(t)
    PROVE  TablesOK' /\ log' \in [Tasks -> Seq(Notes)]
<1>1. /\ ~AtEOF(t) /\ log' = log
      /\ Update(t, Destroy(Associate(Pair(t))))
  BY DEF NewConnectionUnwanted
<1>2. Good(Destroy(Associate(Pair(t))))
  BY <1>1, AssociatedGood, DestroyGood
<1> QED
  BY <1>1, <1>2, UpdateGood, IInvParts DEF RestOK

LEMMA LocalReadyStep ==
    ASSUME IInv, NEW t \in Tasks, LocalReady(t)
    PROVE  IInv'
<1>1. Readable(t)
  BY DEF LocalReady
<1>2. TablesOK' /\ log' \in [Tasks -> Seq(Notes)]
  <2>1. CASE NewConnectionBroken(t)
    BY <2>1, NewConnectionBrokenGood
  <2>2. CASE NewConnectionKept(t, Associate(Pair(t)))
    <3>1. ~AtEOF(t)
      BY <2>2 DEF NewConnectionKept
    <3> QED
      BY <1>1, <2>2, <3>1, AssociatedGood, NewConnectionKeptGood
  <2>3. CASE NewConnectionUnwanted(t)
    BY <1>1, <2>3, NewConnectionUnwantedGood
  <2> QED
    BY <2>1, <2>2, <2>3 DEF LocalReady
<1>3. RestOK'
  BY <1>2, IInvParts DEF LocalReady, RestOK
<1> QED
  BY <1>2, <1>3, IInvPartsPrime

LEMMA BacklogHead ==
    ASSUME IInv, backlog # << >>
    PROVE  Head(backlog) \in Tasks /\ Tail(backlog) \in Seq(Tasks)
<1>1. backlog \in Seq(Tasks)
  BY DEF IInv, TypeOK
<1> QED
  BY <1>1

LEMMA AcceptReadyStep ==
    ASSUME IInv, AcceptReady
    PROVE  IInv'
<1> DEFINE t == Head(backlog)
<1>1. backlog # << >>
  BY DEF AcceptReady
<1>2. t \in Tasks /\ Tail(backlog) \in Seq(Tasks)
  BY <1>1, BacklogHead
<1>3. /\ Readable(t)
      /\ \/ NewConnectionBroken(t)
         \/ NewConnectionKept(t, Associate(Pair(t)))
         \/ NewConnectionUnwanted(t)
  BY DEF AcceptReady
<1> HIDE DEF t
<1>4. TablesOK' /\ log' \in [Tasks -> Seq(Notes)]
  <2>1. CASE NewConnectionBroken(t)
    BY <1>2, <2>1, NewConnectionBrokenGood
  <2>2. CASE NewConnectionKept(t, Associate(Pair(t)))
    <3>1. ~AtEOF(t)
      BY <2>2 DEF NewConnectionKept
    <3> QED
      BY <1>2, <1>3, <2>2, <3>1, AssociatedGood, NewConnectionKeptGood
  <2>3. CASE NewConnectionUnwanted(t)
    BY <1>2, <1>3, <2>3, NewConnectionUnwantedGood
  <2> QED
    BY <1>3, <2>1, <2>2, <2>3
<1>5. RestOK'
  BY <1>2, <1>4, IInvParts DEF AcceptReady, RestOK
<1> QED
  BY <1>4, <1>5, IInvPartsPrime

LEMMA WaitAcceptStep ==
    ASSUME IInv, WaitAccept
    PROVE  IInv'
<1> DEFINE t == Head(backlog)
<1>1. backlog # << >>
  BY DEF WaitAccept
<1>2. t \in Tasks /\ Tail(backlog) \in Seq(Tasks)
  BY <1>1, BacklogHead
<1>3. /\ Readable(t)
      /\ \/ NewConnectionBroken(t)
         \/ NewConnectionUnwanted(t)
         \/ NewConnectionKept(t, SendRequest(Associate(Pair(t))))
         \/ NewConnectionKept(t, Associate(Pair(t)))
      /\ waitFor' \in {NoTask, waitFor} /\ asking' \in {asking, t}
      /\ backlog' = Tail(backlog) /\ UNCHANGED <<sigchld, up>>
  BY DEF WaitAccept
<1> HIDE DEF t
<1>4. TablesOK' /\ log' \in [Tasks -> Seq(Notes)]
  <2>1. CASE NewConnectionBroken(t)
    BY <1>2, <2>1, NewConnectionBrokenGood
  <2>2. CASE NewConnectionKept(t, Associate(Pair(t)))
    <3>1. ~AtEOF(t)
      BY <2>2 DEF NewConnectionKept
    <3> QED
      BY <1>2, <1>3, <2>2, <3>1, AssociatedGood, NewConnectionKeptGood
  <2>3. CASE NewConnectionUnwanted(t)
    BY <1>2, <1>3, <2>3, NewConnectionUnwantedGood
  <2>4. CASE NewConnectionKept(t, SendRequest(Associate(Pair(t))))
    <3>1. ~AtEOF(t)
      BY <2>4 DEF NewConnectionKept
    <3>2. Good(Associate(Pair(t)))
      BY <1>2, <1>3, <3>1, AssociatedGood
    <3>3. Good(SendRequest(Associate(Pair(t))))
      BY <3>2, SendRequestKeeps, KeepsGood DEF Good
    <3> QED
      BY <1>2, <2>4, <3>3, NewConnectionKeptGood
  <2> QED
    BY <1>3, <2>1, <2>2, <2>3, <2>4
<1>5. RestOK'
  BY <1>2, <1>3, <1>4, IInvParts DEF RestOK
<1> QED
  BY <1>4, <1>5, IInvPartsPrime

-----------------------------------------------------------------------------
(* Events from clients, and their deaths.                                  *)

LEMMA ReadMessageStep ==
    ASSUME IInv, NEW t \in Tasks, ReadMessage(t)
    PROVE  IInv'
<1> DEFINE m == Head(client[t].inbox)
           c == [client[t] EXCEPT !.inbox = Tail(@)]
           p == [k |-> task[t], c |-> c]
<1>1. task[t] \in TaskRecord /\ client[t] \in ClientRecord /\ Fit(task[t])
  BY PairGood DEF Good
<1>2. client[t].inbox \in Seq(Notes) /\ client[t].inbox # << >>
  BY <1>1 DEF ReadMessage, ClientRecord
<1>3. m \in Notes /\ Tail(client[t].inbox) \in Seq(Notes)
  BY <1>2
<1>4. c \in ClientRecord
  BY <1>1, <1>3 DEF ClientRecord
<1>5. /\ Update(t, IF m.name = "done" THEN SetFinished(p) ELSE p)
      /\ \/ asking' = NoTask /\ UNCHANGED log
         \/ UNCHANGED asking /\ Record(t, m.name, m.n)
  BY DEF ReadMessage
<1>6. /\ m.n \in Nat
      /\ m.name \in {"established", "event", "reply", "done", "fail"}
  BY <1>3 DEF Notes
<1> HIDE DEF m, c
<1>7. Good(p)
  BY <1>1, <1>4, PairIntro DEF Good
<1> HIDE DEF p
<1>8. Good(SetFinished(p))
  BY <1>7, SetFinishedGood
<1>9. TablesOK'
  BY <1>5, <1>7, <1>8, UpdateGood
<1>10. asking' \in Tasks \cup {NoTask} /\ log' \in [Tasks -> Seq(Notes)]
  <2>1. CASE asking' = NoTask /\ UNCHANGED log
    BY <2>1, IInvParts DEF RestOK
  <2>2. CASE UNCHANGED asking /\ Record(t, m.name, m.n)
    BY <1>6, <2>2, RecordType, IInvParts DEF RestOK
  <2> QED
    BY <1>5, <2>1, <2>2
<1>11. RestOK'
  BY <1>10, IInvParts DEF ReadMessage, RestOK
<1> QED
  BY <1>9, <1>11, IInvPartsPrime

LEMMA CloseFinishedGood ==
    ASSUME NEW p, Good(p), p.k.active = "finished"
    PROVE  Good(CloseChannel(p))
<1>1. CASE p.k.chan = "none"
  BY <1>1 DEF CloseChannel
<1>2. CASE p.k.chan # "none"
  <2> DEFINE k == [p.k EXCEPT !.chan = "none", !.sel = "none",
                              !.local = IF @ = "live" THEN "freed" ELSE @]
             c == [p.c EXCEPT !.hup = TRUE]
  <2>1. CloseChannel(p) = [k |-> k, c |-> c]
    BY <1>2 DEF CloseChannel
  <2>2. p.k \in TaskRecord
    BY PairParts DEF Good
  <2>3. k.active = "finished" /\ k.sel = "none"
    BY <2>2 DEF TaskRecord
  <2> HIDE DEF k, c
  <2> QED
    BY <2>1, <2>3, CloseChannelGood DEF Good, Fit
<1> QED
  BY <1>1, <1>2

LEMMA LostGood ==
    ASSUME IInv, NEW t \in Tasks, Lost(t)
    PROVE  TablesOK' /\ log' \in [Tasks -> Seq(Notes)]
<1>1. Good(Pair(t)) /\ Pair(t).k = task[t]
  BY PairGood
<1>2. CASE task[t].active = "finished"
  <2>1. Update(t, CloseChannel(Pair(t))) /\ log' = log
    BY <1>2 DEF Lost
  <2>2. Good(CloseChannel(Pair(t)))
    BY <1>1, <1>2, CloseFinishedGood
  <2> QED
    BY <2>1, <2>2, UpdateGood, IInvParts DEF RestOK
<1>3. CASE task[t].active # "finished"
  <2>1. Update(t, SetFinished(Pair(t))) /\ Record(t, "fail", 0)
    BY <1>3 DEF Lost
  <2>2. Good(SetFinished(Pair(t)))
    BY <1>1, SetFinishedGood
  <2> QED
    BY <2>1, <2>2, UpdateGood, RecordType
<1> QED
  BY <1>2, <1>3

LEMMA ReadEOFStep ==
    ASSUME IInv, NEW t \in Tasks, ReadEOF(t)
    PROVE  IInv'
<1>1. TablesOK' /\ log' \in [Tasks -> Seq(Notes)]
  BY LostGood DEF ReadEOF
<1>2. RestOK'
  BY <1>1, IInvParts DEF ReadEOF, RestOK
<1> QED
  BY <1>1, <1>2, IInvPartsPrime

LEMMA SigChldStep ==
    ASSUME IInv, NEW t \in Tasks, SigChld(t)
    PROVE  IInv'
<1>1. TablesOK' /\ log' \in [Tasks -> Seq(Notes)] /\ up' \in BOOLEAN
  <2>1. CASE task[t].active = "gone"
    BY <2>1, TablesSame, IInvParts DEF SigChld, RestOK
  <2>2. CASE task[t].active # "gone"
    <3>1. Lost(t) /\ up' = ~NilSelector(Pair(t))
      BY <2>2 DEF SigChld
    <3>2. up' \in BOOLEAN
      BY <3>1 DEF NilSelector
    <3> QED
      BY <3>1, <3>2, LostGood
  <2> QED
    BY <2>1, <2>2
<1>2. RestOK'
  BY <1>1, IInvParts DEF SigChld, RestOK
<1> QED
  BY <1>1, <1>2, IInvPartsPrime

-----------------------------------------------------------------------------
(* The client's own steps change only its record, and backlog or sigchld.  *)

LEMMA ClientStep ==
    ASSUME IInv, NEW t \in Tasks, NEW c \in ClientRecord,
           client' = [client EXCEPT ![t] = c], ClientOnly(t),
           backlog' \in Seq(Tasks), sigchld' \subseteq Tasks
    PROVE  IInv'
<1>1. TablesOK'
  BY ClientGood DEF ClientOnly
<1>2. RestOK'
  BY IInvParts DEF ClientOnly, RestOK
<1> QED
  BY <1>1, <1>2, IInvPartsPrime

\* A client that has died, or that has one more message on the way.
LEMMA ClientDead ==
    ASSUME NEW c \in ClientRecord, NEW s \in {"exited", "killed"}
    PROVE  [c EXCEPT !.proc = s, !.wire = << >>] \in ClientRecord
<1>1. ASSUME NEW w \in Seq(Message)
      PROVE  [c EXCEPT !.proc = s, !.wire = w] \in ClientRecord
  BY DEF ClientRecord
<1> QED
  BY <1>1, EmptySequences

LEMMA InboxAppend ==
    ASSUME NEW c \in ClientRecord, NEW n \in Nat,
           NEW name \in {"established", "event", "reply", "done", "fail"}
    PROVE  Append(c.inbox, Note(name, n)) \in Seq(Notes)
<1>1. c.inbox \in Seq(Notes)
  BY DEF ClientRecord
<1>2. Note(name, n) \in Notes
  BY NoteType
<1> QED
  BY <1>1, <1>2

LEMMA FinishedType ==
    ASSUME NEW c \in ClientRecord
    PROVE  Finished(c) \in ClientRecord
<1>1. ASSUME NEW w \in Seq(Message), NEW i \in Seq(Notes)
      PROVE  [c EXCEPT !.proc = "exited", !.wire = w, !.inbox = i]
                 \in ClientRecord
  BY DEF ClientRecord
<1>2. Append(c.inbox, Note("done", 0)) \in Seq(Notes)
  BY InboxAppend
<1>3. [c EXCEPT !.proc = "exited", !.wire = << >>,
                !.inbox = Append(c.inbox, Note("done", 0))] \in ClientRecord
  BY <1>1, <1>2, EmptySequences
<1> QED
  BY <1>3 DEF Finished

LEMMA ReceivedType ==
    ASSUME NEW c \in ClientRecord, c.wire # << >>,
           NEW g \in Seq(Nat), NEW o \in BOOLEAN
    PROVE  [c EXCEPT !.wire = Tail(@), !.got = g, !.owes = o] \in ClientRecord
<1>1. Tail(c.wire) \in Seq(Message)
  BY DEF ClientRecord
<1>2. ASSUME NEW w \in Seq(Message)
      PROVE  [c EXCEPT !.wire = w, !.got = g, !.owes = o] \in ClientRecord
  BY DEF ClientRecord
<1> QED
  BY <1>1, <1>2

LEMMA ProcessStep ==
    ASSUME IInv, NEW t \in Tasks, Process(t)
    PROVE  IInv'
<1> DEFINE c == client[t]
<1>1. c \in ClientRecord /\ backlog \in Seq(Tasks) /\ sigchld \subseteq Tasks
  BY PairGood DEF IInv, TypeOK
<1>2. c.nposted + 1 \in Nat
  BY <1>1 DEF ClientRecord
<1>3. CASE Connect(t)
  <2>1. [c EXCEPT !.proc = "connected"] \in ClientRecord
    BY <1>1 DEF ClientRecord
  <2>2. Append(backlog, t) \in Seq(Tasks)
    BY <1>1
  <2>3. /\ client' = [client EXCEPT ![t] = [c EXCEPT !.proc = "connected"]]
        /\ backlog' = Append(backlog, t) /\ ClientOnly(t)
        /\ sigchld' = sigchld
    BY <1>3 DEF Connect
  <2> QED
    BY <1>1, <2>1, <2>2, <2>3, ClientStep
<1>4. CASE Establish(t)
  <2> DEFINE i == Append(c.inbox, Note("established", 0))
             d == [c EXCEPT !.proc = "running", !.inbox = i]
  <2>1. i \in Seq(Notes)
    BY <1>1, InboxAppend
  <2>2. /\ client' = [client EXCEPT ![t] = d]
        /\ ClientOnly(t) /\ UNCHANGED <<backlog, sigchld>>
    BY <1>4 DEF Establish
  <2> HIDE DEF i
  <2>3. d \in ClientRecord
    BY <1>1, <2>1 DEF ClientRecord
  <2> HIDE DEF d
  <2> QED
    BY <1>1, <2>2, <2>3, ClientStep
<1>5. CASE Post(t)
  <2> DEFINE i == Append(c.inbox, Note("event", c.nposted + 1))
             n == c.nposted + 1
             d == [c EXCEPT !.nposted = n, !.inbox = i]
  <2>0. n \in Nat
    BY <1>2
  <2>1. i \in Seq(Notes)
    BY <1>1, <1>2, InboxAppend
  <2>2. /\ client' = [client EXCEPT ![t] = d]
        /\ ClientOnly(t) /\ UNCHANGED <<backlog, sigchld>>
    BY <1>5 DEF Post
  <2> HIDE DEF i, n, c
  <2>3. d \in ClientRecord
    BY <1>1, <2>0, <2>1 DEF ClientRecord
  <2> HIDE DEF d
  <2> QED
    BY <1>1, <2>2, <2>3, ClientStep
<1>6. CASE Receive(t)
  <2> DEFINE m == Head(c.wire)
             g == c.got \o m.evs
             o == c.owes \/ m.kind = "request"
             d == [c EXCEPT !.wire = Tail(@), !.got = g, !.owes = o]
  <2>1. c.wire # << >> /\ c.wire \in Seq(Message) /\ c.got \in Seq(Nat)
    BY <1>1, <1>6 DEF Receive, ClientRecord
  <2>2. m \in Message
    BY <2>1
  <2>3. m.evs \in Seq(Nat)
    BY <2>2 DEF Message
  <2>4. g \in Seq(Nat)
    BY <2>1, <2>3
  <2>5. o \in BOOLEAN
    BY <1>1 DEF ClientRecord
  <2>6. /\ client' = [client EXCEPT ![t] = IF IsTerminate(m) THEN Finished(c)
                                           ELSE d]
        /\ ClientOnly(t) /\ UNCHANGED <<backlog, sigchld>>
    BY <1>6 DEF Receive
  <2> HIDE DEF m, g, o, c
  <2>7. d \in ClientRecord
    BY <1>1, <2>1, <2>4, <2>5, ReceivedType
  <2>8. Finished(c) \in ClientRecord
    BY <1>1, FinishedType
  <2> HIDE DEF d
  <2> QED
    BY <1>1, <2>6, <2>7, <2>8, ClientStep
<1>7. CASE Reply(t)
  <2> DEFINE i == Append(c.inbox, Note("reply", 0))
             d == [c EXCEPT !.owes = FALSE, !.inbox = i]
  <2>1. i \in Seq(Notes)
    BY <1>1, InboxAppend
  <2>2. /\ client' = [client EXCEPT ![t] = d]
        /\ ClientOnly(t) /\ UNCHANGED <<backlog, sigchld>>
    BY <1>7 DEF Reply
  <2> HIDE DEF i
  <2>3. d \in ClientRecord
    BY <1>1, <2>1 DEF ClientRecord
  <2> HIDE DEF d
  <2> QED
    BY <1>1, <2>2, <2>3, ClientStep
<1>8. CASE HangUp(t) \/ Finish(t)
  <2>1. /\ client' = [client EXCEPT ![t] = Finished(c)]
        /\ ClientOnly(t) /\ UNCHANGED <<backlog, sigchld>>
    BY <1>8 DEF HangUp, Finish
  <2> QED
    BY <1>1, <2>1, FinishedType, ClientStep
<1>9. CASE Exit(t) \/ Kill(t)
  <2>1. PICK s \in {"exited", "killed"} :
            client' = [client EXCEPT ![t] = [c EXCEPT !.proc = s,
                                                      !.wire = << >>]]
    BY <1>9 DEF Exit, Kill
  <2>2. /\ ClientOnly(t) /\ UNCHANGED backlog
        /\ sigchld' \in {sigchld, sigchld \cup {t}}
    BY <1>9 DEF Exit, Kill
  <2>3. [c EXCEPT !.proc = s, !.wire = << >>] \in ClientRecord
    BY <1>1, ClientDead
  <2> QED
    BY <1>1, <2>1, <2>2, <2>3, ClientStep
<1> QED
  BY <1>3, <1>4, <1>5, <1>6, <1>7, <1>8, <1>9 DEF Process

-----------------------------------------------------------------------------
(* The theorems.                                                           *)

\* The invariant holds at the start and every step keeps it.
LEMMA InitIInv == Init => IInv
<1> SUFFICES ASSUME Init PROVE IInv
  OBVIOUS
<1>1. NewTask \in TaskRecord
  BY DEF NewTask, TaskRecord
<1>2. NewClient \in ClientRecord
  BY DEF NewClient, ClientRecord
<1>3. TablesOK
  BY <1>1, <1>2 DEF Init, TablesOK, Watched, NewTask
<1>4. RestOK
  BY DEF Init, RestOK
<1> QED
  BY <1>3, <1>4, IInvParts

LEMMA NextIInv == IInv /\ [Next]_vars => IInv'
<1> SUFFICES ASSUME IInv, [Next]_vars PROVE IInv'
  OBVIOUS
<1>1. ASSUME NEW t \in Tasks, Script(t) PROVE IInv'
  BY <1>1, CreateStep, SendStep, SetBundleStep, FlushStep, DropStep,
     RequestStep, RequestLocalStep, RequestFreedStep, RequestWaitStep
     DEF Script
<1>2. ASSUME NEW t \in Tasks, EventLoop(t) PROVE IInv'
  BY <1>2, LocalReadyStep, ReadMessageStep, ReadEOFStep DEF EventLoop
<1>3. ASSUME NEW t \in Tasks, SigChld(t) PROVE IInv'
  BY <1>3, SigChldStep
<1>4. ASSUME NEW t \in Tasks, Process(t) PROVE IInv'
  BY <1>4, ProcessStep
<1>5. CASE AcceptReady \/ WaitAccept
  BY <1>5, AcceptReadyStep, WaitAcceptStep
<1>6. CASE UNCHANGED vars
  BY <1>6 DEF IInv, TypeOK, Watched, vars
<1> QED
  BY <1>1, <1>2, <1>3, <1>4, <1>5, <1>6 DEF Next

\* Type correctness of every reachable state.
THEOREM TypeCorrect == Spec => []TypeOK
<1>1. IInv => TypeOK
  BY DEF IInv
<1> QED
  BY <1>1, InitIInv, NextIInv, PTL DEF Spec

\* A task is sACTIVE exactly while a ClientSelectee watches an open channel
\* of its own, whatever the order of connections, deaths, signals and
\* script statements.
THEOREM AlwaysWatched == Spec => []Watched
<1>1. IInv => Watched
  BY DEF IInv
<1> QED
  BY <1>1, InitIInv, NextIInv, PTL DEF Spec

=============================================================================
