------------------------------- MODULE Await -------------------------------
(***************************************************************************)
(* The interpreter waiting: event loops, nested awaits and requests, and   *)
(* the whenever bodies that run, and may wait themselves, meanwhile        *)
(* (Sequencer.cc, Select.cc).                                              *)
(*                                                                         *)
(* The interpreter is one thread whose call stack is explicit here.  A     *)
(* "loop" frame is a call of EventLoop(), an "empty" frame a call of       *)
(* EmptyTaskChannel() that has read an event and is running the whenever   *)
(* bodies it caused.  A body that awaits pushes another loop frame.        *)
(* Clients are connected from the start: Task is about how they come to be *)
(* and what is lost on the way.                                            *)
(***************************************************************************)
EXTENDS Integers, Sequences, FiniteSets

CONSTANTS
    Clients,
    Names,        \* the events clients post
    Whenevers,    \* the <<client, name>> pairs some whenever statement names
    Awaits,       \* the await statements, as executed: records of AwaitForm
    MaxPost,      \* bound on the events one client posts
    MaxAwaits,    \* bound on the depth of nested awaits
    MaxRequests,  \* bound on the requests the script makes
    MaxInterrupts,\* bound on the times the user types ^C
    NoEvent       \* "no event"

\* The interpreter makes these on a client's behalf.
EndNames == {"done", "fail"}
EventName == Names \cup EndNames \cup {"reply"}
Dsg == Clients \X EventName

\* stmt is the identity of the statement: executed again before it is
\* through (in a function, or a whenever body) it may name other agents.
AwaitForm == [stmt: Nat, want: SUBSET Dsg, except: SUBSET Dsg, only: BOOLEAN]

ASSUME ClientsAssumption == IsFiniteSet(Clients)
ASSUME NamesAssumption == Names \cap (EndNames \cup {"reply"}) = {}
ASSUME WheneversAssumption == Whenevers \subseteq Dsg
ASSUME AwaitsAssumption == Awaits \subseteq AwaitForm
ASSUME BoundsAssumption ==
    /\ MaxPost \in Nat /\ MaxAwaits \in Nat /\ MaxRequests \in Nat
    /\ MaxInterrupts \in Nat

Event == [agent: Clients, name: EventName, n: Nat]
ASSUME NoEventAssumption == NoEvent \notin Event

VARIABLES
    wire,      \* wire[c]: what c has posted, unread
    alive,     \* alive[c]: the process is running
    posted,    \* posted[c]: how much it has posted
    asked,     \* asked[c]: requests it has yet to reply to, oldest first
    open,      \* open[c]: the task has its channel, and a ClientSelectee
    awaits,    \* await_list
    left,      \* forms of awaits cut short, their interest still registered
    stack,     \* the interpreter's call stack
    notes,     \* notification_queue
    created,   \* created[c]: the events CreateEvent() has been called for
    nactive,   \* num_active_processes
    nreq,      \* requests made so far
    nint,      \* interrupts so far
    hung       \* a read blocks on a channel with nothing to read

vars == <<wire, alive, posted, asked, open, awaits, left, stack, notes,
          created, nactive, nreq, nint, hung>>

-----------------------------------------------------------------------------
(* await_type.  An entry is an await statement or a pending request.       *)

StmtEntry(a) == [kind |-> "stmt", form |-> a, client |-> {}, id |-> 0,
                 filled |-> NoEvent]

NoForm == [stmt |-> 0, want |-> {}, except |-> {}, only |-> FALSE]

ReplyEntry(c, id) == [kind |-> "reply", form |-> NoForm, client |-> {c},
                      id |-> id, filled |-> NoEvent]

Entry == [kind: {"stmt", "reply"}, form: Awaits \cup {NoForm},
          client: SUBSET Clients, id: Nat, filled: Event \cup {NoEvent}]

Frame == [kind: {"loop", "empty"}, await: BOOLEAN, phase: {"queue", "serve"},
          ready: SUBSET Clients, nested: BOOLEAN, client: SUBSET Clients,
          fin: BOOLEAN]

LoopFrame(await) == [kind |-> "loop", await |-> await, phase |-> "queue",
                     ready |-> {}, nested |-> FALSE, client |-> {},
                     fin |-> FALSE]

EmptyFrame(c, fin) == [kind |-> "empty", await |-> FALSE, phase |-> "queue",
                       ready |-> {}, nested |-> FALSE, client |-> {c},
                       fin |-> fin]

TypeOK ==
    /\ wire \in [Clients -> Seq([name: EventName, n: Nat])]
    /\ alive \in [Clients -> BOOLEAN]
    /\ posted \in [Clients -> Nat]
    /\ asked \in [Clients -> Seq(Nat)]
    /\ open \in [Clients -> BOOLEAN]
    /\ awaits \in Seq(Entry)
    /\ left \subseteq Awaits
    /\ stack \in Seq(Frame)
    /\ notes \in Seq(Event)
    /\ created \in [Clients -> Seq(Event)]
    /\ nactive \in Int
    /\ nreq \in Nat
    /\ nint \in Nat
    /\ hung \in BOOLEAN

Init ==
    /\ wire = [c \in Clients |-> << >>]
    /\ alive = [c \in Clients |-> TRUE]
    /\ posted = [c \in Clients |-> 0]
    /\ asked = [c \in Clients |-> << >>]
    /\ open = [c \in Clients |-> TRUE]
    /\ awaits = << >>
    /\ left = {}
    /\ stack = << >>
    /\ notes = << >>
    /\ created = [c \in Clients |-> << >>]
    /\ nactive = Cardinality(Clients)
    /\ nreq = 0
    /\ nint = 0
    /\ hung = FALSE

-----------------------------------------------------------------------------
(* Which awaits an event is for.                                           *)

DsgOf(e) == <<e.agent, e.name>>

IsReplyFor(a, e) ==
    a.kind = "reply" /\ a.client = {e.agent} /\ e.name = "reply"

\* Whose interest is registered: AwaitStmt::DoExec() from Register() to
\* UnRegister(), which longjmp() leaves out.
Registered ==
    left \cup {awaits[i].form : i \in {j \in DOMAIN awaits :
                                          awaits[j].kind = "stmt"}}

\* Slip: the statement is not compared.
HasInterestOfAny(a, e) ==
    /\ a.kind = "stmt"
    /\ \E f \in Registered : DsgOf(e) \in f.want \cup f.except

\* Agent::HasRegisteredInterest(): goes by the statement.  except_stmt is
\* the await statement itself, so what it excepts is registered for it too.
HasInterest(a, e) ==
    /\ a.kind = "stmt"
    /\ \E f \in Registered : /\ f.stmt = a.form.stmt
                             /\ DsgOf(e) \in f.want \cup f.except

\* await_type::SetValue() accepts the event.
Accepts(a, e) ==
    /\ a.filled = NoEvent
    /\ \/ IsReplyFor(a, e)
       \/ HasInterest(a, e) /\ DsgOf(e) \in a.form.want

Takers(e) == {i \in DOMAIN awaits : Accepts(awaits[i], e)}

Oldest(S) == CHOOSE i \in S : \A j \in S : i <= j

Top(s) == s[Len(s)]
Pop(s) == SubSeq(s, 1, Len(s) - 1)

\* Slip: the look-ahead starts at the newest await.
FillNewest(e) ==
    IF Takers(e) = {} THEN awaits
    ELSE [awaits EXCEPT ![CHOOSE i \in Takers(e) : \A j \in Takers(e) : i >= j]
              = [@ EXCEPT !.filled = e]]

\* Slip: SetValue() leaves filled_name unset.
FillNameless(e) ==
    IF Takers(e) = {} THEN awaits
    ELSE LET i == Oldest(Takers(e))
         IN  [awaits EXCEPT ![i] =
                  [awaits[i] EXCEPT !.filled = [e EXCEPT !.name = ""]]]

\* The look-ahead of Sequencer::NewEvent(): the oldest await takes it.
Fill(e) ==
    IF Takers(e) = {} THEN awaits
    ELSE LET i == Oldest(Takers(e))
         IN  [awaits EXCEPT ![i] = [awaits[i] EXCEPT !.filled = e]]

\* await_finished: nobody took the event, but the active await knows it.
Finishes(e) ==
    /\ Takers(e) = {}
    /\ awaits # << >>
    /\ LET top == Top(awaits) IN IsReplyFor(top, e) \/ HasInterest(top, e)

\* reply_event: the event answers a request and goes no further.
IsReply(e) ==
    IF Takers(e) # {} THEN awaits[Oldest(Takers(e))].kind = "reply"
    ELSE Finishes(e) /\ Top(awaits).kind = "reply"

\* Slip: "only" is not heeded.
IgnoresNothing(e) == FALSE

\* ignore_event: "ignored due to await".
Ignores(e) ==
    /\ Takers(e) = {}
    /\ awaits # << >>
    /\ Top(awaits).kind = "stmt"
    /\ Top(awaits).form.only
    /\ ~HasInterest(Top(awaits), e)

-----------------------------------------------------------------------------
(* Selector::DoSelection().                                                *)

Readable(c) == wire[c] # << >> \/ ~alive[c]

InLoop(phase) ==
    stack # << >> /\ Top(stack).kind = "loop" /\ Top(stack).phase = phase

\* Slip: looks at the first await rather than at the active one.
AwaitDoneOldest == awaits # << >> /\ awaits[1].filled # NoEvent

\* Sequencer::AwaitDone()
AwaitDone == awaits # << >> /\ Top(awaits).filled # NoEvent

SetTop(f) == stack' = [stack EXCEPT ![Len(stack)] = f]

\* EventLoop() returns, and with it the Await() or AwaitReply() that called.
LeaveLoop(s) ==
    /\ stack' = Pop(s)
    /\ awaits' = IF Top(s).await THEN Pop(awaits) ELSE awaits

\* select(): RunQueue() has nothing left to do.
Select ==
    /\ ~hung
    /\ InLoop("queue")
    /\ notes = << >>
    /\ ~AwaitDone
    /\ \E c \in Clients : open[c] /\ Readable(c)
    /\ SetTop([Top(stack) EXCEPT
                   !.phase = "serve",
                   !.ready = {c \in Clients : open[c] /\ Readable(c)}])
    /\ UNCHANGED <<wire, alive, posted, asked, open, awaits, notes, created,
                   nactive, nreq, nint, hung, left>>

\* DoSelection() begins by looking at whether the await is done.
AwaitOver ==
    /\ ~hung
    /\ InLoop("queue")
    /\ notes = << >>
    /\ AwaitDone
    /\ LeaveLoop(stack)
    /\ UNCHANGED <<wire, alive, posted, asked, open, notes, created, nactive,
                   nreq, nint, hung, left>>

\* The pass is over, or what is left of it has no selectee any more.
PassOver ==
    /\ ~hung
    /\ InLoop("serve")
    /\ \A c \in Top(stack).ready : ~open[c]
    /\ SetTop([Top(stack) EXCEPT !.phase = "queue", !.ready = {}])
    /\ UNCHANGED <<wire, alive, posted, asked, open, awaits, notes, created,
                   nactive, nreq, nint, hung, left>>

\* Every other loop on the stack sees that a selectee was notified.
Noticed(s) == [i \in DOMAIN s |-> [s[i] EXCEPT !.nested = i < Len(s)]]

\* NewEvent(agent, event): fill, create, and start RunQueue().
NewEvent(c, e) ==
    LET drop == IsReply(e) \/ Ignores(e)
    IN  /\ awaits' = Fill(e)
        /\ created' = IF drop THEN created
                      ELSE [created EXCEPT ![c] = Append(created[c], e)]
        /\ notes' = IF drop \/ DsgOf(e) \notin Whenevers THEN notes
                    ELSE Append(notes, e)
        /\ stack' = Append(
               Noticed([stack EXCEPT
                   ![Len(stack)] = [Top(stack) EXCEPT
                                        !.ready = Top(stack).ready \ {c}]]),
               EmptyFrame(c, Finishes(e)))

\* ClientSelectee::NotifyOfSelection() finds nothing to read.
ServeNothing(c) ==
    /\ ~Readable(c)
    /\ hung' = TRUE
    /\ UNCHANGED <<wire, open, awaits, stack, notes, created>>

\* Slip: what has been read is read again.
ServeMessageAgain(c) ==
    /\ wire[c] # << >>
    /\ LET m == Head(wire[c])
       IN  /\ NewEvent(c, [agent |-> c, name |-> m.name, n |-> m.n])
           /\ open' = [open EXCEPT ![c] = m.name # "done"]
    /\ UNCHANGED <<wire, hung>>

\* An event; "done" closes the channel.
ServeMessage(c) ==
    /\ wire[c] # << >>
    /\ LET m == Head(wire[c])
       IN  /\ NewEvent(c, [agent |-> c, name |-> m.name, n |-> m.n])
           /\ open' = [open EXCEPT ![c] = m.name # "done"]
    /\ wire' = [wire EXCEPT ![c] = Tail(wire[c])]
    /\ UNCHANGED hung

\* End of file: the channel is closed, and "fail" made up.
ServeEOF(c) ==
    /\ wire[c] = << >>
    /\ ~alive[c]
    /\ NewEvent(c, [agent |-> c, name |-> "fail", n |-> 0])
    /\ open' = [open EXCEPT ![c] = FALSE]
    /\ UNCHANGED <<wire, hung>>

\* EmptyTaskChannel() on a client that select() reported.
Serve(c) ==
    /\ ~hung
    /\ InLoop("serve")
    /\ c \in Top(stack).ready
    /\ open[c]
    /\ ServeNothing(c) \/ ServeMessage(c) \/ ServeEOF(c)
    /\ UNCHANGED <<alive, posted, asked, nactive, nreq, nint, left>>

\* Slip: DoSelection() goes on with its masks after a recursive call.
ServedBelowKeepingMasks(s) == s

\* DoSelection() after NotifyOfSelection() has returned: "recursive calls
\* [...] can read all of the active file descriptors".
ServedBelow(s) ==
    IF Top(s).nested
    THEN [s EXCEPT ![Len(s)] = [Top(s) EXCEPT !.phase = "queue", !.ready = {},
                                              !.nested = FALSE]]
    ELSE s

\* EmptyTaskChannel() returns, RunQueue() having emptied the queue.
Served ==
    /\ ~hung
    /\ stack # << >>
    /\ Top(stack).kind = "empty"
    /\ notes = << >>
    /\ LET f == Top(stack)
       IN  /\ nactive' = IF \A c \in f.client : open[c] THEN nactive
                         ELSE nactive - 1
           /\ IF f.fin THEN LeaveLoop(Pop(stack))
              ELSE /\ stack' = ServedBelow(Pop(stack))
                   /\ UNCHANGED awaits
    /\ UNCHANGED <<wire, alive, posted, asked, open, notes, created, nreq, nint,
                   hung, left>>

-----------------------------------------------------------------------------
(* The script: at top level, or in a whenever body RunQueue() has started. *)

\* A body is about to run: RunQueue() is active and takes a notification.
InQueue ==
    /\ ~hung
    /\ stack # << >>
    /\ Top(stack).kind = "empty" \/ InLoop("queue")
    /\ notes # << >>

\* The script has control.
Control ==
    \/ ~hung /\ stack = << >> /\ UNCHANGED notes
    \/ InQueue /\ notes' = Tail(notes)

\* A body that does not wait.
RunBody ==
    /\ InQueue
    /\ notes' = Tail(notes)
    /\ UNCHANGED <<wire, alive, posted, asked, open, awaits, stack, created,
                   nactive, nreq, nint, hung, left>>

\* Sequencer::Await()
StartAwait(a) ==
    /\ Len(awaits) < MaxAwaits
    /\ Control
    /\ awaits' = Append(awaits, StmtEntry(a))
    /\ stack' = Append(stack, LoopFrame(TRUE))
    /\ UNCHANGED <<wire, alive, posted, asked, open, created, nactive, nreq,
                   nint, hung, left>>

\* A request: Task::SendEvent() on a connected task, then AwaitReply().
StartRequest(c) ==
    /\ Len(awaits) < MaxAwaits
    /\ nreq < MaxRequests
    /\ open[c]
    /\ Control
    /\ nreq' = nreq + 1
    /\ asked' = [asked EXCEPT ![c] = Append(asked[c], nreq + 1)]
    /\ awaits' = Append(awaits, ReplyEntry(c, nreq + 1))
    /\ stack' = Append(stack, LoopFrame(TRUE))
    /\ UNCHANGED <<wire, alive, posted, open, created, nactive, nint, hung,
                   left>>

\* The script is through: Sequencer::Exec() goes to EventLoop().
EnterLoop ==
    /\ ~hung
    /\ stack = << >>
    /\ stack' = << LoopFrame(FALSE) >>
    /\ UNCHANGED <<wire, alive, posted, asked, open, awaits, notes, created,
                   nactive, nreq, nint, hung, left>>

\* Slip: await_list is not cleared.
InterruptKeepingAwaits ==
    /\ nint < MaxInterrupts
    /\ stack # << >>
    /\ stack[1].await
    /\ nint' = nint + 1
    /\ stack' = << >>
    /\ left' = Registered
    /\ hung' = FALSE
    /\ UNCHANGED <<wire, alive, posted, asked, open, awaits, notes, created,
                   nactive, nreq>>

\* ^C while a statement typed at the prompt is executing: glish_sigint(),
\* TopLevelReset() and longjmp().
Interrupt ==
    /\ nint < MaxInterrupts
    /\ stack # << >>
    /\ stack[1].await
    /\ nint' = nint + 1
    /\ stack' = << >>
    /\ awaits' = << >>
    /\ left' = Registered
    /\ hung' = FALSE
    /\ UNCHANGED <<wire, alive, posted, asked, open, notes, created, nactive,
                   nreq>>

-----------------------------------------------------------------------------
(* The clients.                                                            *)

Interpreter == UNCHANGED <<open, awaits, left, stack, notes, created, nactive,
                           nreq, nint, hung>>

Msg(name, n) == [name |-> name, n |-> n]

\* Client::PostEvent()
Post(c, name) ==
    /\ alive[c]
    /\ posted[c] < MaxPost
    /\ posted' = [posted EXCEPT ![c] = @ + 1]
    /\ wire' = [wire EXCEPT ![c] = Append(@, Msg(name, posted[c] + 1))]
    /\ UNCHANGED <<alive, asked>> /\ Interpreter

\* Client::Reply(), by a program that replies before it reads on.
Reply(c) ==
    /\ alive[c]
    /\ asked[c] # << >>
    /\ wire' = [wire EXCEPT ![c] = Append(@, Msg("reply", Head(asked[c])))]
    /\ asked' = [asked EXCEPT ![c] = Tail(@)]
    /\ UNCHANGED <<alive, posted>> /\ Interpreter

\* Client::~Client()
Finish(c) ==
    /\ alive[c]
    /\ alive' = [alive EXCEPT ![c] = FALSE]
    /\ wire' = [wire EXCEPT ![c] = Append(@, Msg("done", 0))]
    /\ UNCHANGED <<posted, asked>> /\ Interpreter

\* exit() without a "done".  (Task has the signals.)
Crash(c) ==
    /\ alive[c]
    /\ alive' = [alive EXCEPT ![c] = FALSE]
    /\ UNCHANGED <<wire, posted, asked>> /\ Interpreter

-----------------------------------------------------------------------------

Loop == Select \/ AwaitOver \/ PassOver \/ Served \/ RunBody

Next ==
    \/ Loop \/ EnterLoop \/ Interrupt
    \/ \E a \in Awaits : StartAwait(a)
    \/ \E c \in Clients :
           \/ Serve(c) \/ StartRequest(c)
           \/ Reply(c) \/ Finish(c) \/ Crash(c)
           \/ \E name \in Names : Post(c, name)

Spec == Init /\ [][Next]_vars

\* The interpreter never rests while it has something to do.
Fairness == WF_vars(Loop) /\ \A c \in Clients : WF_vars(Serve(c))

FairSpec == Spec /\ Fairness

-----------------------------------------------------------------------------
(* Properties.                                                             *)

\* select() said the descriptor was ready, and it still is when
\* EmptyTaskChannel() reads it with force_read: the interpreter never blocks
\* in a read because a recursive DoSelection() was there before it.
NeverBlocksInRead == ~hung

\* Of two pending awaits for the same event the older is served first (User
\* Manual 7.6.2: "the first await gets the first event coming from the
\* client"); so, too, of two requests to one client.
FirstAwaitFirst ==
    \A i, j \in DOMAIN awaits :
        /\ i < j
        /\ awaits[j].filled # NoEvent
        /\ \/ IsReplyFor(awaits[i], awaits[j].filled)
           \/ /\ awaits[i].kind = "stmt"
              /\ DsgOf(awaits[j].filled) \in awaits[i].form.want
        => awaits[i].filled # NoEvent

\* A request returns the reply to it and to no other request, however the
\* requests made by whenever bodies nest.
OwnReply ==
    \A i \in DOMAIN awaits :
        awaits[i].kind = "reply" /\ awaits[i].filled # NoEvent
            => awaits[i].filled.n = awaits[i].id

\* The events a client posted are in s in that order, none of them twice.
Rising(s) ==
    \A i, j \in DOMAIN s :
        i < j /\ s[i].name \in Names /\ s[j].name \in Names => s[i].n < s[j].n

\* Whenevers see a client's events in the order it posted them, none of
\* them twice, however event loops nest.
CreatedInOrder == \A c \in Clients : Rising(created[c])

\* Each await in await_list has its own EventLoop() call on the stack, in
\* the same order, so an event that ends the active await ends its loop.
AwaitsMatchLoops ==
    Len(awaits) = Cardinality({i \in DOMAIN stack : stack[i].await})

\* "await only" (CHANGES:921-924): while it is the active await no event is
\* processed that no pending await names.
OnlyHolds ==
    [][\A c \in Clients :
           /\ created'[c] # created[c]
           /\ awaits # << >>
           /\ Top(awaits).form.only
           =>
               \E i \in DOMAIN awaits :
                   /\ awaits[i].kind = "stmt"
                   /\ DsgOf(Top(created'[c])) \in
                          awaits[i].form.want \cup awaits[i].form.except]_vars

\* An await that is over has the event it waited for (Sequencer.h:442-445:
\* "Wait for an event in which await_stmt has expressed interest, though
\* while waiting process any of the events in which except_stmt has expressed
\* interest").
AwaitGetsEvent ==
    [][Served /\ Len(awaits') < Len(awaits)
           => Top(awaits).filled # NoEvent]_vars

ActiveFilled == awaits # << >> /\ Top(awaits).filled # NoEvent

\* An await whose event has arrived is over, or a newer one is active.
FilledAwaitReturns == ActiveFilled ~> (~ActiveFilled \/ hung)

=============================================================================
