------------------------------- MODULE Task -------------------------------
(***************************************************************************)
(* The interpreter's side of a Glish client: class Task (glish/Task.cc)    *)
(* with the parts of the Sequencer that connect it, read from it and bury  *)
(* it, against the client process and the channel between the two.         *)
(*                                                                         *)
(* A pair p == [k |-> task[t], c |-> client[t]] is the Task object with    *)
(* the far end of its channel; every Task method is an operator from pairs *)
(* to pairs, and an action applies the methods its handler calls in order. *)
(***************************************************************************)
EXTENDS Integers, Sequences, FiniteSets

CONSTANTS
    Tasks,        \* the client() calls the script makes
    Kind,         \* how each one is connected: one of Kinds
    BundleSizes,  \* arguments the script passes to bundle_events()
    MaxSend,      \* bound on the events the script sends to one task
    MaxPost,      \* bound on the events one client posts
    NoTask        \* "no task"

\* pipe: local, over a pair of pipes.  socket: local with force_sockets.
\* remote: started through a daemon (or by hand, async=T): not our child.
Kinds == {"pipe", "socket", "remote"}

ASSUME KindAssumption == Kind \in [Tasks -> Kinds]
ASSUME BoundAssumption == MaxSend \in Nat /\ MaxPost \in Nat
ASSUME BundleAssumption == BundleSizes \subseteq Nat
ASSUME NoTaskAssumption == NoTask \notin Tasks

VARIABLES
    task,      \* the Task objects
    client,    \* the client processes, with what is in transit both ways
    backlog,   \* connections waiting on connection_socket, oldest first
    waitFor,   \* the task WaitForTaskConnection() is blocked on
    asking,    \* the task whose reply AwaitReply() is waiting for
    sigchld,   \* children killed by a signal, SIGCHLD not yet handled
    log,       \* the events each task's agent has created, oldest first
    up         \* the interpreter is running (FALSE: it dereferenced nil)

vars == <<task, client, backlog, waitFor, asking, sigchld, log, up>>

-----------------------------------------------------------------------------
(* Values.  A script event is numbered by its place in what the script     *)
(* sent to the task; 0 is the "terminate" event.  A message is one         *)
(* GlishEvent on the wire: an event, a request or an "event-bundle".       *)

Terminate == 0

Event(n)   == [kind |-> "event", evs |-> <<n>>]
Ask(n)     == [kind |-> "request", evs |-> <<n>>]
Bundle(ns) == [kind |-> "bundle", evs |-> ns]

Message == [kind: {"event", "request", "bundle"}, evs: Seq(Nat)]

\* What a client sends: lifecycle events carry number 0.
Note(name, n) == [name |-> name, n |-> n]
Notes == [name: {"established", "event", "reply", "done", "fail"}, n: Nat]

\* Task::Task(): nothing is connected, the script and (RegisterTask) the
\* Sequencer each hold a reference.
NewTask == [active |-> "none",     \* none, initial, active, finished, gone
            chan   |-> "none",     \* Task::channel: none, open, orphan, stale
            local  |-> "none",     \* Task::local_channel: none, live, freed
            sel    |-> "none",     \* selectee on its fd: none, local, client
            pending |-> << >>,     \* pending_events
            bundle |-> << >>,
            bundleSize |-> 0,
            held   |-> FALSE,      \* the script still refers to the agent
            regd   |-> FALSE,      \* the reference taken by RegisterTask
            nsent  |-> 0]          \* events the script has sent

TaskRecord == [active: {"none", "initial", "active", "finished", "gone"},
               chan: {"none", "open", "orphan", "stale"},
               local: {"none", "live", "freed"},
               sel: {"none", "local", "client"},
               pending: Seq(Message), bundle: Seq(Nat), bundleSize: Nat,
               held: BOOLEAN, regd: BOOLEAN, nsent: Nat]

NewClient == [proc |-> "none",     \* none, starting, connected, running,
                                   \* exited, killed
              wire |-> << >>,      \* interpreter to client, unread
              inbox |-> << >>,     \* client to interpreter, unread
              hup |-> FALSE,       \* the interpreter closed its end
              owes |-> FALSE,      \* a reply is pending
              got |-> << >>,       \* events the client has read, less a plain
                                   \* "terminate"
              nposted |-> 0]

ClientRecord == [proc: {"none", "starting", "connected", "running",
                        "exited", "killed"},
                 wire: Seq(Message), inbox: Seq(Notes), hup: BOOLEAN,
                 owes: BOOLEAN, got: Seq(Nat), nposted: Nat]

TypeOK ==
    /\ task \in [Tasks -> TaskRecord]
    /\ client \in [Tasks -> ClientRecord]
    /\ backlog \in Seq(Tasks)
    /\ waitFor \in Tasks \cup {NoTask}
    /\ asking \in Tasks \cup {NoTask}
    /\ sigchld \subseteq Tasks
    /\ log \in [Tasks -> Seq(Notes)]
    /\ up \in BOOLEAN

Pair(t) == [k |-> task[t], c |-> client[t]]
Dead(t) == client[t].proc \in {"exited", "killed"}

\* A read of t's channel does not block: data, or end of file.
Readable(t) == client[t].inbox # << >> \/ Dead(t)

\* recv_event() returns nil.
AtEOF(t) == client[t].inbox = << >> /\ Dead(t)

-----------------------------------------------------------------------------
(* Task's methods, as functions of a pair.                                 *)

\* send_event() on a connected channel.  A dead reader discards it.
Write(p, ms) ==
    IF p.c.proc \in {"exited", "killed"} THEN p
    ELSE [k |-> p.k, c |-> [p.c EXCEPT !.wire = @ \o ms]]

\* Task::SendEvent(name, value): to the channel, or kept until there is one.
\* An orphan or stale channel leads nowhere.
SendEvent(p, m) ==
    CASE p.k.chan = "none" ->
             [k |-> [p.k EXCEPT !.pending = Append(@, m)], c |-> p.c]
      [] p.k.chan = "open" -> Write(p, <<m>>)
      [] OTHER -> p

FlushEvents(p) ==
    IF p.k.bundle = << >> THEN p
    ELSE LET q == SendEvent(p, Bundle(p.k.bundle))
         IN  [k |-> [q.k EXCEPT !.bundle = << >>], c |-> q.c]

\* Task::SendEvent(name, args), not a request: bundled if asked to.
SendOrBundle(p, n) ==
    IF p.k.bundleSize = 0 THEN SendEvent(p, Event(n))
    ELSE LET q == [k |-> [p.k EXCEPT !.bundle = Append(@, n)], c |-> p.c]
         IN  IF Len(q.k.bundle) >= q.k.bundleSize THEN FlushEvents(q) ELSE q

\* Slip: a bundle is full one event early, and "none" is not told apart.
BundleEventsLessOne(p, howmany) ==
    LET q == [k |-> [p.k EXCEPT !.bundleSize = howmany - 1], c |-> p.c]
    IN  IF Len(q.k.bundle) >= q.k.bundleSize THEN FlushEvents(q) ELSE q

\* Task::BundleEvents(howmany).
BundleEvents(p, howmany) ==
    LET size == IF howmany <= 1 THEN 0 ELSE howmany
        q == [k |-> [p.k EXCEPT !.bundleSize = size], c |-> p.c]
    IN  IF Len(q.k.bundle) >= q.k.bundleSize THEN FlushEvents(q) ELSE q

\* Slip: pending_events are not sent when the channel is set.
AssociateWithoutPending(p) ==
    [k |-> [p.k EXCEPT !.chan = "open", !.active = "active",
                       !.sel = "client", !.regd = FALSE],
     c |-> [p.c EXCEPT !.inbox = Tail(@)]]

\* Slip: no ClientSelectee is added.
AssociateUnwatched(p) ==
    LET q == Write(p, p.k.pending)
    IN  [k |-> [q.k EXCEPT !.pending = << >>, !.chan = "open",
                           !.active = "active", !.regd = FALSE],
         c |-> [q.c EXCEPT !.inbox = Tail(@)]]

\* Task::SetChannel(), SetActive(), the ClientSelectee of
\* AssociateTaskWithChannel() and the Unref() that follows it.
Associate(p) ==
    LET q == Write(p, p.k.pending)
    IN  [k |-> [q.k EXCEPT !.pending = << >>, !.chan = "open",
                           !.active = "active", !.sel = "client",
                           !.regd = FALSE],
         c |-> [q.c EXCEPT !.inbox = Tail(@)]]

\* Slip: the selectee is left behind.
CloseChannelStillSelected(p) ==
    IF p.k.chan = "none" THEN p
    ELSE [k |-> [p.k EXCEPT !.chan = "none",
                            !.local = IF @ = "live" THEN "freed" ELSE @],
          c |-> [p.c EXCEPT !.hup = TRUE]]

\* Task::CloseChannel().  The Channel of a local task is also local_channel,
\* which is left pointing at the freed object.
CloseChannel(p) ==
    IF p.k.chan = "none" THEN p
    ELSE [k |-> [p.k EXCEPT !.chan = "none", !.sel = "none",
                            !.local = IF @ = "live" THEN "freed" ELSE @],
          c |-> [p.c EXCEPT !.hup = TRUE]]

\* CloseChannel() calls selector->DeleteSelectee(); selector is set by
\* SetChannel(), which an orphan channel never saw.
NilSelector(p) == p.k.chan = "orphan"

\* Task::SetActivity(sFINISHED).
SetFinished(p) ==
    LET q == CloseChannel(p)
    IN  [k |-> [q.k EXCEPT !.active = "finished"], c |-> q.c]

\* Slip: the destructor leaves it to "terminate" to stop the client.
DestroyLeavingOpen(p) ==
    LET q == SendOrBundle(p, Terminate)
    IN  [k |-> [q.k EXCEPT !.active = "gone", !.held = FALSE, !.local = "none",
                           !.chan = "none", !.sel = "none",
                           !.pending = << >>, !.bundle = << >>],
         c |-> q.c]

\* Task::~Task().
Destroy(p) ==
    LET q == CloseChannel(SendOrBundle(p, Terminate))
    IN  [k |-> [q.k EXCEPT !.active = "gone", !.held = FALSE, !.local = "none",
                           !.pending = << >>, !.bundle = << >>],
         c |-> q.c]

Update(t, p) ==
    /\ task' = [task EXCEPT ![t] = p.k]
    /\ client' = [client EXCEPT ![t] = p.c]

Record(t, name, n) == log' = [log EXCEPT ![t] = Append(@, Note(name, n))]

-----------------------------------------------------------------------------
(* The script.  Statements run from the top level or from whenever bodies, *)
(* between two turns of the event loop.                                    *)

Idle == up /\ waitFor = NoTask

\* Slip: RegisterTask() takes no reference.
CreateUnreferenced(t) ==
    /\ Idle
    /\ task[t].active = "none"
    /\ task' = [task EXCEPT
           ![t] = [task[t] EXCEPT !.active = "initial", !.held = TRUE,
                            !.local = IF Kind[t] = "pipe" THEN "live" ELSE @,
                            !.sel = IF Kind[t] = "pipe" THEN "local" ELSE @]]
    /\ client' = [client EXCEPT ![t] = [client[t] EXCEPT !.proc = "starting"]]
    /\ UNCHANGED <<backlog, waitFor, asking, sigchld, log, up>>

\* client(...): Task::Exec() starts the process, and for pipes
\* AddLocalClient() watches for its first event.
Create(t) ==
    /\ Idle
    /\ task[t].active = "none"
    /\ task' = [task EXCEPT
           ![t] = [task[t] EXCEPT !.active = "initial", !.held = TRUE, !.regd = TRUE,
                            !.local = IF Kind[t] = "pipe" THEN "live" ELSE @,
                            !.sel = IF Kind[t] = "pipe" THEN "local" ELSE @]]
    /\ client' = [client EXCEPT ![t] = [client[t] EXCEPT !.proc = "starting"]]
    /\ UNCHANGED <<backlog, waitFor, asking, sigchld, log, up>>

CanSend(t) == Idle /\ task[t].held /\ task[t].nsent < MaxSend

Counted(p) == [k |-> [p.k EXCEPT !.nsent = @ + 1], c |-> p.c]

\* a->event(value)
Send(t) ==
    /\ CanSend(t)
    /\ Update(t, SendOrBundle(Counted(Pair(t)), task[t].nsent + 1))
    /\ UNCHANGED <<backlog, waitFor, asking, sigchld, log, up>>

\* bundle_events(a, n)
SetBundle(t) ==
    /\ Idle
    /\ task[t].held
    /\ \E n \in BundleSizes : Update(t, BundleEvents(Pair(t), n))
    /\ UNCHANGED <<backlog, waitFor, asking, sigchld, log, up>>

\* flush_events(a), and await_type::set() for every agent it awaits.
Flush(t) ==
    /\ Idle
    /\ task[t].held
    /\ task[t].bundle # << >>
    /\ Update(t, FlushEvents(Pair(t)))
    /\ UNCHANGED <<backlog, waitFor, asking, sigchld, log, up>>

\* The last script reference to the agent goes away.
Drop(t) ==
    /\ Idle
    /\ task[t].held
    /\ asking # t
    /\ IF task[t].regd
       THEN /\ task' = [task EXCEPT ![t] = [task[t] EXCEPT !.held = FALSE]]
            /\ UNCHANGED <<client, up>>
       ELSE /\ Update(t, Destroy(Pair(t)))
            /\ up' = ~NilSelector(Pair(t))
    /\ UNCHANGED <<backlog, waitFor, asking, sigchld, log>>

-----------------------------------------------------------------------------
(* result := a->event(value), a request: the bundle goes first, then the   *)
(* task is connected if it is not, then AwaitReply().  Requests made from  *)
(* whenever bodies that run while one is waiting are Await's subject.      *)

\* The request itself.
SendRequest(p) == SendEvent(Counted(p), Ask(p.k.nsent + 1))

CanAsk(t) == CanSend(t) /\ asking = NoTask

\* Slip: the bundle is not flushed ahead of the request.
RequestUnflushed(t) ==
    /\ CanAsk(t)
    /\ task[t].chan # "none"
    /\ Update(t, SendRequest(Pair(t)))
    /\ asking' = t
    /\ UNCHANGED <<backlog, waitFor, sigchld, log, up>>

Request(t) ==
    /\ CanAsk(t)
    /\ task[t].chan # "none"
    /\ Update(t, SendRequest(FlushEvents(Pair(t))))
    /\ asking' = t
    /\ UNCHANGED <<backlog, waitFor, sigchld, log, up>>

\* No channel yet, but a local_channel: NewConnection() on it, whose result
\* is discarded, and channel is set to it in any case.
RequestLocal(t) ==
    /\ CanAsk(t)
    /\ task[t].chan = "none"
    /\ task[t].local = "live"
    /\ Readable(t)
    /\ LET p == FlushEvents(Pair(t))
           q == Counted(p)
       IN  IF AtEOF(t)
           THEN /\ Update(t, [k |-> [q.k EXCEPT !.chan = "orphan",
                                                !.sel = "none"],
                              c |-> q.c])
                /\ UNCHANGED log
           ELSE /\ Update(t, SendRequest(Associate(p)))
                /\ Record(t, "established", 0)
    /\ asking' = t
    /\ UNCHANGED <<backlog, waitFor, sigchld, up>>

\* The same on a task whose Channel has been freed by CloseChannel(): reads
\* and writes go through a dangling pointer.
RequestFreed(t) ==
    /\ CanAsk(t)
    /\ task[t].chan = "none"
    /\ task[t].local = "freed"
    /\ LET q == Counted(FlushEvents(Pair(t)))
       IN  Update(t, [k |-> [q.k EXCEPT !.chan = "stale"], c |-> q.c])
    /\ asking' = t
    /\ UNCHANGED <<backlog, waitFor, sigchld, log, up>>

\* Neither: block in WaitForTaskConnection().
RequestWait(t) ==
    /\ CanAsk(t)
    /\ task[t].chan = "none"
    /\ task[t].local = "none"
    /\ Update(t, FlushEvents(Pair(t)))
    /\ waitFor' = t
    /\ UNCHANGED <<backlog, asking, sigchld, log, up>>

-----------------------------------------------------------------------------
(* Sequencer::NewConnection() on a channel whose first event can be read.  *)

\* The connection is broken: all that changes is that a LocalClientSelectee
\* on it is removed (a connection just accepted has no selectee).
NewConnectionBroken(t) ==
    /\ AtEOF(t)
    /\ task' = [task EXCEPT ![t] = [task[t] EXCEPT !.sel = IF @ = "local" THEN "none" ELSE @]]
    /\ UNCHANGED <<client, log>>

\* Established, and the script still refers to the task; p is the connected
\* pair, with what the caller goes on to do to it.
NewConnectionKept(t, p) ==
    /\ ~AtEOF(t)
    /\ task[t].held
    /\ Update(t, p)
    /\ Record(t, "established", 0)

\* Established, but only the registration kept the task: it is destroyed.
NewConnectionUnwanted(t) ==
    /\ ~AtEOF(t)
    /\ ~task[t].held
    /\ Update(t, Destroy(Associate(Pair(t))))
    /\ UNCHANGED log

\* LocalClientSelectee::NotifyOfSelection()
LocalReady(t) ==
    /\ Idle
    /\ task[t].sel = "local"
    /\ Readable(t)
    /\ \/ NewConnectionBroken(t)
       \/ NewConnectionKept(t, Associate(Pair(t)))
       \/ NewConnectionUnwanted(t)
    /\ UNCHANGED <<backlog, waitFor, asking, sigchld, up>>

\* AcceptSelectee::NotifyOfSelection()
AcceptReady ==
    /\ Idle
    /\ backlog # << >>
    /\ LET t == Head(backlog)
       IN  /\ Readable(t)
           /\ \/ NewConnectionBroken(t)
              \/ NewConnectionKept(t, Associate(Pair(t)))
              \/ NewConnectionUnwanted(t)
    /\ backlog' = Tail(backlog)
    /\ UNCHANGED <<waitFor, asking, sigchld, up>>

\* One turn of the loop in WaitForTaskConnection(): it gives up on any
\* connection that NewConnection() does not associate with a task.
WaitAccept ==
    /\ up
    /\ waitFor # NoTask
    /\ backlog # << >>
    /\ LET t == Head(backlog)
       IN  /\ Readable(t)
           /\ \/ /\ NewConnectionBroken(t) \/ NewConnectionUnwanted(t)
                 /\ waitFor' = NoTask
                 /\ UNCHANGED asking
              \/ /\ t = waitFor
                 /\ NewConnectionKept(t, SendRequest(Associate(Pair(t))))
                 /\ waitFor' = NoTask
                 /\ asking' = t
              \/ /\ t # waitFor
                 /\ NewConnectionKept(t, Associate(Pair(t)))
                 /\ UNCHANGED <<waitFor, asking>>
    /\ backlog' = Tail(backlog)
    /\ UNCHANGED <<sigchld, up>>

-----------------------------------------------------------------------------
(* ClientSelectee::NotifyOfSelection(): EmptyTaskChannel() reads one event *)
(* and hands it to NewEvent().                                             *)

ReadMessage(t) ==
    /\ Idle
    /\ task[t].sel = "client"
    /\ client[t].inbox # << >>
    /\ LET m == Head(client[t].inbox)
           p == [k |-> task[t], c |-> [client[t] EXCEPT !.inbox = Tail(@)]]
       IN  /\ Update(t, IF m.name = "done" THEN SetFinished(p) ELSE p)
           /\ IF m.name = "reply" /\ asking = t
              THEN asking' = NoTask /\ UNCHANGED log
              ELSE UNCHANGED asking /\ Record(t, m.name, m.n)
    /\ UNCHANGED <<backlog, waitFor, sigchld, up>>

\* NewEvent(task, nil): a "fail" event unless the task has finished.
Lost(t) ==
    /\ Update(t, IF task[t].active = "finished" THEN CloseChannel(Pair(t))
                 ELSE SetFinished(Pair(t)))
    /\ IF task[t].active = "finished" THEN UNCHANGED log
       ELSE Record(t, "fail", 0)

ReadEOF(t) ==
    /\ Idle
    /\ task[t].sel = "client"
    /\ AtEOF(t)
    /\ Lost(t)
    /\ UNCHANGED <<backlog, waitFor, asking, sigchld, up>>

\* ExecMinder::sigchld(), LocalExec::SetStatus(), Task::AbnormalExit(): the
\* handler runs whatever the interpreter is doing.  A task that has been
\* deleted is no longer on ExecMinder's list.
SigChld(t) ==
    /\ up
    /\ t \in sigchld
    /\ sigchld' = sigchld \ {t}
    /\ IF task[t].active = "gone"
       THEN UNCHANGED <<task, client, log, up>>
       ELSE Lost(t) /\ up' = ~NilSelector(Pair(t))
    /\ UNCHANGED <<backlog, waitFor, asking>>

-----------------------------------------------------------------------------
(* The client process: the Client library (glish/Client.cc.in) under a     *)
(* program that may post, finish, exit or crash when it pleases.           *)

ClientOnly(t) == UNCHANGED <<task, waitFor, asking, log, up>>

\* Client::Init() with -host: remote_connection().
Connect(t) ==
    /\ client[t].proc = "starting"
    /\ Kind[t] # "pipe"
    /\ client' = [client EXCEPT ![t] = [client[t] EXCEPT !.proc = "connected"]]
    /\ backlog' = Append(backlog, t)
    /\ ClientOnly(t) /\ UNCHANGED sigchld

\* Client::SendEstablishedEvent()
Establish(t) ==
    /\ client[t].proc = IF Kind[t] = "pipe" THEN "starting" ELSE "connected"
    /\ client' = [client EXCEPT ![t] = [client[t] EXCEPT !.proc = "running",
                     !.inbox = Append(@, Note("established", 0))]]
    /\ ClientOnly(t) /\ UNCHANGED <<backlog, sigchld>>

\* Client::PostEvent()
Post(t) ==
    /\ client[t].proc = "running"
    /\ client[t].nposted < MaxPost
    /\ client' = [client EXCEPT ![t] = [client[t] EXCEPT !.nposted = @ + 1,
                     !.inbox = Append(@, Note("event", client[t].nposted + 1))]]
    /\ ClientOnly(t) /\ UNCHANGED <<backlog, sigchld>>

\* Client::~Client() posts "done" and the process exits.
Finished(c) == [c EXCEPT !.proc = "exited", !.wire = << >>,
                         !.inbox = Append(@, Note("done", 0))]

\* A "terminate" in a bundle is one more event the program does not know.
IsTerminate(m) == m.kind = "event" /\ m.evs = <<Terminate>>

\* Client::GetEvent() with an event to read: "terminate" ends the program.
Receive(t) ==
    /\ client[t].proc = "running"
    /\ client[t].wire # << >>
    /\ LET c == client[t]
           m == Head(c.wire)
       IN  client' = [client EXCEPT ![t] =
               IF IsTerminate(m) THEN Finished(c)
               ELSE [c EXCEPT !.wire = Tail(@), !.got = @ \o m.evs,
                              !.owes = @ \/ m.kind = "request"]]
    /\ ClientOnly(t) /\ UNCHANGED <<backlog, sigchld>>

\* Client::Reply()
Reply(t) ==
    /\ client[t].proc = "running"
    /\ client[t].owes
    /\ client' = [client EXCEPT ![t] = [client[t] EXCEPT !.owes = FALSE,
                     !.inbox = Append(@, Note("reply", 0))]]
    /\ ClientOnly(t) /\ UNCHANGED <<backlog, sigchld>>

\* NextEvent() returns nil because the interpreter closed the channel.
HangUp(t) ==
    /\ client[t].proc = "running"
    /\ client[t].wire = << >>
    /\ client[t].hup
    /\ client' = [client EXCEPT ![t] = Finished(@)]
    /\ ClientOnly(t) /\ UNCHANGED <<backlog, sigchld>>

\* The program is done of its own accord.
Finish(t) ==
    /\ client[t].proc = "running"
    /\ client' = [client EXCEPT ![t] = Finished(@)]
    /\ ClientOnly(t) /\ UNCHANGED <<backlog, sigchld>>

Alive(t) == client[t].proc \in {"starting", "connected", "running"}

\* Slip: SetStatus() calls AbnormalExit() whatever the status.
ExitSignalled(t) ==
    /\ Alive(t)
    /\ client' = [client EXCEPT ![t] = [client[t] EXCEPT !.proc = "exited", !.wire = << >>]]
    /\ sigchld' = IF Kind[t] = "remote" THEN sigchld ELSE sigchld \cup {t}
    /\ ClientOnly(t) /\ UNCHANGED backlog

\* exit() without a word, from any point on (glish_fatal, say).
Exit(t) ==
    /\ Alive(t)
    /\ client' = [client EXCEPT ![t] = [client[t] EXCEPT !.proc = "exited", !.wire = << >>]]
    /\ ClientOnly(t) /\ UNCHANGED <<backlog, sigchld>>

\* Killed by a signal: a child of ours leaves a SIGCHLD behind.
Kill(t) ==
    /\ Alive(t)
    /\ client' = [client EXCEPT ![t] = [client[t] EXCEPT !.proc = "killed", !.wire = << >>]]
    /\ sigchld' = IF Kind[t] = "remote" THEN sigchld ELSE sigchld \cup {t}
    /\ ClientOnly(t) /\ UNCHANGED backlog

-----------------------------------------------------------------------------

Init ==
    /\ task = [t \in Tasks |-> NewTask]
    /\ client = [t \in Tasks |-> NewClient]
    /\ backlog = << >>
    /\ waitFor = NoTask
    /\ asking = NoTask
    /\ sigchld = {}
    /\ log = [t \in Tasks |-> << >>]
    /\ up = TRUE

Script(t) ==
    \/ Create(t) \/ Send(t) \/ SetBundle(t) \/ Flush(t) \/ Drop(t)
    \/ Request(t) \/ RequestLocal(t) \/ RequestFreed(t) \/ RequestWait(t)

EventLoop(t) == LocalReady(t) \/ ReadMessage(t) \/ ReadEOF(t)

Process(t) ==
    \/ Connect(t) \/ Establish(t) \/ Post(t) \/ Receive(t) \/ Reply(t)
    \/ HangUp(t) \/ Finish(t) \/ Exit(t) \/ Kill(t)

Next ==
    \/ \E t \in Tasks : Script(t) \/ EventLoop(t) \/ SigChld(t) \/ Process(t)
    \/ AcceptReady
    \/ WaitAccept

\* DoSelection() serves every ready descriptor it finds, so no ready one is
\* passed over for ever; a pending signal is delivered; a running client
\* reads what is sent to it.  Nothing is assumed of when clients post,
\* finish or die, nor of the script.
Fairness ==
    /\ \A t \in Tasks : /\ WF_vars(EventLoop(t))
                        /\ WF_vars(SigChld(t))
                        /\ WF_vars(Connect(t) \/ Establish(t))
                        /\ WF_vars(Receive(t) \/ HangUp(t))
                        /\ WF_vars(Reply(t))
    /\ WF_vars(AcceptReady)
    /\ WF_vars(WaitAccept)

Spec == Init /\ [][Next]_vars

FairSpec == Spec /\ Fairness

-----------------------------------------------------------------------------
(* Properties.                                                             *)

\* A client sees the script's events in the order they were sent, none
\* missing and none twice, however they travelled: held in pending_events
\* until the client connected, in a bundle, or straight down the channel,
\* and with a request overtaking nothing (Task::SendEvent, FlushEvents,
\* SetChannel).  Only a "terminate" left in a bundle can follow.
ReceivedInOrder ==
    \A t \in Tasks :
        LET got == client[t].got
        IN  \A i \in DOMAIN got : \/ got[i] = i
                                  \/ got[i] = Terminate /\ i = Len(got)

\* A client that leaves by exit() is heard to the end, each event once and
\* in the order posted: its task does not become finished while something
\* it posted is unread, since only death by a signal makes
\* LocalExec::SetStatus close the channel early.
CleanExitHeard ==
    \A t \in Tasks :
        LET events == {i \in DOMAIN log[t] : log[t][i].name = "event"}
        IN  /\ \A i, j \in events : i < j => log[t][i].n < log[t][j].n
            /\ task[t].active = "finished" /\ client[t].proc = "exited"
                   => \A n \in 1..client[t].nposted :
                          \E i \in events : log[t][i].n = n

\* Every active client, and no other, is watched: a task is sACTIVE exactly
\* while a ClientSelectee on an open channel of its own is installed, so
\* EmptyTaskChannel() never meets a nil channel and no live client's events
\* are left unread for want of a selectee.
Watched ==
    \A t \in Tasks :
        /\ task[t].active = "active" <=> task[t].sel = "client"
        /\ task[t].sel = "client" => task[t].chan = "open"

\* The reference RegisterTask() takes does its work: a Task is not deleted
\* before its client has connected, so an "established" event always finds
\* its task in ids_to_tasks.
KeptUntilEstablished ==
    \A t \in Tasks :
        task[t].active = "gone" =>
            /\ client[t].hup
            /\ \A i \in DOMAIN backlog : backlog[i] # t

\* Once a connected client is dead the interpreter finds out, unless it is
\* itself stuck in WaitForTaskConnection() (or has crashed).
DeathNoticed ==
    \A t \in Tasks :
        (task[t].active = "active" /\ Dead(t))
            ~> (task[t].active \in {"finished", "gone"} \/ waitFor # NoTask \/ ~up)

\* A client whose task is deleted stops: by "terminate", or, when that is
\* left behind in a bundle, because its channel is closed.
DroppedClientStops ==
    \A t \in Tasks : task[t].active = "gone" ~> Dead(t)

\* What AwaitReply() warns of, "terminated without replying to ... request"
\* (Sequencer.cc:3186), is that a request to a client that dies comes back.
RequestReturns ==
    \A t \in Tasks :
        (asking = t /\ task[t].active = "active" /\ Dead(t)) ~> (asking # t)

=============================================================================
