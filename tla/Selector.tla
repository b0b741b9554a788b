------------------------------ MODULE Selector ------------------------------
(***************************************************************************)
(* The selection loop of the interpreter: Selector keeps one Selectee per  *)
(* descriptor and the two descriptor sets it hands to select(), and a pass *)
(* of DoSelection() notifies the selectees of the descriptors select()     *)
(* reported, whose handlers may send events, open channels and close them  *)
(* while the pass goes on.  A client has a pair of pipes, or a socket that *)
(* is read and written through one descriptor; a write its descriptor does *)
(* not take at once is carried on by a SendSelectee, which on a socket     *)
(* takes the place of the client's own selectee until it is done.          *)
(*                                                                         *)
(* Nested passes (await inside a handler) are modelled in Await, the bytes *)
(* of a suspended write in Sink, timers in Probe.                          *)
(***************************************************************************)
EXTENDS Naturals, FiniteSets, FiniteSetsExt

CONSTANTS
    Clients,    \* the clients
    Sockets,    \* those connected through a socket
    NFd,        \* descriptors are 1..NFd
    MaxUnread   \* bound: events of a client waiting to be read

ASSUME SelectorAssumption ==
    /\ IsFiniteSet(Clients) /\ Sockets \subseteq Clients
    /\ NFd \in Nat /\ NFd >= 2 * Cardinality(Clients)
    /\ MaxUnread \in Nat \ {0}

VARIABLES
    selector,   \* selectees, r_fdset, w_fdset
    chan,       \* the clients' channels
    pass,       \* the pass of DoSelection() that is under way
    up,         \* the interpreter runs: gripe() has not ended it
    torn        \* history: a channel was closed below a SendSelectee

vars == <<selector, chan, pass, up, torn>>

Fd == 1..NFd

\* old: a SendSelectee remembers the client's own selectee
Selectee == [type : {"READ", "WRITE"}, c : Clients, old : BOOLEAN]
NoSel == [type |-> "none"]
ReadSel(c) == [type |-> "READ", c |-> c, old |-> FALSE]

\* r, w: descriptors; unread: events that can be read; gone: the client's
\* process has ended; room: the descriptor takes bytes; pend: the sink holds
\* bytes of a suspended write; fresh: the client has not said "established".
Closed == [r |-> 0, w |-> 0, unread |-> 0, gone |-> FALSE, room |-> TRUE,
           pend |-> FALSE, fresh |-> FALSE]

IsOpen(c) == chan[c].r # 0

----------------------------------------------------------------------------
(* Selector's operations, as functions of its state.                       *)

AddSelectee(S, fd, s) ==
    [S EXCEPT !.sel[fd] = s,
              !.r = IF s.type = "READ" THEN @ \cup {fd} ELSE @,
              !.w = IF s.type = "WRITE" THEN @ \cup {fd} ELSE @]

\* The bit that is cleared is the one of the selectee that is found; a
\* descriptor with a bit but no selectee is reported and left as it is.
DeleteSelectee(S, fd) ==
    IF fd \notin S.r \cup S.w THEN S
    ELSE LET s == S.sel[fd]
         IN  [S EXCEPT !.sel[fd] = NoSel,
                       !.r = IF s.type = "READ" THEN @ \ {fd} ELSE @,
                       !.w = IF s.type = "WRITE" THEN @ \ {fd} ELSE @]

FindSelectee(S, fd) == IF fd \in S.r \cup S.w THEN S.sel[fd] ELSE NoSel

----------------------------------------------------------------------------
(* Sending an event.                                                       *)

\* Slip: no SendSelectee where the descriptor has a selectee already.
SendSuspendedSlip(S, t, c) ==
    IF FindSelectee(S, t.w).type # "none" THEN S
    ELSE AddSelectee(S, t.w, [type |-> "WRITE", c |-> c, old |-> FALSE])

\* Slip: the selectee found on the descriptor is not remembered.
SendSuspendedOld(S, t, c) ==
    IF FindSelectee(S, t.w).type = "WRITE" THEN S
    ELSE AddSelectee(S, t.w, [type |-> "WRITE", c |-> c, old |-> FALSE])

\* Sequencer::SendSuspended()
SendSuspended(S, t, c) ==
    LET old == FindSelectee(S, t.w)
    IN  IF old.type = "WRITE" THEN S
        ELSE AddSelectee(S, t.w, [type |-> "WRITE", c |-> c,
                                  old |-> old.type = "READ"])

\* What flush() may leave of channel t when it has bytes to write.
Flushed(t) ==
    IF t.gone THEN {[t EXCEPT !.pend = FALSE]}
    ELSE IF t.room THEN {[t EXCEPT !.pend = FALSE],
                         [t EXCEPT !.pend = FALSE, !.room = FALSE],
                         [t EXCEPT !.pend = TRUE, !.room = FALSE]}
    ELSE {[t EXCEPT !.pend = TRUE]}

----------------------------------------------------------------------------
(* What a handler or a statement of the script may do: the outcomes are    *)
(* the next states of the selector, the channels and the history.          *)

Outcome(S, T, n) == [S |-> S, T |-> T, torn |-> n]

\* Task::sendEvent()
SendEvent(S, T, n, c) ==
    {Outcome(IF t.pend THEN SendSuspended(S, t, c) ELSE S,
             [T EXCEPT ![c] = t], n) : t \in Flushed(T[c])}

\* A channel for a client that has none: it gets the lowest descriptors.
OpenChannel(S, T, n, c) ==
    LET free == Fd \ ({T[d].r : d \in Clients} \cup {T[d].w : d \in Clients})
        r == Min(free)
        w == IF c \in Sockets THEN r ELSE Min(free \ {r})
    IN  Outcome(AddSelectee(S, r, ReadSel(c)),
                [T EXCEPT ![c] = [Closed EXCEPT !.r = r, !.w = w, !.fresh = TRUE]],
                n)

\* Slip: the channel is dropped, and its selectee stays.
CloseChannelSlip(S, T, n, c) ==
    Outcome(S, [T EXCEPT ![c] = Closed],
            n \/ FindSelectee(S, T[c].w).type = "WRITE")

\* Slip: the descriptors are closed, and the sink keeps its bytes.
CloseChannelKeep(S, T, n, c) ==
    Outcome(DeleteSelectee(S, T[c].r), [T EXCEPT ![c].r = 0, ![c].w = 0],
            n \/ FindSelectee(S, T[c].w).type = "WRITE")

\* Task::CloseChannel(): the selectee of the reading descriptor is deleted
\* and the descriptors are closed.
CloseChannel(S, T, n, c) ==
    Outcome(DeleteSelectee(S, T[c].r), [T EXCEPT ![c] = Closed],
            n \/ FindSelectee(S, T[c].w).type = "WRITE")

\* One statement, or none.
Statement(S, T, n) ==
    {Outcome(S, T, n)}
      \cup (UNION {SendEvent(S, T, n, c) : c \in {d \in Clients : T[d].r # 0}})
      \cup {OpenChannel(S, T, n, c) : c \in {d \in Clients : T[d].r = 0}}
      \cup {CloseChannel(S, T, n, c) : c \in {d \in Clients : T[d].r # 0}}

Take(o) == selector' = o.S /\ chan' = o.T /\ torn' = o.torn

\* A handler may close a channel and open another: two statements.
Handler(S, T, n) ==
    \E o \in Statement(S, T, n) : \E p \in Statement(o.S, o.T, o.torn) : Take(p)

----------------------------------------------------------------------------
(* DoSelection().                                                          *)

Readable(fd) == \E c \in Clients : /\ chan[c].r = fd
                                   /\ chan[c].unread > 0 \/ chan[c].gone
Writable(fd) == \E c \in Clients : /\ chan[c].w = fd
                                   /\ chan[c].room \/ chan[c].gone

OpenFds == {chan[c].r : c \in Clients} \cup {chan[c].w : c \in Clients}
BadFds == (selector.r \cup selector.w) \ OpenFds

NoPass == [on |-> FALSE, rm |-> {}, wm |-> {}, status |-> 0]

\* Slip: the loop goes by r_fdset instead of the copy select() changed.
SelectSlip ==
    /\ up /\ ~pass.on
    /\ BadFds = {}
    /\ LET rm == {fd \in selector.r : Readable(fd)}
           wm == {fd \in selector.w : Writable(fd)}
       IN  /\ rm \cup wm # {}
           /\ pass' = [on |-> TRUE, rm |-> selector.r, wm |-> wm,
                       status |-> Cardinality(rm) + Cardinality(wm)]
    /\ UNCHANGED <<selector, chan, up, torn>>

\* select() returns with descriptors that are ready.  With a closed one in
\* the sets it fails with EBADF, and DoSelection() returns 0 each time.
Select ==
    /\ up /\ ~pass.on
    /\ BadFds = {}
    /\ LET rm == {fd \in selector.r : Readable(fd)}
           wm == {fd \in selector.w : Writable(fd)}
       IN  /\ rm \cup wm # {}
           /\ pass' = [on |-> TRUE, rm |-> rm, wm |-> wm,
                       status |-> Cardinality(rm) + Cardinality(wm)]
    /\ UNCHANGED <<selector, chan, up, torn>>

\* The loop goes through the descriptors in ascending order.
NextFd == Min(pass.rm \cup pass.wm)

Visited == [pass EXCEPT !.rm = @ \ {NextFd}, !.wm = @ \ {NextFd},
                        !.status = @ - 1]

\* ClientSelectee: EmptyTaskChannel() reads one event and its handler runs,
\* or finds the end of the file and closes the channel.  A read for which
\* there is nothing yet blocks.
NotifyClient(c) ==
    LET t == chan[c]
        T == [chan EXCEPT ![c].unread = @ - 1]
    IN  \/ /\ t.unread > 0
           /\ Handler(selector, T, torn)
        \/ /\ t.unread = 0 /\ t.gone
           /\ Take(CloseChannel(DeleteSelectee(selector, t.r), chan, torn, c))

\* Slip: the client's own selectee is not put back.
SendDoneSlip(S, fd, s) == DeleteSelectee(S, fd)

\* resume() returned 0: the selectee goes, and the client's own comes back.
SendDone(S, fd, s) ==
    LET S1 == DeleteSelectee(S, fd)
    IN  IF s.old THEN AddSelectee(S1, fd, ReadSel(s.c)) ELSE S1

\* SendSelectee: resume() writes what the descriptor takes.  On a channel
\* that was closed meanwhile it works on freed memory: either result.
NotifySend(fd, s) ==
    LET t == chan[s.c]
        after == IF t.w # fd THEN {t, [t EXCEPT !.pend = TRUE]}
                 ELSE IF t.pend THEN Flushed(t) ELSE {t}
    IN  \E u \in after :
            /\ chan' = IF t.w = fd THEN [chan EXCEPT ![s.c] = u] ELSE chan
            /\ selector' = IF u.pend THEN selector ELSE SendDone(selector, fd, s)
            /\ UNCHANGED torn

\* The loop over the descriptors that select() reported.
Visit ==
    /\ up /\ pass.on
    /\ pass.status > 0 /\ pass.rm \cup pass.wm # {}
    /\ LET s == selector.sel[NextFd]
       IN  CASE s.type = "none"  -> UNCHANGED <<selector, chan, torn>>
             [] s.type = "READ"  -> NotifyClient(s.c)
             [] s.type = "WRITE" -> NotifySend(NextFd, s)
    /\ pass' = Visited
    /\ UNCHANGED up

\* The end of the loop, where the count must have come to zero.
EndPass ==
    /\ up /\ pass.on
    /\ pass.status = 0 \/ pass.rm \cup pass.wm = {}
    /\ up' = (pass.status = 0)
    /\ pass' = NoPass
    /\ UNCHANGED <<selector, chan, torn>>

\* A statement of the script is run between two passes.
Script ==
    /\ up /\ ~pass.on
    /\ \E o \in Statement(selector, chan, torn) : Take(o)
    /\ UNCHANGED <<pass, up>>

----------------------------------------------------------------------------
(* The clients.                                                            *)

ClientPosts(c) ==
    /\ IsOpen(c) /\ ~chan[c].gone
    /\ chan[c].unread < MaxUnread
    /\ chan' = [chan EXCEPT ![c].unread = @ + 1, ![c].fresh = FALSE]
    /\ UNCHANGED <<selector, pass, up, torn>>

ClientReads(c) ==
    /\ IsOpen(c) /\ ~chan[c].gone
    /\ ~chan[c].room
    /\ chan' = [chan EXCEPT ![c].room = TRUE]
    /\ UNCHANGED <<selector, pass, up, torn>>

ClientGone(c) ==
    /\ IsOpen(c) /\ ~chan[c].gone
    /\ chan' = [chan EXCEPT ![c].gone = TRUE, ![c].fresh = FALSE]
    /\ UNCHANGED <<selector, pass, up, torn>>

----------------------------------------------------------------------------
Init ==
    /\ selector = [sel |-> [fd \in Fd |-> NoSel], r |-> {}, w |-> {}]
    /\ chan = [c \in Clients |-> Closed]
    /\ pass = NoPass
    /\ up = TRUE
    /\ torn = FALSE

Next ==
    \/ Select \/ Visit \/ EndPass \/ Script
    \/ \E c \in Clients : ClientPosts(c) \/ ClientReads(c) \/ ClientGone(c)

\* The event loop calls DoSelection() again and again, clients read what
\* they are sent, and a new client says "established".
Fairness ==
    /\ WF_vars(Select)
    /\ WF_vars(Visit)
    /\ WF_vars(EndPass)
    /\ \A c \in Clients : WF_vars(ClientReads(c))
    /\ \A c \in Clients : WF_vars(chan[c].fresh /\ ClientPosts(c))

Spec == Init /\ [][Next]_vars /\ Fairness

----------------------------------------------------------------------------
(* Properties.                                                             *)

\* Type invariant.
TypeOK ==
    /\ selector.sel \in [Fd -> Selectee \cup {NoSel}]
    /\ selector.r \subseteq Fd /\ selector.w \subseteq Fd
    /\ chan \in [Clients -> [r : 0..NFd, w : 0..NFd, unread : 0..MaxUnread,
                             gone : BOOLEAN, room : BOOLEAN, pend : BOOLEAN,
                             fresh : BOOLEAN]]
    /\ \A c \in Clients : ~IsOpen(c) => chan[c] = Closed
    /\ pass.on \in BOOLEAN
    /\ pass.rm \subseteq Fd /\ pass.wm \subseteq Fd
    /\ pass.status \in Nat
    /\ ~pass.on => pass = NoPass
    /\ up \in BOOLEAN /\ torn \in BOOLEAN

\* As long as no channel was closed below a SendSelectee, the descriptor sets
\* hold open descriptors with a selectee only, so that select() does not
\* fail with EBADF, and every selectee is in the set of its type.
SetsMatch ==
    ~torn =>
        /\ BadFds = {}
        /\ \A fd \in Fd :
              /\ fd \in selector.r \cup selector.w <=> selector.sel[fd] # NoSel
              /\ selector.sel[fd].type = "WRITE" <=> fd \in selector.w
              /\ selector.sel[fd].type = "READ" => fd \in selector.r

\* An open channel is never forgotten: its reading descriptor has the
\* client's own selectee, or a SendSelectee that will put it back, and a
\* suspended write has its SendSelectee.
ChannelWatched ==
    ~torn =>
        \A c \in Clients : IsOpen(c) =>
            /\ chan[c].r \in selector.r
            /\ LET s == selector.sel[chan[c].r]
               IN  \/ s = ReadSel(c)
                   \/ s = [type |-> "WRITE", c |-> c, old |-> TRUE]
            /\ chan[c].pend =>
                  /\ chan[c].w \in selector.w
                  /\ selector.sel[chan[c].w].type = "WRITE"
                  /\ selector.sel[chan[c].w].c = c

\* The interpreter is never held up reading from a client that has nothing
\* to say: a selectee notified for a descriptor that is not readable any
\* more belongs to a new client, whose "established" event is on its way.
BlocksOnlyOnNew ==
    ~torn /\ pass.on /\ pass.status > 0 /\ pass.rm \cup pass.wm # {} =>
        LET s == selector.sel[NextFd]
        IN  s.type = "READ" =>
              chan[s.c].unread > 0 \/ chan[s.c].gone \/ chan[s.c].fresh

\* The descriptors in the masks of a pass account for all that select()
\* counted; otherwise DoSelection() ends the interpreter.
CountsAgree == up

\* Every event is read, unless a write to the same socket is suspended.
EventsRead ==
    \A c \in Clients :
        chan[c].unread > 0 ~> \/ chan[c].unread = 0
                              \/ selector.sel[chan[c].r].type = "WRITE"
                              \/ ~up \/ torn

\* Whenever a client has made room, its suspended write is carried on.
WritesResumed ==
    \A c \in Clients :
        chan[c].pend /\ chan[c].room ~> ~(chan[c].pend /\ chan[c].room) \/ ~up \/ torn
=============================================================================
