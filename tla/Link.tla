-------------------------------- MODULE Link --------------------------------
(***************************************************************************)
(* Point-to-point links: "link s->n to t->n" makes client s send its n     *)
(* events straight to client t (Stmt.cc, Client.cc.in, Sequencer.cc).      *)
(*                                                                         *)
(* The interpreter asks s for the link; s opens a socket and posts a       *)
(* *rendezvous*, which the interpreter turns into *rendezvous-orig* for s, *)
(* on which s blocks in accept(), and *rendezvous-resp* for t, on which t  *)
(* connects.  A connection is kept, and shared by all links from s to t.   *)
(***************************************************************************)
EXTENDS Integers, Sequences, FiniteSets, FiniteSetsExt

CONSTANTS
    Clients,
    Names,       \* the events links are made for
    Pairs,       \* the <<source, sink>> pairs the script's statements name
    Named,       \* Named[p]: the events they name for pair p
    Local,       \* Local[p]: source and sink run on the same host
    Orderly,     \* the script makes no statement about a link while an
                 \* earlier one is under way, and unlinks only what is linked
    Statements,  \* the kinds of statements it makes
    MaxStmts,    \* bound on their number
    MaxLosses,   \* bound on the clients that crash or are dropped
    None         \* "no message"

ASSUME PairsAssumption == Pairs \subseteq Clients \X Clients
ASSUME NamedAssumption == Named \in [Pairs -> SUBSET Names]
ASSUME LocalAssumption == Local \in [Pairs -> BOOLEAN]
ASSUME OrderlyAssumption == Orderly \in BOOLEAN
ASSUME StatementsAssumption == Statements \subseteq {"link", "unlink"}
ASSUME MaxAssumption == MaxStmts \in Nat /\ MaxLosses \in Nat

VARIABLES
    wire,     \* wire[c]: what the interpreter has sent c, unread
    posted,   \* posted[c]: *rendezvous* events from c, unread
    links,    \* links[c][n]: c's EventLinks for its n events
    sinks,    \* sinks[c][t]: c's connection to t (context_sinks), or 0
    sources,  \* sources[c][s]: c's connection from s (context_sources), or 0
    busy,     \* busy[c]: the *rendezvous-orig* c is in accept() for, or None
    socks,    \* the accept sockets made so far
    alive,    \* alive[c]: the process is running
    known,    \* the clients whose Task is in ids_to_tasks
    up,       \* the interpreter is running
    asked,    \* asked[<<s, t>>][n]: links made less links unmade
    nstmt,    \* statements so far
    nlost,    \* clients crashed or dropped so far
    lost      \* an event was written to a descriptor that is none

clientVars == <<links, sinks, sources, busy, socks>>
scriptVars == <<asked, nstmt>>
vars == <<wire, posted, links, sinks, sources, busy, socks, alive, known, up,
          asked, nstmt, nlost, lost>>

Message == [op: {"link", "unlink", "orig", "resp", "terminate"},
            src: Clients, snk: Clients, name: Names \cup {"any"}, sock: Nat]

ASSUME NoneAssumption == None \notin Message

EventLink == [snk: Clients, fd: Nat, active: BOOLEAN]

\* A socket: its maker, whether it still accepts, and who has connected.
Socket == [owner: Clients, open: BOOLEAN, peer: SUBSET Clients]

TypeOK ==
    /\ wire \in [Clients -> Seq(Message)]
    /\ posted \in [Clients -> Seq(Message)]
    /\ links \in [Clients -> [Names -> Seq(EventLink)]]
    /\ sinks \in [Clients -> [Clients -> Nat]]
    /\ sources \in [Clients -> [Clients -> Nat]]
    /\ busy \in [Clients -> Message \cup {None}]
    /\ socks \in Seq(Socket)
    /\ alive \in [Clients -> BOOLEAN]
    /\ known \subseteq Clients
    /\ up \in BOOLEAN
    /\ asked \in [Pairs -> [Names -> Nat]]
    /\ nstmt \in Nat
    /\ nlost \in Nat
    /\ lost \in BOOLEAN

Init ==
    /\ wire = [c \in Clients |-> << >>]
    /\ posted = [c \in Clients |-> << >>]
    /\ links = [c \in Clients |-> [n \in Names |-> << >>]]
    /\ sinks = [c \in Clients |-> [t \in Clients |-> 0]]
    /\ sources = [c \in Clients |-> [s \in Clients |-> 0]]
    /\ busy = [c \in Clients |-> None]
    /\ socks = << >>
    /\ alive = [c \in Clients |-> TRUE]
    /\ known = Clients
    /\ up = TRUE
    /\ asked = [p \in Pairs |-> [n \in Names |-> 0]]
    /\ nstmt = 0
    /\ nlost = 0
    /\ lost = FALSE

-----------------------------------------------------------------------------
(* The interpreter.                                                        *)

\* Task::SendEvent(), to a client that is connected or gone.
SendTo(w, c, m) == IF alive[c] THEN [w EXCEPT ![c] = Append(w[c], m)] ELSE w

UnderWay ==
    UNION {Range(wire[c]) \cup Range(posted[c]) \cup ({busy[c]} \ {None}) :
               c \in Clients}

Settled(p, n) ==
    ~\E m \in UnderWay : m.src = p[1] /\ m.snk = p[2] /\ m.name = n

\* LinkStmt::DoExec() and LinkAction(), of link and of unlink.
Statement(op, p, n) ==
    /\ up
    /\ op \in Statements
    /\ nstmt < MaxStmts
    /\ {p[1], p[2]} \subseteq known
    /\ Orderly => Settled(p, n) /\ (op = "unlink" => asked[p][n] > 0)
    /\ wire' = SendTo(wire, p[1], [op |-> op, src |-> p[1], snk |-> p[2],
                                   name |-> n, sock |-> 0])
    /\ asked' = [asked EXCEPT ![p] = [asked[p] EXCEPT
                     ![n] = IF op = "link" THEN @ + 1
                            ELSE IF @ = 0 THEN 0 ELSE @ - 1]]
    /\ nstmt' = nstmt + 1
    /\ UNCHANGED <<posted, clientVars, alive, known, up, nlost, lost>>

\* Sequencer::Rendezvous(): "no such source or sink ID" is fatal.
Rendezvous(c) ==
    /\ up
    /\ posted[c] # << >>
    /\ LET m == Head(posted[c])
       IN  IF {m.src, m.snk} \subseteq known
           THEN /\ wire' = SendTo(
                               SendTo(wire, m.src, [m EXCEPT !.op = "orig"]),
                               m.snk, [m EXCEPT !.op = "resp"])
                /\ UNCHANGED up
           ELSE up' = FALSE /\ UNCHANGED wire
    /\ posted' = [posted EXCEPT ![c] = Tail(posted[c])]
    /\ UNCHANGED <<clientVars, alive, known, scriptVars, nlost, lost>>

\* The script drops a client: ~Task() sends "terminate", DeleteTask().
Drop(c) ==
    /\ up
    /\ c \in known
    /\ nlost < MaxLosses
    /\ nlost' = nlost + 1
    /\ known' = known \ {c}
    /\ wire' = SendTo(wire, c, [op |-> "terminate", src |-> c, snk |-> c,
                                name |-> "any", sock |-> 0])
    /\ UNCHANGED <<posted, clientVars, alive, up, scriptVars, lost>>

-----------------------------------------------------------------------------
(* The clients.                                                            *)

\* GetEvent(): c reads an event for the Client library.
Read(c, op) ==
    /\ alive[c]
    /\ busy[c] = None
    /\ wire[c] # << >>
    /\ Head(wire[c]).op = op
    /\ wire' = [wire EXCEPT ![c] = Tail(wire[c])]

\* The first of c's links for m that is active, or inactive.
Matching(c, m, active) ==
    {i \in DOMAIN links[c][m.name] :
        /\ links[c][m.name][i].snk = m.snk
        /\ links[c][m.name][i].active = active}

\* Client::AddOutputLink(v, want_active, is_new): the link for m, made if
\* there is none, with what the caller then sets.
AddOutputLink(c, m, want, fd, active) ==
    LET l == links[c][m.name]
        S == Matching(c, m, want)
    IN  links' = [links EXCEPT ![c] = [links[c] EXCEPT ![m.name] =
            IF S # {}
            THEN [l EXCEPT ![Min(S)] =
                     [snk |-> m.snk, active |-> active,
                      fd |-> IF fd = 0 THEN l[Min(S)].fd ELSE fd]]
            ELSE Append(l, [snk |-> m.snk, fd |-> fd, active |-> active])]]

\* Slip: the new link is made active at once.
BuildLinkActive(c) ==
    /\ Read(c, "link")
    /\ LET m == Head(wire[c])
           k == Len(socks) + 1
           fd == sinks[c][m.snk]
           isNew == Matching(c, m, FALSE) = {}
       IN  /\ AddOutputLink(c, m, FALSE, IF isNew THEN fd ELSE 0, TRUE)
           /\ IF ~isNew \/ fd # 0 THEN UNCHANGED <<socks, posted>>
              ELSE /\ socks' = Append(socks, [owner |-> c, open |-> TRUE,
                                              peer |-> {}])
                   /\ posted' = [posted EXCEPT ![c] =
                                     Append(posted[c], [m EXCEPT !.sock = k])]
    /\ UNCHANGED <<sinks, sources, busy, alive, known, up, scriptVars, nlost,
                   lost>>

\* Slip: one AcceptSocket serves all of a client's links.
BuildLinkSameSocket(c) ==
    /\ Read(c, "link")
    /\ LET m == Head(wire[c])
           mine == {i \in DOMAIN socks : socks[i].owner = c}
           k == IF mine = {} THEN Len(socks) + 1 ELSE Min(mine)
           fd == sinks[c][m.snk]
           isNew == Matching(c, m, FALSE) = {}
       IN  /\ AddOutputLink(c, m, FALSE, IF isNew THEN fd ELSE 0,
                            ~isNew \/ fd # 0)
           /\ IF ~isNew \/ fd # 0 THEN UNCHANGED <<socks, posted>>
              ELSE /\ socks' = IF mine # {} THEN socks
                               ELSE Append(socks, [owner |-> c, open |-> TRUE,
                                                   peer |-> {}])
                   /\ posted' = [posted EXCEPT ![c] =
                                     Append(posted[c], [m EXCEPT !.sock = k])]
    /\ UNCHANGED <<sinks, sources, busy, alive, known, up, scriptVars, nlost,
                   lost>>

\* Client::BuildLink(): a link there is is made active; a new one uses the
\* connection there is, or else a rendezvous is asked for on a new socket.
BuildLink(c) ==
    /\ Read(c, "link")
    /\ LET m == Head(wire[c])
           k == Len(socks) + 1
           fd == sinks[c][m.snk]
           isNew == Matching(c, m, FALSE) = {}
       IN  /\ AddOutputLink(c, m, FALSE, IF isNew THEN fd ELSE 0,
                            ~isNew \/ fd # 0)
           /\ IF ~isNew \/ fd # 0 THEN UNCHANGED <<socks, posted>>
              ELSE /\ socks' = Append(socks, [owner |-> c, open |-> TRUE,
                                              peer |-> {}])
                   /\ posted' = [posted EXCEPT ![c] =
                                     Append(posted[c], [m EXCEPT !.sock = k])]
    /\ UNCHANGED <<sinks, sources, busy, alive, known, up, scriptVars, nlost,
                   lost>>

\* Slip: looks for a link that is not active.
UnlinkSinkInactive(c) ==
    /\ Read(c, "unlink")
    /\ AddOutputLink(c, Head(wire[c]), FALSE, 0, FALSE)
    /\ UNCHANGED <<posted, sinks, sources, busy, socks, alive, known, up,
                   scriptVars, nlost, lost>>

\* Client::UnlinkSink(): without such a link an inactive one is left behind.
UnlinkSink(c) ==
    /\ Read(c, "unlink")
    /\ AddOutputLink(c, Head(wire[c]), TRUE, 0, FALSE)
    /\ UNCHANGED <<posted, sinks, sources, busy, socks, alive, known, up,
                   scriptVars, nlost, lost>>

\* The process is gone, and its sockets with it.
Dies(c) ==
    /\ alive' = [alive EXCEPT ![c] = FALSE]
    /\ busy' = [busy EXCEPT ![c] = None]
    /\ socks' = [i \in DOMAIN socks |->
                    IF socks[i].owner = c THEN [socks[i] EXCEPT !.open = FALSE]
                    ELSE socks[i]]
    /\ UNCHANGED <<links, sinks, sources>>

Closed(k) == [socks EXCEPT ![k] = [socks[k] EXCEPT !.open = FALSE]]

\* Slip: a connection that exists is not looked for.
RendezvousAsOriginatorAnew(c) ==
    /\ Read(c, "orig")
    /\ LET m == Head(wire[c])
       IN  IF Matching(c, m, FALSE) = {} THEN Dies(c)
           ELSE /\ busy' = [busy EXCEPT ![c] = m]
                /\ UNCHANGED <<links, sinks, sources, socks, alive>>
    /\ UNCHANGED <<posted, known, up, scriptVars, nlost, lost>>

\* Client::RendezvousAsOriginator(): fatal if there is no inactive link;
\* uses the connection there is; or else goes into accept().
RendezvousAsOriginator(c) ==
    /\ Read(c, "orig")
    /\ LET m == Head(wire[c])
           fd == sinks[c][m.snk]
       IN  CASE Matching(c, m, FALSE) = {} -> Dies(c)
             [] Matching(c, m, FALSE) # {} /\ fd # 0 ->
                    /\ AddOutputLink(c, m, FALSE, fd, TRUE)
                    /\ socks' = Closed(m.sock)
                    /\ UNCHANGED <<sinks, sources, busy, alive>>
             [] OTHER ->
                    /\ busy' = [busy EXCEPT ![c] = m]
                    /\ UNCHANGED <<links, sinks, sources, socks, alive>>
    /\ UNCHANGED <<posted, known, up, scriptVars, nlost, lost>>

\* Slip: accept() has failed, and its -1 is taken for a descriptor.
AcceptUnchecked(c) ==
    /\ busy[c] # None
    /\ LET m == busy[c]
       IN  /\ sinks' = [sinks EXCEPT ![c] = [sinks[c] EXCEPT ![m.snk] = -1]]
           /\ AddOutputLink(c, m, FALSE, -1, TRUE)
           /\ socks' = Closed(m.sock)
    /\ busy' = [busy EXCEPT ![c] = None]
    /\ UNCHANGED <<wire, posted, sources, alive, known, up, scriptVars, nlost,
                   lost>>

\* accept() returns, and RendezvousAsOriginator() with it.
Accept(c) ==
    /\ busy[c] # None
    /\ LET m == busy[c]
       IN  /\ socks[m.sock].peer # {}
           /\ sinks' = [sinks EXCEPT ![c] =
                           [sinks[c] EXCEPT ![m.snk] = m.sock]]
           /\ AddOutputLink(c, m, FALSE, m.sock, TRUE)
           /\ socks' = Closed(m.sock)
    /\ busy' = [busy EXCEPT ![c] = None]
    /\ UNCHANGED <<wire, posted, sources, alive, known, up, scriptVars, nlost,
                   lost>>

\* Slip: connects although it has a connection from the source.
RendezvousAsResponderAnew(c) ==
    /\ Read(c, "resp")
    /\ LET m == Head(wire[c])
       IN  CASE socks[m.sock].open ->
                    /\ socks' = [socks EXCEPT ![m.sock] =
                                    [socks[m.sock] EXCEPT !.peer = {c}]]
                    /\ sources' = [sources EXCEPT ![c] =
                                      [sources[c] EXCEPT ![m.src] = m.sock]]
                    /\ UNCHANGED <<links, sinks, busy, alive>>
             [] OTHER -> UNCHANGED <<clientVars, alive>>
    /\ UNCHANGED <<posted, known, up, scriptVars, nlost, lost>>

\* Client::RendezvousAsResponder(): nothing to do if it has a connection
\* from the source; a socket that is gone is fatal if it was a local one.
RendezvousAsResponder(c) ==
    /\ Read(c, "resp")
    /\ LET m == Head(wire[c])
       IN  CASE sources[c][m.src] # 0 -> UNCHANGED <<clientVars, alive>>
             [] sources[c][m.src] = 0 /\ socks[m.sock].open ->
                    /\ socks' = [socks EXCEPT ![m.sock] =
                                    [socks[m.sock] EXCEPT !.peer = @ \cup {c}]]
                    /\ sources' = [sources EXCEPT ![c] =
                                      [sources[c] EXCEPT ![m.src] = m.sock]]
                    /\ UNCHANGED <<links, sinks, busy, alive>>
             [] OTHER -> IF Local[<<m.src, m.snk>>] THEN Dies(c)
                         ELSE UNCHANGED <<clientVars, alive>>
    /\ UNCHANGED <<posted, known, up, scriptVars, nlost, lost>>

\* "terminate", or the end of the interpreter: the client exits.
Terminate(c) ==
    /\ \/ Read(c, "terminate")
       \/ /\ ~up /\ alive[c] /\ busy[c] = None /\ wire[c] = << >>
          /\ UNCHANGED wire
    /\ Dies(c)
    /\ UNCHANGED <<posted, known, up, scriptVars, nlost, lost>>

\* The client crashes, in accept() or not.
Crash(c) ==
    /\ alive[c]
    /\ nlost < MaxLosses
    /\ nlost' = nlost + 1
    /\ Dies(c)
    /\ UNCHANGED <<wire, posted, known, up, scriptVars, lost>>

\* End of file on a link: RemoveIncomingLink().
LinkLost(c, s) ==
    /\ alive[c]
    /\ busy[c] = None
    /\ sources[c][s] # 0
    /\ ~alive[s]
    /\ sources' = [sources EXCEPT ![c] = [sources[c] EXCEPT ![s] = 0]]
    /\ UNCHANGED <<wire, posted, links, sinks, busy, socks, alive, known, up,
                   scriptVars, nlost, lost>>

\* Client::SendEvent(): on every active link, or else to the interpreter.
Post(c, n) ==
    /\ alive[c]
    /\ busy[c] = None
    /\ lost' = (lost \/ \E i \in DOMAIN links[c][n] :
                            links[c][n][i].active /\ links[c][n][i].fd = 0)
    /\ UNCHANGED <<wire, posted, clientVars, alive, known, up, scriptVars,
                   nlost>>

-----------------------------------------------------------------------------

Library(c) ==
    \/ BuildLink(c) \/ UnlinkSink(c) \/ RendezvousAsOriginator(c)
    \/ Accept(c) \/ RendezvousAsResponder(c) \/ Terminate(c)

Next ==
    \/ \E p \in Pairs : \E n \in Named[p] :
           Statement("link", p, n) \/ Statement("unlink", p, n)
    \/ \E c \in Clients :
           \/ Rendezvous(c) \/ Drop(c) \/ Library(c) \/ Crash(c)
           \/ \E s \in Clients : LinkLost(c, s)
           \/ \E n \in Names : Post(c, n)

Spec == Init /\ [][Next]_vars

\* The interpreter reads what is posted to it, and clients call NextEvent().
FairSpec ==
    Spec /\ \A c \in Clients : WF_vars(Rendezvous(c)) /\ WF_vars(Library(c))

-----------------------------------------------------------------------------
(* Properties.                                                             *)

\* accept() yields the sink the link is for, and no other that connected
\* first (BuildLink: "otherwise there's a race in which we send out
\* rendezvous events to B and then to C").
RightSink ==
    \A s, t \in Clients : sinks[s][t] # 0 => socks[sinks[s][t]].peer = {t}

\* The two ends of a connection agree, however rendezvous for several links
\* between them overlap: what s writes to is what t reads from, and a sink
\* that has to connect finds the source listening.
EndsAgree ==
    /\ \A s, t \in Clients :
          alive[s] /\ alive[t] /\ sinks[s][t] # 0 => sources[t][s] = sinks[s][t]
    /\ \A t \in Clients :
          LET m == Head(wire[t])
          IN  /\ wire[t] # << >>
              /\ m.op = "resp"
              /\ alive[m.src]
              /\ sources[t][m.src] = 0
              => socks[m.sock].open

Quiet == UnderWay = {}

\* When the dust has settled each link is there as often as the script asked
\* for it (User Manual 7.7: "executing a link statement twice causes two
\* links to be established"), and has a connection.
LinkedAsAsked ==
    Quiet /\ nlost = 0 =>
        \A p \in Pairs, n \in Names :
            asked[p][n] = Cardinality({i \in DOMAIN links[p[1]][n] :
                                          /\ links[p[1]][n][i].snk = p[2]
                                          /\ links[p[1]][n][i].active
                                          /\ links[p[1]][n][i].fd # 0})

\* No event is sent down a link that has no connection yet.
NothingLost == ~lost

\* Sequencer::Rendezvous: "we impose a serial ordering on all rendezvous.
\* This avoids deadlock."  Unless a client is lost no accept() waits for ever.
RendezvousEnds ==
    \A c \in Clients :
        busy[c] # None ~> (busy[c] = None \/ \E d \in Clients : ~alive[d])

=============================================================================
