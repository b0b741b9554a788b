------------------------------- MODULE Glishd -------------------------------
(***************************************************************************)
(* glishd: the server daemon (dServer) that accepts the connections of     *)
(* interpreters and shared clients on a host, the daemon (dUser) it forks  *)
(* for each user, which serves that user's connections, and the registry   *)
(* through which a shared client one user started is found by others.      *)
(*                                                                         *)
(* A dUser talks to the server through a pair of pipes; a third one passes *)
(* accepted connections on to it.  To look a client up it posts an event   *)
(* and takes the next event from the server for the answer.                *)
(***************************************************************************)
EXTENDS Naturals, Sequences, FiniteSets, SequencesExt

CONSTANTS
    Users,      \* the users of the host
    Names,      \* the names of shared clients
    ShareOf,    \* how a client is shared: "USER", "GROUP" or "WORLD"
    GroupOf,    \* the group a user belongs to
    Conns,      \* connections that may be made
    UserOf,     \* the user who makes a connection
    Sharing,    \* connections that may be a shared client's
    Asking,     \* connections that may be an interpreter's
    MaxReq      \* bound: requests on a connection

ASSUME GlishdAssumption ==
    /\ ShareOf \in [Names -> {"USER", "GROUP", "WORLD"}]
    /\ DOMAIN GroupOf = Users
    /\ UserOf \in [Conns -> Users]
    /\ Sharing \cup Asking = Conns
    /\ MaxReq \in Nat \ {0}

VARIABLES
    server,     \* dServer runs
    world,      \* world_clients: the user who registered a name
    group,      \* group_clients: the same, for each group
    daemon,     \* the users' daemons
    up, down,   \* events from dUser to the server and back
    fds,        \* connections on their way through fd_pipe
    heirs,      \* daemons forked after user u's, with the server's end of its pipes
    conn,       \* the connections
    mixed,      \* history: a lookup took an event that was not its answer
    contested   \* history: names that two users have registered

vars == <<server, world, group, daemon, up, down, fds, heirs, conn, mixed, contested>>

NoUser == "nobody"
NoConn == "none"
NoWait == [k |-> NoConn, n |-> "", for |-> ""]
Alias == "alias"    \* the name a client was asked for by, without its path
Groups == {GroupOf[u] : u \in Users}

ASSUME NoneAssumption == NoUser \notin Users /\ NoConn \notin Conns

\* A dUser: "none" (no entry in the server's table), "run", or "gone" (ended,
\* its entry still there); what it blocks for; whether it has its master.
NoDaemon == [at |-> "none", wait |-> NoWait, master |-> FALSE,
             clients |-> [n \in Names |-> NoConn]]

\* A connection; and one that is closed.
NewConn == [at |-> "new", reqs |-> <<>>, sent |-> 0, gone |-> FALSE, joined |-> FALSE]
Closed == [NewConn EXCEPT !.at = "closed"]

\* The end of the server's pipe is seen when no process has its other end.
MasterEof(u) == ~server /\ down[u] = <<>> /\ heirs[u] = {}

Running(u) == daemon[u].at = "run" /\ daemon[u].wait = NoWait

\* The connections dUser u holds.
Held(u) == {k \in Conns : UserOf[k] = u /\ conn[k].at \in {"trans", "interp"}}
             \cup (Conns \cap {daemon[u].clients[n] : n \in Names})

----------------------------------------------------------------------------
(* dServer.                                                                *)

\* The user who registered n, as a user of group g finds it; NoUser if none.
Registered(g, n) == IF n \notin Names THEN NoUser
                    ELSE IF group[g][n] # NoUser THEN group[g][n] ELSE world[n]

PostDown(u, e) == IF daemon[u].at = "run" THEN [down EXCEPT ![u] = Append(@, e)]
                  ELSE down

\* dServer::ProcessConnect(): the connection is sent to the user's daemon,
\* or a daemon is forked with it.  fork() closes the interrupt pipe in the
\* child, and not the server's ends of the other daemons' pipes.
ServerConnect(k) ==
    LET u == UserOf[k]
    IN  /\ server
        /\ conn[k].at = "new"
        /\ CASE daemon[u].at = "run" ->
                   /\ fds' = [fds EXCEPT ![u] = Append(@, k)]
                   /\ conn' = [conn EXCEPT ![k].at = "fd"]
                   /\ UNCHANGED <<daemon, heirs>>
             [] daemon[u].at = "gone" ->            \* sendfd failed
                   /\ conn' = [conn EXCEPT ![k] = Closed]
                   /\ UNCHANGED <<fds, daemon, heirs>>
             [] daemon[u].at = "none" ->
                   /\ daemon' = [daemon EXCEPT ![u].at = "run", ![u].master = TRUE]
                   /\ heirs' = [v \in Users |-> IF daemon[v].at = "none" THEN {}
                                                ELSE heirs[v] \cup {u}]
                   /\ conn' = [conn EXCEPT ![k].at = "trans"]
                   /\ UNCHANGED fds
        /\ UNCHANGED <<server, world, group, up, down, mixed, contested>>

\* dServer::Register()
Register(u, n) ==
    /\ IF ShareOf[n] = "WORLD"
       THEN world' = [world EXCEPT ![n] = u] /\ UNCHANGED group
       ELSE group' = [group EXCEPT ![GroupOf[u]][n] = u] /\ UNCHANGED world
    /\ contested' = IF Registered(GroupOf[u], n) \notin {u, NoUser}
                    THEN contested \cup {n} ELSE contested
    /\ UNCHANGED down

\* dServer::CreateClient(): the request goes to the daemon of the user who
\* registered the client, if there is one.
ServerCreate(u, n) ==
    LET owner == Registered(GroupOf[u], n)
    IN  /\ down' = IF owner = NoUser THEN down
                   ELSE PostDown(owner, [ev |-> "client", n |-> n, val |-> TRUE])
        /\ UNCHANGED <<world, group, contested>>

\* Slip: no return after the answer for a group's client.
ServerLookupTwice(u, n) ==
    LET yes == [ev |-> "reply", n |-> n, val |-> TRUE]
    IN  /\ down' = IF Registered(GroupOf[u], n) = NoUser
                   THEN PostDown(u, [yes EXCEPT !.val = FALSE])
                   ELSE [PostDown(u, yes) EXCEPT ![u] = Append(@, yes)]
        /\ UNCHANGED <<world, group, contested>>

\* Slip: a name that is not registered is not answered.
ServerLookupSilent(u, n) ==
    /\ down' = IF Registered(GroupOf[u], n) = NoUser THEN down
               ELSE PostDown(u, [ev |-> "reply", n |-> n, val |-> TRUE])
    /\ UNCHANGED <<world, group, contested>>

\* dServer::ClientRunning()
ServerLookup(u, n) ==
    /\ down' = PostDown(u, [ev |-> "reply", n |-> n,
                            val |-> Registered(GroupOf[u], n) # NoUser])
    /\ UNCHANGED <<world, group, contested>>

\* dServer::ClientGone(): the name goes, whoever registered it.
ServerGone(u, n) ==
    /\ IF group[GroupOf[u]][n] # NoUser
       THEN group' = [group EXCEPT ![GroupOf[u]][n] = NoUser] /\ UNCHANGED world
       ELSE world' = [world EXCEPT ![n] = NoUser] /\ UNCHANGED group
    /\ UNCHANGED <<down, contested>>

\* dServer::ProcessUsers(), for an event of user u's daemon
ServerEvent(u) ==
    /\ server
    /\ up[u] # <<>>
    /\ LET e == Head(up[u])
       IN  CASE e.ev = "register" -> Register(u, e.n)
             [] e.ev = "client" -> ServerCreate(u, e.n)
             [] e.ev = "client-up" -> ServerLookup(u, e.n)
             [] e.ev = "client-gone" -> ServerGone(u, e.n)
    /\ up' = [up EXCEPT ![u] = Tail(@)]
    /\ UNCHANGED <<server, daemon, fds, conn, mixed, heirs>>

\* clear_clients_registered_to()
Clear(u) ==
    /\ world' = [n \in Names |-> IF world[n] = u THEN NoUser ELSE world[n]]
    /\ group' = [g \in Groups |-> [n \in Names |->
                    IF group[g][n] = u THEN NoUser ELSE group[g][n]]]

\* ProcessUsers(), when the daemon has ended
ServerUserGone(u) ==
    /\ server
    /\ daemon[u].at = "gone" /\ up[u] = <<>>
    /\ Clear(u)
    /\ daemon' = [daemon EXCEPT ![u] = NoDaemon]
    /\ down' = [down EXCEPT ![u] = <<>>]
    /\ UNCHANGED <<server, up, fds, conn, mixed, contested, heirs>>

\* The server is shut down (SIGHUP); the users' daemons run on.
ServerExit ==
    /\ server
    /\ server' = FALSE
    /\ world' = [n \in Names |-> NoUser]
    /\ group' = [g \in Groups |-> [n \in Names |-> NoUser]]
    /\ up' = [u \in Users |-> <<>>]
    /\ UNCHANGED <<daemon, down, fds, conn, mixed, contested, heirs>>

----------------------------------------------------------------------------
(* dUser.                                                                  *)

PostUp(u, ev, n) == IF server THEN [up EXCEPT ![u] = Append(@, [ev |-> ev, n |-> n])]
                    ELSE up

\* dUser::ProcessConnect()
UserConnect(u) ==
    /\ Running(u)
    /\ fds[u] # <<>>
    /\ fds' = [fds EXCEPT ![u] = Tail(@)]
    /\ conn' = [conn EXCEPT ![Head(fds[u])].at = "trans"]
    /\ UNCHANGED <<server, world, group, daemon, up, down, mixed, contested, heirs>>

\* ProcessTransitions(): a shared client registers itself.
UserRegister(k) ==
    LET u == UserOf[k]
        n == Head(conn[k].reqs).n
    IN  /\ conn[k].at = "trans" /\ Running(u)
        /\ conn[k].reqs # <<>> /\ Head(conn[k].reqs).op = "register"
        /\ daemon' = [daemon EXCEPT ![u].clients[n] = k]
        /\ conn' = [conn EXCEPT ![k].at = "client", ![k].reqs = Tail(@)]
        /\ up' = IF daemon[u].master /\ ShareOf[n] \in {"GROUP", "WORLD"}
                 THEN PostUp(u, "register", n) ELSE up
        /\ UNCHANGED <<server, world, group, down, fds, mixed, contested, heirs>>

\* LookupClient(): the client is known here, or the server is asked, and the
\* daemon blocks; without a server the answer is no.
LookupClient(k, r) ==
    LET u == UserOf[k]
    IN  IF daemon[u].clients[r.n] = NoConn /\ daemon[u].master
        THEN /\ daemon' = [daemon EXCEPT ![u].wait = [k |-> k, n |-> r.n, for |-> r.op]]
             /\ up' = PostUp(u, "client-up", r.n)
        ELSE UNCHANGED <<daemon, up>>

\* ProcessTransitions(), ProcessInterps(): a request of an interpreter,
\* "client-up" (ClientRunning()) or "client" (CreateClient()).
UserRequest(k) ==
    /\ conn[k].at \in {"trans", "interp"} /\ Running(UserOf[k])
    /\ conn[k].reqs # <<>>
    /\ Head(conn[k].reqs).op \in {"client-up", "client"}
    /\ conn' = [conn EXCEPT ![k].at = "interp", ![k].reqs = Tail(@)]
    /\ LookupClient(k, Head(conn[k].reqs))
    /\ UNCHANGED <<server, world, group, down, fds, mixed, contested, heirs>>

\* LookupClientInMaster(): whatever comes from the server next is taken for
\* the answer.  ClientRunning() tries a second name when the answer is no;
\* CreateClient() passes the request on when it is yes, and starts the client
\* itself when it is no.
UserAnswer(u) ==
    LET w == daemon[u].wait
        e == IF down[u] = <<>> THEN [ev |-> "eof", n |-> w.n, val |-> FALSE]
             ELSE Head(down[u])
        found == e.ev = "reply" /\ e.val
        again == w.for = "client-up" /\ ~found
    IN  /\ daemon[u].at = "run" /\ w # NoWait
        /\ down[u] # <<>> \/ MasterEof(u)
        /\ down' = [down EXCEPT ![u] = IF @ = <<>> THEN @ ELSE Tail(@)]
        /\ daemon' = [daemon EXCEPT ![u].wait =
                         IF again THEN [w EXCEPT !.n = Alias, !.for = "script"]
                         ELSE NoWait]
        /\ up' = IF again THEN PostUp(u, "client-up", Alias)
                 ELSE IF w.for = "client" /\ found THEN PostUp(u, "client", w.n)
                 ELSE up
        /\ mixed' = IF e.ev = "client" \/ e.n # w.n THEN mixed \cup {u} ELSE mixed
        /\ UNCHANGED <<server, world, group, fds, heirs, conn, contested>>

\* dUser::ProcessMaster(): a "client" event goes to the client, if it still
\* runs; others are ignored.
UserMaster(u) ==
    /\ Running(u) /\ daemon[u].master
    /\ IF down[u] # <<>>
       THEN /\ down' = [down EXCEPT ![u] = Tail(@)]
            /\ LET e == Head(down[u])
                   k == IF e.ev = "client" THEN daemon[u].clients[e.n] ELSE NoConn
               IN  conn' = IF k = NoConn THEN conn
                           ELSE [conn EXCEPT ![k].joined = TRUE]
            /\ UNCHANGED <<daemon, fds>>
       ELSE /\ MasterEof(u)
            /\ daemon' = [daemon EXCEPT ![u].master = FALSE]
            /\ fds' = [fds EXCEPT ![u] = <<>>]
            /\ conn' = [k \in Conns |-> IF k \in Range(fds[u])
                                        THEN Closed ELSE conn[k]]
            /\ UNCHANGED down
    /\ UNCHANGED <<server, world, group, up, mixed, contested, heirs>>

\* Slip: the server is not told.
UserClientGoneSlip(u, n) ==
    LET k == daemon[u].clients[n]
    IN  /\ Running(u)
        /\ k # NoConn /\ conn[k].gone
        /\ daemon' = [daemon EXCEPT ![u].clients[n] = NoConn]
        /\ conn' = [conn EXCEPT ![k] = Closed]
        /\ UNCHANGED <<server, world, group, up, down, fds, mixed, contested, heirs>>

\* dUser::ProcessClients(): a shared client has ended.
UserClientGone(u, n) ==
    LET k == daemon[u].clients[n]
    IN  /\ Running(u)
        /\ k # NoConn /\ conn[k].gone
        /\ up' = IF daemon[u].master THEN PostUp(u, "client-gone", n) ELSE up
        /\ daemon' = [daemon EXCEPT ![u].clients[n] = NoConn]
        /\ conn' = [conn EXCEPT ![k] = Closed]
        /\ UNCHANGED <<server, world, group, down, fds, mixed, contested, heirs>>

\* ProcessInterps(), ProcessTransitions(): the end of the file.
UserPeerGone(k) ==
    /\ conn[k].at \in {"trans", "interp"} /\ Running(UserOf[k])
    /\ conn[k].reqs = <<>> /\ conn[k].gone
    /\ conn' = [conn EXCEPT ![k] = Closed]
    /\ UNCHANGED <<server, world, group, daemon, up, down, fds, mixed, contested, heirs>>

\* The process ends, and with it all it holds, and what is on its way to it.
Ended(u) ==
    /\ daemon' = [daemon EXCEPT ![u] = [NoDaemon EXCEPT !.at = "gone"]]
    /\ conn' = [k \in Conns |-> IF UserOf[k] = u /\ conn[k].at # "new"
                                THEN Closed ELSE conn[k]]
    /\ fds' = [fds EXCEPT ![u] = <<>>]
    /\ heirs' = [v \in Users |-> heirs[v] \ {u}]
    /\ down' = [down EXCEPT ![u] = <<>>]
    /\ UNCHANGED <<server, world, group, up, mixed, contested>>

\* dUser::loop() ends when it serves nobody any more,
UserExit(u) ==
    /\ Running(u)
    /\ Held(u) = {}
    /\ Ended(u)

\* or at once on "*terminate-daemon*".
UserTerminate(k) ==
    /\ conn[k].at \in {"trans", "interp"} /\ Running(UserOf[k])
    /\ conn[k].reqs # <<>> /\ Head(conn[k].reqs).op = "terminate"
    /\ Ended(UserOf[k])

----------------------------------------------------------------------------
(* The other ends of the connections: a shared client says who it is, an   *)
(* interpreter asks.                                                       *)

Requests(k) ==
    (IF k \in Sharing /\ conn[k].sent = 0 THEN [op : {"register"}, n : Names] ELSE {})
    \cup (IF k \in Asking THEN [op : {"client-up", "client"}, n : Names]
                                 \cup {[op |-> "terminate", n |-> ""]} ELSE {})

PeerSends(k) ==
    /\ conn[k].at \in {"fd", "trans", "interp"} /\ ~conn[k].gone
    /\ conn[k].sent < MaxReq
    /\ \E r \in Requests(k) :
          conn' = [conn EXCEPT ![k].reqs = Append(@, r),
                               ![k].sent = IF r.op = "register" THEN MaxReq ELSE @ + 1]
    /\ UNCHANGED <<server, world, group, daemon, up, down, fds, mixed, contested, heirs>>

PeerGone(k) ==
    /\ conn[k].at \in {"fd", "trans", "interp", "client"} /\ ~conn[k].gone
    /\ conn' = [conn EXCEPT ![k].gone = TRUE]
    /\ UNCHANGED <<server, world, group, daemon, up, down, fds, mixed, contested, heirs>>

----------------------------------------------------------------------------
Init ==
    /\ server = TRUE
    /\ world = [n \in Names |-> NoUser]
    /\ group = [g \in Groups |-> [n \in Names |-> NoUser]]
    /\ daemon = [u \in Users |-> NoDaemon]
    /\ up = [u \in Users |-> <<>>]
    /\ down = [u \in Users |-> <<>>]
    /\ fds = [u \in Users |-> <<>>]
    /\ heirs = [u \in Users |-> {}]
    /\ conn = [k \in Conns |-> NewConn]
    /\ mixed = {}
    /\ contested = {}

Next ==
    \/ \E k \in Conns : ServerConnect(k)
    \/ \E u \in Users : ServerEvent(u) \/ ServerUserGone(u)
    \/ ServerExit
    \/ \E u \in Users : \/ UserConnect(u) \/ UserAnswer(u) \/ UserMaster(u)
                        \/ UserExit(u)
                        \/ \E n \in Names : UserClientGone(u, n)
    \/ \E k \in Conns : \/ UserRegister(k) \/ UserRequest(k) \/ UserPeerGone(k)
                        \/ UserTerminate(k)
                        \/ PeerSends(k) \/ PeerGone(k)

\* Both kinds of daemon loop over select() and serve all that is ready.
Fairness ==
    /\ \A u \in Users : /\ WF_vars(ServerEvent(u)) /\ WF_vars(ServerUserGone(u))
                        /\ WF_vars(UserConnect(u)) /\ WF_vars(UserAnswer(u))
                        /\ WF_vars(UserMaster(u))
    /\ \A k \in Conns : WF_vars(UserRegister(k) \/ UserRequest(k) \/ UserTerminate(k))

Spec == Init /\ [][Next]_vars /\ Fairness

----------------------------------------------------------------------------
(* Properties.                                                             *)

\* The registry follows the shared clients.  Every user in it has an entry in
\* the server's table: dServer::CreateClient() posts to that user's daemon
\* without asking whether there is one.  Once the server has read what a
\* daemon posted, a name that one user only has registered is entered exactly
\* when that user's daemon has the client.
RegistryFollows ==
    server => \A u \in Users, n \in Names :
        /\ daemon[u].at = "none" => u \notin {world[n]} \cup {group[g][n] : g \in Groups}
        /\ /\ ShareOf[n] # "USER" /\ n \notin contested
           /\ daemon[u].at = "run"
           /\ \A i \in 1..Len(up[u]) : up[u][i].ev \notin {"register", "client-gone"}
           => (Registered(GroupOf[u], n) = u <=> daemon[u].clients[n] # NoConn)

\* Asking the server is one question and one answer: as long as no "client"
\* event was taken for an answer, what a blocked daemon finds in its pipe as
\* an answer is about the name it asked for, and a daemon that does not wait
\* has no answer before it.
OwnAnswer ==
    \A u \in Users : u \notin mixed /\ daemon[u].at = "run" =>
        \A i \in 1..Len(down[u]) :
            down[u][i].ev = "reply" => down[u][i].n = daemon[u].wait.n

\* Every request is served, and every lookup ends, unless the daemon itself
\* ends, or the server goes while a daemon it forked later lives: that one
\* holds the pipe open, and the end of the server is not seen.
RequestsServed ==
    \A k \in Conns, u \in Users :
        UserOf[k] = u /\ (conn[k].reqs # <<>> \/ daemon[u].wait.k = k)
            ~> \/ conn[k].reqs = <<>> /\ daemon[u].wait.k # k
               \/ conn[k].at = "closed"
               \/ ~server /\ heirs[u] # {}
=============================================================================
