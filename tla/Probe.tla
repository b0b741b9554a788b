-------------------------------- MODULE Probe --------------------------------
(***************************************************************************)
(* The interpreter's connections to daemons (glishd) on other hosts.  A    *)
(* timer probes every daemon once per interval; a daemon that has not      *)
(* answered when the timer expires again is reported lost, and restored    *)
(* when an answer comes after all.  The same channel carries the shell     *)
(* commands a script runs on the daemon's host, during which the           *)
(* interpreter reads the channel itself and serves nothing else.           *)
(*                                                                         *)
(* Time is kept as the ticks left until the timer is due, negative when    *)
(* the interpreter is late for it.                                         *)
(***************************************************************************)
EXTENDS Integers, Sequences, FiniteSets

CONSTANTS
    Daemons,    \* the hosts
    Intervals,  \* values of system.client.ping, in ticks
    Lat,        \* a daemon that can be reached answers within Lat ticks
    MaxLate,    \* bound: ticks by which the interpreter may miss the timer
    MaxOut      \* bound: events outstanding when another is sent

ASSUME ProbeAssumption ==
    /\ "none" \notin Daemons
    /\ Intervals \subseteq Nat \ {0}
    /\ Lat \in Nat /\ \A i \in Intervals : Lat < i
    /\ MaxLate \in Nat
    /\ MaxOut \in Nat \ {0}

VARIABLES
    left,       \* exp_t of the ProbeTimer, less the current time
    ping,       \* system.client.ping
    mode,       \* "select" (in DoSelection), "busy" (runs a script) or "shell"
    sh,         \* RemoteSynchronousShell(): its daemon and progress
    state,      \* RemoteDaemon::state, "none" before there is a connection
    watched,    \* the daemon has its DaemonSelectee
    told,       \* the last report of the daemon: a $system event
    toD, toI,   \* events on their way to the daemon, to the interpreter
    alive,      \* the daemon runs
    link,       \* its host can be reached
    svc,        \* ticks since the daemon could have answered its next event
    excuse      \* history: why the pending probe may stay unanswered

ivars == <<left, ping, mode, sh, state, watched, told>>
vars == <<ivars, toD, toI, alive, link, svc, excuse>>

NoShell == [d |-> "none", at |-> "none", clean |-> TRUE]

----------------------------------------------------------------------------
(* The interpreter's selection loop.                                       *)

\* The descriptor of d's channel is readable: an event, or the end of file.
Readable(d) == /\ watched[d]
               /\ toI[d] # <<>> \/ ~alive[d]

\* Slip: the timer goes first.
TimerDueFirst == mode = "select" /\ left <= 0

\* select() reports the timer only when no descriptor is ready.
TimerDue == /\ mode = "select"
            /\ left <= 0
            /\ \A d \in Daemons : ~Readable(d)

\* An event of another selectee runs a script.
Begin ==
    /\ mode = "select"
    /\ mode' = "busy"
    /\ UNCHANGED <<left, ping, sh, state, watched, told,
                   toD, toI, alive, link, svc, excuse>>

End ==
    /\ mode = "busy"
    /\ mode' = "select"
    /\ UNCHANGED <<left, ping, sh, state, watched, told,
                   toD, toI, alive, link, svc, excuse>>

SetPing(p) ==
    /\ mode = "busy"
    /\ ping' = p
    /\ UNCHANGED <<left, mode, sh, state, watched, told,
                   toD, toI, alive, link, svc, excuse>>

\* GetHostDaemon() for a host that has no entry in the table yet; a host
\* that has one keeps it, whatever its state.
GetHostDaemon(d) ==
    /\ mode = "busy"
    /\ state[d] = "none"
    /\ alive[d] /\ link[d]
    /\ state' = [state EXCEPT ![d] = "OK"]
    /\ watched' = [watched EXCEPT ![d] = TRUE]
    /\ UNCHANGED <<left, ping, mode, sh, told,
                   toD, toI, alive, link, svc, excuse>>

----------------------------------------------------------------------------
(* ProbeTimer and DaemonSelectee.                                          *)

Known == {d \in Daemons : state[d] # "none"}

\* send_event() to a daemon that is gone goes nowhere.
Post(d, e) == IF alive[d] THEN Append(toD[d], e) ELSE toD[d]

\* Slip: a lost daemon is not probed any more.
ProbeTargetsSlip == {d \in Known : state[d] # "LOST"}

\* The daemons DoExpiration() probes: all, whatever their state.
ProbeTargets == Known

\* The state DoExpiration() leaves a daemon in.
Probed(d) == CASE state[d] = "PENDING" -> "LOST"
               [] state[d] = "OK" -> "PENDING"
               [] OTHER -> state[d]

DoExpiration ==
    /\ TimerDue
    /\ \A d \in Known : Len(toD[d]) < MaxOut
    /\ state' = [d \in Daemons |-> Probed(d)]
    /\ told' = [d \in Daemons |->
                  IF state[d] = "PENDING" THEN "lost" ELSE told[d]]
    /\ toD' = [d \in Daemons |->
                IF d \in ProbeTargets THEN Post(d, "probe") ELSE toD[d]]
    /\ left' = left + ping
    /\ excuse' = [d \in Daemons |-> left < 0 \/ ~link[d] \/ ~alive[d] \/ toD[d] # <<>>]
    /\ UNCHANGED <<ping, mode, sh, watched, toI, alive, link, svc>>

\* Slip: the end of a daemon that is lost already is not reported.
TerminatedSlip(d) ==
    /\ watched' = [watched EXCEPT ![d] = FALSE]
    /\ told' = IF state[d] = "LOST" THEN told ELSE [told EXCEPT ![d] = "terminated"]

\* recv_event() found the end of the file.
Terminated(d) ==
    /\ watched' = [watched EXCEPT ![d] = FALSE]
    /\ told' = [told EXCEPT ![d] = "terminated"]

\* DaemonSelectee::NotifyOfSelection()
NotifyOfSelection(d) ==
    /\ mode = "select"
    /\ Readable(d)
    /\ IF toI[d] = <<>>
       THEN Terminated(d) /\ UNCHANGED <<toI, state>>
       ELSE /\ toI' = [toI EXCEPT ![d] = Tail(@)]
            /\ IF Head(toI[d]) = "probe-reply"
               THEN /\ state' = [state EXCEPT ![d] = "OK"]
                    /\ told' = [told EXCEPT ![d] =
                                  IF state[d] = "LOST" THEN "restored" ELSE @]
               ELSE UNCHANGED <<state, told>>
            /\ UNCHANGED watched
    /\ UNCHANGED <<left, ping, mode, sh,
                   toD, alive, link, svc, excuse>>

----------------------------------------------------------------------------
(* RemoteSynchronousShell(): send "shell", then read the channel for "okay", *)
(* the lines of output, and the status.                                    *)

ShellSend(d) ==
    /\ mode = "busy"
    /\ d \in Known
    /\ Len(toD[d]) + Len(toI[d]) < MaxOut
    /\ mode' = "shell"
    /\ sh' = [d |-> d, at |-> "okay",
              clean |-> toD[d] = <<>> /\ toI[d] = <<>>]
    /\ toD' = [toD EXCEPT ![d] = Post(d, "shell")]
    /\ excuse' = [excuse EXCEPT ![d] = TRUE]
    /\ UNCHANGED <<left, ping, state, watched, told,
                   toI, alive, link, svc>>

\* Where reading event e may lead: at first a value of zero stands for
\* failure (a status or a line may be zero or not), then a value that is no
\* string ends the output.  At the end of
\* file the reader of the output goes on to read the status.
AfterReading(e) ==
    CASE sh.at = "okay"   -> IF e \in {"okay", "done"} THEN {"lines"}
                             ELSE IF e \in {"status", "shell_out"}
                                  THEN {"lines", "none"} ELSE {"none"}
      [] sh.at = "lines"  -> IF e = "shell_out" THEN {"lines"} ELSE {"status"}
      [] sh.at = "status" -> {"none"}

\* recv_event() on the channel
ShellRecv ==
    /\ mode = "shell"
    /\ LET d == sh.d
           eof == toI[d] = <<>>
           e == IF eof THEN "eof" ELSE Head(toI[d])
       IN  /\ eof => ~alive[d]
           /\ toI' = IF eof THEN toI ELSE [toI EXCEPT ![d] = Tail(@)]
           /\ \E at \in AfterReading(e) :
                 /\ mode' = IF at = "none" THEN "busy" ELSE "shell"
                 /\ sh' = IF at = "none" THEN NoShell ELSE [sh EXCEPT !.at = at]
    /\ UNCHANGED <<left, ping, state, watched, told,
                   toD, alive, link, svc, excuse>>

----------------------------------------------------------------------------
(* The daemon (glishd's Interp), its host, and time.                       *)

\* Slip: a command without output sends no "okay".
ShellCommandSlip == {<<"fail">>, <<"done", "status">>,
                     <<"okay", "shell_out", "done", "status">>}

\* Interp::ShellCommand(): what the daemon posts for a command.
ShellCommand == {<<"fail">>, <<"okay", "done", "status">>,
                 <<"okay", "shell_out", "done", "status">>}

\* Interp::NextRequest()
NextRequest(d) ==
    /\ alive[d] /\ link[d]
    /\ toD[d] # <<>>
    /\ \E answer \in IF Head(toD[d]) = "probe" THEN {<<"probe-reply">>}
                     ELSE ShellCommand :
          toI' = [toI EXCEPT ![d] = @ \o answer]
    /\ toD' = [toD EXCEPT ![d] = Tail(@)]
    /\ svc' = [svc EXCEPT ![d] = 0]
    /\ UNCHANGED <<ivars, alive, link, excuse>>

DaemonDies(d) ==
    /\ alive[d]
    /\ state[d] # "none"
    /\ alive' = [alive EXCEPT ![d] = FALSE]
    /\ toD' = [toD EXCEPT ![d] = <<>>]
    /\ svc' = [svc EXCEPT ![d] = 0]
    /\ excuse' = [excuse EXCEPT ![d] = TRUE]
    /\ UNCHANGED <<ivars, toI, link>>

LinkDown(d) ==
    /\ link[d] /\ alive[d]
    /\ link' = [link EXCEPT ![d] = FALSE]
    /\ excuse' = [excuse EXCEPT ![d] = TRUE]
    /\ UNCHANGED <<ivars, toD, toI, alive, svc>>

LinkUp(d) ==
    /\ ~link[d]
    /\ link' = [link EXCEPT ![d] = TRUE]
    /\ UNCHANGED <<ivars, toD, toI, alive, svc, excuse>>

\* Daemon d has an event it could answer.
Asked(d) == alive[d] /\ link[d] /\ toD[d] # <<>>

\* Time passes unless the selection loop has something to do, or a daemon
\* has taken its time.
Tick ==
    /\ left > -MaxLate
    /\ mode = "select" => left > 0 /\ \A d \in Daemons : ~Readable(d)
    /\ \A d \in Daemons : Asked(d) => svc[d] < Lat
    /\ left' = left - 1
    /\ svc' = [d \in Daemons |-> IF Asked(d) THEN svc[d] + 1 ELSE svc[d]]
    /\ UNCHANGED <<ping, mode, sh, state, watched, told,
                   toD, toI, alive, link, excuse>>

----------------------------------------------------------------------------
Init ==
    /\ ping \in Intervals
    /\ left = ping + 1      \* PROBE_DELAY is one more than PROBE_INTERVAL
    /\ mode = "select"
    /\ sh = NoShell
    /\ state = [d \in Daemons |-> "none"]
    /\ watched = [d \in Daemons |-> FALSE]
    /\ told = [d \in Daemons |-> "nothing"]
    /\ toD = [d \in Daemons |-> <<>>]
    /\ toI = [d \in Daemons |-> <<>>]
    /\ alive = [d \in Daemons |-> TRUE]
    /\ link = [d \in Daemons |-> TRUE]
    /\ svc = [d \in Daemons |-> 0]
    /\ excuse = [d \in Daemons |-> TRUE]

Next ==
    \/ Begin \/ End
    \/ \E p \in Intervals : SetPing(p)
    \/ \E d \in Daemons : GetHostDaemon(d)
    \/ DoExpiration
    \/ \E d \in Daemons : NotifyOfSelection(d)
    \/ \E d \in Daemons : ShellSend(d)
    \/ ShellRecv
    \/ \E d \in Daemons : NextRequest(d)
    \/ \E d \in Daemons : DaemonDies(d) \/ LinkDown(d) \/ LinkUp(d)
    \/ Tick

\* Every script ends, a pass of the selection loop serves every descriptor
\* that is ready, daemons that can be reached answer, and time passes.  That
\* the timer gets its turn assumes that the descriptors are not ready all
\* the time: select() then never reports it.
Fairness ==
    /\ SF_vars(End)
    /\ SF_vars(DoExpiration)
    /\ \A d \in Daemons : SF_vars(NotifyOfSelection(d))
    /\ WF_vars(ShellRecv)
    /\ \A d \in Daemons : WF_vars(NextRequest(d))
    /\ WF_vars(Tick)

Spec == Init /\ [][Next]_vars /\ Fairness

----------------------------------------------------------------------------
(* Properties.                                                             *)

\* A daemon that answers within the interval is not reported lost, however
\* late the interpreter looks at the answer: unless since the probe its host
\* could not be reached, it died, a shell command used the channel, or the
\* probe itself was sent late or behind another event.
LossIsReal ==
    [][\A d \in Daemons :
          state[d] = "PENDING" /\ state'[d] = "LOST" => excuse[d]]_vars

\* The events a shell command waits for next.
Expected == CASE sh.at = "okay"   -> {"okay", "fail"}
              [] sh.at = "lines"  -> {"shell_out", "done"}
              [] sh.at = "status" -> {"status"}

\* A shell command sent on a channel with nothing under way reads its own
\* answers and no others: the timer cannot probe the daemon meanwhile.
ShellOwnReplies ==
    [][\A d \in Daemons :
          sh.d = d /\ sh.clean /\ Len(toI'[d]) < Len(toI[d])
            => Head(toI[d]) \in Expected]_vars

\* A lost daemon that can be reached is found again, unless a shell command
\* reads its channel.
RestoredWhenBack ==
    \A d \in Daemons :
        state[d] = "LOST" ~> state[d] = "OK" \/ ~alive[d] \/ ~link[d] \/ sh.d = d

\* The death of a daemon is reported to the script.
DeathReported ==
    \A d \in Daemons :
        ~alive[d] /\ told[d] # "terminated" /\ watched[d] ~> told[d] = "terminated"
=============================================================================
