---------------------------- MODULE ProbeProofs ----------------------------
(***************************************************************************)
(* Proofs about Probe, for any set of daemons, any probe intervals longer  *)
(* than the daemons' latency, and an interpreter that may be late by any   *)
(* amount: a loss that is reported is real, and a shell command sent on a  *)
(* quiet channel reads its own answers.                                    *)
(*                                                                         *)
(* The argument for losses is about time.  The ticks left until the timer  *)
(* and the ticks a daemon has taken add up to more than the latency as     *)
(* long as a probe sent in time is unanswered; a daemon that can be        *)
(* reached has answered before its latency is over, hence before the timer *)
(* is due; and an answer that has come keeps the timer from its turn.      *)
(***************************************************************************)
EXTENDS Probe, SequenceTheorems, TLAPS

Messages == {"probe", "shell"}
Answers == {"probe-reply", "fail", "okay", "shell_out", "done", "status"}

Typed ==
    /\ left \in Int
    /\ ping \in Intervals
    /\ mode \in {"select", "busy", "shell"}
    /\ sh \in [d : Daemons \cup {"none"},
               at : {"none", "okay", "lines", "status"}, clean : BOOLEAN]
    /\ state \in [Daemons -> {"none", "OK", "PENDING", "LOST"}]
    /\ watched \in [Daemons -> BOOLEAN]
    /\ told \in [Daemons -> {"nothing", "lost", "restored", "terminated"}]
    /\ toD \in [Daemons -> Seq(Messages)]
    /\ toI \in [Daemons -> Seq(Answers)]
    /\ alive \in [Daemons -> BOOLEAN]
    /\ link \in [Daemons -> BOOLEAN]
    /\ svc \in [Daemons -> Nat]
    /\ excuse \in [Daemons -> BOOLEAN]

\* A daemon with a connection is watched as long as it lives; the time it
\* has taken counts from the oldest event it has not answered.
Served(d) ==
    /\ state[d] # "none" /\ alive[d] => watched[d]
    /\ toD[d] = <<>> => svc[d] = 0
    /\ svc[d] <= Lat

\* A probe that has no excuse is under way to the daemon, with time left
\* for the answer, or its answer is there.
Punctual(d) ==
    state[d] = "PENDING" /\ ~excuse[d] =>
        /\ alive[d] /\ link[d]
        /\ \/ toD[d] = <<"probe">> /\ toI[d] = <<>> /\ left + svc[d] > Lat
           \/ toD[d] = <<>> /\ toI[d] = <<"probe-reply">>

\* What a shell command on a quiet channel has before it.
OwnReplies(d, at) ==
    CASE at = "okay" ->
            \/ toD[d] = <<"shell">> /\ toI[d] = <<>>
            \/ toD[d] = <<>> /\ toI[d] \in ShellCommand
            \/ toD[d] = <<>> /\ toI[d] = <<>> /\ ~alive[d]
      [] at = "lines" ->
            toD[d] = <<>> /\ toI[d] \in {<<"shell_out", "done", "status">>,
                                         <<"done", "status">>}
      [] at = "status" -> toD[d] = <<>> /\ toI[d] = <<"status">>
      [] OTHER -> FALSE

\* The shell command that is running, if any.
Shell ==
    /\ mode # "shell" => sh = NoShell
    /\ mode = "shell" => /\ sh.d \in Daemons
                         /\ sh.at # "none"
                         /\ excuse[sh.d]
                         /\ sh.clean => OwnReplies(sh.d, sh.at)

IInv ==
    /\ Typed
    /\ \A d \in Daemons : Served(d) /\ Punctual(d)
    /\ Shell

-----------------------------------------------------------------------------
(* Sequences of one or a few events.                                       *)

LEMMA ShortSequences ==
    /\ Append(<<>>, "probe") = <<"probe">>
    /\ Append(<<>>, "shell") = <<"shell">>
    /\ Tail(<<"probe">>) = <<>> /\ Head(<<"probe">>) = "probe"
    /\ Tail(<<"shell">>) = <<>> /\ Head(<<"shell">>) = "shell"
    /\ Tail(<<"probe-reply">>) = <<>> /\ Head(<<"probe-reply">>) = "probe-reply"
    /\ Tail(<<"status">>) = <<>> /\ Head(<<"status">>) = "status"
    /\ <<"probe">> # <<>> /\ <<"shell">> # <<>> /\ <<"probe-reply">> # <<>>
  OBVIOUS

\* What is left of a command's answers once one has been read.
LEMMA ReadingOn ==
    /\ Head(<<"fail">>) = "fail"
    /\ Head(<<"okay", "done", "status">>) = "okay"
    /\ Tail(<<"okay", "done", "status">>) = <<"done", "status">>
    /\ Head(<<"okay", "shell_out", "done", "status">>) = "okay"
    /\ Tail(<<"okay", "shell_out", "done", "status">>)
         = <<"shell_out", "done", "status">>
    /\ Head(<<"shell_out", "done", "status">>) = "shell_out"
    /\ Tail(<<"shell_out", "done", "status">>) = <<"done", "status">>
    /\ Head(<<"done", "status">>) = "done"
    /\ Tail(<<"done", "status">>) = <<"status">>
  OBVIOUS

\* An answer is a sequence of answers, and alone it is what it is.
LEMMA AnswerAlone ==
    ASSUME NEW a \in {<<"probe-reply">>} \cup ShellCommand
    PROVE  a \in Seq(Answers) /\ <<>> \o a = a
<1>1. /\ <<"probe-reply">> \in Seq(Answers)
      /\ <<"fail">> \in Seq(Answers)
      /\ <<"okay", "done", "status">> \in Seq(Answers)
      /\ <<"okay", "shell_out", "done", "status">> \in Seq(Answers)
  BY DEF Answers
<1>2. a \in Seq(Answers)
  BY <1>1 DEF ShellCommand
<1> QED
  BY <1>2, ConcatEmptySeq

-----------------------------------------------------------------------------
(* The interpreter's steps.                                                *)

LEMMA ScriptStep ==
    ASSUME IInv, Begin \/ End \/ \E p \in Intervals : SetPing(p)
    PROVE  IInv'
<1>1. Typed'
  BY DEF IInv, Typed, Begin, End, SetPing
<1>2. ASSUME NEW d \in Daemons PROVE Served(d)' /\ Punctual(d)'
  BY DEF IInv, Served, Punctual, Begin, End, SetPing
<1>3. Shell'
  BY DEF IInv, Shell, Begin, End, SetPing
<1> QED
  BY <1>1, <1>2, <1>3 DEF IInv

LEMMA GetHostDaemonStep ==
    ASSUME IInv, NEW e \in Daemons, GetHostDaemon(e)
    PROVE  IInv'
<1>1. Typed'
  BY DEF IInv, Typed, GetHostDaemon
<1>2. ASSUME NEW d \in Daemons PROVE Served(d)' /\ Punctual(d)'
  BY DEF IInv, Typed, Served, Punctual, GetHostDaemon
<1>3. Shell'
  BY DEF IInv, Shell, GetHostDaemon
<1> QED
  BY <1>1, <1>2, <1>3 DEF IInv

\* The timer expires: a daemon that was pending without an excuse would have
\* answered, and its answer would have gone first.
LEMMA PendingExcused ==
    ASSUME IInv, TimerDue, NEW d \in Daemons, state[d] = "PENDING"
    PROVE  excuse[d]
<1> SUFFICES ASSUME ~excuse[d] PROVE FALSE
  BY DEF IInv, Typed
<1>1. Served(d) /\ Punctual(d) /\ left <= 0 /\ ~Readable(d)
  BY DEF IInv, TimerDue
<1>2. alive[d] /\ watched[d] /\ svc[d] <= Lat
  BY <1>1 DEF Served, Punctual
<1>3. toI[d] = <<>>
  BY <1>1, <1>2 DEF Readable
<1>4. toD[d] = <<"probe">> /\ left + svc[d] > Lat
  BY <1>1, <1>3, ShortSequences DEF Punctual
<1> QED
  BY <1>1, <1>2, <1>4, ProbeAssumption DEF IInv, Typed

LEMMA DoExpirationStep ==
    ASSUME IInv, DoExpiration
    PROVE  IInv'
<1>1. ASSUME NEW d \in Daemons
      PROVE  /\ toD'[d] = IF d \in Known /\ alive[d] THEN Append(toD[d], "probe")
                          ELSE toD[d]
             /\ toD'[d] \in Seq(Messages)
  BY DEF IInv, Typed, DoExpiration, ProbeTargets, Post, Messages
<1>2. Typed'
  <2>1. left' \in Int
    BY ProbeAssumption DEF IInv, Typed, DoExpiration
  <2>2. toD' \in [Daemons -> Seq(Messages)]
    BY <1>1 DEF DoExpiration
  <2>3. state' \in [Daemons -> {"none", "OK", "PENDING", "LOST"}]
    BY DEF IInv, Typed, DoExpiration, Probed
  <2>4. told' \in [Daemons -> {"nothing", "lost", "restored", "terminated"}]
    BY DEF IInv, Typed, DoExpiration
  <2>5. excuse' \in [Daemons -> BOOLEAN]
    BY DEF IInv, Typed, DoExpiration
  <2> QED
    BY <2>1, <2>2, <2>3, <2>4, <2>5 DEF IInv, Typed, DoExpiration
<1>3. ASSUME NEW d \in Daemons PROVE Served(d)'
  <2>1. toD'[d] = <<>> => toD[d] = <<>>
    <3>1. toD[d] \in Seq(Messages) /\ "probe" \in Messages
      BY DEF IInv, Typed, Messages
    <3>2. Append(toD[d], "probe") # <<>>
      BY <3>1, AppendProperties
    <3> QED
      BY <1>1, <3>2
  <2>2. state'[d] # "none" => state[d] # "none"
    BY DEF DoExpiration, Probed
  <2> QED
    BY <2>1, <2>2 DEF IInv, Served, DoExpiration
<1>4. ASSUME NEW d \in Daemons PROVE Punctual(d)'
  <2> SUFFICES ASSUME state'[d] = "PENDING", ~excuse'[d]
               PROVE  /\ alive[d] /\ link[d]
                      /\ toD'[d] = <<"probe">> /\ toI[d] = <<>>
                      /\ left' + svc[d] > Lat
    BY DEF Punctual, DoExpiration
  <2>1. state[d] = "OK"
    BY DEF DoExpiration, Probed, IInv, Typed
  <2>2. left >= 0 /\ link[d] /\ alive[d] /\ toD[d] = <<>>
    <3>1. excuse'[d] = (left < 0 \/ ~link[d] \/ ~alive[d] \/ toD[d] # <<>>)
      BY Zenon DEF DoExpiration
    <3>2. ~(left < 0) /\ link[d] /\ alive[d] /\ toD[d] = <<>>
      BY <3>1, Zenon
    <3> QED
      BY <3>2 DEF IInv, Typed
  <2>3. watched[d] /\ svc[d] = 0
    BY <2>1, <2>2 DEF IInv, Served
  <2>4. left <= 0 /\ ~Readable(d)
    BY DEF DoExpiration, TimerDue
  <2>5. toI[d] = <<>>
    BY <2>3, <2>4 DEF Readable
  <2>6. toD'[d] = <<"probe">>
    BY <1>1, <2>1, <2>2, ShortSequences DEF Known
  <2>7. left' = ping /\ ping > Lat /\ ping \in Nat
    BY <2>2, <2>4, ProbeAssumption DEF DoExpiration, IInv, Typed
  <2>8. left' + svc[d] > Lat
    BY <2>3, <2>7, ProbeAssumption
  <2> QED
    BY <2>2, <2>5, <2>6, <2>8
<1>5. Shell'
  BY DEF IInv, Shell, DoExpiration, TimerDue
<1> QED
  BY <1>2, <1>3, <1>4, <1>5 DEF IInv

LEMMA NotifyOfSelectionStep ==
    ASSUME IInv, NEW e \in Daemons, NotifyOfSelection(e)
    PROVE  IInv'
<1>1. CASE toI[e] = <<>>
  <2>1. /\ ~alive[e] /\ watched' = [watched EXCEPT ![e] = FALSE]
        /\ told' = [told EXCEPT ![e] = "terminated"]
        /\ UNCHANGED <<toI, state, left, ping, mode, sh, toD, alive, link,
                       svc, excuse>>
    BY <1>1 DEF NotifyOfSelection, Terminated, Readable
  <2>2. Typed'
    BY <2>1 DEF IInv, Typed
  <2>3. ASSUME NEW d \in Daemons PROVE Served(d)' /\ Punctual(d)'
    BY <2>1 DEF IInv, Typed, Served, Punctual
  <2>4. Shell'
    BY <2>1 DEF IInv, Shell, NotifyOfSelection
  <2> QED
    BY <2>2, <2>3, <2>4 DEF IInv
<1>2. CASE toI[e] # <<>>
  <2>1. /\ mode = "select"
        /\ toI' = [toI EXCEPT ![e] = Tail(@)]
        /\ Head(toI[e]) = "probe-reply" =>
              state' = [state EXCEPT ![e] = "OK"]
        /\ Head(toI[e]) # "probe-reply" => state' = state
        /\ told' \in {told, [told EXCEPT ![e] = "restored"]}
        /\ watched[e]
        /\ UNCHANGED <<watched, left, ping, mode, sh, toD, alive, link, svc,
                       excuse>>
    BY <1>2 DEF NotifyOfSelection, Readable, IInv, Typed
  <2>2. Typed'
    <3>1. Tail(toI[e]) \in Seq(Answers)
      BY <1>2 DEF IInv, Typed
    <3>2. state' \in [Daemons -> {"none", "OK", "PENDING", "LOST"}]
      BY <2>1 DEF IInv, Typed
    <3>3. told' \in [Daemons -> {"nothing", "lost", "restored", "terminated"}]
      BY <2>1 DEF IInv, Typed
    <3> QED
      BY <2>1, <3>1, <3>2, <3>3 DEF IInv, Typed
  <2>3. ASSUME NEW d \in Daemons PROVE Served(d)'
    BY <2>1 DEF IInv, Typed, Served
  <2>4. ASSUME NEW d \in Daemons PROVE Punctual(d)'
    <3>1. CASE d = e
      <4>1. Head(toI[e]) = "probe-reply" => state'[e] = "OK"
        BY <2>1 DEF IInv, Typed
      <4>2. Head(toI[e]) # "probe-reply" => state'[e] = state[e]
        BY <2>1
      <4>3. Punctual(e)
        BY DEF IInv
      <4> QED
        BY <1>2, <2>1, <3>1, <4>1, <4>2, <4>3, ShortSequences DEF Punctual
    <3>2. CASE d # e
      BY <2>1, <3>2 DEF IInv, Typed, Punctual
    <3> QED
      BY <3>1, <3>2
  <2>5. Shell'
    BY <2>1 DEF IInv, Shell
  <2> QED
    BY <2>2, <2>3, <2>4, <2>5 DEF IInv
<1> QED
  BY <1>1, <1>2

LEMMA ShellSendStep ==
    ASSUME IInv, NEW e \in Daemons, ShellSend(e)
    PROVE  IInv'
<1>1. /\ mode = "busy" /\ mode' = "shell"
      /\ sh' = [d |-> e, at |-> "okay",
                clean |-> toD[e] = <<>> /\ toI[e] = <<>>]
      /\ toD' = [toD EXCEPT ![e] = Post(e, "shell")]
      /\ excuse' = [excuse EXCEPT ![e] = TRUE]
      /\ UNCHANGED <<left, ping, state, watched, told, toI, alive, link, svc>>
  BY DEF ShellSend
<1>2. /\ toD[e] \in Seq(Messages) /\ "shell" \in Messages
      /\ toD'[e] = IF alive[e] THEN Append(toD[e], "shell") ELSE toD[e]
  BY <1>1 DEF IInv, Typed, Post, Messages
<1>3. Append(toD[e], "shell") \in Seq(Messages) /\ Append(toD[e], "shell") # <<>>
  BY <1>2, AppendProperties
<1>4. Typed'
  <2>1. Post(e, "shell") \in Seq(Messages)
    BY <1>2, <1>3 DEF Post
  <2>2. (toD[e] = <<>> /\ toI[e] = <<>>) \in BOOLEAN
    OBVIOUS
  <2>3. sh' \in [d : Daemons \cup {"none"},
                 at : {"none", "okay", "lines", "status"}, clean : BOOLEAN]
    BY <1>1, <2>2
  <2> QED
    BY <1>1, <2>1, <2>3 DEF IInv, Typed
<1>5. ASSUME NEW d \in Daemons PROVE Served(d)' /\ Punctual(d)'
  <2>1. toD'[d] = <<>> => toD[d] = <<>>
    BY <1>1, <1>2, <1>3 DEF IInv, Typed
  <2>2. Served(d)'
    BY <1>1, <2>1 DEF IInv, Served
  <2>3. d # e => toD'[d] = toD[d] /\ excuse'[d] = excuse[d]
    BY <1>1 DEF IInv, Typed
  <2>4. excuse'[e]
    BY <1>1 DEF IInv, Typed
  <2>5. Punctual(d)'
    BY <1>1, <2>3, <2>4 DEF IInv, Punctual
  <2> QED
    BY <2>2, <2>5
<1>6. Shell'
  <2>1. sh'.d = e /\ sh'.at = "okay" /\ sh'.clean = (toD[e] = <<>> /\ toI[e] = <<>>)
    BY <1>1
  <2>2. ASSUME sh'.clean PROVE OwnReplies(e, "okay")'
    <3>1. toD[e] = <<>> /\ toI[e] = <<>>
      BY <2>1, <2>2
    <3>2. toD'[e] = IF alive[e] THEN <<"shell">> ELSE <<>>
      BY <1>2, <3>1, ShortSequences
    <3> QED
      BY <1>1, <3>1, <3>2 DEF OwnReplies
  <2>3. excuse'[e]
    BY <1>1 DEF IInv, Typed
  <2> QED
    BY <1>1, <2>1, <2>2, <2>3 DEF Shell
<1> QED
  BY <1>4, <1>5, <1>6 DEF IInv

\* What a shell command reads when it is on a quiet channel, and what is
\* before it then.
LEMMA OwnRepliesRead ==
    ASSUME IInv, mode = "shell", sh.clean
    PROVE  /\ toI[sh.d] # <<>> => Head(toI[sh.d]) \in Expected
           /\ toI[sh.d] # <<>> =>
                 \A at \in AfterReading(Head(toI[sh.d])) \ {"none"} :
                    /\ toD[sh.d] = <<>>
                    /\ at = "lines" => Tail(toI[sh.d]) \in
                          {<<"shell_out", "done", "status">>, <<"done", "status">>}
                    /\ at = "status" => Tail(toI[sh.d]) = <<"status">>
                    /\ at \in {"lines", "status"}
           /\ toI[sh.d] = <<>> => AfterReading("eof") = {"none"} \/ alive[sh.d]
<1> DEFINE s == toI[sh.d]
<1>1. sh.d \in Daemons /\ sh.at \in {"okay", "lines", "status"}
      /\ OwnReplies(sh.d, sh.at)
  BY DEF IInv, Shell, Typed
<1>2. CASE sh.at = "okay"
  <2>1. Expected = {"okay", "fail"}
    BY <1>2 DEF Expected
  <2>2. CASE s = <<>>
    BY <1>2, <2>2 DEF AfterReading
  <2>3. CASE s # <<>>
    <3>1. toD[sh.d] = <<>> /\ s \in ShellCommand
      BY <1>1, <1>2, <2>3 DEF OwnReplies
    <3>2. s = <<"fail">> \/ s = <<"okay", "done", "status">>
          \/ s = <<"okay", "shell_out", "done", "status">>
      BY <3>1 DEF ShellCommand
    <3>3. Head(s) = "fail" \/ (Head(s) = "okay" /\ Tail(s) \in
              {<<"shell_out", "done", "status">>, <<"done", "status">>})
      BY <3>2, ReadingOn
    <3>4. AfterReading("fail") = {"none"} /\ AfterReading("okay") = {"lines"}
      BY <1>2 DEF AfterReading
    <3> HIDE DEF s
    <3>5. Head(s) \in Expected
      BY <2>1, <3>3
    <3>6. ASSUME NEW at \in AfterReading(Head(s)) \ {"none"}
          PROVE  at = "lines" /\ Tail(s) \in
                   {<<"shell_out", "done", "status">>, <<"done", "status">>}
      BY <3>3, <3>4, <3>6
    <3> QED
      BY <2>3, <3>1, <3>5, <3>6 DEF s
  <2> QED
    BY <2>2, <2>3
<1>3. CASE sh.at = "lines"
  <2>1. Expected = {"shell_out", "done"}
    BY <1>3 DEF Expected
  <2>2. toD[sh.d] = <<>> /\ (s = <<"shell_out", "done", "status">>
                             \/ s = <<"done", "status">>)
    BY <1>1, <1>3 DEF OwnReplies
  <2>3. \/ Head(s) = "shell_out" /\ Tail(s) = <<"done", "status">>
        \/ Head(s) = "done" /\ Tail(s) = <<"status">>
    BY <2>2, ReadingOn
  <2>4. AfterReading("shell_out") = {"lines"} /\ AfterReading("done") = {"status"}
    BY <1>3 DEF AfterReading
  <2>5. s # <<>>
    BY <2>2
  <2> HIDE DEF s
  <2>6. ASSUME NEW at \in AfterReading(Head(s)) \ {"none"}
        PROVE  \/ at = "lines" /\ Tail(s) = <<"done", "status">>
               \/ at = "status" /\ Tail(s) = <<"status">>
    BY <2>3, <2>4, <2>6
  <2> QED
    BY <2>1, <2>2, <2>3, <2>5, <2>6 DEF s
<1>4. CASE sh.at = "status"
  <2>1. Expected = {"status"} /\ AfterReading(Head(s)) = {"none"}
    BY <1>4 DEF Expected, AfterReading
  <2>2. toD[sh.d] = <<>> /\ s = <<"status">>
    BY <1>1, <1>4 DEF OwnReplies
  <2>3. s # <<>> /\ Head(s) = "status"
    BY <2>2, ShortSequences
  <2> QED
    BY <2>1, <2>3
<1> QED
  BY <1>1, <1>2, <1>3, <1>4

LEMMA ShellRecvStep ==
    ASSUME IInv, ShellRecv
    PROVE  IInv'
<1>0. PICK e \in Daemons : e = sh.d
  BY DEF ShellRecv, IInv, Shell
<1> DEFINE ev == IF toI[e] = <<>> THEN "eof" ELSE Head(toI[e])
<1>1. /\ mode = "shell"
      /\ toI[e] = <<>> => ~alive[e]
      /\ toI' = IF toI[e] = <<>> THEN toI ELSE [toI EXCEPT ![e] = Tail(@)]
      /\ UNCHANGED <<left, ping, state, watched, told, toD, alive, link, svc,
                     excuse>>
  BY <1>0 DEF ShellRecv
<1>2. PICK at \in AfterReading(ev) :
         /\ mode' = IF at = "none" THEN "busy" ELSE "shell"
         /\ sh' = IF at = "none" THEN NoShell ELSE [sh EXCEPT !.at = at]
  BY <1>0 DEF ShellRecv
<1>3. at \in {"none", "lines", "status"}
  BY <1>1, <1>2 DEF AfterReading, IInv, Typed, Shell
<1>4. toI' \in [Daemons -> Seq(Answers)]
  BY <1>1 DEF IInv, Typed
<1>5. Typed'
  BY <1>1, <1>2, <1>3, <1>4 DEF IInv, Typed, NoShell
<1>6. ASSUME NEW d \in Daemons PROVE Served(d)'
  BY <1>1 DEF IInv, Served
<1>7. ASSUME NEW d \in Daemons PROVE Punctual(d)'
  <2>1. CASE d = e
    BY <1>0, <1>1, <2>1 DEF IInv, Shell, Punctual
  <2>2. CASE d # e
    BY <1>1, <2>2 DEF IInv, Typed, Punctual
  <2> QED
    BY <2>1, <2>2
<1>8. Shell'
  <2>1. CASE at = "none"
    BY <1>2, <2>1 DEF Shell
  <2>2. CASE at # "none"
    <3>1. /\ mode' = "shell" /\ sh'.d = e /\ sh'.at = at /\ sh'.clean = sh.clean
      BY <1>0, <1>2, <2>2 DEF IInv, Typed
    <3>2. ASSUME sh.clean PROVE OwnReplies(e, at)'
      <4>1. toI[e] # <<>>
        BY <1>0, <1>1, <1>2, <2>2, <3>2, OwnRepliesRead
      <4>2. /\ toD[e] = <<>>
            /\ at = "lines" => Tail(toI[e]) \in
                  {<<"shell_out", "done", "status">>, <<"done", "status">>}
            /\ at = "status" => Tail(toI[e]) = <<"status">>
        BY <1>0, <1>1, <1>2, <2>2, <3>2, <4>1, OwnRepliesRead
      <4>3. toI'[e] = Tail(toI[e]) /\ toD'[e] = <<>>
        BY <1>1, <4>1, <4>2 DEF IInv, Typed
      <4> QED
        BY <1>3, <2>2, <4>2, <4>3 DEF OwnReplies
    <3> QED
      BY <1>0, <1>1, <1>3, <2>2, <3>1, <3>2 DEF IInv, Shell
  <2> QED
    BY <2>1, <2>2
<1> QED
  BY <1>5, <1>6, <1>7, <1>8 DEF IInv

-----------------------------------------------------------------------------
(* The daemons' steps, and time.                                           *)

LEMMA NextRequestStep ==
    ASSUME IInv, NEW e \in Daemons, NextRequest(e)
    PROVE  IInv'
<1>1. PICK a \in IF Head(toD[e]) = "probe" THEN {<<"probe-reply">>}
                 ELSE ShellCommand :
         toI' = [toI EXCEPT ![e] = @ \o a]
  BY DEF NextRequest
<1>2. /\ alive[e] /\ link[e] /\ toD[e] # <<>>
      /\ toD' = [toD EXCEPT ![e] = Tail(@)]
      /\ svc' = [svc EXCEPT ![e] = 0]
      /\ UNCHANGED <<left, ping, mode, sh, state, watched, told, alive, link,
                     excuse>>
  BY DEF NextRequest, ivars
<1>3. a \in Seq(Answers) /\ <<>> \o a = a
  BY <1>1, AnswerAlone
<1>4. Typed'
  <2>1. toI[e] \o a \in Seq(Answers)
    BY <1>3 DEF IInv, Typed
  <2>2. Tail(toD[e]) \in Seq(Messages)
    BY <1>2 DEF IInv, Typed
  <2> QED
    BY <1>1, <1>2, <2>1, <2>2 DEF IInv, Typed
<1>5. ASSUME NEW d \in Daemons PROVE Served(d)'
  BY <1>2, ProbeAssumption DEF IInv, Typed, Served
<1>6. /\ toI'[e] = toI[e] \o a /\ toD'[e] = Tail(toD[e])
      /\ \A d \in Daemons \ {e} : toI'[d] = toI[d] /\ toD'[d] = toD[d]
                                  /\ svc'[d] = svc[d]
  BY <1>1, <1>2 DEF IInv, Typed
<1>7. ASSUME NEW d \in Daemons PROVE Punctual(d)'
  <2>1. CASE d = e
    <3> SUFFICES ASSUME state[e] = "PENDING", ~excuse[e]
                 PROVE  toD'[e] = <<>> /\ toI'[e] = <<"probe-reply">>
      BY <1>2, <2>1 DEF Punctual
    <3>1. toD[e] = <<"probe">> /\ toI[e] = <<>>
      BY <1>2 DEF IInv, Punctual
    <3>2. Head(toD[e]) = "probe" /\ Tail(toD[e]) = <<>>
      BY <3>1, ShortSequences
    <3>3. a = <<"probe-reply">>
      BY <1>1, <3>2
    <3> QED
      BY <1>3, <1>6, <3>1, <3>2, <3>3
  <2>2. CASE d # e
    BY <1>2, <1>6, <2>2 DEF IInv, Punctual
  <2> QED
    BY <2>1, <2>2
<1>8. Shell'
  <2>1. ASSUME mode = "shell", sh.clean PROVE OwnReplies(sh.d, sh.at)'
    <3>1. OwnReplies(sh.d, sh.at) /\ sh.d \in Daemons
      BY <2>1 DEF IInv, Shell
    <3>2. CASE sh.d = e
      <4>1. sh.at = "okay" /\ toD[e] = <<"shell">> /\ toI[e] = <<>>
        BY <1>2, <3>1, <3>2 DEF OwnReplies
      <4>2. Head(toD[e]) = "shell" /\ Tail(toD[e]) = <<>>
        BY <4>1, ShortSequences
      <4>3. a \in ShellCommand
        BY <1>1, <4>2
      <4>4. toD'[e] = <<>> /\ toI'[e] \in ShellCommand
        BY <1>3, <1>6, <4>1, <4>2, <4>3
      <4> QED
        BY <1>2, <3>2, <4>1, <4>4 DEF OwnReplies, ShellCommand
    <3>3. CASE sh.d # e
      BY <1>2, <1>6, <3>1, <3>3 DEF OwnReplies, ShellCommand
    <3> QED
      BY <3>2, <3>3
  <2> QED
    BY <1>2, <2>1 DEF IInv, Shell
<1> QED
  BY <1>4, <1>5, <1>7, <1>8 DEF IInv

LEMMA DaemonDiesStep ==
    ASSUME IInv, NEW e \in Daemons, DaemonDies(e)
    PROVE  IInv'
<1>1. /\ alive' = [alive EXCEPT ![e] = FALSE]
      /\ toD' = [toD EXCEPT ![e] = <<>>]
      /\ svc' = [svc EXCEPT ![e] = 0]
      /\ excuse' = [excuse EXCEPT ![e] = TRUE]
      /\ UNCHANGED <<left, ping, mode, sh, state, watched, told, toI, link>>
  BY DEF DaemonDies, ivars
<1>2. Typed'
  BY <1>1, EmptySeq DEF IInv, Typed
<1>3. ASSUME NEW d \in Daemons PROVE Served(d)' /\ Punctual(d)'
  BY <1>1, ProbeAssumption DEF IInv, Typed, Served, Punctual
<1>4. Shell'
  <2>1. ASSUME mode = "shell", sh.clean PROVE OwnReplies(sh.d, sh.at)'
    <3>1. OwnReplies(sh.d, sh.at) /\ sh.d \in Daemons
      BY <2>1 DEF IInv, Shell
    <3>2. toD'[sh.d] = IF sh.d = e THEN <<>> ELSE toD[sh.d]
      BY <1>1, <3>1 DEF IInv, Typed
    <3>3. alive'[sh.d] = IF sh.d = e THEN FALSE ELSE alive[sh.d]
      BY <1>1, <3>1 DEF IInv, Typed
    <3> QED
      BY <1>1, <3>1, <3>2, <3>3 DEF OwnReplies, ShellCommand
  <2>2. mode = "shell" => excuse'[sh.d]
    BY <1>1 DEF IInv, Typed, Shell
  <2> QED
    BY <1>1, <2>1, <2>2 DEF IInv, Shell
<1> QED
  BY <1>2, <1>3, <1>4 DEF IInv

LEMMA LinkStep ==
    ASSUME IInv, NEW e \in Daemons, LinkDown(e) \/ LinkUp(e)
    PROVE  IInv'
<1>1. /\ link' \in {[link EXCEPT ![e] = FALSE], [link EXCEPT ![e] = TRUE]}
      /\ excuse' \in {excuse, [excuse EXCEPT ![e] = TRUE]}
      /\ excuse' = excuse => link' = [link EXCEPT ![e] = TRUE] \/ excuse[e]
      /\ UNCHANGED <<left, ping, mode, sh, state, watched, told, toI, toD,
                     alive, svc>>
  BY DEF LinkDown, LinkUp, ivars, IInv, Typed
<1>2. Typed'
  BY <1>1 DEF IInv, Typed
<1>3. ASSUME NEW d \in Daemons PROVE Served(d)' /\ Punctual(d)'
  BY <1>1 DEF IInv, Typed, Served, Punctual
<1>4. Shell'
  <2>1. mode = "shell" => excuse'[sh.d]
    BY <1>1 DEF IInv, Typed, Shell
  <2> QED
    BY <1>1, <2>1 DEF IInv, Shell, OwnReplies, ShellCommand
<1> QED
  BY <1>2, <1>3, <1>4 DEF IInv

\* A tick takes as much from the timer as it adds to the time of every daemon
\* that has something to answer.
LEMMA TickStep ==
    ASSUME IInv, Tick
    PROVE  IInv'
<1>1. /\ left' = left - 1
      /\ svc' = [d \in Daemons |-> IF Asked(d) THEN svc[d] + 1 ELSE svc[d]]
      /\ \A d \in Daemons : Asked(d) => svc[d] < Lat
      /\ UNCHANGED <<ping, mode, sh, state, watched, told, toI, toD, alive,
                     link, excuse>>
  BY DEF Tick
<1>2. Typed'
  BY <1>1 DEF IInv, Typed
<1>3. ASSUME NEW d \in Daemons PROVE Served(d)'
  BY <1>1, ProbeAssumption DEF IInv, Typed, Served, Asked
<1>4. ASSUME NEW d \in Daemons PROVE Punctual(d)'
  <2>1. Punctual(d) /\ left \in Int /\ svc[d] \in Nat
    BY DEF IInv, Typed
  <2>2. alive[d] /\ link[d] /\ toD[d] = <<"probe">> => svc'[d] = svc[d] + 1
    BY <1>1 DEF Asked
  <2>3. alive[d] /\ link[d] /\ toD[d] = <<"probe">> /\ left + svc[d] > Lat
           => left' + svc'[d] > Lat
    BY <1>1, <2>1, <2>2, ProbeAssumption
  <2> QED
    BY <1>1, <2>1, <2>3 DEF Punctual
<1>5. Shell'
  BY <1>1 DEF IInv, Shell, OwnReplies, ShellCommand
<1> QED
  BY <1>2, <1>3, <1>4, <1>5 DEF IInv

-----------------------------------------------------------------------------
(* The theorems.                                                           *)

\* The invariant holds at the start and every step keeps it.
LEMMA InitIInv == Init => IInv
<1> SUFFICES ASSUME Init PROVE IInv
  OBVIOUS
<1>1. Typed
  BY ProbeAssumption, EmptySeq DEF Init, Typed, NoShell
<1>2. ASSUME NEW d \in Daemons PROVE Served(d) /\ Punctual(d)
  BY ProbeAssumption DEF Init, Served, Punctual
<1>3. Shell
  BY DEF Init, Shell
<1> QED
  BY <1>1, <1>2, <1>3 DEF IInv

LEMMA NextIInv == IInv /\ [Next]_vars => IInv'
<1> SUFFICES ASSUME IInv, [Next]_vars PROVE IInv'
  OBVIOUS
<1>1. CASE UNCHANGED vars
  BY <1>1 DEF vars, ivars, IInv, Typed, Served, Punctual, Shell, OwnReplies,
              ShellCommand
<1>2. CASE Next
  BY <1>2, ScriptStep, GetHostDaemonStep, DoExpirationStep,
     NotifyOfSelectionStep, ShellSendStep, ShellRecvStep, NextRequestStep,
     DaemonDiesStep, LinkStep, TickStep DEF Next
<1> QED
  BY <1>1, <1>2

LEMMA InvariantHolds == Spec => []IInv
  BY InitIInv, NextIInv, PTL DEF Spec

\* A daemon that answers within the probe interval is not reported lost
\* (ProbeTimer::DoExpiration), whatever the daemons' number, the intervals
\* and the lateness of the interpreter.
THEOREM LossesAreReal == Spec => LossIsReal
<1>1. IInv /\ [Next]_vars =>
         [\A d \in Daemons :
             state[d] = "PENDING" /\ state'[d] = "LOST" => excuse[d]]_vars
  <2> SUFFICES ASSUME IInv, Next, NEW d \in Daemons,
                      state[d] = "PENDING", state'[d] = "LOST"
               PROVE  excuse[d]
    BY Zenon
  <2>1. CASE DoExpiration
    BY <2>1, PendingExcused DEF DoExpiration
  <2>2. CASE \E e \in Daemons : GetHostDaemon(e)
    BY <2>2 DEF GetHostDaemon, IInv, Typed
  <2>3. CASE \E e \in Daemons : NotifyOfSelection(e)
    BY <2>3 DEF NotifyOfSelection, IInv, Typed
  <2>4. CASE UNCHANGED state
    BY <2>4
  <2> QED
    BY <2>1, <2>2, <2>3, <2>4 DEF Next, Begin, End, SetPing, ShellSend,
       ShellRecv, NextRequest, DaemonDies, LinkDown, LinkUp, Tick, ivars
<1> QED
  BY <1>1, InvariantHolds, PTL DEF LossIsReal, Spec

\* A command sent on a channel with nothing under way reads the answers to
\* itself and no others (RemoteSynchronousShell): no probe comes between.
THEOREM ShellReadsOwnReplies == Spec => ShellOwnReplies
<1>1. IInv /\ [Next]_vars =>
         [\A d \in Daemons :
             sh.d = d /\ sh.clean /\ Len(toI'[d]) < Len(toI[d])
               => Head(toI[d]) \in Expected]_vars
  <2> SUFFICES ASSUME IInv, Next, NEW d \in Daemons,
                      sh.d = d, sh.clean, Len(toI'[d]) < Len(toI[d])
               PROVE  Head(toI[d]) \in Expected
    BY Zenon
  <2>0. toI \in [Daemons -> Seq(Answers)] /\ Len(toI[d]) \in Nat
    BY DEF IInv, Typed
  <2>1. mode = "shell"
    BY ProbeAssumption DEF IInv, Shell, NoShell
  <2>2. CASE ShellRecv
    <3>1. toI[d] # <<>>
      BY <2>0, <2>2 DEF ShellRecv
    <3> QED
      BY <2>1, <3>1, OwnRepliesRead
  <2>3. CASE \E e \in Daemons : NextRequest(e)
    <3>1. PICK e \in Daemons : NextRequest(e)
      BY <2>3
    <3>2. PICK a \in Seq(Answers) : toI' = [toI EXCEPT ![e] = @ \o a]
      BY <3>1, AnswerAlone DEF NextRequest
    <3>3. Len(toI'[d]) >= Len(toI[d])
      BY <2>0, <3>2
    <3> QED
      BY <2>0, <3>3
  <2>4. CASE UNCHANGED toI
    BY <2>0, <2>4
  <2> QED
    BY <2>1, <2>2, <2>3, <2>4 DEF Next, Begin, End, SetPing, GetHostDaemon,
       DoExpiration, TimerDue, NotifyOfSelection, ShellSend, DaemonDies,
       LinkDown, LinkUp, Tick, ivars
<1> QED
  BY <1>1, InvariantHolds, PTL DEF ShellOwnReplies, Spec

=============================================================================
