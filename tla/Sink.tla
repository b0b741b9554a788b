-------------------------------- MODULE Sink --------------------------------
(***************************************************************************)
(* sos_fd_sink: the buffered, suspendable writer through which every event *)
(* leaves a process.  The parts of an event are collected as "buckets" in  *)
(* a chain of fixed-size iovec arrays (kernels) and written with writev()  *)
(* to a non-blocking descriptor; what the descriptor does not take stays   *)
(* in the chain, and the write is resumed when select() finds the          *)
(* descriptor writable.                                                    *)
(*                                                                         *)
(* Bytes are numbered from 1 in the order they are written to the sink,    *)
(* and the number of a byte is also its address in memory: a bucket points *)
(* to bytes base .. base + len - 1.  Address 0 is the null pointer, and a  *)
(* byte read from memory that was given back reads as 0.                   *)
(***************************************************************************)
EXTENDS Naturals, Sequences, FiniteSets, SequencesExt, FiniteSetsExt

CONSTANTS
    Shapes,     \* the events: sequences of [type, len], the calls of write()
    Size,       \* iovecs in a kernel (MAXIOV)
    Cap,        \* bytes the descriptor's pipe or socket buffer holds
    Atomic,     \* writes of at most this many bytes are not split (PIPE_BUF)
    MaxEvents   \* bound: events sent

ASSUME SinkAssumption ==
    /\ Size \in Nat \ {0}
    /\ Atomic \in Nat \ {0}
    /\ Cap \in Nat /\ Cap >= Atomic
    /\ MaxEvents \in Nat
    /\ \A s \in Shapes :
          /\ s \in Seq([type : {"COPY", "HOLD", "FREE"}, len : Nat])
          /\ s # <<>>
          \* a buffer that is given away holds a header at least
          /\ \A i \in 1..Len(s) : s[i].type = "FREE" => s[i].len > 0

VARIABLES
    kernels,    \* sos_fd_buf: the chain of kernels
    start,      \* first bucket of kernels[1] not written yet, from 0
    sent,       \* bytes of kernels[1] already written
    job,        \* what the process that owns the sink is doing with it
    events,     \* events sent so far
    nxt,        \* bytes written to the sink so far
    heap,       \* addresses of the FREE buffers that are allocated
    wild,       \* a pointer was freed that is not one of them
    selecting,  \* a SendSelectee watches the descriptor
    pipe,       \* bytes in the descriptor's buffer
    got,        \* bytes the reader has read
    open        \* the reader still has its end open

sinkVars == <<kernels, start, sent, heap, wild>>
vars == <<kernels, start, sent, job, events, nxt, heap, wild, selecting,
          pipe, got, open>>

----------------------------------------------------------------------------
(* The kernels.                                                            *)

Bucket == [base : Nat, len : Nat, type : {"HOLD", "COPY", "FREE"}, ev : Nat]

EmptyKernel == [iov |-> <<>>, total |-> 0, holder |-> 0, hindex |-> 0,
                final |-> <<>>]

Full(k) == Len(k.iov) >= Size

\* buf.add() when all the buckets of the last kernel are in use
AddIfFull(ks) == IF Full(Last(ks)) THEN Append(ks, EmptyKernel) ELSE ks

\* The pointers reset() frees: it puts the base of a partly sent bucket back
\* first, unless that bucket is number 0.
FreedByReset(k) ==
    LET base(i) == IF k.holder # 0 /\ k.hindex # 0 /\ i = k.hindex + 1
                   THEN k.holder ELSE k.iov[i].base
    IN  {base(i) : i \in {j \in 1..Len(k.iov) : k.iov[j].type = "FREE"}}

\* What is left of a kernel that was reset.
ResetKernel(k) ==
    IF k.holder # 0 /\ k.hindex # 0 THEN EmptyKernel
    ELSE [EmptyKernel EXCEPT !.holder = k.holder, !.hindex = k.hindex]

Free(ptrs) == /\ heap' = heap \ ptrs
              /\ wild' = (wild \/ ~(ptrs \subseteq heap))

\* The values kept in memory: that of the event being sent, and those that
\* a finalizer is to give back.
Alive == (IF job.ev = 0 THEN {} ELSE {job.ev})
            \cup UNION {Range(kernels[i].final) : i \in 1..Len(kernels)}

\* The bytes a bucket's pointer and length denote.  A COPY bucket points to
\* memory of its kernel, a FREE one to a buffer of its own.
Bytes(b) == [i \in 1..b.len |->
                IF b.type = "HOLD" /\ b.ev \notin Alive THEN 0
                ELSE b.base + i - 1]

BytesOf(iov) == FlattenSeq([i \in 1..Len(iov) |-> Bytes(iov[i])])

Unsent(k, from) == SubSeq(k.iov, from + 1, Len(k.iov))

----------------------------------------------------------------------------
(* What the caller of flush() does with its result.                        *)

Idle == [at |-> "idle", rest |-> <<>>, ev |-> 0, can |-> TRUE]

Flushing == job.at \in {"fill", "last", "spin", "resume", "quit"}

\* Slip: the value is tied to the kernel that will be written first.
SendSuspendedSlip(ks) ==
    /\ kernels' = [ks EXCEPT ![1].final = Append(@, job.ev)]
    /\ selecting' = TRUE
    /\ job' = Idle

\* SendSuspended(): the value is kept until the kernel that is last now is
\* reset, and the descriptor is watched.
SendSuspended(ks) ==
    /\ kernels' = [ks EXCEPT ![Len(ks)].final = Append(@, job.ev)]
    /\ selecting' = TRUE
    /\ job' = Idle

\* SendSelectee::NotifyOfSelection() when resume() has not written it all
ResumeSuspended(ks) ==
    /\ kernels' = ks
    /\ job' = Idle
    /\ UNCHANGED selecting

\* flush() returned the sink itself: some bytes are still to be written.
ReturnSuspended(ks) ==
    CASE job.at = "fill" ->
            /\ job' = [job EXCEPT !.at = IF job.rest = <<>> THEN "last" ELSE "put"]
            /\ kernels' = ks
            /\ UNCHANGED selecting
      [] job.at = "last" /\ job.can -> SendSuspended(ks)
      [] job.at \in {"last", "spin"} /\ ~job.can ->
            /\ job' = [job EXCEPT !.at = "spin"]
            /\ kernels' = ks
            /\ UNCHANGED selecting
      [] job.at = "resume" -> ResumeSuspended(ks)

\* flush() returned 0.
ReturnDone ==
    /\ job' = IF job.at = "fill"
              THEN [job EXCEPT !.at = IF job.rest = <<>> THEN "last" ELSE "put"]
              ELSE Idle
    /\ selecting' = (selecting /\ job.at # "resume")

\* ~sos_fd_sink() after its one flush(): the descriptor is closed and the
\* kernels are deleted with what is left in them.
Destroyed(ks) ==
    /\ Free(UNION {FreedByReset(ks[i]) : i \in 1..Len(ks)})
    /\ kernels' = <<EmptyKernel>>
    /\ start' = 0 /\ sent' = 0
    /\ job' = [Idle EXCEPT !.at = "gone"]
    /\ UNCHANGED selecting

----------------------------------------------------------------------------
(* Sending an event: send_event(), a write() for each part, a last flush.  *)

SendEvent(shape, can) ==
    /\ job.at = "idle"
    /\ events < MaxEvents
    /\ events' = events + 1
    /\ job' = [at |-> "put", rest |-> shape, ev |-> events + 1, can |-> can]
    /\ UNCHANGED <<sinkVars, nxt, selecting, pipe, got, open>>

Write ==
    /\ job.at = "put"
    /\ LET part == Head(job.rest)
           b == [base |-> nxt + 1, len |-> part.len, type |-> part.type,
                 ev |-> job.ev]
           l == Len(kernels)
       IN  /\ kernels' = [kernels EXCEPT ![l].iov = Append(@, b),
                                         ![l].total = @ + part.len]
           /\ nxt' = nxt + part.len
           /\ heap' = IF part.type = "FREE" THEN heap \cup {b.base} ELSE heap
           /\ job' = [job EXCEPT
                        !.rest = Tail(@),
                        !.at = IF Full(kernels'[l]) THEN "fill"
                               ELSE IF Tail(job.rest) = <<>> THEN "last" ELSE "put"]
    /\ UNCHANGED <<start, sent, events, wild, selecting, pipe, got, open>>

----------------------------------------------------------------------------
(* flush(): each action is one turn of its loop, with its writev().        *)

Room == Cap - Len(pipe)

K == kernels[1]
Needed == K.total - sent
Out == BytesOf(Unsent(K, start))

\* The numbers of bytes writev() may take, if the reader's end is open.
Taken == IF Len(Out) <= Room THEN {Len(Out)}
         ELSE IF Len(Out) <= Atomic THEN {} ELSE 1..Room

\* Nothing to write: the loop ends at once.
FlushNothing ==
    /\ Flushing
    /\ K.iov = <<>>
    /\ IF job.at = "quit" THEN Destroyed(kernels)
       ELSE ReturnDone /\ UNCHANGED sinkVars
    /\ UNCHANGED <<events, nxt, pipe, got, open>>

\* Slip: a base kept aside is not put back.
FlushAllSlip(n) ==
    /\ n >= Needed
    /\ Free(FreedByReset(K))
    /\ kernels' = IF Len(kernels) > 1 THEN Tail(kernels) ELSE <<ResetKernel(K)>>
    /\ start' = 0 /\ sent' = 0
    /\ IF Len(kernels) > 1 THEN UNCHANGED <<job, selecting>>
       ELSE IF job.at = "quit"
            THEN job' = [Idle EXCEPT !.at = "gone"] /\ UNCHANGED selecting
            ELSE ReturnDone

\* Slip: start is not set back for the next kernel.
FlushAllStart(n) ==
    /\ n >= Needed
    /\ Free(FreedByReset(K))
    /\ kernels' = IF Len(kernels) > 1 THEN Tail(kernels) ELSE <<ResetKernel(K)>>
    /\ UNCHANGED start /\ sent' = 0
    /\ IF Len(kernels) > 1 THEN UNCHANGED <<job, selecting>> ELSE ReturnDone

\* All of the first kernel is written: next().
FlushAll(n) ==
    /\ n >= Needed
    /\ LET k == IF K.holder # 0
                THEN [K EXCEPT !.iov[start + 1].base = K.holder,
                               !.holder = 0, !.hindex = 0]
                ELSE K
       IN  /\ Free(FreedByReset(k))
           /\ kernels' = IF Len(kernels) > 1 THEN Tail(kernels)
                         ELSE <<ResetKernel(k)>>
    /\ start' = 0 /\ sent' = 0
    /\ IF Len(kernels) > 1 THEN UNCHANGED <<job, selecting>>
       ELSE IF job.at = "quit"
            THEN job' = [Idle EXCEPT !.at = "gone"] /\ UNCHANGED selecting
            ELSE ReturnDone

\* Where a partial write of n bytes stops: the last bucket it touched, and
\* the bytes of the buckets up to and including that one.
Through(s) == Len(BytesOf(SubSeq(K.iov, start + 1, s + 1)))
StopAt(n) == Min({s \in start..(Len(K.iov) - 1) : Through(s) >= n})

\* Slip: a write that stops at the end of a bucket leaves start there.
PartialSlip(n) ==
    LET s == StopAt(n)
        cnt == Through(s)
        b == K.iov[s + 1]
        k == [K EXCEPT !.holder = IF @ = 0 THEN b.base ELSE @, !.hindex = s]
    IN  [kernel |-> IF cnt = n THEN K
                    ELSE [k EXCEPT !.iov[s + 1].base = b.base + b.len - (cnt - n),
                                   !.iov[s + 1].len = cnt - n],
         start |-> s]

\* A partial write: start moves on, and the base of a bucket that is sent in
\* part is kept aside.
Partial(n) ==
    LET s == StopAt(n)
        cnt == Through(s)
        k1 == IF K.holder # 0 /\ (s # start \/ cnt = n)
              THEN [K EXCEPT !.iov[start + 1].base = K.holder,
                             !.holder = 0, !.hindex = 0]
              ELSE K
        k2 == IF k1.holder = 0
              THEN [k1 EXCEPT !.holder = k1.iov[s + 1].base, !.hindex = s]
              ELSE k1
        b == k2.iov[s + 1]
    IN  IF cnt = n
        THEN [kernel |-> k1, start |-> s + 1]
        ELSE [kernel |-> [k2 EXCEPT
                            !.iov[s + 1].base = b.base + b.len - (cnt - n),
                            !.iov[s + 1].len = cnt - n],
              start |-> s]

FlushSome(n) ==
    /\ n < Needed
    /\ LET p == Partial(n)
           ks == AddIfFull([kernels EXCEPT ![1] = p.kernel])
       IN  IF job.at = "quit" THEN Destroyed(ks)
           ELSE /\ start' = p.start
                /\ sent' = sent + n
                /\ ReturnSuspended(ks)
                /\ UNCHANGED <<heap, wild>>

\* writev() takes n bytes.
FlushWrite ==
    /\ Flushing
    /\ K.iov # <<>>
    /\ open
    /\ \E n \in Taken :
          /\ pipe' = pipe \o SubSeq(Out, 1, n)
          /\ FlushAll(n) \/ FlushSome(n)
    /\ UNCHANGED <<events, nxt, got, open>>

\* writev() fails with EAGAIN.
FlushAgain ==
    /\ Flushing
    /\ K.iov # <<>>
    /\ open
    /\ Taken = {}
    /\ LET ks == AddIfFull(kernels)
       IN  IF job.at = "quit" THEN Destroyed(ks)
           ELSE ReturnSuspended(ks) /\ UNCHANGED <<start, sent, heap, wild>>
    /\ UNCHANGED <<events, nxt, pipe, got, open>>

\* writev() fails with EPIPE: the sink's reset() empties the whole chain.
FlushBroken ==
    /\ Flushing
    /\ K.iov # <<>>
    /\ ~open
    /\ LET ks == AddIfFull(kernels)
       IN  /\ Free(UNION {FreedByReset(ks[i]) : i \in 1..Len(ks)})
           /\ kernels' = <<ResetKernel(Last(ks))>>
    /\ start' = 0 /\ sent' = 0
    /\ IF job.at = "quit" THEN job' = [Idle EXCEPT !.at = "gone"] /\ UNCHANGED selecting
       ELSE ReturnDone
    /\ UNCHANGED <<events, nxt, pipe, got, open>>

\* writev() fails in another way (ECONNRESET): nothing is reset.
FlushError ==
    /\ Flushing
    /\ K.iov # <<>>
    /\ ~open
    /\ LET ks == AddIfFull(kernels)
       IN  IF job.at = "quit" THEN Destroyed(ks)
           ELSE /\ kernels' = ks
                /\ ReturnDone
                /\ UNCHANGED <<start, sent, heap, wild>>
    /\ UNCHANGED <<events, nxt, pipe, got, open>>

----------------------------------------------------------------------------
(* Resuming, giving up, and the other end.                                 *)

\* select() finds the descriptor writable; SendSelectee calls resume().
Resume ==
    /\ job.at = "idle"
    /\ selecting
    /\ open => Room >= Atomic
    /\ job' = [Idle EXCEPT !.at = "resume"]
    /\ UNCHANGED <<sinkVars, events, nxt, selecting, pipe, got, open>>

\* The channel is given up: ~sos_fd_sink().
Destroy ==
    /\ job.at = "idle"
    /\ job' = [Idle EXCEPT !.at = "quit"]
    /\ UNCHANGED <<sinkVars, events, nxt, selecting, pipe, got, open>>

\* sos_fd_source::read() at the other end
Read ==
    /\ open
    /\ pipe # <<>>
    /\ got' = Append(got, Head(pipe))
    /\ pipe' = Tail(pipe)
    /\ UNCHANGED <<sinkVars, job, events, nxt, selecting, open>>

\* The reader's process ends.
ReaderGone ==
    /\ open
    /\ open' = FALSE
    /\ pipe' = <<>>
    /\ UNCHANGED <<sinkVars, job, events, nxt, selecting, got>>

----------------------------------------------------------------------------
Init ==
    /\ kernels = <<EmptyKernel>>
    /\ start = 0 /\ sent = 0
    /\ job = Idle
    /\ events = 0 /\ nxt = 0
    /\ heap = {} /\ wild = FALSE
    /\ selecting = FALSE
    /\ pipe = <<>> /\ got = <<>>
    /\ open = TRUE

Flush == FlushNothing \/ FlushWrite \/ FlushAgain \/ FlushBroken \/ FlushError

Next ==
    \/ \E shape \in Shapes, can \in BOOLEAN : SendEvent(shape, can)
    \/ Write
    \/ Flush
    \/ Resume
    \/ Destroy
    \/ Read
    \/ ReaderGone

\* The process carries its own code on, goes back to select() when it is
\* done, and the reader reads what has come.
Fairness ==
    /\ WF_vars(Write)
    /\ WF_vars(Flush)
    /\ WF_vars(Resume)
    /\ WF_vars(Read)

Spec == Init /\ [][Next]_vars /\ Fairness

----------------------------------------------------------------------------
(* Properties.                                                             *)

\* Type invariant.
TypeOK ==
    /\ kernels \in Seq([iov : Seq(Bucket), total : Nat, holder : Nat,
                        hindex : Nat, final : Seq(1..MaxEvents)])
    /\ kernels # <<>>
    /\ \A i \in 1..Len(kernels) : Len(kernels[i].iov) <= Size
    /\ start \in Nat /\ (start = 0 \/ start < Len(K.iov))
    /\ sent \in 0..K.total
    /\ job \in [at : {"idle", "put", "fill", "last", "spin", "resume",
                      "quit", "gone"},
                rest : Seq([type : {"COPY", "HOLD", "FREE"}, len : Nat]),
                ev : 0..MaxEvents, can : BOOLEAN]
    /\ events \in 0..MaxEvents
    /\ nxt \in Nat
    /\ heap \subseteq 1..nxt
    /\ wild \in BOOLEAN /\ selecting \in BOOLEAN /\ open \in BOOLEAN
    /\ Len(pipe) <= Cap
    /\ \A i \in 1..Len(pipe) : pipe[i] \in 0..nxt

\* The sink implements a stream: whatever the descriptor takes of each
\* writev(), and however events are sent, suspended, resumed and sent again
\* meanwhile, the reader gets every byte once, in order and unaltered, and
\* gets them all unless one of the ends is closed.
Abstract == INSTANCE Stream WITH
                put <- nxt, got <- got,
                alive <- open /\ job.at \notin {"quit", "gone"}
StreamSpec == Abstract!Spec

\* The memory a bucket points to without owning it is kept as long as the
\* bucket waits to be written: its event is being sent, or the finalizer
\* that drops the value belongs to the bucket's kernel or to a later one.
HeldUntilWritten ==
    open => \A i \in 1..Len(kernels) :
                \A j \in (IF i = 1 THEN start + 1 ELSE 1)..Len(kernels[i].iov) :
                    LET b == kernels[i].iov[j]
                    IN  b.type = "HOLD" =>
                          \/ b.ev = job.ev
                          \/ \E l \in i..Len(kernels) :
                                b.ev \in Range(kernels[l].final)

\* Buffers are freed once, through the pointer they were allocated with, and
\* none is lost: those allocated are those the chain would free, a partly
\* sent bucket counting with the base that is kept aside for it.
FreesRight ==
    open /\ job.at # "gone" =>
        /\ ~wild
        /\ heap = UNION {{IF kernels[i].holder # 0 /\ kernels[i].hindex + 1 = j
                          THEN kernels[i].holder ELSE kernels[i].iov[j].base :
                          j \in {x \in 1..Len(kernels[i].iov) :
                                    kernels[i].iov[x].type = "FREE"}} :
                         i \in 1..Len(kernels)}
=============================================================================
