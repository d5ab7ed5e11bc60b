----------------------- MODULE ContainerReaderProofs -----------------------
(***************************************************************************)
(* The safety properties of the container reader, and that it implements   *)
(* LineSource, for any number of callers of Start and Stop, any length of  *)
(* the log, any number of streams and any capacity of the channel.         *)
(***************************************************************************)
EXTENDS ContainerReader, TLAPS

StreamTypes ==
  /\ log \in 0..MaxLines
  /\ opened \in Seq(Nat) /\ Len(opened) <= MaxStreams
  /\ base \in Nat /\ pos \in Nat /\ base <= pos /\ pos <= 2 * log
  /\ obtained \in Seq(Items)
  /\ \A i \in 1..Len(obtained) : obtained[i].s <= Len(opened)

\* The number of lines before the first that a stream brings, when the log had
\* k of them.
Skipped(k) == IF k > TailLines THEN k - TailLines ELSE 0

\* r.buffer begins after line k, which is the last one that was returned or,
\* in a stream of which none was, the last one it passed over.
After(k) ==
  /\ base = 2 * k
  /\ IF obtained # <<>> /\ obtained[Len(obtained)].s = Len(opened)
     THEN obtained[Len(obtained)].whole /\ obtained[Len(obtained)].n = k
     ELSE k = Skipped(opened[Len(opened)])

\* A stream is being read: what it has returned so far lies before r.buffer,
\* and r.buffer begins with a line unless the rest of the stream was returned.
InStream ==
  /\ opened # <<>>
  /\ \A i \in 1..Len(obtained) :
        obtained[i].s = Len(opened) => 2 * obtained[i].n <= base + 1
  /\ (\E k \in Nat : After(k)) \/ (eof /\ pos = base)

Streams ==
  /\ StreamTypes
  /\ pc \in {"read", "send"} => InStream
  /\ LinesContinue

\* The goroutine of the one Start, and the one call of Stop that finds the
\* reader running.
UsedOnce ==
  /\ ~panicked
  /\ call \in [Callers -> {"idle", "close", "wait"}]
  /\ stopCh \in BOOLEAN
  /\ pc \in {"unstarted", "loop", "read", "send", "check", "done"}
  /\ pc # "send" => held = <<>>
  /\ starts = 0 => pc = "unstarted" /\ ~isRunning /\ ~stopCh
  /\ pc = "unstarted" => starts = 0
  /\ stoppedCh <=> pc = "done"
  /\ \A c, d \in Callers : call[c] # "idle" /\ call[d] # "idle" => c = d
  /\ \A c \in Callers : /\ call[c] = "close" => ~stopCh /\ starts # 0
                        /\ call[c] = "wait" => stopCh
  /\ stopCh => ~isRunning \/ \E c \in Callers : call[c] = "wait"

\* The inductive invariant: what is known of the streams holds however Start
\* and Stop are called, the rest as long as the reader is used as it is meant
\* to be.
IInv ==
  /\ Streams
  /\ starts \in Nat /\ overlap \in BOOLEAN
  /\ ~Misused => UsedOnce

-----------------------------------------------------------------------------
\* The streams.

\* A line that follows on in its stream, or is the first of a new one, keeps
\* LinesContinue.
LEMMA ObtainContinues ==
  ASSUME StreamTypes, LinesContinue, InStream, UNCHANGED opened,
         NEW k \in Nat, After(k), k < MaxLines, NEW whole \in BOOLEAN, Obtain(whole)
  PROVE  /\ obtained' \in Seq(Items) /\ Len(obtained') = Len(obtained) + 1
         /\ \A i \in 1..Len(obtained) : obtained'[i] = obtained[i]
         /\ obtained'[Len(obtained')] = [s |-> Len(opened), n |-> k + 1, whole |-> whole]
         /\ LinesContinue'
<1> USE ContainerReaderAssumption
<1> DEFINE y == [s |-> Len(opened), n |-> k + 1, whole |-> whole]
<1>1. y \in Items /\ Len(opened) \in Nat \ {0}
  <2>1. Len(opened) \in 1..MaxStreams
    BY DEF StreamTypes, InStream
  <2>2. k + 1 \in 1..MaxLines
    OBVIOUS
  <2> QED
    BY <2>1, <2>2 DEF Items
<1>2. obtained' = Append(obtained, y)
  BY DEF Obtain, After
<1>3. obtained \in Seq(Items) /\ Len(obtained) \in Nat
  BY DEF StreamTypes
<1> HIDE DEF y
<1>4. /\ obtained' \in Seq(Items) /\ Len(obtained') = Len(obtained) + 1
      /\ \A i \in 1..Len(obtained) : obtained'[i] = obtained[i]
      /\ obtained'[Len(obtained')] = y
  BY <1>1, <1>2, <1>3
<1>5. LinesContinue'
  <2> SUFFICES ASSUME NEW i \in 1..(Len(obtained') - 1),
                      NEW due, due = IF obtained'[i].whole THEN obtained'[i].n + 1
                                                           ELSE obtained'[i].n
               PROVE  /\ obtained'[i].s = obtained'[i + 1].s =>
                            obtained'[i].whole /\ obtained'[i + 1].n = due
                      /\ obtained'[i + 1].n > due =>
                            obtained'[i + 1].n = opened'[obtained'[i + 1].s] - TailLines + 1
    BY DEF LinesContinue
  <2>1. CASE i < Len(obtained)
    <3>1. /\ i \in 1..(Len(obtained) - 1)
          /\ obtained'[i] = obtained[i] /\ obtained'[i + 1] = obtained[i + 1]
      BY <1>3, <1>4, <2>1
    <3> QED
      BY <3>1, Zenon DEF LinesContinue
  <2>2. CASE i = Len(obtained)
    <3>1. /\ obtained'[i] = obtained[Len(obtained)] /\ obtained'[i + 1] = y
          /\ obtained # <<>> /\ obtained[Len(obtained)] \in Items
      BY <1>3, <1>4, <2>2
    <3>2. y.s = Len(opened) /\ y.n = k + 1
      BY DEF y
    <3>3. CASE obtained[Len(obtained)].s = Len(opened)
      BY <3>1, <3>2, <3>3 DEF After, Items
    <3>4. CASE obtained[Len(obtained)].s # Len(opened)
      <4>0. k = Skipped(opened[Len(opened)])
        BY <3>1, <3>4, Zenon DEF After
      <4>1. opened[Len(opened)] \in Nat
        BY <1>1 DEF StreamTypes
      <4>2. obtained[Len(obtained)].n \in Nat \ {0}
        BY <3>1 DEF Items
      <4>3. due \in Nat \ {0}
        BY <3>1, <4>2
      <4> QED
        BY <3>1, <3>2, <3>4, <4>0, <4>1, <4>3, SMTT(30) DEF Skipped
    <3> QED
      BY <3>3, <3>4
  <2> QED
    BY <1>3, <1>4, <2>1, <2>2
<1> QED
  BY <1>4, <1>5 DEF y

\* ReadLine and ReadRest.
LEMMA ReadStep ==
  ASSUME Streams, ReadLine \/ ReadRest
  PROVE  Streams'
<1> USE ContainerReaderAssumption
<1>1. InStream /\ StreamTypes /\ LinesContinue
  BY Zenon DEF Streams, ReadLine, ReadRest
<1>2. PICK k \in Nat : After(k)
  <2>1. base \in Nat /\ (pos >= base + 2 \/ pos = base + 1)
    BY <1>1, Zenon DEF ReadLine, ReadRest, StreamTypes
  <2>2. pos # base
    BY <2>1
  <2> QED
    BY <1>1, <2>2, Zenon DEF InStream
<1>3. base = 2 * k /\ k < log /\ log \in 0..MaxLines /\ pos \in Nat
  <2>1. /\ log \in 0..MaxLines /\ pos \in Nat /\ base \in Nat /\ pos <= 2 * log
        /\ pos >= base + 2 \/ pos = base + 1
    BY <1>1, Zenon DEF ReadLine, ReadRest, StreamTypes
  <2>2. base = 2 * k
    BY <1>2 DEF After
  <2> QED
    BY <2>1, <2>2
<1>4. UNCHANGED <<log, opened, pos, eof>>
  BY Zenon DEF ReadLine, ReadRest, env
<1>5. PICK whole \in BOOLEAN : Obtain(whole) /\ base' = (IF whole THEN base + 2 ELSE base + 1)
                                /\ base' <= pos /\ (~whole => eof /\ pos = base')
  <2>1. CASE ReadLine
    <3>1. Obtain(TRUE) /\ base' = base + 2 /\ base' <= pos
      BY <1>3, <2>1, Zenon DEF ReadLine
    <3> QED
      BY <3>1, Zenon
  <2>2. CASE ReadRest
    <3>1. base' = base + 1 /\ base' <= pos /\ pos = base'
      BY <1>3, <2>2 DEF ReadRest
    <3>2. Obtain(FALSE) /\ eof
      BY <2>2, Zenon DEF ReadRest
    <3> QED
      BY <3>1, <3>2, Zenon
  <2> QED
    BY <2>1, <2>2
<1>6. /\ obtained' \in Seq(Items) /\ Len(obtained') = Len(obtained) + 1
      /\ \A i \in 1..Len(obtained) : obtained'[i] = obtained[i]
      /\ obtained'[Len(obtained')] = [s |-> Len(opened), n |-> k + 1, whole |-> whole]
      /\ LinesContinue'
  BY <1>1, <1>2, <1>3, <1>4, <1>5, ObtainContinues
<1>7. Len(obtained) \in Nat /\ Len(opened) \in Nat
  BY <1>1 DEF StreamTypes
<1>8. StreamTypes'
  <2>1. base' \in Nat
    BY <1>3, <1>5
  <2>2. \A i \in 1..Len(obtained') : obtained'[i].s <= Len(opened')
    BY <1>1, <1>4, <1>6, <1>7, SMTT(30) DEF StreamTypes
  <2> QED
    BY <1>1, <1>4, <1>5, <1>6, <2>1, <2>2 DEF StreamTypes
<1>9. InStream'
  <2>1. \A i \in 1..Len(obtained') :
           obtained'[i].s = Len(opened') => 2 * obtained'[i].n <= base' + 1
    <3> TAKE i \in 1..Len(obtained')
    <3> HAVE obtained'[i].s = Len(opened')
    <3>1. CASE i = Len(obtained')
      BY <1>3, <1>5, <1>6, <3>1
    <3>2. CASE i # Len(obtained')
      <4>1. /\ i \in 1..Len(obtained) /\ obtained'[i] = obtained[i]
            /\ obtained[i] \in Items
        BY <1>1, <1>6, <1>7, <3>2 DEF StreamTypes
      <4>2. 2 * obtained[i].n <= base + 1 /\ obtained[i].n \in Nat
        BY <1>1, <1>4, <4>1 DEF InStream, Items
      <4> QED
        BY <1>3, <1>5, <4>1, <4>2
    <3> QED
      BY <3>1, <3>2
  <2>2. CASE whole
    <3>1. obtained' # <<>>
      BY <1>6, <1>7
    <3>2. After(k + 1)'
      BY <1>3, <1>4, <1>5, <1>6, <2>2, <3>1 DEF After
    <3> QED
      BY <1>1, <1>4, <2>1, <3>2 DEF InStream
  <2>3. CASE ~whole
    BY <1>1, <1>4, <1>5, <2>1, <2>3 DEF InStream
  <2> QED
    BY <2>2, <2>3
<1> QED
  BY <1>6, <1>8, <1>9 DEF Streams

\* Opening a stream: the items obtained so far belong to earlier ones.
LEMMA OpenStep ==
  ASSUME Streams, OpenStream
  PROVE  Streams'
<1> USE ContainerReaderAssumption
<1>1. StreamTypes /\ LinesContinue
  BY DEF Streams
<1>2. /\ log \in 0..MaxLines /\ log' = log /\ obtained' = obtained
      /\ opened' = Append(opened, log) /\ pos' = base' /\ base' = 2 * Skipped(log)
      /\ Len(opened) < MaxStreams
  BY <1>1 DEF OpenStream, StreamTypes, env, chan, Skipped
<1>3. Skipped(log) \in 0..log
  BY <1>2 DEF Skipped
<1>4. /\ opened' \in Seq(Nat) /\ Len(opened') = Len(opened) + 1 /\ Len(opened) \in Nat
      /\ opened'[Len(opened')] = log
      /\ \A i \in 1..Len(opened) : opened'[i] = opened[i]
  BY <1>1, <1>2 DEF StreamTypes
<1>5. \A i \in 1..Len(obtained) : obtained[i] \in Items /\ obtained[i].s \in 1..Len(opened)
  <2> TAKE i \in 1..Len(obtained)
  <2>1. obtained[i] \in Items /\ obtained[i].s <= Len(opened)
    BY <1>1 DEF StreamTypes
  <2> QED
    BY <1>4, <2>1 DEF Items
<1>6. StreamTypes'
  <2>1. base' \in Nat /\ pos' \in Nat /\ base' <= pos' /\ pos' <= 2 * log'
    BY <1>2, <1>3
  <2>2. \A i \in 1..Len(obtained) : obtained[i].s <= Len(opened')
    BY <1>4, <1>5
  <2> QED
    BY <1>1, <1>2, <1>4, <2>1, <2>2 DEF StreamTypes
<1>7. InStream'
  <2>1. opened' # <<>>
    BY <1>4
  <2>2. \A i \in 1..Len(obtained) : obtained[i].s # Len(opened')
    BY <1>4, <1>5
  <2>3. obtained # <<>> => Len(obtained) \in 1..Len(obtained)
    BY <1>1 DEF StreamTypes
  <2>4. After(Skipped(log))'
    BY <1>2, <1>4, <2>2, <2>3 DEF After
  <2> QED
    BY <1>2, <1>3, <2>1, <2>2, <2>4 DEF InStream
<1>8. LinesContinue'
  <2> SUFFICES ASSUME NEW i \in 1..(Len(obtained) - 1)
               PROVE  opened'[obtained[i + 1].s] = opened[obtained[i + 1].s]
    BY <1>1, <1>2, Zenon DEF LinesContinue
  <2>1. i + 1 \in 1..Len(obtained)
    BY <1>1 DEF StreamTypes
  <2> QED
    BY <1>4, <1>5, <2>1, Zenon
<1> QED
  BY <1>6, <1>7, <1>8 DEF Streams

\* What is known of the streams survives every step, whoever takes it.
LEMMA StreamsStep ==
  ASSUME Streams, [Next]_vars
  PROVE  Streams'
<1> USE ContainerReaderAssumption
<1>1. CASE UNCHANGED <<log, opened, base, pos, obtained>> /\ (eof => eof')
           /\ (pc' \in {"read", "send"} => pc \in {"read", "send"})
  <2>1. StreamTypes' /\ LinesContinue'
    BY <1>1 DEF Streams, StreamTypes, LinesContinue
  <2>2. InStream => InStream'
    BY <1>1 DEF InStream, After
  <2> QED
    BY <1>1, <2>1, <2>2 DEF Streams
<1>2. CASE Writes
  <2>1. /\ log' = log + 1 /\ log < MaxLines
        /\ UNCHANGED <<opened, base, pos, obtained, eof, pc>>
    BY <1>2 DEF Writes, stream, chan
  <2>2. StreamTypes'
    BY <2>1 DEF Streams, StreamTypes
  <2>3. LinesContinue' /\ (InStream => InStream')
    BY <2>1 DEF Streams, LinesContinue, InStream, After
  <2> QED
    BY <2>1, <2>2, <2>3 DEF Streams
<1>3. CASE ReadChunk
  <2>1. /\ pos' \in (pos + 1)..(2 * log) /\ ~eof
        /\ UNCHANGED <<log, opened, base, obtained, eof, pc>>
    BY <1>3 DEF ReadChunk, env, chan
  <2>2. StreamTypes'
    BY <2>1 DEF Streams, StreamTypes
  <2>3. LinesContinue' /\ (InStream => InStream')
    BY <2>1 DEF Streams, LinesContinue, InStream, After
  <2> QED
    BY <2>1, <2>2, <2>3 DEF Streams
<1>4. CASE OpenStream
  BY <1>4, OpenStep
<1>5. CASE ReadLine \/ ReadRest
  BY <1>5, ReadStep
<1>6. CASE PodGoes \/ StreamEnds \/ Expire \/ Receive \/ UNCHANGED vars
  BY <1>1, <1>6 DEF PodGoes, StreamEnds, Expire, Receive, vars, env, stream, chan
<1>7. CASE LoopQuit \/ OpenFails \/ ReadEnds \/ SendLine \/ SendQuit \/ PodFound \/ PodNotFound
  BY <1>1, <1>7 DEF LoopQuit, OpenFails, ReadEnds, SendLine, SendQuit, PodFound, PodNotFound,
                    Return, vars, env, stream, chan
<1>8. ASSUME NEW c \in Callers, Start(c) \/ StopCheck(c) \/ StopGoesOn(c)
      PROVE  Streams'
  BY <1>1, <1>8 DEF Start, StopCheck, StopGoesOn, StopClose, StopReturn, env, stream, chan
<1> QED
  BY <1>2, <1>3, <1>4, <1>5, <1>6, <1>7, <1>8 DEF Next, TailContainer

-----------------------------------------------------------------------------
\* Start, Stop and the goroutine.

\* A step that is not a misuse is taken in a state that is not one either.
LEMMA MisuseStays ==
  ASSUME IInv, [Next]_vars
  PROVE  /\ starts' \in Nat /\ overlap' \in BOOLEAN
         /\ ~Misused' => ~Misused /\ UsedOnce
<1>1. CASE UNCHANGED <<starts, overlap>>
  BY <1>1 DEF IInv, Misused
<1>2. ASSUME NEW c \in Callers, Start(c)
      PROVE  starts' = starts + 1 /\ overlap' = overlap
  BY <1>2 DEF Start
<1>3. ASSUME NEW c \in Callers, StopCheck(c)
      PROVE  starts' = starts /\ (overlap => overlap') /\ overlap' \in BOOLEAN
  BY <1>3, Zenon DEF StopCheck
<1>4. ASSUME NEW c \in Callers, StopGoesOn(c)
      PROVE  UNCHANGED <<starts, overlap>>
  BY <1>4 DEF StopGoesOn, StopClose, StopReturn
<1>5. CASE Writes \/ PodGoes \/ StreamEnds \/ Expire \/ Receive \/ TailContainer \/ UNCHANGED vars
  <2>1. UNCHANGED <<starts, overlap>>
    BY <1>5, Zenon DEF Writes, PodGoes, StreamEnds, Expire, Receive, TailContainer, LoopQuit,
                OpenStream, OpenFails, ReadChunk, ReadLine, ReadRest, ReadEnds, SendLine, SendQuit,
                PodFound, PodNotFound, vars, ctl, calls
  <2> QED
    BY <1>1, <2>1, Zenon
<1> QED
  BY <1>1, <1>2, <1>3, <1>4, <1>5 DEF Next, IInv, Misused

\* A call of Start, or a step of Stop.
LEMMA CallStep ==
  ASSUME UsedOnce, starts \in Nat, ~Misused, ~Misused',
         NEW c \in Callers, Start(c) \/ StopCheck(c) \/ StopGoesOn(c)
  PROVE  UsedOnce'
<1>1. CASE Start(c)
  <2>1. starts = 0 /\ starts' = 1
    BY <1>1 DEF Start, Misused
  <2>2. /\ pc' = "loop" /\ pc = "unstarted" /\ stopCh' = stopCh /\ stoppedCh' = stoppedCh
        /\ call' = call /\ panicked' = panicked /\ held' = held
    BY <1>1, <2>1 DEF Start, UsedOnce, ended, chan
  <2> QED
    BY <2>1, <2>2 DEF UsedOnce
<1>2. CASE StopCheck(c)
  <2>1. \A d \in Callers \ {c} : call[d] = "idle"
    BY <1>2, Zenon DEF StopCheck, Misused
  <2>2. ~stopCh /\ starts # 0
    BY <1>2, <2>1 DEF StopCheck, UsedOnce
  <2>3. /\ call' \in [Callers -> {"idle", "close", "wait"}]
        /\ call'[c] = "close" /\ \A d \in Callers \ {c} : call'[d] = "idle"
    BY <1>2, <2>1 DEF StopCheck, UsedOnce
  <2>4. UNCHANGED <<panicked, stopCh, pc, held, starts, isRunning, stoppedCh>>
    BY <1>2 DEF StopCheck, ended, chan
  <2> QED
    BY <2>2, <2>3, <2>4 DEF UsedOnce
<1>3. CASE StopClose(c)
  <2>1. ~stopCh /\ starts # 0 /\ \A d \in Callers \ {c} : call[d] = "idle"
    BY <1>3 DEF StopClose, UsedOnce
  <2>2. /\ call' \in [Callers -> {"idle", "close", "wait"}]
        /\ call'[c] = "wait" /\ \A d \in Callers \ {c} : call'[d] = "idle"
    BY <1>3, <2>1 DEF StopClose, UsedOnce
  <2>3. stopCh' /\ ~panicked' /\ UNCHANGED <<pc, held, starts, isRunning, stoppedCh>>
    BY <1>3, <2>1 DEF StopClose, chan
  <2>4. stopCh' \in BOOLEAN
    BY <1>3, Zenon DEF StopClose
  <2> QED
    BY <2>1, <2>2, <2>3, <2>4 DEF UsedOnce
<1>4. CASE StopReturn(c)
  <2>1. \A d \in Callers \ {c} : call[d] = "idle"
    BY <1>4 DEF StopReturn, UsedOnce
  <2>2. call' \in [Callers -> {"idle", "close", "wait"}] /\ \A d \in Callers : call'[d] = "idle"
    BY <1>4, <2>1 DEF StopReturn, UsedOnce
  <2>3. ~isRunning' /\ UNCHANGED <<panicked, stopCh, pc, held, starts, stoppedCh>>
    BY <1>4 DEF StopReturn, ended, chan
  <2> QED
    BY <2>2, <2>3 DEF UsedOnce
<1> QED
  BY <1>1, <1>2, <1>3, <1>4 DEF StopGoesOn

\* A step of tailContainer.
LEMMA GoroutineStep ==
  ASSUME UsedOnce, TailContainer
  PROVE  UsedOnce'
<1>1. CASE OpenFails
  BY <1>1 DEF OpenFails, vars, chan, ctl, ended, calls, UsedOnce
<1>2. CASE LoopQuit \/ SendQuit \/ PodNotFound
  <2>1. /\ pc \in {"loop", "send", "check"} /\ pc' = "done" /\ held' = <<>>
        /\ stoppedCh' = TRUE /\ panicked' = stoppedCh
        /\ UNCHANGED <<isRunning, stopCh, call, starts>>
    BY <1>2 DEF LoopQuit, SendQuit, PodNotFound, Return, chan, calls, UsedOnce
  <2> QED
    BY <2>1 DEF UsedOnce
<1>3. CASE OpenStream \/ ReadChunk \/ ReadLine \/ ReadRest \/ ReadEnds \/ SendLine \/ PodFound
  <2>1. /\ pc \in {"loop", "read", "send", "check"} /\ pc' \in {"loop", "read", "send", "check"}
        /\ pc' # "send" => held' = <<>>
        /\ UNCHANGED <<panicked, stoppedCh, isRunning, stopCh, call, starts>>
    BY <1>3 DEF OpenStream, ReadChunk, ReadLine, ReadRest, ReadEnds, SendLine, PodFound, Obtain,
                chan, ctl, ended, calls, UsedOnce
  <2> QED
    BY <2>1, Zenon DEF UsedOnce
<1> QED
  BY <1>1, <1>2, <1>3 DEF TailContainer

LEMMA Invariance == Spec => []IInv
<1> USE ContainerReaderAssumption
<1>1. Init => IInv
  <2> SUFFICES ASSUME Init PROVE IInv
    OBVIOUS
  <2>1. opened \in Seq(Nat) /\ Len(opened) = 0 /\ obtained \in Seq(Items) /\ Len(obtained) = 0
    BY SMTT(30) DEF Init
  <2>2. Streams
    BY <2>1 DEF Init, Streams, StreamTypes, LinesContinue
  <2>3. UsedOnce
    <3>1. call \in [Callers -> {"idle", "close", "wait"}] /\ \A c \in Callers : call[c] = "idle"
      BY DEF Init
    <3> QED
      BY <3>1, Zenon DEF Init, UsedOnce
  <2> QED
    BY <2>2, <2>3, Zenon DEF Init, IInv
<1>2. IInv /\ [Next]_vars => IInv'
  <2> SUFFICES ASSUME IInv, [Next]_vars PROVE IInv'
    OBVIOUS
  <2>1. /\ Streams' /\ starts' \in Nat /\ overlap' \in BOOLEAN
        /\ ~Misused' => ~Misused /\ UsedOnce
    BY StreamsStep, MisuseStays DEF IInv
  <2>2. ASSUME ~Misused' PROVE UsedOnce'
    <3>1. UsedOnce /\ ~Misused /\ starts \in Nat
      BY <2>1, <2>2 DEF IInv
    <3>2. ASSUME NEW c \in Callers, Start(c) \/ StopCheck(c) \/ StopGoesOn(c)
          PROVE  UsedOnce'
      BY <2>2, <3>1, <3>2, CallStep
    <3>3. CASE TailContainer
      BY <3>1, <3>3, GoroutineStep
    <3>4. CASE Writes \/ PodGoes \/ StreamEnds \/ Expire \/ Receive \/ UNCHANGED vars
      BY <3>1, <3>4 DEF Writes, PodGoes, StreamEnds, Expire, Receive, vars, chan, ctl, ended, calls,
                        UsedOnce
    <3> QED
      BY <3>2, <3>3, <3>4 DEF Next
  <2> QED
    BY <2>1, <2>2 DEF IInv
<1> QED
  BY <1>1, <1>2, PTL DEF Spec

-----------------------------------------------------------------------------
\* ReadLine and the reconnections hand on every line, in order, but for those
\* that are more than TailLines behind when a stream is opened.
THEOREM LinesContinueInvariant == Spec => []LinesContinue
<1>1. IInv => LinesContinue
  BY DEF IInv, Streams
<1> QED
  BY <1>1, Invariance, PTL

\* No order of calls of Start and Stop makes the reader panic, unless two calls
\* of Stop overlap or the reader is started again.
THEOREM PanicOnlyOnMisuseInvariant == Spec => []PanicOnlyOnMisuse
<1>1. IInv => PanicOnlyOnMisuse
  BY DEF IInv, UsedOnce, PanicOnlyOnMisuse
<1> QED
  BY <1>1, Invariance, PTL

-----------------------------------------------------------------------------
\* The line ReadLine or ReadRest returns has not been returned before.
LEMMA ObtainsFresh ==
  ASSUME Streams, ReadLine \/ ReadRest
  PROVE  \E x \in Items : /\ Source!Fresh(x) /\ held' = <<x>> /\ pc' = "send"
                          /\ obtained' = Append(obtained, x) /\ lines' = lines
<1> USE ContainerReaderAssumption
<1>1. InStream /\ StreamTypes
  BY Zenon DEF Streams, ReadLine, ReadRest
<1>2. /\ log \in 0..MaxLines /\ pos \in Nat /\ base \in Nat /\ pos <= 2 * log
      /\ pos >= base + 2 \/ pos = base + 1
  BY <1>1, Zenon DEF ReadLine, ReadRest, StreamTypes
<1>3. PICK k \in Nat : After(k)
  <2>1. pos # base
    BY <1>2
  <2> QED
    BY <1>1, <2>1, Zenon DEF InStream
<1>4. base = 2 * k /\ base \div 2 = k
  BY <1>3 DEF After
<1>5. PICK whole \in BOOLEAN : Obtain(whole)
  BY Zenon DEF ReadLine, ReadRest
<1> DEFINE x == [s |-> Len(opened), n |-> k + 1, whole |-> whole]
<1>6. x \in Items
  <2>1. Len(opened) \in 1..MaxStreams
    BY <1>1 DEF StreamTypes, InStream
  <2>2. k + 1 \in 1..MaxLines
    BY <1>2, <1>4
  <2> QED
    BY <2>1, <2>2 DEF Items
<1>7. held' = <<x>> /\ pc' = "send" /\ obtained' = Append(obtained, x) /\ lines' = lines
  BY <1>4, <1>5 DEF Obtain
<1>8. Source!Fresh(x)
  <2> SUFFICES ASSUME NEW i \in 1..Len(obtained), obtained[i].s = Len(opened)
               PROVE  obtained[i].n # k + 1
    BY DEF Source!Fresh
  <2>0. obtained[i] \in Items
    BY <1>1 DEF StreamTypes
  <2>1. obtained[i].n \in Nat
    BY <2>0 DEF Items
  <2>2. 2 * obtained[i].n <= base + 1
    BY <1>1 DEF InStream
  <2> QED
    BY <1>4, <2>1, <2>2
<1> QED
  BY <1>6, <1>7, <1>8

\* A step of tailContainer is one of LineSource or changes nothing that
\* LineSource has.
LEMMA GoroutineMaps ==
  ASSUME Streams, UsedOnce, TailContainer
  PROVE  Source!Next \/ UNCHANGED Source!svars
<1>1. CASE LoopQuit \/ SendQuit
  <2>1. /\ Phase \in {"running", "sending"} /\ Phase' = "done" /\ stopCh /\ held' = <<>>
        /\ UNCHANGED <<lines, obtained, stopCh>>
    BY <1>1 DEF LoopQuit, SendQuit, Return, Phase, UsedOnce, chan, calls
  <2>2. Source!Quit
    BY <2>1 DEF Source!Quit, Source!SelectsStop, Source!AtEnd, Source!ClosesLines
  <2> QED
    BY <2>2 DEF Source!Next
<1>2. CASE OpenStream
  <2>1. /\ Phase = "running" /\ Phase' = "reading" /\ ~stopCh
        /\ UNCHANGED <<lines, held, obtained, stopCh>>
    BY <1>2 DEF OpenStream, Phase, chan, ctl, calls
  <2> QED
    BY <2>1 DEF Source!Look, Source!Next
<1>3. CASE OpenFails \/ ReadChunk \/ ReadEnds
  <2>1. Phase' = Phase
    BY <1>3 DEF OpenFails, ReadChunk, ReadEnds, Phase, vars
  <2>2. UNCHANGED <<lines, held, obtained, stopCh>>
    BY <1>3 DEF OpenFails, ReadChunk, ReadEnds, vars, chan, ctl, calls
  <2> QED
    BY <2>1, <2>2 DEF Source!svars
<1>4. CASE ReadLine \/ ReadRest
  <2>1. PICK x \in Items : /\ Source!Fresh(x) /\ held' = <<x>> /\ pc' = "send"
                           /\ obtained' = Append(obtained, x) /\ lines' = lines
    BY <1>4, ObtainsFresh
  <2>2. Phase = "reading" /\ Phase' = "sending" /\ stopCh' = stopCh
    BY <1>4, <2>1, Zenon DEF ReadLine, ReadRest, Phase, ctl, calls
  <2>3. Source!Obtain(x)
    BY <2>1, <2>2 DEF Source!Obtain
  <2> QED
    BY <2>3 DEF Source!Next
<1>5. CASE SendLine
  <2>1. Phase = "sending" /\ Phase' = "reading" /\ UNCHANGED <<obtained, stopCh>>
    BY <1>5 DEF SendLine, Phase, ctl, calls
  <2>2. Source!Push
    BY <1>5, <2>1 DEF SendLine, Source!Push, Source!AfterItem, Source!EndsAlone
  <2> QED
    BY <2>2 DEF Source!Next
<1>6. CASE PodFound
  <2>1. Phase = "reading" /\ Phase' = "running" /\ UNCHANGED <<lines, held, obtained, stopCh>>
    BY <1>6 DEF PodFound, Phase, chan, ctl, calls
  <2> QED
    BY <2>1 DEF Source!GiveUp, Source!Next
<1>7. CASE PodNotFound
  <2>1. Phase = "reading" /\ Phase' = "done" /\ UNCHANGED <<lines, held, obtained, stopCh>>
    BY <1>7 DEF PodNotFound, Return, Phase, chan, calls
  <2> QED
    BY <2>1 DEF Source!EndAlone, Source!EndsAlone, Source!AtEnd, Source!ClosesLines, Source!Next
<1> QED
  BY <1>1, <1>2, <1>3, <1>4, <1>5, <1>6, <1>7 DEF TailContainer

\* Used as the agents use it, the container reader implements LineSource.
THEOREM Refinement == Spec => ImplementsSource
<1>1. Init => Source!Init
  BY DEF Init, Source!Init, Source!Kinds, Phase
<1>2. IInv /\ [Next]_vars => [Source!Next \/ Misused']_(Source!svars)
  <2> SUFFICES ASSUME IInv, [Next]_vars, ~Misused'
               PROVE  Source!Next \/ UNCHANGED Source!svars
    BY Zenon
  <2>1. UsedOnce /\ ~Misused /\ starts \in Nat /\ Streams
    BY MisuseStays DEF IInv
  <2>2. CASE TailContainer
    BY <2>1, <2>2, GoroutineMaps
  <2>3. ASSUME NEW c \in Callers, Start(c)
        PROVE  Source!Next
    <3>1. starts = 0
      BY <2>1, <2>3 DEF Start, Misused
    <3>2. Phase = "unstarted" /\ Phase' = "running" /\ UNCHANGED <<lines, held, obtained, stopCh>>
      BY <2>1, <2>3, <3>1 DEF Start, UsedOnce, Phase, chan
    <3> QED
      BY <3>2 DEF Source!Start, Source!Next
  <2>4. ASSUME NEW c \in Callers, StopClose(c)
        PROVE  Source!Next
    <3>1. UNCHANGED <<Phase, lines, held, obtained>> /\ ~stopCh /\ stopCh' = TRUE
      BY <2>1, <2>4 DEF StopClose, UsedOnce, Phase, chan
    <3> QED
      BY <3>1 DEF Source!CloseStop, Source!Next
  <2>5. ASSUME NEW c \in Callers, StopCheck(c) \/ StopReturn(c)
        PROVE  UNCHANGED Source!svars
    BY <2>5 DEF StopCheck, StopReturn, Source!svars, Phase, chan
  <2>6. CASE Receive
    <3>1. UNCHANGED <<Phase, held, obtained, stopCh>>
      BY <2>6 DEF Receive, Phase, ctl, calls
    <3> QED
      BY <2>6, <3>1 DEF Receive, Source!Receive, Source!Next
  <2>7. CASE Writes \/ PodGoes \/ StreamEnds \/ Expire \/ UNCHANGED vars
    BY <2>7 DEF Writes, PodGoes, StreamEnds, Expire, vars, Source!svars, Phase, chan, ctl, calls
  <2> QED
    BY <2>2, <2>3, <2>4, <2>5, <2>6, <2>7 DEF Next, StopGoesOn
<1> QED
  BY <1>1, <1>2, Invariance, PTL DEF Spec, ImplementsSource
=============================================================================
