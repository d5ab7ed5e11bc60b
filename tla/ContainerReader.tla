-------------------------- MODULE ContainerReader --------------------------
(***************************************************************************)
(* pkg/reader/container_reader.go: a goroutine follows the log of a pod    *)
(* through the Kubernetes API.  Every stream begins with the last          *)
(* TailLines lines; when it ends the pod is looked up, and the stream is   *)
(* opened again or the goroutine ends.  The context of a stream expires    *)
(* after 24 hours.  Any number of callers may call Start and Stop.         *)
(*                                                                         *)
(* Line n of the log is transmitted as the pieces 2n-1 (its text) and 2n   *)
(* (its end, with the newline); a stream may break between the two.        *)
(***************************************************************************)
EXTENDS Integers, Sequences

CONSTANTS
  Callers,     \* goroutines that call Start and Stop
  MaxStarts,   \* goroutines Start spawns
  MaxLines,    \* lines the container writes
  MaxStreams,  \* streams that are opened
  TailLines,   \* lines a stream begins with (10 in the code)
  Cap          \* the capacity of the lines channel (1000 in the code)

ASSUME ContainerReaderAssumption ==
  /\ MaxStarts \in Nat /\ MaxLines \in Nat /\ MaxStreams \in Nat
  /\ TailLines \in Nat \ {0} /\ Cap \in Nat \ {0}

VARIABLES
  log,        \* lines in the log of the container
  pod,        \* the pod exists
  pc,         \* where tailContainer is
  opened,     \* the length of the log when each stream was opened
  base,       \* pieces of the log before r.buffer
  pos,        \* pieces the stream has brought; r.buffer is base+1..pos
  eof,        \* the stream has come to its end
  expired,    \* the context of the stream has expired
  held,       \* the line tailContainer is sending, none or one
  lines,      \* r.lines
  isRunning,  \* r.isRunning
  stopCh, stoppedCh,  \* r.stopCh and r.stoppedCh are closed
  call,       \* where a caller is in Stop
  panicked,   \* a channel was closed twice
  starts,     \* history: goroutines spawned
  overlap,    \* history: two calls of Stop ran at the same time
  obtained    \* history: the lines ReadLine has returned

env == <<log, pod>>
stream == <<opened, base, pos, eof, expired>>
chan == <<held, lines, obtained>>
ended == <<stoppedCh, panicked>>
calls == <<isRunning, stopCh, call, starts, overlap>>
ctl == <<ended, calls>>
vars == <<env, pc, stream, chan, ctl>>

\* What is sent: line n, as stream s brought it, whole or only its beginning.
Items == [s : 1..MaxStreams, n : 1..MaxLines, whole : BOOLEAN]

Init ==
  /\ log \in 0..MaxLines /\ pod = TRUE
  /\ pc = "unstarted"
  /\ opened = <<>> /\ base = 0 /\ pos = 0 /\ eof = FALSE /\ expired = FALSE
  /\ held = <<>> /\ lines = <<>> /\ obtained = <<>>
  /\ isRunning = FALSE /\ stopCh = FALSE /\ stoppedCh = FALSE
  /\ call = [c \in Callers |-> "idle"] /\ panicked = FALSE
  /\ starts = 0 /\ overlap = FALSE

-----------------------------------------------------------------------------
\* The cluster: the container writes, the pod goes, the stream ends (with the
\* pod or with the connection), a day passes.
Writes ==
  /\ pod /\ log < MaxLines
  /\ log' = log + 1
  /\ UNCHANGED <<pod, pc, stream, chan, ctl>>

PodGoes ==
  /\ pod
  /\ pod' = FALSE
  /\ UNCHANGED <<log, pc, stream, chan, ctl>>

StreamEnds ==
  /\ pc \in {"read", "send"} /\ ~eof
  /\ eof' = TRUE
  /\ UNCHANGED <<env, pc, opened, base, pos, expired, chan, ctl>>

Expire ==
  /\ pc \in {"read", "send", "check"} /\ ~expired
  /\ expired' = TRUE
  /\ UNCHANGED <<env, pc, opened, base, pos, eof, chan, ctl>>

-----------------------------------------------------------------------------
\* Start spawns the goroutine; while isRunning is set a call is an error.
Start(c) ==
  /\ call[c] = "idle" /\ ~isRunning /\ starts < MaxStarts
  /\ isRunning' = TRUE
  /\ pc' = "loop"
  /\ starts' = starts + 1
  /\ UNCHANGED <<env, stream, chan, ended, stopCh, call, overlap>>

\* The goroutine returns: defer close(r.stoppedCh).
Return ==
  /\ pc' = "done"
  /\ stoppedCh' = TRUE
  /\ panicked' = stoppedCh

LoopQuit ==
  /\ pc = "loop" /\ stopCh
  /\ Return
  /\ UNCHANGED <<env, stream, chan, calls>>

\* Mutant: the stream begins with what is written from now on.
MOpenStream ==
  /\ pc = "loop" /\ ~stopCh
  /\ pod /\ Len(opened) < MaxStreams
  /\ opened' = Append(opened, log)
  /\ base' = 2 * log
  /\ pos' = base'
  /\ eof' = FALSE /\ expired' = FALSE
  /\ pc' = "read"
  /\ UNCHANGED <<env, chan, ctl>>

\* GetLogs(...).Stream with a new context and a new LogLineReader
OpenStream ==
  /\ pc = "loop" /\ ~stopCh
  /\ pod /\ Len(opened) < MaxStreams
  /\ opened' = Append(opened, log)
  /\ base' = IF log > TailLines THEN 2 * (log - TailLines) ELSE 0
  /\ pos' = base'
  /\ eof' = FALSE /\ expired' = FALSE
  /\ pc' = "read"
  /\ UNCHANGED <<env, chan, ctl>>

\* The stream cannot be opened: sleep, and back to the head of the loop.
OpenFails ==
  /\ pc = "loop" /\ ~stopCh
  /\ UNCHANGED vars

\* reader.Read brings more of the log.
ReadChunk ==
  /\ pc = "read" /\ pos < base + 2 /\ ~eof /\ ~expired
  /\ pos' \in (pos + 1)..(2 * log)
  /\ UNCHANGED <<env, pc, opened, base, eof, expired, chan, ctl>>

Obtain(whole) ==
  LET x == [s |-> Len(opened), n |-> base \div 2 + 1, whole |-> whole]
  IN  /\ held' = <<x>>
      /\ obtained' = Append(obtained, x)
      /\ pc' = "send"
      /\ UNCHANGED lines

\* ReadLine finds a newline in the buffer.
ReadLine ==
  /\ pc = "read" /\ pos >= base + 2
  /\ Obtain(TRUE)
  /\ base' = base + 2
  /\ UNCHANGED <<env, opened, pos, eof, expired, ctl>>

\* At the end of the stream the rest of the buffer is returned as a line.
ReadRest ==
  /\ pc = "read" /\ eof /\ pos = base + 1
  /\ Obtain(FALSE)
  /\ base' = pos
  /\ UNCHANGED <<env, opened, pos, eof, expired, ctl>>

\* io.EOF, or an error of Read, after which the buffer is dropped.
ReadEnds ==
  /\ pc = "read" /\ pos < base + 2
  /\ pc' = "check"
  /\ UNCHANGED <<env, stream, chan, ctl>>

\* Mutant: the capacity is off by one.
MSendLine ==
  /\ pc = "send" /\ Len(lines) <= Cap
  /\ lines' = lines \o held
  /\ held' = <<>>
  /\ pc' = "read"
  /\ UNCHANGED <<env, stream, obtained, ctl>>

\* The select of r.lines <- line and stopCh.
SendLine ==
  /\ pc = "send" /\ Len(lines) < Cap
  /\ lines' = lines \o held
  /\ held' = <<>>
  /\ pc' = "read"
  /\ UNCHANGED <<env, stream, obtained, ctl>>

\* Mutant: stopCh is looked at only when the line could be sent.
MSendQuit ==
  /\ pc = "send" /\ stopCh
  /\ Len(lines) < Cap
  /\ held' = <<>>
  /\ Return
  /\ UNCHANGED <<env, stream, lines, obtained, calls>>

SendQuit ==
  /\ pc = "send" /\ stopCh
  /\ held' = <<>>
  /\ Return
  /\ UNCHANGED <<env, stream, lines, obtained, calls>>

\* The pod is looked up with the context of the stream; any error, that of an
\* expired context included, is taken for the end of the pod.
PodFound ==
  /\ pc = "check" /\ pod /\ ~expired
  /\ pc' = "loop"
  /\ UNCHANGED <<env, stream, chan, ctl>>

PodNotFound ==
  /\ pc = "check"
  /\ Return
  /\ UNCHANGED <<env, stream, chan, calls>>

TailContainer ==
  \/ LoopQuit
  \/ OpenStream
  \/ OpenFails
  \/ ReadChunk
  \/ ReadLine
  \/ ReadRest
  \/ ReadEnds
  \/ SendLine
  \/ SendQuit
  \/ PodFound
  \/ PodNotFound

-----------------------------------------------------------------------------
\* Stop: the check under the lock, with which a call ends when the reader is
\* not running; close(stopCh) outside it; <-stoppedCh and, under the lock
\* again, isRunning = false.
StopCheck(c) ==
  /\ call[c] = "idle" /\ isRunning
  /\ call' = [call EXCEPT ![c] = "close"]
  /\ overlap' = (overlap \/ \E d \in Callers \ {c} : call[d] # "idle")
  /\ UNCHANGED <<env, pc, stream, chan, ended, isRunning, stopCh, starts>>

StopClose(c) ==
  /\ call[c] = "close"
  /\ call' = [call EXCEPT ![c] = "wait"]
  /\ stopCh' = TRUE
  /\ panicked' = stopCh
  /\ UNCHANGED <<env, pc, stream, chan, stoppedCh, isRunning, starts, overlap>>

\* Mutant: Stop does not reset isRunning.
MStopReturn(c) ==
  /\ call[c] = "wait" /\ stoppedCh
  /\ call' = [call EXCEPT ![c] = "idle"]
  /\ UNCHANGED <<env, pc, stream, chan, ended, isRunning, stopCh, starts, overlap>>

StopReturn(c) ==
  /\ call[c] = "wait" /\ stoppedCh
  /\ call' = [call EXCEPT ![c] = "idle"]
  /\ isRunning' = FALSE
  /\ UNCHANGED <<env, pc, stream, chan, ended, stopCh, starts, overlap>>

Receive ==
  /\ lines # <<>>
  /\ lines' = Tail(lines)
  /\ UNCHANGED <<env, pc, stream, held, obtained, ctl>>

StopGoesOn(c) == StopClose(c) \/ StopReturn(c)

\* A panic ends the process.
Next ==
  /\ ~panicked
  /\ \/ Writes
     \/ PodGoes
     \/ StreamEnds
     \/ Expire
     \/ TailContainer
     \/ \E c \in Callers : Start(c) \/ StopCheck(c) \/ StopGoesOn(c)
     \/ Receive

Spec == Init /\ [][Next]_vars

\* The goroutine runs; a context that has a day to live expires, and an
\* expired or ended stream fails its reader.  Nothing is assumed of the pod,
\* of the API server or of the consumer.
Fairness ==
  /\ WF_vars(~panicked /\ LoopQuit) /\ WF_vars(~panicked /\ SendQuit)
  /\ WF_vars(~panicked /\ ReadLine)
  /\ WF_vars(~panicked /\ Expire)
  /\ WF_vars(~panicked /\ ReadEnds /\ (eof \/ expired))
  /\ WF_vars(~panicked /\ (PodFound \/ PodNotFound))
  /\ \A c \in Callers : WF_vars(~panicked /\ StopGoesOn(c))

FairSpec == Spec /\ Fairness

-----------------------------------------------------------------------------
\* Stop comes back, also when nobody receives any more and the container is
\* silent; then only when the context of the stream has expired.
StopReturns ==
  \A c \in Callers : (call[c] = "wait") ~> (call[c] # "wait" \/ panicked)

\* A reader can be used once, and Stop by one caller at a time.
Misused == starts > 1 \/ overlap

\* However the chunks of a stream are cut, ReadLine returns its lines one
\* after the other; the beginning of a line is only returned as the last of
\* its stream.  Over reconnections a line is passed over only if it was more
\* than TailLines lines behind when the stream was opened; a line that was cut
\* off comes again under the same condition.
LinesContinue ==
  \A i \in 1..(Len(obtained) - 1) :
     LET x == obtained[i]
         y == obtained[i + 1]
         due == IF x.whole THEN x.n + 1 ELSE x.n
     IN  /\ x.s = y.s => x.whole /\ y.n = due
         /\ y.n > due => y.n = opened[y.s] - TailLines + 1

\* Start and Stop may be called at any time, again and again, also after the
\* goroutine has ended by itself: no channel is closed twice, unless two calls
\* of Stop overlap or a reader that was stopped is started again.
PanicOnlyOnMisuse == panicked => Misused

\* Said of tailContainer: it "continuously reads the container logs" and,
\* after a stream, checks "if pod still exists".  It gives up only when it is
\* told to stop or the pod has gone.
EndsOnlyWithPod == pc = "done" => stopCh \/ ~pod

\* The reader as a LineSource.
Phase == CASE pc = "loop" -> "running"
           [] pc \in {"read", "check"} -> "reading"
           [] pc = "send" -> "sending"
           [] OTHER -> pc

Source == INSTANCE LineSource
          WITH kind <- "container", reader <- Phase, rstopCh <- stopCh, closed <- FALSE

\* Used as the agents use it, one Start and one Stop, the container reader
\* implements LineSource.
ImplementsSource == Source!Init /\ [][Source!Next \/ Misused']_(Source!svars)
=============================================================================
