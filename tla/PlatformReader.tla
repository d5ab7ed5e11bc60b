--------------------------- MODULE PlatformReader ---------------------------
(***************************************************************************)
(* pkg/reader/windows_event_reader.go and pkg/reader/macos_log_reader.go.  *)
(* The two readers share Start, Stop and their state; the goroutine of the *)
(* first polls for events every five seconds, that of the second scans the *)
(* output of a "log stream" command, which it ends when it returns.        *)
(* Any number of callers may call Start and Stop in any order.             *)
(*                                                                         *)
(* Items are numbered: RecordID on Windows, the lines the command writes   *)
(* on macOS (blank lines, which are skipped, have no number).              *)
(***************************************************************************)
EXTENDS Integers, Sequences

CONSTANTS
  Callers,    \* goroutines that call Start and Stop
  MaxStarts,  \* goroutines Start spawns
  MaxItems,   \* events, or lines of the command
  Cap         \* the capacity of the lines channel (1000 in the code)

ASSUME PlatformReaderAssumption ==
  MaxStarts \in Nat /\ MaxItems \in Nat /\ Cap \in Nat \ {0}

VARIABLES
  platform,   \* the system the reader was built for
  running,    \* r.running
  stopCh, stoppedCh, closed,  \* r.stopCh, r.stoppedCh and r.lines are closed
  lines,      \* r.lines
  pc,         \* the goroutine, "none" before Start and once it has unlocked
  last,       \* lastRecord, or the number of the last line
  held,       \* the item it is sending, none or one
  closing,    \* goroutines that have only close(stoppedCh) left to do
  cmd,        \* the log command: none, running, signalled or exited
  out,        \* lines it has written
  call,       \* where a caller is in Stop
  panicked,   \* a channel was closed twice, or sent on when it was closed
  starts,     \* history: goroutines spawned
  overlap,    \* history: two calls of Stop ran at the same time
  obtained    \* history: the items the goroutines obtained

chans == <<stopCh, stoppedCh, closed>>
goroutine == <<pc, last, held, closing>>
command == <<cmd, out>>
hist == <<starts, overlap, obtained>>
vars == <<platform, running, chans, lines, goroutine, command, call, panicked, hist>>

ErrorLine == 0   \* "Error reading macOS logs: ..."

Init ==
  /\ platform \in {"windows", "macos"}
  /\ running = FALSE
  /\ stopCh = FALSE /\ stoppedCh = FALSE /\ closed = FALSE
  /\ lines = <<>>
  /\ pc = "none" /\ last = 0 /\ held = <<>> /\ closing = 0
  /\ cmd = "none" /\ out = 0
  /\ call = [c \in Callers |-> "idle"]
  /\ panicked = FALSE
  /\ starts = 0 /\ overlap = FALSE /\ obtained = <<>>

\* readLogs holds r.lock while it waits for the command to end; every other
\* critical section is one step.
Locked == pc = "reaping"

-----------------------------------------------------------------------------
\* Start: nil when the reader is running, else a goroutine.
StartWindows(c) ==
  /\ platform = "windows"
  /\ call[c] = "idle" /\ ~running /\ starts < MaxStarts
  /\ running' = TRUE
  /\ pc' = "loop" /\ last' = 0
  /\ starts' = starts + 1
  /\ UNCHANGED <<platform, chans, lines, held, closing, command, call, panicked,
                 overlap, obtained>>

\* The command is started first; if that fails the error is returned and
\* nothing has changed.
StartMacOS(c) ==
  /\ platform = "macos"
  /\ call[c] = "idle" /\ ~Locked /\ ~running /\ starts < MaxStarts
  /\ running' = TRUE
  /\ cmd' = "running"
  /\ pc' = "read" /\ last' = out
  /\ starts' = starts + 1
  /\ UNCHANGED <<platform, chans, lines, held, closing, out, call, panicked,
                 overlap, obtained>>

\* Mutant: Stop does not look at r.running.
MStopCheck(c) ==
  /\ call[c] = "idle" /\ ~Locked
  /\ call' = [call EXCEPT ![c] = "close"]
  /\ overlap' = (overlap \/ \E d \in Callers \ {c} : call[d] # "idle")
  /\ UNCHANGED <<platform, running, chans, lines, goroutine, command, panicked,
                 starts, obtained>>

\* The check of r.running under the lock, with which a Stop of a reader that
\* is not running ends.
StopCheck(c) ==
  /\ call[c] = "idle" /\ ~Locked /\ running
  /\ call' = [call EXCEPT ![c] = "close"]
  /\ overlap' = (overlap \/ \E d \in Callers \ {c} : call[d] # "idle")
  /\ UNCHANGED <<platform, running, chans, lines, goroutine, command, panicked,
                 starts, obtained>>

\* close(r.stopCh), outside the lock
StopClose(c) ==
  /\ call[c] = "close"
  /\ call' = [call EXCEPT ![c] = "wait"]
  /\ stopCh' = TRUE
  /\ panicked' = stopCh
  /\ UNCHANGED <<platform, running, stoppedCh, closed, lines, goroutine, command, hist>>

\* Mutant: the channel is closed without waiting for stoppedCh.
MStopReturn(c) ==
  /\ call[c] = "wait"
  /\ call' = [call EXCEPT ![c] = "idle"]
  /\ closed' = TRUE
  /\ panicked' = closed
  /\ UNCHANGED <<platform, running, stopCh, stoppedCh, lines, goroutine, command, hist>>

\* <-r.stoppedCh and close(r.lines)
StopReturn(c) ==
  /\ call[c] = "wait" /\ stoppedCh
  /\ call' = [call EXCEPT ![c] = "idle"]
  /\ closed' = TRUE
  /\ panicked' = closed
  /\ UNCHANGED <<platform, running, stopCh, stoppedCh, lines, goroutine, command, hist>>

-----------------------------------------------------------------------------
\* The goroutine.

\* The next item: of a tick, the event getLatestEvents makes up, which comes
\* after lastRecord; of a Scan, the next line of the command.
ReadItem ==
  /\ pc \in {"loop", "read"} /\ last < MaxItems
  /\ platform = "macos" => last < out
  /\ held' = <<last + 1>>
  /\ obtained' = Append(obtained, last + 1)
  /\ pc' = "send"
  /\ UNCHANGED <<platform, running, chans, lines, last, closing, command, call,
                 panicked, starts, overlap>>

\* Windows: the select of the ticker and stopCh
LoopQuit ==
  /\ pc = "loop" /\ stopCh
  /\ pc' = "ending"
  /\ UNCHANGED <<platform, running, chans, lines, last, held, closing, command,
                 call, panicked, hist>>

\* macOS: the output has come to its end.
ScanEnds ==
  /\ pc = "read" /\ last = out /\ cmd = "exited"
  /\ pc' = "ending"
  /\ UNCHANGED <<platform, running, chans, lines, last, held, closing, command,
                 call, panicked, hist>>

\* macOS: a line is too long for the scanner, or the pipe cannot be read; the
\* error goes into the channel if there is room and nobody called Stop.
ScanFails ==
  /\ pc = "read"
  /\ pc' = "ending"
  /\ LET note == IF stopCh \/ Len(lines) = Cap THEN <<>> ELSE <<ErrorLine>>
     IN  /\ lines' = lines \o note
         /\ obtained' = obtained \o note
  /\ UNCHANGED <<platform, running, chans, last, held, closing, command, call,
                 panicked, starts, overlap>>

\* Mutant: lastRecord is not moved on.
MSendItem ==
  /\ pc = "send"
  /\ closed \/ Len(lines) < Cap
  /\ panicked' = closed
  /\ lines' = IF closed THEN lines ELSE lines \o held
  /\ held' = <<>>
  /\ pc' = IF platform = "windows" THEN "loop" ELSE "read"
  /\ Len(obtained) <= MaxItems
  /\ UNCHANGED <<platform, running, chans, last, closing, command, call, hist>>

\* The select of r.lines <- item and stopCh; a send on a closed channel is
\* always ready, and panics.
SendItem ==
  /\ pc = "send"
  /\ closed \/ Len(lines) < Cap
  /\ panicked' = closed
  /\ lines' = IF closed THEN lines ELSE lines \o held
  /\ last' = held[1]
  /\ held' = <<>>
  /\ pc' = IF platform = "windows" THEN "loop" ELSE "read"
  /\ UNCHANGED <<platform, running, chans, closing, command, call, hist>>

\* Mutant: the send does not give way to stopCh.
MSendQuit ==
  /\ pc = "send" /\ stopCh /\ Len(lines) < Cap
  /\ held' = <<>>
  /\ pc' = "ending"
  /\ UNCHANGED <<platform, running, chans, lines, last, closing, command, call,
                 panicked, hist>>

SendQuit ==
  /\ pc = "send" /\ stopCh
  /\ held' = <<>>
  /\ pc' = "ending"
  /\ UNCHANGED <<platform, running, chans, lines, last, closing, command, call,
                 panicked, hist>>

\* The deferred function under the lock: on macOS SIGTERM, and up to two
\* seconds for the command to end before it is killed; then r.running = false.
SignalCommand ==
  /\ platform = "macos" /\ pc = "ending"
  /\ pc' = "reaping"
  /\ cmd' = IF cmd = "running" THEN "signalled" ELSE cmd
  /\ UNCHANGED <<platform, running, chans, lines, last, held, closing, out, call,
                 panicked, hist>>

\* Mutant: after two seconds the command is left alone.
MUnlock ==
  /\ IF platform = "windows" THEN pc = "ending" ELSE pc = "reaping"
  /\ running' = FALSE
  /\ cmd' = IF cmd = "exited" THEN "none" ELSE cmd
  /\ pc' = "none"
  /\ closing' = closing + 1
  /\ UNCHANGED <<platform, chans, lines, last, held, out, call, panicked, hist>>

Unlock ==
  /\ IF platform = "windows" THEN pc = "ending" ELSE pc = "reaping"
  /\ running' = FALSE
  /\ cmd' = "none"
  /\ pc' = "none"
  /\ closing' = closing + 1
  /\ UNCHANGED <<platform, chans, lines, last, held, out, call, panicked, hist>>

\* close(r.stoppedCh), after the lock has been released
CloseStopped ==
  /\ closing > 0
  /\ closing' = closing - 1
  /\ stoppedCh' = TRUE
  /\ panicked' = stoppedCh
  /\ UNCHANGED <<platform, running, stopCh, closed, lines, pc, last, held, command,
                 call, hist>>

-----------------------------------------------------------------------------
\* The log command, and the consumer of Lines().
CmdWrites ==
  /\ cmd \in {"running", "signalled"} /\ out < MaxItems
  /\ out' = out + 1
  /\ UNCHANGED <<platform, running, chans, lines, goroutine, cmd, call, panicked, hist>>

CmdExits ==
  /\ cmd \in {"running", "signalled"}
  /\ cmd' = "exited"
  /\ UNCHANGED <<platform, running, chans, lines, goroutine, out, call, panicked, hist>>

Receive ==
  /\ lines # <<>>
  /\ lines' = Tail(lines)
  /\ UNCHANGED <<platform, running, chans, goroutine, command, call, panicked, hist>>

Calls(c) == StartWindows(c) \/ StartMacOS(c) \/ StopCheck(c)
StopGoesOn(c) == StopClose(c) \/ StopReturn(c)

Goroutine ==
  \/ ReadItem
  \/ LoopQuit
  \/ ScanEnds
  \/ ScanFails
  \/ SendItem
  \/ SendQuit
  \/ SignalCommand
  \/ Unlock
  \/ CloseStopped

\* A panic ends the process.
Next ==
  /\ ~panicked
  /\ \/ \E c \in Callers : Calls(c) \/ StopGoesOn(c)
     \/ Goroutine
     \/ CmdWrites
     \/ CmdExits
     \/ Receive

Spec == Init /\ [][Next]_vars

\* A call of Stop and the goroutine run on; a select that is reached again and
\* again takes each ready case.  Nothing is assumed of the log command, of the
\* consumer or of further calls.
Fairness ==
  /\ \A c \in Callers : WF_vars(~panicked /\ StopGoesOn(c))
  /\ WF_vars(~panicked /\ (ReadItem \/ ScanEnds))
  /\ SF_vars(~panicked /\ (LoopQuit \/ SendQuit))
  /\ WF_vars(~panicked /\ (SignalCommand \/ Unlock))
  /\ WF_vars(~panicked /\ CloseStopped)

FairSpec == Spec /\ Fairness

-----------------------------------------------------------------------------
\* A reader can be used once, and Stop by one caller at a time.
Misused == starts > 1 \/ overlap

\* Start and Stop may be called at any time, again and again, before Start,
\* after the end of the source and while the goroutine is ending: no channel
\* is closed twice and nothing is sent on a closed one, unless two calls of
\* Stop overlap or a reader that has ended is started again.
PanicOnlyOnMisuse == panicked => Misused

\* "Stop stops the reader and closes all resources": once the channel is
\* closed no goroutine is left that could send, and no log command that could
\* write, whether the command heeded SIGTERM or not.
StopLeavesNothing ==
  closed /\ ~Misused => pc = "none" /\ closing = 0 /\ ~running /\ cmd = "none"

\* Every item is obtained once and none is passed over: lastRecord keeps step
\* with what was sent.  The error of a Scan comes last.
ItemsConsecutive ==
  ~Misused => \A i \in 1..Len(obtained) :
                 obtained[i] = i \/ (i = Len(obtained) /\ obtained[i] = ErrorLine)

\* The macOS goroutine waits in Scan for a command that is alive and silent;
\* only the goroutine itself would send the command a SIGTERM.
ScanBlocked == pc = "read" /\ last = out /\ cmd = "running"

\* A Stop that found the reader running returns, with or without a consumer,
\* unless the log command is silent for ever.
StopReturns ==
  \A c \in Callers : (call[c] = "wait") ~> (call[c] # "wait" \/ panicked \/ []ScanBlocked)

\* The reader as a LineSource.
Phase == CASE pc = "loop" -> "running"
           [] pc = "read" -> "reading"
           [] pc = "send" -> "sending"
           [] pc = "none" /\ starts = 0 -> "unstarted"
           [] pc = "none" /\ stoppedCh -> "done"
           [] OTHER -> "ending"

Source == INSTANCE LineSource
          WITH Items <- 0..MaxItems, kind <- platform, reader <- Phase, rstopCh <- stopCh

\* Used as the agents use them, one Start and one Stop, both readers implement
\* LineSource.
ImplementsSource == Source!Init /\ [][Source!Next \/ Misused']_(Source!svars)
=============================================================================
