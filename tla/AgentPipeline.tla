--------------------------- MODULE AgentPipeline ---------------------------
(***************************************************************************)
(* What the two agent programs, cmd/agent.go and cmd/agent/main.go, have   *)
(* in common: a log reader (LineSource), an HTTP sender (HTTPSender) and   *)
(* the goroutine that moves lines from the one to the other until the      *)
(* context is cancelled or the channel is closed.  The modules Agent and   *)
(* AgentCmd add their main goroutines, which differ in the order of the    *)
(* shutdown and in the context lines are sent with; Agents puts the two    *)
(* together, each with any of the four readers.                            *)
(***************************************************************************)
EXTENDS Integers, Sequences

CONSTANTS
  Lines,        \* the log lines
  Sizes,        \* the configured batch sizes
  Cap,          \* the capacity of the reader's channel
  Setups        \* program, kind of reader, telemetry or not: what may be run

ASSUME SizesAssumption == Sizes \subseteq Int

ASSUME SetupsAssumption ==
  Setups \subseteq {"agent", "cmd"} \X {"file", "container", "windows", "macos"} \X BOOLEAN

VARIABLES
  program,   \* cmd/agent.go or cmd/agent/main.go
  telemetry, \* a telemetry manager exists
  batchSize, batch, flights, ctxDone, loop, stopCh, stoppedCh, stopper,
  accepted, atStop,                                    \* the sender
  kind, lines, reader, held, obtained, rstopCh, closed,  \* the reader
  pipe,      \* the pipeline goroutine: unstarted, select, send or done
  item,      \* the line it has received: none or one
  logsSent,  \* the counter tailpost_logs_sent_total
  ready,     \* the readiness the health server reports
  main       \* where the main goroutine is

Sender == INSTANCE HTTPSender WITH Stoppers <- {"main"}
Reader == INSTANCE LineSource WITH Items <- Lines

snd == <<batchSize, batch, flights, ctxDone, loop, stopCh, stoppedCh, stopper,
         accepted, atStop>>
rdr == <<kind, lines, reader, held, obtained, rstopCh, closed>>
setup == <<program, telemetry>>
own == <<setup, pipe, item, logsSent, ready, main>>
vars == <<snd, rdr, own>>

Running == main # "exited"

Init ==
  /\ \E s \in Setups : program = s[1] /\ kind = s[2] /\ telemetry = s[3]
  /\ Sender!Init
  /\ Reader!Init
  /\ pipe = "unstarted"
  /\ item = <<>>
  /\ logsSent = 0
  /\ ready = FALSE
  /\ main = "start reader"

-----------------------------------------------------------------------------
\* The select of the pipeline goroutine: ctx.Done(), a line, or the closed
\* and drained channel.
PipeCancelled ==
  /\ Running
  /\ pipe = "select"
  /\ ctxDone
  /\ pipe' = "done"
  /\ UNCHANGED <<snd, rdr, setup, item, logsSent, ready, main>>

\* Mutants: the pipeline drops a line it receives while the context is
\* cancelled; it ends with the first line it receives.
MPipeDrops ==
  /\ Running
  /\ pipe = "select"
  /\ Reader!Receive
  /\ item' = IF ctxDone THEN <<>> ELSE <<Head(lines)>>
  /\ pipe' = IF ctxDone THEN "select" ELSE "send"
  /\ UNCHANGED <<snd, setup, logsSent, ready, main>>

MPipeStalls ==
  /\ Running
  /\ pipe = "select"
  /\ Reader!Receive
  /\ item' = <<>>
  /\ pipe' = "done"
  /\ UNCHANGED <<snd, setup, logsSent, ready, main>>

PipeReceive ==
  /\ Running
  /\ pipe = "select"
  /\ Reader!Receive
  /\ item' = <<Head(lines)>>
  /\ pipe' = "send"
  /\ UNCHANGED <<snd, setup, logsSent, ready, main>>

PipeClosed ==
  /\ Running
  /\ pipe = "select"
  /\ closed
  /\ lines = <<>>
  /\ pipe' = "done"
  /\ UNCHANGED <<snd, rdr, setup, item, logsSent, ready, main>>

\* The line goes to the sender; n is what the program adds to logsSent.
PipeSend(ctx, n) ==
  /\ Running
  /\ pipe = "send"
  /\ Sender!SendWithContext(Head(item), ctx)
  /\ logsSent' = logsSent + n
  /\ item' = <<>>
  /\ pipe' = "select"
  /\ UNCHANGED <<rdr, setup, ready, main>>

\* The goroutines of the reader and of the sender; none outlives main.
ReaderStep ==
  /\ Running
  /\ \/ Reader!Look
     \/ Reader!GiveUp
     \/ \E l \in Lines : Reader!Obtain(l)
     \/ Reader!Push
     \/ Reader!Quit
     \/ Reader!EndAlone
     \/ Reader!Finish
  /\ UNCHANGED <<snd, own>>

SenderStep ==
  /\ Running
  /\ Sender!FlushLoop \/ Sender!SendBatches
  /\ UNCHANGED <<rdr, own>>

-----------------------------------------------------------------------------
\* Building blocks of the main goroutines.
Goto(from, to) == main = from /\ main' = to

StartReader(from, to) ==
  /\ Goto(from, to)
  /\ Reader!Start
  /\ UNCHANGED <<snd, setup, pipe, item, logsSent, ready>>

\* Fatal: logReader.Start() returns an error and the process exits.
StartReaderFails(from) ==
  /\ Goto(from, "exited")
  /\ UNCHANGED <<snd, rdr, setup, pipe, item, logsSent, ready>>

StartSender(from, to) ==
  /\ Goto(from, to)
  /\ Sender!Start
  /\ UNCHANGED <<rdr, setup, pipe, item, logsSent, ready>>

StartPipe(from, to) ==
  /\ Goto(from, to)
  /\ pipe' = "select"
  /\ UNCHANGED <<snd, rdr, setup, item, logsSent, ready>>

\* <-sigCh and cancel()
Signal(from, to) ==
  /\ Goto(from, to)
  /\ Sender!CancelCtx
  /\ UNCHANGED <<rdr, setup, pipe, item, logsSent, ready>>

StopSender(from, to) ==
  /\ Goto(from, to)
  /\ Sender!Stop("main")
  /\ UNCHANGED <<rdr, setup, pipe, item, logsSent, ready>>

SenderStopped(from, to) ==
  /\ Goto(from, to)
  /\ Sender!StopReturn("main")
  /\ UNCHANGED <<rdr, setup, pipe, item, logsSent, ready>>

\* Mutant: main waits for the reader without closing its stopCh.
MStopReader(from, to) ==
  /\ Goto(from, to)
  /\ UNCHANGED <<snd, rdr, setup, pipe, item, logsSent, ready>>

\* Stop of a platform reader returns at once when its goroutine has ended by
\* itself; it may find it running as long as stoppedCh is not closed.
StopReader(from, to) ==
  /\ Goto(from, to)
  /\ ~(Reader!ClosesLines /\ reader = "done")
  /\ Reader!CloseStop
  /\ UNCHANGED <<snd, setup, pipe, item, logsSent, ready>>

StopReaderEnded(from, to) ==
  /\ Goto(from, to)
  /\ Reader!ClosesLines /\ reader \in {"ending", "done"}
  /\ UNCHANGED <<snd, rdr, setup, pipe, item, logsSent, ready>>

\* <-stoppedCh, and close(lines) where the reader does that
ReaderStopped(from, to) ==
  /\ Goto(from, to)
  /\ reader = "done"
  /\ \/ Reader!CloseLines
     \/ ~Reader!ClosesLines /\ UNCHANGED rdr
  /\ UNCHANGED <<snd, setup, pipe, item, logsSent, ready>>

\* Waiting for the pipeline goroutine, after which main returns.
PipeEnded(from, to) ==
  /\ Goto(from, to)
  /\ pipe = "done"
  /\ UNCHANGED <<snd, rdr, setup, pipe, item, logsSent, ready>>

\* A read of the log ends: the file reader's at the end of the file, the
\* container reader's when the context of its stream expires.  Nothing is
\* assumed of the macOS reader's Scan.
ReadGivesUp == Reader!GiveUp \/ (kind = "container" /\ Reader!EndAlone)

\* The scheduler's part: every goroutine runs, the ticker fires and requests
\* end, and a select that is reached again and again takes each ready case.
GoroutineFairness ==
  /\ WF_vars(Running /\ Reader!Push /\ UNCHANGED <<snd, own>>)
  /\ WF_vars(Running /\ ReadGivesUp /\ UNCHANGED <<snd, own>>)
  /\ SF_vars(Running /\ Reader!Quit /\ UNCHANGED <<snd, own>>)
  /\ WF_vars(Running /\ Reader!Finish /\ UNCHANGED <<snd, own>>)
  /\ WF_vars(PipeReceive) /\ SF_vars(PipeCancelled) /\ WF_vars(PipeClosed)
  /\ WF_vars(Running /\ Sender!LoopTick /\ UNCHANGED <<rdr, own>>)
  /\ WF_vars(Running /\ Sender!LoopFlush /\ UNCHANGED <<rdr, own>>)
  /\ SF_vars(Running /\ Sender!LoopStop /\ UNCHANGED <<rdr, own>>)
  /\ WF_vars(Running /\ Sender!LoopFinalFlush /\ UNCHANGED <<rdr, own>>)
  /\ WF_vars(Running /\ Sender!LoopClose /\ UNCHANGED <<rdr, own>>)
  /\ WF_vars(Running /\ Sender!SendBatches /\ UNCHANGED <<rdr, own>>)

-----------------------------------------------------------------------------
\* End to end: the lines the sender took, the one in the pipeline's hands,
\* the channel and the one the reader is sending are, in this order, what the
\* reader obtained; only a reader that gives way to stopCh drops a line, its
\* last.
PipelineInOrder ==
  LET all == accepted \o item \o lines \o held
  IN  /\ Len(all) <= Len(obtained) /\ SubSeq(obtained, 1, Len(all)) = all
      /\ Len(all) < Len(obtained) =>
           rstopCh /\ reader \in {"ending", "done"} /\ Len(all) + 1 = Len(obtained)

\* A line the reader obtained gets a request, and that request ends, unless
\* the agent is told to shut down.
ObtainedSettles ==
  \A l \in Lines :
     (\E i \in 1..Len(obtained) : obtained[i] = l) ~> (Sender!Settled(l) \/ ctxDone)

\* A shutdown signal is followed by the end of the process.
ShutdownCompletes == ctxDone ~> ~Running

\* The file reader waits for room in its channel, the macOS reader for a line.
ReaderBlocked ==
  (kind = "file" /\ reader = "sending") \/ (kind = "macos" /\ reader = "reading")

\* Nothing but a reader that stays blocked for good, in a send nobody will
\* receive or in a Scan of a silent command, holds up the shutdown.
ShutdownHeldOnlyByReader == ctxDone ~> (~Running \/ []ReaderBlocked)
=============================================================================
