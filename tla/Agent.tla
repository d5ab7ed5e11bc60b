------------------------------- MODULE Agent -------------------------------
(***************************************************************************)
(* cmd/agent.go, the program the Makefile and the Docker image build: the  *)
(* start of the components, readiness, and the shutdown, which stops the   *)
(* sender before the reader and waits at most 30 seconds for the pipeline. *)
(***************************************************************************)
EXTENDS AgentPipeline

\* Mutant: the readiness is set once and not taken back.
MSetReadyOnce(b) == ready' = (ready \/ b)

SetReady(b) == ready' = b

\* healthServer.SetReady(true)
MainReady ==
  /\ Goto("set ready", "wait signal")
  /\ SetReady(TRUE)
  /\ UNCHANGED <<snd, rdr, setup, pipe, item, logsSent>>

\* SetReady(false), the start of the 30 seconds, healthServer.Stop()
MainNotReady ==
  /\ Goto("set not ready", "stop sender")
  /\ SetReady(FALSE)
  /\ UNCHANGED <<snd, rdr, setup, pipe, item, logsSent>>

\* <-shutdownCtx.Done() before the pipeline has ended
MainTimeout ==
  /\ Goto("wait pipeline", "exited")
  /\ UNCHANGED <<snd, rdr, setup, pipe, item, logsSent, ready>>

AgentMain ==
  /\ program = "agent"
  /\ \/ StartReader("start reader", "start sender")
     \/ StartReaderFails("start reader")
     \/ StartSender("start sender", "start pipeline")
     \/ StartPipe("start pipeline", "set ready")
     \/ MainReady
     \/ Signal("wait signal", "set not ready")
     \/ MainNotReady
     \/ StopSender("stop sender", "wait sender")
     \/ SenderStopped("wait sender", "stop reader")
     \/ StopReader("stop reader", "wait reader")
     \/ StopReaderEnded("stop reader", "wait pipeline")
     \/ ReaderStopped("wait reader", "wait pipeline")
     \/ PipeEnded("wait pipeline", "exited")
     \/ MainTimeout

\* The counter goes up with every line that was given to the sender; with
\* telemetry the line carries the context of its span.
AgentProcessLine ==
  /\ program = "agent"
  /\ PipeSend(IF telemetry THEN "caller" ELSE "background", 1)

-----------------------------------------------------------------------------
\* The agent reports ready only while the reader, the flush loop and the
\* pipeline have been started and neither component has been told to stop; the
\* goroutine of the reader is gone only if its source has come to an end,
\* which nobody is told of.
ReadyMeansServing ==
  ready => /\ reader # "unstarted" /\ ~rstopCh
           /\ reader \in {"ending", "done"} => Reader!EndsAlone
           /\ loop # "unstarted" /\ ~stopCh
           /\ pipe # "unstarted" /\ (pipe = "done" => ctxDone)
=============================================================================
