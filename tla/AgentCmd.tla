------------------------------ MODULE AgentCmd ------------------------------
(***************************************************************************)
(* cmd/agent/main.go, the second agent program: it sends every line with   *)
(* the context that the signal cancels, stops the reader before the        *)
(* sender, and waits for the pipeline without a timeout.  It never calls   *)
(* SetReady and has no counters.                                           *)
(***************************************************************************)
EXTENDS AgentPipeline

CmdMain ==
  /\ program = "cmd"
  /\ \/ StartReader("start reader", "start sender")
     \/ StartReaderFails("start reader")
     \/ StartSender("start sender", "start pipeline")
     \/ StartPipe("start pipeline", "wait signal")
     \/ Signal("wait signal", "stop reader")
     \/ StopReader("stop reader", "wait reader")
     \/ StopReaderEnded("stop reader", "stop sender")
     \/ ReaderStopped("wait reader", "stop sender")
     \/ StopSender("stop sender", "wait sender")
     \/ SenderStopped("wait sender", "wait pipeline")
     \/ PipeEnded("wait pipeline", "exited")

CmdProcessLine ==
  /\ program = "cmd"
  /\ PipeSend("caller", 0)
=============================================================================
