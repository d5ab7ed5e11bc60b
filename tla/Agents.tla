------------------------------- MODULE Agents -------------------------------
(***************************************************************************)
(* Either agent program with any of the four readers, composed with the    *)
(* HTTP sender: the whole way of a line, the start and the shutdown.       *)
(***************************************************************************)
EXTENDS Agent, AgentCmd

Main == AgentMain \/ CmdMain

ProcessLine == AgentProcessLine \/ CmdProcessLine

Pipeline ==
  \/ PipeCancelled
  \/ PipeReceive
  \/ PipeClosed
  \/ ProcessLine

Next == Main \/ Pipeline \/ ReaderStep \/ SenderStep

Spec == Init /\ [][Next]_vars

\* main runs on; nobody has to send a signal.
FairSpec ==
  /\ Spec
  /\ GoroutineFairness
  /\ WF_vars(ProcessLine)
  /\ WF_vars(Main /\ main # "wait signal")
=============================================================================
