------------------------------ MODULE MCAgents ------------------------------
(* Small instances of Agents; the constants are given in the .cfg files. *)
EXTENDS Agents

CONSTANTS l1, l2

MCLines == {l1, l2}
MCSizes == {2}

\* Each program with three of the readers, and every reader.  Telemetry only
\* changes the context of the lines in cmd/agent.go.
MCSetups ==
  {<<"agent", "file", FALSE>>, <<"agent", "container", TRUE>>, <<"agent", "macos", TRUE>>}
    \cup ({"cmd"} \X {"file", "container", "windows"} \X {FALSE})

MCFileSetup == {<<"agent", "file", FALSE>>}
=============================================================================
