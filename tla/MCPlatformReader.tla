-------------------------- MODULE MCPlatformReader --------------------------
(* Small instances of PlatformReader; the constants are in the .cfg file. *)
EXTENDS PlatformReader
=============================================================================
