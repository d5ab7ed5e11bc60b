------------------------- MODULE MCContainerReader -------------------------
(* Small instances of ContainerReader; the constants are in the .cfg files. *)
EXTENDS ContainerReader
=============================================================================
