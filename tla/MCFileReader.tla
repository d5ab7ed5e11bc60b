---------------------------- MODULE MCFileReader ----------------------------
(* Small instances of FileReader; the constants are given in the .cfg files. *)
EXTENDS FileReader
=============================================================================
