---------------------------- MODULE MCHTTPSender ----------------------------
(* Small instances of HTTPSender. *)
EXTENDS HTTPSender

CONSTANTS l1, l2, s1, s2

MCLines == {l1, l2}
MCStoppers == {s1, s2}
\* One size NewHTTPSender has to correct, the boundary 0, and two real ones.
MCSizes == {-1, 0, 1, 2}
=============================================================================
