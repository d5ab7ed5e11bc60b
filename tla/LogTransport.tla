---------------------------- MODULE LogTransport ----------------------------
(***************************************************************************)
(* What pkg/sender promises about a line, seen from outside: it is taken   *)
(* over once, and then it reaches the server at most once or is lost; both *)
(* are final.  There is no promise that it is delivered, and none about    *)
(* the order in which lines arrive.                                        *)
(***************************************************************************)
CONSTANT Lines

VARIABLES
  taken,      \* the lines Send has returned for
  delivered,  \* the lines the server has
  lost        \* the lines that were given up before the server had them

tvars == <<taken, delivered, lost>>

Init ==
  /\ taken = {}
  /\ delivered = {}
  /\ lost = {}

Accept ==
  /\ \E l \in Lines \ taken : taken' = taken \cup {l}
  /\ UNCHANGED <<delivered, lost>>

Pending == taken \ (delivered \cup lost)

\* One request delivers some of the pending lines, or loses them.
Deliver ==
  /\ \E S \in SUBSET Pending : delivered' = delivered \cup S
  /\ UNCHANGED <<taken, lost>>

Lose ==
  /\ \E S \in SUBSET Pending : lost' = lost \cup S
  /\ UNCHANGED <<taken, delivered>>

Next == Accept \/ Deliver \/ Lose

Spec == Init /\ [][Next]_tvars
=============================================================================
