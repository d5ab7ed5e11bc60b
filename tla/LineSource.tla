----------------------------- MODULE LineSource -----------------------------
(***************************************************************************)
(* The reader.LogReader interface (pkg/reader/reader_factory.go) as the    *)
(* agents use it: a goroutine obtains items and sends them into the        *)
(* buffered channel Lines(); Stop closes stopCh and waits for stoppedCh.   *)
(* The four kinds of reader differ in three things: whether the send into  *)
(* the channel gives way to stopCh, whether the goroutine may end by       *)
(* itself, and whether Stop closes the channel.                            *)
(***************************************************************************)
EXTENDS Naturals, Sequences

CONSTANTS
  Items,       \* what the source can produce
  Cap          \* the capacity of the channel

VARIABLES
  kind,      \* the reader: file, container, windows or macos
  lines,     \* the channel
  reader,    \* the goroutine: unstarted, running (at the head of its loop),
             \* reading, sending, ending (its deferred function) or done
  held,      \* the items it is sending: none or one
  obtained,  \* history: the items obtained so far, in order
  rstopCh,   \* stopCh is closed; stoppedCh is closed iff reader = "done"
  closed     \* the channel is closed

svars == <<kind, lines, reader, held, obtained, rstopCh, closed>>

Kinds == {"file", "container", "windows", "macos"}

\* The file reader looks at stopCh only between two items.
SelectsStop == kind # "file"

\* tailContainer returns when the pod has gone, readLogs when the log command
\* has ended.
EndsAlone == kind \in {"container", "macos"}

\* Stop of the platform readers closes the channel, and returns at once when
\* the goroutine has ended already.
ClosesLines == kind \in {"windows", "macos"}

\* After an item the container and the macOS reader read on at once.
AfterItem == IF EndsAlone THEN "reading" ELSE "running"

\* The deferred function of the platform readers takes the lock before it
\* closes stoppedCh.
AtEnd == IF ClosesLines THEN "ending" ELSE "done"

Init ==
  /\ kind \in Kinds
  /\ lines = <<>>
  /\ reader = "unstarted"
  /\ held = <<>>
  /\ obtained = <<>>
  /\ rstopCh = FALSE
  /\ closed = FALSE

Start ==
  /\ reader = "unstarted"
  /\ reader' = IF kind = "macos" THEN "reading" ELSE "running"
  /\ UNCHANGED <<kind, lines, held, obtained, rstopCh, closed>>

\* The loop of the file and of the container reader looks at stopCh and goes
\* on to read.
Look ==
  /\ kind \in {"file", "container"}
  /\ reader = "running"
  /\ ~rstopCh
  /\ reader' = "reading"
  /\ UNCHANGED <<kind, lines, held, obtained, rstopCh, closed>>

\* There is nothing to read, or an error; a Scan of the macOS reader goes on.
GiveUp ==
  /\ kind # "macos"
  /\ reader = "reading"
  /\ reader' = "running"
  /\ UNCHANGED <<kind, lines, held, obtained, rstopCh, closed>>

Fresh(x) == \A i \in 1..Len(obtained) : obtained[i] # x

\* An item is obtained once.  The Windows reader has it from the select at the
\* head of its loop, which may prefer the ticker to a closed stopCh.
Obtain(x) ==
  /\ reader = IF kind = "windows" THEN "running" ELSE "reading"
  /\ Fresh(x)
  /\ obtained' = Append(obtained, x)
  /\ held' = <<x>>
  /\ reader' = "sending"
  /\ UNCHANGED <<kind, lines, rstopCh, closed>>

\* The item goes into the channel.
Push ==
  /\ reader = "sending"
  /\ ~closed /\ Len(lines) < Cap
  /\ lines' = lines \o held
  /\ held' = <<>>
  /\ reader' = AfterItem
  /\ UNCHANGED <<kind, obtained, rstopCh, closed>>

\* The goroutine notices stopCh; what it is sending is dropped.
Quit ==
  /\ rstopCh
  /\ reader \in {"running"} \cup (IF SelectsStop THEN {"sending"} ELSE {})
  /\ reader' = AtEnd
  /\ held' = <<>>
  /\ UNCHANGED <<kind, lines, obtained, rstopCh, closed>>

\* The source has come to its end, perhaps with an error that is put into the
\* channel as a last item if there is room for it.
EndAlone ==
  /\ EndsAlone
  /\ reader = "reading"
  /\ reader' = AtEnd
  /\ \/ UNCHANGED <<lines, obtained>>
     \/ \E x \in Items :
           /\ kind = "macos" /\ ~closed /\ Len(lines) < Cap /\ Fresh(x)
           /\ lines' = Append(lines, x)
           /\ obtained' = Append(obtained, x)
  /\ UNCHANGED <<kind, held, rstopCh, closed>>

\* close(stoppedCh)
Finish ==
  /\ reader = "ending"
  /\ reader' = "done"
  /\ UNCHANGED <<kind, lines, held, obtained, rstopCh, closed>>

CloseStop ==
  /\ ~rstopCh
  /\ rstopCh' = TRUE
  /\ UNCHANGED <<kind, lines, reader, held, obtained, closed>>

CloseLines ==
  /\ ClosesLines
  /\ rstopCh /\ reader = "done"
  /\ ~closed
  /\ closed' = TRUE
  /\ UNCHANGED <<kind, lines, reader, held, obtained, rstopCh>>

\* The consumer takes the head of the channel.
Receive ==
  /\ lines # <<>>
  /\ lines' = Tail(lines)
  /\ UNCHANGED <<kind, reader, held, obtained, rstopCh, closed>>

Next ==
  \/ Start
  \/ Look
  \/ GiveUp
  \/ \E x \in Items : Obtain(x)
  \/ Push
  \/ Quit
  \/ EndAlone
  \/ Finish
  \/ CloseStop
  \/ CloseLines
  \/ Receive

Spec == Init /\ [][Next]_svars
=============================================================================
