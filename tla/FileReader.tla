----------------------------- MODULE FileReader -----------------------------
(***************************************************************************)
(* pkg/reader/file_reader.go: a goroutine tails a file by path and sends   *)
(* its lines into a channel; at the end of the file it waits, reopens the  *)
(* path and goes on at the offset it has reached, or at 0 when the file is *)
(* smaller than that.  The program that writes the log and the tool that   *)
(* rotates it are the environment.                                         *)
(*                                                                         *)
(* A file is a sequence of cells, the unit of offsets.  Line n is a "body" *)
(* cell and an "nl" cell, the part that ends in the newline; a blank line  *)
(* is an "nl" cell of line 0.                                              *)
(***************************************************************************)
EXTENDS Integers, Sequences

CONSTANTS
  MaxLines,     \* lines the writer writes
  MaxBlanks,    \* blank lines it writes
  MaxInodes,    \* files that may come to the path
  MaxTruncates, \* times the file at the path may be truncated
  Cap,          \* the capacity of the lines channel (1000 in the code)
  BufSize       \* what one read brings into the bufio.Reader

ASSUME FileReaderAssumption ==
  /\ MaxLines \in Nat /\ MaxBlanks \in Nat /\ MaxTruncates \in Nat
  /\ MaxInodes \in Nat \ {0} /\ Cap \in Nat \ {0} /\ BufSize \in Nat \ {0}

NoFile == 0
Inodes == 1..MaxInodes
Cells == (0..MaxLines) \X {"body", "nl"}

VARIABLES
  disk,     \* the cells of every inode
  path,     \* the inode at r.path, or NoFile
  wfd,      \* the inode the writer has open
  created,  \* inodes created so far
  wrote,    \* lines the writer has begun so far
  blanks,   \* blank lines written so far
  truncs,   \* truncations so far
  pc,       \* where tailFile is
  fd,       \* the inode of r.file, or NoFile for nil
  pos,      \* the position of that file descriptor
  buf,      \* what r.reader has read and not returned
  offset,   \* r.offset
  held,     \* the line tailFile is sending, in a sequence of none or one
  lines,    \* r.lines
  stopCh,   \* r.stopCh is closed
  obtained, \* history: the non-empty lines readLine has returned
  startAt,  \* history: inode and offset of Start
  basis     \* history: the file (inode and truncation) offset was counted in

env == <<disk, path, wfd, created, wrote, blanks, truncs>>
hist == <<startAt, basis>>
rdr == <<pc, fd, pos, buf, offset, held, obtained, hist>>
vars == <<env, rdr, lines, stopCh>>

IsNL(c) == c[2] = "nl"
MinOf(a, b) == IF a <= b THEN a ELSE b

\* The newline of the first line of s is at n.
FirstNL(s, n) == IsNL(s[n]) /\ \A m \in 1..(n-1) : ~IsNL(s[m])

HasNL(s) == \E n \in 1..Len(s) : IsNL(s[n])

\* No line has been begun and not ended at the end of s.
AtBoundary(s) == s # <<>> => IsNL(s[Len(s)])

-----------------------------------------------------------------------------
\* The environment.

\* The writer appends; a line may reach the file in two pieces.
Write(c) ==
  /\ disk' = [disk EXCEPT ![wfd] = Append(@, c)]
  /\ UNCHANGED <<path, wfd, created, truncs>>

WriteBody ==
  /\ AtBoundary(disk[wfd])
  /\ wrote < MaxLines
  /\ wrote' = wrote + 1
  /\ Write(<<wrote + 1, "body">>)
  /\ UNCHANGED <<blanks, rdr, lines, stopCh>>

WriteNewline ==
  /\ ~AtBoundary(disk[wfd])
  /\ Write(<<wrote, "nl">>)
  /\ UNCHANGED <<wrote, blanks, rdr, lines, stopCh>>

WriteBlank ==
  /\ AtBoundary(disk[wfd])
  /\ blanks < MaxBlanks
  /\ blanks' = blanks + 1
  /\ Write(<<0, "nl">>)
  /\ UNCHANGED <<wrote, rdr, lines, stopCh>>

\* Rotation: the file is renamed away (or removed), a new one is created, and
\* the writer goes over to it between two lines.
Rename ==
  /\ path # NoFile
  /\ created < MaxInodes
  /\ path' = NoFile
  /\ UNCHANGED <<disk, wfd, created, wrote, blanks, truncs, rdr, lines, stopCh>>

Create ==
  /\ path = NoFile
  /\ created < MaxInodes
  /\ path' = created + 1
  /\ created' = created + 1
  /\ UNCHANGED <<disk, wfd, wrote, blanks, truncs, rdr, lines, stopCh>>

WriterReopens ==
  /\ path \notin {NoFile, wfd}
  /\ AtBoundary(disk[wfd])
  /\ wfd' = path
  /\ UNCHANGED <<disk, path, created, wrote, blanks, truncs, rdr, lines, stopCh>>

\* copytruncate, between two lines
Truncate ==
  /\ path # NoFile
  /\ truncs < MaxTruncates
  /\ AtBoundary(disk[path])
  /\ disk' = [disk EXCEPT ![path] = <<>>]
  /\ truncs' = truncs + 1
  /\ UNCHANGED <<path, wfd, created, wrote, blanks, rdr, lines, stopCh>>

Environment ==
  \/ WriteBody
  \/ WriteNewline
  \/ WriteBlank
  \/ Rename
  \/ Create
  \/ WriterReopens
  \/ Truncate

-----------------------------------------------------------------------------
\* The reader.

\* Start opens the path and seeks to the end; if it cannot, it returns the
\* error and there is no goroutine.
Start ==
  /\ pc = "unstarted"
  /\ \/ /\ pc' = "failed"
        /\ UNCHANGED <<fd, pos, offset, hist>>
     \/ /\ path # NoFile
        /\ pc' = "loop"
        /\ fd' = path
        /\ pos' = Len(disk[path])
        /\ offset' = Len(disk[path])
        /\ startAt' = <<path, Len(disk[path])>>
        /\ basis' = <<path, truncs>>
  /\ UNCHANGED <<buf, held, obtained, env, lines, stopCh>>

\* Mutant: the loop goes on to read when stopCh is closed.
MLoopQuit ==
  /\ pc = "loop"
  /\ stopCh
  /\ pc' = "read"
  /\ UNCHANGED <<fd, pos, buf, offset, held, obtained, hist, env, lines, stopCh>>

\* The select at the head of tailFile's loop; on stopCh the deferred function
\* closes the file and stoppedCh.
LoopRead ==
  /\ pc = "loop"
  /\ ~stopCh
  /\ pc' = "read"
  /\ UNCHANGED <<fd, pos, buf, offset, held, obtained, hist, env, lines, stopCh>>

LoopQuit ==
  /\ pc = "loop"
  /\ stopCh
  /\ pc' = "done"
  /\ fd' = NoFile
  /\ UNCHANGED <<pos, buf, offset, held, obtained, hist, env, lines, stopCh>>

\* ReadString('\n') has no newline buffered and reads more of the file.
ReadMore ==
  /\ pc = "read"
  /\ fd # NoFile
  /\ ~HasNL(buf)
  /\ pos < Len(disk[fd])
  /\ LET to == MinOf(pos + BufSize, Len(disk[fd]))
     IN  /\ buf' = buf \o SubSeq(disk[fd], pos + 1, to)
         /\ pos' = to
  /\ UNCHANGED <<pc, fd, offset, held, obtained, hist, env, lines, stopCh>>

\* Mutant: the offset does not count the newline.
MReadLineShort ==
  /\ pc = "read"
  /\ fd # NoFile
  /\ \E n \in 1..Len(buf) :
        /\ FirstNL(buf, n)
        /\ offset' = offset + n - 1
        /\ buf' = SubSeq(buf, n + 1, Len(buf))
        /\ \/ /\ buf[1] = <<0, "nl">>
              /\ pc' = "loop"
              /\ UNCHANGED <<held, obtained>>
           \/ /\ buf[1] # <<0, "nl">>
              /\ pc' = "send"
              /\ held' = <<SubSeq(buf, 1, n)>>
              /\ obtained' = Append(obtained, SubSeq(buf, 1, n))
  /\ UNCHANGED <<fd, pos, hist, env, lines, stopCh>>

\* readLine returns the buffered line, and tailFile goes on to send it; an
\* empty line is skipped (after a short sleep).
ReadLine ==
  /\ pc = "read"
  /\ fd # NoFile
  /\ \E n \in 1..Len(buf) :
        /\ FirstNL(buf, n)
        /\ offset' = offset + n
        /\ buf' = SubSeq(buf, n + 1, Len(buf))
        /\ \/ /\ buf[1] = <<0, "nl">>
              /\ pc' = "loop"
              /\ UNCHANGED <<held, obtained>>
           \/ /\ buf[1] # <<0, "nl">>
              /\ pc' = "send"
              /\ held' = <<SubSeq(buf, 1, n)>>
              /\ obtained' = Append(obtained, SubSeq(buf, 1, n))
  /\ UNCHANGED <<fd, pos, hist, env, lines, stopCh>>

\* Mutant: the offset counts the unfinished line that is dropped.
MReadFailsCounts ==
  /\ pc = "read"
  /\ fd = NoFile \/ ~HasNL(buf)
  /\ pc' = "reopen"
  /\ buf' = <<>>
  /\ offset' = offset + Len(buf)
  /\ UNCHANGED <<fd, pos, held, obtained, hist, env, lines, stopCh>>

\* readLine fails: r.file is nil, the end of the file, or an I/O error; what
\* was buffered of an unfinished line is dropped and offset stays.  tailFile
\* sleeps for reopenInterval.
ReadFails ==
  /\ pc = "read"
  /\ fd = NoFile \/ ~HasNL(buf)
  /\ pc' = "reopen"
  /\ buf' = <<>>
  /\ UNCHANGED <<fd, pos, offset, held, obtained, hist, env, lines, stopCh>>

\* An offset of 0 is right for whatever file is at the path.
Recount == basis' = IF offset' = 0 THEN <<path, truncs>> ELSE basis

\* Mutants: the reopened file is read from its start, from its end, and at the
\* old offset without the size check.
MReopenAt(o) ==
  /\ pc = "reopen"
  /\ path # NoFile
  /\ fd' = path
  /\ offset' = o
  /\ pos' = o
  /\ pc' = "loop"
  /\ Recount
  /\ UNCHANGED <<buf, held, obtained, startAt, env, lines, stopCh>>

MReopenStart == MReopenAt(0)

MReopenEnd == path # NoFile /\ MReopenAt(Len(disk[path]))

MReopenBlind == MReopenAt(offset)

\* reopen() finds the path and seeks to the offset, or to 0 when the file is
\* smaller than the offset.
Reopen ==
  /\ pc = "reopen"
  /\ path # NoFile
  /\ fd' = path
  /\ offset' = IF Len(disk[path]) < offset THEN 0 ELSE offset
  /\ pos' = offset'
  /\ pc' = "loop"
  /\ Recount
  /\ UNCHANGED <<buf, held, obtained, startAt, env, lines, stopCh>>

\* reopen() fails: no file at the path, or an error of Open, Stat or Seek (the
\* last after the offset has been set).
ReopenFails ==
  /\ pc = "reopen"
  /\ fd' = NoFile
  /\ offset' \in {offset} \cup
       (IF path # NoFile /\ Len(disk[path]) < offset THEN {0} ELSE {})
  /\ pc' = "loop"
  /\ Recount
  /\ UNCHANGED <<pos, buf, held, obtained, startAt, env, lines, stopCh>>

\* Mutant: the capacity is off by one.
MSendOver ==
  /\ pc = "send"
  /\ Len(lines) <= Cap
  /\ lines' = lines \o held
  /\ held' = <<>>
  /\ pc' = "loop"
  /\ UNCHANGED <<fd, pos, buf, offset, obtained, hist, env, stopCh>>

\* r.lines <- line, which does not look at stopCh
SendLine ==
  /\ pc = "send"
  /\ Len(lines) < Cap
  /\ lines' = lines \o held
  /\ held' = <<>>
  /\ pc' = "loop"
  /\ UNCHANGED <<fd, pos, buf, offset, obtained, hist, env, stopCh>>

TailFile ==
  \/ LoopRead
  \/ LoopQuit
  \/ ReadMore
  \/ ReadLine
  \/ ReadFails
  \/ Reopen
  \/ ReopenFails
  \/ SendLine

-----------------------------------------------------------------------------
\* The agent: Stop closes stopCh (once) and waits for pc = "done"; lines are
\* received.
Stop ==
  /\ ~stopCh
  /\ stopCh' = TRUE
  /\ UNCHANGED <<env, rdr, lines>>

Receive ==
  /\ lines # <<>>
  /\ lines' = Tail(lines)
  /\ UNCHANGED <<env, rdr, stopCh>>

Init ==
  /\ disk = [i \in Inodes |-> <<>>]
  /\ path = 1 /\ wfd = 1 /\ created = 1
  /\ wrote = 0 /\ blanks = 0 /\ truncs = 0
  /\ pc = "unstarted"
  /\ fd = NoFile /\ pos = 0 /\ buf = <<>> /\ offset = 0
  /\ held = <<>> /\ lines = <<>> /\ stopCh = FALSE
  /\ obtained = <<>>
  /\ startAt = <<NoFile, 0>>
  /\ basis = <<NoFile, 0>>

Next == Environment \/ Start \/ TailFile \/ Stop \/ Receive

Spec == Init /\ [][Next]_vars

\* The goroutine is scheduled; I/O errors are transient, so that a read or a
\* reopen that is tried again and again succeeds; a line that was begun is
\* ended, a rename is followed by a create, and the consumer goes on receiving.
Fairness ==
  /\ WF_vars(LoopRead) /\ WF_vars(LoopQuit) /\ WF_vars(ReadLine)
  /\ WF_vars(ReadFails) /\ WF_vars(ReopenFails) /\ WF_vars(SendLine)
  /\ SF_vars(ReadMore) /\ SF_vars(Reopen)
  /\ WF_vars(WriteNewline) /\ WF_vars(Create)
  /\ WF_vars(Receive)

FairSpec == Spec /\ Fairness

-----------------------------------------------------------------------------
\* r.offset counts exactly what readLine has returned: the file descriptor is
\* ahead of it by what is buffered, so that a reopen of the same file goes on
\* with the first line that was not returned.
OffsetTracksReads ==
  pc \in {"loop", "read", "send"} /\ fd # NoFile => pos = offset + Len(buf)

\* No part of a line is returned twice, whatever the sequence of partial
\* reads, errors, reopens, rotations and truncations.
NothingReturnedTwice ==
  \A i, j \in 1..Len(obtained) : \A m \in 1..Len(obtained[i]), n \in 1..Len(obtained[j]) :
     obtained[i][m] = obtained[j][n] /\ obtained[i][m][1] # 0 => i = j /\ m = n

WholeLine(s) == \E n \in 1..MaxLines : s = <<<<n, "body">>, <<n, "nl">>>>

\* As long as the file only grows, every line returned is one line of the
\* log: a line at the end of the file without its newline is never returned
\* torn.  Only the first may be the end of a line, when Start found it half
\* written.
OnlyFirstLineTorn ==
  created = 1 /\ truncs = 0 =>
     \A i \in 1..Len(obtained) : WholeLine(obtained[i]) \/ (i = 1 /\ Len(obtained[1]) = 1)

-----------------------------------------------------------------------------
\* Line n is complete in the file at the path and was begun after Start.
AtPath(n) ==
  /\ pc \notin {"unstarted", "failed"}
  /\ path # NoFile
  /\ \E p \in 1..(Len(disk[path]) - 1) :
        /\ disk[path][p] = <<n, "body">>
        /\ disk[path][p + 1] = <<n, "nl">>
        /\ path # startAt[1] \/ p > startAt[2]

Returned(n) == \E i \in 1..Len(obtained) : obtained[i] = <<<<n, "body">>, <<n, "nl">>>>

\* "Handles file rotation and truncation transparently": every line that
\* stays in the file at the path is returned, unless the reader is stopped.
EveryLineReturned ==
  \A n \in 1..MaxLines : AtPath(n) ~> (Returned(n) \/ ~AtPath(n) \/ stopCh)

\* The file at the path is not the one the offset was counted in and has
\* reached the offset, so that its size does not tell.
Unnoticed ==
  /\ path # NoFile /\ offset > 0
  /\ <<path, truncs>> # basis
  /\ Len(disk[path]) >= offset

\* Every line that stays in the file at the path is returned, through partial
\* writes, I/O errors, rotation and truncation, unless the reader is stopped;
\* what is lost is lost because a new or truncated file had grown to the old
\* offset before the reader looked at its size.
LostOnlyUnnoticed ==
  \A n \in 1..MaxLines : AtPath(n) ~> (Returned(n) \/ ~AtPath(n) \/ stopCh \/ Unnoticed)

\* A truncation or a smaller new file is noticed: the reader does not stay
\* beyond the end of the file at the path.
ShrinkNoticed ==
  (pc \notin {"unstarted", "failed"} /\ path # NoFile /\ Len(disk[path]) < offset) ~>
     (path = NoFile \/ Len(disk[path]) >= offset \/ stopCh)

\* Stop comes back as long as the consumer goes on receiving.
StopReturns == (stopCh /\ pc \notin {"unstarted", "failed"}) ~> (pc = "done")

\* tailFile, its channel and stopCh as a LineSource.
Phase == CASE pc \in {"unstarted", "failed"} -> "unstarted"
           [] pc = "loop" -> "running"
           [] pc \in {"read", "reopen"} -> "reading"
           [] pc = "send" -> "sending"
           [] OTHER -> "done"

\* What a line can be: two cells, and one more for every truncation that
\* happens while a line is half read.
Texts == UNION {[1..n -> Cells] : n \in 1..(2 + MaxTruncates)}

Source == INSTANCE LineSource
          WITH Items <- Texts, kind <- "file",
               reader <- Phase, rstopCh <- stopCh, closed <- FALSE

\* The file reader implements LineSource: each item once, in order through a
\* bounded channel, and stopCh looked at only between two items.
ImplementsSource == Source!Spec
=============================================================================
