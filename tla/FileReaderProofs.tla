-------------------------- MODULE FileReaderProofs --------------------------
(***************************************************************************)
(* The safety properties of the file reader, and that it implements        *)
(* LineSource, for any number of lines, files, rotations and truncations,  *)
(* any buffer and any capacity of the channel.                             *)
(***************************************************************************)
EXTENDS FileReader, TLAPS

Types ==
  /\ disk \in [Inodes -> Seq(Cells)]
  /\ path \in {NoFile, created} /\ wfd \in Inodes /\ created \in Inodes /\ wfd <= created
  /\ wrote \in 0..MaxLines /\ truncs \in 0..MaxTruncates
  /\ fd \in 0..created /\ pos \in Nat /\ offset \in Nat
  /\ buf \in Seq(Cells) /\ obtained \in Seq(Seq(Cells))
  /\ pc \in {"unstarted", "failed", "loop", "read", "reopen", "send", "done"}
  /\ pc \in {"unstarted", "failed"} => obtained = <<>>
  /\ pc # "send" => held = <<>>

\* A cell of a line that is not blank.
Named(c) == c[1] # 0

\* The files the writer has not come to are empty.  In the others a body is
\* followed by its newline, unless it is the line being written.
Log ==
  /\ \A i \in Inodes : i > wfd => disk[i] = <<>>
  /\ \A i \in Inodes : \A p \in 1..Len(disk[i]) :
        /\ disk[i][p][1] <= wrote
        /\ ~IsNL(disk[i][p]) =>
              /\ Named(disk[i][p])
              /\ IF p = Len(disk[i]) THEN i = wfd /\ disk[i][p][1] = wrote
                                     ELSE disk[i][p + 1] = <<disk[i][p][1], "nl">>
        /\ IsNL(disk[i][p]) /\ Named(disk[i][p]) =>
              p > 1 /\ disk[i][p - 1] = <<disk[i][p][1], "body">>

\* No cell of a line is in two places.
Distinct ==
  \A i, j \in Inodes : \A p \in 1..Len(disk[i]), q \in 1..Len(disk[j]) :
     disk[i][p] = disk[j][q] /\ Named(disk[i][p]) => i = j /\ p = q

\* The line s has cell c; one of the lines t has it.
Has(s, c) == Named(c) /\ \E m \in 1..Len(s) : s[m] = c
Got(t, c) == \E k \in 1..Len(t) : Has(t[k], c)

\* What was read has been written; its newline is read after it was written.
Written ==
  \A c \in Cells : Got(obtained, c) \/ Has(buf, c) =>
     /\ c[1] <= wrote
     /\ IsNL(c) => \A i \in Inodes : \A p \in 1..Len(disk[i]) :
                      disk[i][p] = <<c[1], "body">> => p < Len(disk[i])

Open == pc \in {"loop", "read", "send"} /\ fd # NoFile

\* What was returned and is still in a file that can be read lies before the
\* offset, and that file is not smaller than the offset.
Behind ==
  \A i \in Inodes : \A p \in 1..Len(disk[i]) : Got(obtained, disk[i][p]) =>
     /\ fd # NoFile => i <= fd
     /\ i \in {fd, path} => p <= offset /\ offset <= Len(disk[i])
     /\ i = fd /\ Open => pos <= Len(disk[i])

\* What is buffered is what follows the offset, unless the file was truncated.
Buffer ==
  /\ pc # "done" /\ ~Open => buf = <<>>
  /\ OffsetTracksReads
  /\ pc # "done" =>
        \A m \in 1..Len(buf) : Named(buf[m]) =>
           \A i \in Inodes : \A p \in 1..Len(disk[i]) :
              disk[i][p] = buf[m] => i = fd /\ p = offset + m /\ pos <= Len(disk[i])
  /\ \A m, n \in 1..Len(buf) : buf[m] = buf[n] /\ Named(buf[m]) => m = n
  /\ \A m \in 1..Len(buf) : ~Got(obtained, buf[m]) /\ (Named(buf[m]) \/ IsNL(buf[m]))

\* While the one file only grows, the offset comes to lie between two lines
\* with the first line that is returned.
Growing ==
  created = 1 /\ truncs = 0 =>
     /\ offset <= Len(disk[1])
     /\ obtained # <<>> => offset > 0 /\ IsNL(disk[1][offset])
     /\ Open => pos <= Len(disk[1]) /\ \A m \in 1..Len(buf) : buf[m] = disk[1][offset + m]

\* The last cell that was read is still where it was read.
Current == pos <= Len(disk[fd]) /\ disk[fd][pos] = buf[Len(buf)]

\* The buffer holds one body without its newline for every truncation, and one
\* more that is still in the file; after its first newline it holds none but
\* the last.
Runs ==
  Open /\ buf # <<>> =>
     /\ ~HasNL(buf) => Len(buf) <= IF Current THEN truncs + 1 ELSE truncs
     /\ Current \/ truncs > 0
     /\ \A n \in 1..Len(buf) : FirstNL(buf, n) =>
           /\ n <= truncs + 2
           /\ \A m \in (n + 1)..(Len(buf) - 1) : IsNL(buf[m]) \/ IsNL(buf[m + 1])

\* The inductive invariant.
IInv ==
  /\ Types
  /\ Log
  /\ Distinct
  /\ Written
  /\ Behind
  /\ Buffer
  /\ NothingReturnedTwice
  /\ Growing
  /\ OnlyFirstLineTorn
  /\ Runs

-----------------------------------------------------------------------------
\* The open file has been read from.
LEMMA OpenFile ==
  ASSUME IInv, Open
  PROVE  /\ fd \in Inodes /\ pos = offset + Len(buf)
         /\ buf # <<>> => pos \in Nat \ {0}
<1>1. fd \in 0..created /\ created \in 1..MaxInodes /\ fd # 0
  BY Zenon DEF IInv, Types, Open, Inodes, NoFile
<1>2. fd \in Inodes
  BY <1>1, FileReaderAssumption DEF Inodes
<1>3. pos = offset + Len(buf) /\ offset \in Nat /\ buf \in Seq(Cells)
  BY Zenon DEF IInv, Types, Buffer, OffsetTracksReads, Open
<1>4. buf # <<>> => Len(buf) \in Nat \ {0}
  BY <1>3
<1> QED
  BY <1>2, <1>3, <1>4

\* The buffer is as it was, and no fewer truncations have happened.
LEMMA RunsKept ==
  ASSUME Types, Runs, UNCHANGED <<pc, fd, buf>>, truncs' \in Nat, truncs <= truncs',
         Open /\ buf # <<>> /\ Current => Current' \/ truncs < truncs'
  PROVE  Runs'
<1> SUFFICES ASSUME Open, buf # <<>>
             PROVE  /\ ~HasNL(buf) => Len(buf) <= IF Current' THEN truncs' + 1 ELSE truncs'
                    /\ Current' \/ truncs' > 0
                    /\ \A n \in 1..Len(buf) : FirstNL(buf, n) =>
                          /\ n <= truncs' + 2
                          /\ \A m \in (n + 1)..(Len(buf) - 1) : IsNL(buf[m]) \/ IsNL(buf[m + 1])
  BY Zenon DEF Runs, Open
<1>1. truncs \in Nat /\ Len(buf) \in Nat
  BY DEF Types
<1>2. /\ ~HasNL(buf) => Len(buf) <= IF Current THEN truncs + 1 ELSE truncs
      /\ Current \/ truncs > 0
  BY Zenon DEF Runs
<1>3. ASSUME NEW n \in 1..Len(buf), FirstNL(buf, n)
      PROVE  /\ n <= truncs + 2
             /\ \A m \in (n + 1)..(Len(buf) - 1) : IsNL(buf[m]) \/ IsNL(buf[m + 1])
  BY <1>3, Zenon DEF Runs
<1> DEFINE t == truncs
           u == truncs'
           k == Len(buf)
<1>4. t \in Nat /\ u \in Nat /\ k \in Nat /\ t <= u
  BY <1>1, Zenon
<1> HIDE DEF t, u, k
<1>5. \A n \in 1..k : n <= t + 2 => n <= u + 2
  BY ONLY <1>4
<1>6. \A n \in 1..Len(buf) : FirstNL(buf, n) =>
         /\ n <= truncs' + 2
         /\ \A m \in (n + 1)..(Len(buf) - 1) : IsNL(buf[m]) \/ IsNL(buf[m + 1])
  BY <1>3, <1>5, Zenon DEF t, u, k
<1>7. k <= t => k <= u
  BY ONLY <1>4
<1>8. /\ t > 0 => u > 0
      /\ t < u => u > 0
      /\ k <= t => k <= u + 1
      /\ k <= t + 1 => k <= u + 1
      /\ k <= t + 1 /\ t < u => k <= u
  BY ONLY <1>4
<1>9. CASE Current'
  <2>1. ~HasNL(buf) => Len(buf) <= truncs' + 1
    BY <1>2, <1>8, Zenon DEF t, u, k
  <2> QED
    BY <1>6, <1>9, <2>1, Zenon
<1>10. CASE ~Current'
  <2>1. ~HasNL(buf) => Len(buf) <= truncs'
    BY <1>2, <1>7, <1>8, <1>10, Zenon DEF t, u, k
  <2>2. truncs' > 0
    BY <1>2, <1>8, <1>10, Zenon DEF t, u
  <2> QED
    BY <1>6, <1>10, <2>1, <2>2, Zenon
<1> QED
  BY <1>9, <1>10, Zenon

-----------------------------------------------------------------------------
\* The writer.

\* What is in a file when the writer has appended cell c.
LEMMA WriteEffect ==
  ASSUME Types, NEW c \in Cells, Write(c)
  PROVE  /\ disk' \in [Inodes -> Seq(Cells)]
         /\ \A i \in Inodes : i # wfd => disk'[i] = disk[i]
         /\ Len(disk'[wfd]) = Len(disk[wfd]) + 1
         /\ \A p \in 1..Len(disk[wfd]) : disk'[wfd][p] = disk[wfd][p]
         /\ disk'[wfd][Len(disk[wfd]) + 1] = c
         /\ UNCHANGED <<path, wfd, created, truncs>>
<1>1. disk \in [Inodes -> Seq(Cells)] /\ wfd \in Inodes
  BY Zenon DEF Types
<1>2. disk[wfd] \in Seq(Cells) /\ disk' = [disk EXCEPT ![wfd] = Append(disk[wfd], c)]
  BY <1>1, Zenon DEF Write
<1>3. Append(disk[wfd], c) \in Seq(Cells)
  BY <1>2
<1>4. disk' \in [Inodes -> Seq(Cells)] /\ disk'[wfd] = Append(disk[wfd], c)
  BY <1>1, <1>2, <1>3, Zenon
<1>5. \A i \in Inodes : i # wfd => disk'[i] = disk[i]
  BY <1>1, <1>2, Zenon
<1> QED
  BY <1>2, <1>4, <1>5 DEF Write

\* So every file has what it had, and the new cell at the end of one.
LEMMA Grown ==
  ASSUME Types, NEW c \in Cells, Write(c)
  PROVE  /\ \A i \in Inodes : /\ Len(disk[i]) \in Nat /\ Len(disk'[i]) \in Nat
                               /\ Len(disk[i]) <= Len(disk'[i])
                               /\ \A p \in 1..Len(disk[i]) : /\ p \in 1..Len(disk'[i])
                                                              /\ disk'[i][p] = disk[i][p]
         /\ \A i \in Inodes : \A p \in 1..Len(disk'[i]) :
               \/ p \in 1..Len(disk[i]) /\ disk'[i][p] = disk[i][p]
               \/ i = wfd /\ p = Len(disk[wfd]) + 1 /\ p = Len(disk'[wfd]) /\ disk'[i][p] = c
<1>1. \A i \in Inodes : Len(disk[i]) \in Nat /\ Len(disk'[i]) \in Nat
  BY WriteEffect, SMTT(30) DEF Types
<1>2. ASSUME NEW i \in Inodes, NEW p \in 1..Len(disk[i])
      PROVE  p \in 1..Len(disk'[i]) /\ disk'[i][p] = disk[i][p]
  <2>1. CASE i = wfd
    BY <1>1, <1>2, <2>1, WriteEffect
  <2>2. CASE i # wfd
    BY <1>1, <1>2, <2>2, WriteEffect, Zenon
  <2> QED
    BY <2>1, <2>2, Zenon
<1>3. ASSUME NEW i \in Inodes, NEW p \in 1..Len(disk'[i])
      PROVE  \/ p \in 1..Len(disk[i]) /\ disk'[i][p] = disk[i][p]
             \/ i = wfd /\ p = Len(disk[wfd]) + 1 /\ p = Len(disk'[wfd]) /\ disk'[i][p] = c
  <2>1. CASE i = wfd
    BY <1>1, <1>3, <2>1, WriteEffect
  <2>2. CASE i # wfd
    BY <1>1, <1>3, <2>2, WriteEffect, Zenon
  <2> QED
    BY <2>1, <2>2, Zenon
<1>4. \A i \in Inodes : Len(disk[i]) <= Len(disk'[i])
  BY <1>1, WriteEffect
<1> QED
  BY <1>1, <1>2, <1>3, <1>4, Zenon

\* A cell that is new to the files and to the reader keeps what relates them.
LEMMA WriteKeeps ==
  ASSUME IInv, NEW c \in Cells, Write(c), UNCHANGED rdr,
         Named(c) => /\ ~Got(obtained, c) /\ ~Has(buf, c)
                     /\ \A i \in Inodes : \A p \in 1..Len(disk[i]) : disk[i][p] # c
  PROVE  Distinct' /\ Behind' /\ Buffer' /\ Growing' /\ Runs'
<1> USE DEF NoFile
<1>1. Types /\ UNCHANGED <<path, wfd, created, truncs>>
  BY WriteEffect, Zenon DEF IInv
<1>2. UNCHANGED <<pc, fd, pos, buf, offset, obtained>>
  BY Zenon DEF rdr
<1>3. Distinct'
  <2> SUFFICES ASSUME NEW i \in Inodes, NEW j \in Inodes,
                      NEW p \in 1..Len(disk'[i]), NEW q \in 1..Len(disk'[j]),
                      disk'[i][p] = disk'[j][q], Named(disk'[i][p])
               PROVE  i = j /\ p = q
    BY ZenonT(40) DEF Distinct
  <2>1. CASE p \in 1..Len(disk[i]) /\ q \in 1..Len(disk[j])
    BY <1>1, <2>1, Grown DEF IInv, Distinct
  <2>2. CASE ~(p \in 1..Len(disk[i])) /\ ~(q \in 1..Len(disk[j]))
    BY <1>1, <2>2, Grown, SMTT(30)
  <2>3. CASE ~(p \in 1..Len(disk[i])) /\ q \in 1..Len(disk[j])
    <3>1. disk'[i][p] = c /\ disk'[j][q] = disk[j][q]
      BY <1>1, <2>3, Grown
    <3> QED
      BY <2>3, <3>1, Zenon
  <2>4. CASE p \in 1..Len(disk[i]) /\ ~(q \in 1..Len(disk[j]))
    <3>1. disk'[i][p] = disk[i][p] /\ disk'[j][q] = c
      BY <1>1, <2>4, Grown
    <3> QED
      BY <2>4, <3>1, Zenon
  <2> QED
    BY <2>1, <2>2, <2>3, <2>4, Zenon
<1>4. Behind'
  <2> SUFFICES ASSUME NEW i \in Inodes, NEW p \in 1..Len(disk'[i]), Got(obtained, disk'[i][p])
               PROVE  /\ fd # NoFile => i <= fd
                      /\ i \in {fd, path} => p <= offset /\ offset <= Len(disk'[i])
                      /\ i = fd /\ Open => pos <= Len(disk'[i])
    BY <1>1, <1>2, Zenon DEF Behind, Open
  <2>1. Named(disk'[i][p])
    BY Zenon DEF Got, Has
  <2>2. p \in 1..Len(disk[i]) /\ disk'[i][p] = disk[i][p]
    BY <1>1, <2>1, Grown
  <2>3. /\ Len(disk[i]) \in Nat /\ Len(disk'[i]) \in Nat /\ Len(disk[i]) <= Len(disk'[i])
        /\ offset \in Nat /\ pos \in Nat
    BY <1>1, Grown, Zenon DEF Types
  <2>4. /\ fd # NoFile => i <= fd
        /\ i \in {fd, path} => p <= offset /\ offset <= Len(disk[i])
        /\ i = fd /\ Open => pos <= Len(disk[i])
    BY <2>2, Zenon DEF IInv, Behind
  <2> QED
    BY <2>3, <2>4
<1>5. Buffer'
  <2>1. ASSUME pc # "done", NEW m \in 1..Len(buf), Named(buf[m]),
               NEW i \in Inodes, NEW p \in 1..Len(disk'[i]), disk'[i][p] = buf[m]
        PROVE  i = fd /\ p = offset + m /\ pos <= Len(disk'[i])
    <3>1. Has(buf, disk'[i][p])
      BY <2>1, Zenon DEF Has
    <3>2. p \in 1..Len(disk[i]) /\ disk'[i][p] = disk[i][p]
      BY <1>1, <2>1, <3>1, Grown
    <3>3. i = fd /\ p = offset + m /\ pos <= Len(disk[i])
      BY <2>1, <3>2, Zenon DEF IInv, Buffer
    <3>4. Len(disk[i]) \in Nat /\ Len(disk'[i]) \in Nat /\ Len(disk[i]) <= Len(disk'[i])
      BY <1>1, Grown, Zenon
    <3> QED
      BY <1>1, <3>3, <3>4 DEF Types
  <2>2. Buffer
    BY Zenon DEF IInv
  <2> QED
    BY <1>2, <2>1, <2>2 DEF Buffer, Open, OffsetTracksReads
<1>6. Growing'
  <2> SUFFICES ASSUME created = 1, truncs = 0
               PROVE  /\ offset <= Len(disk'[1])
                      /\ obtained # <<>> => offset > 0 /\ IsNL(disk'[1][offset])
                      /\ Open => /\ pos <= Len(disk'[1])
                                 /\ \A m \in 1..Len(buf) : buf[m] = disk'[1][offset + m]
    BY <1>1, <1>2, Zenon DEF Growing, Open
  <2>1. /\ offset <= Len(disk[1])
        /\ obtained # <<>> => offset > 0 /\ IsNL(disk[1][offset])
        /\ Open => /\ pos <= Len(disk[1]) /\ pos = offset + Len(buf)
                   /\ \A m \in 1..Len(buf) : buf[m] = disk[1][offset + m]
    BY Zenon DEF IInv, Growing, Buffer, OffsetTracksReads, Open
  <2>2. 1 \in Inodes /\ offset \in Nat /\ pos \in Nat /\ Len(buf) \in Nat
    BY <1>1 DEF Types
  <2>3. /\ Len(disk[1]) \in Nat /\ Len(disk'[1]) \in Nat /\ Len(disk[1]) <= Len(disk'[1])
        /\ \A p \in 1..Len(disk[1]) : disk'[1][p] = disk[1][p]
    BY <1>1, <2>2, Grown, Zenon
  <2>4. offset <= Len(disk'[1])
    BY <2>1, <2>2, <2>3
  <2>5. ASSUME obtained # <<>> PROVE offset > 0 /\ IsNL(disk'[1][offset])
    <3>1. offset \in 1..Len(disk[1])
      BY <2>1, <2>2, <2>3, <2>5
    <3> QED
      BY <2>1, <2>3, <2>5, <3>1, Zenon
  <2>6. ASSUME Open
        PROVE  pos <= Len(disk'[1]) /\ \A m \in 1..Len(buf) : buf[m] = disk'[1][offset + m]
    <3>1. pos <= Len(disk'[1])
      BY <2>1, <2>2, <2>3, <2>6
    <3>2. ASSUME NEW m \in 1..Len(buf) PROVE buf[m] = disk'[1][offset + m]
      <4>1. offset + m \in 1..Len(disk[1])
        BY <2>1, <2>2, <2>3, <2>6
      <4> QED
        BY <2>1, <2>3, <2>6, <4>1, Zenon
    <3> QED
      BY <3>1, <3>2, Zenon
  <2> QED
    BY <2>4, <2>5, <2>6, Zenon
<1>7. Runs'
  <2>1. ASSUME Open, buf # <<>>, Current PROVE Current'
    <3>1. fd \in Inodes /\ pos \in Nat \ {0}
      BY <2>1, OpenFile, Zenon
    <3> QED
      BY <1>1, <1>2, <2>1, <3>1, Grown DEF Current
  <2>2. Types /\ Runs
    BY Zenon DEF IInv
  <2>3. truncs' \in Nat /\ truncs <= truncs'
    BY <1>1 DEF Types
  <2> QED
    BY <1>2, <2>1, <2>2, <2>3, RunsKept, Zenon
<1> QED
  BY <1>3, <1>4, <1>5, <1>6, <1>7, Zenon

\* A cell is its two fields.
LEMMA CellFields ==
  ASSUME NEW c \in Cells
  PROVE  c[1] \in 0..MaxLines /\ c[2] \in {"body", "nl"} /\ c = <<c[1], c[2]>>
BY DEF Cells

\* What was read stays written.
LEMMA WriteWritten ==
  ASSUME IInv, NEW c \in Cells, Write(c), UNCHANGED rdr, wrote' \in Nat, wrote <= wrote',
         IsNL(c) \/ c[1] > wrote
  PROVE  Written'
<1>1. Types /\ Written /\ UNCHANGED <<buf, obtained>> /\ wrote \in Nat
  BY DEF IInv, Types, rdr
<1> SUFFICES ASSUME NEW d \in Cells, Got(obtained, d) \/ Has(buf, d)
             PROVE  /\ d[1] <= wrote'
                    /\ IsNL(d) => \A i \in Inodes : \A p \in 1..Len(disk'[i]) :
                                     disk'[i][p] = <<d[1], "body">> => p < Len(disk'[i])
  BY <1>1, Zenon DEF Written
<1>2. d[1] \in Nat /\ d[1] <= wrote
  BY <1>1, CellFields DEF Written
<1>3. d[1] <= wrote'
  BY <1>1, <1>2
<1>4. ASSUME IsNL(d), NEW i \in Inodes, NEW p \in 1..Len(disk'[i]),
             disk'[i][p] = <<d[1], "body">>
      PROVE  p < Len(disk'[i])
  <2>1. CASE p \in 1..Len(disk[i]) /\ disk'[i][p] = disk[i][p]
    <3>1. p < Len(disk[i])
      BY <1>1, <1>4, <2>1, Zenon DEF Written
    <3> QED
      BY <1>1, <3>1, Grown
  <2>2. CASE disk'[i][p] = c
    BY <1>2, <1>1, <1>4, <2>2 DEF IsNL
  <2> QED
    BY <1>1, <2>1, <2>2, Grown
<1> QED
  BY <1>3, <1>4, Zenon

\* At a boundary no file ends in a body.
LEMMA NoOpenLine ==
  ASSUME IInv, AtBoundary(disk[wfd]), NEW i \in Inodes, NEW p \in 1..Len(disk[i]),
         ~IsNL(disk[i][p])
  PROVE  /\ p < Len(disk[i]) /\ disk[i][p + 1] = <<disk[i][p][1], "nl">>
<1>1. Len(disk[i]) \in Nat /\ disk[i] # <<>>
  BY DEF IInv, Types
<1> QED
  BY <1>1 DEF IInv, Log, AtBoundary

\* A new line, or a blank one, keeps the order of the log.
LEMMA WriteAtBoundary ==
  ASSUME IInv, AtBoundary(disk[wfd]), NEW c \in Cells, Write(c),
         wrote' \in Nat, wrote <= wrote', c[1] <= wrote',
         IF IsNL(c) THEN ~Named(c) ELSE Named(c) /\ c[1] = wrote'
  PROVE  Log'
<1>1. Types /\ Log /\ UNCHANGED wfd /\ wfd \in Inodes /\ wrote \in Nat
  BY WriteEffect DEF IInv, Types
<1>2. \A i \in Inodes : i > wfd' => disk'[i] = <<>>
  BY <1>1, WriteEffect, SMTT(30) DEF Log, Inodes
<1>3. ASSUME NEW i \in Inodes, NEW p \in 1..Len(disk'[i])
      PROVE  /\ disk'[i][p][1] <= wrote'
             /\ ~IsNL(disk'[i][p]) =>
                   /\ Named(disk'[i][p])
                   /\ IF p = Len(disk'[i]) THEN i = wfd /\ disk'[i][p][1] = wrote'
                                           ELSE disk'[i][p + 1] = <<disk'[i][p][1], "nl">>
             /\ IsNL(disk'[i][p]) /\ Named(disk'[i][p]) =>
                   p > 1 /\ disk'[i][p - 1] = <<disk'[i][p][1], "body">>
  <2>1. CASE p \in 1..Len(disk[i]) /\ disk'[i][p] = disk[i][p]
    <3>1. /\ disk[i][p] \in Cells /\ disk[i][p][1] \in Nat /\ disk[i][p][1] <= wrote
          /\ Len(disk[i]) \in Nat /\ Len(disk'[i]) \in Nat
      <4>1. disk[i] \in Seq(Cells)
        BY <1>1, Zenon DEF Types
      <4>2. disk[i][p] \in Cells
        BY <2>1, <4>1
      <4> QED
        BY <1>1, <2>1, <4>1, <4>2, CellFields, Grown DEF Log
    <3>2. disk'[i][p][1] <= wrote'
      BY <1>1, <2>1, <3>1
    <3>3. ASSUME ~IsNL(disk[i][p])
          PROVE  /\ Named(disk[i][p]) /\ p < Len(disk'[i])
                 /\ disk'[i][p + 1] = <<disk[i][p][1], "nl">>
      <4>1. p < Len(disk[i]) /\ disk[i][p + 1] = <<disk[i][p][1], "nl">>
        BY <2>1, <3>3, NoOpenLine, Zenon
      <4>2. p + 1 \in 1..Len(disk[i])
        BY <2>1, <3>1, <4>1
      <4>3. Len(disk[i]) <= Len(disk'[i]) /\ disk'[i][p + 1] = disk[i][p + 1]
        BY <1>1, <4>2, Grown, Zenon
      <4> QED
        BY <1>1, <2>1, <3>1, <3>3, <4>1, <4>3 DEF Log
    <3>4. ASSUME IsNL(disk[i][p]), Named(disk[i][p])
          PROVE  p > 1 /\ disk'[i][p - 1] = <<disk[i][p][1], "body">>
      <4>1. p > 1 /\ disk[i][p - 1] = <<disk[i][p][1], "body">>
        BY <1>1, <2>1, <3>4, Zenon DEF Log
      <4>2. p - 1 \in 1..Len(disk[i])
        BY <2>1, <3>1, <4>1
      <4> QED
        BY <1>1, <4>1, <4>2, Grown, Zenon
    <3> QED
      BY <2>1, <3>1, <3>2, <3>3, <3>4
  <2>2. CASE i = wfd /\ p = Len(disk'[wfd]) /\ disk'[i][p] = c
    BY <2>2, Zenon
  <2> QED
    BY <1>1, <2>1, <2>2, Grown
<1> QED
  BY <1>1, <1>2, <1>3, ZenonT(40) DEF Log

\* Away from a boundary the file the writer has open ends in the body of the
\* line being written, whose newline is in no file and has not been read.
LEMMA OpenLine ==
  ASSUME IInv, ~AtBoundary(disk[wfd])
  PROVE  /\ Len(disk[wfd]) \in Nat \ {0} /\ disk[wfd][Len(disk[wfd])] = <<wrote, "body">>
         /\ wrote # 0 /\ <<wrote, "nl">> \in Cells
         /\ ~Got(obtained, <<wrote, "nl">>) /\ ~Has(buf, <<wrote, "nl">>)
         /\ \A i \in Inodes : \A p \in 1..Len(disk[i]) : disk[i][p] # <<wrote, "nl">>
<1> DEFINE n == Len(disk[wfd])
           d == <<wrote, "nl">>
<1>1. wfd \in Inodes /\ disk[wfd] \in Seq(Cells) /\ wrote \in 0..MaxLines
  BY Zenon DEF IInv, Types
<1>2. n \in Nat \ {0} /\ disk[wfd][n] \in Cells /\ ~IsNL(disk[wfd][n])
  BY <1>1 DEF AtBoundary
<1>3. Named(disk[wfd][n]) /\ disk[wfd][n][1] = wrote
  BY <1>1, <1>2 DEF IInv, Log
<1>4. disk[wfd][n] = <<wrote, "body">> /\ wrote # 0
  BY <1>2, <1>3, CellFields, Zenon DEF IsNL, Named
<1>5. d \in Cells /\ IsNL(d) /\ Named(d) /\ d[1] = wrote
  BY <1>1, <1>4, Zenon DEF Cells, IsNL, Named
<1>6. n \in 1..Len(disk[wfd]) /\ ~(n < Len(disk[wfd]))
  BY <1>2
<1>7. ~Got(obtained, d) /\ ~Has(buf, d)
  BY <1>1, <1>4, <1>5, <1>6, Zenon DEF IInv, Written
<1>8. ASSUME NEW i \in Inodes, NEW p \in 1..Len(disk[i]), disk[i][p] = d
      PROVE  FALSE
  <2>1. p > 1 /\ disk[i][p - 1] = <<wrote, "body">>
    <3>1. IsNL(disk[i][p]) /\ Named(disk[i][p]) /\ disk[i][p][1] = wrote
      BY ONLY <1>5, <1>8, Zenon
    <3>2. p > 1 /\ disk[i][p - 1] = <<disk[i][p][1], "body">>
      BY <3>1, Zenon DEF IInv, Log
    <3> QED
      BY <3>1, <3>2, Zenon
  <2>2. Len(disk[i]) \in Nat
    BY DEF IInv, Types
  <2>3. p - 1 \in 1..Len(disk[i]) /\ p - 1 < Len(disk[i])
    BY <2>1, <2>2
  <2>4. i = wfd /\ p - 1 = n
    <3>1. disk[i][p - 1] = disk[wfd][n] /\ Named(disk[i][p - 1])
      BY ONLY <1>3, <1>4, <2>1, Zenon
    <3>2. Distinct
      BY Zenon DEF IInv
    <3> HIDE DEF n
    <3> QED
      BY ONLY <1>1, <1>6, <2>3, <3>1, <3>2, i \in Inodes, Zenon DEF Distinct
  <2> QED
    BY <1>6, <2>3, <2>4, Zenon
<1> QED
  BY <1>2, <1>4, <1>5, <1>7, <1>8, Zenon

\* The newline keeps the order of the log.
LEMMA NewlineLog ==
  ASSUME IInv, ~AtBoundary(disk[wfd]), Write(<<wrote, "nl">>), UNCHANGED wrote
  PROVE  Log'
<1> DEFINE c == <<wrote, "nl">>
           n == Len(disk[wfd])
<1>1. Types /\ Log /\ UNCHANGED wfd /\ wfd \in Inodes /\ wrote \in Nat /\ c \in Cells
  BY OpenLine, WriteEffect DEF IInv, Types
<1>2. \A i \in Inodes : i > wfd' => disk'[i] = <<>>
  BY <1>1, WriteEffect, SMTT(30) DEF Log, Inodes
<1>3. n \in Nat \ {0} /\ disk[wfd][n] = <<wrote, "body">>
  BY OpenLine, Zenon
<1>4. Len(disk'[wfd]) = n + 1 /\ disk'[wfd][n] = <<wrote, "body">> /\ disk'[wfd][n + 1] = c
  BY <1>1, <1>3, WriteEffect, SMTT(30)
<1>5. c[1] = wrote /\ IsNL(c)
  BY ZenonT(40) DEF IsNL
<1>6. ASSUME NEW i \in Inodes, NEW p \in 1..Len(disk'[i])
      PROVE  /\ disk'[i][p][1] <= wrote
             /\ ~IsNL(disk'[i][p]) =>
                   /\ Named(disk'[i][p])
                   /\ IF p = Len(disk'[i]) THEN i = wfd /\ disk'[i][p][1] = wrote
                                           ELSE disk'[i][p + 1] = <<disk'[i][p][1], "nl">>
             /\ IsNL(disk'[i][p]) /\ Named(disk'[i][p]) =>
                   p > 1 /\ disk'[i][p - 1] = <<disk'[i][p][1], "body">>
  <2>0. Len(disk[i]) \in Nat /\ Len(disk'[i]) \in Nat
    BY <1>1, Grown, Zenon
  <2>1. CASE p \in 1..Len(disk[i]) /\ disk'[i][p] = disk[i][p]
    <3>1. disk[i][p][1] <= wrote
      BY <1>1, <2>1, Zenon DEF Log
    <3>2. ASSUME ~IsNL(disk[i][p])
          PROVE  /\ Named(disk[i][p]) /\ p < Len(disk'[i])
                 /\ disk'[i][p + 1] = <<disk[i][p][1], "nl">>
      <4>1. Named(disk[i][p])
        BY <1>1, <2>1, <3>2, Zenon DEF Log
      <4>2. CASE p = Len(disk[i])
        <5>1. i = wfd /\ disk[i][p][1] = wrote
          BY <1>1, <2>1, <3>2, <4>2, Zenon DEF Log
        <5> QED
          BY <1>3, <1>4, <4>1, <4>2, <5>1
      <4>3. CASE p # Len(disk[i])
        <5>1. disk[i][p + 1] = <<disk[i][p][1], "nl">>
          BY <1>1, <2>1, <3>2, <4>3, Zenon DEF Log
        <5>2. p + 1 \in 1..Len(disk[i])
          BY <2>0, <2>1, <4>3
        <5>3. Len(disk[i]) <= Len(disk'[i]) /\ disk'[i][p + 1] = disk[i][p + 1]
          BY <1>1, <5>2, Grown, Zenon
        <5> QED
          BY <2>0, <2>1, <4>1, <4>3, <5>1, <5>2, <5>3
      <4> QED
        BY <4>2, <4>3, Zenon
    <3>3. ASSUME IsNL(disk[i][p]), Named(disk[i][p])
          PROVE  p > 1 /\ disk'[i][p - 1] = <<disk[i][p][1], "body">>
      <4>1. p > 1 /\ disk[i][p - 1] = <<disk[i][p][1], "body">>
        BY <1>1, <2>1, <3>3, Zenon DEF Log
      <4>2. p - 1 \in 1..Len(disk[i])
        BY <2>0, <2>1, <4>1, SMTT(30)
      <4> QED
        BY <1>1, <4>1, <4>2, Grown, Zenon
    <3> QED
      BY <2>0, <2>1, <3>1, <3>2, <3>3
  <2>2. CASE i = wfd /\ p = n + 1 /\ disk'[i][p] = c
    <3>1. p > 1 /\ p - 1 = n
      BY <1>3, <2>2
    <3> QED
      BY <1>1, <1>4, <1>5, <2>2, <3>1, SMTT(30)
  <2> QED
    BY <1>1, <2>1, <2>2, Grown, SMTT(30)
<1> QED
  BY <1>1, <1>2, <1>6, ZenonT(40) DEF Log

\* What the reader has returned stays as it is.
LEMMA ReturnedKept ==
  ASSUME IInv, UNCHANGED obtained, created' = 1 /\ truncs' = 0 => created = 1 /\ truncs = 0
  PROVE  NothingReturnedTwice' /\ OnlyFirstLineTorn'
<1>1. NothingReturnedTwice'
  BY SMTT(30) DEF IInv, NothingReturnedTwice
<1>2. OnlyFirstLineTorn'
  BY Zenon DEF IInv, OnlyFirstLineTorn, WholeLine
<1> QED
  BY <1>1, <1>2, Zenon

\* The three things the writer does.
LEMMA WriterStep ==
  ASSUME IInv, WriteBody \/ WriteNewline \/ WriteBlank
  PROVE  IInv'
<1> USE FileReaderAssumption
<1>1. Types /\ wrote \in 0..MaxLines
  BY Zenon DEF IInv, Types
<1>2. ASSUME NEW c \in Cells, Write(c), UNCHANGED rdr, wrote' \in 0..MaxLines
      PROVE  Types' /\ NothingReturnedTwice' /\ OnlyFirstLineTorn'
  <2>1. disk' \in [Inodes -> Seq(Cells)] /\ UNCHANGED <<path, wfd, created, truncs>>
    BY <1>1, <1>2, WriteEffect, Zenon
  <2>2. Types'
    BY <1>1, <1>2, <2>1, Zenon DEF Types, rdr
  <2>3. UNCHANGED obtained
    BY <1>2, Zenon DEF rdr
  <2> QED
    BY <2>1, <2>2, <2>3, ReturnedKept, Zenon
<1>3. CASE WriteBody
  <2> DEFINE c == <<wrote + 1, "body">>
  <2>1. /\ AtBoundary(disk[wfd]) /\ wrote' = wrote + 1 /\ Write(c) /\ UNCHANGED rdr
        /\ wrote' \in 0..MaxLines /\ wrote \in Nat /\ wrote' \in Nat /\ wrote <= wrote'
    BY <1>1, <1>3 DEF WriteBody
  <2>2. c \in Cells /\ ~IsNL(c) /\ Named(c) /\ c[1] = wrote' /\ c[1] > wrote /\ c[1] <= wrote'
    BY <1>1, <2>1 DEF Cells, IsNL, Named
  <2> HIDE DEF c
  <2>3. Log' /\ Written'
    BY <2>1, <2>2, WriteAtBoundary, WriteWritten, Zenon
  <2>4. ~Got(obtained, c) /\ ~Has(buf, c)
    BY <2>1, <2>2 DEF IInv, Written
  <2>5. \A i \in Inodes : \A p \in 1..Len(disk[i]) : disk[i][p] # c
    BY <2>1, <2>2 DEF IInv, Log
  <2>6. Distinct' /\ Behind' /\ Buffer' /\ Growing' /\ Runs'
    BY <2>1, <2>2, <2>4, <2>5, WriteKeeps, Zenon
  <2> QED
    BY <1>2, <2>1, <2>2, <2>3, <2>6, Zenon DEF IInv
<1>4. CASE WriteNewline
  <2> DEFINE c == <<wrote, "nl">>
  <2>1. /\ ~AtBoundary(disk[wfd]) /\ UNCHANGED wrote /\ Write(c) /\ UNCHANGED rdr
        /\ wrote' \in 0..MaxLines /\ wrote' \in Nat /\ wrote <= wrote'
    BY <1>1, <1>4 DEF WriteNewline
  <2>2. /\ c \in Cells /\ ~Got(obtained, c) /\ ~Has(buf, c)
        /\ \A i \in Inodes : \A p \in 1..Len(disk[i]) : disk[i][p] # c
    BY <2>1, OpenLine, Zenon
  <2>3. Log'
    BY <2>1, NewlineLog, Zenon
  <2>4. IsNL(c)
    BY Zenon DEF IsNL
  <2> HIDE DEF c
  <2>5. Written'
    BY <2>1, <2>2, <2>4, WriteWritten, Zenon
  <2>6. Distinct' /\ Behind' /\ Buffer' /\ Growing' /\ Runs'
    BY <2>1, <2>2, WriteKeeps, Zenon
  <2> QED
    BY <1>2, <2>1, <2>2, <2>3, <2>5, <2>6, Zenon DEF IInv
<1>5. CASE WriteBlank
  <2> DEFINE c == <<0, "nl">>
  <2>1. /\ AtBoundary(disk[wfd]) /\ UNCHANGED wrote /\ Write(c) /\ UNCHANGED rdr
        /\ wrote' \in 0..MaxLines /\ wrote' \in Nat /\ wrote <= wrote' /\ 0 <= wrote'
    BY <1>1, <1>5 DEF WriteBlank
  <2>2. c \in Cells /\ IsNL(c) /\ ~Named(c) /\ c[1] = 0
    BY DEF Cells, IsNL, Named
  <2> HIDE DEF c
  <2>3. Log' /\ Written'
    BY <2>1, <2>2, WriteAtBoundary, WriteWritten, Zenon
  <2>4. Distinct' /\ Behind' /\ Buffer' /\ Growing' /\ Runs'
    BY <2>1, <2>2, WriteKeeps, Zenon
  <2> QED
    BY <1>2, <2>1, <2>2, <2>3, <2>4, Zenon DEF IInv
<1> QED
  BY <1>3, <1>4, <1>5, Zenon

-----------------------------------------------------------------------------
\* The tool that rotates the log.

\* The files and the reader stay as they are; the path and the file of the
\* writer may become others.
LEMMA RotateStep ==
  ASSUME IInv, Rename \/ Create \/ WriterReopens
  PROVE  IInv'
<1> USE FileReaderAssumption DEF NoFile
<1>1. Types /\ Log
  BY Zenon DEF IInv
<1>2. UNCHANGED <<disk, wrote, truncs, pc, fd, pos, buf, offset, held, obtained>>
  BY Zenon DEF Rename, Create, WriterReopens, rdr
<1>3. /\ wfd \in 1..MaxInodes /\ created \in 1..MaxInodes /\ fd \in 0..created
      /\ path \in {0, created} /\ wfd <= created
  BY <1>1, Zenon DEF Types, Inodes
<1>4. /\ wfd' \in 1..MaxInodes /\ created' \in 1..MaxInodes /\ fd' \in 0..created'
      /\ path' \in {0, created'} /\ wfd <= wfd' /\ wfd' <= created' /\ created <= created'
  BY <1>2, <1>3 DEF Rename, Create, WriterReopens
<1>5. Types'
  BY <1>1, <1>2, <1>4, Zenon DEF Types, Inodes
<1>6. wfd' = wfd \/ AtBoundary(disk[wfd])
  BY Zenon DEF Rename, Create, WriterReopens
<1>7. Log'
  <2>1. \A i \in Inodes : i > wfd' => disk'[i] = <<>>
    BY <1>1, <1>2, <1>3, <1>4 DEF Log, Inodes
  <2>2. CASE wfd' = wfd
    BY <1>1, <1>2, <2>2 DEF Log
  <2>3. CASE AtBoundary(disk[wfd])
    <3>1. ASSUME NEW i \in Inodes, NEW p \in 1..Len(disk[i]), ~IsNL(disk[i][p])
          PROVE  p # Len(disk[i])
      <4>1. p < Len(disk[i]) /\ Len(disk[i]) \in Nat
        BY <1>1, <2>3, <3>1, NoOpenLine DEF Types
      <4> QED
        BY <4>1
    <3> QED
      BY <1>1, <1>2, <2>1, <3>1, ZenonT(40) DEF Log
  <2> QED
    BY <1>6, <2>2, <2>3, Zenon
<1>8. Distinct' /\ Written'
  BY <1>2 DEF IInv, Distinct, Written
<1>9. \A i \in Inodes : i = path' => i = path \/ disk[i] = <<>>
  BY <1>1, <1>3 DEF Rename, Create, WriterReopens, Log, Inodes
<1>10. Behind'
  <2> SUFFICES ASSUME NEW i \in Inodes, NEW p \in 1..Len(disk[i]), Got(obtained, disk[i][p])
               PROVE  /\ fd # NoFile => i <= fd
                      /\ i \in {fd, path'} => p <= offset /\ offset <= Len(disk[i])
                      /\ i = fd /\ Open => pos <= Len(disk[i])
    BY <1>2, Zenon DEF Behind, Open
  <2>1. disk[i] # <<>>
    OBVIOUS
  <2> QED
    BY <1>9, <2>1, Zenon DEF IInv, Behind
<1>11. Buffer'
  BY <1>2 DEF IInv, Buffer, OffsetTracksReads, Open
<1>12. created' = 1 => created = 1
  BY <1>3, <1>4
<1>13. Growing'
  BY <1>2, <1>12, Zenon DEF IInv, Growing, Open
<1>14. Runs'
  BY <1>2, Zenon DEF IInv, Runs, Current, Open
<1>15. NothingReturnedTwice' /\ OnlyFirstLineTorn'
  BY <1>2, <1>12, ReturnedKept, Zenon
<1> QED
  BY <1>5, <1>7, <1>8, <1>10, <1>11, <1>13, <1>14, <1>15, Zenon DEF IInv

\* A truncation takes cells away and adds none.
LEMMA TruncateStep ==
  ASSUME IInv, Truncate
  PROVE  IInv'
<1> USE FileReaderAssumption DEF NoFile
<1>1. Types /\ Log
  BY Zenon DEF IInv
<1>2. /\ UNCHANGED <<path, wfd, created, wrote, pc, fd, pos, buf, offset, held, obtained>>
      /\ truncs' = truncs + 1 /\ disk' = [disk EXCEPT ![path] = <<>>]
      /\ path \in Inodes /\ truncs < MaxTruncates
  BY <1>1, Zenon DEF Truncate, rdr, Types
<1>3. disk \in [Inodes -> Seq(Cells)] /\ <<>> \in Seq(Cells)
  BY <1>1 DEF Types
<1>4. /\ disk' \in [Inodes -> Seq(Cells)]
      /\ \A i \in Inodes : disk'[i] = <<>> \/ disk'[i] = disk[i]
  BY <1>2, <1>3, Zenon
<1>5. /\ truncs \in Nat /\ truncs' \in 0..MaxTruncates /\ truncs' \in Nat
      /\ truncs <= truncs' /\ truncs < truncs' /\ truncs' # 0
  BY <1>1, <1>2 DEF Types
<1>6. Types'
  BY <1>1, <1>2, <1>4, <1>5, Zenon DEF Types
<1>7. \A i \in Inodes : \A p \in 1..Len(disk'[i]) : disk'[i] = disk[i] /\ p \in 1..Len(disk[i])
  BY <1>4
<1>8. Log'
  <2>1. \A i \in Inodes : i > wfd => disk'[i] = <<>>
    BY <1>1, <1>4, Zenon DEF Log
  <2>2. ASSUME NEW i \in Inodes, NEW p \in 1..Len(disk'[i])
        PROVE  /\ disk'[i][p][1] <= wrote
               /\ ~IsNL(disk'[i][p]) =>
                     /\ Named(disk'[i][p])
                     /\ IF p = Len(disk'[i]) THEN i = wfd /\ disk'[i][p][1] = wrote
                                             ELSE disk'[i][p + 1] = <<disk'[i][p][1], "nl">>
               /\ IsNL(disk'[i][p]) /\ Named(disk'[i][p]) =>
                     p > 1 /\ disk'[i][p - 1] = <<disk'[i][p][1], "body">>
    <3>1. disk'[i] = disk[i] /\ p \in 1..Len(disk[i])
      BY <1>7, Zenon
    <3> QED
      BY <1>1, <3>1 DEF Log
  <2> QED
    BY <1>2, <2>1, <2>2 DEF Log
<1>9. Distinct' /\ Written'
  BY <1>2, <1>7, SMTT(30) DEF IInv, Distinct, Written
<1>10. Behind'
  BY <1>2, <1>7, Zenon DEF IInv, Behind, Open
<1>11. Buffer'
  <2>1. Buffer
    BY Zenon DEF IInv
  <2>2. ASSUME pc # "done", NEW m \in 1..Len(buf), Named(buf[m]),
               NEW i \in Inodes, NEW p \in 1..Len(disk'[i]), disk'[i][p] = buf[m]
        PROVE  i = fd /\ p = offset + m /\ pos <= Len(disk'[i])
    <3>1. disk'[i] = disk[i] /\ p \in 1..Len(disk[i])
      BY <1>7, Zenon
    <3> QED
      BY <2>1, <2>2, <3>1, Zenon DEF Buffer
  <2> QED
    BY <1>2, <2>1, <2>2 DEF Buffer, OffsetTracksReads, Open
<1>12. Growing'
  BY <1>5, Zenon DEF Growing
<1>13. Runs'
  BY <1>1, <1>2, <1>5, RunsKept, Zenon DEF IInv
<1>14. NothingReturnedTwice' /\ OnlyFirstLineTorn'
  BY <1>2, <1>5, ReturnedKept, Zenon
<1> QED
  BY <1>6, <1>8, <1>9, <1>10, <1>11, <1>12, <1>13, <1>14, Zenon DEF IInv

-----------------------------------------------------------------------------
\* The reader.

\* A step of the reader that leaves the files and what was returned as they
\* are, and keeps or drops the buffer.
LEMMA FrameStep ==
  ASSUME IInv, UNCHANGED <<env, obtained>>
  PROVE  /\ Log' /\ Distinct' /\ NothingReturnedTwice' /\ OnlyFirstLineTorn'
         /\ buf' \in {buf, <<>>} => Written'
<1>1. UNCHANGED <<disk, wfd, wrote, created, truncs>>
  BY Zenon DEF env
<1>2. Log' /\ Distinct'
  BY <1>1 DEF IInv, Log, Distinct
<1>3. \A c : Has(<<>>, c) => FALSE
  BY DEF Has
<1>4. buf' \in {buf, <<>>} => Written'
  BY <1>1, <1>3, Zenon DEF IInv, Written
<1> QED
  BY <1>1, <1>2, <1>4, ReturnedKept, Zenon

\* The goroutine goes on, or ends with its file closed; the other actors.
LEMMA SmallStep ==
  ASSUME IInv, LoopRead \/ SendLine \/ LoopQuit \/ Stop \/ Receive \/ UNCHANGED vars
  PROVE  IInv'
<1> USE DEF NoFile
<1>1. /\ UNCHANGED <<disk, path, wfd, created, wrote, truncs>>
      /\ UNCHANGED <<env, obtained>> /\ UNCHANGED <<pos, buf, offset>>
  BY Zenon DEF LoopRead, SendLine, LoopQuit, Stop, Receive, vars, env, rdr
<1>2. Log' /\ Distinct' /\ Written' /\ NothingReturnedTwice' /\ OnlyFirstLineTorn'
  BY <1>1, FrameStep, Zenon
<1>3. Types'
  <2>1. Types
    BY Zenon DEF IInv
  <2>2. /\ pc' \in {"unstarted", "failed", "loop", "read", "reopen", "send", "done"}
        /\ pc' \in {"unstarted", "failed"} => obtained = <<>>
        /\ pc' # "send" => held' = <<>>
    BY <2>1, Zenon DEF Types, LoopRead, SendLine, LoopQuit, Stop, Receive, vars, rdr
  <2>3. fd' \in {fd, 0}
    BY Zenon DEF LoopRead, SendLine, LoopQuit, Stop, Receive, vars, rdr
  <2>4. fd' \in 0..created
    BY <2>1, <2>3, FileReaderAssumption DEF Types, Inodes
  <2> QED
    BY <1>1, <2>1, <2>2, <2>4, Zenon DEF Types
<1>4. CASE UNCHANGED fd /\ (Open <=> Open') /\ (pc = "done" <=> pc' = "done")
  <2>1. Behind' /\ Growing' /\ Runs'
    BY <1>1, <1>4, Zenon DEF IInv, Behind, Growing, Runs, Current
  <2>2. Buffer'
    <3>1. OffsetTracksReads'
      BY <1>1, <1>4, Zenon DEF IInv, Buffer, OffsetTracksReads, Open
    <3> QED
      BY <1>1, <1>4, <3>1 DEF IInv, Buffer
  <2> QED
    BY <1>2, <1>3, <2>1, <2>2, Zenon DEF IInv
<1>5. CASE LoopQuit
  <2>1. pc' = "done" /\ fd' = NoFile /\ ~Open'
    BY <1>5, Zenon DEF LoopQuit, Open
  <2>2. Behind'
    BY <1>1, <2>1, SMTT(30) DEF IInv, Behind, Inodes
  <2>3. Buffer'
    BY <1>1, <2>1 DEF IInv, Buffer, OffsetTracksReads
  <2>4. Growing' /\ Runs'
    BY <1>1, <2>1, Zenon DEF IInv, Growing, Runs
  <2> QED
    BY <1>2, <1>3, <2>2, <2>3, <2>4, Zenon DEF IInv
<1>6. LoopQuit \/ (UNCHANGED fd /\ (Open <=> Open') /\ (pc = "done" <=> pc' = "done"))
  BY Zenon DEF LoopRead, SendLine, Stop, Receive, vars, rdr, Open
<1> QED
  BY <1>4, <1>5, <1>6, Zenon

\* Nothing is buffered, and the offset is right for what was returned.
LEMMA EmptyBuffer ==
  ASSUME IInv, UNCHANGED <<env, obtained>>, buf' = <<>>,
         pc' \in {"failed", "loop", "reopen"}, OffsetTracksReads',
         Open' => pos' <= Len(disk[1]) \/ created # 1
  PROVE  /\ Buffer' /\ Runs'
         /\ (created = 1 /\ truncs = 0 => offset' = offset) => Growing'
<1>1. UNCHANGED <<disk, created, truncs>>
  BY ZenonT(40) DEF env
<1>2. Buffer'
  BY DEF Buffer
<1>3. Runs'
  BY Zenon DEF Runs
<1>4. (created = 1 /\ truncs = 0 => offset' = offset) => Growing'
  BY <1>1 DEF IInv, Growing
<1> QED
  BY <1>2, <1>3, <1>4, Zenon

\* Start opens the file at its end, or fails.
LEMMA StartStep ==
  ASSUME IInv, Start
  PROVE  IInv'
<1> USE DEF NoFile
<1>1. Types /\ buf = <<>> /\ obtained = <<>> /\ held = <<>>
  BY Zenon DEF IInv, Types, Buffer, Start, Open
<1>2. /\ UNCHANGED <<disk, path, wfd, created, wrote, truncs>>
      /\ UNCHANGED <<env, obtained>> /\ UNCHANGED <<buf, held>>
  BY Zenon DEF Start, env
<1>3. Log' /\ Distinct' /\ Written' /\ NothingReturnedTwice' /\ OnlyFirstLineTorn'
  BY <1>2, FrameStep, Zenon
<1>4. \A c : ~Got(obtained, c)
  BY <1>1 DEF Got
<1>5. Behind'
  BY <1>2, <1>4, Zenon DEF Behind
<1>6. Buffer' /\ Runs' /\ Types' /\ Growing'
  <2>1. CASE pc' = "failed" /\ UNCHANGED <<fd, pos, offset>>
    <3>1. OffsetTracksReads' /\ ~Open'
      BY <2>1, Zenon DEF OffsetTracksReads, Open
    <3>2. Types'
      BY <1>1, <1>2, <2>1, Zenon DEF Types
    <3> QED
      BY <1>1, <1>2, <2>1, <3>1, <3>2, EmptyBuffer, Zenon
  <2>2. CASE /\ path # NoFile /\ pc' = "loop" /\ fd' = path
             /\ pos' = Len(disk[path]) /\ offset' = Len(disk[path])
    <3>1. path = created /\ path \in Inodes /\ Len(disk[path]) \in Nat
      BY <1>1, <2>2 DEF Types
    <3>2. OffsetTracksReads'
      BY <1>1, <1>2, <2>2, <3>1 DEF OffsetTracksReads
    <3>3. Types'
      <4>1. fd' \in 0..created
        BY <2>2, <3>1 DEF Inodes
      <4> QED
        BY <1>1, <1>2, <2>2, <3>1, <4>1, Zenon DEF Types
    <3>4. Buffer' /\ Runs'
      BY <1>1, <1>2, <2>2, <3>1, <3>2, EmptyBuffer
    <3>5. Growing'
      BY <1>1, <1>2, <2>2, <3>1 DEF Growing
    <3> QED
      BY <3>3, <3>4, <3>5, Zenon
  <2> QED
    BY <2>1, <2>2, Zenon DEF Start
<1> QED
  BY <1>3, <1>5, <1>6, Zenon DEF IInv

\* readLine fails: what was buffered is dropped.
LEMMA ReadFailsStep ==
  ASSUME IInv, ReadFails
  PROVE  IInv'
<1>1. Types /\ pc = "read" /\ pc' = "reopen" /\ buf' = <<>> /\ ~Open'
  BY Zenon DEF IInv, ReadFails, Open
<1>2. /\ UNCHANGED <<disk, path, wfd, created, wrote, truncs>>
      /\ UNCHANGED <<env, obtained>> /\ UNCHANGED <<fd, pos, offset, held>>
  BY Zenon DEF ReadFails, env
<1>3. Log' /\ Distinct' /\ Written' /\ NothingReturnedTwice' /\ OnlyFirstLineTorn'
  BY <1>1, <1>2, FrameStep, Zenon
<1>4. Types'
  BY <1>1, <1>2 DEF Types
<1>5. Behind'
  BY <1>1, <1>2, Zenon DEF IInv, Behind
<1>6. OffsetTracksReads'
  BY <1>1, Zenon DEF OffsetTracksReads
<1>7. Buffer' /\ Runs' /\ Growing'
  BY <1>1, <1>2, <1>6, EmptyBuffer, Zenon
<1> QED
  BY <1>3, <1>4, <1>5, <1>7, Zenon DEF IInv

\* The offset goes back to 0 only for a file of which nothing was returned.
LEMMA ReopenStep ==
  ASSUME IInv, Reopen \/ ReopenFails
  PROVE  IInv'
<1> USE DEF NoFile
<1>1. Types /\ pc = "reopen" /\ pc' = "loop" /\ buf = <<>> /\ held = <<>>
  BY Zenon DEF IInv, Types, Reopen, ReopenFails, Buffer, Open
<1>2. /\ UNCHANGED <<disk, path, wfd, created, wrote, truncs>>
      /\ UNCHANGED <<env, obtained>> /\ UNCHANGED <<buf, held>>
  BY Zenon DEF Reopen, ReopenFails, env
<1>3. Log' /\ Distinct' /\ Written' /\ NothingReturnedTwice' /\ OnlyFirstLineTorn'
  BY <1>2, FrameStep, Zenon
<1>4. path # NoFile => path = created /\ path \in Inodes /\ Len(disk[path]) \in Nat
  BY <1>1 DEF Types
<1>5. \/ offset' = offset /\ (Reopen => Len(disk[path]) >= offset)
      \/ offset' = 0 /\ path # NoFile /\ Len(disk[path]) < offset
  <2>1. offset \in Nat
    BY <1>1, Zenon DEF Types
  <2>2. CASE Reopen
    BY <1>4, <2>1, <2>2 DEF Reopen
  <2>3. CASE ReopenFails /\ ~Reopen
    BY <2>3, Zenon DEF ReopenFails
  <2> QED
    BY <2>2, <2>3, Zenon
<1>6. \/ path # NoFile /\ fd' = path /\ pos' = offset' /\ Reopen
      \/ fd' = NoFile /\ pos' = pos
  BY Zenon DEF Reopen, ReopenFails
<1>7. Types'
  <2>1. offset' \in Nat
    BY <1>1, <1>5 DEF Types
  <2>2. fd' \in 0..created
    BY <1>1, <1>4, <1>6 DEF Types, Inodes
  <2>3. pos' \in Nat
    BY <1>1, <1>6, <2>1, Zenon DEF Types
  <2> QED
    BY <1>1, <1>2, <2>1, <2>2, <2>3, Zenon DEF Types
<1>8. OffsetTracksReads'
  <2>1. buf' = <<>> /\ offset' \in Nat
    BY <1>1, <1>2, <1>7, Zenon DEF Types
  <2>2. \A o \in Nat : o + Len(<<>>) = o
    OBVIOUS
  <2> QED
    BY <1>6, <2>1, <2>2, Zenon DEF OffsetTracksReads
<1>9. Open' => path # NoFile /\ fd' = path /\ pos' = offset' /\ pos' <= Len(disk[path])
  <2>1. offset \in Nat
    BY <1>1, Zenon DEF Types
  <2> QED
    BY <1>4, <1>5, <1>6, <2>1 DEF Open
<1>10. Buffer' /\ Runs'
  BY <1>1, <1>2, <1>4, <1>8, <1>9, EmptyBuffer, Zenon
<1>11. Growing'
  <2>1. ASSUME created = 1, truncs = 0 PROVE offset' = offset
    <3>1. offset <= Len(disk[1]) /\ offset \in Nat
      BY <1>1, <2>1, Zenon DEF IInv, Growing, Types
    <3> QED
      BY <1>4, <1>5, <2>1, <3>1
  <2> QED
    BY <1>1, <1>2, <1>4, <1>8, <1>9, <2>1, EmptyBuffer, Zenon
<1>12. Behind'
  <2> SUFFICES ASSUME NEW i \in Inodes, NEW p \in 1..Len(disk[i]), Got(obtained, disk[i][p])
               PROVE  /\ fd' # NoFile => i <= fd'
                      /\ i \in {fd', path} => p <= offset' /\ offset' <= Len(disk[i])
                      /\ i = fd' /\ Open' => pos' <= Len(disk[i])
    BY <1>2, Zenon DEF Behind
  <2>1. i \in {fd, path} => p <= offset /\ offset <= Len(disk[i])
    BY Zenon DEF IInv, Behind
  <2>2. disk[i] # <<>>
    OBVIOUS
  <2>3. i <= created
    <3>1. i > wfd => disk[i] = <<>>
      BY Zenon DEF IInv, Log
    <3>2. wfd \in Inodes /\ created \in Inodes /\ wfd <= created
      BY Zenon DEF IInv, Types
    <3> QED
      BY <2>2, <3>1, <3>2 DEF Inodes
  <2>4. i = path => offset' = offset
    BY <1>1, <1>4, <1>5, <2>1 DEF Types
  <2>5. i \in {fd', path} => i = path
    BY <1>6 DEF Inodes
  <2>6. i \in {fd', path} => p <= offset' /\ offset' <= Len(disk[i])
    BY <2>1, <2>4, <2>5, Zenon
  <2> QED
    BY <1>4, <1>6, <1>9, <2>3, <2>6, Zenon
<1> QED
  BY <1>3, <1>7, <1>10, <1>11, <1>12, Zenon DEF IInv

\* A piece of a sequence, and what it is when it is added to another.
LEMMA Piece ==
  ASSUME NEW S, NEW s \in Seq(S), NEW a \in Nat, NEW b \in Nat, a <= b, b <= Len(s)
  PROVE  /\ SubSeq(s, a + 1, b) \in Seq(S) /\ Len(SubSeq(s, a + 1, b)) = b - a
         /\ \A m \in 1..(b - a) : SubSeq(s, a + 1, b)[m] = s[a + m]
OBVIOUS

LEMMA AddPiece ==
  ASSUME NEW S, NEW t \in Seq(S), NEW u \in Seq(S)
  PROVE  /\ t \o u \in Seq(S) /\ Len(t \o u) = Len(t) + Len(u)
         /\ \A m \in 1..Len(t) : (t \o u)[m] = t[m]
         /\ \A m \in (Len(t) + 1)..(Len(t) + Len(u)) : (t \o u)[m] = u[m - Len(t)]
OBVIOUS

\* What is read is what follows in the file.
LEMMA ReadMoreEffect ==
  ASSUME IInv, ReadMore
  PROVE  /\ pos' \in Nat /\ pos < pos' /\ pos' <= Len(disk[fd])
         /\ buf' \in Seq(Cells) /\ Len(buf) < Len(buf') /\ pos' = offset + Len(buf')
         /\ \A m \in 1..Len(buf) : m \in 1..Len(buf') /\ buf'[m] = buf[m]
         /\ \A m \in 1..Len(buf') : m \notin 1..Len(buf) =>
               /\ offset + m \in 1..Len(disk[fd]) /\ pos < offset + m
               /\ buf'[m] = disk[fd][offset + m]
<1> DEFINE to == MinOf(pos + BufSize, Len(disk[fd]))
           s == SubSeq(disk[fd], pos + 1, to)
<1>1. Open /\ pos < Len(disk[fd]) /\ buf' = buf \o s /\ pos' = to
  BY Zenon DEF ReadMore, Open
<1>2. fd \in Inodes /\ pos = offset + Len(buf)
  BY <1>1, OpenFile, Zenon
<1>3. /\ disk[fd] \in Seq(Cells) /\ buf \in Seq(Cells) /\ pos \in Nat /\ offset \in Nat
      /\ Len(disk[fd]) \in Nat /\ Len(buf) \in Nat
  BY <1>2, SMTT(30) DEF IInv, Types
<1>4. to \in Nat /\ pos < to /\ to <= Len(disk[fd])
  BY <1>1, <1>3, FileReaderAssumption DEF MinOf
<1> HIDE DEF to
<1>5. /\ s \in Seq(Cells) /\ Len(s) = to - pos
      /\ \A m \in 1..(to - pos) : s[m] = disk[fd][pos + m]
  BY <1>3, <1>4, Piece
<1> HIDE DEF s
<1>6. /\ buf' \in Seq(Cells) /\ Len(buf') = Len(buf) + Len(s)
      /\ \A m \in 1..Len(buf) : buf'[m] = buf[m]
      /\ \A m \in (Len(buf) + 1)..(Len(buf) + Len(s)) : buf'[m] = s[m - Len(buf)]
  BY <1>1, <1>3, <1>5, AddPiece, ZenonT(40)
<1>7. Len(buf) < Len(buf') /\ pos' = offset + Len(buf')
  BY <1>1, <1>2, <1>3, <1>4, <1>5, <1>6
<1>8. ASSUME NEW m \in 1..Len(buf'), m \notin 1..Len(buf)
      PROVE  /\ offset + m \in 1..Len(disk[fd]) /\ pos < offset + m
             /\ buf'[m] = disk[fd][offset + m]
  <2>1. m - Len(buf) \in 1..(to - pos) /\ m \in (Len(buf) + 1)..(Len(buf) + Len(s))
    BY <1>3, <1>4, <1>5, <1>6, <1>8, SMTT(30)
  <2>2. buf'[m] = disk[fd][pos + (m - Len(buf))] /\ pos + (m - Len(buf)) = offset + m
    BY <1>2, <1>3, <1>5, <1>6, <2>1, SMTT(30)
  <2>3. \A p, t, d \in Nat : \A x \in 1..(t - p) : t <= d => p + x \in 1..d /\ p < p + x
    OBVIOUS
  <2>4. pos + (m - Len(buf)) \in 1..Len(disk[fd]) /\ pos < pos + (m - Len(buf))
    BY <1>3, <1>4, <2>1, <2>3, Zenon
  <2> QED
    BY <2>2, <2>4, Zenon
<1> QED
  BY <1>1, <1>4, <1>6, <1>7, <1>8

\* In a file a body is followed by a newline.
LEMMA BodyThenNL ==
  ASSUME IInv, NEW i \in Inodes, NEW p \in 1..Len(disk[i]), p < Len(disk[i])
  PROVE  IsNL(disk[i][p]) \/ IsNL(disk[i][p + 1])
<1>1. p # Len(disk[i])
  BY DEF IInv, Types
<1>2. ~IsNL(disk[i][p]) => disk[i][p + 1] = <<disk[i][p][1], "nl">>
  BY <1>1, Zenon DEF IInv, Log
<1> QED
  BY <1>2 DEF IsNL

\* What is read from the file has been written.
LEMMA ReadMoreWritten ==
  ASSUME IInv, ReadMore
  PROVE  Written'
<1>1. UNCHANGED <<disk, wrote, obtained, fd>> /\ fd \in Inodes /\ Len(disk[fd]) \in Nat
  BY OpenFile DEF ReadMore, env, Open, IInv, Types
<1> SUFFICES ASSUME NEW d \in Cells, Got(obtained, d) \/ Has(buf', d)
             PROVE  /\ d[1] <= wrote
                    /\ IsNL(d) => \A i \in Inodes : \A p \in 1..Len(disk[i]) :
                                     disk[i][p] = <<d[1], "body">> => p < Len(disk[i])
  BY <1>1, Zenon DEF Written
<1>2. CASE Got(obtained, d) \/ Has(buf, d)
  BY <1>2, Zenon DEF IInv, Written
<1>3. CASE Has(buf', d) /\ ~Has(buf, d)
  <2>1. PICK m \in 1..Len(buf') : buf'[m] = d
    BY <1>3, Zenon DEF Has
  <2>2. Named(d) /\ m \notin 1..Len(buf)
    BY <1>3, <2>1, ReadMoreEffect, Zenon DEF Has
  <2> DEFINE q == offset + m
  <2>3. q \in 1..Len(disk[fd]) /\ disk[fd][q] = d
    BY <2>1, <2>2, ReadMoreEffect, Zenon
  <2> HIDE DEF q
  <2>4. d[1] <= wrote
    BY <1>1, <2>3, Zenon DEF IInv, Log
  <2>5. ASSUME IsNL(d), NEW i \in Inodes, NEW p \in 1..Len(disk[i]),
               disk[i][p] = <<d[1], "body">>
        PROVE  p < Len(disk[i])
    <3>1. q > 1 /\ disk[fd][q - 1] = <<d[1], "body">>
      BY <1>1, <2>2, <2>3, <2>5, Zenon DEF IInv, Log
    <3>2. q - 1 \in 1..Len(disk[fd]) /\ q - 1 < Len(disk[fd])
      BY <1>1, <2>3, <3>1
    <3>3. Named(disk[i][p]) /\ disk[i][p] = disk[fd][q - 1]
      BY <2>2, <2>5, <3>1 DEF Named
    <3>4. i = fd /\ p = q - 1
      BY <1>1, <3>2, <3>3, Zenon DEF IInv, Distinct
    <3> QED
      BY <3>2, <3>4, Zenon
  <2> QED
    BY <2>4, <2>5, Zenon
<1> QED
  BY <1>2, <1>3, Zenon

\* The buffer goes on with cells that it does not have and that were not
\* returned.
LEMMA ReadMoreBuffer ==
  ASSUME IInv, ReadMore
  PROVE  Buffer'
<1>1. /\ UNCHANGED <<disk, obtained, fd, pc, offset>> /\ fd \in Inodes /\ Len(disk[fd]) \in Nat
      /\ pc = "read" /\ Open /\ Open' /\ offset \in Nat /\ pos = offset + Len(buf)
      /\ Len(buf) \in Nat
  BY OpenFile DEF ReadMore, env, Open, IInv, Types
<1>2. OffsetTracksReads'
  BY <1>1, ReadMoreEffect, Zenon DEF OffsetTracksReads
<1>3. ASSUME NEW m \in 1..Len(buf'), Named(buf'[m]),
             NEW i \in Inodes, NEW p \in 1..Len(disk[i]), disk[i][p] = buf'[m]
      PROVE  i = fd /\ p = offset + m /\ pos' <= Len(disk[i])
  <2>1. i = fd /\ p = offset + m
    <3>1. CASE m \in 1..Len(buf)
      <4>1. buf'[m] = buf[m]
        BY <3>1, ReadMoreEffect, Zenon
      <4> QED
        BY <1>1, <1>3, <3>1, <4>1, Zenon DEF IInv, Buffer
    <3>2. CASE m \notin 1..Len(buf)
      <4>1. offset + m \in 1..Len(disk[fd]) /\ buf'[m] = disk[fd][offset + m]
        BY <3>2, ReadMoreEffect, Zenon
      <4>2. disk[i][p] = disk[fd][offset + m] /\ Named(disk[i][p])
        BY <1>3, <4>1, Zenon
      <4> QED
        BY <1>1, <4>1, <4>2, Zenon DEF IInv, Distinct
    <3> QED
      BY <3>1, <3>2, Zenon
  <2> QED
    BY <2>1, ReadMoreEffect, Zenon
<1>4. ASSUME NEW m \in 1..Len(buf'), m \notin 1..Len(buf)
      PROVE  ~Got(obtained, buf'[m]) /\ (Named(buf'[m]) \/ IsNL(buf'[m]))
  <2>1. /\ offset + m \in 1..Len(disk[fd]) /\ pos < offset + m
        /\ buf'[m] = disk[fd][offset + m]
    BY <1>4, ReadMoreEffect, Zenon
  <2>2. ~(offset + m <= offset)
    BY <1>1, <2>1
  <2> QED
    BY <1>1, <2>1, <2>2, Zenon DEF IInv, Behind, Log
<1>5. ASSUME NEW m \in 1..Len(buf')
      PROVE  ~Got(obtained, buf'[m]) /\ (Named(buf'[m]) \/ IsNL(buf'[m]))
  <2>1. CASE m \in 1..Len(buf)
    BY <2>1, ReadMoreEffect, Zenon DEF IInv, Buffer
  <2> QED
    BY <1>4, <2>1, Zenon
<1>6. ASSUME NEW m \in 1..Len(buf'), NEW n \in 1..Len(buf'), buf'[m] = buf'[n], Named(buf'[m]),
             n \notin 1..Len(buf)
      PROVE  m = n
  <2>1. offset + n \in 1..Len(disk[fd]) /\ buf'[n] = disk[fd][offset + n]
    BY <1>6, ReadMoreEffect, Zenon
  <2>2. offset + n = offset + m
    BY <1>1, <1>3, <1>6, <2>1, Zenon
  <2> QED
    BY <1>1, <2>2
<1>7. ASSUME NEW m \in 1..Len(buf'), NEW n \in 1..Len(buf'), buf'[m] = buf'[n], Named(buf'[m])
      PROVE  m = n
  <2>1. CASE m \in 1..Len(buf) /\ n \in 1..Len(buf)
    BY <1>7, <2>1, ReadMoreEffect, Zenon DEF IInv, Buffer
  <2>2. CASE m \notin 1..Len(buf)
    <3>1. Named(buf'[n])
      BY <1>7, Zenon
    <3> QED
      BY <1>6, <1>7, <2>2, <3>1, Zenon
  <2>3. CASE n \notin 1..Len(buf)
    BY <1>6, <1>7, <2>3, Zenon
  <2> QED
    BY <2>1, <2>2, <2>3, Zenon
<1> QED
  BY <1>1, <1>2, <1>3, <1>5, <1>7, Zenon DEF Buffer

\* Of what is read, only the first cell can be a second body in a row, and
\* that only when the one before it was truncated away.
LEMMA ReadMoreRuns ==
  ASSUME IInv, ReadMore
  PROVE  Runs'
<1> DEFINE k == Len(buf)
           l == Len(buf')
<1>1. /\ UNCHANGED <<disk, fd, pc, offset, truncs>> /\ fd \in Inodes /\ Len(disk[fd]) \in Nat
      /\ Open /\ Open' /\ offset \in Nat /\ pos = offset + k /\ pos \in Nat
      /\ k \in Nat /\ truncs \in Nat /\ ~HasNL(buf) /\ pos < Len(disk[fd])
  BY OpenFile DEF ReadMore, env, Open, IInv, Types
<1>2. /\ l \in Nat /\ k < l /\ pos' = offset + l /\ pos' <= Len(disk[fd])
      /\ \A m \in 1..k : m \in 1..l /\ buf'[m] = buf[m] /\ ~IsNL(buf'[m])
      /\ \A m \in 1..l : m \notin 1..k =>
            offset + m \in 1..Len(disk[fd]) /\ buf'[m] = disk[fd][offset + m]
  BY <1>1, ReadMoreEffect, SMTT(30) DEF HasNL
<1>3. Current'
  <2>1. l \in 1..l /\ l \notin 1..k
    BY <1>1, <1>2
  <2> QED
    BY <1>1, <1>2, <2>1, Zenon DEF Current
<1>4. ASSUME NEW m \in 1..l, m \notin 1..k, m + 1 \in 1..l
      PROVE  IsNL(buf'[m]) \/ IsNL(buf'[m + 1])
  <2>1. m + 1 \notin 1..k
    BY <1>1, <1>2, <1>4
  <2>2. /\ offset + m \in 1..Len(disk[fd]) /\ buf'[m] = disk[fd][offset + m]
        /\ offset + (m + 1) \in 1..Len(disk[fd]) /\ buf'[m + 1] = disk[fd][offset + (m + 1)]
    BY <1>2, <1>4, <2>1, Zenon
  <2> DEFINE q == offset + m
  <2>3. q \in 1..Len(disk[fd]) /\ q < Len(disk[fd]) /\ offset + (m + 1) = q + 1
    <3>1. m \in Nat
      BY <1>2
    <3>2. \A a, b, c \in Nat : a + (b + 1) \in 1..c => a + b < c /\ a + (b + 1) = (a + b) + 1
      OBVIOUS
    <3> QED
      BY <1>1, <2>2, <3>1, <3>2, Zenon
  <2> HIDE DEF q
  <2>4. IsNL(disk[fd][q]) \/ IsNL(disk[fd][q + 1])
    BY <1>1, <2>3, BodyThenNL, Zenon
  <2> QED
    BY <2>2, <2>3, <2>4, Zenon DEF q
<1>5. ASSUME ~IsNL(buf'[k + 1]) PROVE k <= truncs
  <2>1. CASE buf = <<>>
    BY <1>1, <2>1
  <2>2. CASE buf # <<>>
    <3>1. k \in 1..k /\ pos \in 1..Len(disk[fd]) /\ k + 1 \in 1..l /\ k + 1 \notin 1..k
      <4>1. k # 0
        BY <2>2 DEF IInv, Types
      <4> QED
        BY <1>1, <1>2, <4>1
    <3>2. ~IsNL(buf[k]) /\ offset + (k + 1) = pos + 1 /\ buf'[k + 1] = disk[fd][pos + 1]
      <4>1. ~IsNL(buf[k])
        BY <1>1, <3>1, Zenon DEF HasNL
      <4>2. buf'[k + 1] = disk[fd][offset + (k + 1)]
        BY <1>2, <3>1, Zenon
      <4>3. offset + (k + 1) = pos + 1
        BY <1>1
      <4> QED
        BY <4>1, <4>2, <4>3, Zenon
    <3>3. ~Current
      <4>1. IsNL(disk[fd][pos]) \/ IsNL(disk[fd][pos + 1])
        BY <1>1, <3>1, BodyThenNL, Zenon
      <4> QED
        BY <1>5, <3>2, <4>1, Zenon DEF Current
    <3> QED
      BY <1>1, <2>2, <3>3, Zenon DEF IInv, Runs
  <2> QED
    BY <2>1, <2>2, Zenon
<1>6. k <= truncs + 1
  <2>1. CASE buf = <<>>
    BY <1>1, <2>1
  <2>2. CASE buf # <<>> /\ Current
    BY <1>1, <2>2, Zenon DEF IInv, Runs
  <2>3. CASE buf # <<>> /\ ~Current
    <3>1. k <= truncs
      BY <1>1, <2>3, Zenon DEF IInv, Runs
    <3> QED
      BY <1>1, <3>1
  <2> QED
    BY <2>1, <2>2, <2>3, Zenon
<1> HIDE DEF k, l
<1>7. ASSUME \A m \in 1..l : ~IsNL(buf'[m]) PROVE l <= truncs + 1
  <2>1. k + 1 \in 1..l /\ k + 1 \notin 1..k
    BY <1>1, <1>2
  <2>2. k <= truncs
    BY <1>5, <1>7, <2>1, Zenon
  <2>3. (k + 1) + 1 \notin 1..l
    BY <1>4, <1>7, <2>1, Zenon
  <2>4. l = k + 1
    BY <1>1, <1>2, <2>1, <2>3
  <2> QED
    BY <1>1, <2>2, <2>4
<1>8. ASSUME NEW n \in 1..l, FirstNL(buf', n)
      PROVE  /\ n <= truncs + 2
             /\ \A m \in (n + 1)..(l - 1) : IsNL(buf'[m]) \/ IsNL(buf'[m + 1])
  <2>1. /\ n \notin 1..k /\ IsNL(buf'[n])
        /\ \A m \in 1..(n - 1) : ~IsNL(buf'[m])
    BY <1>2, <1>8, Zenon DEF FirstNL
  <2>2. n > k
    BY <1>1, <1>2, <2>1
  <2>3. n <= truncs + 2
    <3>1. CASE n = k + 1
      BY <1>1, <1>6, <3>1
    <3>2. CASE n # k + 1
      <4>1. /\ k + 1 \in 1..(n - 1) /\ k + 1 \in 1..l /\ k + 1 \notin 1..k
            /\ (k + 1) + 1 \in 1..l
        BY <1>1, <1>2, <2>2, <3>2
      <4>2. ~IsNL(buf'[k + 1]) /\ k <= truncs
        BY <1>5, <2>1, <4>1, Zenon
      <4>3. IsNL(buf'[(k + 1) + 1])
        BY <1>4, <4>1, <4>2, Zenon
      <4>4. (k + 1) + 1 \notin 1..(n - 1)
        BY <2>1, <4>3, Zenon
      <4> QED
        BY <1>1, <1>2, <2>2, <3>2, <4>2, <4>4
    <3> QED
      BY <3>1, <3>2, Zenon
  <2>4. ASSUME NEW m \in (n + 1)..(l - 1) PROVE IsNL(buf'[m]) \/ IsNL(buf'[m + 1])
    <3>1. m \in 1..l /\ m \notin 1..k /\ m + 1 \in 1..l
      BY <1>1, <1>2, <2>2, SMTT(30)
    <3> QED
      BY <1>4, <3>1, Zenon
  <2> QED
    BY <2>3, <2>4, Zenon
<1>9. ~HasNL(buf') => Len(buf') <= truncs' + 1
  BY <1>1, <1>7, Zenon DEF HasNL, l
<1>10. \A n \in 1..Len(buf') : FirstNL(buf', n) =>
          /\ n <= truncs' + 2
          /\ \A m \in (n + 1)..(Len(buf') - 1) : IsNL(buf'[m]) \/ IsNL(buf'[m + 1])
  BY <1>1, <1>8, Zenon DEF l
<1> QED
  BY <1>3, <1>9, <1>10, Zenon DEF Runs

\* ReadString reads more of the file.
LEMMA ReadMoreStep ==
  ASSUME IInv, ReadMore
  PROVE  IInv'
<1>1. /\ UNCHANGED <<disk, path, wfd, created, wrote, truncs>> /\ UNCHANGED <<env, obtained>>
      /\ UNCHANGED <<pc, fd, offset, held>> /\ (Open <=> Open') /\ Types
  BY Zenon DEF ReadMore, env, Open, IInv
<1>2. Log' /\ Distinct' /\ NothingReturnedTwice' /\ OnlyFirstLineTorn'
  BY <1>1, FrameStep, Zenon
<1>3. Types'
  BY <1>1, ReadMoreEffect, Zenon DEF Types
<1>4. Behind'
  BY <1>1, ReadMoreEffect, Zenon DEF IInv, Behind
<1>5. Growing'
  <2> SUFFICES ASSUME created = 1, truncs = 0, Open
               PROVE  pos' <= Len(disk[1]) /\ \A m \in 1..Len(buf') : buf'[m] = disk[1][offset + m]
    BY <1>1, Zenon DEF IInv, Growing
  <2>1. fd = 1
    BY <1>1 DEF Types, Open, NoFile
  <2>2. ASSUME NEW m \in 1..Len(buf') PROVE buf'[m] = disk[1][offset + m]
    <3>1. CASE m \in 1..Len(buf)
      BY <3>1, ReadMoreEffect, Zenon DEF IInv, Growing
    <3>2. CASE m \notin 1..Len(buf)
      BY <2>1, <3>2, ReadMoreEffect, Zenon
    <3> QED
      BY <3>1, <3>2, Zenon
  <2> QED
    BY <2>1, <2>2, ReadMoreEffect, Zenon
<1> QED
  BY <1>2, <1>3, <1>4, <1>5, ReadMoreWritten, ReadMoreBuffer, ReadMoreRuns, Zenon DEF IInv

-----------------------------------------------------------------------------
\* readLine returns the first n cells of the buffer.
LineRead(n) ==
  /\ n \in 1..Len(buf) /\ FirstNL(buf, n)
  /\ offset' = offset + n
  /\ buf' \in Seq(Cells) /\ Len(buf') = Len(buf) - n
  /\ \A m \in 1..Len(buf') : n + m \in 1..Len(buf) /\ buf'[m] = buf[n + m]

\* The line is blank and skipped, or it is s and sent.
Blank(n) == n = 1 /\ ~Named(buf[1]) /\ pc' = "loop" /\ UNCHANGED <<held, obtained>>
Sent(n, s) ==
  /\ s \in Seq(Cells) /\ Len(s) = n /\ (\A m \in 1..n : s[m] = buf[m])
  /\ Named(buf[1])
  /\ pc' = "send" /\ held' = <<s>> /\ obtained' = Append(obtained, s)

LEMMA ReadLineEffect ==
  ASSUME IInv, ReadLine
  PROVE  \E n \in Nat : LineRead(n) /\ (Blank(n) \/ \E s \in Seq(Cells) : Sent(n, s))
<1>1. PICK n \in 1..Len(buf) :
        /\ FirstNL(buf, n)
        /\ offset' = offset + n
        /\ buf' = SubSeq(buf, n + 1, Len(buf))
        /\ \/ buf[1] = <<0, "nl">> /\ pc' = "loop" /\ UNCHANGED <<held, obtained>>
           \/ /\ buf[1] # <<0, "nl">> /\ pc' = "send" /\ held' = <<SubSeq(buf, 1, n)>>
              /\ obtained' = Append(obtained, SubSeq(buf, 1, n))
  BY Zenon DEF ReadLine
<1>2. buf \in Seq(Cells) /\ Len(buf) \in Nat /\ n \in Nat /\ n <= Len(buf) /\ n >= 1
  BY DEF IInv, Types
<1>3. LineRead(n)
  <2>1. /\ buf' \in Seq(Cells) /\ Len(buf') = Len(buf) - n
        /\ \A m \in 1..(Len(buf) - n) : buf'[m] = buf[n + m]
    <3>1. Len(buf) \in Nat /\ n <= Len(buf) /\ Len(buf) <= Len(buf)
      BY <1>2
    <3> QED
      BY <1>1, <1>2, <3>1, Piece, ZenonT(40)
  <2>2. \A m \in 1..(Len(buf) - n) : n + m \in 1..Len(buf)
    BY <1>2
  <2> QED
    BY <1>1, <2>1, <2>2, Zenon DEF LineRead
<1>4. buf[1] \in Cells /\ 1 \in 1..Len(buf)
  BY <1>2
<1>5. Named(buf[1]) <=> buf[1] # <<0, "nl">>
  <2>1. Named(buf[1]) \/ IsNL(buf[1])
    BY <1>4, Zenon DEF IInv, Buffer
  <2>2. buf[1] = <<buf[1][1], buf[1][2]>>
    BY <1>4, CellFields, Zenon
  <2> QED
    BY <2>1, <2>2 DEF Named, IsNL
<1>6. CASE buf[1] = <<0, "nl">> /\ pc' = "loop" /\ UNCHANGED <<held, obtained>>
  <2>1. IsNL(buf[1])
    BY <1>6 DEF IsNL
  <2>2. n = 1
    BY <1>1, <1>2, <2>1 DEF FirstNL
  <2> QED
    BY <1>2, <1>3, <1>5, <1>6, <2>2, Zenon DEF Blank
<1>7. CASE /\ buf[1] # <<0, "nl">> /\ pc' = "send" /\ held' = <<SubSeq(buf, 1, n)>>
           /\ obtained' = Append(obtained, SubSeq(buf, 1, n))
  <2> DEFINE s == SubSeq(buf, 1, n)
  <2>1. s \in Seq(Cells) /\ Len(s) = n /\ \A m \in 1..n : s[m] = buf[m]
    BY <1>2
  <2>2. Sent(n, s)
    BY <1>5, <1>7, <2>1, Zenon DEF Sent
  <2> QED
    BY <1>2, <1>3, <2>1, <2>2, Zenon
<1> QED
  BY <1>1, <1>6, <1>7, Zenon

\* What has been returned then was returned or buffered.
LEMMA ReadLineGot ==
  ASSUME IInv, NEW n \in Nat, LineRead(n), Blank(n) \/ \E s \in Seq(Cells) : Sent(n, s),
         NEW c, Got(obtained', c)
  PROVE  Named(c) /\ (Got(obtained, c) \/ \E m \in 1..n : buf[m] = c)
<1>1. Named(c)
  BY Zenon DEF Got, Has
<1>2. CASE Blank(n)
  BY <1>1, <1>2, Zenon DEF Blank
<1>3. ASSUME NEW s \in Seq(Cells), Sent(n, s)
      PROVE  Got(obtained, c) \/ \E m \in 1..n : buf[m] = c
  <2>1. obtained \in Seq(Seq(Cells)) /\ Len(obtained) \in Nat
    BY DEF IInv, Types
  <2>2. /\ Len(obtained') = Len(obtained) + 1 /\ obtained'[Len(obtained) + 1] = s
        /\ \A k \in 1..Len(obtained) : obtained'[k] = obtained[k]
    BY <1>3, <2>1 DEF Sent
  <2>3. PICK k \in 1..Len(obtained') : Has(obtained'[k], c)
    BY Zenon DEF Got
  <2>4. CASE k \in 1..Len(obtained)
    BY <2>2, <2>3, <2>4, Zenon DEF Got
  <2>5. CASE k = Len(obtained) + 1
    <3>1. Has(s, c)
      BY <2>2, <2>3, <2>5, Zenon
    <3> QED
      BY <1>3, <3>1, Zenon DEF Has, Sent
  <2> QED
    BY <2>1, <2>2, <2>4, <2>5
<1> QED
  BY <1>1, <1>2, <1>3, Zenon

\* No cell is returned twice.
LEMMA ReadLineOnce ==
  ASSUME IInv, NEW n \in Nat, LineRead(n), Blank(n) \/ \E s \in Seq(Cells) : Sent(n, s)
  PROVE  NothingReturnedTwice'
<1>1. CASE Blank(n)
  BY <1>1 DEF IInv, NothingReturnedTwice, Blank
<1>2. ASSUME NEW s \in Seq(Cells), Sent(n, s) PROVE NothingReturnedTwice'
  <2>1. /\ obtained \in Seq(Seq(Cells)) /\ Len(obtained) \in Nat
        /\ n \in 1..Len(buf) /\ Len(buf) \in Nat
    BY SMTT(30) DEF IInv, Types, LineRead
  <2>2. /\ Len(obtained') = Len(obtained) + 1 /\ obtained'[Len(obtained) + 1] = s
        /\ \A k \in 1..Len(obtained) : obtained'[k] = obtained[k]
    BY <1>2, <2>1 DEF Sent
  <2>3. ASSUME NEW i \in 1..Len(obtained), NEW m \in 1..Len(obtained[i]), NEW q \in 1..Len(s),
               obtained[i][m] = s[q], Named(s[q])
        PROVE  FALSE
    <3>1. q \in 1..Len(buf) /\ s[q] = buf[q]
      BY <1>2, <2>1, SMTT(30) DEF Sent
    <3>2. Got(obtained, buf[q])
      BY <2>3, <3>1, Zenon DEF Got, Has
    <3> QED
      BY <3>1, <3>2, Zenon DEF IInv, Buffer
  <2>4. ASSUME NEW m \in 1..Len(s), NEW q \in 1..Len(s), s[m] = s[q], Named(s[m])
        PROVE  m = q
    <3>1. m \in 1..Len(buf) /\ q \in 1..Len(buf) /\ s[m] = buf[m] /\ s[q] = buf[q]
      BY <1>2, <2>1 DEF Sent
    <3> QED
      BY <2>4, <3>1, Zenon DEF IInv, Buffer
  <2> SUFFICES ASSUME NEW i \in 1..Len(obtained'), NEW j \in 1..Len(obtained'),
                      NEW m \in 1..Len(obtained'[i]), NEW q \in 1..Len(obtained'[j]),
                      obtained'[i][m] = obtained'[j][q], obtained'[i][m][1] # 0
               PROVE  i = j /\ m = q
    BY SMTT(30) DEF NothingReturnedTwice
  <2>5. CASE i \in 1..Len(obtained) /\ j \in 1..Len(obtained)
    <3>1. obtained'[i] = obtained[i] /\ obtained'[j] = obtained[j]
      BY <2>2, <2>5, Zenon
    <3>2. /\ m \in 1..Len(obtained[i]) /\ q \in 1..Len(obtained[j])
          /\ obtained[i][m] = obtained[j][q] /\ obtained[i][m][1] # 0
      BY <3>1
    <3>3. NothingReturnedTwice
      BY DEF IInv
    <3> QED
      BY <2>5, <3>2, <3>3, SMTT(30) DEF NothingReturnedTwice
  <2>6. CASE i \in 1..Len(obtained) /\ j = Len(obtained) + 1
    <3>1. obtained'[i] = obtained[i] /\ obtained'[j] = s
      BY <2>2, <2>6, Zenon
    <3>2. /\ m \in 1..Len(obtained[i]) /\ q \in 1..Len(s)
          /\ obtained[i][m] = s[q] /\ Named(s[q])
      BY <3>1 DEF Named
    <3> QED
      BY <2>3, <2>6, <3>2, Zenon
  <2>7. CASE i = Len(obtained) + 1 /\ j \in 1..Len(obtained)
    <3>1. obtained'[i] = s /\ obtained'[j] = obtained[j]
      BY <2>2, <2>7, Zenon
    <3>2. /\ q \in 1..Len(obtained[j]) /\ m \in 1..Len(s)
          /\ obtained[j][q] = s[m] /\ Named(s[m])
      BY <3>1, SMTT(30) DEF Named
    <3> QED
      BY <2>3, <2>7, <3>2, Zenon
  <2>8. CASE i = Len(obtained) + 1 /\ j = Len(obtained) + 1
    BY <2>2, <2>4, <2>8, Zenon DEF Named
  <2> QED
    BY <2>1, <2>2, <2>5, <2>6, <2>7, <2>8, SMTT(30)
<1> QED
  BY <1>1, <1>2, Zenon

\* While the file only grows, a line that begins with a body is whole.
LEMMA WholeFromBody ==
  ASSUME IInv, Open, created = 1, truncs = 0, NEW n \in Nat, LineRead(n),
         NEW s \in Seq(Cells), Sent(n, s), ~IsNL(buf[1])
  PROVE  WholeLine(s)
<1>1. /\ fd = 1 /\ 1 \in Inodes /\ offset \in Nat /\ Len(buf) \in Nat /\ Len(disk[1]) \in Nat
      /\ offset + Len(buf) <= Len(disk[1]) /\ buf \in Seq(Cells)
  BY OpenFile, SMTT(30) DEF IInv, Types, Open, NoFile, Growing
<1>2. n \in 1..Len(buf) /\ IsNL(buf[n]) /\ \A m \in 1..(n - 1) : ~IsNL(buf[m])
  BY Zenon DEF LineRead, FirstNL
<1>3. n # 1 /\ 1 \in 1..Len(buf) /\ 2 \in 1..Len(buf) /\ n >= 2
  BY <1>1, <1>2
<1>4. buf[1] = disk[1][offset + 1] /\ buf[2] = disk[1][offset + 2]
  BY <1>3, Zenon DEF IInv, Growing
<1> DEFINE p == offset + 1
<1>5. p \in 1..Len(disk[1]) /\ p # Len(disk[1]) /\ p + 1 = offset + 2
  BY <1>1, <1>3
<1>6. buf[2] = <<buf[1][1], "nl">> /\ Named(buf[1])
  <2>1. buf[1] = disk[1][p] /\ buf[2] = disk[1][p + 1]
    BY <1>4, <1>5, Zenon
  <2> HIDE DEF p
  <2> QED
    BY <1>1, <1>5, <2>1, Zenon DEF IInv, Log
<1>7. n = 2
  <2>1. IsNL(buf[2])
    BY <1>6 DEF IsNL
  <2> QED
    BY <1>2, <1>3, <2>1
<1>8. buf[1] \in Cells
  BY <1>1, <1>3
<1>9. buf[1] = <<buf[1][1], "body">> /\ buf[1][1] \in 1..MaxLines
  BY <1>6, <1>8, CellFields, SMTT(30) DEF IsNL, Named
<1>10. Len(s) = 2 /\ s[1] = <<buf[1][1], "body">> /\ s[2] = <<buf[1][1], "nl">>
  BY <1>6, <1>7, <1>9 DEF Sent
<1>11. s = <<s[1], s[2]>>
  BY <1>10
<1> QED
  BY <1>9, <1>10, <1>11, Zenon DEF WholeLine

\* As long as the file only grows, only the first line may be torn.
LEMMA ReadLineWhole ==
  ASSUME IInv, Open, UNCHANGED env, NEW n \in Nat, LineRead(n),
         Blank(n) \/ \E s \in Seq(Cells) : Sent(n, s)
  PROVE  OnlyFirstLineTorn'
<1>1. UNCHANGED <<created, truncs>>
  BY Zenon DEF env
<1>2. CASE Blank(n)
  BY <1>1, <1>2, Zenon DEF Blank, IInv, OnlyFirstLineTorn, WholeLine
<1>3. ASSUME NEW s \in Seq(Cells), Sent(n, s), created = 1, truncs = 0,
             NEW i \in 1..Len(obtained')
      PROVE  WholeLine(obtained'[i]) \/ (i = 1 /\ Len(obtained'[1]) = 1)
  <2>1. obtained \in Seq(Seq(Cells)) /\ Len(obtained) \in Nat
    BY DEF IInv, Types
  <2>2. /\ Len(obtained') = Len(obtained) + 1 /\ obtained'[Len(obtained) + 1] = s
        /\ \A k \in 1..Len(obtained) : obtained'[k] = obtained[k]
    BY <1>3, <2>1 DEF Sent
  <2>3. CASE i \in 1..Len(obtained)
    BY <1>3, <2>1, <2>2, <2>3, Zenon DEF IInv, OnlyFirstLineTorn
  <2>4. CASE i = Len(obtained) + 1 /\ ~IsNL(buf[1])
    BY <1>3, <2>2, <2>4, WholeFromBody, Zenon
  <2>5. CASE i = Len(obtained) + 1 /\ IsNL(buf[1])
    <3>1. n = 1 /\ Len(s) = 1
      BY <1>3, <2>5 DEF LineRead, FirstNL, Sent, IInv, Types
    <3>2. obtained = <<>>
      <4> SUFFICES ASSUME obtained # <<>> PROVE FALSE
        BY Zenon
      <4>1. /\ offset > 0 /\ IsNL(disk[1][offset]) /\ offset \in Nat /\ Len(disk[1]) \in Nat
            /\ 1 \in Inodes /\ offset + Len(buf) <= Len(disk[1])
        <5>1. /\ offset > 0 /\ IsNL(disk[1][offset]) /\ pos <= Len(disk[1])
              /\ pos = offset + Len(buf)
          BY <1>3, OpenFile, Zenon DEF IInv, Growing
        <5>2. offset \in Nat /\ disk \in [Inodes -> Seq(Cells)] /\ created \in Inodes
          BY Zenon DEF IInv, Types
        <5>3. disk[1] \in Seq(Cells) /\ 1 \in Inodes
          BY <1>3, <5>2
        <5> QED
          BY <5>1, <5>2, <5>3
      <4>2. 1 \in 1..Len(buf) /\ Len(buf) \in Nat
        BY <3>1 DEF LineRead, IInv, Types
      <4>3. buf[1] = disk[1][offset + 1]
        BY <1>3, <4>2, Zenon DEF IInv, Growing
      <4> DEFINE p == offset + 1
      <4>4. p \in 1..Len(disk[1]) /\ p - 1 = offset /\ IsNL(disk[1][p]) /\ Named(disk[1][p])
        BY <1>3, <2>5, <4>1, <4>2, <4>3, SMTT(30) DEF Sent
      <4> HIDE DEF p
      <4>5. disk[1][p - 1] = <<disk[1][p][1], "body">>
        BY <4>1, <4>4, Zenon DEF IInv, Log
      <4> QED
        BY <4>1, <4>4, <4>5, SMTT(30) DEF IsNL
    <3> QED
      BY <2>2, <2>5, <3>1, <3>2, SMTT(30)
  <2> QED
    BY <2>1, <2>2, <2>3, <2>4, <2>5
<1> QED
  BY <1>1, <1>2, <1>3, Zenon DEF OnlyFirstLineTorn, WholeLine

\* What is left in the buffer after a line.
LEMMA ReadLineRuns ==
  ASSUME IInv, Open, UNCHANGED <<disk, fd, pos, truncs>>, NEW n \in Nat, LineRead(n)
  PROVE  Runs'
<1> SUFFICES ASSUME buf' # <<>>
             PROVE  /\ ~HasNL(buf') => Len(buf') <= IF Current' THEN truncs + 1 ELSE truncs
                    /\ Current' \/ truncs > 0
                    /\ \A k \in 1..Len(buf') : FirstNL(buf', k) =>
                          /\ k <= truncs + 2
                          /\ \A m \in (k + 1)..(Len(buf') - 1) : IsNL(buf'[m]) \/ IsNL(buf'[m + 1])
  BY Zenon DEF Runs
<1> DEFINE l == Len(buf')
<1>1. /\ n \in 1..Len(buf) /\ FirstNL(buf, n) /\ Len(buf) \in Nat /\ l \in Nat /\ l >= 1
      /\ l = Len(buf) - n /\ truncs \in Nat /\ buf # <<>>
      /\ \A m \in 1..l : n + m \in 1..Len(buf) /\ buf'[m] = buf[n + m]
  BY SMTT(30) DEF LineRead, IInv, Types
<1>2. \A m \in (n + 1)..(Len(buf) - 1) : IsNL(buf[m]) \/ IsNL(buf[m + 1])
  BY <1>1, Zenon DEF IInv, Runs
<1>3. ASSUME NEW m \in 1..(l - 1) PROVE IsNL(buf'[m]) \/ IsNL(buf'[m + 1])
  <2>1. /\ n + m \in (n + 1)..(Len(buf) - 1) /\ m \in 1..l /\ m + 1 \in 1..l
        /\ n + (m + 1) = (n + m) + 1
    BY <1>1
  <2> QED
    BY <1>1, <1>2, <2>1, Zenon
<1>4. Current <=> Current'
  <2>1. l \in 1..l /\ n + l = Len(buf)
    BY <1>1
  <2>2. buf'[l] = buf[Len(buf)]
    BY <1>1, <2>1, Zenon
  <2> QED
    BY <2>2, Zenon DEF Current
<1>5. Current' \/ truncs > 0
  BY <1>1, <1>4, Zenon DEF IInv, Runs
<1> HIDE DEF l
<1>6. ASSUME \A m \in 1..l : ~IsNL(buf'[m]) PROVE l = 1
  <2>1. 1 \notin 1..(l - 1)
    <3>1. 1 \in 1..(l - 1) => 1 \in 1..l /\ 1 + 1 \in 1..l
      BY <1>1
    <3> QED
      BY <1>3, <1>6, <3>1, Zenon
  <2> QED
    BY <1>1, <2>1
<1>7. ~HasNL(buf') => Len(buf') <= IF Current' THEN truncs + 1 ELSE truncs
  <2>1. ~HasNL(buf') => Len(buf') = 1
    BY <1>6, Zenon DEF HasNL, l
  <2>2. 1 <= truncs + 1 /\ (truncs > 0 => 1 <= truncs)
    BY <1>1
  <2> QED
    BY <1>5, <2>1, <2>2, Zenon
<1>8. ASSUME NEW k \in 1..l, FirstNL(buf', k)
      PROVE  /\ k <= truncs + 2
             /\ \A m \in (k + 1)..(l - 1) : IsNL(buf'[m]) \/ IsNL(buf'[m + 1])
  <2>1. k <= 2
    <3>1. \A m \in 1..(k - 1) : ~IsNL(buf'[m])
      BY <1>8, Zenon DEF FirstNL
    <3>2. k > 2 => 1 \in 1..(k - 1) /\ 1 + 1 \in 1..(k - 1) /\ 1 \in 1..(l - 1)
      BY <1>1
    <3>3. ~(k > 2)
      BY <1>3, <3>1, <3>2, Zenon
    <3> QED
      BY <1>1, <3>3
  <2>2. \A m \in (k + 1)..(l - 1) : m \in 1..(l - 1)
    BY <1>1
  <2>3. k <= truncs + 2
    BY <1>1, <2>1
  <2> QED
    BY <1>3, <2>2, <2>3, Zenon
<1> QED
  BY <1>5, <1>7, <1>8, Zenon DEF l

\* readLine returns a line.
LEMMA ReadLineStep ==
  ASSUME IInv, ReadLine
  PROVE  IInv'
<1>1. /\ UNCHANGED <<disk, path, wfd, created, wrote, truncs>> /\ UNCHANGED env
      /\ UNCHANGED <<fd, pos>> /\ Open /\ pc = "read" /\ Types
  BY Zenon DEF ReadLine, env, Open, IInv
<1>2. PICK n \in Nat : LineRead(n) /\ (Blank(n) \/ \E s \in Seq(Cells) : Sent(n, s))
  BY ReadLineEffect, Zenon
<1>3. /\ fd \in Inodes /\ pos = offset + Len(buf) /\ offset \in Nat /\ Len(buf) \in Nat
      /\ n \in 1..Len(buf) /\ Len(buf') = Len(buf) - n /\ Len(buf') \in Nat
      /\ offset' = offset + n /\ offset' \in Nat /\ offset <= offset' /\ offset' <= pos
      /\ pos = offset' + Len(buf') /\ buf' \in Seq(Cells)
      /\ \A m \in 1..Len(buf') : n + m \in 1..Len(buf) /\ buf'[m] = buf[n + m]
  BY <1>1, <1>2, OpenFile DEF Types, LineRead
<1>4. Open' /\ pc' \in {"loop", "send"}
  BY <1>1, <1>2, Zenon DEF Open, Blank, Sent
<1>5. Types'
  <2>1. obtained' \in Seq(Seq(Cells))
    <3>1. obtained \in Seq(Seq(Cells))
      BY <1>1, Zenon DEF Types
    <3>2. obtained' = obtained \/ \E s \in Seq(Cells) : obtained' = Append(obtained, s)
      BY <1>2, Zenon DEF Blank, Sent
    <3>3. \A s \in Seq(Cells) : Append(obtained, s) \in Seq(Seq(Cells))
      BY <3>1
    <3> QED
      BY <3>1, <3>2, <3>3, Zenon
  <2>2. pc' # "send" => held' = <<>>
    BY <1>1, <1>2, ZenonT(40) DEF Types, Blank, Sent
  <2> QED
    BY <1>1, <1>3, <1>4, <2>1, <2>2, Zenon DEF Types
<1>6. Log' /\ Distinct'
  BY <1>1 DEF IInv, Log, Distinct
<1>7. \A c : Got(obtained', c) => Named(c) /\ (Got(obtained, c) \/ \E m \in 1..n : buf[m] = c)
  BY <1>2, ReadLineGot, Zenon
<1>8. \A m \in 1..n : m \in 1..Len(buf)
  BY <1>3
<1>9. Written'
  <2>1. \A c : Got(obtained', c) => Got(obtained, c) \/ Has(buf, c)
    BY <1>7, <1>8, Zenon DEF Has
  <2>2. \A c : Has(buf', c) => Has(buf, c)
    BY <1>3, Zenon DEF Has
  <2> QED
    BY <1>1, <2>1, <2>2, Zenon DEF IInv, Written
<1>10. Behind'
  <2> SUFFICES ASSUME NEW i \in Inodes, NEW p \in 1..Len(disk[i]), Got(obtained', disk[i][p])
               PROVE  /\ i <= fd
                      /\ i \in {fd, path} => p <= offset' /\ offset' <= Len(disk[i])
                      /\ i = fd => pos <= Len(disk[i])
    BY <1>1, <1>4, Zenon DEF Behind
  <2>1. Len(disk[i]) \in Nat /\ fd \in Nat \ {0} /\ created \in Nat
    <3>1. Len(disk[i]) \in Nat
      BY <1>1, SMTT(30) DEF Types
    <3>2. fd \in Nat \ {0} /\ created \in Nat
      BY <1>1, <1>3, FileReaderAssumption, SMTT(30) DEF Types, Inodes
    <3> QED
      BY <3>1, <3>2, Zenon
  <2>2. CASE Got(obtained, disk[i][p])
    <3>1. /\ i <= fd /\ (i \in {fd, path} => p <= offset)
          /\ i = fd => pos <= Len(disk[i])
      BY <1>1, <2>2, Zenon DEF IInv, Behind, Open
    <3>2. i \in {fd, path} => i = fd
      BY <1>1, <2>1, <3>1, SMTT(30) DEF Types, NoFile, Inodes
    <3> QED
      BY <1>1, <1>3, <2>1, <3>1, <3>2, SMTT(30) DEF Types
  <2>3. CASE Named(disk[i][p]) /\ \E m \in 1..n : buf[m] = disk[i][p]
    <3>1. PICK m \in 1..n : buf[m] = disk[i][p]
      BY <2>3, Zenon
    <3>2. i = fd /\ p = offset + m /\ pos <= Len(disk[i])
      BY <1>1, <1>8, <2>3, <3>1, Zenon DEF IInv, Buffer
    <3> QED
      BY <1>1, <1>3, <2>1, <3>2, SMTT(30) DEF Types
  <2> QED
    BY <1>7, <2>2, <2>3, Zenon
<1>11. Buffer'
  <2>1. Buffer
    BY Zenon DEF IInv
  <2>2. OffsetTracksReads'
    BY <1>1, <1>3, Zenon DEF OffsetTracksReads
  <2>3. ASSUME NEW m \in 1..Len(buf'), Named(buf'[m]), NEW i \in Inodes,
               NEW p \in 1..Len(disk[i]), disk[i][p] = buf'[m]
        PROVE  i = fd /\ p = offset' + m /\ pos <= Len(disk[i])
    <3>1. n + m \in 1..Len(buf) /\ buf'[m] = buf[n + m]
      BY <1>3, Zenon
    <3>2. i = fd /\ p = offset + (n + m) /\ pos <= Len(disk[i])
      BY <1>1, <2>1, <2>3, <3>1, Zenon DEF Buffer
    <3> QED
      BY <1>3, <3>2
  <2>4. ASSUME NEW m \in 1..Len(buf'), NEW q \in 1..Len(buf'), buf'[m] = buf'[q], Named(buf'[m])
        PROVE  m = q
    <3>1. n + m \in 1..Len(buf) /\ n + q \in 1..Len(buf) /\ buf[n + m] = buf[n + q]
          /\ Named(buf[n + m])
      BY <1>3, <2>4, Zenon
    <3>2. n + m = n + q
      BY <2>1, <3>1, Zenon DEF Buffer
    <3> QED
      BY <1>3, <3>2
  <2>5. ASSUME NEW m \in 1..Len(buf')
        PROVE  ~Got(obtained', buf'[m]) /\ (Named(buf'[m]) \/ IsNL(buf'[m]))
    <3>1. /\ n + m \in 1..Len(buf) /\ buf'[m] = buf[n + m]
          /\ ~Got(obtained, buf[n + m]) /\ (Named(buf[n + m]) \/ IsNL(buf[n + m]))
      BY <1>3, <2>1, Zenon DEF Buffer
    <3>2. ASSUME Named(buf[n + m]), NEW q \in 1..n, buf[q] = buf[n + m] PROVE FALSE
      <4>1. q = n + m
        BY <1>8, <2>1, <3>1, <3>2, Zenon DEF Buffer
      <4> QED
        BY <1>3, <4>1
    <3> QED
      BY <1>7, <3>1, <3>2, Zenon
  <2> QED
    BY <1>1, <1>4, <2>2, <2>3, <2>4, <2>5 DEF Buffer
<1>12. Growing'
  <2> SUFFICES ASSUME created = 1, truncs = 0
               PROVE  /\ offset' <= Len(disk[1]) /\ offset' > 0 /\ IsNL(disk[1][offset'])
                      /\ pos <= Len(disk[1])
                      /\ \A m \in 1..Len(buf') : buf'[m] = disk[1][offset' + m]
    BY <1>1, Zenon DEF Growing
  <2>1. pos <= Len(disk[1]) /\ \A m \in 1..Len(buf) : buf[m] = disk[1][offset + m]
    BY <1>1, Zenon DEF IInv, Growing
  <2>2. IsNL(buf[n])
    BY <1>2, Zenon DEF LineRead, FirstNL
  <2>3. IsNL(disk[1][offset']) /\ offset' > 0
    BY <1>3, <2>1, <2>2
  <2>4. ASSUME NEW m \in 1..Len(buf') PROVE buf'[m] = disk[1][offset' + m]
    <3>1. n + m \in 1..Len(buf) /\ buf'[m] = buf[n + m]
      BY <1>3, Zenon
    <3>2. offset + (n + m) = offset' + m
      BY <1>3
    <3> QED
      BY <2>1, <3>1, <3>2, Zenon
  <2>5. 1 \in Inodes /\ Len(disk[1]) \in Nat
    BY <1>1, SMTT(30) DEF Types
  <2>6. offset' <= Len(disk[1])
    BY <1>1, <1>3, <2>1, <2>5, SMTT(30) DEF Types
  <2> QED
    BY <2>1, <2>3, <2>4, <2>6, Zenon
<1>13. Runs' /\ NothingReturnedTwice' /\ OnlyFirstLineTorn'
  BY <1>1, <1>2, ReadLineRuns, ReadLineOnce, ReadLineWhole, Zenon
<1> QED
  BY <1>5, <1>6, <1>9, <1>10, <1>11, <1>12, <1>13, Zenon DEF IInv

-----------------------------------------------------------------------------
\* The invariant holds of every state the reader and its environment reach.
LEMMA Invariance == Spec => []IInv
<1>1. Init => IInv
  <2> SUFFICES ASSUME Init PROVE IInv
    BY Zenon
  <2> USE FileReaderAssumption
  <2>1. Types
    BY DEF Init, Types, Inodes, NoFile
  <2>2. /\ \A i \in Inodes : disk[i] = <<>>
        /\ \A i \in Inodes : 1..Len(disk[i]) = {}
    BY DEF Init
  <2>3. buf = <<>> /\ obtained = <<>> /\ offset = 0 /\ 1 \in Inodes /\ ~Open /\ pc = "unstarted"
    BY DEF Init, Open, Inodes
  <2>4. Log /\ Distinct /\ Behind
    BY <2>2, Zenon DEF Log, Distinct, Behind
  <2>5. Written
    BY <2>3 DEF Written, Got, Has
  <2>6. Buffer
    BY <2>3 DEF Buffer, OffsetTracksReads
  <2>7. NothingReturnedTwice /\ OnlyFirstLineTorn
    BY <2>3 DEF NothingReturnedTwice, OnlyFirstLineTorn
  <2>8. Growing /\ Runs
    BY <2>2, <2>3 DEF Growing, Runs
  <2> QED
    BY <2>1, <2>4, <2>5, <2>6, <2>7, <2>8, Zenon DEF IInv
<1>2. IInv /\ [Next]_vars => IInv'
  BY WriterStep, RotateStep, TruncateStep, StartStep, SmallStep, ReadMoreStep, ReadLineStep,
     ReadFailsStep, ReopenStep, Zenon DEF Next, Environment, TailFile
<1> QED
  BY <1>1, <1>2, PTL DEF Spec

\* A reopen goes on where readLine left off: r.offset counts what was returned.
THEOREM OffsetTracksReadsInvariant == Spec => []OffsetTracksReads
<1>1. IInv => OffsetTracksReads
  BY Zenon DEF IInv, Buffer
<1> QED
  BY <1>1, Invariance, PTL

\* No part of a line is returned twice, whatever is rotated, truncated or fails.
THEOREM NothingReturnedTwiceInvariant == Spec => []NothingReturnedTwice
<1>1. IInv => NothingReturnedTwice
  BY Zenon DEF IInv
<1> QED
  BY <1>1, Invariance, PTL

\* As long as the file only grows, readLine tears no line but perhaps the first.
THEOREM OnlyFirstLineTornInvariant == Spec => []OnlyFirstLineTorn
<1>1. IInv => OnlyFirstLineTorn
  BY Zenon DEF IInv
<1> QED
  BY <1>1, Invariance, PTL

-----------------------------------------------------------------------------
\* A line that is sent was not sent before, and is no longer than one body for
\* every truncation, another one and the newline.
LEMMA ObtainsFresh ==
  ASSUME IInv, Open, NEW n \in Nat, LineRead(n), NEW s \in Seq(Cells), Sent(n, s)
  PROVE  s \in Texts /\ Source!Fresh(s)
<1>1. n \in 1..Len(buf) /\ FirstNL(buf, n) /\ buf # <<>> /\ Len(buf) \in Nat
      /\ truncs \in 0..MaxTruncates
  BY DEF LineRead, IInv, Types
<1>2. n <= truncs + 2
  BY <1>1, Zenon DEF IInv, Runs
<1>3. n \in 1..(2 + MaxTruncates)
  BY <1>1, <1>2, FileReaderAssumption
<1>4. s \in [1..n -> Cells]
  BY DEF Sent
<1>5. s \in Texts
  BY <1>3, <1>4, Zenon DEF Texts
<1>6. ASSUME NEW i \in 1..Len(obtained), obtained[i] = s PROVE FALSE
  <2>1. 1 \in 1..Len(s) /\ 1 \in 1..Len(buf) /\ s[1] = buf[1] /\ Named(buf[1])
    BY <1>1 DEF Sent
  <2>2. Got(obtained, buf[1])
    BY <1>6, <2>1, Zenon DEF Got, Has
  <2> QED
    BY <2>1, <2>2, Zenon DEF IInv, Buffer
<1> QED
  BY <1>5, <1>6, Zenon DEF Source!Fresh

\* A step of tailFile is one of LineSource or changes nothing that LineSource
\* has.
LEMMA TailFileMaps ==
  ASSUME IInv, TailFile
  PROVE  Source!Next \/ UNCHANGED Source!svars
<1>1. CASE LoopRead
  <2>1. /\ Phase = "running" /\ Phase' = "reading" /\ ~stopCh
        /\ UNCHANGED <<lines, held, obtained, stopCh>>
    BY <1>1, Zenon DEF LoopRead, Phase
  <2> QED
    BY <2>1, Zenon DEF Source!Look, Source!Next
<1>2. CASE LoopQuit
  <2>1. /\ Phase = "running" /\ Phase' = "done" /\ stopCh /\ held' = <<>>
        /\ UNCHANGED <<lines, obtained, stopCh>>
    BY <1>2, Zenon DEF LoopQuit, Phase, IInv, Types
  <2>2. Source!Quit
    BY <2>1, Zenon DEF Source!Quit, Source!SelectsStop, Source!AtEnd, Source!ClosesLines
  <2> QED
    BY <2>2, Zenon DEF Source!Next
<1>3. CASE ReadMore \/ ReadFails
  <2>1. UNCHANGED <<Phase, lines, held, obtained, stopCh>>
    BY <1>3, Zenon DEF ReadMore, ReadFails, Phase
  <2> QED
    BY <2>1, Zenon DEF Source!svars
<1>4. CASE ReadLine
  <2>1. Phase = "reading" /\ UNCHANGED <<lines, stopCh>> /\ Open
    BY <1>4, Zenon DEF ReadLine, Phase, Open
  <2>2. PICK n \in Nat : LineRead(n) /\ (Blank(n) \/ \E s \in Seq(Cells) : Sent(n, s))
    BY <1>4, ReadLineEffect, Zenon
  <2>3. CASE Blank(n)
    <3>1. Phase' = "running" /\ UNCHANGED <<held, obtained>>
      BY <2>3, Zenon DEF Blank, Phase
    <3> QED
      BY <2>1, <3>1, Zenon DEF Source!GiveUp, Source!Next
  <2>4. ASSUME NEW s \in Seq(Cells), Sent(n, s) PROVE Source!Next
    <3>1. s \in Texts /\ Source!Fresh(s)
      BY <2>1, <2>2, <2>4, ObtainsFresh, Zenon
    <3>2. Phase' = "sending" /\ held' = <<s>> /\ obtained' = Append(obtained, s)
      BY <2>4, Zenon DEF Sent, Phase
    <3>3. Source!Obtain(s)
      BY <2>1, <3>1, <3>2, Zenon DEF Source!Obtain
    <3> QED
      BY <3>1, <3>3, Zenon DEF Source!Next
  <2> QED
    BY <2>2, <2>3, <2>4, Zenon
<1>5. CASE Reopen \/ ReopenFails
  <2>1. /\ Phase = "reading" /\ Phase' = "running"
        /\ UNCHANGED <<lines, held, obtained, stopCh>>
    BY <1>5, Zenon DEF Reopen, ReopenFails, Phase
  <2> QED
    BY <2>1, Zenon DEF Source!GiveUp, Source!Next
<1>6. CASE SendLine
  <2>1. Phase = "sending" /\ Phase' = "running" /\ UNCHANGED <<obtained, stopCh>>
    BY <1>6, Zenon DEF SendLine, Phase
  <2>2. Source!Push
    BY <1>6, <2>1, Zenon DEF SendLine, Source!Push, Source!AfterItem, Source!EndsAlone
  <2> QED
    BY <2>2, Zenon DEF Source!Next
<1> QED
  BY <1>1, <1>2, <1>3, <1>4, <1>5, <1>6, Zenon DEF TailFile

\* The file reader implements LineSource, whatever its environment does.
THEOREM Refinement == Spec => ImplementsSource
<1>1. Init => Source!Init
  <2>1. Init => Phase = "unstarted"
    BY Zenon DEF Init, Phase
  <2> QED
    BY <2>1, Zenon DEF Init, Source!Init, Source!Kinds
<1>2. IInv /\ [Next]_vars => [Source!Next]_(Source!svars)
  <2> SUFFICES ASSUME IInv, [Next]_vars
               PROVE  Source!Next \/ UNCHANGED Source!svars
    BY Zenon
  <2>1. CASE Environment \/ UNCHANGED vars
    BY <2>1, Zenon DEF Environment, WriteBody, WriteNewline, WriteBlank, Rename, Create,
                WriterReopens, Truncate, rdr, vars, Phase, Source!svars
  <2>2. CASE Start
    <3>1. Phase = "unstarted" /\ UNCHANGED <<lines, held, obtained, stopCh>>
      BY <2>2, Zenon DEF Start, Phase
    <3>2. Phase' = "unstarted" \/ Phase' = "running"
      BY <2>2, Zenon DEF Start, Phase
    <3> QED
      BY <3>1, <3>2, Zenon DEF Source!Start, Source!Next, Source!svars
  <2>3. CASE TailFile
    BY <2>3, TailFileMaps, Zenon
  <2>4. CASE Stop
    <3>1. ~stopCh /\ stopCh' = TRUE /\ UNCHANGED <<Phase, lines, held, obtained>>
      BY <2>4, Zenon DEF Stop, rdr, Phase
    <3> QED
      BY <3>1, Zenon DEF Source!CloseStop, Source!Next
  <2>5. CASE Receive
    <3>1. UNCHANGED <<Phase, held, obtained, stopCh>>
      BY <2>5, Zenon DEF Receive, rdr, Phase
    <3> QED
      BY <2>5, <3>1, Zenon DEF Receive, Source!Receive, Source!Next
  <2> QED
    BY <2>1, <2>2, <2>3, <2>4, <2>5, Zenon DEF Next
<1> QED
  BY <1>1, <1>2, Invariance, PTL DEF Spec, ImplementsSource, Source!Spec
=============================================================================
