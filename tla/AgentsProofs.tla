---------------------------- MODULE AgentsProofs ----------------------------
(***************************************************************************)
(* The safety properties of the two agent programs, and that they use the  *)
(* reader and the sender as the modules of these two say they are used,    *)
(* for any lines, batch sizes and capacity of the channel.                 *)
(***************************************************************************)
EXTENDS Agents, SequenceTheorems, TLAPS

\* All the lines the reader obtained and has not dropped, in order.
All == accepted \o item \o lines \o held

Types ==
  /\ program \in {"agent", "cmd"}
  /\ accepted \in Seq(Lines) /\ item \in Seq(Lines) /\ lines \in Seq(Lines)
  /\ held \in Seq(Lines) /\ obtained \in Seq(Lines)
  /\ IF pipe = "send" THEN \E x \in Lines : item = <<x>> ELSE item = <<>>
  /\ IF reader = "sending" THEN \E x \in Lines : held = <<x>> ELSE held = <<>>

\* Nothing was dropped but, when the reader was told to stop, its last line.
Whole ==
  \/ obtained = All
  \/ /\ rstopCh /\ reader \in {"ending", "done"}
     /\ \E x \in Lines : obtained = Append(All, x)

\* What main has started and not yet stopped when it is at each place.
Starting == {"start reader", "start sender", "start pipeline"}
Serving == {"set ready", "wait signal", "set not ready"}

MainOrder ==
  /\ ready => program = "agent" /\ main \in {"wait signal", "set not ready"}
  /\ program = "agent" /\ main \in Starting \cup Serving => ~rstopCh /\ ~stopCh
  /\ main \in Serving \cup {"start sender", "start pipeline"} => reader # "unstarted"
  /\ main \in Serving \cup {"start pipeline"} => loop # "unstarted"
  /\ IF main \in Starting THEN pipe = "unstarted"
                          ELSE main \in Serving => pipe # "unstarted"

\* Why a goroutine may have ended.
Ended ==
  /\ reader \in {"ending", "done"} => rstopCh \/ Reader!EndsAlone
  /\ closed => rstopCh
  /\ pipe = "done" => ctxDone \/ closed

\* The inductive invariant.
IInv ==
  /\ Types
  /\ Whole
  /\ MainOrder
  /\ Ended

-----------------------------------------------------------------------------
\* Sequences.  Moving an element from the head of one to the end of another
\* leaves their concatenation as it is.
LEMMA MoveHead ==
  ASSUME NEW S, NEW a \in Seq(S), NEW s \in Seq(S), s # <<>>
  PROVE  /\ a \o s = (a \o <<Head(s)>>) \o Tail(s)
         /\ Head(s) \in S /\ Tail(s) \in Seq(S)
<1>1. Head(s) \in S /\ Tail(s) \in Seq(S) /\ <<Head(s)>> \in Seq(S)
  BY HeadTailProperties
<1>2. <<Head(s)>> \o Tail(s) = s
  <2>1. <<Head(s)>> \o Tail(s) \in Seq(S) /\ Len(<<Head(s)>> \o Tail(s)) = Len(s)
    BY <1>1, HeadTailProperties, ConcatProperties
  <2>2. \A i \in 1..Len(s) : (<<Head(s)>> \o Tail(s))[i] = s[i]
    BY <1>1, HeadTailProperties
  <2> QED
    BY <2>1, <2>2, SeqEqual
<1>3. (a \o <<Head(s)>>) \o Tail(s) = a \o (<<Head(s)>> \o Tail(s))
  BY <1>1, ConcatAssociative
<1> QED
  BY <1>1, <1>2, <1>3, Zenon

\* An element added at the end of the last one is added to the whole.
LEMMA AppendLast ==
  ASSUME NEW S, NEW a \in Seq(S), NEW s \in Seq(S), NEW x \in S
  PROVE  a \o Append(s, x) = Append(a \o s, x) /\ a \o s \in Seq(S)
<1>1. a \o s \in Seq(S) /\ <<x>> \in Seq(S)
  BY ConcatProperties
<1>2. Append(s, x) = s \o <<x>> /\ Append(a \o s, x) = (a \o s) \o <<x>>
  BY <1>1, AppendIsConcat
<1>3. (a \o s) \o <<x>> = a \o (s \o <<x>>)
  BY <1>1, ConcatAssociative
<1> QED
  BY <1>1, <1>2, <1>3

\* What is left of the whole when some of its parts are empty.
LEMMA AllParts ==
  ASSUME Types
  PROVE  /\ accepted \o item \in Seq(Lines) /\ (accepted \o item) \o lines \in Seq(Lines)
         /\ All \in Seq(Lines)
         /\ held = <<>> => All = (accepted \o item) \o lines
         /\ item = <<>> => accepted \o item = accepted
<1>1. accepted \o item \in Seq(Lines) /\ (item = <<>> => accepted \o item = accepted)
  BY ConcatProperties, ConcatEmptySeq DEF Types
<1>2. (accepted \o item) \o lines \in Seq(Lines)
  BY <1>1, ConcatProperties DEF Types
<1>3. All \in Seq(Lines) /\ (held = <<>> => All = (accepted \o item) \o lines)
  BY <1>2, ConcatProperties, ConcatEmptySeq, Zenon DEF All, Types
<1> QED
  BY <1>1, <1>2, <1>3, Zenon

\* The accepted lines are a beginning of the whole.
LEMMA AcceptedFirst ==
  ASSUME Types
  PROVE  item \o lines \o held \in Seq(Lines) /\ All = accepted \o (item \o lines \o held)
<1>1. /\ accepted \in Seq(Lines) /\ item \in Seq(Lines)
      /\ lines \in Seq(Lines) /\ held \in Seq(Lines)
  BY DEF Types
<1> DEFINE p == item \o lines
<1>2. p \in Seq(Lines)
  BY <1>1, ConcatProperties
<1>3. (accepted \o item) \o lines = accepted \o p
  BY <1>1, ConcatAssociative
<1> HIDE DEF p
<1>4. (accepted \o p) \o held = accepted \o (p \o held)
  BY <1>1, <1>2, ConcatAssociative, SMTT(30)
<1>5. p \o held \in Seq(Lines)
  BY <1>1, <1>2, ConcatProperties
<1> QED
  BY <1>3, <1>4, <1>5 DEF All, p

-----------------------------------------------------------------------------
\* The way of a line.

\* The reader obtains a line, or puts one into the channel by itself.
LEMMA ObtainStep ==
  ASSUME IInv, NEW x \in Lines, obtained' = Append(obtained, x), UNCHANGED <<accepted, item, pipe>>,
         reader = "running" \/ reader = "reading", UNCHANGED program,
         \/ held' = <<x>> /\ reader' = "sending" /\ lines' = lines
         \/ held' = held /\ reader' \in {"ending", "done"} /\ lines' = Append(lines, x)
  PROVE  Types' /\ Whole'
<1>1. Types /\ held = <<>> /\ obtained = All
  BY DEF IInv, Types, Whole
<1> DEFINE a == accepted \o item
<1>2. a \in Seq(Lines) /\ a \o lines \in Seq(Lines) /\ All = a \o lines
  BY <1>1, AllParts
<1>3. /\ obtained' \in Seq(Lines) /\ lines' \in Seq(Lines) /\ held' \in Seq(Lines)
      /\ IF reader' = "sending" THEN \E y \in Lines : held' = <<y>> ELSE held' = <<>>
  <2>1. /\ obtained \in Seq(Lines) /\ lines \in Seq(Lines) /\ <<x>> \in Seq(Lines)
        /\ held' \in {<<>>, <<x>>} /\ <<>> \in Seq(Lines)
    BY <1>1 DEF Types
  <2>2. Append(obtained, x) \in Seq(Lines) /\ Append(lines, x) \in Seq(Lines)
    BY <2>1, AppendProperties
  <2>3. IF reader' = "sending" THEN \E y \in Lines : held' = <<y>> ELSE held' = <<>>
    BY <1>1
  <2> QED
    BY <2>1, <2>2, <2>3, Zenon
<1>4. Types'
  BY <1>1, <1>3 DEF Types
<1>5. All' = (a \o lines') \o held'
  BY DEF All
<1> HIDE DEF a
<1>6. CASE held' = <<x>> /\ lines' = lines
  <2>1. Append(a \o lines, x) = (a \o lines) \o <<x>>
    BY <1>2, AppendIsConcat
  <2>2. obtained' = Append(a \o lines, x)
    BY <1>1, <1>2
  <2>3. All' = (a \o lines) \o <<x>>
    BY <1>5, <1>6
  <2>4. obtained' = All'
    BY <2>1, <2>2, <2>3, Zenon
  <2> QED
    BY <1>4, <2>4 DEF Whole
<1>7. CASE held' = <<>> /\ lines' = Append(lines, x)
  <2>1. a \o lines' = Append(a \o lines, x) /\ a \o lines' \in Seq(Lines)
    BY <1>1, <1>2, <1>7, AppendLast DEF Types
  <2>2. All' = a \o lines'
    BY <1>5, <1>7, <2>1, ConcatEmptySeq
  <2>3. obtained' = Append(a \o lines, x)
    BY <1>1, <1>2
  <2>4. obtained' = All'
    BY <2>1, <2>2, <2>3, Zenon
  <2> QED
    BY <1>4, <2>4 DEF Whole
<1> QED
  BY <1>1, <1>4, <1>6, <1>7

\* The reader puts the line it holds into the channel.
LEMMA PushStep ==
  ASSUME IInv, reader = "sending", lines' = lines \o held, held' = <<>>,
         UNCHANGED <<accepted, item, obtained, pipe, program>>, reader' # "sending"
  PROVE  Types' /\ Whole'
<1>1. Types /\ obtained = All
  BY DEF IInv, Whole
<1> DEFINE a == accepted \o item
<1>2. a \in Seq(Lines) /\ lines' \in Seq(Lines)
  BY <1>1, AllParts, ConcatProperties DEF Types
<1>3. Types'
  <2>1. held' \in Seq(Lines)
    OBVIOUS
  <2> QED
    BY <1>1, <1>2, <2>1 DEF Types
<1>4. All = (a \o lines) \o held /\ All' = (a \o lines') \o <<>>
  BY DEF All
<1> HIDE DEF a
<1>5. (a \o lines) \o held = a \o lines'
  <2>1. lines \in Seq(Lines) /\ held \in Seq(Lines)
    BY <1>1 DEF Types
  <2>2. (a \o lines) \o held = a \o (lines \o held)
    BY <1>2, <2>1, ConcatAssociative
  <2> QED
    BY <2>2
<1>6. (a \o lines') \o <<>> = a \o lines'
  BY <1>2, ConcatProperties, ConcatEmptySeq
<1> QED
  BY <1>1, <1>3, <1>4, <1>5, <1>6 DEF Whole

\* The reader quits, and drops the line it holds.
LEMMA QuitStep ==
  ASSUME IInv, reader \in {"running", "sending"}, rstopCh', reader' \in {"ending", "done"},
         held' = <<>>, UNCHANGED <<accepted, item, lines, obtained, pipe, program>>
  PROVE  Types' /\ Whole'
<1>1. Types /\ obtained = All
  BY DEF IInv, Whole
<1>2. Types'
  <2>1. held' \in Seq(Lines)
    OBVIOUS
  <2> QED
    BY <1>1, <2>1 DEF Types
<1> DEFINE b == (accepted \o item) \o lines
<1>3. b \in Seq(Lines) /\ b' = b
  BY <1>1, AllParts
<1>4. All = b \o held /\ All' = b \o <<>>
  BY DEF All
<1> HIDE DEF b
<1>5. All' = b
  BY <1>3, <1>4, ConcatEmptySeq
<1>6. CASE held = <<>>
  BY <1>1, <1>3, <1>4, <1>5, <1>6, <1>2, ConcatEmptySeq, Zenon DEF Whole
<1>7. CASE \E x \in Lines : held = <<x>>
  <2>1. PICK x \in Lines : held = <<x>>
    BY <1>7
  <2>2. obtained = Append(All', x)
    BY <1>1, <1>3, <1>4, <1>5, <2>1, AppendIsConcat, Zenon
  <2> QED
    BY <1>2, <2>2 DEF Whole
<1> QED
  BY <1>1, <1>6, <1>7 DEF Types

\* The pipeline takes the head of the channel.
LEMMA ReceiveStep ==
  ASSUME IInv, pipe = "select", lines # <<>>, lines' = Tail(lines), item' = <<Head(lines)>>,
         pipe' = "send", UNCHANGED <<accepted, held, obtained, reader, rstopCh, program>>
  PROVE  Types' /\ Whole'
<1>1. Types /\ item = <<>> /\ Whole
  BY DEF IInv, Types
<1>2. /\ accepted \o lines = (accepted \o <<Head(lines)>>) \o Tail(lines)
      /\ Head(lines) \in Lines /\ Tail(lines) \in Seq(Lines)
  BY <1>1, MoveHead, Zenon DEF Types
<1>3. Types'
  BY <1>1, <1>2 DEF Types
<1>4. All' = All
  <2>1. accepted \o item = accepted
    BY <1>1, AllParts
  <2> QED
    BY <1>2, <2>1, Zenon DEF All
<1> QED
  BY <1>1, <1>3, <1>4 DEF Whole

\* The pipeline gives its line to the sender.
LEMMA HandOnStep ==
  ASSUME IInv, pipe = "send", accepted' = Append(accepted, Head(item)), item' = <<>>,
         pipe' = "select", UNCHANGED <<lines, held, obtained, reader, rstopCh, program>>
  PROVE  Types' /\ Whole'
<1>1. Types /\ Whole
  BY DEF IInv
<1>2. PICK x \in Lines : item = <<x>>
  BY <1>1 DEF Types
<1>3. accepted' = Append(accepted, x)
  BY <1>2
<1>4. accepted' = accepted \o item /\ accepted' \in Seq(Lines)
  BY <1>1, <1>2, <1>3, AppendIsConcat, AppendProperties DEF Types
<1>5. Types'
  <2>1. item' \in Seq(Lines)
    OBVIOUS
  <2> QED
    BY <1>1, <1>4, <2>1 DEF Types
<1>6. All' = All
  <2>1. accepted' \o <<>> = accepted'
    BY <1>4, ConcatEmptySeq
  <2> QED
    BY <1>4, <2>1, Zenon DEF All
<1> QED
  BY <1>1, <1>5, <1>6 DEF Whole

-----------------------------------------------------------------------------
\* The goroutines and main.

\* A step that leaves the way of a line as it is.
LEMMA SameWay ==
  ASSUME IInv, UNCHANGED <<program, accepted, item, lines, held, obtained>>,
         rstopCh => rstopCh', (pipe' = "send") = (pipe = "send"),
         (reader' = "sending") = (reader = "sending"),
         reader \in {"ending", "done"} => reader' \in {"ending", "done"}
  PROVE  Types' /\ Whole'
<1>1. Types'
  BY DEF IInv, Types
<1>2. Whole'
  BY Zenon DEF IInv, Whole, All
<1> QED
  BY <1>1, <1>2

\* The goroutine of the reader.
LEMMA ReaderKeeps ==
  ASSUME IInv, ReaderStep
  PROVE  IInv'
<1>1. /\ UNCHANGED <<accepted, loop, stopCh, ctxDone, program, pipe, item, ready, main>>
      /\ UNCHANGED <<kind, rstopCh, closed>>
  BY DEF ReaderStep, Reader!Look, Reader!GiveUp, Reader!Obtain, Reader!Push, Reader!Quit,
         Reader!EndAlone, Reader!Finish, snd, own, setup
<1>2. reader # "unstarted" /\ reader' # "unstarted"
  BY DEF ReaderStep, Reader!Look, Reader!GiveUp, Reader!Obtain, Reader!Push, Reader!Quit,
         Reader!EndAlone, Reader!Finish, Reader!AfterItem, Reader!AtEnd
<1>3. MainOrder'
  BY <1>1, <1>2, Zenon DEF IInv, MainOrder
<1>4. CASE Reader!Look \/ Reader!GiveUp \/ Reader!Finish
  <2>1. /\ UNCHANGED <<lines, held, obtained>> /\ reader # "sending" /\ reader' # "sending"
        /\ reader' \in {"ending", "done"} <=> reader \in {"ending", "done"}
    BY <1>4 DEF Reader!Look, Reader!GiveUp, Reader!Finish
  <2>2. Types' /\ Whole'
    BY <1>1, <2>1, SameWay
  <2>3. Ended'
    BY <1>1, <2>1 DEF IInv, Ended, Reader!EndsAlone
  <2> QED
    BY <1>3, <2>2, <2>3 DEF IInv
<1>5. ASSUME NEW x \in Lines, Reader!Obtain(x)
      PROVE  IInv'
  <2>1. /\ obtained' = Append(obtained, x) /\ held' = <<x>> /\ reader' = "sending"
        /\ lines' = lines /\ (reader = "running" \/ reader = "reading")
    BY <1>5 DEF Reader!Obtain
  <2>2. Types' /\ Whole'
    BY <1>1, <2>1, ObtainStep
  <2>3. Ended'
    BY <1>1, <2>1 DEF IInv, Ended
  <2> QED
    BY <1>3, <2>2, <2>3 DEF IInv
<1>6. CASE Reader!Push
  <2>1. /\ reader = "sending" /\ lines' = lines \o held /\ held' = <<>>
        /\ obtained' = obtained /\ reader' \in {"reading", "running"}
    BY <1>6 DEF Reader!Push, Reader!AfterItem
  <2>2. Types' /\ Whole'
    BY <1>1, <2>1, PushStep
  <2>3. Ended'
    BY <1>1, <2>1 DEF IInv, Ended
  <2> QED
    BY <1>3, <2>2, <2>3 DEF IInv
<1>7. CASE Reader!Quit
  <2>1. /\ reader \in {"running", "sending"} /\ rstopCh /\ reader' \in {"ending", "done"}
        /\ held' = <<>> /\ UNCHANGED <<lines, obtained>>
    BY <1>7 DEF Reader!Quit, Reader!AtEnd
  <2>2. Types' /\ Whole'
    BY <1>1, <2>1, QuitStep
  <2>3. Ended'
    BY <1>1, <2>1, Zenon DEF IInv, Ended
  <2> QED
    BY <1>3, <2>2, <2>3 DEF IInv
<1>8. CASE Reader!EndAlone
  <2>1. /\ reader = "reading" /\ reader' \in {"ending", "done"} /\ Reader!EndsAlone
        /\ held' = held
        /\ \/ UNCHANGED <<lines, obtained>>
           \/ \E x \in Lines : lines' = Append(lines, x) /\ obtained' = Append(obtained, x)
    BY <1>8 DEF Reader!EndAlone, Reader!AtEnd
  <2>2. Types' /\ Whole'
    <3>1. CASE UNCHANGED <<lines, obtained>>
      BY <1>1, <2>1, <3>1, SameWay, Zenon
    <3>2. ASSUME NEW x \in Lines, lines' = Append(lines, x), obtained' = Append(obtained, x)
          PROVE  Types' /\ Whole'
      BY <1>1, <2>1, <3>2, ObtainStep
    <3> QED
      BY <2>1, <3>1, <3>2
  <2>3. Ended'
    BY <1>1, <2>1 DEF IInv, Ended, Reader!EndsAlone
  <2> QED
    BY <1>3, <2>2, <2>3 DEF IInv
<1> QED
  BY <1>4, <1>5, <1>6, <1>7, <1>8 DEF ReaderStep

\* The goroutines of the sender.
LEMMA SenderKeeps ==
  ASSUME IInv, SenderStep
  PROVE  IInv'
<1>1. /\ UNCHANGED <<rdr, own, accepted, stopCh, ctxDone>>
      /\ loop # "unstarted" => loop' # "unstarted"
  BY Zenon DEF SenderStep, Sender!FlushLoop, Sender!LoopTick, Sender!LoopFlush, Sender!LoopStop,
         Sender!LoopFinalFlush, Sender!LoopClose, Sender!LoopGoto, Sender!SendBatches,
         Sender!SendBatch, Sender!SendBatchPrepare, Sender!SendBatchDo, Sender!SendBatchOk,
         Sender!SendBatchFail, Sender!FlightGoto
<1>2. Types' /\ Whole'
  BY <1>1, SameWay, Zenon DEF rdr, own, setup
<1>3. MainOrder'
  BY <1>1, Zenon DEF IInv, MainOrder, rdr, own, setup
<1>4. Ended'
  BY <1>1 DEF IInv, Ended, Reader!EndsAlone, rdr, own, setup
<1> QED
  BY <1>2, <1>3, <1>4, Zenon DEF IInv

\* The pipeline goroutine.
LEMMA PipelineKeeps ==
  ASSUME IInv, Pipeline
  PROVE  IInv'
<1>1. CASE PipeCancelled \/ PipeClosed
  <2>1. /\ pipe = "select" /\ pipe' = "done" /\ (ctxDone \/ closed)
        /\ UNCHANGED <<snd, rdr, setup, item, ready, main>>
    BY <1>1 DEF PipeCancelled, PipeClosed
  <2>2. Types' /\ Whole'
    BY <2>1, SameWay, Zenon DEF snd, rdr, setup
  <2>3. MainOrder'
    BY <2>1, Zenon DEF IInv, MainOrder, snd, rdr, setup
  <2>4. Ended'
    BY <2>1 DEF IInv, Ended, Reader!EndsAlone, snd, rdr
  <2> QED
    BY <2>2, <2>3, <2>4 DEF IInv
<1>2. CASE PipeReceive
  <2>1. /\ pipe = "select" /\ lines # <<>> /\ lines' = Tail(lines) /\ item' = <<Head(lines)>>
        /\ pipe' = "send"
        /\ UNCHANGED <<kind, reader, held, obtained, rstopCh, closed, snd, setup, ready, main>>
    BY <1>2 DEF PipeReceive, Reader!Receive
  <2>2. Types' /\ Whole'
    BY <2>1, ReceiveStep, Zenon DEF snd, setup
  <2>3. MainOrder'
    BY <2>1, Zenon DEF IInv, MainOrder, snd, setup
  <2>4. Ended'
    BY <2>1, Zenon DEF IInv, Ended, Reader!EndsAlone, snd
  <2> QED
    BY <2>2, <2>3, <2>4 DEF IInv
<1>3. CASE ProcessLine
  <2>1. /\ pipe = "send" /\ accepted' = Append(accepted, Head(item)) /\ item' = <<>>
        /\ pipe' = "select" /\ UNCHANGED <<ctxDone, loop, stopCh, rdr, setup, ready, main>>
    BY <1>3 DEF ProcessLine, AgentProcessLine, CmdProcessLine, PipeSend, Sender!SendWithContext
  <2>2. Types' /\ Whole'
    BY <2>1, HandOnStep, Zenon DEF rdr, setup
  <2>3. MainOrder'
    BY <2>1, Zenon DEF IInv, MainOrder, rdr, setup
  <2>4. Ended'
    BY <2>1 DEF IInv, Ended, Reader!EndsAlone, rdr
  <2> QED
    BY <2>2, <2>3, <2>4 DEF IInv
<1> QED
  BY <1>1, <1>2, <1>3, Zenon DEF Pipeline

\* What the steps of main leave alone, and how little they do to the rest.
LEMMA MainFrame ==
  ASSUME IInv, Main
  PROVE  /\ UNCHANGED <<program, accepted, item, lines, held, obtained, kind>>
         /\ rstopCh => rstopCh'
         /\ ctxDone => ctxDone'
         /\ closed => closed'
         /\ closed' /\ ~closed => rstopCh'
         /\ \/ pipe' = pipe
            \/ pipe = "unstarted" /\ pipe' = "select"
         /\ \/ reader' = reader
            \/ reader = "unstarted" /\ reader' \in {"running", "reading"}
<1>1. ASSUME NEW from, NEW to, StartReader(from, to)
      PROVE  /\ UNCHANGED <<snd, setup, pipe, item, kind, lines, held, obtained, rstopCh, closed>>
             /\ reader = "unstarted" /\ reader' \in {"running", "reading"}
  BY <1>1 DEF StartReader, Reader!Start
<1>2. ASSUME NEW from, NEW to, StartReaderFails(from) \/ StopReaderEnded(from, to)
                               \/ PipeEnded(from, to) \/ MainTimeout \/ MainReady \/ MainNotReady
      PROVE  UNCHANGED <<snd, rdr, setup, pipe, item>>
  BY <1>2, Zenon DEF StartReaderFails, StopReaderEnded, PipeEnded, MainTimeout, MainReady,
     MainNotReady
<1>3. ASSUME NEW from, NEW to, StartSender(from, to) \/ StopSender(from, to)
                               \/ SenderStopped(from, to) \/ Signal(from, to)
      PROVE  UNCHANGED <<accepted, rdr, setup, pipe, item>> /\ (ctxDone => ctxDone')
  BY <1>3 DEF StartSender, StopSender, SenderStopped, Signal, Sender!Start, Sender!Stop,
              Sender!StopReturn, Sender!CancelCtx
<1>4. ASSUME NEW to, StartPipe("start pipeline", to)
      PROVE  UNCHANGED <<snd, rdr, setup, item>> /\ pipe = "unstarted" /\ pipe' = "select"
  BY <1>4, Zenon DEF StartPipe, Goto, IInv, MainOrder, Starting
<1>5. ASSUME NEW from, NEW to, StopReader(from, to) \/ ReaderStopped(from, to)
      PROVE  /\ UNCHANGED <<snd, setup, pipe, item, kind, lines, held, obtained, reader>>
             /\ (rstopCh => rstopCh') /\ (closed => closed') /\ (closed' /\ ~closed => rstopCh')
  BY <1>5 DEF StopReader, ReaderStopped, Reader!CloseStop, Reader!CloseLines, rdr
<1> USE DEF snd, rdr, setup
<1>6. CASE AgentMain
  BY <1>1, <1>2, <1>3, <1>4, <1>5, <1>6, Zenon DEF AgentMain
<1>7. CASE CmdMain
  BY <1>1, <1>2, <1>3, <1>4, <1>5, <1>7, Zenon DEF CmdMain
<1> QED
  BY <1>6, <1>7 DEF Main

\* main starts and stops in order.
LEMMA MainKeepsOrder ==
  ASSUME IInv, Main
  PROVE  MainOrder'
<1>1. Types /\ MainOrder
  BY DEF IInv
<1>2. program' = program
  BY MainFrame
<1> USE DEF MainOrder, Starting, Serving, Goto, snd, rdr
<1>3. ASSUME StartReader("start reader", "start sender")
      PROVE  MainOrder'
  BY <1>1, <1>2, <1>3, Zenon DEF StartReader, Reader!Start
<1>4. ASSUME StartSender("start sender", "start pipeline")
      PROVE  MainOrder'
  BY <1>1, <1>2, <1>4, Zenon DEF StartSender, Sender!Start, Sender!LoopGoto
<1>5. ASSUME NEW to \in {"set ready", "wait signal"}, StartPipe("start pipeline", to)
      PROVE  MainOrder'
  BY <1>1, <1>2, <1>5, Zenon DEF StartPipe
<1>6. ASSUME program = "agent", MainReady \/ MainNotReady
      PROVE  MainOrder'
  <2>1. UNCHANGED <<rstopCh, stopCh, reader, loop, pipe>>
    BY <1>6, Zenon DEF MainReady, MainNotReady
  <2>2. \/ main = "set ready" /\ main' = "wait signal"
        \/ main = "set not ready" /\ main' = "stop sender" /\ ~ready'
    BY <1>6, Zenon DEF MainReady, MainNotReady, SetReady
  <2> QED
    BY <1>1, <1>2, <1>6, <2>1, <2>2, Zenon
<1>7. ASSUME \/ program = "agent" /\ Signal("wait signal", "set not ready")
             \/ program = "cmd" /\ Signal("wait signal", "stop reader")
      PROVE  MainOrder'
  <2>1. UNCHANGED <<rstopCh, stopCh, reader, loop, pipe, ready>>
    BY <1>7, Zenon DEF Signal, Sender!CancelCtx
  <2>2. \/ program = "agent" /\ main = "wait signal" /\ main' = "set not ready"
        \/ program = "cmd" /\ main = "wait signal" /\ main' = "stop reader"
    BY <1>7, Zenon DEF Signal
  <2> QED
    BY <1>1, <1>2, <2>1, <2>2, Zenon
<1>8. ASSUME NEW from \in {"start reader", "stop sender", "wait sender", "stop reader",
                           "wait reader", "wait pipeline"},
             main = from, ready' = ready,
             main' \in {"stop sender", "wait sender", "stop reader", "wait reader", "wait pipeline",
                        "exited"}
      PROVE  MainOrder'
  BY <1>1, <1>8, Zenon
<1>9. ASSUME NEW from \in {"start reader", "stop sender", "wait sender", "stop reader",
                           "wait reader", "wait pipeline"},
             NEW to \in {"stop sender", "wait sender", "stop reader", "wait reader",
                         "wait pipeline", "exited"},
             \/ StopSender(from, to) \/ SenderStopped(from, to) \/ StopReader(from, to)
             \/ StopReaderEnded(from, to) \/ ReaderStopped(from, to) \/ PipeEnded(from, to)
             \/ StartReaderFails("start reader") \/ MainTimeout
      PROVE  MainOrder'
  <2>1. /\ main \in {"start reader", "stop sender", "wait sender", "stop reader", "wait reader",
                     "wait pipeline"}
        /\ main' \in {"stop sender", "wait sender", "stop reader", "wait reader", "wait pipeline",
                      "exited"}
        /\ ready' = ready
    BY <1>9, Zenon DEF StopSender, SenderStopped, StopReader, StopReaderEnded, ReaderStopped,
                PipeEnded, StartReaderFails, MainTimeout
  <2> QED
    BY <1>8, <2>1, Zenon
<1> HIDE DEF MainOrder, Starting, Serving, Goto, snd, rdr
<1>10. CASE AgentMain
  BY <1>3, <1>4, <1>5, <1>6, <1>7, <1>9, <1>10, Zenon DEF AgentMain
<1>11. CASE CmdMain
  BY <1>3, <1>4, <1>5, <1>7, <1>9, <1>11, Zenon DEF CmdMain
<1> QED
  BY <1>10, <1>11 DEF Main

LEMMA MainKeeps ==
  ASSUME IInv, Main
  PROVE  IInv'
<1>1. Types' /\ Whole'
  BY MainFrame, SameWay
<1>2. MainOrder'
  BY MainKeepsOrder
<1>3. Ended'
  BY MainFrame DEF IInv, Ended, Reader!EndsAlone
<1> QED
  BY <1>1, <1>2, <1>3 DEF IInv

LEMMA Invariance == Spec => []IInv
<1>1. Init => IInv
  <2> SUFFICES ASSUME Init PROVE IInv
    OBVIOUS
  <2>1. program \in {"agent", "cmd"}
    BY SetupsAssumption, Zenon DEF Init
  <2>2. /\ accepted = <<>> /\ item = <<>> /\ lines = <<>> /\ held = <<>> /\ obtained = <<>>
        /\ pipe = "unstarted" /\ reader = "unstarted" /\ ~rstopCh /\ ~stopCh /\ ~closed /\ ~ready
        /\ main = "start reader"
    BY Zenon DEF Init, Sender!Init, Reader!Init
  <2>3. Types
    <3>1. <<>> \in Seq(Lines)
      OBVIOUS
    <3> QED
      BY <2>1, <2>2, <3>1, Zenon DEF Types
  <2>4. Whole
    BY <2>2, <2>3, AllParts, Zenon DEF Whole
  <2>5. MainOrder /\ Ended
    BY <2>2, Zenon DEF MainOrder, Ended, Starting, Serving
  <2> QED
    BY <2>3, <2>4, <2>5 DEF IInv
<1>2. IInv /\ [Next]_vars => IInv'
  <2> SUFFICES ASSUME IInv, [Next]_vars PROVE IInv'
    BY Zenon
  <2>1. CASE UNCHANGED vars
    BY <2>1, Zenon DEF vars, snd, rdr, own, setup, IInv, Types, Whole, All, MainOrder, Ended,
                Reader!EndsAlone
  <2> QED
    BY <2>1, MainKeeps, PipelineKeeps, ReaderKeeps, SenderKeeps DEF Next
<1> QED
  BY <1>1, <1>2, PTL DEF Spec

-----------------------------------------------------------------------------
\* End to end, from the reader to the sender: nothing is repeated, reordered
\* or left out, and only the last line of a reader that is told to stop may be
\* dropped.
THEOREM PipelineInOrderInvariant == Spec => []PipelineInOrder
<1>1. IInv => PipelineInOrder
  <2> SUFFICES ASSUME IInv PROVE PipelineInOrder
    OBVIOUS
  <2>1. Types /\ All \in Seq(Lines) /\ Len(All) \in Nat
    BY AllParts DEF IInv
  <2>2. CASE obtained = All
    <3>1. SubSeq(obtained, 1, Len(All)) = All
      BY <2>1, <2>2, SubSeqFull
    <3>2. Len(All) <= Len(obtained) /\ ~(Len(All) < Len(obtained))
      BY <2>1, <2>2
    <3> QED
      BY <3>1, <3>2, Zenon DEF PipelineInOrder, All
  <2>3. CASE /\ rstopCh /\ reader \in {"ending", "done"}
             /\ \E x \in Lines : obtained = Append(All, x)
    <3>1. PICK x \in Lines : obtained = Append(All, x)
      BY <2>3
    <3>2. Len(obtained) = Len(All) + 1 /\ \A i \in 1..Len(All) : obtained[i] = All[i]
      BY <2>1, <3>1, AppendProperties
    <3>3. SubSeq(obtained, 1, Len(All)) = All
      <4>1. \A i \in 1..Len(All) : obtained[i] \in Lines
        BY <2>1, <3>2
      <4>2. /\ SubSeq(obtained, 1, Len(All)) \in Seq(Lines)
            /\ Len(SubSeq(obtained, 1, Len(All))) = Len(All)
            /\ \A i \in 1..Len(All) : SubSeq(obtained, 1, Len(All))[i] = All[i]
        BY <2>1, <3>2, <4>1
      <4> QED
        BY <2>1, <4>2, SeqEqual, Zenon
    <3>4. Len(All) <= Len(obtained) /\ Len(All) + 1 = Len(obtained)
      BY <2>1, <3>2
    <3> QED
      BY <2>3, <3>3, <3>4, Zenon DEF PipelineInOrder, All
  <2> QED
    BY <2>2, <2>3 DEF IInv, Whole
<1> QED
  BY <1>1, Invariance, PTL

\* cmd/agent.go reports ready only while everything has been started and
\* nothing was told to stop.
THEOREM ReadyMeansServingInvariant == Spec => []ReadyMeansServing
<1>1. IInv => ReadyMeansServing
  BY Zenon DEF IInv, MainOrder, Ended, Starting, Serving, ReadyMeansServing
<1> QED
  BY <1>1, Invariance, PTL

-----------------------------------------------------------------------------
\* The programs use the sender as HTTPSender has it used, so that what is
\* proved of HTTPSender holds in them.
THEOREM UsesSender == Spec => Sender!Spec
<1>1. Init => Sender!Init
  BY Zenon DEF Init
<1>2. IInv /\ [Next]_vars => [Sender!Next]_(Sender!vars)
  <2> SUFFICES ASSUME IInv, [Next]_vars
               PROVE  Sender!Next \/ UNCHANGED Sender!vars
    OBVIOUS
  <2>1. CASE SenderStep
    BY <2>1, Zenon DEF SenderStep, Sender!Next
  <2>2. CASE ReaderStep \/ PipeCancelled \/ PipeReceive \/ PipeClosed \/ UNCHANGED vars
    BY <2>2 DEF ReaderStep, PipeCancelled, PipeReceive, PipeClosed, vars, snd, Sender!vars
  <2>3. CASE ProcessLine
    <3>1. PICK ctx \in Sender!Contexts, n \in {0, 1} : PipeSend(ctx, n)
      BY <2>3, Zenon DEF ProcessLine, AgentProcessLine, CmdProcessLine, Sender!Contexts
    <3>2. Sender!SendWithContext(Head(item), ctx) /\ Head(item) \in Lines
      BY <3>1 DEF PipeSend, IInv, Types
    <3> QED
      BY <3>2 DEF Sender!Next
  <2>4. ASSUME NEW from, NEW to,
               \/ StartReader(from, to) \/ StartReaderFails(from) \/ StartPipe(from, to)
               \/ StopReader(from, to) \/ StopReaderEnded(from, to) \/ ReaderStopped(from, to)
               \/ PipeEnded(from, to) \/ MainReady \/ MainNotReady \/ MainTimeout
        PROVE  UNCHANGED Sender!vars
    BY <2>4, Zenon DEF StartReader, StartReaderFails, StartPipe, StopReader, StopReaderEnded,
                ReaderStopped, PipeEnded, MainReady, MainNotReady, MainTimeout, snd, Sender!vars
  <2>5. ASSUME NEW from, NEW to,
               \/ StartSender(from, to) \/ Signal(from, to) \/ StopSender(from, to)
               \/ SenderStopped(from, to)
        PROVE  Sender!Next
    BY <2>5, Zenon DEF StartSender, Signal, StopSender, SenderStopped, Sender!Next
  <2>6. CASE Main
    BY <2>4, <2>5, <2>6, Zenon DEF Main, AgentMain, CmdMain
  <2> QED
    BY <2>1, <2>2, <2>3, <2>6 DEF Next, Pipeline
<1> QED
  BY <1>1, <1>2, Invariance, PTL DEF Spec, Sender!Spec

\* The programs use the reader as LineSource has it used, which is what the
\* four readers implement: it is started once, before its channel is read, and
\* Stop closes its channels once and in order.
THEOREM UsesReader == Spec => Reader!Spec
<1>1. Init => Reader!Init
  BY SetupsAssumption, Zenon DEF Init
<1>2. [Next]_vars => [Reader!Next]_(Reader!svars)
  <2> SUFFICES ASSUME [Next]_vars
               PROVE  Reader!Next \/ UNCHANGED Reader!svars
    OBVIOUS
  <2>1. CASE ReaderStep \/ PipeReceive
    BY <2>1, Zenon DEF ReaderStep, PipeReceive, Reader!Next
  <2>2. CASE SenderStep \/ PipeCancelled \/ PipeClosed \/ ProcessLine \/ UNCHANGED vars
    BY <2>2, Zenon DEF SenderStep, PipeCancelled, PipeClosed, ProcessLine, AgentProcessLine,
                CmdProcessLine, PipeSend, vars, rdr, Reader!svars
  <2>3. ASSUME NEW from, NEW to,
               \/ StartReaderFails(from) \/ StartSender(from, to) \/ StartPipe(from, to)
               \/ Signal(from, to) \/ StopSender(from, to) \/ SenderStopped(from, to)
               \/ StopReaderEnded(from, to) \/ PipeEnded(from, to)
               \/ MainReady \/ MainNotReady \/ MainTimeout
        PROVE  UNCHANGED Reader!svars
    BY <2>3, Zenon DEF StartReaderFails, StartSender, StartPipe, Signal, StopSender, SenderStopped,
                StopReaderEnded, PipeEnded, MainReady, MainNotReady, MainTimeout, rdr,
                Reader!svars
  <2>4. ASSUME NEW from, NEW to,
               StartReader(from, to) \/ StopReader(from, to) \/ ReaderStopped(from, to)
        PROVE  Reader!Next \/ UNCHANGED Reader!svars
    BY <2>4, Zenon DEF StartReader, StopReader, ReaderStopped, rdr, Reader!Next, Reader!svars
  <2>5. CASE Main
    BY <2>3, <2>4, <2>5, Zenon DEF Main, AgentMain, CmdMain
  <2> QED
    BY <2>1, <2>2, <2>5 DEF Next, Pipeline
<1> QED
  BY <1>1, <1>2, PTL DEF Spec, Reader!Spec

SenderProofs == INSTANCE HTTPSenderProofs WITH Stoppers <- {"main"}

\* The two instances of HTTPSender are one specification.
LEMMA SameSender == Sender!Spec => SenderProofs!Spec
<1>1. Sender!Init => SenderProofs!Init
  BY Zenon DEF Sender!Init, SenderProofs!Init, Sender!NewHTTPSender, SenderProofs!NewHTTPSender,
         Sender!NewSecureHTTPSender, SenderProofs!NewSecureHTTPSender
<1>2. Sender!Next => SenderProofs!Next
  BY Zenon DEF Sender!Next, SenderProofs!Next, Sender!Contexts, SenderProofs!Contexts,
         Sender!SendWithContext, SenderProofs!SendWithContext, Sender!FlushLocked,
         SenderProofs!FlushLocked, Sender!Handed, SenderProofs!Handed, Sender!CancelCtx,
         SenderProofs!CancelCtx, Sender!Start, SenderProofs!Start, Sender!FlushLoop,
         SenderProofs!FlushLoop, Sender!LoopTick, SenderProofs!LoopTick, Sender!LoopFlush,
         SenderProofs!LoopFlush, Sender!LoopStop, SenderProofs!LoopStop, Sender!LoopFinalFlush,
         SenderProofs!LoopFinalFlush, Sender!LoopClose, SenderProofs!LoopClose, Sender!LoopGoto,
         SenderProofs!LoopGoto, Sender!Stop, SenderProofs!Stop, Sender!StopReturn,
         SenderProofs!StopReturn, Sender!SendBatches, SenderProofs!SendBatches, Sender!SendBatch,
         SenderProofs!SendBatch, Sender!SendBatchPrepare, SenderProofs!SendBatchPrepare,
         Sender!SendBatchDo, SenderProofs!SendBatchDo, Sender!SendBatchOk,
         SenderProofs!SendBatchOk, Sender!SendBatchFail, SenderProofs!SendBatchFail,
         Sender!FlightGoto, SenderProofs!FlightGoto, Sender!Cancelled, SenderProofs!Cancelled
<1>3. [Sender!Next]_(Sender!vars) => [SenderProofs!Next]_(SenderProofs!vars)
  <2>1. UNCHANGED Sender!vars => UNCHANGED SenderProofs!vars
    BY DEF Sender!vars, SenderProofs!vars
  <2> QED
    BY <1>2, <2>1, Zenon
<1> QED
  BY <1>1, <1>3, PTL DEF Sender!Spec, SenderProofs!Spec

\* The lines of the requests, in the order the sender made them, are the lines
\* the reader obtained, from the first on: what is posted skips, repeats and
\* reorders nothing on the whole way from the reader to the request.
RequestsFollowReader ==
  \A k \in 1..Len(flights) :
     /\ flights[k].off =
          IF k = 1 THEN 0 ELSE flights[k - 1].off + Len(flights[k - 1].logs)
     /\ \A i \in 1..Len(flights[k].logs) :
           /\ flights[k].off + i \in 1..Len(obtained)
           /\ flights[k].logs[i] = obtained[flights[k].off + i]

\* In either program, whatever reader it runs and however it is shut down, the
\* requests carry a gapless beginning of what the reader obtained.
THEOREM RequestsFollowReaderInvariant == Spec => []RequestsFollowReader
<1>1. IInv /\ SenderProofs!IInv => RequestsFollowReader
  <2>0. SenderProofs!IInv =>
          \A k \in 1..Len(flights) :
             flights[k].off =
               IF k = 1 THEN 0 ELSE flights[k - 1].off + Len(flights[k - 1].logs)
    BY Zenon DEF SenderProofs!IInv, SenderProofs!BatchesPartitionAccepted, SenderProofs!Spell
  <2> SUFFICES ASSUME IInv, SenderProofs!IInv,
                      NEW k \in 1..Len(flights), NEW i \in 1..Len(flights[k].logs)
               PROVE  /\ flights[k].off + i \in 1..Len(obtained)
                      /\ flights[k].logs[i] = obtained[flights[k].off + i]
    BY <2>0, Zenon DEF RequestsFollowReader
  <2>1. /\ flights[k].off + i \in 1..Len(accepted)
        /\ flights[k].logs[i] = accepted[flights[k].off + i]
    <3>1. flights[k].off + i \in 1..Len(accepted)
      <4>1. /\ SenderProofs!TypeOK /\ SenderProofs!OffsetsOrdered
            /\ Len(accepted) = SenderProofs!Handed + Len(batch)
        BY Zenon DEF SenderProofs!IInv, SenderProofs!BatchesPartitionAccepted, SenderProofs!Spell
      <4> QED
        BY <4>1, SenderProofs!InAccepted, SizesAssumption, Zenon
    <3>2. flights[k].logs[i] = accepted[flights[k].off + i]
      BY Zenon DEF SenderProofs!IInv, SenderProofs!BatchesPartitionAccepted, SenderProofs!Spell
    <3> QED
      BY <3>1, <3>2, Zenon
  <2>2. /\ Len(accepted) <= Len(obtained)
        /\ \A j \in 1..Len(accepted) : obtained[j] = accepted[j]
    <3> DEFINE rest == item \o lines \o held
    <3>1. Types /\ All \in Seq(Lines) /\ accepted \in Seq(Lines)
      BY AllParts, Zenon DEF IInv, Types
    <3>2. rest \in Seq(Lines) /\ All = accepted \o rest
      BY <3>1, AcceptedFirst, Zenon
    <3> HIDE DEF rest
    <3>3. /\ Len(accepted) <= Len(All)
          /\ \A j \in 1..Len(accepted) : All[j] = accepted[j]
      BY <3>1, <3>2, ConcatProperties
    <3>4. CASE obtained = All
      BY <3>3, <3>4, Zenon
    <3>5. CASE \E x \in Lines : obtained = Append(All, x)
      BY <3>1, <3>3, <3>5, AppendProperties
    <3> QED
      BY <3>4, <3>5, Zenon DEF IInv, Whole
  <2> QED
    BY <2>1, <2>2
<1>2. Spec => []SenderProofs!IInv
  BY UsesSender, SameSender, SenderProofs!Invariance, SizesAssumption, PTL
<1> QED
  BY <1>1, <1>2, Invariance, PTL

\* In either program the server takes no line twice, and what the sender had
\* accepted when main called Stop is in a request when Stop returns.
THEOREM SenderPromisesKept ==
  Spec => [](Sender!ServerTakesLineOnce /\ Sender!StopHandsOverAccepted)
<1>1. SenderProofs!ServerTakesLineOnce => Sender!ServerTakesLineOnce
  BY DEF SenderProofs!ServerTakesLineOnce, Sender!ServerTakesLineOnce
<1>2. SenderProofs!StopHandsOverAccepted => Sender!StopHandsOverAccepted
  BY DEF SenderProofs!StopHandsOverAccepted, Sender!StopHandsOverAccepted,
         SenderProofs!Handed, Sender!Handed
<1> QED
  BY <1>1, <1>2, UsesSender, SameSender, SenderProofs!AtMostOnce, SenderProofs!StopFlushes,
     SizesAssumption, PTL
=============================================================================
