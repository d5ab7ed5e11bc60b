------------------------ MODULE PlatformReaderProofs ------------------------
(***************************************************************************)
(* The safety properties of the Windows and the macOS reader, and that     *)
(* they implement LineSource, for any number of callers of Start and Stop, *)
(* any number of items and any capacity of the channel.                    *)
(***************************************************************************)
EXTENDS PlatformReader, TLAPS

Types ==
  /\ platform \in {"windows", "macos"} /\ running \in BOOLEAN
  /\ stopCh \in BOOLEAN /\ stoppedCh \in BOOLEAN /\ closed \in BOOLEAN
  /\ lines \in Seq(0..MaxItems) /\ Len(lines) <= Cap
  /\ last \in 0..MaxItems /\ out \in 0..MaxItems
  /\ closing \in Nat
  /\ call \in [Callers -> {"idle", "close", "wait"}]
  /\ obtained \in Seq(0..MaxItems)

\* The goroutine of the one Start: where it is, what it holds the lock for,
\* and what is left of it.
OneGoroutine ==
  /\ pc \in {"none", "send", "ending"} \cup
            (IF platform = "windows" THEN {"loop"} ELSE {"read", "reaping"})
  /\ running <=> pc # "none"
  /\ starts = 0 => pc = "none" /\ ~stoppedCh /\ out = 0
  /\ closing = IF starts = 1 /\ pc = "none" /\ ~stoppedCh THEN 1 ELSE 0
  /\ stoppedCh => pc = "none"
  /\ pc = "none" => cmd = "none"

\* One call of Stop at a time: the one that finds the reader running closes
\* stopCh, and lines when it returns.
OneStop ==
  /\ \A c, d \in Callers : call[c] # "idle" /\ call[d] # "idle" => c = d
  /\ \A c \in Callers : /\ call[c] = "close" => ~stopCh /\ starts = 1
                        /\ call[c] = "wait" => stopCh /\ ~closed
  /\ stopCh => closed \/ \E c \in Callers : call[c] = "wait"
  /\ closed => stopCh /\ stoppedCh

\* The items are obtained one after the other, and last is the one sent
\* before.
Numbered(n) == Len(obtained) = n /\ \A i \in 1..n : obtained[i] = i

InSequence ==
  /\ starts = 0 => Numbered(0)
  /\ pc \in {"loop", "read"} => Numbered(last) /\ held = <<>>
  /\ pc = "send" => Numbered(last + 1) /\ held = <<last + 1>> /\ last < MaxItems
  /\ pc \in {"none", "ending", "reaping"} => held = <<>>
  /\ \A i \in 1..Len(obtained) :
        obtained[i] = i \/ (i = Len(obtained) /\ obtained[i] = ErrorLine)

UsedOnce ==
  /\ ~panicked
  /\ Types
  /\ OneGoroutine
  /\ OneStop
  /\ InSequence

\* The inductive invariant: as long as the reader is used as it is meant to
\* be.  Misuse is never taken back.
IInv ==
  /\ starts \in Nat /\ overlap \in BOOLEAN
  /\ ~Misused => UsedOnce

-----------------------------------------------------------------------------
\* A step that is not a misuse is taken in a state that is not one either.
LEMMA MisuseStays ==
  ASSUME IInv, [Next]_vars
  PROVE  /\ starts' \in Nat /\ overlap' \in BOOLEAN
         /\ ~Misused' => ~Misused /\ UsedOnce
<1>1. CASE UNCHANGED <<starts, overlap>>
  BY <1>1 DEF IInv, Misused
<1>2. ASSUME NEW c \in Callers, StartWindows(c) \/ StartMacOS(c)
      PROVE  starts' = starts + 1 /\ overlap' = overlap
  BY <1>2 DEF StartWindows, StartMacOS
<1>3. ASSUME NEW c \in Callers, StopCheck(c)
      PROVE  starts' = starts /\ overlap' \in BOOLEAN /\ (overlap => overlap')
  BY <1>3 DEF StopCheck, IInv
<1>4. CASE \E c \in Callers : StopGoesOn(c)
  BY <1>1, <1>4 DEF StopGoesOn, StopClose, StopReturn, hist
<1>5. CASE Goroutine
  BY <1>1, <1>5 DEF Goroutine, ReadItem, LoopQuit, ScanEnds, ScanFails, SendItem, SendQuit,
                    SignalCommand, Unlock, CloseStopped, hist
<1>6. CASE CmdWrites \/ CmdExits \/ Receive
  BY <1>1, <1>6 DEF CmdWrites, CmdExits, Receive, hist
<1>7. CASE UNCHANGED vars
  BY <1>1, <1>7 DEF vars, hist
<1> QED
  BY <1>2, <1>3, <1>4, <1>5, <1>6, <1>7 DEF Next, Calls, IInv, Misused

\* Start, if it is the first.
LEMMA StartStep ==
  ASSUME UsedOnce, starts \in Nat, NEW c \in Callers, StartWindows(c) \/ StartMacOS(c), ~Misused'
  PROVE  UsedOnce'
<1> USE PlatformReaderAssumption
<1>1. starts = 0 /\ starts' = 1 /\ pc = "none" /\ ~running
  BY DEF StartWindows, StartMacOS, Misused, UsedOnce, OneGoroutine
<1>2. UNCHANGED <<stopCh, stoppedCh, closed, lines, held, closing, out, call, panicked,
                  obtained, platform>>
  BY DEF StartWindows, StartMacOS, chans, command
<1>3. Types' /\ ~panicked'
  <2>1. last' \in 0..MaxItems
    BY DEF UsedOnce, Types, StartWindows, StartMacOS
  <2>2. running' = TRUE
    BY DEF StartWindows, StartMacOS
  <2> QED
    BY <1>2, <2>1, <2>2 DEF UsedOnce, Types
<1>4. OneGoroutine'
  BY <1>1, <1>2 DEF UsedOnce, Types, OneGoroutine, StartWindows, StartMacOS
<1>5. OneStop'
  BY <1>1, <1>2 DEF UsedOnce, OneStop
<1>6. InSequence'
  <2>1. Numbered(0) /\ held = <<>> /\ last' = 0 /\ pc' \in {"loop", "read"} /\ obtained' = obtained
    BY <1>1, <1>2 DEF UsedOnce, InSequence, OneGoroutine, StartWindows, StartMacOS
  <2> QED
    BY <1>1, <1>2, <2>1 DEF InSequence, Numbered
<1> QED
  BY <1>3, <1>4, <1>5, <1>6 DEF UsedOnce

\* Stop, if it is the only one.
LEMMA StopStep ==
  ASSUME UsedOnce, starts \in Nat, NEW c \in Callers, StopCheck(c) \/ StopGoesOn(c), ~Misused'
  PROVE  UsedOnce'
<1>1. UNCHANGED <<platform, running, stoppedCh, lines, pc, last, held, closing, cmd, out,
                  starts, obtained>>
  BY DEF StopCheck, StopGoesOn, StopClose, StopReturn, goroutine, command, hist, chans
<1>2. InSequence'
  BY <1>1 DEF UsedOnce, InSequence, Numbered
<1>3. OneGoroutine'
  BY <1>1 DEF UsedOnce, OneGoroutine
<1>4. CASE StopCheck(c)
  <2>1. /\ \A d \in Callers \ {c} : call[d] = "idle"
        /\ call' = [call EXCEPT ![c] = "close"] /\ call[c] = "idle"
        /\ UNCHANGED <<stopCh, closed, panicked>> /\ running
    BY <1>4, Zenon DEF StopCheck, Misused, chans
  <2>2. Types'
    BY <1>1, <2>1 DEF UsedOnce, Types
  <2>3. ~stopCh /\ starts # 0
    BY <2>1 DEF UsedOnce, OneStop, OneGoroutine
  <2>4. starts = 1
    BY <1>1, <2>3 DEF Misused
  <2>5. OneStop'
    BY <1>1, <2>1, <2>3, <2>4 DEF UsedOnce, OneStop, Types
  <2> QED
    BY <1>2, <1>3, <2>1, <2>2, <2>5 DEF UsedOnce
<1>5. CASE StopClose(c)
  <2>1. Types' /\ ~panicked'
    BY <1>1, <1>5 DEF UsedOnce, Types, OneStop, StopClose
  <2>2. OneStop'
    BY <1>1, <1>5 DEF UsedOnce, Types, OneStop, StopClose
  <2> QED
    BY <1>2, <1>3, <2>1, <2>2 DEF UsedOnce
<1>6. CASE StopReturn(c)
  <2>1. Types' /\ ~panicked'
    BY <1>1, <1>6 DEF UsedOnce, Types, OneStop, StopReturn
  <2>2. OneStop'
    BY <1>1, <1>6 DEF UsedOnce, Types, OneStop, StopReturn
  <2> QED
    BY <1>2, <1>3, <2>1, <2>2 DEF UsedOnce
<1> QED
  BY <1>4, <1>5, <1>6 DEF StopGoesOn

\* The steps of the goroutine.
LEMMA GoroutineStep ==
  ASSUME UsedOnce, starts \in Nat, Goroutine, ~Misused, UNCHANGED <<starts, overlap>>
  PROVE  UsedOnce'
<1> USE PlatformReaderAssumption
<1>1. starts \in {0, 1}
  BY DEF Misused
<1>2. CASE ReadItem
  <2>1. starts = 1 /\ ~closed /\ pc \in {"loop", "read"} /\ last + 1 \in 0..MaxItems
    BY <1>1, <1>2 DEF ReadItem, UsedOnce, OneGoroutine, OneStop, Types
  <2>2. UNCHANGED <<platform, running, stopCh, stoppedCh, closed, lines, last, closing, cmd, out,
                    call, panicked>>
    BY <1>2 DEF ReadItem, chans, command
  <2>3. Types'
    BY <1>2, <2>1, <2>2 DEF ReadItem, UsedOnce, Types
  <2>4. OneGoroutine' /\ OneStop'
    BY <1>2, <2>1, <2>2 DEF ReadItem, UsedOnce, OneGoroutine, OneStop
  <2>5. InSequence'
    <3>1. Numbered(last) /\ obtained' = Append(obtained, last + 1)
      BY <1>2, <2>1 DEF ReadItem, UsedOnce, InSequence
    <3>2. Numbered(last + 1)'
      BY <2>1, <2>2, <3>1 DEF Numbered, UsedOnce, Types
    <3> QED
      BY <1>2, <2>1, <2>2, <3>2 DEF ReadItem, InSequence, Numbered
  <2> QED
    BY <2>2, <2>3, <2>4, <2>5 DEF UsedOnce
<1>3. CASE LoopQuit \/ ScanEnds \/ SendQuit
  <2>1. /\ starts = 1 /\ pc \in {"loop", "read", "send"} /\ pc' = "ending" /\ held' = <<>>
        /\ UNCHANGED <<platform, running, stopCh, stoppedCh, closed, lines, last, closing, cmd,
                       out, call, panicked, obtained>>
    BY <1>1, <1>3 DEF LoopQuit, ScanEnds, SendQuit, UsedOnce, OneGoroutine, InSequence, chans,
                      command, hist
  <2>2. Types' /\ OneGoroutine' /\ OneStop'
    BY <2>1 DEF UsedOnce, Types, OneGoroutine, OneStop
  <2>3. InSequence'
    BY <2>1 DEF UsedOnce, InSequence, Numbered
  <2> QED
    BY <2>1, <2>2, <2>3 DEF UsedOnce
<1>4. CASE ScanFails
  <2> DEFINE note == IF stopCh \/ Len(lines) = Cap THEN <<>> ELSE <<ErrorLine>>
  <2>1. /\ starts = 1 /\ pc = "read" /\ pc' = "ending"
        /\ lines' = lines \o note /\ obtained' = obtained \o note
        /\ UNCHANGED <<platform, running, stopCh, stoppedCh, closed, last, held, closing, cmd,
                       out, call, panicked>>
    BY <1>1, <1>4 DEF ScanFails, UsedOnce, OneGoroutine, chans, command
  <2>2. note = <<>> \/ (note = <<0>> /\ Len(lines) # Cap)
    BY DEF ErrorLine
  <2> HIDE DEF note
  <2>3. lines' \in Seq(0..MaxItems) /\ obtained' \in Seq(0..MaxItems) /\ Len(lines') <= Cap
    <3>1. lines \in Seq(0..MaxItems) /\ obtained \in Seq(0..MaxItems) /\ Len(lines) <= Cap
      BY DEF UsedOnce, Types
    <3>2. CASE note = <<>>
      BY <2>1, <3>1, <3>2
    <3>3. CASE note = <<0>> /\ Len(lines) # Cap
      <4>1. 0 \in 0..MaxItems
        OBVIOUS
      <4>2. <<0>> \in Seq(0..MaxItems) /\ Len(<<0>>) = 1
        BY <4>1
      <4> QED
        BY <2>1, <3>1, <3>3, <4>2
    <3> QED
      BY <2>2, <3>2, <3>3
  <2>4. Types'
    BY <2>1, <2>3 DEF UsedOnce, Types
  <2>5. OneGoroutine' /\ OneStop'
    BY <2>1 DEF UsedOnce, OneGoroutine, OneStop
  <2>6. InSequence'
    <3>1. Numbered(last) /\ held = <<>> /\ last \in Nat /\ obtained \in Seq(0..MaxItems)
      BY <2>1 DEF UsedOnce, InSequence, Types
    <3>2. CASE note = <<>>
      <4>1. obtained' = obtained
        BY <2>1, <3>1, <3>2
      <4> QED
        BY <2>1, <3>1, <4>1 DEF InSequence, Numbered
    <3>3. CASE note = <<0>>
      <4>1. /\ Len(obtained') = last + 1 /\ obtained'[last + 1] = 0
            /\ \A i \in 1..last : obtained'[i] = i
        BY <2>1, <3>1, <3>3 DEF Numbered
      <4> QED
        BY <2>1, <3>1, <4>1 DEF InSequence, ErrorLine
    <3> QED
      BY <2>2, <3>2, <3>3
  <2> QED
    BY <2>1, <2>4, <2>5, <2>6 DEF UsedOnce
<1>5. CASE SendItem
  <2>1. starts = 1 /\ ~closed /\ pc = "send" /\ held = <<last + 1>> /\ last < MaxItems
    BY <1>1, <1>5 DEF SendItem, UsedOnce, OneGoroutine, OneStop, InSequence
  <2>2. /\ lines' = lines \o <<last + 1>> /\ Len(lines) < Cap
        /\ last' = last + 1 /\ held' = <<>> /\ ~panicked'
        /\ pc' = IF platform = "windows" THEN "loop" ELSE "read"
        /\ UNCHANGED <<platform, running, stopCh, stoppedCh, closed, closing, cmd, out, call,
                       obtained>>
    BY <1>5, <2>1 DEF SendItem, chans, command, hist
  <2>3. Types'
    BY <2>1, <2>2 DEF UsedOnce, Types
  <2>4. OneGoroutine' /\ OneStop'
    BY <2>1, <2>2 DEF UsedOnce, Types, OneGoroutine, OneStop
  <2>5. InSequence'
    BY <2>1, <2>2 DEF UsedOnce, InSequence, Numbered
  <2> QED
    BY <2>2, <2>3, <2>4, <2>5 DEF UsedOnce
<1>6. CASE SignalCommand \/ Unlock
  <2>1. /\ starts = 1 /\ pc \in {"ending", "reaping"}
        /\ UNCHANGED <<platform, stopCh, stoppedCh, closed, lines, last, held, out, call,
                       panicked, obtained>>
    BY <1>1, <1>6 DEF SignalCommand, Unlock, UsedOnce, OneGoroutine, Types, chans, hist
  <2>2. Types'
    <3>1. closing' \in {closing, closing + 1}
      BY <1>6 DEF SignalCommand, Unlock
    <3>2. running' = running \/ running' = FALSE
      BY <1>6 DEF SignalCommand, Unlock
    <3>3. closing' \in Nat
      BY <3>1 DEF UsedOnce, Types
    <3>4. running' \in BOOLEAN
      BY <3>2, Zenon DEF UsedOnce, Types
    <3> QED
      BY <2>1, <3>3, <3>4 DEF UsedOnce, Types
  <2>3. OneGoroutine'
    BY <1>1, <1>6, <2>1 DEF SignalCommand, Unlock, UsedOnce, Types, OneGoroutine
  <2>4. OneStop'
    BY <2>1 DEF UsedOnce, OneStop
  <2>5. InSequence'
    BY <1>6, <2>1 DEF SignalCommand, Unlock, UsedOnce, InSequence, Numbered
  <2> QED
    BY <2>1, <2>2, <2>3, <2>4, <2>5 DEF UsedOnce
<1>7. CASE CloseStopped
  <2>1. /\ starts = 1 /\ pc = "none" /\ ~stoppedCh /\ closing' = 0 /\ stoppedCh' = TRUE
        /\ ~panicked'
        /\ UNCHANGED <<platform, running, stopCh, closed, lines, pc, last, held, cmd, out, call,
                       obtained>>
    BY <1>1, <1>7 DEF CloseStopped, UsedOnce, OneGoroutine, command, hist
  <2>2. Types'
    BY <2>1 DEF UsedOnce, Types
  <2>3. OneGoroutine' /\ OneStop'
    BY <1>1, <2>1 DEF UsedOnce, OneGoroutine, OneStop
  <2>4. InSequence'
    BY <2>1 DEF UsedOnce, InSequence, Numbered
  <2> QED
    BY <2>1, <2>2, <2>3, <2>4 DEF UsedOnce
<1> QED
  BY <1>2, <1>3, <1>4, <1>5, <1>6, <1>7 DEF Goroutine

\* The invariant holds of every state.
LEMMA Invariance == Spec => []IInv
<1>1. Init => IInv
  <2> SUFFICES ASSUME Init PROVE IInv
    OBVIOUS
  <2>1. Types
    <3>1. 0 \in 0..MaxItems /\ <<>> \in Seq(0..MaxItems) /\ Len(<<>>) <= Cap
      BY PlatformReaderAssumption
    <3>2. call \in [Callers -> {"idle", "close", "wait"}]
      BY DEF Init
    <3> QED
      BY <3>1, <3>2, Zenon DEF Init, Types
  <2>2. OneGoroutine /\ OneStop
    BY DEF Init, OneGoroutine, OneStop
  <2>3. InSequence
    BY DEF Init, InSequence, Numbered
  <2> QED
    BY <2>1, <2>2, <2>3, Zenon DEF Init, IInv, UsedOnce
<1>2. IInv /\ [Next]_vars => IInv'
  <2> SUFFICES ASSUME IInv, [Next]_vars, ~Misused' PROVE UsedOnce'
    BY MisuseStays DEF IInv
  <2>1. UsedOnce /\ ~Misused /\ starts \in Nat
    BY MisuseStays DEF IInv
  <2>2. ASSUME NEW c \in Callers, Calls(c) \/ StopGoesOn(c) PROVE UsedOnce'
    BY <2>1, <2>2, StartStep, StopStep DEF Calls
  <2>3. CASE Goroutine
    <3>1. UNCHANGED <<starts, overlap>>
      BY <2>3 DEF Goroutine, ReadItem, LoopQuit, ScanEnds, ScanFails, SendItem, SendQuit,
                  SignalCommand, Unlock, CloseStopped, hist
    <3> QED
      BY <2>1, <2>3, <3>1, GoroutineStep, Zenon
  <2>4. CASE CmdWrites \/ CmdExits
    <3>1. /\ pc # "none" /\ out' \in 0..MaxItems
          /\ UNCHANGED <<platform, running, stopCh, stoppedCh, closed, lines, pc, last, held,
                         closing, call, panicked, starts, obtained>>
      BY <2>1, <2>4, PlatformReaderAssumption
         DEF CmdWrites, CmdExits, UsedOnce, OneGoroutine, Types, chans, goroutine, hist
    <3>2. Types' /\ OneStop'
      BY <2>1, <3>1 DEF UsedOnce, Types, OneStop
    <3>3. OneGoroutine'
      BY <2>1, <3>1 DEF UsedOnce, OneGoroutine
    <3>4. InSequence'
      BY <2>1, <3>1 DEF UsedOnce, InSequence, Numbered
    <3> QED
      BY <2>1, <3>1, <3>2, <3>3, <3>4 DEF UsedOnce
  <2>5. CASE Receive
    <3>1. /\ lines # <<>> /\ lines' = Tail(lines)
          /\ UNCHANGED <<platform, running, stopCh, stoppedCh, closed, pc, last, held, closing,
                         cmd, out, call, panicked, starts, obtained>>
      BY <2>5 DEF Receive, chans, goroutine, command, hist
    <3>2. Types'
      BY <2>1, <3>1, PlatformReaderAssumption DEF UsedOnce, Types
    <3>3. OneGoroutine' /\ OneStop'
      BY <2>1, <3>1 DEF UsedOnce, OneGoroutine, OneStop
    <3>4. InSequence'
      BY <2>1, <3>1, Zenon DEF UsedOnce, InSequence, Numbered
    <3> QED
      BY <2>1, <3>1, <3>2, <3>3, <3>4 DEF UsedOnce
  <2>6. CASE UNCHANGED vars
    BY <2>1, <2>6 DEF vars, chans, goroutine, command, hist, UsedOnce, Types, OneGoroutine,
                      OneStop, InSequence, Numbered
  <2> QED
    BY <2>2, <2>3, <2>4, <2>5, <2>6 DEF Next
<1> QED
  BY <1>1, <1>2, PTL DEF Spec

-----------------------------------------------------------------------------
\* No call of Start or Stop makes the process panic, unless calls of Stop
\* overlap or a reader that has ended is started again.
THEOREM PanicOnlyOnMisuseInvariant == Spec => []PanicOnlyOnMisuse
<1>1. IInv => PanicOnlyOnMisuse
  BY DEF IInv, UsedOnce, PanicOnlyOnMisuse
<1> QED
  BY <1>1, Invariance, PTL

\* When Stop has closed the channel, neither goroutine nor command is left.
THEOREM StopLeavesNothingInvariant == Spec => []StopLeavesNothing
<1>1. IInv => StopLeavesNothing
  BY DEF IInv, UsedOnce, OneGoroutine, OneStop, StopLeavesNothing
<1> QED
  BY <1>1, Invariance, PTL

\* The items are obtained once each and in order.
THEOREM ItemsConsecutiveInvariant == Spec => []ItemsConsecutive
<1>1. IInv => ItemsConsecutive
  BY DEF IInv, UsedOnce, InSequence, ItemsConsecutive
<1> QED
  BY <1>1, Invariance, PTL

-----------------------------------------------------------------------------
\* A call of Start, or a step of Stop, is one of LineSource or changes nothing
\* that LineSource has.
LEMMA CallMaps ==
  ASSUME UsedOnce, starts \in Nat, ~Misused', NEW c \in Callers, Calls(c) \/ StopGoesOn(c)
  PROVE  Source!Next \/ UNCHANGED Source!svars
<1>1. CASE StartWindows(c) \/ StartMacOS(c)
  <2>1. /\ starts = 0 /\ starts' = 1 /\ pc = "none" /\ ~stoppedCh
        /\ platform \in {"windows", "macos"}
    BY <1>1 DEF StartWindows, StartMacOS, Misused, UsedOnce, OneGoroutine, Types
  <2>2. Phase = "unstarted" /\ Phase' = IF platform = "macos" THEN "reading" ELSE "running"
    <3>1. Phase = "unstarted"
      BY <2>1 DEF Phase
    <3>2. /\ platform = "windows" => pc' = "loop"
          /\ platform = "macos" => pc' = "read"
      BY <1>1 DEF StartWindows, StartMacOS
    <3> QED
      BY <2>1, <3>1, <3>2 DEF Phase
  <2>3. Source!Start
    BY <1>1, <2>2 DEF Source!Start, StartWindows, StartMacOS, chans
  <2> QED
    BY <2>3 DEF Source!Next
<1>2. CASE StopCheck(c)
  BY <1>2 DEF StopCheck, Source!svars, Phase, chans, goroutine
<1>3. CASE StopClose(c)
  <2>1. UNCHANGED Phase /\ ~stopCh
    BY <1>3 DEF StopClose, Phase, goroutine, hist, UsedOnce, OneStop
  <2>2. Source!CloseStop
    BY <1>3, <2>1 DEF StopClose, Source!CloseStop, goroutine, hist
  <2> QED
    BY <2>2 DEF Source!Next
<1>4. CASE StopReturn(c)
  <2>1. /\ stoppedCh /\ stopCh /\ ~closed /\ pc = "none" /\ starts # 0
        /\ platform \in {"windows", "macos"}
    BY <1>4 DEF StopReturn, UsedOnce, OneStop, OneGoroutine, Types
  <2>2. Phase = "done" /\ UNCHANGED Phase
    BY <1>4, <2>1 DEF StopReturn, Phase, goroutine, hist
  <2>3. Source!CloseLines
    BY <1>4, <2>1, <2>2 DEF StopReturn, Source!CloseLines, Source!ClosesLines, goroutine, hist
  <2> QED
    BY <2>3 DEF Source!Next
<1> QED
  BY <1>1, <1>2, <1>3, <1>4 DEF Calls, StopGoesOn

\* So is a step of the goroutine.
LEMMA GoroutineMaps ==
  ASSUME UsedOnce, starts \in Nat, ~Misused, Goroutine
  PROVE  Source!Next \/ UNCHANGED Source!svars
<1> USE PlatformReaderAssumption
<1>0. starts \in {0, 1} /\ platform \in {"windows", "macos"}
  BY DEF Misused, UsedOnce, Types
<1>1. CASE ReadItem
  <2>1. /\ last + 1 \in 0..MaxItems /\ Numbered(last) /\ last \in Nat
        /\ Phase = IF platform = "windows" THEN "running" ELSE "reading"
        /\ Phase' = "sending"
    BY <1>0, <1>1 DEF ReadItem, Phase, UsedOnce, Types, InSequence, OneGoroutine
  <2>2. Source!Fresh(last + 1)
    BY <2>1 DEF Source!Fresh, Numbered
  <2>3. Source!Obtain(last + 1)
    BY <1>1, <2>1, <2>2 DEF ReadItem, Source!Obtain, chans
  <2> QED
    BY <2>1, <2>3 DEF Source!Next
<1>2. CASE LoopQuit \/ SendQuit
  <2>1. /\ Phase \in {"running", "sending"} /\ Phase' = "ending" /\ stopCh /\ held' = <<>>
        /\ UNCHANGED <<platform, lines, obtained, stopCh, closed>>
    BY <1>2 DEF LoopQuit, SendQuit, Phase, UsedOnce, InSequence, chans, hist
  <2>2. Source!Quit
    BY <1>0, <2>1 DEF Source!Quit, Source!SelectsStop, Source!AtEnd, Source!ClosesLines
  <2> QED
    BY <2>2 DEF Source!Next
<1>3. CASE ScanEnds
  <2>1. platform = "macos"
    BY <1>0, <1>3 DEF ScanEnds, UsedOnce, OneGoroutine
  <2>2. Phase = "reading" /\ Phase' = "ending"
    BY <1>3 DEF ScanEnds, Phase
  <2>3. Source!EndAlone
    BY <1>3, <2>1, <2>2 DEF ScanEnds, Source!EndAlone, Source!EndsAlone, Source!AtEnd,
                            Source!ClosesLines, chans, hist
  <2> QED
    BY <2>3 DEF Source!Next
<1>4. CASE ScanFails
  <2>1. /\ platform = "macos" /\ ~closed /\ Numbered(last) /\ last \in Nat
        /\ lines \in Seq(0..MaxItems) /\ obtained \in Seq(0..MaxItems) /\ Len(lines) <= Cap
    BY <1>0, <1>4 DEF ScanFails, UsedOnce, OneGoroutine, OneStop, InSequence, Types
  <2>2. Phase = "reading" /\ Phase' = "ending"
    BY <1>4 DEF ScanFails, Phase
  <2>3. UNCHANGED <<platform, held, stopCh, closed>>
    BY <1>4 DEF ScanFails, chans
  <2>4. CASE stopCh \/ Len(lines) = Cap
    <3>1. lines' = lines /\ obtained' = obtained
      BY <1>4, <2>1, <2>4 DEF ScanFails
    <3> QED
      BY <2>1, <2>2, <2>3, <3>1 DEF Source!Next, Source!EndAlone, Source!EndsAlone, Source!AtEnd,
                                    Source!ClosesLines
  <2>5. CASE ~(stopCh \/ Len(lines) = Cap)
    <3>1. lines' = Append(lines, 0) /\ obtained' = Append(obtained, 0)
      BY <1>4, <2>1, <2>5 DEF ScanFails, ErrorLine
    <3>2. Source!Fresh(0) /\ Len(lines) < Cap /\ 0 \in 0..MaxItems
      BY <2>1, <2>5 DEF Source!Fresh, Numbered
    <3> QED
      BY <2>1, <2>2, <2>3, <3>1, <3>2, Zenon DEF Source!Next, Source!EndAlone, Source!EndsAlone,
                                          Source!AtEnd, Source!ClosesLines
  <2> QED
    BY <2>4, <2>5
<1>5. CASE SendItem
  <2>1. ~closed
    BY <1>5 DEF SendItem, UsedOnce, OneGoroutine, OneStop
  <2>2. Phase = "sending" /\ Phase' = IF platform = "windows" THEN "running" ELSE "reading"
    BY <1>5 DEF SendItem, Phase
  <2>3. Source!Push
    BY <1>0, <1>5, <2>1, <2>2 DEF SendItem, Source!Push, Source!AfterItem, Source!EndsAlone, chans,
                                  hist
  <2> QED
    BY <2>3 DEF Source!Next
<1>6. CASE SignalCommand \/ Unlock
  <2>1. Phase = "ending" /\ Phase' = "ending"
    BY <1>0, <1>6 DEF SignalCommand, Unlock, Phase, UsedOnce, OneGoroutine, chans, hist
  <2> QED
    BY <1>6, <2>1 DEF SignalCommand, Unlock, Source!svars, chans, hist
<1>7. CASE CloseStopped
  <2>1. Phase = "ending" /\ Phase' = "done"
    BY <1>0, <1>7 DEF CloseStopped, Phase, UsedOnce, OneGoroutine, hist
  <2>2. Source!Finish
    BY <1>7, <2>1 DEF CloseStopped, Source!Finish, hist
  <2> QED
    BY <2>2 DEF Source!Next
<1> QED
  BY <1>1, <1>2, <1>3, <1>4, <1>5, <1>6, <1>7 DEF Goroutine

\* Used as the agents use them, the Windows and the macOS reader implement
\* LineSource: what the agents rely on is what these two do.
THEOREM Refinement == Spec => ImplementsSource
<1>1. Init => Source!Init
  BY DEF Init, Source!Init, Source!Kinds, Phase
<1>2. IInv /\ [Next]_vars => [Source!Next \/ Misused']_(Source!svars)
  <2> SUFFICES ASSUME IInv, [Next]_vars, ~Misused'
               PROVE  Source!Next \/ UNCHANGED Source!svars
    BY Zenon
  <2>1. UsedOnce /\ ~Misused /\ starts \in Nat
    BY MisuseStays DEF IInv
  <2>2. ASSUME NEW c \in Callers, Calls(c) \/ StopGoesOn(c)
        PROVE  Source!Next \/ UNCHANGED Source!svars
    BY <2>1, <2>2, CallMaps
  <2>3. CASE Goroutine
    BY <2>1, <2>3, GoroutineMaps
  <2>4. CASE CmdWrites \/ CmdExits
    BY <2>4 DEF CmdWrites, CmdExits, Source!svars, Phase, chans, goroutine, hist
  <2>5. CASE Receive
    <3>1. UNCHANGED <<Phase, platform, held, obtained, stopCh, closed>>
      BY <2>5 DEF Receive, Phase, chans, goroutine, hist
    <3> QED
      BY <2>5, <3>1 DEF Receive, Source!Receive, Source!Next
  <2>6. CASE UNCHANGED vars
    BY <2>6 DEF vars, Source!svars, Phase, chans, goroutine, hist
  <2> QED
    BY <2>2, <2>3, <2>4, <2>5, <2>6 DEF Next
<1> QED
  BY <1>1, <1>2, Invariance, PTL DEF Spec, ImplementsSource
=============================================================================
