-------------------------- MODULE HTTPSenderProofs --------------------------
(***************************************************************************)
(* Proofs about HTTPSender for any set of lines, any number of callers of  *)
(* Stop and any configured batch sizes.                                    *)
(***************************************************************************)
EXTENDS HTTPSender, TLAPS

\* The fields of a flight, and of every member of flights.
LEMMA FlightFields ==
  ASSUME NEW f \in Flight
  PROVE  /\ f.off \in Nat
         /\ f.logs \in Seq(Lines)
         /\ Len(f.logs) \in Nat
<1>1. f.off \in Nat /\ f.logs \in Seq(Lines)
  BY DEF Flight
<1> QED
  BY <1>1

\* The number of lines handed over is a number.
LEMMA HandedNat == ASSUME TypeOK PROVE Handed \in Nat
<1>1. Len(flights) \in Nat
  BY DEF TypeOK
<1>2. CASE Len(flights) = 0
  BY <1>2 DEF Handed
<1>3. CASE Len(flights) # 0
  <2>1. flights[Len(flights)] \in Flight
    BY <1>1, <1>3 DEF TypeOK
  <2> QED
    BY <1>3, <2>1, FlightFields DEF Handed
<1> QED
  BY <1>2, <1>3

\* A flush of a batch b of accepted lines keeps flights a sequence of
\* flights, hands over exactly Len(b) lines and leaves nothing behind.
LEMMA FlushEffect ==
  ASSUME TypeOK, NEW b \in Seq(Lines), NEW ctx \in Contexts, FlushLocked(b, ctx)
  PROVE  /\ batch' = <<>>
         /\ flights' \in Seq(Flight)
         /\ Handed' = Handed + Len(b)
         /\ Handed \in Nat
<1>1. Handed \in Nat
  BY HandedNat
<1>2. CASE b = <<>>
  BY <1>1, <1>2 DEF FlushLocked, TypeOK, Handed
<1>3. CASE b # <<>>
  <2> DEFINE f == [logs |-> b, ctx |-> ctx, got |-> FALSE, off |-> Handed,
                   st |-> "spawned"]
  <2>1. f \in Flight
    BY <1>1 DEF Flight
  <2>2. flights' = Append(flights, f) /\ batch' = <<>>
    BY <1>3 DEF FlushLocked
  <2>3. /\ flights' \in Seq(Flight)
        /\ Len(flights') = Len(flights) + 1
        /\ flights'[Len(flights) + 1] = f
    BY <2>1, <2>2 DEF TypeOK
  <2>4. Handed' = f.off + Len(f.logs)
    BY <2>3 DEF Handed, TypeOK
  <2> QED
    BY <1>1, <2>2, <2>3, <2>4
<1> QED
  BY <1>2, <1>3

\* What one step of a request does to its flight.
FlightMove(old, new) ==
  /\ new.logs = old.logs /\ new.off = old.off
  /\ \/ old.st = "spawned" /\ new.st = "ready" /\ new.got = old.got
     \/ old.st = "ready" /\ new.st = "posted" /\ new.got = TRUE
     \/ old.st = "posted" /\ new.st = "sent" /\ new.got = old.got
     \/ old.st # "sent" /\ new.st = "failed" /\ new.got = old.got

\* A step of SendBatches is a FlightMove of one request.
LEMMA FlightPick ==
  ASSUME TypeOK, SendBatches
  PROVE  /\ \E k \in 1..Len(flights), f \in Flight :
               /\ FlightMove(flights[k], f)
               /\ flights' = [flights EXCEPT ![k] = f]
         /\ UNCHANGED <<batchSize, batch, ctxDone, loop, stopCh, stoppedCh,
                        stopper, accepted, atStop>>
<1> PICK k \in DOMAIN flights : SendBatch(k)
  BY DEF SendBatches
<1>1. flights[k] \in Flight /\ k \in 1..Len(flights)
  BY DEF TypeOK
<1> DEFINE f(to, g) == [flights[k] EXCEPT !.st = to, !.got = g]
<1>2. \A to \in {"ready", "posted", "sent", "failed"}, g \in BOOLEAN :
         /\ f(to, g) \in Flight
         /\ f(to, g).logs = flights[k].logs /\ f(to, g).off = flights[k].off
         /\ f(to, g).st = to /\ f(to, g).got = g
  BY <1>1, Zenon DEF Flight
<1>3. flights[k].got \in BOOLEAN
  BY <1>1 DEF Flight
<1>4. \A from, to, g :
        FlightGoto(k, from, to, g) =>
          /\ flights[k].st \in from
          /\ flights' = [flights EXCEPT ![k] = f(to, g)]
          /\ UNCHANGED <<batchSize, batch, ctxDone, loop, stopCh, stoppedCh,
                         stopper, accepted, atStop>>
  BY <1>1, Zenon DEF FlightGoto
<1> HIDE DEF f
<1>5. CASE SendBatchPrepare(k)
  BY <1>1, <1>2, <1>3, <1>4, <1>5 DEF SendBatchPrepare, FlightMove
<1>6. CASE SendBatchDo(k)
  <2>1. FlightGoto(k, {"ready"}, "posted", TRUE)
    BY <1>6, Zenon DEF SendBatchDo
  <2>2. FlightMove(flights[k], f("posted", TRUE)) /\ f("posted", TRUE) \in Flight
    <3>1. flights[k].st = "ready"
      BY <2>1 DEF FlightGoto
    <3>2. TRUE \in BOOLEAN /\ "posted" \in {"ready", "posted", "sent", "failed"}
      OBVIOUS
    <3> QED
      BY <1>2, <3>1, <3>2, Zenon DEF FlightMove
  <2> QED
    BY <1>1, <1>4, <2>1, <2>2, ZenonT(40)
<1>7. CASE SendBatchOk(k)
  BY <1>1, <1>2, <1>3, <1>4, <1>7 DEF SendBatchOk, FlightMove
<1>8. CASE SendBatchFail(k)
  <2> DEFINE g == flights[k].got
  <2>1. FlightGoto(k, {"spawned", "ready", "posted"}, "failed", g)
    BY <1>8 DEF SendBatchFail
  <2>2. flights[k].st # "sent"
    BY <1>4, <2>1
  <2>3. FlightMove(flights[k], f("failed", g)) /\ f("failed", g) \in Flight
    BY <1>2, <1>3, <2>2 DEF FlightMove
  <2> QED
    BY <1>1, <1>4, <2>1, <2>3
<1> QED
  BY <1>5, <1>6, <1>7, <1>8 DEF SendBatch

\* A step of a request changes nothing but the request's own progress.
LEMMA FlightStep ==
  ASSUME TypeOK, SendBatches
  PROVE  /\ flights' \in Seq(Flight)
         /\ Len(flights') = Len(flights)
         /\ \A j \in 1..Len(flights) : /\ flights'[j].logs = flights[j].logs
                                       /\ flights'[j].off = flights[j].off
         /\ Handed' = Handed
         /\ GotWhilePosted => GotWhilePosted'
         /\ UNCHANGED <<batchSize, batch, ctxDone, loop, stopCh, stoppedCh,
                        stopper, accepted, atStop>>
<1>1. PICK k \in 1..Len(flights), f \in Flight :
         FlightMove(flights[k], f) /\ flights' = [flights EXCEPT ![k] = f]
  BY FlightPick
<1>2. /\ flights' \in Seq(Flight)
      /\ Len(flights') = Len(flights)
      /\ \A j \in 1..Len(flights) : flights'[j] = IF j = k THEN f ELSE flights[j]
  BY <1>1 DEF TypeOK
<1>3. \A j \in 1..Len(flights) : /\ flights'[j].logs = flights[j].logs
                                 /\ flights'[j].off = flights[j].off
  BY <1>1, <1>2 DEF FlightMove
<1>4. Handed' = Handed
  <2>1. CASE Len(flights) = 0
    BY <1>2, <2>1 DEF Handed
  <2>2. CASE Len(flights) # 0
    <3>1. Len(flights) \in 1..Len(flights)
      BY <2>2 DEF TypeOK
    <3> QED
      BY <1>2, <1>3, <2>2, <3>1 DEF Handed
  <2> QED
    BY <2>1, <2>2
<1>5. ASSUME GotWhilePosted PROVE GotWhilePosted'
  <2>1. /\ f.st \in {"spawned", "ready"} => ~f.got
        /\ f.st \in {"posted", "sent"} => f.got
    BY <1>1, <1>5 DEF GotWhilePosted, FlightMove
  <2> QED
    BY <1>2, <1>5, <2>1 DEF GotWhilePosted
<1> QED
  BY <1>2, <1>3, <1>4, <1>5, FlightPick

\* A new sender has the types, for every configured batch size.
LEMMA TypeInit == Init => TypeOK
<1> SUFFICES ASSUME Init PROVE TypeOK
  OBVIOUS
<1>1. batchSize \in Nat
  <2>1. CASE \E n \in Sizes : batchSize = NewHTTPSender(n)
    BY <2>1, SizesAssumption DEF NewHTTPSender
  <2>2. CASE batchSize \in NewSecureHTTPSender
    BY <2>2, SizesAssumption DEF NewSecureHTTPSender
  <2> QED
    BY <2>1, <2>2 DEF Init
<1>2. /\ batch \in Seq(Lines) /\ flights \in Seq(Flight)
      /\ accepted \in Seq(Lines) /\ atStop \in Nat
  BY DEF Init
<1>3. stopper \in [Stoppers -> {"idle", "waiting", "returned"}]
  BY DEF Init
<1> QED
  BY <1>1, <1>2, <1>3, Zenon DEF Init, TypeOK

\* Every step keeps the types.
LEMMA TypeNext == TypeOK /\ [Next]_vars => TypeOK'
<1> SUFFICES ASSUME TypeOK, [Next]_vars PROVE TypeOK'
  OBVIOUS
<1>1. ASSUME NEW l \in Lines, NEW ctx \in Contexts, SendWithContext(l, ctx)
      PROVE  TypeOK'
  <2> DEFINE b == Append(batch, l)
  <2>1. b \in Seq(Lines) /\ accepted' \in Seq(Lines)
    BY <1>1 DEF TypeOK, SendWithContext
  <2>2. CASE FlushLocked(b, ctx)
    <3>1. batch' = <<>> /\ flights' \in Seq(Flight)
      BY <2>1, <2>2, FlushEffect, Zenon
    <3> QED
      BY <1>1, <2>1, <3>1 DEF TypeOK, SendWithContext
  <2>3. CASE batch' = b /\ UNCHANGED flights
    BY <1>1, <2>1, <2>3 DEF TypeOK, SendWithContext
  <2> QED
    BY <1>1, <2>2, <2>3 DEF SendWithContext
<1>2. CASE CancelCtx
  BY <1>2 DEF TypeOK, CancelCtx
<1>3. CASE Start
  BY <1>3 DEF TypeOK, Start, LoopGoto
<1>4. CASE FlushLoop
  <2>1. CASE LoopTick
    BY <2>1 DEF TypeOK, LoopTick, LoopGoto
  <2>2. CASE LoopFlush
    <3>1. batch' = <<>> /\ flights' \in Seq(Flight)
      BY <2>2, FlushEffect DEF TypeOK, LoopFlush, Contexts
    <3> QED
      BY <2>2, <3>1 DEF TypeOK, LoopFlush, LoopGoto
  <2>3. CASE LoopStop
    BY <2>3 DEF TypeOK, LoopStop, LoopGoto
  <2>4. CASE LoopFinalFlush
    <3>1. batch' = <<>> /\ flights' \in Seq(Flight)
      BY <2>4, FlushEffect DEF TypeOK, LoopFinalFlush, Contexts
    <3> QED
      BY <2>4, <3>1 DEF TypeOK, LoopFinalFlush, LoopGoto
  <2>5. CASE LoopClose
    BY <2>5 DEF TypeOK, LoopClose, LoopGoto
  <2> QED
    BY <1>4, <2>1, <2>2, <2>3, <2>4, <2>5 DEF FlushLoop
<1>5. ASSUME NEW s \in Stoppers, Stop(s) \/ StopReturn(s)
      PROVE  TypeOK'
  <2>1. CASE Stop(s)
    <3>1. stopper' \in [Stoppers -> {"idle", "waiting", "returned"}]
      BY <2>1 DEF Stop, TypeOK
    <3>2. stopCh' \in BOOLEAN
      BY <2>1, Zenon DEF Stop, TypeOK
    <3>3. atStop' \in Nat
      BY <2>1 DEF Stop, TypeOK
    <3> QED
      BY <2>1, <3>1, <3>2, <3>3 DEF Stop, TypeOK
  <2>2. CASE StopReturn(s)
    <3>1. stopper' \in [Stoppers -> {"idle", "waiting", "returned"}]
      BY <2>2 DEF StopReturn, TypeOK
    <3> QED
      BY <2>2, <3>1 DEF StopReturn, TypeOK
  <2> QED
    BY <1>5, <2>1, <2>2
<1>6. CASE SendBatches
  BY <1>6, FlightStep DEF TypeOK
<1>7. CASE UNCHANGED vars
  BY <1>7 DEF TypeOK, vars
<1> QED
  BY <1>1, <1>2, <1>3, <1>4, <1>5, <1>6, <1>7 DEF Next

\* Every variable keeps its type.
THEOREM TypeCorrect == Spec => []TypeOK
  BY TypeInit, TypeNext, PTL DEF Spec

-----------------------------------------------------------------------------
\* Every request's range of accepted lines ends before the lines of the batch.
LEMMA RangesHanded ==
  ASSUME TypeOK, OffsetsOrdered, NEW k \in 1..Len(flights)
  PROVE  flights[k].off + Len(flights[k].logs) <= Handed
<1> DEFINE n == Len(flights)
<1>1. n \in Nat /\ n # 0 /\ n \in 1..n /\ k \in Nat
  BY DEF TypeOK
<1>2. flights[k] \in Flight /\ flights[n] \in Flight
  BY <1>1 DEF TypeOK
<1>3. Handed = flights[n].off + Len(flights[n].logs)
  BY <1>1 DEF Handed
<1>4. CASE k = n
  BY <1>2, <1>3, <1>4, FlightFields
<1>5. CASE k < n
  <2>1. flights[k].off + Len(flights[k].logs) <= flights[n].off
    BY <1>1, <1>5 DEF OffsetsOrdered
  <2> QED
    BY <1>2, <1>3, <2>1, FlightFields, SMTT(30)
<1> QED
  BY <1>1, <1>4, <1>5

\* A position within a request is a position within the accepted lines.
LEMMA InAccepted ==
  ASSUME TypeOK, OffsetsOrdered, Len(accepted) = Handed + Len(batch),
         NEW k \in 1..Len(flights), NEW i \in 1..Len(flights[k].logs)
  PROVE  flights[k].off + i \in 1..Len(accepted)
<1> DEFINE o == flights[k].off
           n == Len(flights[k].logs)
           h == Handed
           c == Len(batch)
           a == Len(accepted)
<1>1. flights[k] \in Flight
  BY DEF TypeOK
<1>2. o \in Nat /\ n \in Nat
  BY <1>1, FlightFields
<1>3. h \in Nat
  BY HandedNat
<1>4. c \in Nat
  BY DEF TypeOK
<1>5. o + n <= h
  BY RangesHanded
<1>6. a = h + c /\ i \in 1..n
  OBVIOUS
<1> HIDE DEF o, n, h, c, a
<1>7. o + i \in 1..a
  BY ONLY <1>2, <1>3, <1>4, <1>5, <1>6
<1> QED
  BY ONLY <1>7 DEF o, a

\* Send extends the batch and the accepted lines alike.
LEMMA AppendSpells ==
  ASSUME TypeOK, OffsetsOrdered, BatchesPartitionAccepted, NEW l \in Lines
  PROVE  Spell(Append(batch, l), Append(accepted, l))
<1> DEFINE b == Append(batch, l)
           acc == Append(accepted, l)
<1>1. /\ Len(acc) = Len(accepted) + 1
      /\ acc[Len(accepted) + 1] = l
      /\ \A i \in 1..Len(accepted) : acc[i] = accepted[i]
      /\ Len(accepted) \in Nat
  BY DEF TypeOK
<1>2. /\ Len(b) = Len(batch) + 1
      /\ b[Len(batch) + 1] = l
      /\ \A i \in 1..Len(batch) : b[i] = batch[i]
      /\ Len(batch) \in Nat
  BY DEF TypeOK
<1>3. Handed \in Nat /\ Len(accepted) = Handed + Len(batch)
  BY HandedNat DEF BatchesPartitionAccepted, Spell
<1>4. ASSUME NEW k \in 1..Len(flights)
      PROVE  /\ flights[k].off =
                  IF k = 1 THEN 0
                           ELSE flights[k-1].off + Len(flights[k-1].logs)
             /\ \A i \in 1..Len(flights[k].logs) :
                   flights[k].logs[i] = acc[flights[k].off + i]
  <2>1. flights[k] \in Flight
    BY DEF TypeOK
  <2>2. ASSUME NEW i \in 1..Len(flights[k].logs)
        PROVE  flights[k].logs[i] = acc[flights[k].off + i]
    <3>1. flights[k].off + i \in 1..Len(accepted)
      BY <1>3, InAccepted
    <3>2. flights[k].logs[i] = accepted[flights[k].off + i]
      BY DEF BatchesPartitionAccepted, Spell
    <3> QED
      BY <1>1, <3>1, <3>2
  <2> QED
    BY <2>2, Zenon DEF BatchesPartitionAccepted, Spell
<1>5. Len(acc) = Handed + Len(b)
  BY <1>1, <1>2, <1>3
<1>6. ASSUME NEW i \in 1..Len(b)
      PROVE  b[i] = acc[Handed + i]
  <2>1. CASE i = Len(batch) + 1
    <3>1. Handed + i = Len(accepted) + 1
      BY <1>2, <1>3, <2>1
    <3>2. b[i] = l /\ acc[Handed + i] = l
      BY <1>1, <1>2, <2>1, <3>1
    <3> QED
      BY <3>2
  <2>2. CASE i \in 1..Len(batch)
    <3>1. Handed + i \in 1..Len(accepted)
      BY <1>2, <1>3, <2>2
    <3>2. batch[i] = accepted[Handed + i]
      BY <2>2 DEF BatchesPartitionAccepted, Spell
    <3> QED
      BY <1>1, <1>2, <2>2, <3>1, <3>2
  <2>3. i = Len(batch) + 1 \/ i \in 1..Len(batch)
    BY <1>2
  <2> QED
    BY <2>1, <2>2, <2>3, Zenon
<1> QED
  BY <1>4, <1>5, <1>6, Zenon DEF Spell

\* A flush moves the end of the spelling into a request.
LEMMA FlushSpells ==
  ASSUME TypeOK, OffsetsOrdered, NEW b \in Seq(Lines), NEW ctx \in Contexts,
         Spell(b, accepted'), FlushLocked(b, ctx)
  PROVE  BatchesPartitionAccepted' /\ OffsetsOrdered'
<1>1. batch' = <<>> /\ Handed' = Handed + Len(b) /\ Handed \in Nat
  BY FlushEffect
<1>2. /\ Len(batch') = 0
      /\ Len(accepted') = Handed' + Len(batch')
      /\ \A i \in 1..Len(batch') : batch'[i] = accepted'[Handed' + i]
  BY <1>1 DEF Spell
<1>3. CASE b = <<>>
  <2>1. UNCHANGED flights
    BY <1>3 DEF FlushLocked
  <2> QED
    BY <1>2, <2>1 DEF Spell, BatchesPartitionAccepted, OffsetsOrdered
<1>4. CASE b # <<>>
  <2> DEFINE f == [logs |-> b, ctx |-> ctx, got |-> FALSE, off |-> Handed,
                   st |-> "spawned"]
             n == Len(flights)
  <2>1. flights' = Append(flights, f)
    BY <1>4 DEF FlushLocked
  <2>2. /\ n \in Nat
        /\ Len(flights') = n + 1
        /\ flights'[n + 1] = f
        /\ \A k \in 1..n : flights'[k] = flights[k]
    BY <2>1 DEF TypeOK
  <2>3. f.off = Handed /\ f.logs = b
    OBVIOUS
  <2>4. ASSUME NEW k \in 1..Len(flights')
        PROVE  /\ flights'[k].off =
                    IF k = 1 THEN 0
                             ELSE flights'[k-1].off + Len(flights'[k-1].logs)
               /\ \A i \in 1..Len(flights'[k].logs) :
                     flights'[k].logs[i] = accepted'[flights'[k].off + i]
    <3>1. CASE k \in 1..n
      <4>1. flights'[k] = flights[k] /\ (k # 1 => flights'[k-1] = flights[k-1])
        BY <2>2, <3>1
      <4>2. /\ flights[k].off =
                 IF k = 1 THEN 0 ELSE flights[k-1].off + Len(flights[k-1].logs)
            /\ \A i \in 1..Len(flights[k].logs) :
                  flights[k].logs[i] = accepted'[flights[k].off + i]
        BY <3>1, Zenon DEF Spell
      <4>3. CASE k = 1
        BY <4>1, <4>2, <4>3, Zenon
      <4>4. CASE k # 1
        BY <4>1, <4>2, <4>4, Zenon
      <4> QED
        BY <4>3, <4>4, Zenon
    <3>2. CASE k = n + 1
      <4>1. f.off = IF n = 0 THEN 0 ELSE flights[n].off + Len(flights[n].logs)
        BY <2>3 DEF Handed
      <4>2. n # 0 => flights'[n] = flights[n]
        BY <2>2
      <4>3. \A i \in 1..Len(b) : b[i] = accepted'[Handed + i]
        BY DEF Spell
      <4> QED
        BY <2>2, <2>3, <3>2, <4>1, <4>2, <4>3
    <3> QED
      BY <2>2, <3>1, <3>2
  <2>5. ASSUME NEW j \in 1..Len(flights'), NEW k \in 1..Len(flights'), j < k
        PROVE  flights'[j].off + Len(flights'[j].logs) <= flights'[k].off
    <3>1. j \in 1..n
      BY <2>2, <2>5
    <3>2. CASE k \in 1..n
      BY <2>2, <2>5, <3>1, <3>2 DEF OffsetsOrdered
    <3>3. CASE k = n + 1
      BY <2>2, <2>3, <3>1, <3>3, RangesHanded
    <3> QED
      BY <2>2, <3>2, <3>3
  <2> QED
    BY <1>2, <2>4, <2>5 DEF Spell, BatchesPartitionAccepted, OffsetsOrdered
<1> QED
  BY <1>3, <1>4

-----------------------------------------------------------------------------
\* The inductive invariant holds of a new sender.
LEMMA IInvInit == Init => IInv
<1> SUFFICES ASSUME Init PROVE IInv
  OBVIOUS
<1>1. TypeOK
  BY TypeInit
<1>2. flights = <<>> /\ batch = <<>> /\ accepted = <<>> /\ Len(flights) = 0
  BY DEF Init
<1>3. Handed = 0
  BY <1>2 DEF Handed
<1>4. BatchBounded
  BY <1>1, <1>2 DEF BatchBounded, TypeOK
<1>5. BatchesPartitionAccepted
  BY <1>2, <1>3 DEF BatchesPartitionAccepted, Spell
<1> QED
  BY <1>1, <1>2, <1>3, <1>4, <1>5
     DEF Init, IInv, OffsetsOrdered, AcceptedDistinct, GotWhilePosted, StopOrder

\* A flush spawns a request the server does not have.
LEMMA FlushGot ==
  ASSUME TypeOK, GotWhilePosted, NEW b \in Seq(Lines), NEW ctx \in Contexts,
         FlushLocked(b, ctx)
  PROVE  GotWhilePosted'
<1>1. CASE b = <<>>
  BY <1>1 DEF FlushLocked, GotWhilePosted
<1>2. CASE b # <<>>
  <2> DEFINE f == [logs |-> b, ctx |-> ctx, got |-> FALSE, off |-> Handed,
                   st |-> "spawned"]
  <2>1. flights' = Append(flights, f)
    BY <1>2 DEF FlushLocked
  <2>2. /\ Len(flights') = Len(flights) + 1 /\ Len(flights) \in Nat
        /\ flights'[Len(flights) + 1] = f
        /\ \A k \in 1..Len(flights) : flights'[k] = flights[k]
    BY <2>1 DEF TypeOK
  <2>3. f.st = "spawned" /\ f.got = FALSE
    OBVIOUS
  <2>4. \A k \in 1..Len(flights') : k = Len(flights) + 1 \/ k \in 1..Len(flights)
    BY <2>2
  <2> HIDE DEF f
  <2> QED
    BY <2>2, <2>3, <2>4 DEF GotWhilePosted
<1> QED
  BY <1>1, <1>2

\* A flush keeps the bound, provided b is not longer than a full batch.
LEMMA FlushBounded ==
  ASSUME TypeOK, BatchBounded, NEW b \in Seq(Lines), NEW ctx \in Contexts,
         FlushLocked(b, ctx), UNCHANGED batchSize,
         Len(b) <= IF batchSize = 0 THEN 1 ELSE batchSize
  PROVE  BatchBounded'
<1> DEFINE limit == IF batchSize = 0 THEN 1 ELSE batchSize
           f == [logs |-> b, ctx |-> ctx, got |-> FALSE, off |-> Handed,
                 st |-> "spawned"]
<1>1. batch' = <<>> /\ limit' = limit /\ limit \in Nat \ {0}
  BY FlushEffect DEF TypeOK
<1>2. Len(batch') < limit'
  BY <1>1
<1>3. CASE b = <<>>
  <2>1. UNCHANGED flights
    BY <1>3 DEF FlushLocked
  <2> QED
    BY <1>1, <1>2, <2>1 DEF BatchBounded
<1>4. CASE b # <<>>
  <2>1. flights' = Append(flights, f)
    BY <1>4 DEF FlushLocked
  <2>2. /\ Len(flights') = Len(flights) + 1 /\ Len(flights) \in Nat
        /\ flights'[Len(flights) + 1].logs = b
        /\ \A k \in 1..Len(flights) : flights'[k] = flights[k]
    BY <2>1 DEF TypeOK
  <2>3. Len(b) \in 1..limit
    BY <1>1, <1>4
  <2>4. ASSUME NEW k \in 1..Len(flights')
        PROVE  Len(flights'[k].logs) \in 1..limit
    <3>1. CASE k = Len(flights) + 1
      BY <2>2, <2>3, <3>1
    <3>2. CASE k \in 1..Len(flights)
      BY <2>2, <3>2 DEF BatchBounded
    <3> QED
      BY <2>2, <3>1, <3>2
  <2> QED
    BY <1>1, <1>2, <2>4 DEF BatchBounded
<1> QED
  BY <1>3, <1>4

\* Send keeps the inductive invariant, with or without a flush.
LEMMA SendKeepsIInv ==
  ASSUME IInv, NEW l \in Lines, NEW ctx \in Contexts, SendWithContext(l, ctx),
         TypeOK'
  PROVE  IInv'
<1> DEFINE b == Append(batch, l)
           limit == IF batchSize = 0 THEN 1 ELSE batchSize
<1> USE DEF IInv
<1>1. /\ accepted' = Append(accepted, l) /\ b \in Seq(Lines)
      /\ Len(b) = Len(batch) + 1 /\ Len(batch) \in Nat
      /\ Len(accepted') = Len(accepted) + 1 /\ Len(accepted) \in Nat
      /\ UNCHANGED <<batchSize, ctxDone, loop, stopCh, stoppedCh, stopper, atStop>>
  BY DEF SendWithContext, TypeOK
<1>2. Spell(b, accepted')
  BY <1>1, AppendSpells
<1>3. Len(b) <= limit /\ limit \in Nat
  BY <1>1 DEF BatchBounded, TypeOK
<1>4. AcceptedDistinct'
  <2>1. \A i \in 1..Len(accepted) : accepted[i] # l /\ accepted'[i] = accepted[i]
    BY <1>1 DEF SendWithContext, TypeOK
  <2>2. accepted'[Len(accepted) + 1] = l
    BY <1>1 DEF TypeOK
  <2>3. ASSUME NEW i \in 1..Len(accepted'), NEW j \in 1..Len(accepted'), i # j
        PROVE  accepted'[i] # accepted'[j]
    <3>1. CASE i \in 1..Len(accepted) /\ j \in 1..Len(accepted)
      BY <2>1, <2>3, <3>1 DEF AcceptedDistinct
    <3>2. CASE i = Len(accepted) + 1
      <4>1. j \in 1..Len(accepted)
        BY <1>1, <2>3, <3>2
      <4> QED
        BY <2>1, <2>2, <3>2, <4>1
    <3>3. CASE j = Len(accepted) + 1
      <4>1. i \in 1..Len(accepted)
        BY <1>1, <2>3, <3>3
      <4> QED
        BY <2>1, <2>2, <3>3, <4>1
    <3> QED
      BY <1>1, <3>1, <3>2, <3>3
  <2> QED
    BY <2>3 DEF AcceptedDistinct
<1>5. CASE FlushLocked(b, ctx)
  <2>1. Handed' = Handed + Len(b) /\ Handed \in Nat
    BY <1>1, <1>5, FlushEffect, Zenon
  <2>2. BatchesPartitionAccepted' /\ OffsetsOrdered'
    BY <1>1, <1>2, <1>5, FlushSpells, Zenon
  <2>3. BatchBounded'
    BY <1>1, <1>3, <1>5, FlushBounded, Zenon
  <2>4. StopOrder'
    BY <1>1, <2>1 DEF StopOrder, TypeOK
  <2>5. GotWhilePosted'
    BY <1>1, <1>5, FlushGot, Zenon
  <2> QED
    BY <1>4, <2>2, <2>3, <2>4, <2>5
<1>6. CASE Len(b) < batchSize /\ batch' = b /\ UNCHANGED flights
  <2>1. Handed' = Handed /\ Handed \in Nat
    BY <1>6, HandedNat, Zenon DEF Handed
  <2>2. BatchesPartitionAccepted' /\ OffsetsOrdered'
    BY <1>2, <1>6, <2>1 DEF BatchesPartitionAccepted, OffsetsOrdered, Spell
  <2>3. BatchBounded'
    BY <1>1, <1>6 DEF BatchBounded, TypeOK
  <2>4. StopOrder'
    BY <1>1, <2>1 DEF StopOrder, TypeOK
  <2>5. GotWhilePosted'
    BY <1>6 DEF GotWhilePosted
  <2> QED
    BY <1>4, <2>2, <2>3, <2>4, <2>5
<1> QED
  BY <1>5, <1>6 DEF SendWithContext

\* A flush of the batch by the flush loop keeps everything but StopOrder,
\* and hands over all accepted lines.
LEMMA LoopFlushKeeps ==
  ASSUME IInv, FlushLocked(batch, "background"), UNCHANGED <<batchSize, accepted>>
  PROVE  /\ BatchesPartitionAccepted' /\ OffsetsOrdered' /\ AcceptedDistinct'
         /\ BatchBounded' /\ GotWhilePosted'
         /\ Handed' = Len(accepted) /\ Handed' >= Handed
<1> USE DEF IInv
<1>1. batch \in Seq(Lines) /\ "background" \in Contexts /\ Len(batch) \in Nat
  BY DEF TypeOK, Contexts
<1>2. Handed' = Handed + Len(batch) /\ Handed \in Nat
  BY <1>1, FlushEffect
<1>3. Spell(batch, accepted')
  BY DEF BatchesPartitionAccepted
<1>4. BatchesPartitionAccepted' /\ OffsetsOrdered'
  BY <1>1, <1>3, FlushSpells
<1>5. Len(batch) <= IF batchSize = 0 THEN 1 ELSE batchSize
  BY <1>1 DEF BatchBounded, TypeOK
<1>6. BatchBounded'
  BY <1>1, <1>5, FlushBounded
<1>7. Handed' = Len(accepted)
  BY <1>2 DEF BatchesPartitionAccepted, Spell
<1>8. GotWhilePosted'
  BY <1>1, FlushGot, Zenon
<1> QED
  BY <1>1, <1>2, <1>4, <1>6, <1>7, <1>8 DEF AcceptedDistinct

\* A step that leaves batch, flights and accepted alone keeps what is said
\* of them.
LEMMA BatchesUnchanged ==
  ASSUME IInv, UNCHANGED <<batchSize, batch, flights, accepted>>
  PROVE  /\ BatchesPartitionAccepted' /\ OffsetsOrdered' /\ AcceptedDistinct'
         /\ BatchBounded' /\ GotWhilePosted' /\ Handed' = Handed
<1>1. Handed' = Handed
  BY DEF Handed
<1> QED
  BY <1>1 DEF IInv, BatchesPartitionAccepted, Spell, OffsetsOrdered,
              AcceptedDistinct, BatchBounded, GotWhilePosted

\* Every step keeps the inductive invariant.
LEMMA IInvNext == IInv /\ [Next]_vars => IInv'
<1> SUFFICES ASSUME IInv, [Next]_vars PROVE IInv'
  OBVIOUS
<1>0. TypeOK'
  BY TypeNext DEF IInv
<1>1. ASSUME NEW l \in Lines, NEW ctx \in Contexts, SendWithContext(l, ctx)
      PROVE  IInv'
  BY <1>0, <1>1, SendKeepsIInv
<1>2. CASE CancelCtx
  BY <1>0, <1>2, BatchesUnchanged DEF CancelCtx, IInv, StopOrder
<1>3. CASE Start
  BY <1>0, <1>3, BatchesUnchanged DEF Start, LoopGoto, IInv, StopOrder
<1>4. CASE FlushLoop
  <2>1. CASE LoopTick
    BY <1>0, <2>1, BatchesUnchanged DEF LoopTick, LoopGoto, IInv, StopOrder
  <2>2. CASE LoopFlush
    BY <1>0, <2>2, LoopFlushKeeps DEF LoopFlush, LoopGoto, IInv, StopOrder
  <2>3. CASE LoopStop
    BY <1>0, <2>3, BatchesUnchanged DEF LoopStop, LoopGoto, IInv, StopOrder
  <2>4. CASE LoopFinalFlush
    BY <1>0, <2>4, LoopFlushKeeps DEF LoopFinalFlush, LoopGoto, IInv, StopOrder
  <2>5. CASE LoopClose
    BY <1>0, <2>5, BatchesUnchanged DEF LoopClose, LoopGoto, IInv, StopOrder
  <2> QED
    BY <1>4, <2>1, <2>2, <2>3, <2>4, <2>5 DEF FlushLoop
<1>5. ASSUME NEW s \in Stoppers, Stop(s) \/ StopReturn(s)
      PROVE  IInv'
  <2>1. CASE Stop(s)
    <3>1. StopOrder'
      BY <2>1, BatchesUnchanged DEF Stop, IInv, StopOrder, TypeOK
    <3> QED
      BY <1>0, <2>1, <3>1, BatchesUnchanged DEF Stop, IInv
  <2>2. CASE StopReturn(s)
    BY <1>0, <2>2, BatchesUnchanged DEF StopReturn, IInv, StopOrder
  <2> QED
    BY <1>5, <2>1, <2>2
<1>6. CASE SendBatches
  <2>1. /\ Len(flights') = Len(flights)
        /\ \A j \in 1..Len(flights) : /\ flights'[j].logs = flights[j].logs
                                      /\ flights'[j].off = flights[j].off
        /\ Handed' = Handed /\ GotWhilePosted'
        /\ UNCHANGED <<batchSize, batch, ctxDone, loop, stopCh, stoppedCh,
                       stopper, accepted, atStop>>
    BY <1>6, FlightStep DEF IInv
  <2>2. \A k \in 1..Len(flights) : k # 1 => k - 1 \in 1..Len(flights)
    BY DEF IInv, TypeOK
  <2>3. BatchesPartitionAccepted'
    <3>1. ASSUME NEW k \in 1..Len(flights')
          PROVE  /\ flights'[k].off =
                      IF k = 1 THEN 0
                               ELSE flights'[k-1].off + Len(flights'[k-1].logs)
                 /\ \A i \in 1..Len(flights'[k].logs) :
                       flights'[k].logs[i] = accepted'[flights'[k].off + i]
      <4>1. k \in 1..Len(flights)
        BY <2>1
      <4>2. /\ flights[k].off =
                  IF k = 1 THEN 0
                           ELSE flights[k-1].off + Len(flights[k-1].logs)
            /\ \A i \in 1..Len(flights[k].logs) :
                  flights[k].logs[i] = accepted[flights[k].off + i]
        BY <4>1, Zenon DEF IInv, BatchesPartitionAccepted, Spell
      <4> QED
        BY <2>1, <2>2, <4>1, <4>2, Zenon
    <3> QED
      BY <2>1, <3>1 DEF IInv, BatchesPartitionAccepted, Spell
  <2>4. OffsetsOrdered' /\ AcceptedDistinct' /\ BatchBounded' /\ StopOrder'
    BY <2>1, Zenon DEF IInv, OffsetsOrdered, AcceptedDistinct, BatchBounded, StopOrder
  <2> QED
    BY <1>0, <2>1, <2>3, <2>4 DEF IInv
<1>7. CASE UNCHANGED vars
  BY <1>0, <1>7, BatchesUnchanged DEF vars, IInv, StopOrder
<1> QED
  BY <1>1, <1>2, <1>3, <1>4, <1>5, <1>6, <1>7 DEF Next

\* The inductive invariant of the sender: Send, the racing flushes, Stop and the
\* requests keep the accepted lines partitioned into batch and requests.
THEOREM Invariance == Spec => []IInv
  BY IInvInit, IInvNext, PTL DEF Spec

-----------------------------------------------------------------------------
\* Positions within two ranges that do not overlap differ.
LEMMA RangesDiffer ==
  ASSUME NEW o \in Nat, NEW n \in Nat, NEW p \in Nat, NEW q \in Nat,
         o + n <= p \/ p + q <= o, NEW i \in 1..n, NEW m \in 1..q
  PROVE  o + i # p + m
  OBVIOUS

\* No two requests share a line: their ranges of the accepted lines are
\* disjoint and Send takes every line once.
LEMMA RequestsDisjoint ==
  ASSUME IInv, NEW j \in 1..Len(flights), NEW k \in 1..Len(flights), j # k,
         NEW i \in 1..Len(flights[j].logs), NEW m \in 1..Len(flights[k].logs)
  PROVE  flights[j].logs[i] # flights[k].logs[m]
<1> USE DEF IInv
<1>1. flights[j] \in Flight /\ flights[k] \in Flight
  BY DEF TypeOK
<1>2. /\ flights[j].off \in Nat /\ Len(flights[j].logs) \in Nat
      /\ flights[k].off \in Nat /\ Len(flights[k].logs) \in Nat
  BY <1>1, FlightFields
<1>3. /\ flights[j].logs[i] = accepted[flights[j].off + i]
      /\ flights[k].logs[m] = accepted[flights[k].off + m]
  BY Zenon DEF BatchesPartitionAccepted, Spell
<1>5. Len(batch) \in Nat /\ Handed \in Nat /\ Len(accepted) = Handed + Len(batch)
  BY HandedNat DEF TypeOK, BatchesPartitionAccepted, Spell
<1>6. flights[j].off + i \in 1..Len(accepted) /\ flights[k].off + m \in 1..Len(accepted)
  BY <1>5, InAccepted, Zenon
<1>7. \/ flights[j].off + Len(flights[j].logs) <= flights[k].off
      \/ flights[k].off + Len(flights[k].logs) <= flights[j].off
  <2>1. j < k \/ k < j
    BY DEF TypeOK
  <2> QED
    BY <2>1 DEF OffsetsOrdered
<1>8. flights[j].off + i # flights[k].off + m
  <2> HIDE DEF IInv
  <2> QED
    BY <1>2, <1>7, RangesDiffer, Zenon
<1> QED
  BY <1>3, <1>6, <1>8, Zenon DEF AcceptedDistinct

\* The batch never holds a full batch and no request is empty or too large,
\* for every configured size: what NewHTTPSender's normalisation is for.
THEOREM BoundedBatches == Spec => []BatchBounded
  BY Invariance, PTL DEF IInv

\* Between Send and the requests no line is dropped, repeated or reordered,
\* whatever the ticker, Stop and full batches do concurrently.
THEOREM NothingLostInBatching == Spec => []BatchesPartitionAccepted
  BY Invariance, PTL DEF IInv

\* When Stop's final flush is over, every line accepted before Stop is in a
\* request.
THEOREM StopFlushes == Spec => []StopHandsOverAccepted
<1>1. IInv => StopHandsOverAccepted
  BY DEF IInv, StopOrder, StopHandsOverAccepted
<1> QED
  BY <1>1, Invariance, PTL

\* The server takes no line twice.
THEOREM AtMostOnce == Spec => []ServerTakesLineOnce
<1>1. IInv => ServerTakesLineOnce
  BY RequestsDisjoint DEF ServerTakesLineOnce
<1> QED
  BY <1>1, Invariance, PTL

-----------------------------------------------------------------------------
\* The steps of the sender are steps of LogTransport.

\* The lines of a request are taken, and in no other request.
LEMMA CarriedPending ==
  ASSUME IInv, NEW k \in 1..Len(flights), NEW l, Carries(k, l)
  PROVE  /\ l \in Taken
         /\ l \in Lines
         /\ \A j \in 1..Len(flights) : Carries(j, l) => j = k
<1> PICK i \in 1..Len(flights[k].logs) : flights[k].logs[i] = l
  BY DEF Carries
<1>1. flights[k] \in Flight
  BY DEF IInv, TypeOK
<1>2. flights[k].off \in Nat /\ Len(flights[k].logs) \in Nat /\ l \in Lines
  BY <1>1, FlightFields
<1>3. Handed \in Nat /\ Len(batch) \in Nat /\ Len(accepted) = Handed + Len(batch)
  BY HandedNat DEF IInv, TypeOK, BatchesPartitionAccepted, Spell
<1>6. flights[k].off + i \in 1..Len(accepted)
  BY <1>3, InAccepted DEF IInv
<1>7. l = accepted[flights[k].off + i]
  BY DEF IInv, BatchesPartitionAccepted, Spell
<1>8. \A j \in 1..Len(flights) : Carries(j, l) => j = k
  BY RequestsDisjoint, Zenon DEF Carries
<1> QED
  BY <1>2, <1>6, <1>7, <1>8, Zenon DEF Taken

\* A flush spawns a request the server does not have and that has not failed.
LEMMA FlushSameFates ==
  ASSUME IInv, NEW b \in Seq(Lines), NEW ctx \in Contexts, FlushLocked(b, ctx)
  PROVE  UNCHANGED <<Delivered, Lost>>
<1>1. CASE b = <<>>
  BY <1>1 DEF FlushLocked, Delivered, Lost, Carries
<1>2. CASE b # <<>>
  <2> DEFINE f == [logs |-> b, ctx |-> ctx, got |-> FALSE, off |-> Handed,
                   st |-> "spawned"]
             n == Len(flights)
  <2>1. flights' = Append(flights, f)
    BY <1>2 DEF FlushLocked
  <2>2. /\ Len(flights') = n + 1 /\ n \in Nat
        /\ flights'[n + 1] = f
        /\ \A k \in 1..n : flights'[k] = flights[k]
    BY <2>1 DEF IInv, TypeOK
  <2>3. ~f.got /\ f.st # "failed"
    OBVIOUS
  <2>4. 1..(n + 1) = (1..n) \cup {n + 1}
    BY <2>2
  <2> HIDE DEF f, n
  <2>5. \A l : \A k \in 1..n : Carries(k, l)' <=> Carries(k, l)
    BY <2>2 DEF Carries
  <2>6. Delivered' = Delivered
    BY <2>2, <2>3, <2>4, <2>5, Zenon DEF Delivered, n
  <2>7. Lost' = Lost
    BY <2>2, <2>3, <2>4, <2>5, Zenon DEF Lost, n
  <2> QED
    BY <2>6, <2>7
<1> QED
  BY <1>1, <1>2

\* Send, flushing or not, is the Accept of LogTransport.
LEMMA SendIsAccept ==
  ASSUME IInv, NEW l \in Lines, NEW ctx \in Contexts, SendWithContext(l, ctx)
  PROVE  Transport!Accept
<1>1. l \in Lines \ Taken
  BY DEF SendWithContext, Taken
<1>2. Taken' = Taken \cup {l}
  <2>1. /\ Len(accepted') = Len(accepted) + 1 /\ Len(accepted) \in Nat
        /\ accepted'[Len(accepted) + 1] = l
        /\ \A i \in 1..Len(accepted) : accepted'[i] = accepted[i]
    BY DEF SendWithContext, IInv, TypeOK
  <2>2. 1..(Len(accepted) + 1) = (1..Len(accepted)) \cup {Len(accepted) + 1}
    BY <2>1
  <2> QED
    BY <2>1, <2>2 DEF Taken
<1>3. UNCHANGED <<Delivered, Lost>>
  <2>1. CASE UNCHANGED flights
    BY <2>1 DEF Delivered, Lost, Carries
  <2>2. CASE FlushLocked(Append(batch, l), ctx)
    <3>1. Append(batch, l) \in Seq(Lines)
      BY DEF IInv, TypeOK
    <3> QED
      BY <2>2, <3>1, FlushSameFates, Zenon
  <2> QED
    BY <2>1, <2>2, Zenon DEF SendWithContext
<1> QED
  BY <1>1, <1>2, <1>3 DEF Transport!Accept

\* A step of a request delivers its lines, loses them, or changes no fate.
LEMMA RequestStepMaps ==
  ASSUME IInv, SendBatches
  PROVE  Transport!Next \/ UNCHANGED Transport!tvars
<1>1. PICK k \in 1..Len(flights), f \in Flight :
         FlightMove(flights[k], f) /\ flights' = [flights EXCEPT ![k] = f]
  BY FlightPick DEF IInv
<1>2. UNCHANGED accepted
  BY FlightPick DEF IInv
<1>3. /\ Len(flights') = Len(flights)
      /\ \A j \in 1..Len(flights) : flights'[j] = IF j = k THEN f ELSE flights[j]
  BY <1>1 DEF IInv, TypeOK
<1> DEFINE S == {l \in Lines : Carries(k, l)}
<1>4. UNCHANGED Taken
  BY <1>2 DEF Taken
<1>5. f.logs = flights[k].logs
  BY <1>1 DEF FlightMove
<1>6. \A l : \A j \in 1..Len(flights) : Carries(j, l)' <=> Carries(j, l)
  BY <1>3, <1>5, Zenon DEF Carries
<1>7. (~flights[k].got /\ flights[k].st # "failed") => S \in SUBSET Transport!Pending
  BY CarriedPending DEF Delivered, Lost, Transport!Pending
<1>8. CASE f.got = flights[k].got /\ f.st # "failed" /\ flights[k].st # "failed"
  <2>1. UNCHANGED <<Delivered, Lost>>
    BY <1>3, <1>6, <1>8, Zenon DEF Delivered, Lost
  <2> QED
    BY <1>4, <2>1 DEF Transport!tvars
<1>9. CASE flights[k].st = "ready" /\ f.st = "posted" /\ f.got = TRUE
  <2>1. ~flights[k].got
    BY <1>9 DEF IInv, GotWhilePosted
  <2>2. S \in SUBSET Transport!Pending
    BY <1>7, <1>9, <2>1
  <2>3. Delivered' = Delivered \cup S
    BY <1>3, <1>6, <1>9, <2>1, Zenon DEF Delivered
  <2>4. Lost' = Lost
    BY <1>3, <1>6, <1>9 DEF Lost
  <2> QED
    BY <1>4, <2>2, <2>3, <2>4, Zenon DEF Transport!Next, Transport!Deliver
<1>10. CASE f.st = "failed" /\ f.got = flights[k].got
  <2>1. Delivered' = Delivered
    BY <1>3, <1>6, <1>10, Zenon DEF Delivered
  <2>2. CASE flights[k].got \/ flights[k].st = "failed"
    <3>1. Lost' = Lost
      BY <1>3, <1>6, <1>10, <2>2 DEF Lost
    <3> QED
      BY <1>4, <2>1, <3>1 DEF Transport!tvars
  <2>3. CASE ~flights[k].got /\ flights[k].st # "failed"
    <3>1. S \in SUBSET Transport!Pending
      BY <1>7, <2>3
    <3>2. Lost' = Lost \cup S
      BY <1>3, <1>6, <1>10, <2>3 DEF Lost
    <3> QED
      BY <1>4, <2>1, <3>1, <3>2, Zenon DEF Transport!Next, Transport!Lose
  <2> QED
    BY <2>2, <2>3
<1> QED
  BY <1>1, <1>8, <1>9, <1>10, Zenon DEF FlightMove

\* The sender implements LogTransport: every accepted line is delivered at
\* most once or lost, for good.
THEOREM Refinement == Spec => ImplementsTransport
<1>1. Init => Transport!Init
  BY DEF Init, Transport!Init, Taken, Delivered, Lost
<1>2. IInv /\ [Next]_vars => [Transport!Next]_(Transport!tvars)
  <2> SUFFICES ASSUME IInv, [Next]_vars
               PROVE  Transport!Next \/ UNCHANGED Transport!tvars
    OBVIOUS
  <2>1. ASSUME NEW l \in Lines, NEW ctx \in Contexts, SendWithContext(l, ctx)
        PROVE  Transport!Next
    BY <2>1, SendIsAccept DEF Transport!Next
  <2>2. CASE UNCHANGED <<accepted, flights>>
    BY <2>2 DEF Transport!tvars, Taken, Delivered, Lost, Carries
  <2>3. CASE FlushLocked(batch, "background") /\ UNCHANGED accepted
    <3>1. UNCHANGED <<Delivered, Lost>>
      BY <2>3, FlushSameFates DEF IInv, TypeOK, Contexts
    <3> QED
      BY <2>3, <3>1 DEF Transport!tvars, Taken
  <2>4. CASE CancelCtx \/ Start
    BY <2>2, <2>4 DEF CancelCtx, Start
  <2>5. CASE FlushLoop
    BY <2>2, <2>3, <2>5 DEF FlushLoop, LoopTick, LoopFlush, LoopStop,
                            LoopFinalFlush, LoopClose
  <2>6. CASE \E s \in Stoppers : Stop(s) \/ StopReturn(s)
    BY <2>2, <2>6 DEF Stop, StopReturn
  <2>7. CASE SendBatches
    BY <2>7, RequestStepMaps
  <2>8. CASE UNCHANGED vars
    BY <2>2, <2>8 DEF vars
  <2> QED
    BY <2>1, <2>4, <2>5, <2>6, <2>7, <2>8 DEF Next
<1> QED
  BY <1>1, <1>2, Invariance, PTL DEF Spec, ImplementsTransport, Transport!Spec
=============================================================================
