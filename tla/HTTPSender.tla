----------------------------- MODULE HTTPSender -----------------------------
(***************************************************************************)
(* pkg/sender/http_sender.go: lines are collected in a batch under a lock; *)
(* a full batch, a ticker and Stop each hand the batch to a goroutine of   *)
(* its own that makes one HTTP request.  Sending goroutines, the flush     *)
(* loop, the callers of Stop and the requests run concurrently; whatever   *)
(* the code does under s.lock is one step.                                 *)
(***************************************************************************)
EXTENDS Integers, Sequences

CONSTANTS
  Lines,     \* the calls of Send, each with the line it carries
  Stoppers,  \* the goroutines that call Stop
  Sizes      \* the batch sizes a configuration may ask for

ASSUME SizesAssumption == Sizes \subseteq Int

VARIABLES
  batchSize,  \* s.batchSize
  batch,      \* s.batch
  flights,    \* the goroutines spawned by flushLockedWithContext, in order
  ctxDone,    \* the context given to SendWithContext is cancelled
  loop,       \* where the flushLoop goroutine is
  stopCh,     \* s.stopCh is closed
  stoppedCh,  \* s.stoppedCh is closed
  stopper,    \* where each caller of Stop is
  accepted,   \* history: the lines Send has taken, in lock order
  atStop      \* history: how many of them when stopCh was closed

vars == <<batchSize, batch, flights, ctxDone, loop, stopCh, stoppedCh,
          stopper, accepted, atStop>>

Contexts == {"background", "caller"}

\* One asynchronous sendBatchWithContext.  "got" and "off" are history: the
\* server has taken the batch; the number of lines handed over before it.
Flight == [logs : Seq(Lines), ctx : Contexts, got : BOOLEAN, off : Nat,
           st : {"spawned", "ready", "posted", "sent", "failed"}]

-----------------------------------------------------------------------------
\* NewHTTPSender normalises the size.
NewHTTPSender(n) == IF n <= 0 THEN 1 ELSE n

\* NewSecureHTTPSender keeps the configured size; make([]string, 0, n)
\* panics for a negative one, so that no sender comes out of it.
NewSecureHTTPSender == {n \in Sizes : n >= 0}

Init ==
  /\ batchSize \in {NewHTTPSender(n) : n \in Sizes} \cup NewSecureHTTPSender
  /\ batch = <<>>
  /\ flights = <<>>
  /\ ctxDone = FALSE
  /\ loop = "unstarted"
  /\ stopCh = FALSE
  /\ stoppedCh = FALSE
  /\ stopper = [s \in Stoppers |-> "idle"]
  /\ accepted = <<>>
  /\ atStop = 0

-----------------------------------------------------------------------------
\* The number of accepted lines that have been handed to a request.
Handed == LET n == Len(flights)
          IN  IF n = 0 THEN 0 ELSE flights[n].off + Len(flights[n].logs)

\* Mutant: the batch is handed over and not cleared.
MFlushKeeps(b, ctx) ==
  \/ /\ b = <<>>
     /\ batch' = b
     /\ UNCHANGED flights
  \/ /\ b # <<>>
     /\ Len(flights) < 3
     /\ batch' = b
     /\ flights' = Append(flights, [logs |-> b, ctx |-> ctx, got |-> FALSE,
                                    off |-> Handed, st |-> "spawned"])

\* flushLockedWithContext on a batch b: an empty one is left alone; otherwise
\* a copy goes to a new goroutine and the batch is cleared.
FlushLocked(b, ctx) ==
  \/ /\ b = <<>>
     /\ batch' = b
     /\ UNCHANGED flights
  \/ /\ b # <<>>
     /\ batch' = <<>>
     /\ flights' = Append(flights, [logs |-> b, ctx |-> ctx, got |-> FALSE,
                                    off |-> Handed, st |-> "spawned"])

\* Mutant: > for >= in the comparison with the batch size.
MSendLate(l, ctx) ==
  LET b == Append(batch, l)
  IN  /\ \A i \in 1..Len(accepted) : accepted[i] # l
      /\ accepted' = Append(accepted, l)
      /\ \/ /\ Len(b) > batchSize
            /\ FlushLocked(b, ctx)
         \/ /\ Len(b) <= batchSize
            /\ batch' = b
            /\ UNCHANGED flights
      /\ UNCHANGED <<batchSize, ctxDone, loop, stopCh, stoppedCh, stopper, atStop>>

\* SendWithContext appends and flushes a full batch, also after Stop.
SendWithContext(l, ctx) ==
  LET b == Append(batch, l)
  IN  /\ \A i \in 1..Len(accepted) : accepted[i] # l
      /\ accepted' = Append(accepted, l)
      /\ \/ /\ Len(b) >= batchSize
            /\ FlushLocked(b, ctx)
         \/ /\ Len(b) < batchSize
            /\ batch' = b
            /\ UNCHANGED flights
      /\ UNCHANGED <<batchSize, ctxDone, loop, stopCh, stoppedCh, stopper, atStop>>

Send(l) == SendWithContext(l, "background")

\* The owner of the context passed to SendWithContext cancels it.
CancelCtx ==
  /\ ~ctxDone
  /\ ctxDone' = TRUE
  /\ UNCHANGED <<batchSize, batch, flights, loop, stopCh, stoppedCh, stopper,
                 accepted, atStop>>

-----------------------------------------------------------------------------
LoopGoto(from, to) ==
  /\ loop = from
  /\ loop' = to

\* Start spawns the flush loop; the agents call it once.
Start ==
  /\ LoopGoto("unstarted", "select")
  /\ UNCHANGED <<batchSize, batch, flights, ctxDone, stopCh, stoppedCh,
                 stopper, accepted, atStop>>

\* select takes <-ticker.C; the lock for the flush is taken later.
LoopTick ==
  /\ LoopGoto("select", "tick")
  /\ UNCHANGED <<batchSize, batch, flights, ctxDone, stopCh, stoppedCh,
                 stopper, accepted, atStop>>

\* Mutant: the tick is taken and nothing is flushed.
MTickOnly ==
  /\ LoopGoto("tick", "select")
  /\ UNCHANGED <<batchSize, batch, flights, ctxDone, stopCh, stoppedCh,
                 stopper, accepted, atStop>>

LoopFlush ==
  /\ LoopGoto("tick", "select")
  /\ FlushLocked(batch, "background")
  /\ UNCHANGED <<batchSize, ctxDone, stopCh, stoppedCh, stopper, accepted, atStop>>

\* select takes <-s.stopCh and returns into the deferred function.
LoopStop ==
  /\ LoopGoto("select", "final")
  /\ stopCh
  /\ UNCHANGED <<batchSize, batch, flights, ctxDone, stopCh, stoppedCh,
                 stopper, accepted, atStop>>

\* Mutant: no flush before close(stoppedCh).
MNoFinalFlush ==
  /\ LoopGoto("final", "closing")
  /\ UNCHANGED <<batchSize, batch, flights, ctxDone, stopCh, stoppedCh,
                 stopper, accepted, atStop>>

LoopFinalFlush ==
  /\ LoopGoto("final", "closing")
  /\ FlushLocked(batch, "background")
  /\ UNCHANGED <<batchSize, ctxDone, stopCh, stoppedCh, stopper, accepted, atStop>>

\* Mutant: the loop ends and stoppedCh stays open.
MNoClose ==
  /\ LoopGoto("closing", "done")
  /\ UNCHANGED <<batchSize, batch, flights, ctxDone, stopCh, stoppedCh,
                 stopper, accepted, atStop>>

LoopClose ==
  /\ LoopGoto("closing", "done")
  /\ stoppedCh' = TRUE
  /\ UNCHANGED <<batchSize, batch, flights, ctxDone, stopCh, stopper, accepted, atStop>>

-----------------------------------------------------------------------------
\* Stop under the lock: the first caller closes stopCh and goes on to wait,
\* a later one returns at once.
Stop(s) ==
  /\ stopper[s] = "idle"
  /\ \/ /\ stopCh
        /\ stopper' = [stopper EXCEPT ![s] = "returned"]
        /\ UNCHANGED <<stopCh, atStop>>
     \/ /\ ~stopCh
        /\ stopCh' = TRUE
        /\ stopper' = [stopper EXCEPT ![s] = "waiting"]
        /\ atStop' = Len(accepted)
  /\ UNCHANGED <<batchSize, batch, flights, ctxDone, loop, stoppedCh, accepted>>

\* <-s.stoppedCh
StopReturn(s) ==
  /\ stopper[s] = "waiting"
  /\ stoppedCh
  /\ stopper' = [stopper EXCEPT ![s] = "returned"]
  /\ UNCHANGED <<batchSize, batch, flights, ctxDone, loop, stopCh, stoppedCh,
                 accepted, atStop>>

-----------------------------------------------------------------------------
Cancelled(f) == f.ctx = "caller" /\ ctxDone

FlightGoto(k, from, to, got) ==
  /\ flights[k].st \in from
  /\ flights' = [flights EXCEPT ![k].st = to, ![k].got = got]
  /\ UNCHANGED <<batchSize, batch, ctxDone, loop, stopCh, stoppedCh, stopper,
                 accepted, atStop>>

\* Marshalling, encryption, building the request and authentication succeed.
SendBatchPrepare(k) == FlightGoto(k, {"spawned"}, "ready", flights[k].got)

\* client.Do reaches a server that takes the batch; it never starts on a
\* context that is already cancelled.
SendBatchDo(k) ==
  /\ ~Cancelled(flights[k])
  /\ FlightGoto(k, {"ready"}, "posted", TRUE)

\* A 2xx response is back.
SendBatchOk(k) == FlightGoto(k, {"posted"}, "sent", flights[k].got)

\* Mutant: after an error the batch goes into another request.
MFailRetries(k) ==
  /\ flights[k].st \in {"spawned", "ready", "posted"}
  /\ Len(flights) < 3
  /\ flights' = Append([flights EXCEPT ![k].st = "failed"],
                       [flights[k] EXCEPT !.st = "spawned", !.got = FALSE])
  /\ UNCHANGED <<batchSize, batch, ctxDone, loop, stopCh, stoppedCh, stopper,
                 accepted, atStop>>

\* Any error return: preparing the request, the connection, the 10s client
\* timeout, the cancelled context, a refused batch or a response other than
\* 2xx, lost responses included.  The error is logged and the batch dropped.
SendBatchFail(k) ==
  FlightGoto(k, {"spawned", "ready", "posted"}, "failed", flights[k].got)

SendBatch(k) ==
  \/ SendBatchPrepare(k)
  \/ SendBatchDo(k)
  \/ SendBatchOk(k)
  \/ SendBatchFail(k)

-----------------------------------------------------------------------------
\* The steps the sender's own goroutines take.
FlushLoop ==
  \/ LoopTick
  \/ LoopFlush
  \/ LoopStop
  \/ LoopFinalFlush
  \/ LoopClose

SendBatches == \E k \in DOMAIN flights : SendBatch(k)

Next ==
  \/ \E l \in Lines, ctx \in Contexts : SendWithContext(l, ctx)
  \/ CancelCtx
  \/ Start
  \/ FlushLoop
  \/ \E s \in Stoppers : Stop(s) \/ StopReturn(s)
  \/ SendBatches

Spec == Init /\ [][Next]_vars

\* Goroutines are scheduled, the ticker keeps firing, the client timeout ends
\* every request, and select picks fairly among the cases that are ready
\* (strong fairness of LoopStop).  Nobody has to call Send, Start or Stop.
Fairness ==
  /\ WF_vars(LoopTick) /\ WF_vars(LoopFlush) /\ SF_vars(LoopStop)
  /\ WF_vars(LoopFinalFlush) /\ WF_vars(LoopClose)
  /\ WF_vars(SendBatches)
  /\ \A s \in Stoppers : WF_vars(StopReturn(s))

FairSpec == Spec /\ Fairness

-----------------------------------------------------------------------------
TypeOK ==
  /\ batchSize \in Nat
  /\ batch \in Seq(Lines)
  /\ flights \in Seq(Flight)
  /\ ctxDone \in BOOLEAN
  /\ loop \in {"unstarted", "select", "tick", "final", "closing", "done"}
  /\ stopCh \in BOOLEAN
  /\ stoppedCh \in BOOLEAN
  /\ stopper \in [Stoppers -> {"idle", "waiting", "returned"}]
  /\ accepted \in Seq(Lines)
  /\ atStop \in Nat

\* Between two critical sections the batch is below the size that triggers a
\* flush, and no request carries an empty batch or more lines than that size.
BatchBounded ==
  LET limit == IF batchSize = 0 THEN 1 ELSE batchSize
  IN  /\ Len(batch) < limit
      /\ \A k \in 1..Len(flights) : Len(flights[k].logs) \in 1..limit

\* The requests, in the order they were spawned, followed by b spell acc.
Spell(b, acc) ==
  /\ \A k \in 1..Len(flights) :
        /\ flights[k].off =
             IF k = 1 THEN 0
                      ELSE flights[k-1].off + Len(flights[k-1].logs)
        /\ \A i \in 1..Len(flights[k].logs) :
              flights[k].logs[i] = acc[flights[k].off + i]
  /\ Len(acc) = Handed + Len(b)
  /\ \A i \in 1..Len(b) : b[i] = acc[Handed + i]

\* The requests followed by the batch spell the accepted lines in the order
\* Send took them: whatever flushes race, no line is dropped, repeated or
\* reordered between Send and a request.
BatchesPartitionAccepted == Spell(batch, accepted)

\* The deferred flush comes before close(stoppedCh): when the caller that
\* closed stopCh is released, every line accepted before its call has been
\* handed to a request.
StopHandsOverAccepted == stoppedCh => stopCh /\ Handed >= atStop

\* The server never takes a line twice: a line is in one request only, and a
\* request, failed or not, is never made again.
ServerTakesLineOnce ==
  \A j, k \in 1..Len(flights) :
     j # k /\ flights[j].got /\ flights[k].got =>
       \A i \in 1..Len(flights[j].logs), m \in 1..Len(flights[k].logs) :
          flights[j].logs[i] # flights[k].logs[m]

\* The parts of the inductive invariant that are not claims of their own:
\* requests cover disjoint ranges of the accepted lines; Send is called once
\* per line; the server has a batch from client.Do on; the flush loop leaves the
\* select only on a closed stopCh and closes stoppedCh last.
OffsetsOrdered ==
  \A j, k \in 1..Len(flights) :
     j < k => flights[j].off + Len(flights[j].logs) <= flights[k].off

AcceptedDistinct ==
  \A i, j \in 1..Len(accepted) : i # j => accepted[i] # accepted[j]

GotWhilePosted ==
  \A k \in 1..Len(flights) :
     /\ flights[k].st \in {"spawned", "ready"} => ~flights[k].got
     /\ flights[k].st \in {"posted", "sent"} => flights[k].got

StopOrder ==
  /\ atStop <= Len(accepted)
  /\ loop \in {"final", "closing", "done"} => stopCh
  /\ loop \in {"closing", "done"} => Handed >= atStop
  /\ stoppedCh => loop = "done"

\* The inductive invariant behind the proofs: the three safety properties
\* above need one another's facts about Handed and the ranges.
IInv ==
  /\ TypeOK
  /\ BatchBounded
  /\ BatchesPartitionAccepted
  /\ OffsetsOrdered
  /\ AcceptedDistinct
  /\ GotWhilePosted
  /\ StopOrder

-----------------------------------------------------------------------------
Carries(k, l) == \E i \in 1..Len(flights[k].logs) : flights[k].logs[i] = l

\* The request that carries l is over.
Settled(l) == \E k \in DOMAIN flights :
                 Carries(k, l) /\ flights[k].st \in {"sent", "failed"}

\* What has become of the lines, for LogTransport.
Taken == {accepted[i] : i \in 1..Len(accepted)}
Delivered == {l \in Lines : \E k \in 1..Len(flights) :
                               Carries(k, l) /\ flights[k].got}
Lost == {l \in Lines : \E k \in 1..Len(flights) :
           Carries(k, l) /\ flights[k].st = "failed" /\ ~flights[k].got}

Transport == INSTANCE LogTransport
             WITH taken <- Taken, delivered <- Delivered, lost <- Lost

\* The sender implements LogTransport: a line Send took is delivered at most
\* once or lost, for good, and no flush, failure or late response changes the
\* fate of a line that is not in the request it belongs to.
ImplementsTransport == Transport!Spec

\* Said of Stop: "stops the sender and flushes any remaining logs".  When a
\* caller of Stop is back, the requests for the lines accepted before stopCh
\* was closed are over.
StopFinishesRequests ==
  \A s \in Stoppers : stopper[s] = "returned" =>
     \A i \in 1..atStop : Settled(accepted[i])

\* The caller of Stop that waits for the flush loop is released.
StopReturns ==
  \A s \in Stoppers :
     (stopper[s] = "waiting" /\ loop # "unstarted") ~> (stopper[s] = "returned")

\* A line accepted while the flush loop runs and before stopCh is closed is
\* not forgotten: its request is made and ends.
AcceptedSettles ==
  \A l \in Lines :
     (/\ \E i \in 1..Len(accepted) : accepted[i] = l
      /\ loop # "unstarted"
      /\ ~stopCh) ~> Settled(l)
=============================================================================
