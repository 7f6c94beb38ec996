----------------------------- MODULE StreamLog -----------------------------
(***************************************************************************)
(* One run's durable event log: the producer of streams/broker.ts over the *)
(* driver of streams/redis.ts.  Records are numbered from 1, so the log is *)
(* the number of its last record.                                          *)
(*                                                                         *)
(* A text delta waits in the producer's buffer for a 25 ms timer, any      *)
(* other event flushes the buffer at once.  An append is two round trips   *)
(* (HINCRBY of meta.lastSeq, then the XADDs), so lastSeq runs ahead of the *)
(* records.  Every command goes down one connection and is answered in the *)
(* order it was sent, which is why appends overtake neither each other nor *)
(* the finalize behind them.                                               *)
(***************************************************************************)
EXTENDS Integers, Sequences, SequencesExt

CONSTANTS MaxEvents,  \* bound: events the run emits
          Durable     \* the log outlives the server (Redis) or not (memory)

ASSUME LogAssumption == MaxEvents \in Nat /\ Durable \in BOOLEAN

VARIABLES
  run,      \* the stream's life: "none", "open", "ending", "over", "lost"
  emitted,  \* events handed to producer.emit
  flushed,  \* of those, the ones flush has taken out of the buffer
  appends,  \* driver.append calls in flight: the last event of each, in order
  counted,  \* meta.lastSeq
  stored,   \* records in the log, and emitted live
  crashed   \* the server process died during the run

logVars == <<run, emitted, flushed, appends, counted, stored, crashed>>

LogInit ==
  /\ run = "none"
  /\ emitted = 0
  /\ flushed = 0
  /\ appends = <<>>
  /\ counted = 0
  /\ stored = 0
  /\ crashed = FALSE

-----------------------------------------------------------------------------
\* flush() once n events were emitted: one append of the whole buffer.
Flushed(n) == IF n > flushed THEN Append(appends, n) ELSE appends

Flush(n) ==
  /\ flushed' = n
  /\ appends' = Flushed(n)

\* openProducer: createStream, then the starter's announcement.
OpenProducer ==
  /\ run = "none"
  /\ run' = "open"
  /\ UNCHANGED <<emitted, flushed, appends, counted, stored, crashed>>

\* emit of a text or thinking delta: buffered behind the flush timer.
EmitDelta ==
  /\ run = "open"
  /\ emitted < MaxEvents
  /\ emitted' = emitted + 1
  /\ UNCHANGED <<run, flushed, appends, counted, stored, crashed>>

\* emit of anything else: buffered and flushed, deltas before it included.
EmitStructural ==
  /\ run = "open"
  /\ emitted < MaxEvents
  /\ emitted' = emitted + 1
  /\ Flush(emitted + 1)
  /\ UNCHANGED <<run, counted, stored, crashed>>

\* The flush timer: armed exactly while something is buffered.
FlushTimer ==
  /\ flushed < emitted
  /\ Flush(emitted)
  /\ UNCHANGED <<run, emitted, counted, stored, crashed>>

FinalFlush_Missing == UNCHANGED <<flushed, appends>>

\* The flush end() awaits.
FinalFlush == Flush(emitted)

\* producer.end: later emits are ignored, and what is buffered is flushed.
End ==
  /\ run = "open"
  /\ run' = "ending"
  /\ FinalFlush
  /\ UNCHANGED <<emitted, counted, stored, crashed>>

\* HINCRBY of the oldest append that has not had its own yet.
CountAppend ==
  \E i \in DOMAIN appends :
    /\ appends[i] > counted
    /\ \A j \in 1..(i - 1) : appends[j] <= counted
    /\ counted' = appends[i]
    /\ UNCHANGED <<run, emitted, flushed, appends, stored, crashed>>

Counted_NotAwaited(n) == TRUE

\* Its HINCRBY has been answered: the append knows the numbers of its records.
Counted(n) == n <= counted

\* The XADDs of the oldest append are answered: its records are durable, and
\* flush emits them live in the same turn of the event loop.
StoreAppend ==
  /\ appends # <<>>
  /\ Counted(Head(appends))
  /\ stored' = Head(appends)
  /\ appends' = Tail(appends)
  /\ UNCHANGED <<run, emitted, flushed, counted, crashed>>

MayFinalize_Unflushed == run = "ending"

\* end() has awaited its flush, and earlier appends were answered before it.
MayFinalize == run = "ending" /\ appends = <<>>

\* driver.finalize: the status leaves "active" and the end is emitted.
Finalize ==
  /\ MayFinalize
  /\ run' = "over"
  /\ UNCHANGED <<emitted, flushed, appends, counted, stored, crashed>>

\* What recoverOrphanedStreams makes of a run whose process died.
Settled == IF Durable THEN "over" ELSE "lost"

\* The server dies mid-run and starts again: the buffer is gone, commands in
\* flight may or may not have reached Redis, and the boot-time recovery
\* finalizes the stream as "error" before any socket is accepted.
Crash ==
  /\ run \in {"open", "ending"}
  /\ run' = Settled
  /\ crashed' = TRUE
  /\ \E c \in {counted} \cup {n \in ToSet(appends) : n > counted},
        s \in {stored} \cup {n \in ToSet(appends) : n <= counted} :
       IF Durable THEN counted' = c /\ stored' = s /\ emitted' = s /\ flushed' = s
                  ELSE counted' = 0 /\ stored' = 0 /\ emitted' = 0 /\ flushed' = 0
  /\ appends' = <<>>

LogNext ==
  \/ OpenProducer \/ EmitDelta \/ EmitStructural \/ FlushTimer \/ End
  \/ CountAppend \/ StoreAppend \/ Finalize \/ Crash

\* The log by itself, whoever reads it.
LogSpec == LogInit /\ [][LogNext]_logVars

-----------------------------------------------------------------------------
LogTypeOK ==
  /\ run \in {"none", "open", "ending", "over", "lost"}
  /\ emitted \in 0..MaxEvents
  /\ flushed \in 0..emitted
  /\ counted \in 0..MaxEvents
  /\ stored \in 0..counted
  /\ appends \in Seq(1..MaxEvents)
  /\ crashed \in BOOLEAN

\* A run that ended by itself left nothing of what it said out of its log,
\* deltas still in the buffer when it ended included.
SealedLogIsWhole == run = "over" => stored = emitted

\* Once the stream is finalized no record follows: a reader who sees a
\* terminal status has the whole log in the read it makes next.
NothingAfterTheEnd == [][run = "over" => UNCHANGED <<run, stored>>]_logVars
=============================================================================
