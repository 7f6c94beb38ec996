-------------------------- MODULE StreamLogProofs --------------------------
(***************************************************************************)
(* Theorems about one run's event log, for any number of events and either *)
(* driver, and that a device's delivery leaves the log to its own steps.   *)
(***************************************************************************)
EXTENDS StreamDelivery, SequenceTheorems, TLAPS

\* The appends in flight are the part of the buffer that was taken and is not
\* durable yet, cut into pieces, oldest first.
InFlight ==
  /\ \A i \in DOMAIN appends : stored < appends[i] /\ appends[i] <= flushed
  /\ \A i, j \in DOMAIN appends : i < j => appends[i] < appends[j]
  /\ IF appends = <<>> THEN stored = flushed ELSE appends[Len(appends)] = flushed

\* A run that ended, or never began, has nothing left in its buffer; the end()
\* that finalizes awaited its flush.
Drained ==
  /\ run # "open" => flushed = emitted
  /\ run \in {"none", "over", "lost"} => appends = <<>>

LogInv == LogTypeOK /\ InFlight /\ Drained

\* The bound is a number, the driver one of two.
LEMMA MaxEventsNat == MaxEvents \in Nat /\ Durable \in BOOLEAN
BY LogAssumption

\* A stream that has not begun has an empty log.
LEMMA InitLogInv == LogInit => LogInv
<1> SUFFICES ASSUME LogInit PROVE LogInv
  OBVIOUS
<1>1. LogTypeOK
  <2>1. <<>> \in Seq(1..MaxEvents) /\ 0 \in 0..MaxEvents /\ 0 \in 0..0
    BY MaxEventsNat
  <2> QED BY <2>1 DEF LogInit, LogTypeOK
<1>2. InFlight
  BY DEF LogInit, InFlight
<1> QED BY <1>1, <1>2 DEF LogInit, LogInv, Drained

\* What flush hands to the driver goes behind everything still in flight.
LEMMA FlushKeeps ==
  ASSUME LogInv, NEW n \in flushed..MaxEvents, appends' = Flushed(n), flushed' = n,
         stored' = stored
  PROVE  InFlight' /\ appends' \in Seq(1..MaxEvents)
<1>1. /\ flushed \in Nat /\ stored \in Nat /\ n \in Nat /\ stored <= flushed
      /\ appends \in Seq(1..MaxEvents)
  <2>1. /\ flushed \in Nat /\ stored \in Nat /\ n \in Nat /\ appends \in Seq(1..MaxEvents)
    BY MaxEventsNat DEF LogInv, LogTypeOK
  <2>2. CASE appends = <<>>
    BY <2>1, <2>2 DEF LogInv, InFlight
  <2>3. CASE appends # <<>>
    <3>1. Len(appends) \in DOMAIN appends
      BY <2>1, <2>3
    <3> QED BY <2>1, <2>3, <3>1 DEF LogInv, InFlight
  <2> QED BY <2>1, <2>2, <2>3
<1>2. CASE n > flushed
  <2>1. appends' = Append(appends, n) /\ n \in 1..MaxEvents
    BY <1>1, <1>2 DEF Flushed
  <2>2. /\ appends' \in Seq(1..MaxEvents)
        /\ Len(appends') = Len(appends) + 1
        /\ appends'[Len(appends) + 1] = n
        /\ \A i \in DOMAIN appends : appends'[i] = appends[i]
        /\ DOMAIN appends' = DOMAIN appends \cup {Len(appends) + 1}
    BY <1>1, <2>1
  <2>3. \A i \in DOMAIN appends : stored < appends[i] /\ appends[i] <= flushed /\ appends[i] \in Nat
    <3>1. \A i \in DOMAIN appends : appends[i] \in 1..MaxEvents
      BY <1>1, LenProperties, ElementOfSeq
    <3> QED BY <3>1, MaxEventsNat DEF LogInv, InFlight
  <2>4. \A i \in DOMAIN appends' : stored < appends'[i] /\ appends'[i] <= n
    BY <1>1, <1>2, <2>2, <2>3
  <2>5. \A i, j \in DOMAIN appends' : i < j => appends'[i] < appends'[j]
    <3> SUFFICES ASSUME NEW i \in DOMAIN appends', NEW j \in DOMAIN appends', i < j
                 PROVE  appends'[i] < appends'[j]
      OBVIOUS
    <3>1. i \in DOMAIN appends
      <4>1. DOMAIN appends = 1..Len(appends) /\ Len(appends) \in Nat
        BY <1>1, LenProperties
      <4> QED BY <2>2, <4>1
    <3>2. CASE j \in DOMAIN appends
      BY <3>1, <3>2, <2>2 DEF LogInv, InFlight
    <3>3. CASE j = Len(appends) + 1
      BY <1>1, <1>2, <2>2, <2>3, <3>1, <3>3
    <3> QED BY <2>2, <3>2, <3>3
  <2>6. appends' # <<>>
    BY <1>1, <2>2
  <2> QED BY <2>2, <2>4, <2>5, <2>6 DEF InFlight
<1>3. CASE n = flushed
  <2>1. appends' = appends
    BY <1>1, <1>3 DEF Flushed
  <2> QED BY <1>1, <1>3, <2>1 DEF LogInv, InFlight
<1> QED BY <1>1, <1>2, <1>3

\* The records are behind the buffer, and the buffer behind what was emitted.
LEMMA InvBounds ==
  ASSUME LogInv
  PROVE  /\ emitted \in Nat /\ flushed \in Nat /\ counted \in Nat /\ stored \in Nat
         /\ stored <= flushed /\ flushed <= emitted /\ emitted <= MaxEvents
         /\ stored <= counted /\ counted <= MaxEvents
         /\ appends \in Seq(1..MaxEvents) /\ DOMAIN appends = 1..Len(appends) /\ Len(appends) \in Nat
         /\ \A i \in DOMAIN appends : appends[i] \in 1..MaxEvents
<1>1. /\ emitted \in Nat /\ flushed \in Nat /\ counted \in Nat /\ stored \in Nat
      /\ flushed <= emitted /\ emitted <= MaxEvents
      /\ stored <= counted /\ counted <= MaxEvents
      /\ appends \in Seq(1..MaxEvents)
  BY MaxEventsNat DEF LogInv, LogTypeOK
<1>2. DOMAIN appends = 1..Len(appends) /\ Len(appends) \in Nat
      /\ \A i \in DOMAIN appends : appends[i] \in 1..MaxEvents
  BY <1>1, LenProperties, ElementOfSeq
<1>3. CASE appends = <<>>
  BY <1>1, <1>2, <1>3 DEF LogInv, InFlight
<1>4. CASE appends # <<>>
  <2>1. Len(appends) \in DOMAIN appends
    BY <1>1, <1>2, <1>4, EmptySeq
  <2> QED BY <1>1, <1>2, <1>4, <2>1 DEF LogInv, InFlight
<1> QED BY <1>1, <1>2, <1>3, <1>4

\* An event waits in the buffer, or takes it along.
LEMMA EmitStep == ASSUME LogInv, EmitDelta \/ EmitStructural PROVE LogInv'
<1>1. emitted' = emitted + 1 /\ emitted' \in 0..MaxEvents /\ run = "open" /\ run' = "open"
  BY InvBounds, MaxEventsNat DEF EmitDelta, EmitStructural
<1>2. CASE EmitDelta
  <2>1. UNCHANGED <<flushed, appends, counted, stored, crashed>>
    BY <1>2 DEF EmitDelta
  <2> QED BY <1>1, <2>1, InvBounds DEF LogInv, LogTypeOK, InFlight, Drained
<1>3. CASE EmitStructural
  <2>1. /\ flushed' = emitted + 1 /\ appends' = Flushed(emitted + 1)
        /\ UNCHANGED <<counted, stored, crashed>>
    BY <1>3 DEF EmitStructural, Flush
  <2>2. emitted + 1 \in flushed..MaxEvents
    BY <1>1, InvBounds, MaxEventsNat
  <2>3. InFlight' /\ appends' \in Seq(1..MaxEvents)
    BY <2>1, <2>2, FlushKeeps
  <2> QED BY <1>1, <2>1, <2>3, InvBounds DEF LogInv, LogTypeOK, Drained
<1> QED BY <1>2, <1>3

\* FlushTimer and End: the whole buffer is taken.
LEMMA TakeBufferStep ==
  ASSUME LogInv, Flush(emitted), UNCHANGED <<emitted, counted, stored, crashed>>,
         run = "open", run' \in {"open", "ending"}
  PROVE  LogInv'
<1>1. emitted \in flushed..MaxEvents
  BY InvBounds, MaxEventsNat
<1>2. InFlight' /\ appends' \in Seq(1..MaxEvents) /\ flushed' = emitted
  BY <1>1, FlushKeeps DEF Flush
<1> QED BY <1>2, InvBounds DEF LogInv, LogTypeOK, Drained

\* HINCRBY moves the count to what an append in flight will store.
LEMMA CountAppendStep == ASSUME LogInv, CountAppend PROVE LogInv'
<1>1. PICK i \in DOMAIN appends : appends[i] > counted /\ counted' = appends[i]
           /\ UNCHANGED <<run, emitted, flushed, appends, stored, crashed>>
  BY DEF CountAppend
<1>2. counted' \in 0..MaxEvents /\ stored \in 0..counted'
  BY <1>1, InvBounds, MaxEventsNat
<1> QED BY <1>1, <1>2 DEF LogInv, LogTypeOK, InFlight, Drained

\* The oldest append becomes durable and the others stay in order.
LEMMA StoreAppendStep == ASSUME LogInv, StoreAppend PROVE LogInv'
<1>1. /\ appends # <<>> /\ Head(appends) <= counted
      /\ stored' = Head(appends) /\ appends' = Tail(appends)
      /\ UNCHANGED <<run, emitted, flushed, counted, crashed>>
  BY DEF StoreAppend, Counted
<1>2. /\ Head(appends) = appends[1] /\ 1 \in DOMAIN appends /\ Len(appends) \in DOMAIN appends
      /\ appends' \in Seq(1..MaxEvents) /\ Len(appends') = Len(appends) - 1
      /\ \A i \in 1..(Len(appends) - 1) : appends'[i] = appends[i + 1]
      /\ DOMAIN appends' = 1..(Len(appends) - 1)
  BY <1>1, InvBounds, EmptySeq, HeadTailProperties, LenProperties
<1>3. stored' \in 0..counted /\ stored' \in 1..MaxEvents
  BY <1>1, <1>2, InvBounds
<1>4. \A i \in DOMAIN appends' : i + 1 \in DOMAIN appends /\ i + 1 > 1 /\ appends'[i] = appends[i + 1]
  <2> DEFINE n == Len(appends)
  <2>1. n \in Nat /\ DOMAIN appends = 1..n /\ DOMAIN appends' = 1..(n - 1)
    BY <1>2, InvBounds
  <2>2. \A i \in 1..(n - 1) : i + 1 \in 1..n /\ i + 1 > 1
    <3> HIDE DEF n
    <3> QED BY <2>1
  <2> QED BY <1>2, <2>1, <2>2
<1>5. \A i \in DOMAIN appends' : stored' < appends'[i] /\ appends'[i] <= flushed
  BY <1>1, <1>2, <1>4 DEF LogInv, InFlight
<1>6. \A i, j \in DOMAIN appends' : i < j => appends'[i] < appends'[j]
  <2> SUFFICES ASSUME NEW i \in DOMAIN appends', NEW j \in DOMAIN appends', i < j
               PROVE  appends'[i] < appends'[j]
    OBVIOUS
  <2>1. i + 1 < j + 1
    BY <1>2, InvBounds
  <2> QED BY <1>4, <2>1 DEF LogInv, InFlight
<1>7. IF appends' = <<>> THEN stored' = flushed ELSE appends'[Len(appends')] = flushed
  <2>1. appends[Len(appends)] = flushed
    BY <1>1 DEF LogInv, InFlight
  <2>2. CASE Len(appends) = 1
    BY <1>1, <1>2, <2>1, <2>2, InvBounds, EmptySeq
  <2>3. CASE Len(appends) # 1
    <3>1. Len(appends') \in 1..(Len(appends) - 1) /\ Len(appends') + 1 = Len(appends)
      BY <1>2, <2>3, InvBounds
    <3>2. appends'[Len(appends')] = flushed
      BY <1>2, <2>1, <3>1
    <3>3. appends' # <<>>
      BY <1>2, <3>1
    <3> QED BY <3>2, <3>3
  <2> QED BY <2>2, <2>3
<1> QED BY <1>1, <1>2, <1>3, <1>5, <1>6, <1>7 DEF LogInv, LogTypeOK, InFlight, Drained

\* What a crash leaves is a finished log.
LEMMA CrashStep == ASSUME LogInv, Crash PROVE LogInv'
<1>1. PICK c \in {counted} \cup {n \in ToSet(appends) : n > counted},
           s \in {stored} \cup {n \in ToSet(appends) : n <= counted} :
        IF Durable THEN counted' = c /\ stored' = s /\ emitted' = s /\ flushed' = s
                   ELSE counted' = 0 /\ stored' = 0 /\ emitted' = 0 /\ flushed' = 0
  BY DEF Crash
<1>2. ToSet(appends) \subseteq 1..MaxEvents
  BY InvBounds DEF ToSet
<1>3. c \in 0..MaxEvents /\ s \in 0..MaxEvents /\ s <= counted /\ counted <= c /\ s \in 0..c
  BY <1>1, <1>2, InvBounds, MaxEventsNat
<1>4. appends' = <<>> /\ crashed' = TRUE /\ run' \in {"over", "lost"} /\ <<>> \in Seq(1..MaxEvents)
  BY DEF Crash, Settled
<1>5. counted' \in 0..MaxEvents /\ stored' \in 0..counted' /\ flushed' \in 0..emitted'
      /\ emitted' \in 0..MaxEvents /\ emitted' = flushed' /\ stored' = flushed'
  BY <1>1, <1>3, MaxEventsNat
<1> QED BY <1>4, <1>5 DEF LogInv, LogTypeOK, InFlight, Drained

\* Every step of the log keeps its invariant.
LEMMA NextLogInv == LogInv /\ [LogNext]_logVars => LogInv'
<1> SUFFICES ASSUME LogInv, [LogNext]_logVars PROVE LogInv'
  OBVIOUS
<1>1. CASE OpenProducer
  BY <1>1, InvBounds DEF OpenProducer, LogInv, LogTypeOK, InFlight, Drained
<1>2. CASE EmitDelta \/ EmitStructural
  BY <1>2, EmitStep
<1>3. CASE FlushTimer
  <2>1. run = "open"
    BY <1>3, InvBounds DEF FlushTimer, LogInv, Drained
  <2> QED BY <1>3, <2>1, TakeBufferStep DEF FlushTimer
<1>4. CASE End
  BY <1>4, TakeBufferStep DEF End, FinalFlush
<1>5. CASE CountAppend
  BY <1>5, CountAppendStep
<1>6. CASE StoreAppend
  BY <1>6, StoreAppendStep
<1>7. CASE Finalize
  BY <1>7, InvBounds DEF Finalize, MayFinalize, LogInv, LogTypeOK, InFlight, Drained
<1>8. CASE Crash
  BY <1>8, CrashStep
<1>9. CASE UNCHANGED logVars
  BY <1>9 DEF logVars, LogInv, LogTypeOK, InFlight, Drained
<1> QED BY <1>1, <1>2, <1>3, <1>4, <1>5, <1>6, <1>7, <1>8, <1>9 DEF LogNext

\* The types of the log, and its buffer in order.
THEOREM LogInvariance == LogSpec => []LogInv
BY InitLogInv, NextLogInv, PTL DEF LogSpec

\* A run that ended by itself left nothing it said out of its log.
THEOREM SealedLogsAreWhole == LogSpec => []SealedLogIsWhole
<1>1. LogInv => SealedLogIsWhole
  BY DEF LogInv, InFlight, Drained, SealedLogIsWhole
<1> QED BY <1>1, LogInvariance, PTL

\* No record follows the end of a stream, and a stream ends once.
THEOREM NothingFollowsTheEnd == LogSpec => NothingAfterTheEnd
<1>1. LogInv /\ [LogNext]_logVars => [run = "over" => UNCHANGED <<run, stored>>]_logVars
  <2> SUFFICES ASSUME LogInv, LogNext, run = "over" PROVE UNCHANGED <<run, stored>>
    OBVIOUS
  <2>1. appends = <<>>
    BY DEF LogInv, Drained
  <2> QED BY <2>1 DEF LogNext, OpenProducer, EmitDelta, EmitStructural, FlushTimer, End,
                      CountAppend, StoreAppend, Finalize, MayFinalize, Crash
<1> QED BY <1>1, LogInvariance, PTL DEF LogSpec, NothingAfterTheEnd

-----------------------------------------------------------------------------
\* Whatever a device, its socket and its subscribes do, the run's log moves by
\* the log's own steps.
THEOREM DeliveryLeavesTheLogAlone == Spec => LogSpec
<1>1. Init => LogInit
  BY DEF Init
<1>2. [Next]_vars => [LogNext]_logVars
  <2> SUFFICES ASSUME [Next]_vars PROVE [LogNext]_logVars
    OBVIOUS
  <2>1. CASE OpenRun \/ Speak \/ Carry \/ Store \/ EndRun
    BY <2>1 DEF OpenRun, Speak, Carry, Store, EndRun, LogNext
  <2>2. ASSUME NEW c \in Calls, CallStep(c) PROVE UNCHANGED logVars
    BY <2>2 DEF CallStep, AutoSubscribe, Announced, ListRuns, ReadMeta, ReadLog, CatchUp, Reread,
                SendFinished, Quiet
  <2>3. CASE ClientStep \/ OpenThread \/ Reconnect
    BY <2>3 DEF ClientStep, ReceiveSync, ReceiveEvent, ReceiveGap, ReceiveEnd, CooldownOver,
                Serverside, OpenThread, Reconnect
  <2>4. CASE Restart
    BY <2>4 DEF Restart, LogNext
  <2>5. CASE Rest \/ UNCHANGED vars
    BY <2>5 DEF Rest, vars, logVars
  <2> QED BY <2>1, <2>2, <2>3, <2>4, <2>5 DEF Next
<1> QED BY <1>1, <1>2, PTL DEF Spec, LogSpec

\* So what was said of the log holds beside any device.
THEOREM DeliveredLogsAreWhole == Spec => []SealedLogIsWhole
BY DeliveryLeavesTheLogAlone, SealedLogsAreWhole

\* And ends once.
THEOREM DeliveredLogsEnd == Spec => NothingAfterTheEnd
BY DeliveryLeavesTheLogAlone, NothingFollowsTheEnd
=============================================================================
