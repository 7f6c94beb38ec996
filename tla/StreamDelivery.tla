--------------------------- MODULE StreamDelivery ---------------------------
(***************************************************************************)
(* How one device follows one run: the per-socket delivery of              *)
(* ws/delivery.ts between the log (StreamLog) and the reducer of the       *)
(* mobile client (hooks/useChatSession.ts).                                *)
(*                                                                         *)
(* A socket's messages are not handled one at a time (`void handleMessage`)*)
(* so every subscribe is an activation of its own, with its own closure    *)
(* (its cursor, `pending`) and its own place between awaits; they share    *)
(* the socket's `subs`.  Devices share nothing but the log, so one device  *)
(* is enough.                                                              *)
(***************************************************************************)
EXTENDS StreamLog, FiniteSets, Functions

CONSTANTS Roles,          \* how the device may relate to the run, see RoleNames
          MaxCalls,       \* bound: activations alive at once
          MaxDrops,       \* bound: sends dropped for backpressure
          MaxReconnects,  \* bound: sockets replaced
          MaxRestarts     \* bound: server restarts

RoleNames == {"opener",    \* opens the thread at some moment, the run starts elsewhere
              "replier",   \* opens the thread and sends the turn
              "creator"}   \* sends the turn that creates the conversation
Senders == {"replier", "creator"}

ASSUME DeliveryAssumption ==
  /\ Roles \subseteq RoleNames
  /\ MaxCalls \in Nat \ {0, 1}   \* a run that opens may start two at once
  /\ MaxDrops \in Nat
  /\ MaxReconnects \in Nat
  /\ MaxRestarts \in Nat

VARIABLES
  role,        \* this device's role
  calls,       \* activations of autoSubscribe, handleSubscribe and the watch
  subs,        \* the socket's entry for the stream: Empty, Reserved or a call
  watching,    \* convWatches has the conversation
  synced,      \* syncedFinished has the stream
  wire,        \* messages on their way to the device, oldest first
  cursor,      \* client: cursorsRef, Unknown before it has one
  view,        \* client: the records folded into what it shows
  tracked,     \* client: streamingByConv, the run is counted as going
  claimed,     \* client: this socket has asked for the conversation
  cooling,     \* client: within RESYNC_COOLDOWN_MS of its last resync request
  torn,        \* history: a resync took down another subscribe's reservation
  drops, reconnects, restarts

socketVars == <<calls, subs, watching, synced, wire, torn>>
clientVars == <<cursor, view, tracked, claimed, cooling>>
boundVars == <<drops, reconnects, restarts>>
vars == <<run, emitted, flushed, appends, counted, stored, crashed, role,
          calls, subs, watching, synced, wire, torn, cursor, view, tracked,
          claimed, cooling, drops, reconnects, restarts>>

Calls == 1..MaxCalls
Empty == 0
Reserved == -1
Unknown == -1

Phases == {"idle", "watch", "send", "authz", "listed", "read", "status",
           "reread", "live"}
Modes == {"catchUp", "tapOnly", "forceSync"}

\* One activation: where it is, whether it is a stream.subscribe and what it
\* asked for, the mode of its subscribeToStream and what that has read.
NoCall == [pc |-> "idle", explicit |-> FALSE, named |-> FALSE, found |-> FALSE,
           mode |-> "catchUp", cursor |-> 0, least |-> 0, seen |-> 0]

Sync(n, active) == [type |-> "sync", seq |-> n, active |-> active]
Event(n) == [type |-> "event", seq |-> n, active |-> TRUE]
Ended == [type |-> "end", seq |-> 0, active |-> FALSE]  \* no client reads its number

IdleCalls == {c \in Calls : calls[c].pc = "idle"}
NextCall == CHOOSE c \in IdleCalls : TRUE

\* stream.subscribe, naming the run it follows if it follows one.
Asking == [NoCall EXCEPT !.pc = "authz", !.explicit = TRUE,
                         !.named = tracked,
                         !.cursor = IF tracked /\ cursor # Unknown THEN cursor ELSE 0]

Init ==
  /\ LogInit
  /\ role \in Roles
  /\ calls = [c \in Calls |-> NoCall]
  /\ subs = Empty
  /\ watching = FALSE
  /\ synced = FALSE
  /\ wire = <<>>
  /\ torn = FALSE
  /\ cursor = Unknown
  /\ view = {}
  /\ tracked = FALSE
  /\ claimed = FALSE
  /\ cooling = FALSE
  /\ drops = 0
  /\ reconnects = 0
  /\ restarts = 0

-----------------------------------------------------------------------------
(* Sending to the socket.                                                  *)

\* Activations whose onRecord and onEnd callbacks are both forwarding.
Tapped == {c \in Calls : calls[c].pc = "live"}

\* forward of records lo..hi to each of n listeners, in one turn of the event
\* loop: the socket drains nothing meanwhile, so once more than
\* BACKPRESSURE_BYTES wait on it the rest of the copies is dropped.
Copies(lo, hi, n) == n * (hi - lo + 1)

Forwarded(lo, hi, n, dropped) ==
  [k \in 1..(Copies(lo, hi, n) - dropped) |-> Event(lo + (k - 1) \div n)]

Droppable(lo, hi, n) == {d \in 0..Copies(lo, hi, n) : drops + d <= MaxDrops}

-----------------------------------------------------------------------------
(* The run: StreamLog's steps, with what each sends live.                  *)

Bystanders == UNCHANGED <<role, watching, synced, torn, cursor, view, tracked, cooling, reconnects, restarts>>

\* The run opens; whoever watches the conversation is told (announceNewRun),
\* and the device that sent the turn is answered with turn.started and
\* subscribed to its own run.  A socket replaced since the send asks what became
\* of it (send.status), so the answer is the current socket's either way.
OpenRun ==
  /\ OpenProducer
  /\ role = "replier" => claimed
  /\ LET told == IF watching THEN [calls EXCEPT ![NextCall].pc = "watch"] ELSE calls
         free == CHOOSE c \in Calls : told[c].pc = "idle"
     IN calls' = IF role \in Senders
                 THEN [told EXCEPT ![free].pc = "send"] ELSE told
  /\ claimed' = (claimed \/ role = "creator")
  /\ Bystanders
  /\ UNCHANGED <<subs, wire, drops>>

\* The run speaks, or ends.
Speak ==
  /\ EmitDelta \/ EmitStructural \/ End
  /\ UNCHANGED <<role, socketVars, clientVars, boundVars>>

\* What it said moves towards the log.
Carry ==
  /\ FlushTimer \/ CountAppend
  /\ UNCHANGED <<role, socketVars, clientVars, boundVars>>

\* Records become durable and reach every tap.  A tap still catching up keeps
\* them in `pending`: it was attached before the read, so whatever the read
\* missed and `stored` has by then is in there.
Store ==
  /\ StoreAppend
  /\ LET lo == stored + 1
         hi == Head(appends)
         n == Cardinality(Tapped)
     IN \E d \in Droppable(lo, hi, n) :
          /\ wire' = wire \o Forwarded(lo, hi, n, d)
          /\ drops' = drops + d
  /\ Bystanders
  /\ UNCHANGED <<calls, subs, claimed>>

\* The stream is finalized and every onEnd of this socket says so.  A tap no
\* `subs` entry leads to stays registered, but nothing follows on its stream.
EndRun ==
  /\ Finalize
  /\ wire' = wire \o [i \in 1..Cardinality(Tapped) |-> Ended]
  /\ calls' = [c \in Calls |-> IF c \in Tapped THEN NoCall ELSE calls[c]]
  /\ subs' = IF Tapped # {} THEN Empty ELSE subs
  /\ Bystanders
  /\ UNCHANGED <<claimed, drops>>

-----------------------------------------------------------------------------
(* A subscribe, from its guard to its return.                              *)

Quiet == UNCHANGED <<logVars, role, clientVars, boundVars>>

\* The return of activation c, where the others are in the state cs.  A
\* stream.subscribe registers the standing watch as its last act.
Return(c, cs) ==
  /\ calls' = [cs EXCEPT ![c] = NoCall]
  /\ watching' = (watching \/ calls[c].explicit)

Unsubscribed_Not == [calls |-> calls, subs |-> subs]

\* unsubscribeStream: a reservation has no unsubscribers to call yet.
Unsubscribed == [calls |-> IF subs \in Calls THEN [calls EXCEPT ![subs] = NoCall] ELSE calls,
                 subs |-> Empty]

Taken_OnceTapped(s) == s \in Calls

\* An entry is there, be it a reservation: subscribeToStream is a no-op.
Taken(s) == s # Empty

\* subscribeToStream up to its first await: guard, reservation, onRecord; cs
\* and s are the activations and the entry it finds.
Subscribe(c, mode, cs, s) ==
  IF Taken(s)
  THEN Return(c, cs) /\ subs' = s
  ELSE /\ calls' = [cs EXCEPT ![c] = [NoCall EXCEPT !.pc = "read", !.mode = mode,
                       !.explicit = calls[c].explicit, !.cursor = calls[c].cursor,
                       !.least = IF calls[c].explicit THEN counted ELSE 0]]
       /\ subs' = Reserved
       /\ UNCHANGED watching

\* autoSubscribe: watches first, then follows its own run from the start.
AutoSubscribe(c) ==
  /\ calls[c].pc = "send"
  /\ watching' = TRUE
  /\ IF Taken(subs)
     THEN calls' = [calls EXCEPT ![c] = NoCall] /\ UNCHANGED subs
     ELSE calls' = [calls EXCEPT ![c].pc = "read"] /\ subs' = Reserved
  /\ UNCHANGED <<synced, wire, torn>>
  /\ Quiet

\* The watch's callback, its authorization answered.
Announced(c) ==
  /\ calls[c].pc = "watch"
  /\ Subscribe(c, "forceSync", calls, subs)
  /\ UNCHANGED <<synced, wire, torn>>
  /\ Quiet

\* handleSubscribe: authorized, and told which runs the conversation has.
ListRuns(c) ==
  /\ calls[c].pc = "authz"
  /\ calls' = [calls EXCEPT ![c].pc = "listed", ![c].found = run \notin {"none", "lost"}]
  /\ UNCHANGED <<subs, watching, synced, wire, torn>>
  /\ Quiet

Active == run \in {"open", "ending"}
CaughtUp(c) == counted <= calls[c].cursor

NothingToSend_UnlessBehind(c) == synced \/ CaughtUp(c)

\* A finished run is worth one snapshot per socket, and to a device that is
\* caught up only if it is the run the device says it follows.
NothingToSend(c) == synced \/ (CaughtUp(c) /\ ~calls[c].named)

\* handleSubscribe: the run's meta, and what to do about it.
ReadMeta(c) ==
  /\ calls[c].pc = "listed"
  /\ \/ /\ ~calls[c].found \/ run = "lost" \/ (run = "over" /\ NothingToSend(c))
        /\ Return(c, calls)
        /\ UNCHANGED <<subs, synced, torn>>
     \/ /\ calls[c].found /\ Active /\ CaughtUp(c)
        /\ Subscribe(c, "tapOnly", calls, subs)
        /\ UNCHANGED <<synced, torn>>
     \/ /\ calls[c].found /\ Active /\ ~CaughtUp(c)
        /\ Subscribe(c, "catchUp", Unsubscribed.calls, Unsubscribed.subs)
        /\ torn' = (torn \/ subs = Reserved)
        /\ UNCHANGED synced
     \/ /\ calls[c].found /\ run = "over" /\ ~NothingToSend(c)
        /\ Subscribe(c, IF CaughtUp(c) THEN "forceSync" ELSE "catchUp", calls, subs)
        /\ synced' = TRUE
        /\ UNCHANGED torn
  /\ UNCHANGED wire
  /\ Quiet

UpTo_ReadOnly(c) == calls[c].seen

\* What the records read and the ones in `pending` reach to, together.
UpTo(c) == stored

\* A snapshot is due: it brings news, or the caller insists on one.
NeedsSync(c) == calls[c].seen > calls[c].cursor \/ calls[c].mode = "forceSync"

\* The client has every event: nothing is folded, what came since is sent.
TapOnly(c) == calls[c].mode = "tapOnly" /\ Active

\* broker.readFrom is answered.  Behind a meta that counted an append, it is
\* also behind that append's XADDs: their command went out first.
ReadLog(c) ==
  /\ calls[c].pc = "read"
  /\ \A n \in ToSet(appends) : n > calls[c].least
  /\ calls' = [calls EXCEPT ![c].pc = "status", ![c].seen = stored, ![c].least = 0]
  /\ UNCHANGED <<subs, watching, synced, wire, torn>>
  /\ Quiet

\* broker.getMeta is answered, in the order it was asked on the one connection:
\* who read less asked earlier.  The snapshot if one is due, then what the read
\* missed; the tap goes live, or is gone again if the run is over.
CatchUp(c) ==
  /\ calls[c].pc = "status"
  /\ \A d \in Calls : calls[d].pc = "status" => calls[c].seen <= calls[d].seen
  /\ calls[c].mode = "tapOnly" => Active
  /\ LET base == IF TapOnly(c) THEN calls[c].cursor ELSE calls[c].seen
         snapshot == IF ~TapOnly(c) /\ NeedsSync(c) THEN <<Sync(base, Active)>> ELSE <<>>
     IN \E d \in Droppable(base + 1, UpTo(c), 1) :
          /\ wire' = wire \o snapshot \o Forwarded(base + 1, UpTo(c), 1, d)
          /\ drops' = drops + d
          /\ IF Active
             THEN /\ calls' = [calls EXCEPT ![c] = [NoCall EXCEPT !.pc = "live"]]
                  /\ subs' = c
                  /\ watching' = (watching \/ calls[c].explicit)
             ELSE /\ Return(c, calls)
                  /\ subs' = Empty
  /\ UNCHANGED <<logVars, role, clientVars, synced, torn, reconnects, restarts>>

\* A tapOnly subscribe whose run ended meanwhile reads it all again...
Reread(c) ==
  /\ calls[c].pc = "status"
  /\ calls[c].mode = "tapOnly" /\ ~Active
  /\ calls' = [calls EXCEPT ![c].pc = "reread"]
  /\ UNCHANGED <<subs, watching, synced, wire, torn>>
  /\ Quiet

\* ... and sends the snapshot that says so.
SendFinished(c) ==
  /\ calls[c].pc = "reread"
  /\ wire' = Append(wire, Sync(stored, FALSE))
  /\ Return(c, calls)
  /\ subs' = Empty
  /\ UNCHANGED <<synced, torn>>
  /\ Quiet

-----------------------------------------------------------------------------
(* The device.                                                             *)

InOrder_OrAgain(n) == cursor = Unknown \/ n \in {cursor, cursor + 1}

\* An event is applied if it follows the cursor, or if there is no cursor.
InOrder(n) == cursor = Unknown \/ n = cursor + 1

Receive ==
  /\ wire # <<>>
  /\ wire' = Tail(wire)

Serverside == UNCHANGED <<logVars, role, subs, watching, synced, torn, boundVars>>

\* stream.sync: the snapshot replaces what the thread shows of the run.
ReceiveSync ==
  /\ Receive
  /\ Head(wire).type = "sync"
  /\ view' = 1..Head(wire).seq
  /\ tracked' = Head(wire).active
  /\ cursor' = IF Head(wire).active THEN Head(wire).seq ELSE cursor
  /\ UNCHANGED <<calls, claimed, cooling>>
  /\ Serverside

ReceiveEvent ==
  /\ Receive
  /\ Head(wire).type = "event"
  /\ InOrder(Head(wire).seq)
  /\ cursor' = Head(wire).seq
  /\ view' = view \cup {Head(wire).seq}
  /\ UNCHANGED <<calls, tracked, claimed, cooling>>
  /\ Serverside

\* A gap: the event is not applied, and a resync is asked for unless one was
\* asked for within the cooldown.
ReceiveGap ==
  /\ Receive
  /\ Head(wire).type = "event"
  /\ ~InOrder(Head(wire).seq)
  /\ IF cooling
     THEN UNCHANGED <<calls, cooling>>
     ELSE /\ IdleCalls # {}
          /\ calls' = [calls EXCEPT ![NextCall] =
                         [NoCall EXCEPT !.pc = "authz", !.explicit = TRUE,
                                        !.named = TRUE, !.cursor = cursor]]
          /\ cooling' = TRUE
  /\ UNCHANGED <<cursor, view, tracked, claimed>>
  /\ Serverside

\* stream.end: clears the streaming state, whatever the cursor has reached.
ReceiveEnd ==
  /\ Receive
  /\ Head(wire).type = "end"
  /\ tracked' = FALSE
  /\ UNCHANGED <<calls, cursor, view, claimed, cooling>>
  /\ Serverside

CooldownOver ==
  /\ cooling
  /\ cooling' = FALSE
  /\ UNCHANGED <<logVars, role, socketVars, cursor, view, tracked, claimed, boundVars>>

\* Opening the thread subscribes to it, once per socket.
OpenThread ==
  /\ role # "creator"
  /\ ~claimed
  /\ IdleCalls # {}
  /\ claimed' = TRUE
  /\ calls' = [calls EXCEPT ![NextCall] = Asking]
  /\ UNCHANGED <<logVars, role, subs, watching, synced, wire, torn, cursor, view,
                 tracked, cooling, boundVars>>

\* The socket is replaced: what was on its way and every tap go with the old
\* one, and the new one subscribes to the thread (resubscribeKnown).
NewSocket ==
  /\ wire' = <<>>
  /\ subs' = Empty
  /\ watching' = FALSE
  /\ synced' = FALSE
  /\ torn' = FALSE
  /\ calls' = [c \in Calls |-> IF c = 1 /\ claimed THEN Asking ELSE NoCall]
  /\ UNCHANGED <<role, clientVars, drops>>

Reconnect ==
  /\ reconnects < MaxReconnects
  /\ reconnects' = reconnects + 1
  /\ NewSocket
  /\ UNCHANGED <<logVars, restarts>>

\* The server restarts, and the device reconnects once it is back.
Restart ==
  /\ restarts < MaxRestarts
  /\ restarts' = restarts + 1
  /\ Crash
  /\ NewSocket
  /\ UNCHANGED reconnects

CallStep(c) == AutoSubscribe(c) \/ Announced(c) \/ ListRuns(c) \/ ReadMeta(c)
               \/ ReadLog(c) \/ CatchUp(c) \/ Reread(c) \/ SendFinished(c)

ClientStep == ReceiveSync \/ ReceiveEvent \/ ReceiveGap \/ ReceiveEnd \/ CooldownOver

\* Nothing more happens: the run is over and the device has heard it all.
Rest ==
  /\ run \in {"over", "lost"}
  /\ wire = <<>>
  /\ UNCHANGED vars

Next ==
  \/ OpenRun \/ Speak \/ Carry \/ Store \/ EndRun
  \/ \E c \in Calls : CallStep(c)
  \/ ClientStep \/ OpenThread \/ Reconnect \/ Restart \/ Rest

Spec == Init /\ [][Next]_vars

\* Timers fire, databases answer and a connected socket delivers; nothing
\* makes a run speak or end, a person open a thread, or a socket fail.
Fairness ==
  /\ WF_vars(Carry) /\ WF_vars(Store) /\ WF_vars(EndRun)
  /\ \A c \in Calls : WF_vars(CallStep(c))
  /\ WF_vars(ClientStep)

FairSpec == Spec /\ Fairness

-----------------------------------------------------------------------------
(* Properties.                                                             *)

\* Types, and that `subs` names a live tap whenever it names anything.
TypeOK ==
  /\ LogTypeOK
  /\ role \in Roles
  /\ \A c \in Calls : /\ calls[c].pc \in Phases
                      /\ calls[c].mode \in Modes
                      /\ calls[c].cursor \in 0..MaxEvents
                      /\ calls[c].seen \in 0..MaxEvents
  /\ subs \in Calls \cup {Empty, Reserved}
  /\ subs \in Calls => calls[subs].pc = "live"
  /\ {watching, synced, torn, tracked, claimed, cooling} \subseteq BOOLEAN
  /\ cursor \in {Unknown} \cup 0..MaxEvents
  /\ view \subseteq 1..MaxEvents
  /\ drops \in 0..MaxDrops
  /\ reconnects \in 0..MaxReconnects
  /\ restarts \in 0..MaxRestarts

\* What the thread shows of a run is a beginning of it: nothing missing before
\* or between, whatever is replayed and however often the socket is replaced
\* (the gap check of useChatSession, the hand-over of subscribeToStream).  It is
\* promised of a socket that keeps up: a dropped send is made good by a resync.
ShownIsPrefix == drops = 0 => \E n \in 0..MaxEvents : view = 1..n

\* The device hears the end of a run only after everything the run said
\* ("guaranteed to have arrived first", useChatSession's stream.end), on a
\* socket that keeps up.
EndComesAfterAll ==
  drops = 0 /\ wire # <<>> /\ Head(wire).type = "end" => view = 1..stored

\* No text is appended twice: an event that is applied was not already in the
\* thread, from a snapshot or from another tap's copy of it.
NothingAppliedTwice ==
  [][ReceiveEvent => Head(wire).seq \notin view]_vars

\* A socket never has two live taps on a run, so no event goes out twice: the
\* slot is reserved synchronously, and "nothing reads `subs` before" the
\* placeholder is replaced (subscribeToStream).
NeverTwoTaps == Cardinality(Tapped) <= 1

\* There is no second way to two taps: whatever subscribes, sends, watches and
\* drops overlap, a socket has one, unless a resync took down the reservation of
\* a subscribe that was still reading.
OneTap == ~torn => NeverTwoTaps

\* What the device shows once the run is over: all of it, and no longer as
\* streaming.  (A log lost with the server leaves whatever was shown.)
Settling == ~tracked /\ (run = "over" => view = 1..stored)

\* A device with the thread open ends up with the whole run, however
\* subscribing, reconnecting and the end of the run interleave; only a send
\* dropped for backpressure may leave it short.
Converges == (run \in {"over", "lost"} /\ claimed) ~> (Settling \/ drops > 0)

\* A run that started elsewhere between the listing of a subscribe and its watch.
Overlooked ==
  /\ role \notin Senders
  /\ run \notin {"none", "lost"}
  /\ \E c \in Calls : calls[c].pc = "listed" /\ ~calls[c].found

\* A log that a crash left shorter than its own count.
Miscounted == run = "over" /\ stored < counted

\* A device converges in every other case: unless its subscribe overlooks the
\* run, the log counts records it lost, or two taps were made.
ConvergesOtherwise == [](~Overlooked /\ ~Miscounted /\ ~torn) => Converges

\* Two answers to this device's own questions are being put together at once.
ResyncsOverlap ==
  \E c, d \in Calls : c # d /\ \A e \in {c, d} : calls[e].explicit /\ calls[e].pc # "live"

\* A dropped event that a later one reveals is made good: the resync the
\* device asks for brings it everything up to the event that showed the gap,
\* even though the socket already has a tap; as long as no two resyncs are
\* put together at the same time.
GapsHeal ==
  [](~ResyncsOverlap) =>
    \A n \in 1..MaxEvents :
      (wire # <<>> /\ Head(wire) = Event(n) /\ ~InOrder(n) /\ n > cursor /\ ~cooling)
        ~> (1..n \subseteq view)
=============================================================================
