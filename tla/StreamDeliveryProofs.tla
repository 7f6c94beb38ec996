------------------------ MODULE StreamDeliveryProofs ------------------------
(***************************************************************************)
(* Theorems about how one device follows one run: for any number of events,*)
(* activations, drops, reconnects and restarts, and whatever the role.     *)
(***************************************************************************)
EXTENDS StreamLogProofs, FiniteSetTheorems

-----------------------------------------------------------------------------
(* What is always so.                                                      *)

\* Where the client is in the run, for one that has no cursor at its start.
Cur == IF cursor = Unknown THEN 0 ELSE cursor

\* The thread shows the first n records, and record n + 1 would be applied.
InStep(n) == view = 1..n /\ cursor \in {Unknown, n}

Reading == {c \in Calls : calls[c].pc \in {"read", "status", "reread"}}
Serving == Reading \cup Tapped

IsEvent(i) == wire[i].type = "event"
IsEnd(i) == wire[i].type = "end"
IsSync(i) == wire[i].type = "sync"
IsFinal(i) == IsSync(i) /\ ~wire[i].active

CallStates ==
  [pc : Phases, explicit : BOOLEAN, named : BOOLEAN, found : BOOLEAN, mode : Modes,
   cursor : 0..MaxEvents, least : 0..MaxEvents, seen : 0..MaxEvents]
Messages == [type : {"sync", "event", "end"}, seq : 0..MaxEvents, active : BOOLEAN]

Types ==
  /\ TypeOK
  /\ calls \in [Calls -> CallStates]
  /\ wire \in Seq(Messages)
  /\ \A i \in DOMAIN wire : IsEvent(i) => wire[i].seq > 0

\* meta.lastSeq counts no record that is not stored or on its way.
CountedOnItsWay ==
  /\ run = "none" => counted = 0 /\ stored = 0
  /\ Active => counted = stored \/ counted \in ToSet(appends)

\* What an activation is, by its place.
Asked(c) == calls[c].pc \in {"authz", "listed"}
Fits(call, active) ==
  /\ call.pc = "idle" => call = NoCall
  /\ call.pc \in {"authz", "listed"} => call.explicit
  /\ call.pc \in {"send", "watch"} => ~call.explicit
  /\ call.pc = "send" => call.mode = "catchUp"
  /\ ~call.explicit => call.cursor = 0
  /\ call.mode = "tapOnly" => call.explicit
  /\ call.pc = "reread" => ~active
  /\ call.pc = "live" => active /\ ~call.explicit
Kinds == \A c \in Calls : Fits(calls[c], Active)

\* Nobody is ahead of the log, unless it was lost.
Reach ==
  IF run = "lost"
  THEN wire = <<>> /\ \A c \in Calls : calls[c].pc = "idle" \/ (Asked(c) /\ ~calls[c].found)
  ELSE /\ cursor <= stored /\ view \subseteq 1..stored
       /\ \A i \in DOMAIN wire : wire[i].seq <= stored
       /\ \A c \in Calls : calls[c].cursor <= stored /\ calls[c].seen <= stored

Uninvited == \E c \in Calls : calls[c].pc # "idle" /\ ~calls[c].explicit

\* Before the run, and before anybody asks.
Before ==
  run = "none" =>
    /\ wire = <<>> /\ cursor = Unknown /\ view = {} /\ subs = Empty /\ ~tracked
    /\ \A c \in Calls : calls[c].pc = "idle" \/
         (/\ Asked(c) /\ ~calls[c].found /\ calls[c].cursor = 0
          /\ claimed /\ ~watching
          /\ \A d \in Calls \ {c} : calls[d].pc = "idle")
Unasked ==
  ~claimed => wire = <<>> /\ ~watching /\ \A c \in Calls : calls[c].pc = "idle"

\* Until somebody serves the socket nothing is sent on it.
Unserved ==
  Active /\ subs = Empty =>
    /\ Serving = {} /\ wire = <<>>
    /\ Uninvited => cursor = Unknown

\* A snapshot asked for by a device that is behind brings it news.
Knows(call, active, n, coming) ==
  call.explicit /\ call.mode = "catchUp" =>
    /\ call.pc = "read" /\ active =>
         call.least > call.cursor /\ (call.least <= n \/ call.least \in coming)
    /\ call.pc = "status" => call.seen > call.cursor \/ (~active /\ call.seen = n)
Informed == \A c \in Calls : Knows(calls[c], Active, stored, ToSet(appends))

\* c has read less than the log has by now.
Behind(c) == Active \/ (calls[c].pc = "status" /\ calls[c].seen < stored)

\* A sender that follows its own run from the start, and found the log empty,
\* is the first to send: whoever took its reservation answers after it.
First(c) ==
  /\ ~calls[c].explicit /\ calls[c].mode = "catchUp"
  /\ \/ calls[c].pc = "read" /\ Active /\ stored = 0
     \/ calls[c].pc = "status" /\ calls[c].seen = 0 /\ Behind(c)
Alone(c) ==
  /\ subs = Reserved /\ wire = <<>> /\ cursor = Unknown /\ view = {}
  /\ \A d \in Serving \ {c} :
       calls[d].explicit /\ calls[d].mode = "catchUp" /\ calls[d].pc \in {"read", "status"}
OwnRun == \A c \in Calls : First(c) => Alone(c)

\* One activation serves the socket, and the entry is its own, unless a resync
\* took down a reservation.
Owned == \A c \in Serving : /\ subs = (IF calls[c].pc = "live" THEN c ELSE Reserved)
                            /\ \A d \in Serving : c = d
Owner == ~torn => Owned

\* The thread shows nothing past the cursor while the run goes on: only the
\* snapshot of a finished run moves the one without the other.
Past == view \subseteq 1..Cur
Current == Active => Past /\ \A i \in DOMAIN wire : ~IsFinal(i)

Base ==
  /\ Types /\ CountedOnItsWay /\ Kinds /\ Reach /\ Before /\ Unasked
  /\ Unserved /\ Informed /\ OwnRun /\ Current /\ Owner

-----------------------------------------------------------------------------
(* Nothing twice.                                                          *)

\* Message i is the record behind the one message i - 1 is or ends with.
Follows(i) == /\ i - 1 \in DOMAIN wire /\ (IsEvent(i - 1) \/ IsSync(i - 1))
              /\ wire[i].seq = wire[i - 1].seq + 1
Fresh ==
  /\ \A i, j \in DOMAIN wire : IsEvent(i) /\ j < i /\ IsFinal(j) => Follows(i)
  /\ ~Past => \A i \in DOMAIN wire : IsEvent(i) => IF i = 1 THEN \A n \in view : n < wire[1].seq ELSE Follows(i)

-----------------------------------------------------------------------------
(* A socket that keeps up.                                                 *)

\* A subscribe of a device that had no cursor yet: its snapshot is as good
\* behind messages as in front of them.
Takes(c) == calls[c].explicit /\ calls[c].mode = "catchUp" /\ calls[c].cursor = 0
TookOver == \E c \in Reading : Takes(c)

\* While the run goes on the thread shows what the cursor says, nothing is
\* sent before the tap is there, and a subscribe that names a cursor names the
\* device's, and has the socket to itself.
NothingSent == Tapped = {} /\ ~TookOver => wire = <<>> /\ (Uninvited => cursor = Unknown)
AskedFromHere ==
  \A c \in Calls : calls[c].explicit /\ calls[c].cursor # 0 =>
    calls[c].cursor = cursor /\ wire = <<>> /\ \A d \in Calls \ {c} : calls[d].pc = "idle"
Steady == Active => view = 1..Cur /\ NothingSent /\ AskedFromHere

\* A subscribe that is behind has read past all that is on its way.
ReadPast(c) ==
  /\ cursor <= calls[c].seen
  /\ \A i \in DOMAIN wire : ~IsEnd(i) /\ wire[i].seq <= calls[c].seen
  /\ Takes(c) \/ wire = <<>>
Readers ==
  \A c \in Reading :
    /\ Active /\ calls[c].mode = "tapOnly" => InStep(calls[c].cursor)
    /\ calls[c].pc = "status" /\ Behind(c) => ReadPast(c)

\* The record at the head of the wire is past what the device would apply: the
\* snapshot of a finished run does not move the cursor.
Lagging(n) == ~Active /\ cursor # Unknown /\ cursor + 1 < n /\ \A i \in DOMAIN wire : ~IsEnd(i)

Snapshots ==
  \A i \in DOMAIN wire : IsSync(i) /\ i > 1 =>
    /\ IF IsEnd(i - 1) THEN IsFinal(i) /\ wire[i].seq = stored ELSE wire[i - 1].seq <= wire[i].seq
    /\ IsFinal(i) => ~Active
Ends ==
  \A i \in DOMAIN wire : IsEnd(i) =>
    /\ ~Active
    /\ \A j \in 1..(i - 1) : ~IsEnd(j) /\ ~IsFinal(j)
    /\ IF i = 1 THEN view = 1..stored ELSE wire[i - 1].seq = stored
HeadOfWire ==
  wire # <<>> => /\ IsEvent(1) => InStep(wire[1].seq - 1) \/ Lagging(wire[1].seq)
                 /\ IsFinal(1) => cursor <= wire[1].seq
TailOfWire ==
  Tapped # {} => IF wire = <<>> THEN InStep(stored)
                                ELSE ~IsEnd(Len(wire)) /\ wire[Len(wire)].seq = stored

\* What is on its way, in order, from what the device shows to the log.
Ordered ==
  /\ \A i \in DOMAIN wire : IsEvent(i) /\ i > 1 => Follows(i)
  /\ Snapshots /\ Ends /\ HeadOfWire /\ TailOfWire

Delivered == drops = 0 => Steady /\ Readers /\ Ordered /\ \E n \in 0..MaxEvents : view = 1..n

-----------------------------------------------------------------------------
(* The wire.                                                               *)

\* The bounds are numbers.
LEMMA Bounds ==
  /\ MaxEvents \in Nat /\ MaxCalls \in Nat /\ MaxCalls > 1 /\ MaxDrops \in Nat
  /\ MaxReconnects \in Nat /\ MaxRestarts \in Nat
  /\ IsFiniteSet(Calls) /\ 1 \in Calls /\ 2 \in Calls /\ Calls \subseteq Nat
  /\ Empty \notin Calls /\ Reserved \notin Calls /\ Empty # Reserved
<1>1. /\ MaxEvents \in Nat /\ MaxCalls \in Nat /\ MaxCalls > 1 /\ MaxDrops \in Nat
      /\ MaxReconnects \in Nat /\ MaxRestarts \in Nat
  BY LogAssumption, DeliveryAssumption
<1> QED BY <1>1, FS_Interval DEF Calls, Empty, Reserved

\* The taps can be counted.
LEMMA CountTapped ==
  /\ Cardinality(Tapped) \in Nat
  /\ Cardinality(Tapped) = 0 <=> Tapped = {}
  /\ \A c : Tapped = {c} => Cardinality(Tapped) = 1
<1>1. IsFiniteSet(Tapped)
  BY Bounds, FS_Subset DEF Tapped
<1> QED BY <1>1, FS_CardinalityType, FS_EmptySet, FS_Singleton

\* Messages by number.
LEMMA WireIndexed ==
  ASSUME wire \in Seq(Messages)
  PROVE  /\ Len(wire) \in Nat /\ DOMAIN wire = 1..Len(wire)
         /\ \A i \in DOMAIN wire : wire[i] \in Messages
         /\ wire = <<>> <=> Len(wire) = 0
         /\ wire # <<>> => 1 \in DOMAIN wire /\ Len(wire) \in DOMAIN wire /\ Head(wire) = wire[1]
<1>1. Len(wire) \in Nat /\ DOMAIN wire = 1..Len(wire) /\ \A i \in DOMAIN wire : wire[i] \in Messages
  BY LenProperties, ElementOfSeq
<1>2. wire # <<>> => Len(wire) \in Nat \ {0}
  BY EmptySeq
<1> QED BY <1>1, <1>2

\* A message is taken off the wire.
LEMMA WireShrinks ==
  ASSUME wire \in Seq(Messages), Receive
  PROVE  /\ wire # <<>> /\ wire' \in Seq(Messages)
         /\ Len(wire') = Len(wire) - 1
         /\ DOMAIN wire' = 1..(Len(wire) - 1)
         /\ \A i \in DOMAIN wire' : i + 1 \in DOMAIN wire /\ wire'[i] = wire[i + 1]
<1>1. wire # <<>> /\ wire' = Tail(wire)
  BY DEF Receive
<1>2. /\ wire' \in Seq(Messages) /\ Len(wire') = Len(wire) - 1
      /\ \A i \in 1..Len(wire') : wire'[i] = wire[i + 1]
  BY <1>1, HeadTailProperties
<1>3. DOMAIN wire' = 1..Len(wire')
  BY <1>2, LenProperties
<1> QED BY <1>1, <1>2, <1>3, WireIndexed

\* Messages are put on it.
LEMMA WireGrows ==
  ASSUME wire \in Seq(Messages), NEW s \in Seq(Messages), wire' = wire \o s
  PROVE  /\ wire' \in Seq(Messages)
         /\ Len(wire') = Len(wire) + Len(s) /\ Len(s) \in Nat
         /\ DOMAIN wire' = 1..(Len(wire) + Len(s))
         /\ \A i \in DOMAIN wire : i \in DOMAIN wire' /\ wire'[i] = wire[i]
         /\ \A i \in 1..Len(s) : Len(wire) + i \in DOMAIN wire' /\ wire'[Len(wire) + i] = s[i]
         /\ \A i \in DOMAIN wire' : i \in DOMAIN wire \/ \E k \in DOMAIN s : i = Len(wire) + k /\ wire'[i] = s[k]
<1>1. /\ wire' \in Seq(Messages) /\ Len(wire') = Len(wire) + Len(s)
      /\ \A i \in 1..(Len(wire) + Len(s)) : wire'[i] = IF i <= Len(wire) THEN wire[i] ELSE s[i - Len(wire)]
  BY ConcatProperties
<1>2. Len(s) \in Nat /\ Len(wire) \in Nat /\ DOMAIN wire = 1..Len(wire) /\ DOMAIN wire' = 1..Len(wire')
  BY <1>1, LenProperties
<1>3. \A i \in 1..Len(s) : Len(wire) + i \in 1..(Len(wire) + Len(s)) /\ ~(Len(wire) + i <= Len(wire))
                           /\ (Len(wire) + i) - Len(wire) = i
  BY <1>2
<1>4. \A i \in 1..Len(s) : wire'[Len(wire) + i] = s[i]
  BY <1>1, <1>3
<1>5. ASSUME NEW i \in DOMAIN wire', i \notin DOMAIN wire
      PROVE  \E k \in DOMAIN s : i = Len(wire) + k /\ wire'[i] = s[k]
  <2>1. i - Len(wire) \in 1..Len(s) /\ i = Len(wire) + (i - Len(wire)) /\ DOMAIN s = 1..Len(s)
    BY <1>1, <1>2, <1>5, LenProperties
  <2> QED BY <1>4, <2>1
<1> QED BY <1>1, <1>2, <1>3, <1>4, <1>5

\* What is forwarded of records lo..hi to n listeners are events, of those.
LEMMA ForwardedEvents ==
  ASSUME NEW lo \in Nat \ {0}, NEW hi \in 0..MaxEvents, NEW n \in Nat, NEW d \in 0..Copies(lo, hi, n)
  PROVE  /\ Forwarded(lo, hi, n, d) \in Seq(Messages)
         /\ Len(Forwarded(lo, hi, n, d)) = Copies(lo, hi, n) - d
         /\ \A k \in DOMAIN Forwarded(lo, hi, n, d) :
              \E r \in lo..hi : Forwarded(lo, hi, n, d)[k] = Event(r)
<1> DEFINE len == Copies(lo, hi, n) - d
           f == Forwarded(lo, hi, n, d)
<1>1. hi \in Nat /\ hi <= MaxEvents /\ MaxEvents \in Nat
  BY Bounds
<1>2. len \in Nat /\ d \in Nat /\ Copies(lo, hi, n) \in Int /\ len <= Copies(lo, hi, n)
  BY <1>1 DEF Copies
<1>3. ASSUME NEW k \in 1..len PROVE lo + (k - 1) \div n \in lo..hi
  <2> DEFINE m == hi - lo + 1
             q == (k - 1) \div n
  <2>1. m \in Int /\ n * m = Copies(lo, hi, n) /\ k - 1 < n * m /\ k - 1 \in Nat
    BY <1>1, <1>2, <1>3 DEF Copies
  <2>2. n > 0
    <3>1. n = 0 => n * m = 0
      BY <2>1
    <3> QED BY <2>1, <3>1
  <2>3. q \in Int /\ n * q <= k - 1 /\ k - 1 < n * q + n
    BY <2>1, <2>2
  <2>4. q >= 0
    <3>1. q < 0 => n * q + n <= 0
      <4> HIDE DEF q
      <4>1. q < 0 => n * (q + 1) <= 0
        BY <2>2, <2>3
      <4> QED BY <2>2, <2>3, <4>1
    <3> QED BY <2>1, <2>3, <3>1
  <2>5. q < m
    <3> HIDE DEF q, m
    <3>1. q >= m => n * q >= n * m
      BY <2>1, <2>2, <2>3
    <3> QED BY <2>1, <2>3, <3>1
  <2> QED BY <1>1, <2>3, <2>4, <2>5
<1>4. \A k \in 1..len : Event(lo + (k - 1) \div n) \in Messages
  BY <1>1, <1>3 DEF Event, Messages
<1>5. f = [k \in 1..len |-> Event(lo + (k - 1) \div n)]
  BY DEF Forwarded
<1>6. f \in Seq(Messages) /\ Len(f) = len /\ DOMAIN f = 1..len
  <2> HIDE DEF f, len
  <2>1. f \in [1..len -> Messages]
    BY <1>4, <1>5
  <2> QED BY <1>2, <2>1, SeqDef
<1> QED BY <1>3, <1>5, <1>6

\* One listener is sent the records one by one, as far as they go.
LEMMA ForwardedOneByOne ==
  ASSUME NEW lo \in Nat \ {0}, NEW hi \in 0..MaxEvents, NEW d \in 0..Copies(lo, hi, 1)
  PROVE  /\ Copies(lo, hi, 1) = hi - lo + 1 /\ d \in Nat
         /\ \A k \in 1..(hi - lo + 1 - d) : Forwarded(lo, hi, 1, d)[k] = Event(lo + k - 1)
<1>1. hi \in Nat /\ Copies(lo, hi, 1) = hi - lo + 1 /\ d \in Nat
  BY Bounds DEF Copies
<1>2. \A k \in 1..(hi - lo + 1 - d) : (k - 1) \div 1 = k - 1
  BY <1>1
<1> QED BY <1>1, <1>2 DEF Forwarded

-----------------------------------------------------------------------------
(* What the larger steps do.                                               *)

Sending == [NoCall EXCEPT !.pc = "send"]
Watching == [NoCall EXCEPT !.pc = "watch"]
Living == [NoCall EXCEPT !.pc = "live"]

LEMMA NoCallTyped == {NoCall, Sending, Watching, Living} \subseteq CallStates
<1>1. 0 \in 0..MaxEvents
  BY Bounds
<1>2. /\ {"idle", "send", "watch", "live"} \subseteq Phases /\ "catchUp" \in Modes
      /\ FALSE \in BOOLEAN
  BY DEF Phases, Modes
<1>3. NoCall \in CallStates
  BY <1>1, <1>2 DEF NoCall, CallStates
<1> QED BY <1>2, <1>3 DEF Sending, Watching, Living, CallStates

\* Whoever sent the turn or watches the conversation has a subscribe on its way,
\* perhaps beside one of its own asking.
LEMMA OpenRunEffect ==
  ASSUME Types, Kinds, Before, Unasked, OpenRun
  PROVE  /\ run = "none" /\ run' = "open" /\ claimed' \in BOOLEAN /\ (claimed => claimed')
         /\ UNCHANGED <<emitted, flushed, appends, counted, stored, crashed, role, subs, watching, synced,
                        wire, torn, cursor, view, tracked, cooling, drops, reconnects, restarts>>
         /\ calls' \in [Calls -> CallStates]
         /\ \A c \in Calls :
              calls'[c] = calls[c] \/ (claimed' /\ calls[c] = NoCall /\ calls'[c] \in {Sending, Watching})
<1> DEFINE told == IF watching THEN [calls EXCEPT ![NextCall].pc = "watch"] ELSE calls
           free == CHOOSE c \in Calls : told[c].pc = "idle"
<1>1. /\ run = "none" /\ run' = "open" /\ claimed' = (claimed \/ role = "creator")
      /\ UNCHANGED <<emitted, flushed, appends, counted, stored, crashed, role, subs, watching, synced,
                     wire, torn, cursor, view, tracked, cooling, drops, reconnects, restarts>>
      /\ calls' = IF role \in Senders THEN [told EXCEPT ![free].pc = "send"] ELSE told
      /\ role = "replier" => claimed
  BY DEF OpenRun, OpenProducer, Bystanders
<1>2. claimed \in BOOLEAN /\ watching \in BOOLEAN /\ calls \in [Calls -> CallStates]
  BY DEF Types, TypeOK
<1>3. /\ \A c \in Calls : calls[c].pc = "idle" => calls[c] = NoCall
      /\ watching => \A c \in Calls : calls[c].pc = "idle"
      /\ \A c, d \in Calls : c # d => calls[c].pc = "idle" \/ calls[d].pc = "idle"
  BY <1>1 DEF Before, Kinds, Fits
<1>4. watching \/ role \in Senders => claimed'
  BY <1>1, <1>2 DEF Unasked, Senders
<1>5. /\ told \in [Calls -> CallStates]
      /\ \A c \in Calls : told[c] = calls[c] \/ (claimed' /\ calls[c] = NoCall /\ told[c] = Watching)
      /\ \E c \in Calls : told[c].pc = "idle"
  <2>1. CASE ~watching
    <3>1. told = calls
      BY <2>1
    <3>2. calls[1].pc = "idle" \/ calls[2].pc = "idle"
      BY <1>3, Bounds
    <3> HIDE DEF told
    <3> QED BY <1>2, <3>1, <3>2, Bounds
  <2>2. CASE watching
    <3>1. \A c \in Calls : calls[c] = NoCall /\ calls[c].pc = "idle"
      BY <1>3, <2>2
    <3>2. NextCall \in Calls
      BY <3>1, Bounds DEF IdleCalls, NextCall
    <3>3. told = [c \in Calls |-> IF c = NextCall THEN Watching ELSE NoCall]
      BY <1>2, <2>2, <3>1, <3>2 DEF Watching
    <3>4. \E c \in Calls : c # NextCall
      BY Bounds
    <3>5. NoCall.pc = "idle"
      BY DEF NoCall
    <3> QED BY <1>4, <2>2, <3>1, <3>3, <3>4, <3>5, NoCallTyped
  <2> QED BY <2>1, <2>2
<1>6. CASE role \notin Senders
  BY <1>1, <1>2, <1>5, <1>6
<1>7. CASE role \in Senders
  <2>1. free \in Calls /\ told[free].pc = "idle"
    BY <1>5
  <2>2. told[free] = NoCall /\ calls[free] = NoCall
    <3>1. Watching.pc = "watch"
      BY DEF Watching, NoCall
    <3>2. told[free] = calls[free]
      BY <1>5, <2>1, <3>1
    <3> QED BY <1>3, <2>1, <3>2
  <2>3. /\ calls' \in [Calls -> CallStates] /\ calls'[free] = Sending
        /\ \A c \in Calls \ {free} : calls'[c] = told[c]
    <3>1. calls' = [told EXCEPT ![free].pc = "send"]
      BY <1>1, <1>7
    <3>2. [told[free] EXCEPT !.pc = "send"] = Sending
      BY <2>2 DEF Sending
    <3> HIDE DEF told, free
    <3> QED BY <1>5, <2>1, <3>1, <3>2, NoCallTyped
  <2> HIDE DEF told, free
  <2> QED BY <1>1, <1>2, <1>4, <1>5, <1>7, <2>1, <2>2, <2>3
<1> QED BY <1>6, <1>7

\* A subscribe that begins.
LEMMA AskingTyped ==
  ASSUME Types
  PROVE  /\ Asking \in CallStates
         /\ Asking.pc = "authz" /\ Asking.explicit /\ ~Asking.found /\ Asking.mode = "catchUp"
         /\ Asking.cursor = 0 \/ (Asking.cursor = cursor /\ cursor # Unknown)
         /\ Asking.seen = 0
<1>1. tracked \in BOOLEAN /\ cursor \in {Unknown} \cup 0..MaxEvents
  BY DEF Types, TypeOK
<1>2. NoCall \in CallStates /\ "authz" \in Phases /\ 0 \in 0..MaxEvents
  BY NoCallTyped, Bounds DEF Phases
<1>3. tracked /\ cursor # Unknown => cursor \in 0..MaxEvents
  BY <1>1
<1>4. Asking \in CallStates
  BY <1>1, <1>2, <1>3 DEF Asking, CallStates
<1> QED BY <1>1, <1>4 DEF Asking, NoCall

\* A client that sees a gap asks again, as soon as it may.
GapAsking == [NoCall EXCEPT !.pc = "authz", !.explicit = TRUE, !.named = TRUE, !.cursor = cursor]

LEMMA ReceiveGapEffect ==
  ASSUME Types, Kinds, ReceiveGap
  PROVE  /\ Receive /\ IsEvent(1) /\ cursor # Unknown /\ wire[1].seq # cursor + 1
         /\ GapAsking \in CallStates /\ GapAsking.pc = "authz" /\ GapAsking.explicit /\ ~GapAsking.found
         /\ GapAsking.mode = "catchUp" /\ GapAsking.cursor = cursor /\ GapAsking.seen = 0
         /\ UNCHANGED <<logVars, role, subs, watching, synced, torn, cursor, view, tracked, claimed, boundVars>>
         /\ cooling' \in BOOLEAN
         /\ \/ calls' = calls
            \/ \E c \in Calls : calls[c] = NoCall /\ calls' = [calls EXCEPT ![c] = GapAsking]
<1>1. /\ wire # <<>> /\ Head(wire).type = "event" /\ ~InOrder(Head(wire).seq)
      /\ UNCHANGED <<logVars, role, subs, watching, synced, torn, cursor, view, tracked, claimed, boundVars>>
  BY DEF ReceiveGap, Receive, Serverside
<1>2. Head(wire) = wire[1]
  BY <1>1, WireIndexed DEF Types
<1>3. IsEvent(1) /\ cursor # Unknown /\ wire[1].seq # cursor + 1
  BY <1>1, <1>2 DEF IsEvent, InOrder
<1>4. /\ GapAsking \in CallStates /\ GapAsking.pc = "authz" /\ GapAsking.explicit /\ ~GapAsking.found
      /\ GapAsking.mode = "catchUp" /\ GapAsking.cursor = cursor /\ GapAsking.seen = 0
  <2>1. cursor \in 0..MaxEvents /\ "authz" \in Phases
    BY <1>3 DEF Types, TypeOK, Phases
  <2> QED BY <2>1, NoCallTyped DEF GapAsking, NoCall, CallStates
<1>0. Receive
  BY DEF ReceiveGap
<1>5. CASE cooling
  BY <1>1, <1>3, <1>4, <1>5 DEF ReceiveGap, Types, TypeOK
<1>6. CASE ~cooling
  <2>1. IdleCalls # {} /\ calls' = [calls EXCEPT ![NextCall] = GapAsking] /\ cooling' = TRUE
    BY <1>6 DEF ReceiveGap, GapAsking
  <2>2. NextCall \in Calls /\ calls[NextCall] = NoCall
    BY <2>1 DEF NextCall, IdleCalls, Kinds, Fits
  <2> QED BY <1>0, <1>1, <1>3, <1>4, <2>1, <2>2
<1> QED BY <1>5, <1>6

LEMMA OpenThreadEffect ==
  ASSUME Types, Kinds, OpenThread
  PROVE  /\ role # "creator" /\ ~claimed /\ claimed'
         /\ UNCHANGED <<logVars, role, subs, watching, synced, wire, torn, cursor, view, tracked, cooling, boundVars>>
         /\ \E c \in Calls : calls[c] = NoCall /\ calls' = [calls EXCEPT ![c] = Asking]
<1>1. NextCall \in Calls /\ calls[NextCall] = NoCall
  BY DEF OpenThread, NextCall, IdleCalls, Kinds, Fits
<1> QED BY <1>1 DEF OpenThread

\* A new socket: what was on the old one is gone.
LEMMA NewSocketEffect ==
  ASSUME Types, LogInv, Reconnect \/ Restart
  PROVE  /\ wire' = <<>> /\ subs' = Empty /\ ~watching' /\ ~synced' /\ ~torn'
         /\ watching' \in BOOLEAN /\ synced' \in BOOLEAN
         /\ UNCHANGED <<role, cursor, view, tracked, claimed, cooling, drops>>
         /\ calls' \in [Calls -> CallStates]
         /\ \A c \in Calls : calls'[c] = IF c = 1 /\ claimed THEN Asking ELSE NoCall
         /\ reconnects' \in 0..MaxReconnects /\ restarts' \in 0..MaxRestarts
         /\ \/ UNCHANGED logVars
            \/ run' = "lost" /\ Active
            \/ run' = "over" /\ Active /\ stored <= stored' /\ stored' \in Nat
<1>1. NewSocket /\ reconnects' \in 0..MaxReconnects /\ restarts' \in 0..MaxRestarts
  BY Bounds DEF Reconnect, Restart, Crash, Types, TypeOK
<1>2. \/ UNCHANGED logVars
      \/ run' = "lost" /\ Active
      \/ run' = "over" /\ Active /\ stored <= stored' /\ stored' \in Nat
  <2>1. CASE Reconnect
    BY <2>1 DEF Reconnect
  <2>2. CASE Restart
    <3>1. Crash
      BY <2>2 DEF Restart
    <3>2. \A n \in ToSet(appends) : stored < n /\ n \in Nat
      BY InvBounds DEF LogInv, InFlight, ToSet
    <3> QED BY <3>1, <3>2, InvBounds DEF Crash, Settled, Active
  <2> QED BY <2>1, <2>2
<1> QED BY <1>1, <1>2, AskingTyped, NoCallTyped DEF NewSocket, clientVars

\* What a subscribe asks for does not change while it is answered.
Kept(c) ==
  /\ calls'[c].explicit = calls[c].explicit /\ calls'[c].cursor = calls[c].cursor
  /\ calls'[c].seen \in {0, calls[c].seen}

\* What its closure is when it begins to read.
Began(c, mode) ==
  [NoCall EXCEPT !.pc = "read", !.mode = mode, !.explicit = calls[c].explicit,
                 !.cursor = calls[c].cursor, !.least = IF calls[c].explicit THEN counted ELSE 0]

\* Somebody else's tap is taken down by a resync.
LEMMA ReadMetaEffect ==
  ASSUME Types, NEW c \in Calls, ReadMeta(c)
  PROVE  /\ calls[c].pc = "listed" /\ calls' \in [Calls -> CallStates] /\ wire' = wire
         /\ UNCHANGED <<logVars, role, cursor, view, tracked, claimed, cooling, boundVars>>
         /\ watching' \in BOOLEAN /\ synced' \in BOOLEAN /\ torn' \in BOOLEAN /\ (torn => torn')
         /\ \/ /\ calls'[c] = NoCall /\ subs' = subs /\ watching' = (watching \/ calls[c].explicit)
               /\ \A d \in Calls \ {c} : calls'[d] = calls[d]
            \/ /\ Active /\ calls[c].found /\ counted <= calls[c].cursor /\ subs = Empty /\ subs' = Reserved
               /\ Kept(c) /\ calls'[c].pc = "read" /\ calls'[c].mode = "tapOnly"
               /\ calls'[c].least = (IF calls[c].explicit THEN counted ELSE 0)
               /\ watching' = watching
               /\ \A d \in Calls \ {c} : calls'[d] = calls[d]
            \/ /\ Active /\ calls[c].found /\ counted > calls[c].cursor /\ subs' = Reserved
               /\ (subs = Reserved => torn')
               /\ Kept(c) /\ calls'[c].pc = "read" /\ calls'[c].mode = "catchUp"
               /\ calls'[c].least = (IF calls[c].explicit THEN counted ELSE 0)
               /\ watching' = watching
               /\ \A d \in Calls \ {c} : calls'[d] = IF d = subs THEN NoCall ELSE calls[d]
            \/ /\ run = "over" /\ calls[c].found /\ subs = Empty /\ subs' = Reserved
               /\ Kept(c) /\ calls'[c].pc = "read" /\ calls'[c].mode \in {"catchUp", "forceSync"}
               /\ watching' = watching
               /\ \A d \in Calls \ {c} : calls'[d] = calls[d]
<1>0. /\ calls \in [Calls -> CallStates] /\ counted \in 0..MaxEvents /\ 0 \in 0..MaxEvents
      /\ watching \in BOOLEAN /\ synced \in BOOLEAN /\ torn \in BOOLEAN /\ calls[c] \in CallStates
      /\ calls[c].cursor \in 0..MaxEvents /\ counted \in Int /\ calls[c].cursor \in Int
  <2>1. /\ calls \in [Calls -> CallStates] /\ counted \in 0..MaxEvents
        /\ watching \in BOOLEAN /\ synced \in BOOLEAN /\ torn \in BOOLEAN
    BY Bounds DEF Types, TypeOK, LogTypeOK
  <2>2. calls[c] \in CallStates
    BY <2>1
  <2>3. calls[c].cursor \in 0..MaxEvents
    BY <2>2 DEF CallStates
  <2>4. 0 \in 0..MaxEvents /\ counted \in Int /\ calls[c].cursor \in Int
    BY <2>1, <2>3, Bounds
  <2>5. QED  BY <2>1, <2>2, <2>3, <2>4
<1>1. calls[c].pc = "listed" /\ wire' = wire
      /\ UNCHANGED <<logVars, role, cursor, view, tracked, claimed, cooling, boundVars>>
  BY DEF ReadMeta, Quiet, clientVars
<1>2. \A mode \in Modes : Began(c, mode) \in CallStates
  BY <1>0, NoCallTyped DEF Began, CallStates, Phases, NoCall
<1>3. ASSUME Return(c, calls), subs' = subs, synced' = synced
      PROVE  /\ calls' \in [Calls -> CallStates] /\ watching' \in BOOLEAN /\ synced' \in BOOLEAN
             /\ calls'[c] = NoCall /\ subs' = subs /\ watching' = (watching \/ calls[c].explicit)
             /\ \A d \in Calls \ {c} : calls'[d] = calls[d]
  BY <1>0, <1>3, NoCallTyped DEF Return, CallStates
<1>4. ASSUME NEW mode \in Modes, Subscribe(c, mode, calls, subs), ~Taken(subs)
      PROVE  /\ calls' \in [Calls -> CallStates] /\ watching' = watching /\ subs = Empty /\ subs' = Reserved
             /\ calls'[c] = Began(c, mode)
             /\ \A d \in Calls \ {c} : calls'[d] = calls[d]
  BY <1>0, <1>2, <1>4 DEF Subscribe, Taken, Began
<1>5. ASSUME NEW mode \in Modes, Subscribe(c, mode, calls, subs), Taken(subs)
      PROVE  Return(c, calls) /\ subs' = subs
  BY <1>5 DEF Subscribe
<1>6. ASSUME Return(c, calls), subs' = subs, synced' \in BOOLEAN
      PROVE  /\ calls' \in [Calls -> CallStates] /\ watching' \in BOOLEAN
             /\ calls'[c] = NoCall /\ subs' = subs /\ watching' = (watching \/ calls[c].explicit)
             /\ \A d \in Calls \ {c} : calls'[d] = calls[d]
  BY <1>0, <1>6, NoCallTyped DEF Return, CallStates
<1>b. ASSUME NEW mode \in Modes, calls' \in [Calls -> CallStates],
             calls'[c] = Began(c, mode)
      PROVE  /\ Kept(c) /\ calls'[c].pc = "read" /\ calls'[c].mode = mode
             /\ calls'[c].least = (IF calls[c].explicit THEN counted ELSE 0)
  BY <1>b DEF Kept, CallStates, Began, NoCall
<1>7. CASE Return(c, calls) /\ UNCHANGED <<subs, synced, torn>>
  BY <1>0, <1>1, <1>6, <1>7
<1>8. CASE calls[c].found /\ Active /\ CaughtUp(c) /\ Subscribe(c, "tapOnly", calls, subs) /\ UNCHANGED <<synced, torn>>
  <2>1. "tapOnly" \in Modes
    BY DEF Modes
  <2>2. CASE Taken(subs)
    BY <1>0, <1>1, <1>5, <1>6, <1>8, <2>1, <2>2
  <2>3. CASE ~Taken(subs)
    BY <1>0, <1>1, <1>4, <1>b, <1>8, <2>1, <2>3 DEF CaughtUp
  <2> QED BY <2>2, <2>3
<1>9. CASE /\ calls[c].found /\ Active /\ ~CaughtUp(c) /\ UNCHANGED synced /\ torn' = (torn \/ subs = Reserved)
           /\ Subscribe(c, "catchUp", Unsubscribed.calls, Unsubscribed.subs)
  <2>1. Unsubscribed.subs = Empty /\ ~Taken(Unsubscribed.subs)
    BY DEF Unsubscribed, Taken
  <2>2. Unsubscribed.calls = IF subs \in Calls THEN [calls EXCEPT ![subs] = NoCall] ELSE calls
    BY DEF Unsubscribed
  <2>3. subs \in Calls => subs # c
    BY <1>1 DEF Types, TypeOK
  <2>4. /\ Unsubscribed.calls \in [Calls -> CallStates] /\ Unsubscribed.calls[c] = calls[c]
        /\ \A d \in Calls : Unsubscribed.calls[d] = IF d = subs THEN NoCall ELSE calls[d]
    BY <1>0, <2>2, <2>3, NoCallTyped
  <2> DEFINE cs == Unsubscribed.calls
  <2>5. /\ calls' = [cs EXCEPT ![c] = Began(c, "catchUp")]
        /\ subs' = Reserved /\ watching' = watching
    BY <1>9, <2>1 DEF Subscribe, Began
  <2>6. cs \in [Calls -> CallStates] /\ cs[c] = calls[c]
    BY <2>4
  <2>7. /\ calls' \in [Calls -> CallStates]
        /\ calls'[c] = Began(c, "catchUp")
        /\ \A d \in Calls \ {c} : calls'[d] = cs[d]
    <3> HIDE DEF cs
    <3>1. "catchUp" \in Modes
      BY DEF Modes
    <3> QED BY <1>2, <2>5, <2>6, <3>1
  <2>8. "catchUp" \in Modes
    BY DEF Modes
  <2>9. counted > calls[c].cursor
    BY <1>0, <1>9 DEF CaughtUp
  <2>10. /\ Kept(c) /\ calls'[c].pc = "read" /\ calls'[c].mode = "catchUp"
         /\ calls'[c].least = (IF calls[c].explicit THEN counted ELSE 0)
    BY <1>b, <2>7, <2>8
  <2>11. \A d \in Calls \ {c} : calls'[d] = IF d = subs THEN NoCall ELSE calls[d]
    BY <2>4, <2>7
  <2> QED BY <1>0, <1>1, <1>9, <2>5, <2>7, <2>9, <2>10, <2>11
<1>10. CASE /\ calls[c].found /\ run = "over" /\ synced' = TRUE /\ UNCHANGED torn
            /\ Subscribe(c, IF CaughtUp(c) THEN "forceSync" ELSE "catchUp", calls, subs)
  <2>1. PICK mode \in {"forceSync", "catchUp"} : Subscribe(c, mode, calls, subs)
    BY <1>10
  <2>2. mode \in Modes
    BY DEF Modes
  <2>3. CASE Taken(subs)
    BY <1>0, <1>1, <1>5, <1>6, <1>10, <2>1, <2>2, <2>3
  <2>4. CASE ~Taken(subs)
    BY <1>0, <1>1, <1>4, <1>b, <1>10, <2>1, <2>2, <2>4
  <2> QED BY <2>3, <2>4
<1> QED BY <1>7, <1>8, <1>9, <1>10 DEF ReadMeta

LEMMA MessagesAssociative ==
  \A s, t, u \in Seq(Messages) : (s \o t) \o u = s \o (t \o u)
BY ConcatAssociative

\* A subscribe that has read the log sends what it owes: a snapshot of the
\* first `base` records if one is due, and the records behind them.
Base0(c) == IF TapOnly(c) THEN calls[c].cursor ELSE calls[c].seen
Due(c) == ~TapOnly(c) /\ NeedsSync(c)
Shot(c) == IF Due(c) THEN 1 ELSE 0

\* s is that, but for the last d records.
SnapshotThenRecords(c, s, d) ==
  /\ Len(s) \in Nat /\ Len(s) = Shot(c) + (stored - Base0(c)) - d /\ d <= stored - Base0(c)
  /\ Due(c) => s[1] = Sync(Base0(c), Active)
  /\ \A k \in 1..(stored - Base0(c) - d) : s[Shot(c) + k] = Event(Base0(c) + k)
  /\ \A k \in DOMAIN s :
       \/ k = 1 /\ Due(c) /\ s[k] = Sync(Base0(c), Active)
       \/ \E m \in 1..(stored - Base0(c) - d) :
            k = Shot(c) + m /\ s[k] = Event(Base0(c) + m) /\ Base0(c) + m \in 1..stored

LEMMA CatchUpEffect ==
  ASSUME Types, LogInv, NEW c \in Calls, CatchUp(c)
  PROVE  /\ calls[c].pc = "status" /\ (calls[c].mode = "tapOnly" => Active)
         /\ \A d \in Calls : calls[d].pc = "status" => calls[c].seen <= calls[d].seen
         /\ Base0(c) \in Nat /\ Base0(c) <= stored
         /\ UNCHANGED <<logVars, role, cursor, view, tracked, claimed, cooling, synced, torn, reconnects, restarts>>
         /\ calls' \in [Calls -> CallStates] /\ watching' \in BOOLEAN
         /\ watching' # watching => calls[c].explicit
         /\ \A d \in Calls \ {c} : calls'[d] = calls[d]
         /\ IF Active THEN calls'[c] = Living /\ subs' = c
                      ELSE calls'[c] = NoCall /\ subs' = Empty
         /\ \E s \in Seq(Messages), d \in Nat :
              /\ wire' = wire \o s
              /\ drops' = drops + d /\ drops' \in 0..MaxDrops
              /\ SnapshotThenRecords(c, s, d)
<1> DEFINE base == Base0(c)
           snapshot == IF Due(c) THEN <<Sync(base, Active)>> ELSE <<>>
<1>0. /\ calls \in [Calls -> CallStates] /\ calls[c] \in CallStates /\ watching \in BOOLEAN
      /\ wire \in Seq(Messages) /\ base \in 0..MaxEvents /\ base \in Nat
      /\ stored \in 0..MaxEvents /\ stored \in Nat /\ drops \in Nat
  <2>1. calls[c].cursor \in 0..MaxEvents /\ calls[c].seen \in 0..MaxEvents /\ drops \in 0..MaxDrops
    BY DEF Types, TypeOK
  <2> QED BY <2>1, Bounds, InvBounds DEF Types, TypeOK, Base0
<1>1. /\ calls[c].pc = "status" /\ (calls[c].mode = "tapOnly" => Active)
      /\ \A d \in Calls : calls[d].pc = "status" => calls[c].seen <= calls[d].seen
      /\ UNCHANGED <<logVars, role, cursor, view, tracked, claimed, cooling, synced, torn, reconnects, restarts>>
  BY DEF CatchUp, clientVars
<1>2. PICK d \in Droppable(base + 1, stored, 1) :
        /\ wire' = wire \o snapshot \o Forwarded(base + 1, stored, 1, d)
        /\ drops' = drops + d
        /\ IF Active
           THEN /\ calls' = [calls EXCEPT ![c] = Living]
                /\ subs' = c
                /\ watching' = (watching \/ calls[c].explicit)
           ELSE /\ Return(c, calls)
                /\ subs' = Empty
  BY DEF CatchUp, UpTo, Base0, Due, Living
<1>3. /\ d \in 0..Copies(base + 1, stored, 1) /\ drops + d <= MaxDrops
  BY <1>2 DEF Droppable
<1> DEFINE f == Forwarded(base + 1, stored, 1, d)
           s == snapshot \o f
<1>4. /\ f \in Seq(Messages) /\ Len(f) = stored - base - d
      /\ d \in Nat /\ d <= stored - base /\ base <= stored
      /\ \A k \in 1..(stored - base - d) : f[k] = Event(base + k)
  <2>1. base + 1 \in Nat \ {0}
    BY <1>0
  <2>2. /\ f \in Seq(Messages) /\ Len(f) = Copies(base + 1, stored, 1) - d
        /\ Copies(base + 1, stored, 1) = stored - (base + 1) + 1 /\ d \in Nat
        /\ \A k \in 1..(stored - (base + 1) + 1 - d) : f[k] = Event(base + 1 + k - 1)
    <3> HIDE DEF base
    <3>1. f \in Seq(Messages) /\ Len(f) = Copies(base + 1, stored, 1) - d
      <4>1. 1 \in Nat
        OBVIOUS
      <4> QED BY <1>0, <1>3, <2>1, <4>1, ForwardedEvents
    <3>2. /\ Copies(base + 1, stored, 1) = stored - (base + 1) + 1 /\ d \in Nat
          /\ \A k \in 1..(stored - (base + 1) + 1 - d) : f[k] = Event(base + 1 + k - 1)
      BY <1>0, <1>3, <2>1, ForwardedOneByOne
    <3> QED BY <3>1, <3>2
  <2> HIDE DEF f, base
  <2>3. stored - (base + 1) + 1 = stored - base /\ d <= stored - base /\ base <= stored
    BY <1>0, <1>3, <2>2
  <2>4. \A k \in 1..(stored - base - d) : base + 1 + k - 1 = base + k
    BY <1>0, <2>2
  <2> QED BY <1>0, <2>2, <2>3, <2>4
<1>5. snapshot \in Seq(Messages) /\ Len(snapshot) = Shot(c) /\ (Due(c) => snapshot[1] = Sync(base, Active))
  <2>1. Sync(base, Active) \in Messages
    BY <1>0 DEF Sync, Messages, Active
  <2> HIDE DEF base
  <2> QED BY <2>1 DEF Shot
<1>6. /\ s \in Seq(Messages) /\ Len(s) = Shot(c) + (stored - base) - d
      /\ Due(c) => s[1] = Sync(base, Active)
      /\ \A k \in 1..(stored - base - d) : s[Shot(c) + k] = Event(base + k)
      /\ wire' = wire \o s
  <2> HIDE DEF f, snapshot, base
  <2>1. s \in Seq(Messages) /\ Len(s) = Len(snapshot) + Len(f)
        /\ \A i \in 1..(Len(snapshot) + Len(f)) :
             s[i] = IF i <= Len(snapshot) THEN snapshot[i] ELSE f[i - Len(snapshot)]
    BY <1>4, <1>5, ConcatProperties
  <2>2. Shot(c) \in {0, 1} /\ (Due(c) => Shot(c) = 1)
    BY DEF Shot
  <2>3. wire' = wire \o s
    <3>1. wire' = (wire \o snapshot) \o f
      BY <1>2 DEF f, snapshot
    <3> QED BY <1>4, <1>5, <3>1, MessagesAssociative
  <2> HIDE DEF s
  <2>4. Due(c) => s[1] = Sync(base, Active)
    BY <1>4, <1>5, <2>1, <2>2
  <2>5. \A k \in 1..(stored - base - d) : s[Shot(c) + k] = f[k]
    <3> SUFFICES ASSUME NEW k \in 1..(stored - base - d) PROVE s[Shot(c) + k] = f[k]
      OBVIOUS
    <3>1. /\ Shot(c) + k \in 1..(Len(snapshot) + Len(f)) /\ ~(Shot(c) + k <= Len(snapshot))
          /\ (Shot(c) + k) - Len(snapshot) = k
      BY <1>4, <1>5, <2>2
    <3> DEFINE i == Shot(c) + k
    <3>2. i \in 1..(Len(snapshot) + Len(f)) /\ ~(i <= Len(snapshot)) /\ i - Len(snapshot) = k
      BY <3>1
    <3> HIDE DEF i
    <3>3. s[i] = f[i - Len(snapshot)]
      BY <2>1, <3>2
    <3>4. s[i] = f[k]
      BY <3>2, <3>3
    <3> QED BY <3>4 DEF i
  <2> QED BY <1>4, <1>5, <2>1, <2>2, <2>3, <2>4, <2>5
<1>7. /\ calls' \in [Calls -> CallStates] /\ watching' \in BOOLEAN
      /\ watching' # watching => calls[c].explicit
      /\ \A e \in Calls \ {c} : calls'[e] = calls[e]
      /\ IF Active THEN calls'[c] = Living /\ subs' = c
                   ELSE calls'[c] = NoCall /\ subs' = Empty
  <2>1. "live" \in Phases /\ calls[c].explicit \in BOOLEAN
    BY <1>0 DEF Phases, CallStates
  <2>2. CASE Active
    <3> QED BY <1>0, <1>2, <2>1, <2>2, NoCallTyped
  <2>3. CASE ~Active
    BY <1>0, <1>2, <2>1, <2>3, NoCallTyped DEF Return
  <2> QED BY <2>2, <2>3
<1> HIDE DEF s
<1>8. drops' = drops + d /\ drops' \in 0..MaxDrops
  BY <1>0, <1>2, <1>3, <1>4, Bounds
<1>9. Len(s) \in Nat /\ DOMAIN s = 1..Len(s)
  BY <1>6, LenProperties
<1>10. ASSUME NEW k \in DOMAIN s, ~(k = 1 /\ Due(c))
      PROVE  \E m \in 1..(stored - base - d) :
               k = Shot(c) + m /\ s[k] = Event(base + m) /\ base + m \in 1..stored
  <2> HIDE DEF base
  <2>1. Shot(c) \in {0, 1} /\ (Due(c) <=> Shot(c) = 1)
    BY DEF Shot
  <2>2. /\ k - Shot(c) \in 1..(stored - base - d) /\ k = Shot(c) + (k - Shot(c))
        /\ base + (k - Shot(c)) \in 1..stored
    <3>1. k \in Nat /\ k >= 1 /\ k <= Shot(c) + (stored - base) - d /\ (k = 1 => Shot(c) = 0)
      BY <1>6, <1>9, <1>10, <2>1
    <3> QED BY <1>0, <1>4, <2>1, <3>1
  <2> QED BY <1>6, <2>2
<1>11. SnapshotThenRecords(c, s, d)
  <2>1. \A k \in DOMAIN s : k = 1 /\ Due(c) => s[k] = Sync(base, Active)
    BY <1>6
  <2> QED BY <1>4, <1>6, <1>9, <1>10, <2>1 DEF SnapshotThenRecords
<1> QED BY <1>0, <1>1, <1>4, <1>6, <1>7, <1>8, <1>11

\* Records that become durable are sent to every tap.
LEMMA StoreEffect ==
  ASSUME Types, LogInv, Store
  PROVE  /\ run \in {"open", "ending"} /\ stored' \in Nat /\ stored < stored' /\ stored' <= MaxEvents
         /\ stored' <= counted
         /\ appends # <<>> /\ stored' = Head(appends) /\ appends' = Tail(appends)
         /\ UNCHANGED <<run, counted, role, calls, subs, watching, synced, torn, cursor, view, tracked, claimed,
                        cooling, reconnects, restarts>>
         /\ \E s \in Seq(Messages), d \in Nat :
              /\ wire' = wire \o s
              /\ drops' = drops + d /\ drops' \in 0..MaxDrops
              /\ \A k \in DOMAIN s : \E r \in (stored + 1)..stored' : s[k] = Event(r)
              /\ Tapped = {} => s = <<>>
              /\ \A t : Tapped = {t} =>
                   /\ Len(s) = stored' - stored - d
                   /\ \A k \in 1..(stored' - stored - d) : s[k] = Event(stored + k)
<1> DEFINE n == Cardinality(Tapped)
           hi == Head(appends)
<1>1. /\ appends # <<>> /\ hi <= counted /\ stored' = hi /\ appends' = Tail(appends)
      /\ UNCHANGED <<run, counted, role, calls, subs, watching, synced, torn, cursor, view, tracked, claimed,
                     cooling, reconnects, restarts>>
  BY DEF Store, StoreAppend, Counted, Bystanders
<1>2. hi = appends[1] /\ 1 \in DOMAIN appends
  BY <1>1, InvBounds, EmptySeq, HeadTailProperties
<1>3. hi \in Nat /\ hi \in 0..MaxEvents /\ stored \in Nat /\ stored < hi /\ hi <= MaxEvents
  BY <1>2, InvBounds, MaxEventsNat DEF LogInv, InFlight
<1>4. run \in {"open", "ending"}
  BY <1>1 DEF LogInv, LogTypeOK, Drained
<1>5. PICK d \in Droppable(stored + 1, hi, n) :
        wire' = wire \o Forwarded(stored + 1, hi, n, d) /\ drops' = drops + d
  BY DEF Store
<1> DEFINE s == Forwarded(stored + 1, hi, n, d)
<1>6. d \in 0..Copies(stored + 1, hi, n) /\ drops + d <= MaxDrops
  BY <1>5 DEF Droppable
<1>7. n \in Nat /\ (Tapped = {} => n = 0) /\ \A t : Tapped = {t} => n = 1
  BY CountTapped
<1>8. stored + 1 \in Nat \ {0}
  BY <1>3
<1>9. /\ s \in Seq(Messages) /\ Len(s) = Copies(stored + 1, hi, n) - d
      /\ \A k \in DOMAIN s : \E r \in (stored + 1)..hi : s[k] = Event(r)
  BY <1>3, <1>6, <1>7, <1>8, ForwardedEvents
<1>10. d \in Nat /\ drops' \in 0..MaxDrops
  <2> HIDE DEF n, hi
  <2>1. Copies(stored + 1, hi, n) \in Int
    BY <1>3, <1>7 DEF Copies
  <2> QED BY <1>5, <1>6, <2>1, Bounds DEF Types, TypeOK
<1>11. Tapped = {} => s = <<>>
  <2> HIDE DEF n, hi
  <2>1. n = 0 => Copies(stored + 1, hi, n) = 0
    BY <1>3 DEF Copies
  <2>2. n = 0 => Len(s) = 0
    <3> HIDE DEF s
    <3> QED BY <1>6, <1>9, <1>10, <2>1
  <2> QED BY <1>7, <1>9, <2>2, EmptySeq
<1>12. ASSUME NEW t, Tapped = {t}
       PROVE  /\ Len(s) = hi - stored - d
              /\ \A k \in 1..(hi - stored - d) : s[k] = Event(stored + k)
  <2>1. n = 1
    BY <1>7, <1>12
  <2>2. /\ Copies(stored + 1, hi, 1) = hi - (stored + 1) + 1
        /\ \A k \in 1..(hi - (stored + 1) + 1 - d) : s[k] = Event(stored + 1 + k - 1)
    BY <1>3, <1>6, <1>8, <2>1, ForwardedOneByOne
  <2> HIDE DEF s, hi, n
  <2>3. hi - (stored + 1) + 1 = hi - stored /\ \A k \in 1..(hi - stored - d) : stored + 1 + k - 1 = stored + k
    BY <1>3, <1>10
  <2> QED BY <1>3, <1>9, <1>10, <2>1, <2>2, <2>3
<1> HIDE DEF s
<1> QED BY <1>1, <1>3, <1>4, <1>5, <1>9, <1>10, <1>11, <1>12 DEF s

\* The end of the run, to every tap.
LEMMA EndRunEffect ==
  ASSUME Types, EndRun
  PROVE  /\ run = "ending" /\ run' = "over" /\ appends = <<>>
         /\ UNCHANGED <<emitted, flushed, appends, counted, stored, crashed, role, watching, synced, torn,
                        cursor, view, tracked, cooling, reconnects, restarts, claimed, drops>>
         /\ calls' \in [Calls -> CallStates]
         /\ \A c \in Calls : calls'[c] = IF calls[c].pc = "live" THEN NoCall ELSE calls[c]
         /\ subs' = IF Tapped # {} THEN Empty ELSE subs
         /\ \E s \in Seq(Messages) :
              /\ wire' = wire \o s
              /\ Len(s) = Cardinality(Tapped) /\ \A k \in DOMAIN s : s[k] = Ended
<1> DEFINE s == [i \in 1..Cardinality(Tapped) |-> Ended]
<1>1. s \in Seq(Messages) /\ Len(s) = Cardinality(Tapped) /\ \A k \in DOMAIN s : s[k] = Ended
  <2>1. Ended \in Messages
    BY Bounds DEF Ended, Messages
  <2>2. Cardinality(Tapped) \in Nat
    BY CountTapped
  <2>3. s \in [1..Cardinality(Tapped) -> Messages]
    BY <2>1
  <2> QED BY <2>2, <2>3, SeqDef
<1>2. wire' = wire \o s
  BY DEF EndRun
<1>3. /\ calls' \in [Calls -> CallStates]
      /\ \A c \in Calls : calls'[c] = IF calls[c].pc = "live" THEN NoCall ELSE calls[c]
  BY NoCallTyped DEF EndRun, Tapped, Types
<1> HIDE DEF s
<1> QED BY <1>1, <1>2, <1>3 DEF EndRun, Finalize, MayFinalize, Bystanders


\* The run speaks, what it said moves towards the log, or nothing happens.
LEMMA LogMoveEffect ==
  ASSUME Types, LogInv, Speak \/ Carry \/ CooldownOver \/ Rest \/ UNCHANGED vars
  PROVE  /\ UNCHANGED <<stored, role, calls, subs, watching, synced, torn, wire, cursor, view, tracked, claimed,
                        drops, reconnects, restarts>>
         /\ cooling' \in BOOLEAN
         /\ run' = run \/ (run = "open" /\ run' = "ending")
         /\ counted' = counted \/ (Active /\ counted' \in ToSet(appends))
         /\ ToSet(appends) \subseteq ToSet(appends')
<1>0. cooling \in BOOLEAN
  BY DEF Types, TypeOK
<1>1. ASSUME NEW n, appends' = Flushed(n) PROVE ToSet(appends) \subseteq ToSet(appends')
  <2>1. CASE n > flushed
    <3>1. appends' = Append(appends, n)
      BY <1>1, <2>1 DEF Flushed
    <3>2. DOMAIN appends \subseteq DOMAIN appends' /\ \A i \in DOMAIN appends : appends'[i] = appends[i]
      BY <3>1, InvBounds
    <3> QED BY <3>2 DEF ToSet
  <2> QED BY <1>1, <2>1 DEF Flushed
<1>2. CASE Speak
  <2>1. UNCHANGED <<role, socketVars, clientVars, boundVars>>
    BY <1>2 DEF Speak
  <2>2. CASE EmitDelta
    BY <1>0, <2>1, <2>2 DEF EmitDelta, socketVars, clientVars, boundVars
  <2>3. CASE EmitStructural
    BY <1>0, <1>1, <2>1, <2>3 DEF EmitStructural, Flush, socketVars, clientVars, boundVars
  <2>4. CASE End
    BY <1>0, <1>1, <2>1, <2>4 DEF End, FinalFlush, Flush, socketVars, clientVars, boundVars
  <2> QED BY <1>2, <2>2, <2>3, <2>4 DEF Speak
<1>3. CASE Carry
  <2>1. UNCHANGED <<role, socketVars, clientVars, boundVars>>
    BY <1>3 DEF Carry
  <2>2. CASE FlushTimer
    BY <1>0, <1>1, <2>1, <2>2 DEF FlushTimer, Flush, socketVars, clientVars, boundVars
  <2>3. CASE CountAppend
    <3>1. PICK i \in DOMAIN appends : counted' = appends[i]
      BY <2>3 DEF CountAppend
    <3>2. Active
      BY <3>1, InvBounds DEF LogInv, LogTypeOK, Drained, Active
    <3> QED BY <1>0, <2>1, <2>3, <3>1, <3>2 DEF CountAppend, socketVars, clientVars, boundVars, ToSet
  <2> QED BY <1>3, <2>2, <2>3 DEF Carry
<1>4. CASE CooldownOver
  BY <1>4 DEF CooldownOver, logVars, socketVars, boundVars
<1>5. CASE Rest \/ UNCHANGED vars
  BY <1>0, <1>5 DEF Rest, vars
<1> QED BY <1>2, <1>3, <1>4, <1>5

Others(c) == \A d \in Calls \ {c} : calls'[d] = calls[d]

\* A subscribe on a run's announcement, or on one's own send, begins.
LEMMA UninvitedEffect ==
  ASSUME Types, Kinds, NEW c \in Calls, AutoSubscribe(c) \/ Announced(c)
  PROVE  /\ calls[c].pc \in {"send", "watch"} /\ ~calls[c].explicit /\ calls[c].cursor = 0
         /\ UNCHANGED <<logVars, role, synced, torn, wire, cursor, view, tracked, claimed, cooling, boundVars>>
         /\ calls' \in [Calls -> CallStates] /\ Others(c) /\ watching' \in BOOLEAN
         /\ \/ subs # Empty /\ subs' = subs /\ calls'[c] = NoCall
            \/ /\ subs = Empty /\ subs' = Reserved
               /\ calls'[c].pc = "read" /\ ~calls'[c].explicit /\ calls'[c].cursor = 0
               /\ calls'[c].mode = IF calls[c].pc = "send" THEN "catchUp" ELSE "forceSync"
               /\ calls'[c].seen \in {0, calls[c].seen}
<1>0. /\ calls \in [Calls -> CallStates] /\ calls[c] \in CallStates /\ 0 \in 0..MaxEvents
      /\ "read" \in Phases /\ "forceSync" \in Modes /\ watching \in BOOLEAN
  BY Bounds DEF Types, TypeOK, Phases, Modes
<1>1. /\ calls[c].pc \in {"send", "watch"} /\ ~calls[c].explicit /\ calls[c].cursor = 0
      /\ calls[c].pc = "send" => calls[c].mode = "catchUp"
      /\ UNCHANGED <<logVars, role, synced, torn, wire, cursor, view, tracked, claimed, cooling, boundVars>>
  BY DEF Kinds, Fits, AutoSubscribe, Announced, Quiet, clientVars
<1>2. CASE AutoSubscribe(c)
  <2>1. calls[c].pc = "send" /\ watching' = TRUE
    BY <1>2 DEF AutoSubscribe
  <2>2. CASE Taken(subs)
    BY <1>0, <1>1, <1>2, <2>1, <2>2, NoCallTyped DEF AutoSubscribe, Taken, Others
  <2>3. CASE ~Taken(subs)
    <3>1. calls' = [calls EXCEPT ![c].pc = "read"] /\ subs = Empty /\ subs' = Reserved
      BY <1>2, <2>3 DEF AutoSubscribe, Taken
    <3> QED BY <1>0, <1>1, <2>1, <3>1 DEF Others, CallStates
  <2> QED BY <2>2, <2>3
<1>3. CASE Announced(c)
  <2>1. calls[c].pc = "watch" /\ Subscribe(c, "forceSync", calls, subs)
    BY <1>3 DEF Announced
  <2>2. CASE Taken(subs)
    BY <1>0, <1>1, <2>1, <2>2, NoCallTyped DEF Subscribe, Return, Taken, Others, CallStates
  <2>3. CASE ~Taken(subs)
    <3>1. /\ calls' = [calls EXCEPT ![c] = Began(c, "forceSync")]
          /\ subs = Empty /\ subs' = Reserved /\ watching' = watching
      BY <2>1, <2>3 DEF Subscribe, Taken, Began
    <3>2. Began(c, "forceSync") \in CallStates
      BY <1>0, <1>1, NoCallTyped DEF Began, CallStates
    <3>3. /\ Began(c, "forceSync").pc = "read" /\ ~Began(c, "forceSync").explicit
          /\ Began(c, "forceSync").cursor = 0 /\ Began(c, "forceSync").mode = "forceSync"
          /\ Began(c, "forceSync").seen = 0
      BY <1>1 DEF Began, NoCall
    <3> QED BY <1>0, <1>1, <2>1, <3>1, <3>2, <3>3 DEF Others
  <2> QED BY <2>2, <2>3
<1> QED BY <1>2, <1>3

\* What the steps of a subscribe that only move it leave alone.
LEMMA ListRunsEffect ==
  ASSUME Types, NEW c \in Calls, ListRuns(c)
  PROVE  /\ calls[c].pc = "authz" /\ calls' \in [Calls -> CallStates] /\ Others(c)
         /\ Kept(c) /\ calls'[c].pc = "listed" /\ calls'[c].mode = calls[c].mode
         /\ calls'[c].found = (run \notin {"none", "lost"})
         /\ UNCHANGED <<logVars, role, subs, watching, synced, torn, wire, cursor, view, tracked, claimed, cooling,
                        boundVars>>
<1>1. calls \in [Calls -> CallStates] /\ calls[c] \in CallStates /\ "listed" \in Phases
  BY DEF Types, Phases
<1> QED BY <1>1 DEF ListRuns, Quiet, clientVars, Others, Kept, CallStates

LEMMA ReadLogEffect ==
  ASSUME Types, LogInv, NEW c \in Calls, ReadLog(c)
  PROVE  /\ calls[c].pc = "read" /\ calls' \in [Calls -> CallStates] /\ Others(c)
         /\ \A n \in ToSet(appends) : n > calls[c].least
         /\ calls'[c].explicit = calls[c].explicit /\ calls'[c].cursor = calls[c].cursor
         /\ calls'[c].pc = "status" /\ calls'[c].mode = calls[c].mode /\ calls'[c].seen = stored
         /\ UNCHANGED <<logVars, role, subs, watching, synced, torn, wire, cursor, view, tracked, claimed, cooling,
                        boundVars>>
<1>1. /\ calls \in [Calls -> CallStates] /\ calls[c] \in CallStates /\ "status" \in Phases
      /\ stored \in 0..MaxEvents /\ 0 \in 0..MaxEvents
  BY InvBounds, Bounds DEF Types, Phases
<1> QED BY <1>1 DEF ReadLog, Quiet, clientVars, Others, CallStates

LEMMA RereadEffect ==
  ASSUME Types, NEW c \in Calls, Reread(c)
  PROVE  /\ calls[c].pc = "status" /\ calls[c].mode = "tapOnly" /\ ~Active
         /\ calls' \in [Calls -> CallStates] /\ Others(c)
         /\ Kept(c) /\ calls'[c].pc = "reread" /\ calls'[c].mode = calls[c].mode
         /\ UNCHANGED <<logVars, role, subs, watching, synced, torn, wire, cursor, view, tracked, claimed, cooling,
                        boundVars>>
<1>1. calls \in [Calls -> CallStates] /\ calls[c] \in CallStates /\ "reread" \in Phases
  BY DEF Types, Phases
<1> QED BY <1>1 DEF Reread, Quiet, clientVars, Others, Kept, CallStates

LEMMA SendFinishedEffect ==
  ASSUME Types, LogInv, NEW c \in Calls, SendFinished(c)
  PROVE  /\ calls[c].pc = "reread" /\ calls' \in [Calls -> CallStates] /\ Others(c)
         /\ calls'[c] = NoCall /\ subs' = Empty /\ watching' \in BOOLEAN
         /\ UNCHANGED <<logVars, role, synced, torn, cursor, view, tracked, claimed, cooling, boundVars>>
         /\ \E s \in Seq(Messages) : wire' = wire \o s /\ Len(s) = 1 /\ s[1] = Sync(stored, FALSE)
<1>1. /\ calls \in [Calls -> CallStates] /\ watching \in BOOLEAN /\ calls[c].explicit \in BOOLEAN
      /\ wire \in Seq(Messages)
  BY DEF Types, TypeOK, CallStates
<1>2. Sync(stored, FALSE) \in Messages
  BY InvBounds, Bounds DEF Sync, Messages
<1> DEFINE m == Sync(stored, FALSE)
           s == <<m>>
<1>3. s \in Seq(Messages) /\ Len(s) = 1 /\ s[1] = m
  <2>1. m \in Messages
    BY <1>2
  <2> HIDE DEF m
  <2> QED BY <2>1
<1>4. wire' = wire \o s
  <2>1. wire' = Append(wire, Sync(stored, FALSE))
    BY DEF SendFinished
  <2> QED BY <1>1, <1>2, <2>1, AppendIsConcat
<1> HIDE DEF s
<1>5. /\ calls[c].pc = "reread" /\ Return(c, calls) /\ subs' = Empty
      /\ UNCHANGED <<logVars, role, synced, torn, cursor, view, tracked, claimed, cooling, boundVars>>
  BY DEF SendFinished, Quiet, clientVars
<1> QED BY <1>1, <1>3, <1>4, <1>5, NoCallTyped DEF Return, Others

\* A message is taken in.
LEMMA ReceiveEffect ==
  ASSUME Types, ReceiveSync \/ ReceiveEvent \/ ReceiveEnd
  PROVE  /\ Receive /\ wire # <<>> /\ wire[1] \in Messages
         /\ UNCHANGED <<logVars, role, calls, subs, watching, synced, torn, claimed, cooling, boundVars>>
         /\ tracked' \in BOOLEAN /\ cursor' \in {Unknown} \cup 0..MaxEvents /\ view' \subseteq 1..MaxEvents
         /\ \/ IsSync(1) /\ view' = 1..wire[1].seq /\ cursor' = IF wire[1].active THEN wire[1].seq ELSE cursor
            \/ /\ IsEvent(1) /\ (cursor = Unknown \/ wire[1].seq = cursor + 1) /\ tracked' = tracked
               /\ view' = view \cup {wire[1].seq} /\ cursor' = wire[1].seq
            \/ IsEnd(1) /\ view' = view /\ cursor' = cursor
<1>1. /\ Receive /\ wire # <<>>
      /\ UNCHANGED <<logVars, role, calls, subs, watching, synced, torn, claimed, cooling, boundVars>>
  BY DEF ReceiveSync, ReceiveEvent, ReceiveEnd, Receive, Serverside
<1>2. Head(wire) = wire[1] /\ wire[1] \in Messages /\ 1 \in DOMAIN wire
  BY <1>1, WireIndexed DEF Types
<1>3. /\ wire[1].seq \in 0..MaxEvents /\ wire[1].active \in BOOLEAN
      /\ tracked \in BOOLEAN /\ cursor \in {Unknown} \cup 0..MaxEvents /\ view \subseteq 1..MaxEvents
      /\ IsEvent(1) => wire[1].seq \in 1..MaxEvents
      /\ 1..wire[1].seq \subseteq 1..MaxEvents
  BY <1>2, Bounds DEF Types, TypeOK, Messages
<1>4. CASE ReceiveSync
  BY <1>1, <1>2, <1>3, <1>4 DEF ReceiveSync, IsSync
<1>5. CASE ReceiveEvent
  BY <1>1, <1>2, <1>3, <1>5 DEF ReceiveEvent, IsEvent, InOrder
<1>6. CASE ReceiveEnd
  BY <1>1, <1>2, <1>3, <1>6 DEF ReceiveEnd, IsEnd
<1> QED BY <1>4, <1>5, <1>6

\* The steps, by what they do.
LogMove == Speak \/ Carry \/ CooldownOver \/ Rest \/ UNCHANGED vars
Heard == ReceiveSync \/ ReceiveEvent \/ ReceiveEnd

LEMMA StepCases ==
  ASSUME [Next]_vars
  PROVE  \/ OpenRun \/ LogMove \/ Store \/ EndRun \/ Heard \/ ReceiveGap \/ OpenThread
         \/ (Reconnect \/ Restart)
         \/ \E c \in Calls : \/ AutoSubscribe(c) \/ Announced(c)
                             \/ ListRuns(c)
                             \/ ReadMeta(c)
                             \/ ReadLog(c)
                             \/ CatchUp(c)
                             \/ Reread(c)
                             \/ SendFinished(c)
BY DEF Next, CallStep, ClientStep, LogMove, Heard

\* Every step keeps the types, and the entry on a live tap.
LEMMA TypesStep ==
  ASSUME LogInv, LogInv', Types, Kinds, Before, Unasked, [Next]_vars
  PROVE  Types'
<1>0. /\ LogTypeOK' /\ calls \in [Calls -> CallStates] /\ \A c \in Calls : calls[c] \in CallStates
      /\ wire \in Seq(Messages)
  BY DEF LogInv, Types
<1>a. calls' \in [Calls -> CallStates] =>
        \A c \in Calls : /\ calls'[c].pc \in Phases /\ calls'[c].mode \in Modes
                          /\ calls'[c].cursor \in 0..MaxEvents /\ calls'[c].seen \in 0..MaxEvents
  BY DEF CallStates
<1>1. CASE OpenRun
  <2>1. calls' \in [Calls -> CallStates] /\ subs' \notin Calls
    BY <1>1, <1>0, OpenRunEffect, NoCallTyped, Bounds DEF Before
  <2> QED BY <1>1, <1>0, <1>a, <2>1, Bounds, OpenRunEffect DEF Types, TypeOK, IsEvent
<1>2. CASE LogMove
  BY <1>2, <1>0, <1>a, Bounds, LogMoveEffect DEF Types, TypeOK, IsEvent, LogMove
<1>3. CASE Store
  <2>1. PICK s \in Seq(Messages), d \in Nat :
           /\ wire' = wire \o s /\ drops' \in 0..MaxDrops
           /\ \A k \in DOMAIN s : \E r \in (stored + 1)..stored' : s[k] = Event(r)
    BY <1>3, StoreEffect
  <2>2. \A k \in DOMAIN s : s[k].seq > 0
    BY <2>1, InvBounds, LogInv DEF Event
  <2>3. wire' \in Seq(Messages) /\ \A i \in DOMAIN wire' : IsEvent(i)' => wire'[i].seq > 0
    BY <2>1, <2>2, WireGrows DEF IsEvent, Types
  <2> QED BY <1>3, <1>0, <1>a, <2>1, <2>3, Bounds, StoreEffect DEF Types, TypeOK
<1>4. CASE EndRun
  <2>1. PICK s \in Seq(Messages) : wire' = wire \o s /\ \A k \in DOMAIN s : s[k] = Ended
    BY <1>4, EndRunEffect
  <2>2. \A k \in DOMAIN s : s[k].type # "event"
    BY <2>1 DEF Ended
  <2>3. wire' \in Seq(Messages) /\ \A i \in DOMAIN wire' : IsEvent(i)' => wire'[i].seq > 0
    BY <2>1, <2>2, WireGrows DEF IsEvent, Types
  <2>4. /\ calls' \in [Calls -> CallStates] /\ (subs' \in Calls => calls'[subs'].pc = "live")
        /\ subs' \in Calls \cup {Empty, Reserved}
    <3>1. Tapped = {} => subs \notin Calls
      BY DEF Types, TypeOK, Tapped
    <3> QED BY <1>4, <3>1, Bounds, EndRunEffect DEF Types, TypeOK
  <2> QED BY <1>4, <1>0, <1>a, <2>3, <2>4, Bounds, EndRunEffect DEF Types, TypeOK
<1>5. ASSUME NEW c \in Calls, AutoSubscribe(c) \/ Announced(c) PROVE Types'
  BY <1>5, <1>0, <1>a, Bounds, UninvitedEffect DEF Types, TypeOK, IsEvent, logVars, boundVars,
          Others
<1>6. ASSUME NEW c \in Calls, ListRuns(c) PROVE Types'
  BY <1>6, <1>0, <1>a, Bounds, ListRunsEffect DEF Types, TypeOK, IsEvent, logVars, boundVars,
          Others
<1>7. ASSUME NEW c \in Calls, ReadMeta(c) PROVE Types'
  BY <1>7, <1>0, <1>a, Bounds, ReadMetaEffect DEF Types, TypeOK, IsEvent, logVars, boundVars
<1>8. ASSUME NEW c \in Calls, ReadLog(c) PROVE Types'
  BY <1>8, <1>0, <1>a, Bounds, ReadLogEffect DEF Types, TypeOK, IsEvent, logVars, boundVars,
          Others
<1>9. ASSUME NEW c \in Calls, CatchUp(c) PROVE Types'
  <2>1. PICK s \in Seq(Messages), d \in Nat :
           /\ wire' = wire \o s /\ drops' \in 0..MaxDrops
           /\ SnapshotThenRecords(c, s, d)
    BY <1>9, CatchUpEffect
  <2>2. \A k \in DOMAIN s : s[k].type = "event" => s[k].seq > 0
    <3>1. Base0(c) \in Nat /\ stored \in Nat
      BY <1>9, CatchUpEffect, InvBounds, LogInv
    <3> QED BY <2>1, <3>1 DEF Event, Sync, SnapshotThenRecords
  <2>3. wire' \in Seq(Messages) /\ \A i \in DOMAIN wire' : IsEvent(i)' => wire'[i].seq > 0
    BY <2>1, <2>2, WireGrows DEF IsEvent, Types
  <2>4. subs' \in Calls => calls'[subs'].pc = "live"
    <3>1. CASE Active
      BY <1>9, <3>1, CatchUpEffect DEF Living, NoCall
    <3>2. CASE ~Active
      BY <1>9, <3>2, Bounds, CatchUpEffect
    <3> QED BY <3>1, <3>2
  <2> QED BY <1>9, <1>0, <1>a, <2>1, <2>3, <2>4, Bounds, CatchUpEffect DEF Types, TypeOK, logVars
<1>10. ASSUME NEW c \in Calls, Reread(c) PROVE Types'
  BY <1>10, <1>0, <1>a, Bounds, RereadEffect DEF Types, TypeOK, IsEvent, logVars, boundVars,
          Others
<1>11. ASSUME NEW c \in Calls, SendFinished(c) PROVE Types'
  <2>1. PICK s \in Seq(Messages) : wire' = wire \o s /\ Len(s) = 1 /\ s[1] = Sync(stored, FALSE)
    BY <1>11, SendFinishedEffect
  <2>2. \A k \in DOMAIN s : s[k].type # "event"
    <3>1. DOMAIN s = {1}
      BY <2>1, LenProperties
    <3> QED BY <2>1, <3>1 DEF Sync
  <2>3. wire' = wire \o s
    BY <2>1
  <2>4. wire' \in Seq(Messages) /\ \A i \in DOMAIN wire' : IsEvent(i)' => wire'[i].seq > 0
    BY <2>2, <2>3, WireGrows DEF IsEvent, Types
  <2> QED BY <1>11, <1>0, <1>a, <2>4, Bounds, SendFinishedEffect DEF Types, TypeOK, logVars, boundVars
<1>12. CASE Heard
  <2>1. wire' \in Seq(Messages) /\ \A i \in DOMAIN wire' : IsEvent(i)' => wire'[i].seq > 0
    BY <1>12, ReceiveEffect, WireShrinks DEF Heard, IsEvent, Types
  <2> QED BY <1>12, <1>0, <1>a, <2>1, Bounds, ReceiveEffect DEF Heard, Types, TypeOK, logVars, boundVars
<1>13. CASE ReceiveGap
  <2>1. wire' \in Seq(Messages) /\ \A i \in DOMAIN wire' : IsEvent(i)' => wire'[i].seq > 0
    BY <1>13, WireShrinks DEF ReceiveGap, IsEvent, Types
  <2>2. calls' \in [Calls -> CallStates] /\ (subs \in Calls => calls'[subs].pc = "live")
    BY <1>13, <1>0, ReceiveGapEffect DEF Types, TypeOK, NoCall
  <2> QED BY <1>13, <1>0, <1>a, <2>1, <2>2, Bounds, ReceiveGapEffect DEF Types, TypeOK, logVars,
                  boundVars
<1>14. CASE OpenThread
  <2>1. calls' \in [Calls -> CallStates] /\ (subs \in Calls => calls'[subs].pc = "live")
    BY <1>14, OpenThreadEffect, AskingTyped DEF Types, TypeOK, NoCall
  <2> QED BY <1>14, <1>0, <1>a, <2>1, Bounds, OpenThreadEffect DEF Types, TypeOK, IsEvent,
                  logVars, boundVars
<1>15. CASE Reconnect \/ Restart
  <2>1. wire' \in Seq(Messages) /\ DOMAIN wire' = {}
    <3>1. wire' = <<>>
      BY <1>15, NewSocketEffect
    <3> QED BY <3>1
  <2>2. torn' \in BOOLEAN
    BY <1>15, NewSocketEffect DEF Reconnect, Restart, NewSocket
  <2> QED BY <1>15, <1>0, <1>a, <2>1, <2>2, Bounds, NewSocketEffect DEF Types, TypeOK
<1> QED BY <1>1, <1>2, <1>3, <1>4, <1>5, <1>6, <1>7, <1>8, <1>9, <1>10, <1>11, <1>12, <1>13, <1>14,
           <1>15, StepCases


\* What was on its way is stored, or still is.
LEMMA StoreAppends ==
  ASSUME LogInv, Store
  PROVE  \A n \in ToSet(appends) : n = stored' \/ n \in ToSet(appends')
<1>1. appends # <<>> /\ stored' = Head(appends) /\ appends' = Tail(appends)
  BY DEF Store, StoreAppend
<1>2. /\ Head(appends) = appends[1] /\ Len(appends') = Len(appends) - 1
      /\ \A i \in 1..(Len(appends) - 1) : appends'[i] = appends[i + 1]
      /\ DOMAIN appends' = 1..(Len(appends) - 1)
  BY <1>1, InvBounds, HeadTailProperties, LenProperties
<1>3. ASSUME NEW i \in DOMAIN appends, i # 1 PROVE appends[i] \in ToSet(appends')
  <2>1. i - 1 \in DOMAIN appends' /\ appends'[i - 1] = appends[(i - 1) + 1] /\ (i - 1) + 1 = i
    BY <1>2, <1>3, InvBounds
  <2> QED BY <2>1 DEF ToSet
<1> QED BY <1>1, <1>2, <1>3 DEF ToSet

\* The count runs ahead of the log by appends in flight only.
LEMMA CountedStep ==
  ASSUME LogInv, LogInv', Types, Kinds, Before, Unasked, CountedOnItsWay, [Next]_vars
  PROVE  CountedOnItsWay'
<1>1. CASE OpenRun
  BY <1>1, OpenRunEffect DEF CountedOnItsWay, Active
<1>2. CASE LogMove
  BY <1>2, LogMoveEffect DEF CountedOnItsWay, Active, LogMove
<1>3. CASE Store
  <2>1. \A n \in ToSet(appends) : stored < n
    BY InvBounds DEF LogInv, InFlight, ToSet
  <2>2. stored' \in ToSet(appends)
    <3>1. appends # <<>> /\ stored' = Head(appends) /\ appends \in Seq(1..MaxEvents)
      BY <1>3, StoreEffect, InvBounds
    <3>2. 1 \in DOMAIN appends /\ appends[1] = Head(appends)
      BY <3>1
    <3> QED BY <3>1, <3>2 DEF ToSet
  <2>3. counted \in Int /\ stored \in Int
    BY InvBounds
  <2> QED BY <1>3, <2>1, <2>2, <2>3, StoreEffect, StoreAppends DEF CountedOnItsWay, Active
<1>4. CASE EndRun
  BY <1>4, EndRunEffect DEF CountedOnItsWay, Active
<1>5. ASSUME NEW c \in Calls, AutoSubscribe(c) \/ Announced(c) PROVE CountedOnItsWay'
  BY <1>5, UninvitedEffect DEF CountedOnItsWay, Active, logVars, boundVars, Others
<1>6. ASSUME NEW c \in Calls, ListRuns(c) PROVE CountedOnItsWay'
  BY <1>6, ListRunsEffect DEF CountedOnItsWay, Active, logVars, boundVars, Others
<1>7. ASSUME NEW c \in Calls, ReadMeta(c) PROVE CountedOnItsWay'
  BY <1>7, ReadMetaEffect DEF CountedOnItsWay, Active, logVars, boundVars
<1>8. ASSUME NEW c \in Calls, ReadLog(c) PROVE CountedOnItsWay'
  BY <1>8, ReadLogEffect DEF CountedOnItsWay, Active, logVars, boundVars, Others
<1>9. ASSUME NEW c \in Calls, CatchUp(c) PROVE CountedOnItsWay'
  BY <1>9, CatchUpEffect DEF CountedOnItsWay, Active, logVars
<1>10. ASSUME NEW c \in Calls, Reread(c) PROVE CountedOnItsWay'
  BY <1>10, RereadEffect DEF CountedOnItsWay, Active, logVars, boundVars, Others
<1>11. ASSUME NEW c \in Calls, SendFinished(c) PROVE CountedOnItsWay'
  BY <1>11, SendFinishedEffect DEF CountedOnItsWay, Active, logVars, boundVars, Others
<1>12. CASE Heard
  BY <1>12, ReceiveEffect DEF CountedOnItsWay, Active, logVars, boundVars, Heard
<1>13. CASE ReceiveGap
  BY <1>13, ReceiveGapEffect DEF CountedOnItsWay, Active, logVars, boundVars
<1>14. CASE OpenThread
  BY <1>14, OpenThreadEffect DEF CountedOnItsWay, Active, logVars, boundVars
<1>15. CASE Reconnect \/ Restart
  BY <1>15, NewSocketEffect DEF CountedOnItsWay, Active, logVars
<1> QED BY <1>1, <1>2, <1>3, <1>4, <1>5, <1>6, <1>7, <1>8, <1>9, <1>10, <1>11, <1>12, <1>13, <1>14,
           <1>15, StepCases

\* Every step leaves each activation what it is.
LEMMA KindsStep ==
  ASSUME LogInv, LogInv', Types, Types', Kinds, Before, Unasked, [Next]_vars
  PROVE  Kinds'
<1> SUFFICES ASSUME NEW d \in Calls PROVE Fits(calls'[d], Active')
  BY DEF Kinds
<1>0. /\ calls \in [Calls -> CallStates] /\ \A e \in Calls : calls[e] \in CallStates
      /\ calls' \in [Calls -> CallStates] /\ \A e \in Calls : calls'[e] \in CallStates
  BY DEF Types
<1>a. NoCall.pc = "idle" /\ ~NoCall.explicit /\ NoCall.mode = "catchUp" /\ NoCall.cursor = 0 /\ NoCall.seen = 0
  BY DEF NoCall
<1>b. \A e \in Calls : Fits(calls[e], Active)
  BY DEF Kinds
<1>1. CASE OpenRun
  BY <1>1, <1>0, <1>a, <1>b, OpenRunEffect, NoCallTyped DEF Fits, Active, Before, Asked, Sending,
          Watching, NoCall
<1>2. CASE LogMove
  BY <1>2, <1>a, <1>b, LogMoveEffect DEF Fits, Active, LogMove
<1>3. CASE Store
  BY <1>3, <1>a, <1>b, StoreEffect DEF Fits, Active
<1>4. CASE EndRun
  BY <1>4, <1>a, <1>b, EndRunEffect DEF Fits, Active
<1>5. ASSUME NEW c \in Calls, AutoSubscribe(c) \/ Announced(c) PROVE Fits(calls'[d], Active')
  <2>1. CASE d # c
    BY <1>5, <2>1, <1>a, <1>b, UninvitedEffect DEF Fits, Active, logVars, boundVars, Others
  <2>2. CASE d = c
    BY <1>5, <2>2, <1>a, UninvitedEffect DEF Fits, Active, logVars, boundVars, Others
  <2> QED BY <2>1, <2>2
<1>6. ASSUME NEW c \in Calls, ListRuns(c) PROVE Fits(calls'[d], Active')
  <2>1. CASE d # c
    BY <1>6, <2>1, <1>a, <1>b, ListRunsEffect DEF Fits, Active, Kept, logVars, boundVars,
            Others
  <2>2. CASE d = c
    BY <1>6, <2>2, <1>a, <1>b, ListRunsEffect DEF Fits, Active, Kept, logVars, boundVars,
            Others
  <2> QED BY <2>1, <2>2
<1>7. ASSUME NEW c \in Calls, ReadMeta(c) PROVE Fits(calls'[d], Active')
  <2>1. CASE d # c
    BY <1>7, <2>1, <1>a, <1>b, ReadMetaEffect DEF Fits, Active, Kept, logVars, boundVars
  <2>2. CASE d = c
    BY <1>7, <2>2, <1>a, <1>b, ReadMetaEffect DEF Fits, Active, Kept, logVars, boundVars
  <2> QED BY <2>1, <2>2
<1>8. ASSUME NEW c \in Calls, ReadLog(c) PROVE Fits(calls'[d], Active')
  <2>1. CASE d # c
    BY <1>8, <2>1, <1>a, <1>b, ReadLogEffect DEF Fits, Active, logVars, boundVars, Others
  <2>2. CASE d = c
    BY <1>8, <2>2, <1>a, <1>b, ReadLogEffect DEF Fits, Active, logVars, boundVars, Others
  <2> QED BY <2>1, <2>2
<1>9. ASSUME NEW c \in Calls, CatchUp(c) PROVE Fits(calls'[d], Active')
  <2>1. CASE d # c
    BY <1>9, <2>1, <1>a, <1>b, CatchUpEffect DEF Fits, Active, Living, NoCall, logVars
  <2>2. CASE d = c
    BY <1>9, <2>2, <1>a, <1>b, CatchUpEffect DEF Fits, Active, Living, NoCall, logVars
  <2> QED BY <2>1, <2>2
<1>10. ASSUME NEW c \in Calls, Reread(c) PROVE Fits(calls'[d], Active')
  <2>1. CASE d # c
    BY <1>10, <2>1, <1>a, <1>b, RereadEffect DEF Fits, Active, Kept, logVars, boundVars,
            Others
  <2>2. CASE d = c
    BY <1>10, <2>2, <1>a, <1>b, RereadEffect DEF Fits, Active, Kept, logVars, boundVars,
            Others
  <2> QED BY <2>1, <2>2
<1>11. ASSUME NEW c \in Calls, SendFinished(c) PROVE Fits(calls'[d], Active')
  <2>1. CASE d # c
    BY <1>11, <2>1, <1>a, <1>b, SendFinishedEffect DEF Fits, Active, logVars, boundVars,
            Others
  <2>2. CASE d = c
    BY <1>11, <2>2, <1>a, SendFinishedEffect DEF Fits, Active, logVars, boundVars,
            Others
  <2> QED BY <2>1, <2>2
<1>12. CASE Heard
  BY <1>12, <1>a, <1>b, ReceiveEffect DEF Fits, Active, logVars, boundVars, Heard
<1>13. CASE ReceiveGap
  BY <1>13, <1>0, <1>a, <1>b, ReceiveGapEffect DEF Fits, Active, logVars, boundVars
<1>14. CASE OpenThread
  BY <1>14, <1>0, <1>a, <1>b, OpenThreadEffect, AskingTyped DEF Fits, Active, logVars, boundVars
<1>15. CASE Reconnect \/ Restart
  BY <1>15, <1>a, NewSocketEffect, AskingTyped DEF Fits, Active, logVars
<1> QED BY <1>1, <1>2, <1>3, <1>4, <1>5, <1>6, <1>7, <1>8, <1>9, <1>10, <1>11, <1>12, <1>13, <1>14,
           <1>15, StepCases


\* What `subs` holds.
LEMMA Apart == Empty \notin Calls /\ Reserved \notin Calls /\ Empty # Reserved
BY Bounds

\* An activation's fields.
LEMMA CallFields ==
  ASSUME NEW call \in CallStates
  PROVE  /\ call.pc \in Phases /\ call.mode \in Modes /\ call.explicit \in BOOLEAN
         /\ call.cursor \in Nat /\ call.least \in Nat /\ call.seen \in Nat
BY Bounds DEF CallStates

LEMMA NoCallFields ==
  /\ NoCall.pc = "idle" /\ ~NoCall.explicit /\ NoCall.mode = "catchUp"
  /\ NoCall.cursor = 0 /\ NoCall.seen = 0
BY DEF NoCall

\* Before the run nothing is served.
LEMMA BeforeStep ==
  ASSUME LogInv, LogInv', Types, Types', Kinds, Before, Unasked, Reach, [Next]_vars
  PROVE  Before'
<1>0. /\ calls \in [Calls -> CallStates] /\ \A e \in Calls : calls[e] \in CallStates
      /\ calls' \in [Calls -> CallStates] /\ \A e \in Calls : calls'[e] \in CallStates
      /\ wire \in Seq(Messages) /\ cursor \in {Unknown} \cup 0..MaxEvents
      /\ {claimed, watching, tracked} \subseteq BOOLEAN
  BY DEF Types, TypeOK
<1>1. CASE OpenRun
  BY <1>1, OpenRunEffect DEF Before, Asked
<1>2. CASE LogMove
  BY <1>2, LogMoveEffect DEF Before, Asked, Active, LogMove
<1>3. CASE Store
  BY <1>3, StoreEffect DEF Before, Asked
<1>4. CASE EndRun
  BY <1>4, EndRunEffect DEF Before, Asked
<1>5. ASSUME NEW c \in Calls, AutoSubscribe(c) \/ Announced(c) PROVE Before'
  BY <1>5, UninvitedEffect DEF Before, Asked, logVars, boundVars,
          Others
<1>6. ASSUME NEW c \in Calls, ListRuns(c) PROVE Before'
  <2>1. /\ calls[c].pc = "authz" /\ calls'[c].pc = "listed" /\ calls'[c].cursor = calls[c].cursor
        /\ calls'[c].found = (run \notin {"none", "lost"}) /\ \A e \in Calls \ {c} : calls'[e] = calls[e]
        /\ UNCHANGED <<run, subs, watching, wire, cursor, view, tracked, claimed>>
    BY <1>6, ListRunsEffect DEF Kept, logVars, Others
  <2>2. run = "none" => /\ calls[c].cursor = 0 /\ claimed /\ ~watching
                        /\ \A e \in Calls \ {c} : calls[e].pc = "idle"
    BY <2>1 DEF Before
  <2> QED BY <2>1, <2>2 DEF Before, Asked
<1>7. ASSUME NEW c \in Calls, ReadMeta(c) PROVE Before'
  BY <1>7, NoCallFields, ReadMetaEffect DEF Before, Asked, Kept, Active,
          logVars, boundVars
<1>8. ASSUME NEW c \in Calls, ReadLog(c) PROVE Before'
  BY <1>8, ReadLogEffect DEF Before, Asked, logVars, boundVars,
          Others
<1>9. ASSUME NEW c \in Calls, CatchUp(c) PROVE Before'
  BY <1>9, CatchUpEffect DEF Before, Asked, Active, logVars
<1>10. ASSUME NEW c \in Calls, Reread(c) PROVE Before'
  BY <1>10, RereadEffect DEF Before, Asked, Kept, Active,
          logVars, boundVars, Others
<1>11. ASSUME NEW c \in Calls, SendFinished(c) PROVE Before'
  BY <1>11, SendFinishedEffect DEF Before, Asked, logVars,
          boundVars, Others
<1>12. CASE Heard
  BY <1>12, ReceiveEffect DEF Before, Asked, logVars, boundVars,
          Heard, Receive
<1>13. CASE ReceiveGap
  BY <1>13, ReceiveGapEffect DEF Before, Asked, logVars,
          boundVars, Receive
<1>14. CASE OpenThread
  <2>1. PICK c \in Calls : calls[c] = NoCall /\ calls' = [calls EXCEPT ![c] = Asking]
    BY <1>14, OpenThreadEffect
  <2>2. calls'[c] = Asking /\ \A e \in Calls \ {c} : calls'[e] = calls[e]
    BY <1>0, <2>1
  <2>3. /\ \A e \in Calls : calls[e].pc = "idle"
        /\ wire = <<>> /\ ~watching /\ claimed'
        /\ UNCHANGED <<run, role, subs, watching, wire, cursor, view, tracked>>
    BY <1>14, OpenThreadEffect DEF Unasked, logVars
  <2>4. Asking.pc = "authz" /\ ~Asking.found /\ (run = "none" => Asking.cursor = 0)
    BY AskingTyped DEF Before
  <2> QED BY <1>0, <2>1, <2>2, <2>3, <2>4 DEF Before, Asked
<1>15. CASE Reconnect \/ Restart
  <2>1. run' = "none" => /\ run = "none" /\ cursor' = Unknown /\ cursor = Unknown
                         /\ UNCHANGED <<cursor, view, tracked, claimed>>
    BY <1>15, NewSocketEffect DEF Before, Active, logVars
  <2>2. run = "none" => Asking.cursor = 0
    BY AskingTyped DEF Before
  <2> QED BY <1>15, <2>1, <2>2, NoCallFields, NewSocketEffect, AskingTyped DEF Before, Asked, logVars
<1> QED BY <1>1, <1>2, <1>3, <1>4, <1>5, <1>6, <1>7, <1>8, <1>9, <1>10, <1>11, <1>12, <1>13, <1>14,
           <1>15, StepCases

\* A socket nobody has asked anything of stays untouched.
LEMMA UnaskedStep ==
  ASSUME LogInv, LogInv', Types, Types', Kinds, Before, Unasked, Reach, [Next]_vars
  PROVE  Unasked'
<1>1. CASE OpenRun
  BY <1>1, OpenRunEffect DEF Unasked
<1>2. CASE LogMove
  BY <1>2, LogMoveEffect DEF Unasked, LogMove
<1>3. CASE Store
  <2>1. CASE claimed
    BY <1>3, <2>1, StoreEffect DEF Unasked
  <2>2. CASE ~claimed
    <3>1. Tapped = {} /\ wire = <<>>
      BY <2>2 DEF Unasked, Tapped
    <3>2. wire' = <<>>
      BY <1>3, <3>1, StoreEffect
    <3> QED BY <1>3, <2>2, <3>2, StoreEffect DEF Unasked
  <2> QED BY <2>1, <2>2
<1>4. CASE EndRun
  <2>1. CASE claimed
    BY <1>4, <2>1, EndRunEffect DEF Unasked
  <2>2. CASE ~claimed
    <3>1. Tapped = {} /\ wire = <<>> /\ Cardinality(Tapped) = 0
      BY <2>2, CountTapped DEF Unasked, Tapped
    <3>2. wire' = <<>>
      BY <1>4, <3>1, EndRunEffect, EmptySeq
    <3> QED BY <1>4, <2>2, <3>2, EndRunEffect DEF Unasked
  <2> QED BY <2>1, <2>2
<1>5. ASSUME NEW c \in Calls, AutoSubscribe(c) \/ Announced(c) PROVE Unasked'
  BY <1>5, UninvitedEffect DEF Unasked, logVars, boundVars, Others
<1>6. ASSUME NEW c \in Calls, ListRuns(c) PROVE Unasked'
  BY <1>6, ListRunsEffect DEF Unasked, Kept, logVars, boundVars, Others
<1>7. ASSUME NEW c \in Calls, ReadMeta(c) PROVE Unasked'
  BY <1>7, ReadMetaEffect DEF Unasked, Kept, logVars, boundVars
<1>8. ASSUME NEW c \in Calls, ReadLog(c) PROVE Unasked'
  BY <1>8, ReadLogEffect DEF Unasked, logVars, boundVars, Others
<1>9. ASSUME NEW c \in Calls, CatchUp(c) PROVE Unasked'
  BY <1>9, CatchUpEffect DEF Unasked, logVars
<1>10. ASSUME NEW c \in Calls, Reread(c) PROVE Unasked'
  BY <1>10, RereadEffect DEF Unasked, Kept, logVars, boundVars, Others
<1>11. ASSUME NEW c \in Calls, SendFinished(c) PROVE Unasked'
  BY <1>11, SendFinishedEffect DEF Unasked, logVars, boundVars, Others
<1>12. CASE Heard
  BY <1>12, ReceiveEffect DEF Unasked, logVars, boundVars, Heard,
          Receive
<1>13. CASE ReceiveGap
  BY <1>13, ReceiveGapEffect DEF Unasked, logVars, boundVars, Receive
<1>14. CASE OpenThread
  BY <1>14, OpenThreadEffect DEF Unasked, logVars, boundVars
<1>15. CASE Reconnect \/ Restart
  BY <1>15, NoCallFields, NewSocketEffect DEF Unasked, logVars
<1> QED BY <1>1, <1>2, <1>3, <1>4, <1>5, <1>6, <1>7, <1>8, <1>9, <1>10, <1>11, <1>12, <1>13, <1>14,
           <1>15, StepCases

\* Until somebody serves the socket nothing is sent on it.
LEMMA UnservedStep ==
  ASSUME LogInv, LogInv', Types, Types', Kinds, Before, Unasked, Reach, Unserved, [Next]_vars
  PROVE  Unserved'
<1>0. /\ calls \in [Calls -> CallStates] /\ \A e \in Calls : calls[e] \in CallStates
      /\ calls' \in [Calls -> CallStates] /\ \A e \in Calls : calls'[e] \in CallStates
      /\ wire \in Seq(Messages) /\ cursor \in {Unknown} \cup 0..MaxEvents
      /\ {claimed, watching, tracked} \subseteq BOOLEAN
  BY DEF Types, TypeOK
<1>1. CASE OpenRun
  BY <1>1, OpenRunEffect, NoCallTyped DEF Unserved, Serving, Reading,
          Tapped, Uninvited, Active, Before, Asked, Sending, Watching, NoCall
<1>2. CASE LogMove
  BY <1>2, LogMoveEffect DEF Unserved, Serving, Reading, Tapped,
          Uninvited, Active, LogMove
<1>3. CASE Store
  BY <1>3, StoreEffect DEF Unserved, Serving, Reading, Tapped,
          Uninvited, Active
<1>4. CASE EndRun
  BY <1>4, EndRunEffect DEF Unserved, Serving, Reading, Tapped,
          Uninvited, Active
<1>5. ASSUME NEW c \in Calls, AutoSubscribe(c) \/ Announced(c) PROVE Unserved'
  BY <1>5, Apart, UninvitedEffect DEF Unserved, Serving, Reading, Tapped, Uninvited, Active, logVars, boundVars, Others
<1>6. ASSUME NEW c \in Calls, ListRuns(c) PROVE Unserved'
  BY <1>6, ListRunsEffect DEF Unserved, Serving, Reading, Tapped,
          Uninvited, Active, Kept, logVars, boundVars, Others
<1>7. ASSUME NEW c \in Calls, ReadMeta(c) PROVE Unserved'
  BY <1>7, NoCallFields, Apart, ReadMetaEffect DEF Unserved, Serving, Reading, Tapped,
          Uninvited, Active, Kept, logVars, boundVars
<1>8. ASSUME NEW c \in Calls, ReadLog(c) PROVE Unserved'
  BY <1>8, ReadLogEffect DEF Unserved, Serving, Reading, Tapped,
          Uninvited, Active, logVars, boundVars, Others
<1>9. ASSUME NEW c \in Calls, CatchUp(c) PROVE Unserved'
  BY <1>9, Apart, CatchUpEffect DEF Unserved, Serving, Reading, Tapped,
          Uninvited, Active, logVars
<1>10. ASSUME NEW c \in Calls, Reread(c) PROVE Unserved'
  BY <1>10, RereadEffect DEF Unserved, Serving, Reading, Tapped,
          Uninvited, Active, Kept, logVars, boundVars, Others
<1>11. ASSUME NEW c \in Calls, SendFinished(c) PROVE Unserved'
  BY <1>11, SendFinishedEffect DEF Unserved, Serving, Reading, Tapped, Uninvited, Active, logVars, boundVars, Others, Kinds, Fits
<1>12. CASE Heard
  BY <1>12, ReceiveEffect DEF Unserved, Serving, Reading, Tapped,
          Uninvited, Active, logVars, boundVars, Heard, Receive
<1>13. CASE ReceiveGap
  BY <1>13, ReceiveGapEffect DEF Unserved, Serving, Reading, Tapped, Uninvited, Active, logVars, boundVars, Receive
<1>14. CASE OpenThread
  <2>1. PICK c \in Calls : calls[c] = NoCall /\ calls' = [calls EXCEPT ![c] = Asking]
    BY <1>14, OpenThreadEffect
  <2>2. calls'[c] = Asking /\ \A e \in Calls \ {c} : calls'[e] = calls[e]
    BY <1>0, <2>1
  <2>3. /\ \A e \in Calls : calls[e].pc = "idle"
        /\ wire = <<>> /\ ~watching /\ claimed'
        /\ UNCHANGED <<run, role, subs, watching, wire, cursor, view, tracked>>
    BY <1>14, OpenThreadEffect DEF Unasked, logVars
  <2>4. Asking.pc = "authz" /\ Asking.explicit /\ ~Asking.found
    BY AskingTyped
  <2>5. \A e \in Calls : ~calls[e].explicit
    BY <2>3, NoCallFields DEF Kinds, Fits
  <2> QED BY <2>1, <2>2, <2>3, <2>4, <2>5 DEF Unserved, Serving, Reading, Tapped, Uninvited,
                  Active
<1>15. CASE Reconnect \/ Restart
  BY <1>15, NoCallFields, NewSocketEffect, AskingTyped DEF Unserved, Serving,
          Reading, Tapped, Uninvited, Active, logVars
<1> QED BY <1>1, <1>2, <1>3, <1>4, <1>5, <1>6, <1>7, <1>8, <1>9, <1>10, <1>11, <1>12, <1>13, <1>14,
           <1>15, StepCases


\* Nobody is ahead of the log, unless it was lost.
LEMMA ReachStep ==
  ASSUME LogInv, LogInv', Types, Types', Kinds, Before, Unasked, Reach, [Next]_vars
  PROVE  Reach'
<1>0. /\ calls \in [Calls -> CallStates] /\ \A e \in Calls : calls[e] \in CallStates
      /\ calls' \in [Calls -> CallStates] /\ \A e \in Calls : calls'[e] \in CallStates
      /\ wire \in Seq(Messages) /\ cursor \in {Unknown} \cup 0..MaxEvents
      /\ wire' \in Seq(Messages)
  BY DEF Types, TypeOK
<1>t. \A e \in Calls : /\ calls[e].cursor \in Nat /\ calls[e].seen \in Nat /\ calls[e].least \in Nat
                       /\ calls'[e].cursor \in Nat /\ calls'[e].seen \in Nat /\ calls'[e].least \in Nat
  BY <1>0, CallFields
<1>s. stored \in Nat /\ counted \in Nat
  BY InvBounds
<1>m. /\ cursor \in Int /\ (cursor < 0 => cursor = Unknown)
      /\ \A i \in DOMAIN wire : wire[i].seq \in Nat
  <2>1. \A m \in Messages : m.seq \in Nat
    BY Bounds DEF Messages
  <2> QED BY <1>0, <2>1, WireIndexed, Bounds DEF Unknown
<1>1. CASE OpenRun
  BY <1>1, <1>t, Apart, OpenRunEffect, NoCallTyped DEF Reach,
          Asked, Sending, Watching, NoCall
<1>2. CASE LogMove
  BY <1>2, <1>t, LogMoveEffect DEF Reach, Asked, LogMove
<1>3. CASE Store
  <2>1. PICK s \in Seq(Messages) : wire' = wire \o s /\ \A k \in DOMAIN s : \E r \in (stored + 1)..stored' : s[k] = Event(r)
    BY <1>3, StoreEffect
  <2>2. \A k \in DOMAIN s : s[k].seq <= stored'
    BY <1>3, <2>1, StoreEffect DEF Event
  <2>3. run # "lost"
    BY <1>3, StoreEffect
  <2>4. \A i \in DOMAIN wire' : wire'[i].seq <= stored'
    <3>1. stored <= stored' /\ stored' \in Nat
      BY <1>s, <1>3, StoreEffect
    <3>2. \A i \in DOMAIN wire' :
            \/ i \in DOMAIN wire /\ wire'[i] = wire[i]
            \/ \E k \in DOMAIN s : wire'[i] = s[k]
      BY <1>0, <2>1, WireGrows
    <3>3. \A i \in DOMAIN wire : wire[i].seq <= stored
      BY <2>3 DEF Reach
    <3> QED BY <1>s, <1>m, <2>2, <3>1, <3>2, <3>3
  <2> QED BY <1>3, <1>t, <1>s, <1>m, <2>3, <2>4, StoreEffect DEF Reach, Asked
<1>4. CASE EndRun
  <2>1. PICK s \in Seq(Messages) : wire' = wire \o s /\ \A k \in DOMAIN s : s[k] = Ended
    BY <1>4, EndRunEffect
  <2>2. \A k \in DOMAIN s : s[k].seq <= stored'
    BY <1>4, <1>s, <2>1, EndRunEffect DEF Ended
  <2>3. run # "lost"
    BY <1>4, EndRunEffect
  <2>4. \A i \in DOMAIN wire' : wire'[i].seq <= stored'
    <3>1. stored <= stored' /\ stored' \in Nat
      BY <1>s, <1>4, EndRunEffect
    <3>2. \A i \in DOMAIN wire' :
            \/ i \in DOMAIN wire /\ wire'[i] = wire[i]
            \/ \E k \in DOMAIN s : wire'[i] = s[k]
      BY <1>0, <2>1, WireGrows
    <3>3. \A i \in DOMAIN wire : wire[i].seq <= stored
      BY <2>3 DEF Reach
    <3> QED BY <1>s, <1>m, <2>2, <3>1, <3>2, <3>3
  <2>5. /\ run' # "lost" /\ stored' = stored /\ cursor' = cursor /\ view' = view
        /\ \A c \in Calls : calls'[c] = NoCall \/ calls'[c] = calls[c]
    BY <1>4, EndRunEffect
  <2>6. \A c \in Calls : calls'[c].cursor <= stored' /\ calls'[c].seen <= stored'
    BY <1>s, <2>3, <2>5, NoCallFields DEF Reach
  <2> QED BY <2>3, <2>4, <2>5, <2>6 DEF Reach
<1>5. ASSUME NEW c \in Calls, AutoSubscribe(c) \/ Announced(c) PROVE Reach'
  BY <1>5, <1>t, NoCallFields, UninvitedEffect DEF Reach, Asked, logVars,
          boundVars, Others
<1>6. ASSUME NEW c \in Calls, ListRuns(c) PROVE Reach'
  <2>1. /\ UNCHANGED <<run, stored, wire, cursor, view>> /\ calls[c].pc = "authz" /\ calls'[c].pc = "listed"
        /\ \A e \in Calls \ {c} : calls'[e] = calls[e]
        /\ Kept(c) /\ (run = "lost" => ~calls'[c].found)
    BY <1>6, ListRunsEffect DEF logVars, Others
  <2> QED BY <1>s, <2>1 DEF Reach, Asked, Kept
<1>7. ASSUME NEW c \in Calls, ReadMeta(c) PROVE Reach'
  <2>1. /\ UNCHANGED <<run, stored, wire, cursor, view>> /\ calls[c].pc = "listed"
        /\ \A e \in Calls \ {c} : calls'[e] = calls[e] \/ calls'[e] = NoCall
    BY <1>7, ReadMetaEffect DEF logVars
  <2>2. calls'[c] = NoCall \/ (Kept(c) /\ calls[c].found)
    BY <1>7, ReadMetaEffect
  <2> QED BY <1>s, <2>1, <2>2, NoCallFields DEF Reach, Asked, Kept
<1>8. ASSUME NEW c \in Calls, ReadLog(c) PROVE Reach'
  <2>1. /\ UNCHANGED <<run, stored, wire, cursor, view>> /\ calls[c].pc = "read"
        /\ \A e \in Calls \ {c} : calls'[e] = calls[e]
        /\ calls'[c].cursor = calls[c].cursor /\ calls'[c].seen = stored
    BY <1>8, ReadLogEffect DEF logVars, Others
  <2> QED BY <1>s, <2>1 DEF Reach, Asked
<1>9. ASSUME NEW c \in Calls, CatchUp(c) PROVE Reach'
  <2>0. /\ Base0(c) \in Nat /\ Base0(c) <= stored /\ calls[c].pc = "status" /\ stored' = stored /\ run' = run
        /\ UNCHANGED <<cursor, view>> /\ \A e \in Calls \ {c} : calls'[e] = calls[e]
        /\ calls'[c].cursor = 0 /\ calls'[c].seen = 0
    BY <1>9, NoCallFields, CatchUpEffect DEF logVars, Living, NoCall
  <2>1. PICK s \in Seq(Messages), d \in Nat : wire' = wire \o s /\ SnapshotThenRecords(c, s, d)
    BY <1>9, CatchUpEffect
  <2>2. \A k \in DOMAIN s : s[k].seq <= stored'
    BY <2>0, <2>1 DEF SnapshotThenRecords, Event, Sync
  <2>3. run # "lost"
    BY <2>0 DEF Reach, Asked
  <2>4. \A i \in DOMAIN wire' : wire'[i].seq <= stored'
    BY <2>0, <2>1, <2>2, <2>3, WireGrows DEF Reach
  <2> QED BY <1>t, <1>s, <2>0, <2>3, <2>4 DEF Reach
<1>10. ASSUME NEW c \in Calls, Reread(c) PROVE Reach'
  <2>1. /\ UNCHANGED <<run, stored, wire, cursor, view>> /\ calls[c].pc = "status"
        /\ \A e \in Calls \ {c} : calls'[e] = calls[e]
        /\ Kept(c)
    BY <1>10, RereadEffect DEF logVars, Others
  <2> QED BY <1>s, <2>1 DEF Reach, Asked, Kept
<1>11. ASSUME NEW c \in Calls, SendFinished(c) PROVE Reach'
  <2>0. /\ calls[c].pc = "reread" /\ stored' = stored /\ run' = run
        /\ UNCHANGED <<cursor, view>> /\ \A e \in Calls \ {c} : calls'[e] = calls[e]
        /\ calls'[c] = NoCall
    BY <1>11, SendFinishedEffect DEF logVars, Others
  <2>1. PICK s \in Seq(Messages) : wire' = wire \o s /\ Len(s) = 1 /\ s[1] = Sync(stored, FALSE)
    BY <1>11, SendFinishedEffect
  <2>2. \A k \in DOMAIN s : s[k].seq <= stored'
    <3>1. DOMAIN s = {1}
      BY <2>1, LenProperties
    <3> QED BY <1>s, <2>0, <2>1, <3>1 DEF Sync
  <2>3. run # "lost"
    BY <2>0 DEF Reach, Asked
  <2>5. wire' = wire \o s
    BY <2>1
  <2>4. \A i \in DOMAIN wire' : wire'[i].seq <= stored'
    BY <2>0, <2>2, <2>3, <2>5, WireGrows DEF Reach
  <2> QED BY <1>t, <1>s, <1>m, <2>0, <2>3, <2>4, NoCallFields DEF Reach
<1>12. CASE Heard
  <2>1. /\ Receive /\ wire # <<>>
    BY <1>12, ReceiveEffect DEF Heard, Receive
  <2>2. run # "lost"
    BY <2>1 DEF Reach
  <2>3. 1 \in DOMAIN wire /\ \A i \in DOMAIN wire' : i + 1 \in DOMAIN wire /\ wire'[i] = wire[i + 1]
    BY <1>0, <2>1, WireShrinks, WireIndexed
  <2>4. view' \subseteq 1..stored /\ cursor' <= stored
    BY <1>12, <1>s, <1>m, <2>2, <2>3, ReceiveEffect DEF Heard, Reach
  <2> QED BY <1>12, <2>2, <2>3, <2>4, ReceiveEffect DEF Heard, Reach, logVars
<1>13. CASE ReceiveGap
  <2>1. /\ Receive /\ wire # <<>>
    BY <1>13, ReceiveGapEffect DEF Receive
  <2>2. run # "lost"
    BY <2>1 DEF Reach
  <2>3. 1 \in DOMAIN wire /\ \A i \in DOMAIN wire' : i + 1 \in DOMAIN wire /\ wire'[i] = wire[i + 1]
    BY <1>0, <2>1, WireShrinks, WireIndexed
  <2>4. /\ UNCHANGED <<run, stored, cursor, view>>
        /\ \A e \in Calls : calls'[e] = calls[e] \/ (calls'[e].cursor = cursor /\ calls'[e].seen = 0)
    BY <1>13, <1>0, ReceiveGapEffect DEF logVars
  <2> QED BY <1>s, <2>2, <2>3, <2>4 DEF Reach
<1>14. CASE OpenThread
  <2>1. /\ UNCHANGED <<run, stored, cursor, view, wire>>
        /\ \A e \in Calls : calls'[e] = calls[e] \/ calls'[e] = Asking
    BY <1>14, <1>0, OpenThreadEffect DEF logVars
  <2> QED BY <1>s, <2>1, AskingTyped DEF Reach, Asked
<1>15. CASE Reconnect \/ Restart
  <2>1. /\ UNCHANGED <<cursor, view>> /\ wire' = <<>> /\ \A e \in Calls : calls'[e] = NoCall \/ calls'[e] = Asking
    BY <1>15, NewSocketEffect
  <2>2. \/ UNCHANGED <<run, stored>> \/ run' = "lost"
        \/ run' = "over" /\ Active /\ stored <= stored' /\ stored' \in Nat
    BY <1>15, NewSocketEffect DEF logVars
  <2> QED BY <1>s, <1>m, <2>1, <2>2, AskingTyped, NoCallFields DEF Reach, Asked, Active
<1> QED BY <1>1, <1>2, <1>3, <1>4, <1>5, <1>6, <1>7, <1>8, <1>9, <1>10, <1>11, <1>12, <1>13, <1>14,
           <1>15, StepCases

\* A snapshot that is asked for brings news.
LEMMA InformedStep ==
  ASSUME LogInv, LogInv', Types, Types', CountedOnItsWay, Kinds, Before, Unasked, Informed, [Next]_vars
  PROVE  Informed'
<1> SUFFICES ASSUME NEW d \in Calls PROVE Knows(calls'[d], Active', stored', ToSet(appends'))
  BY DEF Informed
<1>0. /\ calls \in [Calls -> CallStates] /\ \A e \in Calls : calls[e] \in CallStates
      /\ calls' \in [Calls -> CallStates] /\ \A e \in Calls : calls'[e] \in CallStates
      /\ wire \in Seq(Messages) /\ cursor \in {Unknown} \cup 0..MaxEvents
      /\ wire' \in Seq(Messages)
  BY DEF Types, TypeOK
<1>t. \A e \in Calls : /\ calls[e].cursor \in Nat /\ calls[e].seen \in Nat /\ calls[e].least \in Nat
                       /\ calls'[e].cursor \in Nat /\ calls'[e].seen \in Nat /\ calls'[e].least \in Nat
  BY <1>0, CallFields
<1>s. stored \in Nat /\ counted \in Nat
  BY InvBounds
<1>b. \A e \in Calls : Knows(calls[e], Active, stored, ToSet(appends)) /\ Fits(calls[e], Active)
  BY DEF Informed, Kinds
<1>1. CASE OpenRun
  <2>1. /\ run = "none" /\ run' = "open"
        /\ calls'[d] = calls[d] \/ calls'[d] \in {NoCall, Sending, Watching}
    BY <1>1, OpenRunEffect
  <2>2. calls[d].pc \in {"idle", "authz", "listed"}
    BY <2>1 DEF Before, Asked
  <2> QED BY <2>1, <2>2 DEF Knows, NoCall, Sending, Watching
<1>2. CASE LogMove
  BY <1>2, <1>t, <1>b, LogMoveEffect DEF Active, LogMove,
          Knows
<1>3. CASE Store
  <2>1. stored < stored' /\ stored' \in Nat /\ calls' = calls /\ Active
    BY <1>3, StoreEffect DEF Active
  <2>2. \A n \in ToSet(appends) : n = stored' \/ n \in ToSet(appends')
    BY <1>3, StoreAppends
  <2>3. Knows(calls[d], TRUE, stored, ToSet(appends)) /\ calls'[d] = calls[d]
    BY <1>b, <2>1
  <2> QED BY <1>s, <1>t, <2>1, <2>2, <2>3 DEF Knows
<1>4. CASE EndRun
  BY <1>4, <1>t, NoCallFields, <1>b, EndRunEffect DEF Active, Knows
<1>5. ASSUME NEW c \in Calls, AutoSubscribe(c) \/ Announced(c)
      PROVE  Knows(calls'[d], Active', stored', ToSet(appends'))
  <2>1. CASE d # c
    BY <1>5, <2>1, <1>t, <1>b, UninvitedEffect
     DEF Active, logVars, boundVars, Others, Knows
  <2>2. CASE d = c
    BY <1>5, <2>2, <1>t, NoCallFields, UninvitedEffect
     DEF Active, logVars, boundVars, Others, Knows
  <2> QED BY <2>1, <2>2
<1>6. ASSUME NEW c \in Calls, ListRuns(c) PROVE Knows(calls'[d], Active', stored', ToSet(appends'))
  <2>1. CASE d # c
    BY <1>6, <2>1, <1>t, <1>b, ListRunsEffect DEF Active,
            Kept, logVars, boundVars, Others, Knows
  <2>2. CASE d = c
    BY <1>6, <2>2, <1>t, ListRunsEffect DEF Active,
            Kept, logVars, boundVars, Others, Knows
  <2> QED BY <2>1, <2>2
<1>7. ASSUME NEW c \in Calls, ReadMeta(c) PROVE Knows(calls'[d], Active', stored', ToSet(appends'))
  <2>1. CASE d # c
    <3>1. UNCHANGED <<run, stored, appends>> /\ (calls'[d] = calls[d] \/ calls'[d] = NoCall)
      BY <1>7, <2>1, ReadMetaEffect DEF logVars
    <3> QED BY <1>b, <3>1, NoCallFields DEF Knows, Active
  <2>2. CASE d = c
    <3>1. calls[c].pc = "listed" /\ calls[c].explicit /\ UNCHANGED <<run, stored, appends>>
      BY <1>7, <1>b, <2>2, ReadMetaEffect DEF Fits, logVars
    <3>2. \/ calls'[c] = NoCall
          \/ calls'[c].mode = "tapOnly"
          \/ /\ calls'[c].pc = "read" /\ calls'[c].cursor = calls[c].cursor
             /\ counted > calls[c].cursor /\ calls'[c].least = counted
          \/ calls'[c].pc = "read" /\ ~Active
      BY <1>7, <3>1, ReadMetaEffect DEF Kept, Active
    <3>3. Active => counted <= stored \/ counted \in ToSet(appends)
      BY <1>s DEF CountedOnItsWay
    <3> QED BY <1>t, <2>2, <3>1, <3>2, <3>3, NoCallFields DEF Knows, Active
  <2> QED BY <2>1, <2>2
<1>8. ASSUME NEW c \in Calls, ReadLog(c) PROVE Knows(calls'[d], Active', stored', ToSet(appends'))
  <2>1. CASE d # c
    BY <1>8, <2>1, <1>t, <1>b, ReadLogEffect DEF Active,
            logVars, boundVars, Others, Knows
  <2>2. CASE d = c
    BY <1>8, <2>2, <1>t, <1>b, ReadLogEffect DEF Active,
            logVars, boundVars, Others, Knows
  <2> QED BY <2>1, <2>2
<1>9. ASSUME NEW c \in Calls, CatchUp(c) PROVE Knows(calls'[d], Active', stored', ToSet(appends'))
  <2>1. CASE d # c
    BY <1>9, <2>1, <1>t, <1>b, CatchUpEffect DEF Active, logVars, Knows
  <2>2. CASE d = c
    BY <1>9, <2>2, NoCallFields, CatchUpEffect DEF Knows, Living, NoCall
  <2> QED BY <2>1, <2>2
<1>10. ASSUME NEW c \in Calls, Reread(c) PROVE Knows(calls'[d], Active', stored', ToSet(appends'))
  <2>1. CASE d # c
    BY <1>10, <2>1, <1>t, <1>b, RereadEffect DEF Active,
            Kept, logVars, boundVars, Others, Knows
  <2>2. CASE d = c
    BY <1>10, <2>2, <1>t, RereadEffect DEF Active,
            Kept, logVars, boundVars, Others, Knows
  <2> QED BY <2>1, <2>2
<1>11. ASSUME NEW c \in Calls, SendFinished(c)
       PROVE  Knows(calls'[d], Active', stored', ToSet(appends'))
  <2>1. CASE d # c
    <3>1. calls'[d] = calls[d] /\ stored' = stored /\ appends' = appends /\ run' = run
      BY <1>11, <2>1, SendFinishedEffect DEF logVars, Others
    <3> QED BY <1>b, <3>1 DEF Active, Knows
  <2>2. CASE d = c
    BY <1>11, <2>2, <1>t, NoCallFields, SendFinishedEffect
     DEF Active, logVars, boundVars, Others, Knows
  <2> QED BY <2>1, <2>2
<1>12. CASE Heard
  BY <1>12, <1>t, <1>b, ReceiveEffect DEF Active, logVars,
          boundVars, Heard, Knows
<1>13. CASE ReceiveGap
  BY <1>13, <1>0, <1>t, <1>b, ReceiveGapEffect DEF Active,
          logVars, boundVars, Knows
<1>14. CASE OpenThread
  <2>1. UNCHANGED <<run, stored, appends>> /\ (calls'[d] = calls[d] \/ calls'[d] = Asking)
    BY <1>14, <1>0, OpenThreadEffect DEF logVars
  <2> QED BY <1>b, <2>1, AskingTyped DEF Knows, Active
<1>15. CASE Reconnect \/ Restart
  <2>1. calls'[d] = NoCall \/ calls'[d] = Asking
    BY <1>15, NewSocketEffect
  <2> QED BY <2>1, AskingTyped, NoCallFields DEF Knows
<1> QED BY <1>1, <1>2, <1>3, <1>4, <1>5, <1>6, <1>7, <1>8, <1>9, <1>10, <1>11, <1>12, <1>13, <1>14,
           <1>15, StepCases


\* The thread shows nothing past the cursor while the run goes on.
LEMMA CurrentStep ==
  ASSUME LogInv, LogInv', Types, Types', Kinds, Before, Unasked, Current, [Next]_vars
  PROVE  Current'
<1> SUFFICES ASSUME Active' PROVE Past' /\ \A i \in DOMAIN wire' : ~IsFinal(i)'
  BY DEF Current
<1>0. /\ calls \in [Calls -> CallStates] /\ \A e \in Calls : calls[e] \in CallStates
      /\ calls' \in [Calls -> CallStates] /\ \A e \in Calls : calls'[e] \in CallStates
      /\ wire \in Seq(Messages) /\ cursor \in {Unknown} \cup 0..MaxEvents
      /\ wire' \in Seq(Messages) /\ cursor' \in {Unknown} \cup 0..MaxEvents
      /\ \A i \in DOMAIN wire : IsEvent(i) => wire[i].seq > 0
  BY DEF Types, TypeOK
<1>m. /\ cursor \in Int /\ (cursor < 0 => cursor = Unknown)
      /\ \A i \in DOMAIN wire : wire[i] \in Messages /\ wire[i].seq \in Nat /\ wire[i].active \in BOOLEAN
  <2>1. \A m \in Messages : m.seq \in Nat /\ m.active \in BOOLEAN
    BY Bounds DEF Messages
  <2> QED BY <1>0, <2>1, WireIndexed, Bounds DEF Unknown
<1>c. Active => Past /\ \A i \in DOMAIN wire : IsSync(i) => wire[i].active
  BY DEF Current, IsFinal
<1>1. CASE OpenRun
  <2>1. wire' = <<>> /\ view' = {}
    BY <1>1, OpenRunEffect DEF Before
  <2>2. DOMAIN wire' = {}
    BY <2>1
  <2> QED BY <2>1, <2>2 DEF Past
<1>2. CASE LogMove
  BY <1>2, <1>c, LogMoveEffect DEF Past, Cur, IsFinal, IsSync, Active, LogMove
<1>3. CASE Store
  <2>0. Active /\ cursor' = cursor /\ view' = view
    BY <1>3, StoreEffect DEF Active
  <2>1. PICK s \in Seq(Messages) : wire' = wire \o s /\ \A k \in DOMAIN s : \E r \in (stored + 1)..stored' : s[k] = Event(r)
    BY <1>3, StoreEffect
  <2>2. \A k \in DOMAIN s : s[k].type = "sync" => s[k].active
    BY <2>1 DEF Event
  <2>3. \A i \in DOMAIN wire' : IsSync(i)' => wire'[i].active
    BY <1>c, <2>0, <2>1, <2>2, WireGrows DEF IsSync
  <2> QED BY <1>c, <2>0, <2>3 DEF Past, Cur, IsFinal, IsSync
<1>4. CASE EndRun
  <2>1. ~Active'
    BY <1>4, EndRunEffect DEF Active
  <2> QED BY <2>1
<1>5. ASSUME NEW c \in Calls, AutoSubscribe(c) \/ Announced(c)
      PROVE  Past' /\ \A i \in DOMAIN wire' : ~IsFinal(i)'
  BY <1>5, <1>c, UninvitedEffect DEF Past, Cur, IsFinal, IsSync, Active,
          logVars, boundVars, Others
<1>6. ASSUME NEW c \in Calls, ListRuns(c) PROVE Past' /\ \A i \in DOMAIN wire' : ~IsFinal(i)'
  BY <1>6, <1>c, ListRunsEffect DEF Past, Cur, IsFinal, IsSync, Active, logVars,
          boundVars, Others
<1>7. ASSUME NEW c \in Calls, ReadMeta(c) PROVE Past' /\ \A i \in DOMAIN wire' : ~IsFinal(i)'
  BY <1>7, <1>c, ReadMetaEffect DEF Past, Cur, IsFinal, IsSync, Active, logVars,
          boundVars
<1>8. ASSUME NEW c \in Calls, ReadLog(c) PROVE Past' /\ \A i \in DOMAIN wire' : ~IsFinal(i)'
  BY <1>8, <1>c, ReadLogEffect DEF Past, Cur, IsFinal, IsSync, Active, logVars,
          boundVars, Others
<1>9. ASSUME NEW c \in Calls, CatchUp(c) PROVE Past' /\ \A i \in DOMAIN wire' : ~IsFinal(i)'
  <2>0. Active /\ cursor' = cursor /\ view' = view
    BY <1>9, CatchUpEffect DEF Active, logVars
  <2>1. PICK s \in Seq(Messages), d \in Nat : wire' = wire \o s /\ SnapshotThenRecords(c, s, d)
    BY <1>9, CatchUpEffect
  <2>2. \A k \in DOMAIN s : s[k].type = "sync" => s[k].active
    BY <2>0, <2>1 DEF SnapshotThenRecords, Event, Sync
  <2>3. \A i \in DOMAIN wire' : IsSync(i)' => wire'[i].active
    BY <1>c, <2>0, <2>1, <2>2, WireGrows DEF IsSync
  <2> QED BY <1>c, <2>0, <2>3 DEF Past, Cur, IsFinal, IsSync
<1>10. ASSUME NEW c \in Calls, Reread(c) PROVE Past' /\ \A i \in DOMAIN wire' : ~IsFinal(i)'
  BY <1>10, RereadEffect DEF Past, Cur, IsFinal, IsSync, Active, logVars,
          boundVars, Others
<1>11. ASSUME NEW c \in Calls, SendFinished(c) PROVE Past' /\ \A i \in DOMAIN wire' : ~IsFinal(i)'
  <2>1. calls[c].pc = "reread" /\ run' = run
    BY <1>11, SendFinishedEffect DEF logVars
  <2> QED BY <2>1 DEF Kinds, Fits, Active
<1>12. CASE Heard
  <2>1. Active /\ Receive /\ wire # <<>> /\ 1 \in DOMAIN wire
    BY <1>12, ReceiveEffect, WireIndexed DEF Heard, Active, logVars
  <2>2. \A i \in DOMAIN wire' : i + 1 \in DOMAIN wire /\ wire'[i] = wire[i + 1]
    BY <1>0, <2>1, WireShrinks
  <2>3. \A i \in DOMAIN wire' : IsSync(i)' => wire'[i].active
    BY <1>c, <2>1, <2>2 DEF IsSync
  <2>4. view \subseteq 1..Cur /\ Cur \in Nat /\ (cursor # Unknown => Cur = cursor) /\ (cursor = Unknown => Cur = 0)
    BY <1>0, <1>c, <2>1, Bounds DEF Past, Cur
  <2>5. Cur' \in Nat /\ (cursor' # Unknown => Cur' = cursor')
    BY <1>0, Bounds DEF Cur
  <2>6. wire[1].seq \in Nat /\ wire[1].seq # Unknown
    BY <1>m, <2>1 DEF Unknown
  <2>7. view' \subseteq 1..Cur'
    <3>1. CASE IsSync(1)
      <4>1. wire[1].active /\ ~IsEvent(1) /\ ~IsEnd(1)
        BY <1>c, <2>1, <3>1 DEF IsSync, IsEvent, IsEnd
      <4>2. view' = 1..wire[1].seq /\ cursor' = wire[1].seq
        BY <1>12, <4>1, ReceiveEffect DEF Heard
      <4> QED BY <2>5, <2>6, <4>2
    <3>2. CASE IsEvent(1)
      <4>1. /\ cursor = Unknown \/ wire[1].seq = cursor + 1
            /\ view' = view \cup {wire[1].seq} /\ cursor' = wire[1].seq
        BY <1>12, <3>2, ReceiveEffect DEF Heard, IsEvent, IsSync, IsEnd
      <4>2. wire[1].seq > 0
        BY <1>0, <2>1, <3>2
      <4>3. Cur < wire[1].seq /\ Cur' = wire[1].seq
        BY <2>4, <2>5, <2>6, <4>1, <4>2
      <4>4. 1..Cur \subseteq 1..wire[1].seq /\ wire[1].seq \in 1..wire[1].seq
        BY <2>4, <2>6, <4>2, <4>3
      <4> QED BY <2>4, <4>1, <4>3, <4>4
    <3>3. CASE IsEnd(1)
      <4>1. view' = view /\ cursor' = cursor
        BY <1>12, <3>3, ReceiveEffect DEF Heard, IsEvent, IsSync, IsEnd
      <4> QED BY <2>4, <4>1 DEF Cur
    <3> QED BY <1>12, <3>1, <3>2, <3>3, ReceiveEffect DEF Heard
  <2> QED BY <2>3, <2>7 DEF Past, IsFinal, IsSync
<1>13. CASE ReceiveGap
  <2>1. Active /\ Receive /\ UNCHANGED <<cursor, view>>
    BY <1>13, ReceiveGapEffect DEF Active, logVars
  <2>2. \A i \in DOMAIN wire' : i + 1 \in DOMAIN wire /\ wire'[i] = wire[i + 1]
    BY <1>0, <2>1, WireShrinks
  <2> QED BY <1>c, <2>1, <2>2 DEF Past, Cur, IsFinal, IsSync
<1>14. CASE OpenThread
  BY <1>14, <1>c, OpenThreadEffect DEF Past, Cur, IsFinal, IsSync, Active,
          logVars, boundVars
<1>15. CASE Reconnect \/ Restart
  <2>1. wire' = <<>> /\ UNCHANGED <<cursor, view>> /\ Active
    BY <1>15, NewSocketEffect DEF Active, logVars
  <2>2. DOMAIN wire' = {}
    BY <2>1
  <2> QED BY <1>c, <2>1, <2>2 DEF Past, Cur
<1> QED BY <1>1, <1>2, <1>3, <1>4, <1>5, <1>6, <1>7, <1>8, <1>9, <1>10, <1>11, <1>12, <1>13, <1>14,
           <1>15, StepCases


\* A sender that follows its own run from the start is the first to send.
LEMMA OwnRunStep ==
  ASSUME LogInv, LogInv', Types, Types', Kinds, Before, Reach, Unasked, Unserved, Informed, Current, OwnRun,
         [Next]_vars
  PROVE  OwnRun'
<1> SUFFICES ASSUME NEW o \in Calls, First(o)' PROVE Alone(o)'
  BY DEF OwnRun
<1>0. /\ calls \in [Calls -> CallStates] /\ calls' \in [Calls -> CallStates]
      /\ wire \in Seq(Messages) /\ subs \in Calls \cup {Empty, Reserved}
      /\ \A e \in Calls : calls[e].seen \in Nat /\ calls[e].cursor \in Nat
  BY CallFields DEF Types, TypeOK
<1>s. stored \in Nat
  BY InvBounds
<1>b. \A e \in Calls : Fits(calls[e], Active)
  BY DEF Kinds
<1>c. First(o) => /\ Alone(o) /\ subs = Reserved /\ subs \notin Calls /\ subs # Empty /\ Tapped = {}
                  /\ wire = <<>> /\ cursor = Unknown /\ view = {}
  <2>1. First(o) => Alone(o)
    BY DEF OwnRun
  <2>2. ASSUME First(o), Alone(o) PROVE Tapped = {}
    BY <2>2 DEF First, Alone, Serving, Tapped
  <2> QED BY <2>1, <2>2, Apart DEF Alone
<1>p. /\ calls'[o].pc \in {"read", "status"} /\ ~calls'[o].explicit /\ calls'[o].mode = "catchUp"
      /\ calls'[o].pc = "read" => Active' /\ stored' = 0
      /\ calls'[o].pc = "status" => calls'[o].seen = 0 /\ (Active' \/ 0 < stored')
  BY DEF First, Behind
<1>q. ASSUME calls'[o] = calls[o], run' = run, stored' = stored PROVE First(o)
  BY <1>q DEF First, Behind, Active
<1>1. CASE OpenRun
  <2>1. calls'[o].pc \in {"idle", "authz", "listed", "send", "watch"}
    BY <1>1, OpenRunEffect DEF Before, Asked, NoCall, Sending, Watching
  <2> QED BY <1>p, <2>1
<1>2. CASE LogMove
  <2>1. /\ UNCHANGED <<calls, stored, subs, wire, cursor, view>> /\ (Active' <=> Active)
    BY <1>2, LogMoveEffect DEF LogMove, Active
  <2>2. First(o)
    BY <2>1 DEF First, Behind
  <2> QED BY <1>c, <2>1, <2>2 DEF Alone, Serving, Reading, Tapped
<1>3. CASE Store
  <2>1. /\ stored' > 0 /\ Active /\ UNCHANGED <<calls, subs, cursor, view>>
    BY <1>3, <1>s, StoreEffect DEF Active
  <2>2. First(o)
    BY <1>p, <2>1 DEF First, Behind
  <2>3. PICK s \in Seq(Messages) : wire' = wire \o s /\ s = <<>>
    BY <1>3, <1>c, <2>2, StoreEffect
  <2>4. wire' = <<>>
    BY <1>c, <2>2, <2>3
  <2> QED BY <1>c, <2>1, <2>2, <2>4 DEF Alone, Serving, Reading, Tapped
<1>4. CASE EndRun
  <2>1. /\ Active /\ ~Active' /\ calls'[o] = calls[o] /\ UNCHANGED <<stored, cursor, view>>
    BY <1>4, <1>p, NoCallFields, EndRunEffect DEF Active
  <2>2. First(o)
    BY <1>p, <2>1 DEF First, Behind
  <2>3. Cardinality(Tapped) = 0
    BY <1>c, <2>2, CountTapped
  <2>4. PICK s \in Seq(Messages) : wire' = wire \o s /\ Len(s) = 0
    BY <1>4, <2>3, EndRunEffect
  <2>5. wire' = <<>>
    BY <1>c, <2>2, <2>4, EmptySeq
  <2>6. subs' = subs /\ \A e \in Calls : calls'[e] = calls[e]
    BY <1>4, <1>c, <2>2, EndRunEffect DEF Tapped
  <2> QED BY <1>c, <2>1, <2>2, <2>5, <2>6 DEF Alone, Serving, Reading, Tapped
<1>5. ASSUME NEW c \in Calls, AutoSubscribe(c) \/ Announced(c) PROVE Alone(o)'
  <2>0. UNCHANGED <<run, stored, wire, cursor, view>> /\ \A e \in Calls \ {c} : calls'[e] = calls[e]
    BY <1>5, UninvitedEffect DEF Others, logVars
  <2>1. CASE o # c
    <3>1. First(o)
      BY <1>q, <2>0, <2>1
    <3>2. subs' = subs /\ calls'[c] = NoCall
      BY <1>5, <1>c, <3>1, UninvitedEffect
    <3> QED BY <1>c, <2>0, <3>1, <3>2, NoCallFields DEF Alone, Serving, Reading, Tapped
  <2>2. CASE o = c
    <3>1. /\ calls'[c].pc = "read" /\ subs = Empty /\ subs' = Reserved
          /\ calls[c].pc \in {"send", "watch"} /\ ~calls[c].explicit
      BY <1>5, <1>p, <2>2, NoCallFields, UninvitedEffect
    <3>2. Active
      BY <1>p, <2>0, <2>2, <3>1 DEF Active
    <3>3. Serving = {} /\ wire = <<>> /\ cursor = Unknown
      BY <3>1, <3>2 DEF Unserved, Uninvited
    <3>4. view = {}
      BY <3>2, <3>3 DEF Current, Past, Cur
    <3> QED BY <2>0, <2>2, <3>1, <3>3, <3>4 DEF Alone, Serving, Reading, Tapped
  <2> QED BY <2>1, <2>2
<1>6. ASSUME NEW c \in Calls, ListRuns(c) PROVE Alone(o)'
  <2>1. /\ UNCHANGED <<run, stored, subs, wire, cursor, view>> /\ \A e \in Calls \ {c} : calls'[e] = calls[e]
        /\ calls'[c].pc = "listed"
    BY <1>6, ListRunsEffect DEF Others, logVars
  <2>2. First(o) /\ o # c
    BY <1>p, <1>q, <2>1
  <2> QED BY <1>c, <2>1, <2>2 DEF Alone, Serving, Reading, Tapped
<1>7. ASSUME NEW c \in Calls, ReadMeta(c) PROVE Alone(o)'
  <2>1. calls[c].explicit /\ UNCHANGED <<run, stored, wire, cursor, view>>
    BY <1>7, <1>b, ReadMetaEffect DEF Fits, logVars
  <2>2. o # c
    BY <1>7, <2>1, <1>p, NoCallFields, ReadMetaEffect DEF Kept
  <2>3. calls'[o] = calls[o]
    BY <1>7, <1>p, <2>2, NoCallFields, ReadMetaEffect
  <2>4. First(o)
    BY <1>q, <2>1, <2>3
  <2>5. /\ subs' = Reserved /\ \A e \in Calls \ {c} : calls'[e] = calls[e]
        /\ \/ calls'[c] = NoCall
           \/ calls'[c].explicit /\ calls'[c].pc = "read" /\ calls'[c].mode = "catchUp"
    BY <1>7, <1>c, <2>1, <2>4, ReadMetaEffect DEF Kept
  <2> QED BY <1>c, <2>1, <2>4, <2>5, NoCallFields DEF Alone, Serving, Reading, Tapped
<1>8. ASSUME NEW c \in Calls, ReadLog(c) PROVE Alone(o)'
  <2>1. /\ UNCHANGED <<subs, wire, cursor, view, run, stored>> /\ calls[c].pc = "read"
        /\ \A e \in Calls \ {c} : calls'[e] = calls[e]
        /\ calls'[c].explicit = calls[c].explicit /\ calls'[c].mode = calls[c].mode
        /\ calls'[c].pc = "status" /\ calls'[c].seen = stored
    BY <1>8, ReadLogEffect DEF Others, logVars
  <2>2. First(o)
    <3>1. CASE o # c
      BY <1>q, <2>1, <3>1
    <3>2. CASE o = c
      BY <1>p, <1>s, <2>1, <3>2 DEF First, Active
    <3> QED BY <3>1, <3>2
  <2> QED BY <1>c, <2>1, <2>2 DEF Alone, Serving, Reading, Tapped
<1>9. ASSUME NEW c \in Calls, CatchUp(c) PROVE Alone(o)'
  <2>1. /\ calls[c].pc = "status" /\ calls'[c].pc \in {"idle", "live"} /\ UNCHANGED <<run, stored>>
        /\ \A e \in Calls \ {c} : calls'[e] = calls[e]
        /\ \A d \in Calls : calls[d].pc = "status" => calls[c].seen <= calls[d].seen
    BY <1>9, NoCallFields, CatchUpEffect DEF Living, NoCall, logVars
  <2>2. First(o) /\ o # c
    BY <1>p, <1>q, <2>1
  <2>3. calls[c].explicit /\ calls[c].mode = "catchUp"
    BY <1>c, <2>1, <2>2 DEF Alone, Serving, Reading
  <2>4. calls[c].seen > calls[c].cursor \/ (~Active /\ calls[c].seen = stored)
    BY <2>1, <2>3 DEF Informed, Knows
  <2>5. CASE calls[o].pc = "status"
    BY <1>0, <1>s, <2>1, <2>2, <2>4, <2>5 DEF First, Behind
  <2>6. CASE calls[o].pc = "read"
    <3>1. Active /\ stored = 0 /\ run # "lost"
      BY <2>2, <2>6 DEF First, Active
    <3>2. calls[c].seen <= 0
      BY <3>1 DEF Reach
    <3> QED BY <1>0, <2>4, <3>1, <3>2
  <2> QED BY <2>2, <2>5, <2>6 DEF First
<1>10. ASSUME NEW c \in Calls, Reread(c) PROVE Alone(o)'
  <2>1. /\ calls[c].mode = "tapOnly" /\ calls[c].pc = "status" /\ calls'[c].pc = "reread"
        /\ UNCHANGED <<run, stored>> /\ \A e \in Calls \ {c} : calls'[e] = calls[e]
    BY <1>10, RereadEffect DEF Others, logVars
  <2>2. First(o) /\ o # c
    BY <1>p, <1>q, <2>1
  <2> QED BY <1>c, <2>1, <2>2 DEF Alone, Serving, Reading
<1>11. ASSUME NEW c \in Calls, SendFinished(c) PROVE Alone(o)'
  <2>1. /\ calls[c].pc = "reread" /\ calls'[c].pc = "idle"
        /\ UNCHANGED <<run, stored>> /\ \A e \in Calls \ {c} : calls'[e] = calls[e]
    BY <1>11, NoCallFields, SendFinishedEffect DEF Others, logVars
  <2>2. First(o) /\ o # c
    BY <1>p, <1>q, <2>1
  <2> QED BY <1>c, <2>1, <2>2 DEF Alone, Serving, Reading
<1>12. CASE Heard
  <2>1. wire # <<>> /\ UNCHANGED <<calls, run, stored>>
    BY <1>12, ReceiveEffect DEF Heard, logVars
  <2> QED BY <1>c, <1>q, <2>1
<1>13. CASE ReceiveGap
  <2>1. wire # <<>> /\ UNCHANGED <<run, stored>>
    BY <1>13, ReceiveGapEffect DEF Receive, logVars
  <2>2. calls'[o] = calls[o]
    BY <1>13, <1>0, <1>p, ReceiveGapEffect
  <2> QED BY <1>c, <1>q, <2>1, <2>2
<1>14. CASE OpenThread
  <2>1. \A e \in Calls : calls[e].pc = "idle"
    BY <1>14, OpenThreadEffect DEF Unasked
  <2>2. calls'[o].pc \in {"idle", "authz"}
    BY <1>14, <1>0, <2>1, OpenThreadEffect, AskingTyped
  <2> QED BY <1>p, <2>2
<1>15. CASE Reconnect \/ Restart
  <2>1. calls'[o].pc \in {"idle", "authz"}
    BY <1>15, NewSocketEffect, AskingTyped, NoCallFields
  <2> QED BY <1>p, <2>1
<1> QED BY <1>1, <1>2, <1>3, <1>4, <1>5, <1>6, <1>7, <1>8, <1>9, <1>10, <1>11, <1>12, <1>13, <1>14,
           <1>15, StepCases

\* One activation serves the socket, until a resync takes down a reservation.
LEMMA OwnerStep ==
  ASSUME LogInv, Types, Types', Kinds, Before, Unasked, Owner, [Next]_vars
  PROVE  Owner'
<1> SUFFICES ASSUME ~torn' PROVE Owned'
  BY DEF Owner
<1>o. ~torn => Owned
  BY DEF Owner
<1>0. /\ calls \in [Calls -> CallStates] /\ calls' \in [Calls -> CallStates]
      /\ wire \in Seq(Messages) /\ wire' \in Seq(Messages)
  BY DEF Types
<1>b. \A e \in Calls : Fits(calls[e], Active)
  BY DEF Kinds
<1>1. CASE OpenRun
  <2>1. \A e \in Calls : calls'[e].pc \in {"idle", "authz", "listed", "send", "watch"}
    BY <1>o, <1>1, OpenRunEffect DEF Before, Asked, NoCall, Sending, Watching
  <2> QED BY <2>1 DEF Owned, Serving, Reading, Tapped
<1>2. CASE LogMove
  BY <1>o, <1>2, LogMoveEffect DEF Owned, Serving, Reading, Tapped,
          LogMove
<1>3. CASE Store
  BY <1>o, <1>3, StoreEffect DEF Owned, Serving, Reading, Tapped
<1>4. CASE EndRun
  BY <1>o, <1>4, NoCallFields, EndRunEffect DEF Owned, Serving, Reading, Tapped
<1>5. ASSUME NEW c \in Calls, AutoSubscribe(c) \/ Announced(c) PROVE Owned'
  <2>0. Owned
    BY <1>o, <1>5, UninvitedEffect
  <2>1. CASE subs' = subs /\ calls'[c] = NoCall
    BY <1>5, <2>0, <2>1, NoCallFields, UninvitedEffect DEF Owned, Serving, Reading, Tapped, Others
  <2>2. CASE subs = Empty /\ subs' = Reserved /\ calls'[c].pc = "read"
    <3>1. Serving = {}
      BY <2>0, <2>2, Apart DEF Owned, Serving, Reading, Tapped
    <3> QED BY <1>5, <2>2, <3>1, UninvitedEffect DEF Owned, Serving, Reading, Tapped, Others
  <2> QED BY <1>5, <2>1, <2>2, UninvitedEffect
<1>6. ASSUME NEW c \in Calls, ListRuns(c) PROVE Owned'
  BY <1>o, <1>6, ListRunsEffect DEF Owned, Serving, Reading, Tapped,
          Kept, logVars, boundVars, Others
<1>7. ASSUME NEW c \in Calls, ReadMeta(c) PROVE Owned'
  <2>0. Owned
    BY <1>o, <1>7, <1>o, ReadMetaEffect DEF Types, TypeOK
  <2>1. CASE /\ subs # Reserved /\ subs' = Reserved /\ calls'[c].pc = "read"
             /\ \A e \in Calls \ {c} : calls'[e] = IF e = subs THEN NoCall ELSE calls[e]
    <3>1. \A e \in Serving : e = subs
      BY <2>0, <2>1 DEF Owned
    <3>2. \A e \in Calls \ {c} : e \notin Serving'
      BY <2>1, <3>1, NoCallFields DEF Serving, Reading, Tapped
    <3> QED BY <2>1, <3>2 DEF Owned, Serving, Reading, Tapped
  <2>2. CASE /\ calls'[c] = NoCall /\ subs' = subs
             /\ \A e \in Calls \ {c} : calls'[e] = calls[e]
    BY <2>0, <2>2, NoCallFields DEF Owned, Serving, Reading, Tapped
  <2>3. CASE /\ subs = Empty /\ subs' = Reserved /\ calls'[c].pc = "read"
             /\ \A e \in Calls \ {c} : calls'[e] = calls[e]
    <3>1. Serving = {}
      BY <2>0, <2>3, Apart DEF Owned, Serving, Reading, Tapped
    <3> QED BY <2>3, <3>1 DEF Owned, Serving, Reading, Tapped
  <2> QED BY <1>7, <2>1, <2>2, <2>3, ReadMetaEffect
<1>8. ASSUME NEW c \in Calls, ReadLog(c) PROVE Owned'
  BY <1>o, <1>8, ReadLogEffect DEF Owned, Serving, Reading, Tapped,
          logVars, boundVars, Others
<1>9. ASSUME NEW c \in Calls, CatchUp(c) PROVE Owned'
  <2>1. /\ Owned /\ c \in Serving /\ \A e \in Calls \ {c} : calls'[e] = calls[e]
        /\ calls'[c].pc = "idle" \/ (calls'[c].pc = "live" /\ subs' = c)
    BY <1>9, <1>o, NoCallFields, CatchUpEffect DEF Serving, Reading, Living, NoCall
  <2>2. \A e \in Calls \ {c} : e \notin Serving'
    BY <2>1 DEF Owned, Serving, Reading, Tapped
  <2> QED BY <2>1, <2>2 DEF Owned, Serving, Reading, Tapped
<1>10. ASSUME NEW c \in Calls, Reread(c) PROVE Owned'
  BY <1>o, <1>10, RereadEffect DEF Owned, Serving, Reading, Tapped,
          Kept, logVars, boundVars, Others
<1>11. ASSUME NEW c \in Calls, SendFinished(c) PROVE Owned'
  BY <1>o, <1>11, NoCallFields, SendFinishedEffect DEF Owned, Serving, Reading,
          Tapped, logVars, boundVars, Others
<1>12. CASE Heard
  BY <1>o, <1>12, ReceiveEffect DEF Owned, Serving, Reading, Tapped,
          logVars, boundVars, Heard
<1>13. CASE ReceiveGap
  BY <1>o, <1>13, <1>0, ReceiveGapEffect DEF Owned, Serving, Reading, Tapped,
          logVars, boundVars
<1>14. CASE OpenThread
  BY <1>o, <1>14, <1>0, OpenThreadEffect, AskingTyped DEF Owned, Serving,
          Reading, Tapped, logVars, boundVars
<1>15. CASE Reconnect \/ Restart
  BY <1>o, <1>15, NoCallFields, NewSocketEffect, AskingTyped DEF Owned, Serving,
          Reading, Tapped, logVars
<1> QED BY <1>1, <1>2, <1>3, <1>4, <1>5, <1>6, <1>7, <1>8, <1>9, <1>10, <1>11, <1>12, <1>13, <1>14,
           <1>15, StepCases


-----------------------------------------------------------------------------
\* All of it holds at the start.
LEMMA InitBase == Init => LogInv /\ Base
<1> SUFFICES ASSUME Init PROVE LogInv /\ Base
  OBVIOUS
<1>1. LogInv
  BY InitLogInv DEF Init
<1>2. /\ calls = [c \in Calls |-> NoCall] /\ \A c \in Calls : calls[c] = NoCall
      /\ wire = <<>> /\ DOMAIN wire = {} /\ run = "none" /\ stored = 0 /\ counted = 0 /\ cursor = Unknown /\ view = {}
      /\ subs = Empty /\ ~tracked
  BY DEF Init, LogInit
<1>3. Types
  <2>1. LogTypeOK /\ calls \in [Calls -> CallStates] /\ wire \in Seq(Messages)
    BY <1>1, <1>2, NoCallTyped DEF LogInv
  <2>2. \A c \in Calls : /\ calls[c].pc \in Phases /\ calls[c].mode \in Modes
                        /\ calls[c].cursor \in 0..MaxEvents /\ calls[c].seen \in 0..MaxEvents
    BY <1>2, NoCallFields, Bounds DEF Phases, Modes
  <2>3. {watching, synced, torn, tracked, claimed, cooling} \subseteq BOOLEAN /\ role \in Roles
    <3>1. /\ watching = FALSE /\ synced = FALSE /\ torn = FALSE /\ tracked = FALSE /\ claimed = FALSE
          /\ cooling = FALSE
      BY DEF Init
    <3> QED BY <3>1 DEF Init
  <2>4. /\ subs \in Calls \cup {Empty, Reserved} /\ subs \notin Calls
        /\ cursor \in {Unknown} \cup 0..MaxEvents /\ view \subseteq 1..MaxEvents
    BY <1>2, Apart
  <2>5. drops \in 0..MaxDrops /\ reconnects \in 0..MaxReconnects /\ restarts \in 0..MaxRestarts
    BY Bounds DEF Init
  <2>6. TypeOK
    BY <2>1, <2>2, <2>3, <2>4, <2>5 DEF TypeOK
  <2> QED BY <1>2, <2>1, <2>6 DEF Types
<1>4. CountedOnItsWay /\ Current /\ Unserved
  BY <1>2 DEF CountedOnItsWay, Current, Unserved, Active
<1>5. Kinds /\ Informed
  BY <1>2, NoCallFields DEF Kinds, Fits, Informed, Knows
<1>6. Reach /\ Before
  BY <1>2, NoCallFields DEF Reach, Before, Unknown
<1>7. Unasked
  BY <1>2, NoCallFields DEF Init, Unasked
<1>8. OwnRun /\ Owner
  BY <1>2, NoCallFields DEF OwnRun, First, Owner, Owned, Serving, Reading, Tapped
<1> QED BY <1>1, <1>3, <1>4, <1>5, <1>6, <1>7, <1>8 DEF Base

\* And every step keeps it.
LEMMA NextBase == LogInv /\ LogInv' /\ Base /\ [Next]_vars => Base'
<1> SUFFICES ASSUME LogInv, LogInv', Base, [Next]_vars PROVE Base'
  OBVIOUS
<1>1. /\ Types /\ CountedOnItsWay /\ Kinds /\ Reach /\ Before /\ Unasked /\ Unserved /\ Informed /\ OwnRun
      /\ Current /\ Owner
  BY DEF Base
<1>2. Types'
  BY <1>1, TypesStep
<1> QED BY <1>1, <1>2, CountedStep, KindsStep, ReachStep, BeforeStep, UnaskedStep, UnservedStep,
           InformedStep, OwnRunStep, CurrentStep, OwnerStep DEF Base

LEMMA BaseAlways == Spec => [](LogInv /\ Base)
<1>1. Spec => []LogInv
  BY DeliveryLeavesTheLogAlone, LogInvariance, PTL
<1>2. Init => Base
  BY InitBase
<1> QED BY <1>1, <1>2, NextBase, PTL DEF Spec

\* Everything has its type, and `subs` names a live tap when it names one.
THEOREM DeliveryTypes == Spec => []TypeOK
<1>1. LogInv /\ Base => TypeOK
  BY DEF Base, Types
<1> QED BY <1>1, BaseAlways, PTL

-----------------------------------------------------------------------------
\* Messages keep their neighbours.
LEMMA FollowsGrows ==
  ASSUME wire \in Seq(Messages), NEW s \in Seq(Messages), wire' = wire \o s,
         NEW i \in DOMAIN wire, Follows(i)
  PROVE  Follows(i)'
BY WireGrows DEF Follows, IsEvent, IsSync

LEMMA FollowsShrinks ==
  ASSUME wire \in Seq(Messages), Receive, NEW i \in DOMAIN wire', Follows(i + 1), i > 1
  PROVE  Follows(i)'
<1>1. /\ DOMAIN wire' = 1..(Len(wire) - 1) /\ Len(wire) \in Nat
      /\ \A j \in DOMAIN wire' : j + 1 \in DOMAIN wire /\ wire'[j] = wire[j + 1]
  BY WireShrinks, WireIndexed
<1>2. i - 1 \in DOMAIN wire' /\ (i - 1) + 1 = i /\ (i + 1) - 1 = i
  BY <1>1
<1>3. wire'[i] = wire[i + 1] /\ wire'[i - 1] = wire[i]
  BY <1>1, <1>2
<1> QED BY <1>2, <1>3 DEF Follows, IsEvent, IsSync

LEMMA FreshKept ==
  ASSUME Fresh, UNCHANGED <<wire, cursor, view>>
  PROVE  Fresh'
BY DEF Fresh, Follows, Past, Cur, IsEvent, IsSync, IsFinal

\* What is on its way has not been shown.
LEMMA FreshStep ==
  ASSUME LogInv, LogInv', Types, Types', Kinds, Before, Unasked, Informed, OwnRun, Current, Current', Fresh, [Next]_vars
  PROVE  Fresh'
<1> SUFFICES ASSUME ~Active' PROVE Fresh'
  BY DEF Current, Fresh
<1>0. /\ wire \in Seq(Messages) /\ Len(wire) \in Nat /\ DOMAIN wire = 1..Len(wire)
      /\ cursor \in {Unknown} \cup 0..MaxEvents /\ cursor' \in {Unknown} \cup 0..MaxEvents
      /\ view \subseteq 1..MaxEvents
      /\ \A i \in DOMAIN wire : IsEvent(i) => wire[i].seq > 0
  BY WireIndexed DEF Types, TypeOK
<1>m. /\ cursor \in Int /\ cursor' \in Int /\ view \subseteq Nat \ {0}
      /\ \A i \in DOMAIN wire : wire[i].seq \in Nat
  <2>1. \A m \in Messages : m.seq \in Nat
    BY Bounds DEF Messages
  <2> QED BY <1>0, <2>1, WireIndexed, Bounds DEF Unknown
<1>f. /\ \A i, j \in DOMAIN wire : IsEvent(i) /\ j < i /\ IsFinal(j) => Follows(i)
      /\ ~Past => \A i \in DOMAIN wire : IsEvent(i) =>
                    IF i = 1 THEN \A n \in view : n < wire[1].seq ELSE Follows(i)
  BY DEF Fresh
<1>1. CASE OpenRun
  <2>1. Active'
    BY <1>1, OpenRunEffect DEF Active
  <2> QED BY <2>1
<1>2. CASE LogMove
  <2>1. UNCHANGED <<wire, cursor, view>>
    BY <1>2, LogMoveEffect DEF LogMove
  <2> QED BY <2>1, FreshKept
<1>3. CASE Store
  <2>1. Active'
    BY <1>3, StoreEffect DEF Active
  <2> QED BY <2>1
<1>4. CASE EndRun
  <2>0. UNCHANGED <<cursor, view>>
    BY <1>4, EndRunEffect
  <2>1. PICK s \in Seq(Messages) : wire' = wire \o s /\ \A k \in DOMAIN s : s[k] = Ended
    BY <1>4, EndRunEffect
  <2>2. \A k \in DOMAIN s : s[k].type # "event"
    BY <2>1 DEF Ended
  <2>3. ASSUME NEW i \in DOMAIN wire', IsEvent(i)'
        PROVE  i \in DOMAIN wire /\ IsEvent(i) /\ wire'[i] = wire[i]
    BY <2>1, <2>2, <2>3, WireGrows DEF IsEvent
  <2>4. \A i \in DOMAIN wire : i \in DOMAIN wire' /\ wire'[i] = wire[i]
    BY <2>1, WireGrows
  <2>5. ASSUME NEW i \in DOMAIN wire', NEW j \in DOMAIN wire', IsEvent(i)', j < i, IsFinal(j)'
        PROVE  Follows(i)'
    <3>1. i \in DOMAIN wire /\ j \in DOMAIN wire /\ IsEvent(i)
      BY <2>1, <2>3, <2>5, WireGrows
    <3>2. Follows(i)
      BY <1>f, <2>4, <2>5, <3>1 DEF IsFinal, IsSync
    <3> QED BY <1>0, <2>1, <3>1, <3>2, FollowsGrows
  <2>6. ASSUME ~Past', NEW i \in DOMAIN wire', IsEvent(i)'
        PROVE  IF i = 1 THEN \A n \in view' : n < wire'[1].seq ELSE Follows(i)'
    <3>1. ~Past
      BY <2>0, <2>6 DEF Past, Cur
    <3>2. CASE i = 1
      BY <1>f, <2>0, <2>3, <2>6, <3>1, <3>2
    <3>3. CASE i # 1
      BY <1>0, <1>f, <2>1, <2>3, <2>6, <3>1, <3>3, FollowsGrows
    <3> QED BY <3>2, <3>3
  <2> QED BY <2>5, <2>6 DEF Fresh
<1>5. ASSUME NEW c \in Calls, AutoSubscribe(c) \/ Announced(c) PROVE Fresh'
  <2>1. UNCHANGED <<wire, cursor, view>>
    BY <1>5, UninvitedEffect
  <2> QED BY <2>1, FreshKept
<1>6. ASSUME NEW c \in Calls, ListRuns(c) PROVE Fresh'
  <2>1. UNCHANGED <<wire, cursor, view>>
    BY <1>6, ListRunsEffect
  <2> QED BY <2>1, FreshKept
<1>7. ASSUME NEW c \in Calls, ReadMeta(c) PROVE Fresh'
  <2>1. UNCHANGED <<wire, cursor, view>>
    BY <1>7, ReadMetaEffect
  <2> QED BY <2>1, FreshKept
<1>8. ASSUME NEW c \in Calls, ReadLog(c) PROVE Fresh'
  <2>1. UNCHANGED <<wire, cursor, view>>
    BY <1>8, ReadLogEffect
  <2> QED BY <2>1, FreshKept
<1>9. ASSUME NEW c \in Calls, CatchUp(c) PROVE Fresh'
  <2>0. /\ UNCHANGED <<cursor, view, stored, run>> /\ calls[c].pc = "status" /\ ~Active
        /\ calls[c].mode # "tapOnly" /\ stored \in Nat /\ ~TapOnly(c) /\ Base0(c) = calls[c].seen
        /\ Base0(c) \in Nat /\ Base0(c) <= stored
    BY <1>9, InvBounds, CatchUpEffect DEF logVars, Active, TapOnly, Base0
  <2>1. PICK s \in Seq(Messages), d \in Nat : wire' = wire \o s /\ SnapshotThenRecords(c, s, d)
    BY <1>9, CatchUpEffect
  <2>2. CASE ~Due(c) /\ calls[c].seen < stored
    <3>1. calls[c].seen <= calls[c].cursor /\ calls[c].mode = "catchUp"
      <4>1. calls[c] \in CallStates
        BY DEF Types
      <4>2. calls[c].mode \in Modes /\ calls[c].seen \in Nat /\ calls[c].cursor \in Nat
        BY <4>1, CallFields
      <4> QED BY <2>0, <2>2, <4>2 DEF Due, NeedsSync, Modes
    <3>2. ~calls[c].explicit
      BY <2>0, <2>2, <3>1, CallFields DEF Informed, Knows, Types
    <3>3. wire = <<>> /\ view = {}
      <4>1. calls[c].cursor = 0 /\ calls[c].seen \in Nat
        BY <3>2, CallFields DEF Kinds, Fits, Types
      <4>2. First(c)
        BY <2>0, <2>2, <3>1, <3>2, <4>1 DEF First, Behind
      <4> QED BY <4>2 DEF OwnRun, Alone
    <3>4. \A i \in DOMAIN wire' : ~IsFinal(i)'
      <4>1. \A k \in DOMAIN s : s[k].type = "event"
        BY <2>0, <2>1, <2>2 DEF SnapshotThenRecords, Event
      <4> QED BY <2>1, <3>3, <4>1, WireGrows DEF IsFinal, IsSync
    <3>5. Past'
      BY <2>0, <3>3 DEF Past
    <3> QED BY <3>4, <3>5 DEF Fresh
  <2>3. CASE Due(c) \/ ~(calls[c].seen < stored)
    <3>1. /\ \A i \in DOMAIN wire : i \in DOMAIN wire' /\ wire'[i] = wire[i]
          /\ \A i \in DOMAIN wire' : i \in DOMAIN wire \/ \E k \in DOMAIN s : i = Len(wire) + k /\ wire'[i] = s[k]
          /\ \A k \in 1..Len(s) : Len(wire) + k \in DOMAIN wire' /\ wire'[Len(wire) + k] = s[k]
      BY <1>0, <2>1, WireGrows
    <3>2. ASSUME NEW i \in DOMAIN wire', IsEvent(i)', i \notin DOMAIN wire
          PROVE  i # 1 /\ Follows(i)'
      <4>1. PICK k \in DOMAIN s : i = Len(wire) + k /\ wire'[i] = s[k]
        BY <3>1, <3>2
      <4>2. s[k].type = "event"
        BY <3>2, <4>1 DEF IsEvent
      <4>3. PICK m \in 1..(stored - Base0(c) - d) : k = Shot(c) + m /\ s[k] = Event(Base0(c) + m)
        BY <2>1, <4>2 DEF SnapshotThenRecords, Sync
      <4>4. m \in Nat /\ m >= 1 /\ Due(c) /\ Shot(c) = 1 /\ k = m + 1
        BY <2>0, <2>3, <4>3 DEF Shot
      <4>5. Len(s) = 1 + (stored - Base0(c)) - d /\ k - 1 \in 1..Len(s)
        <5>1. Len(s) = Shot(c) + (stored - Base0(c)) - d
          BY <2>1 DEF SnapshotThenRecords
        <5> QED BY <2>0, <4>3, <4>4, <5>1
      <4>6. s[k].seq = s[k - 1].seq + 1 /\ s[k - 1].type \in {"event", "sync"}
        <5>1. CASE m = 1
          BY <2>0, <2>1, <4>3, <4>4, <5>1 DEF SnapshotThenRecords, Sync, Event
        <5>2. CASE m # 1
          <6>0. m - 1 \in Nat /\ m - 1 >= 1 /\ k - 1 = Shot(c) + (m - 1)
            BY <4>4, <5>2
          <6>1. m - 1 \in 1..(stored - Base0(c) - d) /\ k - 1 = Shot(c) + (m - 1)
            BY <2>0, <6>0
          <6>2. s[Shot(c) + (m - 1)] = Event(Base0(c) + (m - 1))
            BY <2>1, <6>1 DEF SnapshotThenRecords
          <6>3. s[k - 1] = Event(Base0(c) + (m - 1)) /\ Base0(c) + m = Base0(c) + (m - 1) + 1
            BY <2>0, <4>4, <6>1, <6>2
          <6> QED BY <4>3, <6>3 DEF Event
        <5> QED BY <5>1, <5>2
      <4>7. i - 1 = Len(wire) + (k - 1) /\ i # 1
        BY <4>1, <4>4
      <4>8. i - 1 \in DOMAIN wire' /\ wire'[i - 1] = s[k - 1]
        BY <3>1, <4>5, <4>7
      <4> QED BY <4>1, <4>6, <4>7, <4>8 DEF Follows, IsEvent, IsSync
    <3>3. ASSUME NEW i \in DOMAIN wire, IsEvent(i), i # 1, Follows(i) PROVE Follows(i)'
      BY <1>0, <2>1, <3>3, FollowsGrows
    <3>4. ASSUME NEW i \in DOMAIN wire', NEW j \in DOMAIN wire', IsEvent(i)', j < i, IsFinal(j)'
          PROVE  Follows(i)'
      <4>1. CASE i \in DOMAIN wire
        <5>1. DOMAIN wire' = 1..(Len(wire) + Len(s)) /\ Len(s) \in Nat
          BY <2>1, WireGrows
        <5>2. j \in DOMAIN wire /\ i # 1
          BY <1>0, <3>4, <4>1, <5>1
        <5>3. IsEvent(i) /\ IsFinal(j)
          BY <3>1, <3>4, <4>1, <5>2 DEF IsEvent, IsFinal, IsSync
        <5> QED BY <1>f, <3>3, <3>4, <4>1, <5>2, <5>3
      <4> QED BY <3>2, <3>4, <4>1
    <3>5. ASSUME ~Past', NEW i \in DOMAIN wire', IsEvent(i)'
          PROVE  IF i = 1 THEN \A n \in view' : n < wire'[1].seq ELSE Follows(i)'
      <4>1. ~Past
        BY <2>0, <3>5 DEF Past, Cur
      <4>2. CASE i \in DOMAIN wire
        <5>1. IsEvent(i) /\ wire'[i] = wire[i]
          BY <3>1, <3>5, <4>2 DEF IsEvent
        <5> QED BY <1>f, <2>0, <3>3, <4>1, <4>2, <5>1
      <4> QED BY <3>2, <3>5, <4>2
    <3> QED BY <3>4, <3>5 DEF Fresh
  <2> QED BY <2>2, <2>3
<1>10. ASSUME NEW c \in Calls, Reread(c) PROVE Fresh'
  <2>1. UNCHANGED <<wire, cursor, view>>
    BY <1>10, RereadEffect
  <2> QED BY <2>1, FreshKept
<1>11. ASSUME NEW c \in Calls, SendFinished(c) PROVE Fresh'
  <2>0. UNCHANGED <<cursor, view>>
    BY <1>11, SendFinishedEffect
  <2>a. PICK s \in Seq(Messages) : wire' = wire \o s /\ Len(s) = 1 /\ s[1] = Sync(stored, FALSE)
    BY <1>11, SendFinishedEffect
  <2>1. wire' = wire \o s
    BY <2>a
  <2>2. \A k \in DOMAIN s : s[k].type # "event"
    <3>1. DOMAIN s = {1}
      BY <2>a, LenProperties
    <3> QED BY <2>a, <3>1 DEF Sync
  <2>3. ASSUME NEW i \in DOMAIN wire', IsEvent(i)'
        PROVE  i \in DOMAIN wire /\ IsEvent(i) /\ wire'[i] = wire[i]
    BY <2>1, <2>2, <2>3, WireGrows DEF IsEvent
  <2>4. \A i \in DOMAIN wire : i \in DOMAIN wire' /\ wire'[i] = wire[i]
    BY <2>1, WireGrows
  <2>5. ASSUME NEW i \in DOMAIN wire', NEW j \in DOMAIN wire', IsEvent(i)', j < i, IsFinal(j)'
        PROVE  Follows(i)'
    <3>1. i \in DOMAIN wire /\ j \in DOMAIN wire /\ IsEvent(i)
      BY <2>1, <2>3, <2>5, WireGrows
    <3>2. Follows(i)
      BY <1>f, <2>4, <2>5, <3>1 DEF IsFinal, IsSync
    <3> QED BY <1>0, <2>1, <3>1, <3>2, FollowsGrows
  <2>6. ASSUME ~Past', NEW i \in DOMAIN wire', IsEvent(i)'
        PROVE  IF i = 1 THEN \A n \in view' : n < wire'[1].seq ELSE Follows(i)'
    <3>1. ~Past
      BY <2>0, <2>6 DEF Past, Cur
    <3>2. CASE i = 1
      BY <1>f, <2>0, <2>3, <2>6, <3>1, <3>2
    <3>3. CASE i # 1
      BY <1>0, <1>f, <2>1, <2>3, <2>6, <3>1, <3>3, FollowsGrows
    <3> QED BY <3>2, <3>3
  <2> QED BY <2>5, <2>6 DEF Fresh
<1>12. CASE Heard
  <2>1. /\ Receive /\ wire # <<>> /\ 1 \in DOMAIN wire
        /\ \A i \in DOMAIN wire' : i + 1 \in DOMAIN wire /\ wire'[i] = wire[i + 1]
        /\ DOMAIN wire' = 1..(Len(wire) - 1)
    BY <1>12, <1>0, WireShrinks, WireIndexed, ReceiveEffect DEF Heard
  <2>2. \A i \in DOMAIN wire' : i \in Nat /\ i >= 1 /\ (IsEvent(i)' => IsEvent(i + 1)) /\ (IsFinal(i)' => IsFinal(i + 1))
    BY <2>1 DEF IsEvent, IsFinal, IsSync
  <2>3. ASSUME NEW i \in DOMAIN wire', NEW j \in DOMAIN wire', IsEvent(i)', j < i, IsFinal(j)'
        PROVE  Follows(i)'
    <3>1. i > 1 /\ j + 1 < i + 1 /\ i + 1 \in DOMAIN wire /\ j + 1 \in DOMAIN wire
      BY <2>1, <2>2, <2>3
    <3>2. Follows(i + 1)
      BY <1>f, <2>2, <2>3, <3>1
    <3> QED BY <1>0, <2>1, <3>1, <3>2, FollowsShrinks
  <2>4. /\ Cur \in Nat /\ (cursor # Unknown => Cur = cursor) /\ (cursor = Unknown => Cur = 0)
        /\ (cursor' # Unknown => Cur' = cursor') /\ wire[1].seq \in Nat /\ wire[1].seq # Unknown
    BY <1>0, <1>m, <2>1, Bounds DEF Cur, Unknown
  <2>5. ASSUME ~Past'
        PROVE  \/ IsFinal(1) /\ \A n \in view' : n \in Int /\ n <= wire[1].seq
               \/ IsEnd(1) /\ ~Past
    <3>1. CASE IsSync(1) /\ view' = 1..wire[1].seq /\ cursor' = IF wire[1].active THEN wire[1].seq ELSE cursor
      <4>1. ~wire[1].active
        BY <2>4, <2>5, <3>1 DEF Past
      <4> QED BY <2>4, <3>1, <4>1 DEF IsFinal
    <3>2. CASE /\ IsEvent(1) /\ (cursor = Unknown \/ wire[1].seq = cursor + 1)
               /\ view' = view \cup {wire[1].seq} /\ cursor' = wire[1].seq
      <4>1. \A n \in view : n < wire[1].seq
        <5>1. CASE Past
          <6>1. wire[1].seq > 0
            BY <1>0, <2>1, <3>2
          <6>2. Cur < wire[1].seq
            BY <2>4, <3>2, <6>1
          <6>3. \A n \in 1..Cur : n < wire[1].seq
            BY <2>4, <6>2
          <6> QED BY <5>1, <6>3 DEF Past
        <5>2. CASE ~Past
          BY <1>f, <2>1, <3>2, <5>2
        <5> QED BY <5>1, <5>2
      <4>2. wire[1].seq > 0 /\ view \subseteq Nat \ {0}
        BY <1>0, <2>1, <3>2
      <4>3. view' \subseteq 1..wire[1].seq
        <5>1. \A n \in view : n \in 1..wire[1].seq
          BY <2>4, <4>1, <4>2
        <5>2. wire[1].seq \in 1..wire[1].seq
          BY <2>4, <4>2
        <5> QED BY <3>2, <5>1, <5>2
      <4> QED BY <2>4, <2>5, <3>2, <4>3 DEF Past
    <3>3. CASE IsEnd(1) /\ view' = view /\ cursor' = cursor
      BY <2>5, <3>3 DEF Past, Cur
    <3> QED BY <1>12, <3>1, <3>2, <3>3, ReceiveEffect DEF Heard
  <2>6. ASSUME ~Past', NEW i \in DOMAIN wire', IsEvent(i)' PROVE Follows(i + 1)
    <3>1. i + 1 \in DOMAIN wire /\ IsEvent(i + 1) /\ 1 < i + 1 /\ i + 1 # 1
      BY <2>1, <2>2, <2>6
    <3>2. CASE IsFinal(1)
      BY <1>f, <2>1, <3>1, <3>2
    <3>3. CASE ~Past
      BY <1>f, <3>1, <3>3
    <3> QED BY <2>5, <2>6, <3>2, <3>3
  <2>7. ASSUME ~Past', NEW i \in DOMAIN wire', IsEvent(i)'
        PROVE  IF i = 1 THEN \A n \in view' : n < wire'[1].seq ELSE Follows(i)'
    <3>1. Follows(i + 1)
      BY <2>6, <2>7
    <3>2. CASE i = 1
      <4>1. wire'[1].seq = wire[1].seq + 1 /\ (IsEvent(1) \/ IsSync(1))
        BY <2>1, <2>7, <3>1, <3>2 DEF Follows
      <4>2. \A n \in view' : n \in Int /\ n <= wire[1].seq
        BY <2>5, <2>7, <4>1 DEF IsEvent, IsSync, IsEnd, IsFinal
      <4> QED BY <1>m, <2>1, <3>2, <4>1, <4>2
    <3>3. CASE i # 1
      BY <1>0, <2>1, <2>2, <2>7, <3>1, <3>3, FollowsShrinks
    <3> QED BY <3>2, <3>3
  <2> QED BY <2>3, <2>7 DEF Fresh
<1>13. CASE ReceiveGap
  <2>1. /\ Receive /\ wire # <<>> /\ 1 \in DOMAIN wire
        /\ \A i \in DOMAIN wire' : i + 1 \in DOMAIN wire /\ wire'[i] = wire[i + 1]
        /\ DOMAIN wire' = 1..(Len(wire) - 1)
    BY <1>13, <1>0, WireShrinks, WireIndexed, ReceiveGapEffect
  <2>2. \A i \in DOMAIN wire' : i \in Nat /\ i >= 1 /\ (IsEvent(i)' => IsEvent(i + 1)) /\ (IsFinal(i)' => IsFinal(i + 1))
    BY <2>1 DEF IsEvent, IsFinal, IsSync
  <2>3. ASSUME NEW i \in DOMAIN wire', NEW j \in DOMAIN wire', IsEvent(i)', j < i, IsFinal(j)'
        PROVE  Follows(i)'
    <3>1. i > 1 /\ j + 1 < i + 1 /\ i + 1 \in DOMAIN wire /\ j + 1 \in DOMAIN wire
      BY <2>1, <2>2, <2>3
    <3>2. Follows(i + 1)
      BY <1>f, <2>2, <2>3, <3>1
    <3> QED BY <1>0, <2>1, <3>1, <3>2, FollowsShrinks
  <2>4. UNCHANGED <<cursor, view>> /\ IsEvent(1)
    BY <1>13, ReceiveGapEffect
  <2>5. ASSUME ~Past' PROVE ~Past /\ \A n \in view' : n \in Int /\ n <= wire[1].seq
    <3>1. ~Past
      BY <2>4, <2>5 DEF Past, Cur
    <3> QED BY <1>f, <1>m, <2>1, <2>4, <3>1
  <2>6. ASSUME ~Past', NEW i \in DOMAIN wire', IsEvent(i)' PROVE Follows(i + 1)
    <3>1. i + 1 \in DOMAIN wire /\ IsEvent(i + 1) /\ i + 1 # 1
      BY <2>1, <2>2, <2>6
    <3> QED BY <1>f, <2>5, <2>6, <3>1
  <2>7. ASSUME ~Past', NEW i \in DOMAIN wire', IsEvent(i)'
        PROVE  IF i = 1 THEN \A n \in view' : n < wire'[1].seq ELSE Follows(i)'
    <3>1. Follows(i + 1)
      BY <2>6, <2>7
    <3>2. CASE i = 1
      <4>1. wire'[1].seq = wire[1].seq + 1 /\ (IsEvent(1) \/ IsSync(1))
        BY <2>1, <2>7, <3>1, <3>2 DEF Follows
      <4>2. \A n \in view' : n \in Int /\ n <= wire[1].seq
        BY <2>5, <2>7, <4>1 DEF IsEvent, IsSync
      <4> QED BY <1>m, <2>1, <3>2, <4>1, <4>2
    <3>3. CASE i # 1
      BY <1>0, <2>1, <2>2, <2>7, <3>1, <3>3, FollowsShrinks
    <3> QED BY <3>2, <3>3
  <2> QED BY <2>3, <2>7 DEF Fresh
<1>14. CASE OpenThread
  <2>1. UNCHANGED <<wire, cursor, view>>
    BY <1>14, OpenThreadEffect
  <2> QED BY <2>1, FreshKept
<1>15. CASE Reconnect \/ Restart
  BY <1>15, <1>f, NewSocketEffect DEF Fresh, Follows, Past, Cur, IsEvent, IsSync, IsFinal,
          logVars
<1> QED BY <1>1, <1>2, <1>3, <1>4, <1>5, <1>6, <1>7, <1>8, <1>9, <1>10, <1>11, <1>12, <1>13, <1>14,
           <1>15, StepCases

LEMMA FreshAlways == Spec => [](LogInv /\ Base /\ Fresh)
<1>1. Init => Fresh
  <2> SUFFICES ASSUME Init PROVE Fresh
    OBVIOUS
  <2>1. wire = <<>> /\ DOMAIN wire = {}
    BY DEF Init
  <2> QED BY <2>1 DEF Fresh
<1>2. LogInv /\ LogInv' /\ Base /\ Base' /\ Fresh /\ [Next]_vars => Fresh'
  BY FreshStep DEF Base
<1> QED BY <1>1, <1>2, BaseAlways, PTL DEF Spec

\* No text is appended twice: an event that is applied was not in the thread,
\* from a snapshot or from another tap's copy, whatever was dropped on the way
\* (the gap check of useChatSession).
THEOREM NothingTwice == Spec => NothingAppliedTwice
<1>1. LogInv /\ Base /\ Fresh /\ [Next]_vars => [ReceiveEvent => Head(wire).seq \notin view]_vars
  <2> SUFFICES ASSUME LogInv, Base, Fresh, ReceiveEvent PROVE Head(wire).seq \notin view
    OBVIOUS
  <2>1. Types
    BY DEF Base
  <2>2. /\ wire # <<>> /\ Head(wire) = wire[1] /\ 1 \in DOMAIN wire /\ IsEvent(1)
        /\ cursor = Unknown \/ wire[1].seq = cursor + 1
    BY <2>1, WireIndexed DEF ReceiveEvent, Receive, InOrder, IsEvent, Types
  <2>3. wire[1].seq > 0 /\ wire[1].seq \in Nat /\ cursor \in {Unknown} \cup Nat
    <3>1. \A m \in Messages : m.seq \in Nat
      BY Bounds DEF Messages
    <3> QED BY <2>1, <2>2, <3>1, WireIndexed, Bounds DEF Types, TypeOK
  <2>4. CASE Past
    <3>1. Cur \in Nat /\ Cur < wire[1].seq
      BY <2>2, <2>3 DEF Cur, Unknown
    <3>2. wire[1].seq \notin 1..Cur
      BY <2>3, <3>1
    <3> QED BY <2>2, <2>4, <3>2 DEF Past
  <2>5. CASE ~Past
    <3>1. \A n \in view : n < wire[1].seq
      BY <2>2, <2>5 DEF Fresh
    <3> QED BY <2>2, <2>3, <3>1
  <2> QED BY <2>4, <2>5
<1> QED BY <1>1, FreshAlways, PTL DEF Spec, NothingAppliedTwice

-----------------------------------------------------------------------------
\* While the run goes on nothing is missing from the wire.
LEMMA NoGapYet ==
  ASSUME Types, Kinds, Ordered, Active, ReceiveGap
  PROVE  FALSE
<1>1. wire # <<>> /\ IsEvent(1) /\ cursor # Unknown /\ wire[1].seq # cursor + 1
  BY ReceiveGapEffect DEF Receive
<1>2. cursor = wire[1].seq - 1
  BY <1>1 DEF Ordered, HeadOfWire, InStep, Lagging
<1>3. wire[1].seq \in Int
  <2>1. \A m \in Messages : m.seq \in Int
    BY Bounds DEF Messages
  <2> QED BY <1>1, <2>1, WireIndexed DEF Types
<1> QED BY <1>1, <1>2, <1>3

\* What the thread shows and the cursor move together.
LEMMA ShownStep ==
  ASSUME LogInv, LogInv', Types, Types', CountedOnItsWay, Kinds, Kinds',
         Reach, Reach', Before, Unasked, Unserved, Informed, OwnRun, Current, Current',
         Owned, Steady, Readers, Ordered, [Next]_vars
  PROVE  Active' => view' = 1..Cur'
<1> SUFFICES ASSUME Active' PROVE view' = 1..Cur'
  OBVIOUS
<1>b. \A e \in Calls : Fits(calls[e], Active)
  BY DEF Kinds
<1>1. CASE OpenRun
  <2>1. view' = {} /\ Cur' = 0
    BY <1>1, OpenRunEffect DEF Before, Cur
  <2>2. 1..0 = {}
    OBVIOUS
  <2> QED BY <2>1, <2>2
<1>2. CASE LogMove
  BY <1>2, LogMoveEffect DEF Steady, Active, Cur, LogMove
<1>3. CASE Store
  BY <1>3, StoreEffect DEF Steady, Active, Cur
<1>4. CASE EndRun
  <2>1. ~Active'
    BY <1>4, EndRunEffect DEF Active, Fits
  <2> QED BY <2>1
<1>5. ASSUME NEW c \in Calls, AutoSubscribe(c) \/ Announced(c) PROVE view' = 1..Cur'
  BY <1>5, UninvitedEffect DEF Steady, Active, Cur, logVars, boundVars, Others
<1>6. ASSUME NEW c \in Calls, ListRuns(c) PROVE view' = 1..Cur'
  BY <1>6, ListRunsEffect DEF Steady, Active, Cur, logVars, boundVars, Others
<1>7. ASSUME NEW c \in Calls, ReadMeta(c) PROVE view' = 1..Cur'
  BY <1>7, ReadMetaEffect DEF Steady, Active, Cur, logVars, boundVars
<1>8. ASSUME NEW c \in Calls, ReadLog(c) PROVE view' = 1..Cur'
  BY <1>8, ReadLogEffect DEF Steady, Active, Cur, logVars, boundVars, Others
<1>9. ASSUME NEW c \in Calls, CatchUp(c) PROVE view' = 1..Cur'
  BY <1>9, CatchUpEffect DEF Steady, Active, Cur, logVars
<1>10. ASSUME NEW c \in Calls, Reread(c) PROVE view' = 1..Cur'
  <2>1. ~Active'
    BY <1>10, RereadEffect DEF Active, Fits, logVars
  <2> QED BY <2>1
<1>11. ASSUME NEW c \in Calls, SendFinished(c) PROVE view' = 1..Cur'
  <2>1. ~Active'
    BY <1>11, <1>b, SendFinishedEffect DEF Active, Fits, logVars
  <2> QED BY <2>1
<1>12. CASE Heard
  <2>0. /\ Active /\ wire # <<>> /\ wire[1] \in Messages /\ 1 \in DOMAIN wire
        /\ wire[1].seq \in Nat /\ wire[1].seq # Unknown /\ wire[1].active \in BOOLEAN
    <3>1. \A m \in Messages : m.seq \in Nat /\ m.active \in BOOLEAN
      BY Bounds DEF Messages
    <3>2. Active /\ wire # <<>> /\ wire[1] \in Messages /\ 1 \in DOMAIN wire
      BY <1>12, WireIndexed, ReceiveEffect DEF Heard, Active, logVars
    <3> QED BY <3>1, <3>2 DEF Unknown
  <2>1. CASE IsSync(1) /\ view' = 1..wire[1].seq /\ cursor' = IF wire[1].active THEN wire[1].seq ELSE cursor
    <3>1. wire[1].active
      BY <2>0, <2>1 DEF Current, IsFinal
    <3> QED BY <2>0, <2>1, <3>1 DEF Cur
  <2>2. CASE /\ IsEvent(1) /\ view' = view \cup {wire[1].seq} /\ cursor' = wire[1].seq
    <3>1. view = 1..(wire[1].seq - 1)
      BY <2>0, <2>2 DEF Ordered, HeadOfWire, InStep, Lagging
    <3>2. wire[1].seq > 0
      BY <2>0, <2>2 DEF Types
    <3>3. 1..(wire[1].seq - 1) \cup {wire[1].seq} = 1..wire[1].seq
      BY <2>0, <3>2
    <3> QED BY <2>0, <2>2, <3>1, <3>3 DEF Cur
  <2>3. CASE IsEnd(1)
    BY <2>0, <2>3 DEF Ordered, Ends
  <2> QED BY <1>12, <2>1, <2>2, <2>3, ReceiveEffect DEF Heard
<1>13. CASE ReceiveGap
  <2>1. Active
    BY <1>13, ReceiveGapEffect DEF Active, logVars
  <2> QED BY <1>13, <2>1, NoGapYet
<1>14. CASE OpenThread
  BY <1>14, OpenThreadEffect DEF Steady, Active, Cur, logVars, boundVars
<1>15. CASE Reconnect \/ Restart
  BY <1>15, NewSocketEffect, AskingTyped DEF Steady, Active, Cur, logVars
<1> QED BY <1>1, <1>2, <1>3, <1>4, <1>5, <1>6, <1>7, <1>8, <1>9, <1>10, <1>11, <1>12, <1>13, <1>14,
           <1>15, StepCases

\* Nothing is sent before the tap is there.
LEMMA NothingSentStep ==
  ASSUME LogInv, LogInv', Types, Types', CountedOnItsWay, Kinds, Kinds',
         Reach, Reach', Before, Unasked, Unserved, Informed, OwnRun, Current, Current',
         Owned, Steady, Readers, Ordered, [Next]_vars
  PROVE  Active' => NothingSent'
<1> SUFFICES ASSUME Active' PROVE NothingSent'
  OBVIOUS
<1>0. calls \in [Calls -> CallStates] /\ wire \in Seq(Messages)
  BY DEF Types
<1>b. \A e \in Calls : Fits(calls[e], Active)
  BY DEF Kinds
<1>i. Active => NothingSent /\ AskedFromHere
  BY DEF Steady
<1>q. ASSUME Active, UNCHANGED <<wire, cursor>>, Tapped' = {} => Tapped = {}, TookOver => TookOver',
             Uninvited' => Uninvited
      PROVE  NothingSent'
  BY <1>i, <1>q DEF NothingSent
<1>1. CASE OpenRun
  <2>1. wire' = <<>> /\ cursor' = Unknown
    BY <1>1, OpenRunEffect DEF Before
  <2> QED BY <2>1 DEF NothingSent
<1>2. CASE LogMove
  <2>1. Active /\ UNCHANGED <<calls, wire, cursor>>
    BY <1>2, LogMoveEffect DEF LogMove, Active
  <2> QED BY <1>q, <2>1 DEF Tapped, TookOver, Reading, Takes, Uninvited
<1>3. CASE Store
  <2>1. Active /\ calls' = calls /\ cursor' = cursor
    BY <1>3, StoreEffect DEF Active
  <2>2. Tapped' = Tapped /\ (TookOver <=> TookOver') /\ (Uninvited' => Uninvited)
    BY <2>1 DEF Tapped, TookOver, Reading, Takes, Uninvited
  <2>3. CASE Tapped = {}
    <3>1. PICK s \in Seq(Messages) : wire' = wire \o s /\ s = <<>>
      BY <1>3, <2>3, StoreEffect
    <3>2. wire' = wire
      BY <1>0, <3>1
    <3> QED BY <1>q, <2>1, <2>2, <3>2
  <2> QED BY <2>2, <2>3 DEF NothingSent
<1>4. CASE EndRun
  <2>1. ~Active'
    BY <1>4, EndRunEffect DEF Active
  <2> QED BY <2>1
<1>5. ASSUME NEW c \in Calls, AutoSubscribe(c) \/ Announced(c) PROVE NothingSent'
  <2>1. /\ Active /\ UNCHANGED <<wire, cursor>> /\ \A e \in Calls \ {c} : calls'[e] = calls[e]
        /\ calls[c].pc \in {"send", "watch"} /\ ~calls[c].explicit
    BY <1>5, UninvitedEffect DEF Active, Others, logVars
  <2> QED BY <1>q, <2>1 DEF Tapped, TookOver, Reading, Takes, Uninvited
<1>6. ASSUME NEW c \in Calls, ListRuns(c) PROVE NothingSent'
  <2>1. /\ Active /\ UNCHANGED <<wire, cursor>> /\ \A e \in Calls \ {c} : calls'[e] = calls[e]
        /\ calls[c].pc = "authz" /\ calls'[c].explicit = calls[c].explicit
    BY <1>6, ListRunsEffect DEF Active, Others, Kept, logVars
  <2> QED BY <1>q, <2>1 DEF Tapped, TookOver, Reading, Takes, Uninvited
<1>7. ASSUME NEW c \in Calls, ReadMeta(c) PROVE NothingSent'
  <2>1. /\ calls[c].explicit /\ calls[c].pc = "listed" /\ Active /\ run # "over"
        /\ UNCHANGED <<wire, cursor>>
    BY <1>7, <1>b, ReadMetaEffect DEF Fits, Active, logVars
  <2>2. CASE calls'[c] = NoCall /\ \A e \in Calls \ {c} : calls'[e] = calls[e]
    BY <1>q, <2>1, <2>2, NoCallFields DEF Tapped, TookOver, Reading, Takes, Uninvited
  <2>3. CASE subs = Empty /\ Kept(c) /\ \A e \in Calls \ {c} : calls'[e] = calls[e]
    <3>1. wire = <<>> /\ (Uninvited => cursor = Unknown)
      BY <2>1, <2>3 DEF Unserved
    <3>2. Uninvited' => Uninvited
      BY <2>1, <2>3 DEF Uninvited, Kept
    <3> QED BY <2>1, <3>1, <3>2 DEF NothingSent
  <2>4. CASE /\ Kept(c) /\ calls'[c].pc = "read" /\ calls'[c].mode = "catchUp"
             /\ \A e \in Calls \ {c} : calls'[e] = calls[e] \/ calls'[e] = NoCall
    <3>1. CASE calls[c].cursor = 0
      <4>1. c \in Reading' /\ Takes(c)'
        BY <2>1, <2>4, <3>1 DEF Reading, Takes, Kept
      <4> QED BY <4>1 DEF NothingSent, TookOver
    <3>2. CASE calls[c].cursor # 0
      <4>1. wire = <<>> /\ \A e \in Calls \ {c} : calls[e].pc = "idle"
        BY <1>i, <2>1, <3>2 DEF AskedFromHere
      <4>2. ~Uninvited'
        <5>1. \A e \in Calls \ {c} : calls'[e].pc = "idle"
          BY <2>4, <4>1, NoCallFields
        <5>2. calls'[c].explicit
          BY <2>1, <2>4 DEF Kept
        <5> QED BY <5>1, <5>2 DEF Uninvited
      <4> QED BY <2>1, <4>1, <4>2 DEF NothingSent
    <3> QED BY <3>1, <3>2
  <2> QED BY <1>7, <2>1, <2>2, <2>3, <2>4, ReadMetaEffect
<1>8. ASSUME NEW c \in Calls, ReadLog(c) PROVE NothingSent'
  <2>1. /\ Active /\ UNCHANGED <<wire, cursor>> /\ \A e \in Calls \ {c} : calls'[e] = calls[e]
        /\ calls[c].pc = "read" /\ calls'[c].pc = "status" /\ calls'[c].mode = calls[c].mode
        /\ calls'[c].explicit = calls[c].explicit /\ calls'[c].cursor = calls[c].cursor
    BY <1>8, ReadLogEffect DEF Active, Others, logVars
  <2> QED BY <1>q, <2>1 DEF Tapped, TookOver, Reading, Takes, Uninvited
<1>9. ASSUME NEW c \in Calls, CatchUp(c) PROVE NothingSent'
  <2>1. calls'[c].pc = "live"
    BY <1>9, CatchUpEffect DEF Active, Living, NoCall, logVars
  <2> QED BY <2>1 DEF Tapped, NothingSent
<1>10. ASSUME NEW c \in Calls, Reread(c) PROVE NothingSent'
  <2>1. ~Active'
    BY <1>10, RereadEffect DEF Active, logVars
  <2> QED BY <2>1
<1>11. ASSUME NEW c \in Calls, SendFinished(c) PROVE NothingSent'
  <2>1. ~Active'
    BY <1>11, <1>b, SendFinishedEffect DEF Active, Fits, logVars
  <2> QED BY <2>1
<1>12. CASE Heard
  <2>1. Active /\ wire # <<>> /\ calls' = calls
    BY <1>12, ReceiveEffect DEF Heard, Active, logVars
  <2> QED BY <1>i, <2>1 DEF NothingSent, Tapped, TookOver, Reading, Takes
<1>13. CASE ReceiveGap
  <2>1. Active
    BY <1>13, ReceiveGapEffect DEF Active, logVars
  <2> QED BY <1>13, <2>1, NoGapYet
<1>14. CASE OpenThread
  <2>1. \A e \in Calls : calls[e].pc = "idle"
    BY <1>14, OpenThreadEffect DEF Unasked
  <2>2. PICK c \in Calls : calls' = [calls EXCEPT ![c] = Asking]
    BY <1>14, OpenThreadEffect
  <2>3. calls'[c] = Asking /\ \A e \in Calls \ {c} : calls'[e] = calls[e]
    BY <1>0, <2>2
  <2>4. wire' = <<>> /\ ~Uninvited'
    BY <1>14, <2>1, <2>3, AskingTyped, OpenThreadEffect DEF Unasked, Uninvited
  <2> QED BY <2>4 DEF NothingSent
<1>15. CASE Reconnect \/ Restart
  <2>1. wire' = <<>> /\ ~Uninvited'
    BY <1>15, NoCallFields, NewSocketEffect, AskingTyped DEF Uninvited
  <2> QED BY <2>1 DEF NothingSent
<1> QED BY <1>1, <1>2, <1>3, <1>4, <1>5, <1>6, <1>7, <1>8, <1>9, <1>10, <1>11, <1>12, <1>13, <1>14,
           <1>15, StepCases

\* A subscribe that names a cursor names the device's, and is alone.
LEMMA AskedFromStep ==
  ASSUME LogInv, LogInv', Types, Types', CountedOnItsWay, Kinds, Kinds',
         Reach, Reach', Before, Unasked, Unserved, Informed, OwnRun, Current, Current',
         Owned, Steady, Readers, Ordered, [Next]_vars
  PROVE  Active' => AskedFromHere'
<1> DEFINE asks(call) == call.explicit /\ call.cursor # 0
<1> SUFFICES ASSUME Active', NEW o \in Calls, asks(calls'[o])
             PROVE  calls'[o].cursor = cursor' /\ wire' = <<>> /\ \A d \in Calls \ {o} : calls'[d].pc = "idle"
  BY DEF AskedFromHere
<1>0. calls \in [Calls -> CallStates] /\ wire \in Seq(Messages)
  BY DEF Types
<1>b. \A e \in Calls : Fits(calls[e], Active)
  BY DEF Kinds
<1>i. Active /\ asks(calls[o]) =>
        calls[o].cursor = cursor /\ wire = <<>> /\ \A d \in Calls \ {o} : calls[d].pc = "idle"
  BY DEF Steady, AskedFromHere
<1>n. calls'[o] # NoCall
  BY NoCallFields
<1>1. CASE OpenRun
  <2>1. calls'[o] = calls[o] \/ calls'[o] \in {Sending, Watching}
    BY <1>1, OpenRunEffect
  <2>2. calls[o].pc = "idle" \/ calls[o].cursor = 0
    BY <1>1, OpenRunEffect DEF Before
  <2> QED BY <1>b, <1>n, <2>1, <2>2 DEF Sending, Watching, NoCall, Fits
<1>2. CASE LogMove
  <2>1. Active /\ UNCHANGED <<calls, wire, cursor>>
    BY <1>2, LogMoveEffect DEF LogMove, Active
  <2> QED BY <1>i, <2>1
<1>3. CASE Store
  <2>1. Active /\ UNCHANGED <<calls, cursor>>
    BY <1>3, StoreEffect DEF Active
  <2>2. Tapped = {} /\ wire = <<>>
    BY <1>b, <1>i, <2>1 DEF Tapped, Fits
  <2>3. PICK s \in Seq(Messages) : wire' = wire \o s /\ s = <<>>
    BY <1>3, <2>2, StoreEffect
  <2>4. wire' = <<>>
    BY <2>2, <2>3
  <2> QED BY <1>i, <2>1, <2>4
<1>4. CASE EndRun
  <2>1. ~Active'
    BY <1>4, EndRunEffect DEF Active
  <2> QED BY <2>1
<1>5. ASSUME NEW c \in Calls, AutoSubscribe(c) \/ Announced(c) PROVE FALSE
  <2>1. /\ Active /\ \A e \in Calls \ {c} : calls'[e] = calls[e]
        /\ calls[c].pc \in {"send", "watch"} /\ (calls'[c] = NoCall \/ ~calls'[c].explicit)
    BY <1>5, UninvitedEffect DEF Active, Others, logVars
  <2> QED BY <1>i, <1>n, <2>1
<1>6. ASSUME NEW c \in Calls, ListRuns(c)
      PROVE  calls'[o].cursor = cursor' /\ wire' = <<>> /\ \A d \in Calls \ {o} : calls'[d].pc = "idle"
  <2>1. /\ Active /\ UNCHANGED <<wire, cursor>> /\ \A e \in Calls \ {c} : calls'[e] = calls[e]
        /\ calls[c].pc = "authz" /\ calls'[c].explicit = calls[c].explicit /\ calls'[c].cursor = calls[c].cursor
    BY <1>6, ListRunsEffect DEF Active, Others, Kept, logVars
  <2> QED BY <1>i, <2>1
<1>7. ASSUME NEW c \in Calls, ReadMeta(c)
      PROVE  calls'[o].cursor = cursor' /\ wire' = <<>> /\ \A d \in Calls \ {o} : calls'[d].pc = "idle"
  <2>1. /\ Active /\ UNCHANGED <<wire, cursor>> /\ calls[c].pc = "listed"
        /\ \A e \in Calls \ {c} : calls'[e] = calls[e] \/ calls'[e] = NoCall
        /\ calls'[c] = NoCall \/ Kept(c)
    BY <1>7, ReadMetaEffect DEF Active, logVars
  <2>2. calls'[o].explicit = calls[o].explicit /\ calls'[o].cursor = calls[o].cursor
    BY <1>n, <2>1 DEF Kept
  <2>3. o = c
    BY <1>i, <2>1, <2>2
  <2> QED BY <1>i, <2>1, <2>2, <2>3, NoCallFields
<1>8. ASSUME NEW c \in Calls, ReadLog(c)
      PROVE  calls'[o].cursor = cursor' /\ wire' = <<>> /\ \A d \in Calls \ {o} : calls'[d].pc = "idle"
  <2>1. /\ Active /\ UNCHANGED <<wire, cursor>> /\ \A e \in Calls \ {c} : calls'[e] = calls[e]
        /\ calls[c].pc = "read" /\ calls'[c].explicit = calls[c].explicit /\ calls'[c].cursor = calls[c].cursor
    BY <1>8, ReadLogEffect DEF Active, Others, logVars
  <2> QED BY <1>i, <2>1
<1>9. ASSUME NEW c \in Calls, CatchUp(c) PROVE FALSE
  <2>1. /\ Active /\ calls[c].pc = "status" /\ ~calls'[c].explicit
        /\ \A e \in Calls \ {c} : calls'[e] = calls[e]
    BY <1>9, CatchUpEffect DEF Active, Living, NoCall, logVars
  <2> QED BY <1>i, <2>1
<1>10. ASSUME NEW c \in Calls, Reread(c) PROVE FALSE
  BY <1>10, RereadEffect DEF Active, logVars
<1>11. ASSUME NEW c \in Calls, SendFinished(c) PROVE FALSE
  BY <1>11, <1>b, SendFinishedEffect DEF Active, Fits, logVars
<1>12. CASE Heard
  <2>1. Active /\ wire # <<>> /\ calls' = calls
    BY <1>12, ReceiveEffect DEF Heard, Active, logVars
  <2> QED BY <1>i, <2>1
<1>13. CASE ReceiveGap
  <2>1. Active
    BY <1>13, ReceiveGapEffect DEF Active, logVars
  <2> QED BY <1>13, <2>1, NoGapYet
<1>14. CASE OpenThread
  <2>1. /\ \A e \in Calls : calls[e].pc = "idle"
        /\ wire' = <<>> /\ cursor' = cursor
    BY <1>14, OpenThreadEffect DEF Unasked
  <2>2. PICK c \in Calls : calls' = [calls EXCEPT ![c] = Asking]
    BY <1>14, OpenThreadEffect
  <2>3. calls'[c] = Asking /\ \A e \in Calls \ {c} : calls'[e] = calls[e]
    BY <1>0, <2>2
  <2>4. o = c
    BY <1>b, <1>n, <2>1, <2>3 DEF Fits
  <2> QED BY <2>1, <2>3, <2>4, AskingTyped
<1>15. CASE Reconnect \/ Restart
  <2>1. /\ wire' = <<>> /\ cursor' = cursor
        /\ \A e \in Calls : calls'[e] = IF e = 1 /\ claimed THEN Asking ELSE NoCall
    BY <1>15, NewSocketEffect
  <2> QED BY <1>n, <2>1, NoCallFields, AskingTyped
<1> QED BY <1>1, <1>2, <1>3, <1>4, <1>5, <1>6, <1>7, <1>8, <1>9, <1>10, <1>11, <1>12, <1>13, <1>14,
           <1>15, StepCases

LEMMA SteadyStep ==
  ASSUME LogInv, LogInv', Types, Types', CountedOnItsWay, Kinds, Kinds',
         Reach, Reach', Before, Unasked, Unserved, Informed, OwnRun, Current, Current',
         Owned, Steady, Readers, Ordered, [Next]_vars
  PROVE  Steady'
BY ShownStep, NothingSentStep, AskedFromStep DEF Steady

\* A subscribe with nothing to fold is in step with the log.
LEMMA TapOnlyStep ==
  ASSUME LogInv, LogInv', Types, Types', CountedOnItsWay, Kinds, Kinds',
         Reach, Reach', Before, Unasked, Unserved, Informed, OwnRun, Current, Current',
         Owned, Steady, Readers, Ordered, [Next]_vars
  PROVE  \A o \in Calls : calls'[o].pc \in {"read", "status", "reread"} /\ Active' /\ calls'[o].mode = "tapOnly" =>
           InStep(calls[o].cursor)'
<1> SUFFICES ASSUME NEW o \in Calls, calls'[o].pc \in {"read", "status", "reread"}, Active', calls'[o].mode = "tapOnly"
             PROVE  InStep(calls[o].cursor)'
  OBVIOUS
<1>0. /\ calls \in [Calls -> CallStates] /\ calls' \in [Calls -> CallStates]
      /\ wire \in Seq(Messages) /\ wire' \in Seq(Messages)
  BY DEF Types
<1>b. \A e \in Calls : Fits(calls[e], Active)
  BY DEF Kinds
<1>i. /\ calls[o].pc \in {"read", "status", "reread"} /\ Active /\ calls[o].mode = "tapOnly"
         => InStep(calls[o].cursor)
  BY DEF Readers, Reading
<1>1. CASE OpenRun
  <2>1. calls'[o].pc \in {"idle", "authz", "listed", "send", "watch"}
    BY <1>1, OpenRunEffect DEF Before, Asked, NoCall, Sending, Watching
  <2> QED BY <2>1
<1>2. CASE LogMove
  <2>1. Active /\ calls'[o] = calls[o] /\ UNCHANGED <<view, cursor>>
    BY <1>2, LogMoveEffect DEF Active, LogMove
  <2> QED BY <1>i, <2>1 DEF InStep
<1>3. CASE Store
  <2>1. Active /\ calls'[o] = calls[o] /\ UNCHANGED <<view, cursor>>
    BY <1>3, StoreEffect DEF Active
  <2> QED BY <1>i, <2>1 DEF InStep
<1>4. CASE EndRun
  <2>1. ~Active'
    BY <1>4, EndRunEffect DEF Active, Fits
  <2> QED BY <2>1
<1>5. ASSUME NEW c \in Calls, AutoSubscribe(c) \/ Announced(c) PROVE InStep(calls[o].cursor)'
  <2>1. o # c
    BY <1>5, NoCallFields, UninvitedEffect
  <2>2. Active /\ calls'[o] = calls[o] /\ UNCHANGED <<view, cursor>>
    BY <1>5, <2>1, UninvitedEffect DEF Active, Others, logVars
  <2> QED BY <1>i, <2>2 DEF InStep
<1>6. ASSUME NEW c \in Calls, ListRuns(c) PROVE InStep(calls[o].cursor)'
  <2>1. o # c
    BY <1>6, ListRunsEffect
  <2>2. Active /\ calls'[o] = calls[o] /\ UNCHANGED <<view, cursor>>
    BY <1>6, <2>1, ListRunsEffect DEF Active, Others, logVars
  <2> QED BY <1>i, <2>2 DEF InStep
<1>7. ASSUME NEW c \in Calls, ReadMeta(c) PROVE InStep(calls[o].cursor)'
  <2>1. Active /\ UNCHANGED <<view, cursor>> /\ calls[c].pc = "listed" /\ calls[c].explicit
    BY <1>7, <1>b, ReadMetaEffect DEF Active, logVars, Fits
  <2>2. CASE o # c
    <3>1. calls'[o] = calls[o]
      BY <1>7, <2>2, NoCallFields, ReadMetaEffect
    <3> QED BY <1>i, <2>1, <3>1 DEF InStep
  <2>3. CASE o = c
    <3>1. counted <= calls[c].cursor /\ calls'[c].cursor = calls[c].cursor
      BY <1>7, <2>1, <2>3, NoCallFields, ReadMetaEffect DEF Kept
    <3>2. run # "lost" /\ calls[c].cursor <= stored /\ cursor <= stored
      BY <2>1 DEF Active, Reach
    <3>3. /\ stored \in Nat /\ counted \in Nat /\ stored <= counted /\ calls[c].cursor \in Nat
          /\ cursor \in {Unknown} \cup Nat
      BY CallFields, InvBounds, Bounds DEF Types, TypeOK
    <3>4. view = 1..Cur /\ (calls[c].cursor # 0 => calls[c].cursor = cursor)
      BY <2>1 DEF Steady, AskedFromHere
    <3>5. cursor \in {Unknown, calls[c].cursor} /\ Cur = calls[c].cursor
      BY <3>1, <3>2, <3>3, <3>4 DEF Cur, Unknown
    <3> QED BY <2>1, <2>3, <3>1, <3>4, <3>5 DEF InStep
  <2> QED BY <2>2, <2>3
<1>8. ASSUME NEW c \in Calls, ReadLog(c) PROVE InStep(calls[o].cursor)'
  <2>1. /\ Active /\ UNCHANGED <<view, cursor>> /\ calls'[o].cursor = calls[o].cursor
        /\ calls'[o].mode = calls[o].mode /\ calls[o].pc \in {"read", "status", "reread"}
    BY <1>8, ReadLogEffect DEF Active, Others, logVars
  <2> QED BY <1>i, <2>1 DEF InStep
<1>9. ASSUME NEW c \in Calls, CatchUp(c) PROVE InStep(calls[o].cursor)'
  <2>1. Active /\ UNCHANGED <<view, cursor>>
    BY <1>9, CatchUpEffect DEF Active, logVars
  <2>2. calls'[c].pc = "live" /\ \A e \in Calls \ {c} : calls'[e] = calls[e]
    BY <1>9, <2>1, CatchUpEffect DEF Living, NoCall
  <2> QED BY <1>i, <2>1, <2>2 DEF InStep
<1>10. ASSUME NEW c \in Calls, Reread(c) PROVE InStep(calls[o].cursor)'
  <2>1. ~Active'
    BY <1>10, RereadEffect DEF Active, Fits, logVars
  <2> QED BY <2>1
<1>11. ASSUME NEW c \in Calls, SendFinished(c) PROVE InStep(calls[o].cursor)'
  <2>1. ~Active'
    BY <1>11, <1>b, SendFinishedEffect DEF Active, Fits, logVars
  <2> QED BY <2>1
<1>12. CASE Heard
  <2>1. Active /\ wire # <<>> /\ calls' = calls
    BY <1>12, ReceiveEffect DEF Heard, Active, logVars
  <2>2. PICK t \in Serving : calls[t].pc = "live" \/ calls[t].mode = "catchUp"
    BY <2>1 DEF Steady, NothingSent, Tapped, TookOver, Takes, Serving
  <2>3. o = t
    BY <2>1, <2>2 DEF Owned, Serving, Reading
  <2> QED BY <2>1, <2>2, <2>3
<1>13. CASE ReceiveGap
  <2>1. Active
    BY <1>13, ReceiveGapEffect DEF Active, logVars
  <2> QED BY <1>13, <2>1, NoGapYet
<1>14. CASE OpenThread
  <2>1. \A e \in Calls : calls[e].pc = "idle"
    BY <1>14, OpenThreadEffect DEF Unasked
  <2>2. calls'[o].pc \in {"idle", "authz"}
    BY <1>14, <1>0, <2>1, OpenThreadEffect, AskingTyped
  <2> QED BY <2>2
<1>15. CASE Reconnect \/ Restart
  <2>1. calls'[o].pc \in {"idle", "authz"}
    BY <1>15, NewSocketEffect, AskingTyped, NoCallFields
  <2> QED BY <2>1
<1> QED BY <1>1, <1>2, <1>3, <1>4, <1>5, <1>6, <1>7, <1>8, <1>9, <1>10, <1>11, <1>12, <1>13, <1>14,
           <1>15, StepCases

\* A subscribe that is behind has read past all that is on its way.
LEMMA BehindStep ==
  ASSUME LogInv, LogInv', Types, Types', CountedOnItsWay, Kinds, Kinds',
         Reach, Reach', Before, Unasked, Unserved, Informed, OwnRun, Current, Current',
         Owned, Steady, Readers, Ordered, [Next]_vars
  PROVE  \A o \in Calls : calls'[o].pc = "status" /\ Behind(o)' => ReadPast(o)'
<1> SUFFICES ASSUME NEW o \in Calls, calls'[o].pc = "status", Behind(o)'
             PROVE  ReadPast(o)'
  OBVIOUS
<1>0. /\ calls \in [Calls -> CallStates] /\ calls' \in [Calls -> CallStates]
      /\ wire \in Seq(Messages) /\ wire' \in Seq(Messages)
  BY DEF Types
<1>i. calls[o].pc = "status" /\ Behind(o) => ReadPast(o)
  BY DEF Readers, Reading
<1>t. calls[o].pc = "status" => Tapped = {} /\ \A e \in Calls \ {o} : e \notin Serving
  BY DEF Owned, Serving, Reading, Tapped
<1>q. ASSUME UNCHANGED <<wire, cursor, stored>>, calls'[o] = calls[o], Active' => Active PROVE ReadPast(o)'
  <2>1. Behind(o)
    BY <1>q DEF Behind
  <2> QED BY <1>i, <1>q, <2>1 DEF ReadPast, Takes, IsEnd
<1>1. CASE OpenRun
  <2>1. calls'[o].pc \in {"idle", "authz", "listed", "send", "watch"}
    BY <1>1, OpenRunEffect DEF Before, Asked, NoCall, Sending, Watching
  <2> QED BY <2>1
<1>2. CASE LogMove
  <2>1. UNCHANGED <<wire, cursor, stored, calls>> /\ (Active' => Active)
    BY <1>2, LogMoveEffect DEF LogMove, Active
  <2> QED BY <1>q, <2>1
<1>3. CASE Store
  <2>1. Active /\ calls' = calls /\ cursor' = cursor /\ Behind(o)
    BY <1>3, StoreEffect DEF Active, Behind
  <2>2. ReadPast(o) /\ Tapped = {}
    BY <1>i, <1>t, <2>1
  <2>3. PICK s \in Seq(Messages) : wire' = wire \o s /\ s = <<>>
    BY <1>3, <2>2, StoreEffect
  <2>4. wire' = wire
    BY <1>0, <2>3
  <2> QED BY <2>1, <2>2, <2>4 DEF ReadPast, Takes, IsEnd
<1>4. CASE EndRun
  <2>1. calls'[o] = calls[o] /\ cursor' = cursor /\ stored' = stored /\ Active
    BY <1>4, NoCallFields, EndRunEffect DEF Active
  <2>2. Cardinality(Tapped) = 0
    BY <1>t, <2>1, CountTapped
  <2>3. PICK s \in Seq(Messages) : wire' = wire \o s /\ Len(s) = 0
    BY <1>4, <2>2, EndRunEffect
  <2>4. s = <<>>
    BY <2>3, EmptySeq
  <2>5. wire' = wire
    BY <1>0, <2>3, <2>4
  <2> QED BY <1>q, <2>1, <2>5
<1>5. ASSUME NEW c \in Calls, AutoSubscribe(c) \/ Announced(c) PROVE ReadPast(o)'
  <2>1. o # c
    BY <1>5, NoCallFields, UninvitedEffect
  <2>2. calls'[o] = calls[o] /\ UNCHANGED <<wire, cursor, run, stored>>
    BY <1>5, <2>1, UninvitedEffect DEF Others, logVars
  <2> QED BY <1>q, <2>2 DEF Active
<1>6. ASSUME NEW c \in Calls, ListRuns(c) PROVE ReadPast(o)'
  <2>1. o # c
    BY <1>6, ListRunsEffect
  <2>2. calls'[o] = calls[o] /\ UNCHANGED <<wire, cursor, run, stored>>
    BY <1>6, <2>1, ListRunsEffect DEF Others, logVars
  <2> QED BY <1>q, <2>2 DEF Active
<1>7. ASSUME NEW c \in Calls, ReadMeta(c) PROVE ReadPast(o)'
  <2>1. o # c
    BY <1>7, NoCallFields, ReadMetaEffect
  <2>2. calls'[o] = calls[o] /\ UNCHANGED <<wire, cursor, run, stored>>
    BY <1>7, NoCallFields, <2>1, ReadMetaEffect DEF logVars
  <2> QED BY <1>q, <2>2 DEF Active
<1>8. ASSUME NEW c \in Calls, ReadLog(c) PROVE ReadPast(o)'
  <2>1. /\ UNCHANGED <<wire, cursor, run, stored>> /\ calls[c].pc = "read"
        /\ calls'[c].seen = stored /\ \A e \in Calls \ {c} : calls'[e] = calls[e]
        /\ calls'[c].explicit = calls[c].explicit /\ calls'[c].mode = calls[c].mode
        /\ calls'[c].cursor = calls[c].cursor
    BY <1>8, ReadLogEffect DEF Others, logVars
  <2>2. CASE o # c
    BY <1>q, <2>1, <2>2 DEF Active
  <2>3. CASE o = c
    <3>1. Active
      BY <2>1, <2>3, InvBounds DEF Behind, Active
    <3>2. Tapped = {} /\ Reading = {c}
      BY <2>1 DEF Owned, Serving, Reading, Tapped
    <3>3. cursor <= stored /\ \A i \in DOMAIN wire : ~IsEnd(i) /\ wire[i].seq <= stored
      BY <3>1 DEF Reach, Active, Ordered, Ends
    <3>4. Takes(c) \/ wire = <<>>
      BY <3>1, <3>2 DEF Steady, NothingSent, TookOver
    <3> QED BY <2>1, <2>3, <3>3, <3>4 DEF ReadPast, Takes, IsEnd
  <2> QED BY <2>2, <2>3
<1>9. ASSUME NEW c \in Calls, CatchUp(c) PROVE ReadPast(o)'
  <2>1. o # c /\ c \in Serving
    BY <1>9, NoCallFields, CatchUpEffect DEF Serving, Reading, Living, NoCall
  <2>2. calls'[o] = calls[o]
    BY <1>9, <2>1, CatchUpEffect
  <2> QED BY <1>t, <2>1, <2>2
<1>10. ASSUME NEW c \in Calls, Reread(c) PROVE ReadPast(o)'
  <2>1. o # c /\ c \in Serving /\ calls'[o] = calls[o]
    BY <1>10, RereadEffect DEF Others, Serving, Reading, Active, logVars
  <2> QED BY <1>t, <2>1
<1>11. ASSUME NEW c \in Calls, SendFinished(c) PROVE ReadPast(o)'
  <2>1. o # c /\ c \in Serving /\ calls'[o] = calls[o]
    BY <1>11, NoCallFields, SendFinishedEffect DEF Others, Serving, Reading, logVars
  <2> QED BY <1>t, <2>1
<1>s. ASSUME Receive, UNCHANGED <<run, stored>>, calls'[o] = calls[o],
             cursor' = cursor \/ cursor' = wire[1].seq
      PROVE  ReadPast(o)'
  <2>1. ReadPast(o)
    BY <1>i, <1>s DEF Behind, Active
  <2>2. 1 \in DOMAIN wire /\ \A i \in DOMAIN wire' : i + 1 \in DOMAIN wire /\ wire'[i] = wire[i + 1]
    BY <1>0, <1>s, WireShrinks, WireIndexed
  <2>3. Takes(o)'
    BY <1>s, <2>1, <2>2 DEF ReadPast, Takes
  <2> QED BY <1>s, <2>1, <2>2, <2>3 DEF ReadPast, IsEnd
<1>12. CASE Heard
  <2>1. Receive /\ UNCHANGED <<calls, run, stored>> /\ (cursor' = cursor \/ cursor' = wire[1].seq)
    BY <1>12, ReceiveEffect DEF Heard, logVars
  <2> QED BY <1>s, <2>1
<1>13. CASE ReceiveGap
  <2>1. Receive /\ UNCHANGED <<run, stored, cursor>> /\ calls'[o] = calls[o]
    BY <1>13, <1>0, ReceiveGapEffect DEF logVars
  <2> QED BY <1>s, <2>1
<1>14. CASE OpenThread
  <2>1. \A e \in Calls : calls[e].pc = "idle"
    BY <1>14, OpenThreadEffect DEF Unasked
  <2>2. calls'[o].pc \in {"idle", "authz"}
    BY <1>14, <1>0, <2>1, OpenThreadEffect, AskingTyped
  <2> QED BY <2>2
<1>15. CASE Reconnect \/ Restart
  <2>1. calls'[o].pc \in {"idle", "authz"}
    BY <1>15, NewSocketEffect, AskingTyped, NoCallFields
  <2> QED BY <2>1
<1> QED BY <1>1, <1>2, <1>3, <1>4, <1>5, <1>6, <1>7, <1>8, <1>9, <1>10, <1>11, <1>12, <1>13, <1>14,
           <1>15, StepCases

LEMMA ReadersStep ==
  ASSUME LogInv, LogInv', Types, Types', CountedOnItsWay, Kinds, Kinds',
         Reach, Reach', Before, Unasked, Unserved, Informed, OwnRun, Current, Current',
         Owned, Steady, Readers, Ordered, [Next]_vars
  PROVE  Readers'
BY TapOnlyStep, BehindStep DEF Readers, Reading

\* The messages' numbers.
LEMMA WireNumbers ==
  ASSUME Types
  PROVE  /\ wire \in Seq(Messages) /\ Len(wire) \in Nat /\ DOMAIN wire = 1..Len(wire)
         /\ (wire = <<>> <=> Len(wire) = 0)
         /\ wire # <<>> => 1 \in DOMAIN wire /\ Len(wire) \in DOMAIN wire
         /\ \A i \in DOMAIN wire : /\ wire[i].seq \in Nat /\ wire[i].active \in BOOLEAN
                                   /\ IsEvent(i) \/ IsSync(i) \/ IsEnd(i)
                                   /\ i \in Nat /\ i >= 1
         /\ cursor \in {Unknown} \cup Nat /\ Unknown = -1
<1>1. \A m \in Messages : m.seq \in Nat /\ m.active \in BOOLEAN /\ m.type \in {"event", "sync", "end"}
  BY Bounds DEF Messages
<1>2. wire \in Seq(Messages) /\ cursor \in {Unknown} \cup Nat
  BY Bounds DEF Types, TypeOK
<1> QED BY <1>1, <1>2, WireIndexed DEF IsEvent, IsSync, IsEnd, Unknown

\* Counting from a to b.
LEMMA Counting ==
  ASSUME NEW a \in Nat, NEW b \in Nat, a < b
  PROVE  /\ 1 \in 1..(b - a) /\ b - a \in 1..(b - a) /\ a + (b - a) = b
         /\ \A k \in 1..(b - a) : /\ k \in Nat /\ k >= 1
                                  /\ k # 1 => k - 1 \in 1..(b - a) /\ a + k = a + (k - 1) + 1
OBVIOUS

\* Steps that send nothing and show nothing.
LEMMA OrderedKept ==
  ASSUME Ordered, UNCHANGED <<wire, cursor, view, stored>>, Active' => Active,
         Tapped' # {} => Tapped # {}
  PROVE  Ordered'
BY DEF Ordered, Follows, Snapshots, Ends, HeadOfWire, TailOfWire, InStep, Lagging, IsEvent,
        IsSync, IsEnd, IsFinal

\* With nothing on its way and nobody serving there is no order to keep.
LEMMA OrderedEmpty ==
  ASSUME wire' = <<>>, Tapped' = {}
  PROVE  Ordered'
<1>1. DOMAIN wire' = {}
  OBVIOUS
<1> QED BY <1>1 DEF Ordered, Snapshots, Ends, HeadOfWire, TailOfWire

\* While the run goes on there are records and snapshots of it on the wire.
LEMMA OnlyRecords ==
  ASSUME Types, Current, Ordered, Active
  PROVE  \A i \in DOMAIN wire : (IsEvent(i) \/ IsSync(i)) /\ ~IsFinal(i) /\ ~IsEnd(i)
BY WireNumbers DEF Ordered, Ends, Current

\* The snapshots of a running run keep their neighbours.
LEMMA SnapshotsGrow ==
  ASSUME Types, Current, Ordered, Active, NEW s \in Seq(Messages), wire' = wire \o s,
         UNCHANGED <<stored>> \/ stored' > stored,
         \A i \in DOMAIN wire' : i \in DOMAIN wire \/ ~IsSync(i)'
  PROVE  Snapshots'
<1>1. /\ \A i \in DOMAIN wire : i \in DOMAIN wire' /\ wire'[i] = wire[i]
      /\ wire \in Seq(Messages) /\ DOMAIN wire = 1..Len(wire) /\ Len(wire) \in Nat
  BY WireNumbers, WireGrows
<1> SUFFICES ASSUME NEW i \in DOMAIN wire', IsSync(i)', i > 1
             PROVE  ~IsEnd(i - 1)' /\ wire'[i - 1].seq <= wire'[i].seq /\ ~IsFinal(i)'
  BY DEF Snapshots
<1>2. i \in DOMAIN wire
  OBVIOUS
<1>3. i - 1 \in DOMAIN wire
  BY <1>1, <1>2
<1>4. wire'[i] = wire[i] /\ wire'[i - 1] = wire[i - 1]
  BY <1>1, <1>2, <1>3
<1>5. ~IsEnd(i - 1) /\ ~IsFinal(i) /\ IsSync(i)
  BY <1>2, <1>3, <1>4, OnlyRecords DEF IsSync
<1>6. wire[i - 1].seq <= wire[i].seq
  BY <1>2, <1>5 DEF Ordered, Snapshots
<1> QED BY <1>4, <1>5, <1>6 DEF IsEnd, IsFinal, IsSync

\* One tap forwards records as they are stored.
LEMMA OrderedStored ==
  ASSUME Types, Current, Ordered, Active, UNCHANGED <<cursor, view, run>>, Tapped # {},
         NEW s \in Seq(Messages), wire' = wire \o s, stored \in Nat, stored' \in Nat, stored < stored',
         Len(s) = stored' - stored, \A k \in 1..(stored' - stored) : s[k] = Event(stored + k)
  PROVE  Ordered'
<1>n. PICK n \in Nat : n = Len(wire)
  BY WireNumbers
<1>1. /\ n \in Nat /\ DOMAIN wire = 1..n /\ wire \in Seq(Messages) /\ Len(wire) = n
      /\ wire = <<>> <=> n = 0
      /\ wire # <<>> => 1 \in DOMAIN wire /\ n \in DOMAIN wire
  BY <1>n, WireNumbers
<1>2. /\ Len(wire') = n + Len(s) /\ DOMAIN wire' = 1..(n + Len(s))
      /\ \A i \in DOMAIN wire : i \in DOMAIN wire' /\ wire'[i] = wire[i]
      /\ \A k \in 1..Len(s) : n + k \in DOMAIN wire' /\ wire'[n + k] = s[k]
  BY <1>1, WireGrows
<1>3. \A i \in DOMAIN wire' : i \in DOMAIN wire \/ \E k \in 1..(stored' - stored) : i = n + k
  <2>1. DOMAIN s = 1..(stored' - stored)
    BY LenProperties
  <2>2. \A i \in DOMAIN wire' : i \in DOMAIN wire \/ \E k \in DOMAIN s : i = Len(wire) + k
    <3>1. \A i \in DOMAIN wire' :
            i \in DOMAIN wire \/ \E k \in DOMAIN s : i = Len(wire) + k /\ wire'[i] = s[k]
      BY <1>1, WireGrows
    <3> QED BY <3>1
  <2> QED BY <1>1, <2>1, <2>2
<1>4. \A k \in 1..(stored' - stored) : /\ k \in Nat /\ k >= 1 /\ n + k \in DOMAIN wire'
                                       /\ IsEvent(n + k)' /\ wire'[n + k].seq = stored + k
  <2> SUFFICES ASSUME NEW k \in 1..(stored' - stored)
               PROVE  /\ k \in Nat /\ k >= 1 /\ n + k \in DOMAIN wire'
                      /\ IsEvent(n + k)' /\ wire'[n + k].seq = stored + k
    OBVIOUS
  <2>1. wire'[n + k] = Event(stored + k) /\ n + k \in DOMAIN wire'
    BY <1>2
  <2> QED BY <2>1 DEF Event, IsEvent
<1>5. \A i \in DOMAIN wire : (IsEvent(i) \/ IsSync(i)) /\ ~IsFinal(i) /\ ~IsEnd(i)
  BY OnlyRecords
<1>6. \A i \in DOMAIN wire' : i \in DOMAIN wire \/ ~IsSync(i)'
  BY <1>3, <1>4 DEF IsEvent, IsSync
<1>7. \A i \in DOMAIN wire' : ~IsEnd(i)' /\ ~IsFinal(i)'
  BY <1>2, <1>3, <1>4, <1>5 DEF IsEvent, IsSync, IsEnd, IsFinal
<1>8. ASSUME NEW i \in DOMAIN wire', IsEvent(i)', i > 1 PROVE Follows(i)'
  <2>1. CASE i \in DOMAIN wire
    <3>1. Follows(i)
      BY <1>2, <1>8, <2>1 DEF Ordered, IsEvent
    <3> QED BY <1>1, <2>1, <3>1, FollowsGrows
  <2>2. CASE i \notin DOMAIN wire
    <3>1. PICK k \in 1..(stored' - stored) : i = n + k
      BY <1>3, <2>2
    <3>2. wire'[i].seq = stored + k /\ k \in Nat /\ k >= 1
      BY <1>4, <3>1
    <3>3. CASE k = 1
      <4>1. wire # <<>> /\ i - 1 = n /\ i - 1 \in DOMAIN wire
        BY <1>1, <1>8, <3>1, <3>3
      <4>2. wire[i - 1].seq = stored
        BY <1>1, <4>1 DEF Ordered, TailOfWire
      <4>3. wire'[i - 1] = wire[i - 1] /\ i - 1 \in DOMAIN wire'
        BY <1>2, <4>1
      <4>4. IsEvent(i - 1)' \/ IsSync(i - 1)'
        BY <1>5, <4>1, <4>3 DEF IsEvent, IsSync
      <4> QED BY <3>2, <3>3, <4>2, <4>3, <4>4 DEF Follows
    <3>4. CASE k # 1
      <4>1. k - 1 \in 1..(stored' - stored) /\ i - 1 = n + (k - 1) /\ stored + k = stored + (k - 1) + 1
        <5>1. k - 1 \in 1..(stored' - stored) /\ stored + k = stored + (k - 1) + 1
          BY <3>4, Counting
        <5>2. i - 1 = n + (k - 1)
          BY <1>n, <3>1, <3>2
        <5> QED BY <5>1, <5>2
      <4>2. i - 1 \in DOMAIN wire' /\ IsEvent(i - 1)' /\ wire'[i - 1].seq = stored + (k - 1)
        BY <1>2, <1>4, <4>1
      <4> QED BY <3>2, <4>1, <4>2 DEF Follows
    <3> QED BY <3>3, <3>4
  <2> QED BY <2>1, <2>2
<1>9. Snapshots' /\ Ends'
  <2>1. Snapshots'
    BY <1>6, SnapshotsGrow
  <2> QED BY <1>7, <2>1 DEF Ends
<1>10. HeadOfWire'
  <2>1. CASE wire # <<>>
    <3>1. wire'[1] = wire[1] /\ 1 \in DOMAIN wire'
      BY <1>1, <1>2, <2>1
    <3>2. IsEvent(1) => InStep(wire[1].seq - 1)
      BY <2>1 DEF Ordered, HeadOfWire, Lagging
    <3> QED BY <1>7, <3>1, <3>2 DEF HeadOfWire, InStep, IsEvent
  <2>2. CASE wire = <<>>
    <3>0. n = 0
      BY <1>1, <2>2
    <3>1. 1 \in 1..(stored' - stored)
      BY Counting
    <3>a. n + 1 = 1
      BY <3>0
    <3>2. wire'[1].seq = stored + 1 /\ 1 \in DOMAIN wire'
      BY <1>2, <1>4, <3>1, <3>a
    <3>3. InStep(stored)
      BY <2>2 DEF Ordered, TailOfWire
    <3>4. stored + 1 - 1 = stored
      OBVIOUS
    <3> QED BY <1>7, <3>2, <3>3, <3>4 DEF HeadOfWire, InStep
  <2> QED BY <2>1, <2>2
<1>11. TailOfWire'
  <2>1. stored' - stored \in 1..(stored' - stored) /\ Len(wire') = n + (stored' - stored)
    BY <1>2, Counting
  <2>2. Len(wire') \in DOMAIN wire' /\ wire'[Len(wire')].seq = stored'
    <3>1. /\ n + (stored' - stored) \in DOMAIN wire'
          /\ wire'[n + (stored' - stored)].seq = stored + (stored' - stored)
      BY <1>4, <2>1
    <3>2. stored + (stored' - stored) = stored'
      BY Counting
    <3> QED BY <2>1, <3>1, <3>2
  <2>3. wire' # <<>>
    BY <2>2
  <2> QED BY <1>7, <2>2, <2>3 DEF TailOfWire
<1> QED BY <1>8, <1>9, <1>10, <1>11 DEF Ordered

\* The end follows the last record.
LEMMA OrderedEnded ==
  ASSUME Types, Current, Ordered, Active, ~Active', UNCHANGED <<cursor, view, stored>>, Tapped # {}, Tapped' = {},
         NEW s \in Seq(Messages), wire' = wire \o s, Len(s) = 1, s[1] = Ended
  PROVE  Ordered'
<1>n. PICK n \in Nat : n = Len(wire)
  BY WireNumbers
<1>1. /\ n \in Nat /\ DOMAIN wire = 1..n /\ wire \in Seq(Messages) /\ Len(wire) = n
      /\ wire = <<>> <=> n = 0
      /\ wire # <<>> => 1 \in DOMAIN wire /\ n \in DOMAIN wire
  BY <1>n, WireNumbers
<1>2. /\ DOMAIN wire' = 1..(n + 1)
      /\ \A i \in DOMAIN wire : i \in DOMAIN wire' /\ wire'[i] = wire[i]
      /\ wire'[n + 1] = Ended
  <2>1. /\ DOMAIN wire' = 1..(n + Len(s))
        /\ \A i \in DOMAIN wire : i \in DOMAIN wire' /\ wire'[i] = wire[i]
        /\ \A k \in 1..Len(s) : wire'[n + k] = s[k]
    BY <1>1, WireGrows
  <2>2. 1 \in 1..Len(s)
    <3>1. 1 \in 1..1
      OBVIOUS
    <3> QED BY <3>1
  <2> QED BY <2>1, <2>2
<1>3. IsEnd(n + 1)' /\ ~IsEvent(n + 1)' /\ ~IsSync(n + 1)'
  BY <1>2 DEF Ended, IsEnd, IsEvent, IsSync
<1>4. \A i \in DOMAIN wire' : i # n + 1 => i \in DOMAIN wire
  BY <1>1, <1>2
<1>5. \A i \in DOMAIN wire : (IsEvent(i) \/ IsSync(i)) /\ ~IsFinal(i) /\ ~IsEnd(i)
  BY OnlyRecords
<1>6. \A i \in DOMAIN wire : ~IsFinal(i)' /\ ~IsEnd(i)' /\ (IsEvent(i)' => IsEvent(i))
  BY <1>2, <1>5 DEF IsEvent, IsSync, IsFinal, IsEnd
<1>7. ASSUME NEW i \in DOMAIN wire', IsEvent(i)', i > 1 PROVE Follows(i)'
  <2>1. i \in DOMAIN wire /\ IsEvent(i)
    BY <1>3, <1>4, <1>6, <1>7
  <2>2. Follows(i)
    BY <1>7, <2>1 DEF Ordered
  <2> QED BY <1>1, <2>1, <2>2, FollowsGrows
<1>8. Snapshots'
  BY <1>3, <1>4, SnapshotsGrow
<1>9. Ends'
  <2> SUFFICES ASSUME NEW i \in DOMAIN wire', IsEnd(i)'
               PROVE  /\ \A j \in 1..(i - 1) : ~IsEnd(j)' /\ ~IsFinal(j)'
                      /\ IF i = 1 THEN view = 1..stored ELSE wire'[i - 1].seq = stored
    BY DEF Ends
  <2>1. i = n + 1 /\ i - 1 = n
    BY <1>1, <1>4, <1>6
  <2>2. \A j \in 1..(i - 1) : ~IsEnd(j)' /\ ~IsFinal(j)'
    BY <1>1, <1>6, <2>1
  <2>3. CASE i = 1
    BY <1>1, <2>1, <2>2, <2>3 DEF Ordered, TailOfWire, InStep
  <2>4. CASE i # 1
    <3>1. wire # <<>> /\ i - 1 \in DOMAIN wire /\ wire'[i - 1] = wire[n]
      BY <1>1, <1>2, <2>1, <2>4
    <3> QED BY <1>1, <2>2, <2>4, <3>1 DEF Ordered, TailOfWire
  <2> QED BY <2>3, <2>4
<1>10. HeadOfWire'
  <2>1. CASE wire # <<>>
    <3>1. wire'[1] = wire[1] /\ 1 \in DOMAIN wire /\ ~IsFinal(1)'
      BY <1>1, <1>2, <1>6, <2>1
    <3>2. IsEvent(1) => InStep(wire[1].seq - 1)
      BY <2>1 DEF Ordered, HeadOfWire, Lagging
    <3> QED BY <3>1, <3>2 DEF HeadOfWire, InStep, IsEvent
  <2>2. CASE wire = <<>>
    <3>1. ~IsEvent(1)' /\ ~IsSync(1)'
      BY <1>1, <1>3, <2>2
    <3> QED BY <3>1 DEF HeadOfWire, IsFinal
  <2> QED BY <2>1, <2>2
<1> QED BY <1>7, <1>8, <1>9, <1>10 DEF Ordered, TailOfWire

\* The snapshot of a finished run may come behind anything.
LEMMA OrderedFinal ==
  ASSUME Types, Reach, run # "lost", Ordered, ~Active, ~Active', UNCHANGED <<cursor, view, stored>>, Tapped' = {},
         NEW s \in Seq(Messages), wire' = wire \o s, Len(s) = 1, s[1] = Sync(stored, FALSE)
  PROVE  Ordered'
<1>n. PICK n \in Nat : n = Len(wire)
  BY WireNumbers
<1>1. /\ n \in Nat /\ DOMAIN wire = 1..n /\ wire \in Seq(Messages) /\ Len(wire) = n
      /\ wire = <<>> <=> n = 0
      /\ wire # <<>> => 1 \in DOMAIN wire
  BY <1>n, WireNumbers
<1>2. /\ DOMAIN wire' = 1..(n + 1) /\ Len(wire') = n + 1
      /\ \A i \in DOMAIN wire : i \in DOMAIN wire' /\ wire'[i] = wire[i]
      /\ wire'[n + 1] = Sync(stored, FALSE)
  <2>1. /\ DOMAIN wire' = 1..(n + Len(s)) /\ Len(wire') = n + Len(s)
        /\ \A i \in DOMAIN wire : i \in DOMAIN wire' /\ wire'[i] = wire[i]
        /\ \A k \in 1..Len(s) : wire'[n + k] = s[k]
    BY <1>1, WireGrows
  <2>2. 1 \in 1..Len(s)
    <3>1. 1 \in 1..1
      OBVIOUS
    <3> QED BY <3>1
  <2> QED BY <2>1, <2>2
<1>3. /\ ~IsEnd(n + 1)' /\ ~IsEvent(n + 1)'
      /\ wire'[n + 1].seq = stored /\ ~wire'[n + 1].active
  BY <1>2 DEF Sync, IsEnd, IsEvent
<1>4. \A i \in DOMAIN wire' : i # n + 1 => i \in DOMAIN wire
  BY <1>1, <1>2
<1>6. \A i \in DOMAIN wire : (IsEvent(i)' <=> IsEvent(i)) /\ (IsSync(i)' <=> IsSync(i)) /\ (IsFinal(i)' <=> IsFinal(i)) /\ (IsEnd(i)' <=> IsEnd(i))
  BY <1>2 DEF IsEvent, IsSync, IsFinal, IsEnd
<1>7. ASSUME NEW i \in DOMAIN wire', IsEvent(i)', i > 1 PROVE Follows(i)'
  <2>1. i \in DOMAIN wire /\ IsEvent(i)
    BY <1>3, <1>4, <1>6, <1>7
  <2>2. Follows(i)
    BY <1>7, <2>1 DEF Ordered
  <2> QED BY <1>1, <2>1, <2>2, FollowsGrows
<1>8. Snapshots'
  <2> SUFFICES ASSUME NEW i \in DOMAIN wire', IsSync(i)', i > 1
               PROVE  IF IsEnd(i - 1)' THEN IsFinal(i)' /\ wire'[i].seq = stored
                      ELSE wire'[i - 1].seq <= wire'[i].seq
    BY DEF Snapshots
  <2>1. CASE i = n + 1
    <3>1. i - 1 = n /\ n \in DOMAIN wire /\ wire'[i - 1] = wire[n]
      BY <1>1, <1>2, <2>1
    <3>2. wire[n].seq <= stored
      BY <3>1 DEF Reach
    <3> QED BY <1>3, <2>1, <3>1, <3>2 DEF IsFinal
  <2>2. CASE i # n + 1
    <3>1. i \in DOMAIN wire /\ i - 1 \in DOMAIN wire
      BY <1>1, <1>2, <2>2
    <3> QED BY <1>2, <1>6, <3>1 DEF Ordered, Snapshots
  <2> QED BY <2>1, <2>2
<1>9. Ends'
  <2> SUFFICES ASSUME NEW i \in DOMAIN wire', IsEnd(i)'
               PROVE  /\ \A j \in 1..(i - 1) : ~IsEnd(j)' /\ ~IsFinal(j)'
                      /\ IF i = 1 THEN view = 1..stored ELSE wire'[i - 1].seq = stored
    BY DEF Ends
  <2>1. i \in DOMAIN wire /\ IsEnd(i) /\ i \in Nat
    BY <1>1, <1>3, <1>4, <1>6
  <2>2. /\ \A j \in 1..(i - 1) : ~IsEnd(j) /\ ~IsFinal(j)
        /\ IF i = 1 THEN view = 1..stored ELSE wire[i - 1].seq = stored
    BY <2>1 DEF Ordered, Ends
  <2>3. \A j \in 1..(i - 1) : j \in DOMAIN wire
    BY <1>1, <2>1
  <2>4. i # 1 => i - 1 \in DOMAIN wire
    BY <1>1, <2>1
  <2> QED BY <1>2, <1>6, <2>2, <2>3, <2>4
<1>10. HeadOfWire'
  <2>1. CASE wire # <<>>
    <3>1. wire'[1] = wire[1] /\ 1 \in DOMAIN wire /\ (IsEvent(1)' <=> IsEvent(1)) /\ (IsFinal(1)' <=> IsFinal(1))
      BY <1>1, <1>2, <1>6, <2>1
    <3>2. \A i \in DOMAIN wire : ~IsEnd(i) => ~IsEnd(i)'
      BY <1>6
    <3>5. IsEvent(1) => InStep(wire[1].seq - 1) \/ Lagging(wire[1].seq)
      BY <2>1 DEF Ordered, HeadOfWire
    <3>6. IsFinal(1) => cursor <= wire[1].seq
      BY <2>1 DEF Ordered, HeadOfWire
    <3>7. IsEvent(1)' => InStep(wire[1].seq - 1)' \/ Lagging(wire[1].seq)'
      <4> DEFINE m == wire[1].seq
      <4>1. wire'[1].seq = m
        BY <3>1
      <4>2. InStep(m - 1) => view' = 1..(m - 1) /\ cursor' \in {Unknown, m - 1}
        BY DEF InStep
      <4>3. Lagging(m) => (Lagging(wire[1].seq))'
        BY <1>3, <1>4, <3>2, <4>1 DEF Lagging
      <4> QED BY <3>1, <3>5, <4>1, <4>2, <4>3 DEF InStep
    <3> QED BY <3>1, <3>6, <3>7 DEF HeadOfWire
  <2>2. CASE wire = <<>>
    <3>0. n = 0 /\ n + 1 = 1
      BY <1>1, <2>2
    <3>1. ~IsEvent(1)' /\ wire'[1].seq = stored
      BY <1>3, <3>0
    <3>2. cursor <= stored
      BY DEF Reach
    <3> QED BY <3>1, <3>2 DEF HeadOfWire
  <2> QED BY <2>1, <2>2
<1> QED BY <1>7, <1>8, <1>9, <1>10 DEF Ordered, TailOfWire

\* A message taken in: the thread shows all up to its number.
LEMMA TakenIn ==
  ASSUME Types, Ordered, Heard
  PROVE  /\ Receive /\ UNCHANGED <<calls, run, stored, drops>> /\ wire # <<>>
         /\ IsSync(1) \/ IsEvent(1) => view' = 1..wire[1].seq
         /\ IsEvent(1) \/ (IsSync(1) /\ ~IsFinal(1)) => cursor' = wire[1].seq
         /\ IsFinal(1) => cursor' = cursor
         /\ IsEnd(1) => view' = view /\ cursor' = cursor
<1>1. /\ Receive /\ UNCHANGED <<calls, run, stored, drops>> /\ wire # <<>> /\ 1 \in DOMAIN wire
  BY WireNumbers, ReceiveEffect DEF Heard, logVars, boundVars
<1>2. wire[1].seq \in Nat /\ cursor \in {Unknown} \cup Nat /\ Unknown = -1
  BY <1>1, WireNumbers
<1>3. CASE IsSync(1) /\ view' = 1..wire[1].seq /\ cursor' = IF wire[1].active THEN wire[1].seq ELSE cursor
  BY <1>1, <1>3 DEF IsSync, IsEvent, IsEnd, IsFinal
<1>4. CASE /\ IsEvent(1) /\ (cursor = Unknown \/ wire[1].seq = cursor + 1)
           /\ view' = view \cup {wire[1].seq} /\ cursor' = wire[1].seq
  <2>1. wire[1].seq > 0
    BY <1>1, <1>4 DEF Types
  <2>2. ~Lagging(wire[1].seq)
    BY <1>2, <1>4 DEF Lagging
  <2>3. view = 1..(wire[1].seq - 1)
    BY <1>1, <1>4, <2>2 DEF Ordered, HeadOfWire, InStep
  <2>4. 1..(wire[1].seq - 1) \cup {wire[1].seq} = 1..wire[1].seq
    BY <1>2, <2>1
  <2> QED BY <1>1, <1>4, <2>3, <2>4 DEF IsSync, IsEvent, IsEnd, IsFinal
<1>5. CASE IsEnd(1) /\ view' = view /\ cursor' = cursor
  BY <1>1, <1>5 DEF IsSync, IsEvent, IsEnd, IsFinal
<1> QED BY <1>3, <1>4, <1>5, ReceiveEffect DEF Heard

\* The wire without its first message.
LEMMA OrderedBehind ==
  ASSUME Types, Ordered, Receive, UNCHANGED <<run, stored>>
  PROVE  /\ \A i \in DOMAIN wire' : IsEvent(i)' /\ i > 1 => Follows(i)'
         /\ Snapshots'
         /\ \A i \in DOMAIN wire' : i + 1 \in DOMAIN wire /\ i + 1 > 1 /\ wire'[i] = wire[i + 1]
         /\ \A i \in DOMAIN wire' : /\ IsEvent(i)' <=> IsEvent(i + 1)
                                    /\ IsEnd(i)' <=> IsEnd(i + 1)
                                    /\ IsSync(i)' <=> IsSync(i + 1)
                                    /\ IsFinal(i)' <=> IsFinal(i + 1)
<1>1. /\ \A i \in DOMAIN wire' : i + 1 \in DOMAIN wire /\ wire'[i] = wire[i + 1]
      /\ \A i \in DOMAIN wire' : i \in Nat /\ i >= 1 /\ i + 1 > 1
  BY WireNumbers, WireShrinks
<1>2. \A i \in DOMAIN wire' : /\ IsEvent(i)' <=> IsEvent(i + 1)
                              /\ IsEnd(i)' <=> IsEnd(i + 1)
                              /\ IsSync(i)' <=> IsSync(i + 1)
                              /\ IsFinal(i)' <=> IsFinal(i + 1)
  BY <1>1 DEF IsEvent, IsEnd, IsSync, IsFinal
<1>3. ASSUME NEW i \in DOMAIN wire', IsEvent(i)', i > 1 PROVE Follows(i)'
  <2>1. Follows(i + 1)
    BY <1>1, <1>2, <1>3 DEF Ordered
  <2> QED BY <1>3, <2>1, WireNumbers, FollowsShrinks
<1>4. Snapshots'
  <2> SUFFICES ASSUME NEW i \in DOMAIN wire', IsSync(i)', i > 1
               PROVE  /\ IF IsEnd(i - 1)' THEN IsFinal(i)' /\ wire'[i].seq = stored
                         ELSE wire'[i - 1].seq <= wire'[i].seq
                      /\ IsFinal(i)' => ~Active
    BY DEF Snapshots, Active
  <2>1. i - 1 \in DOMAIN wire' /\ (i - 1) + 1 = i /\ (i + 1) - 1 = i
    <3>1. DOMAIN wire' = 1..(Len(wire) - 1) /\ Len(wire) \in Nat
      BY WireNumbers, WireShrinks
    <3> QED BY <3>1
  <2>2. IsSync(i + 1) /\ i + 1 > 1 /\ i + 1 \in DOMAIN wire
    BY <1>1, <1>2
  <2>3. /\ IF IsEnd(i) THEN IsFinal(i + 1) /\ wire[i + 1].seq = stored
           ELSE wire[i].seq <= wire[i + 1].seq
        /\ IsFinal(i + 1) => ~Active
    BY <2>1, <2>2 DEF Ordered, Snapshots
  <2>4. wire'[i] = wire[i + 1] /\ wire'[i - 1] = wire[i] /\ (IsEnd(i - 1)' <=> IsEnd(i)) /\ (IsFinal(i)' <=> IsFinal(i + 1))
    BY <1>1, <1>2, <2>1
  <2> QED BY <2>3, <2>4
<1> QED BY <1>1, <1>2, <1>3, <1>4

\* A message is taken in.
LEMMA OrderedReceived ==
  ASSUME Types, Current, Reach', Kinds, Ordered, Heard
  PROVE  Ordered'
<1>1. /\ Receive /\ UNCHANGED <<calls, run, stored>> /\ wire # <<>>
      /\ IsSync(1) \/ IsEvent(1) => view' = 1..wire[1].seq
      /\ IsEvent(1) \/ (IsSync(1) /\ ~IsFinal(1)) => cursor' = wire[1].seq
      /\ IsFinal(1) => cursor' = cursor
  BY TakenIn
<1>2. /\ \A i \in DOMAIN wire' : IsEvent(i)' /\ i > 1 => Follows(i)'
      /\ Snapshots'
      /\ \A i \in DOMAIN wire' : i + 1 \in DOMAIN wire /\ i + 1 > 1 /\ wire'[i] = wire[i + 1]
      /\ \A i \in DOMAIN wire' : /\ IsEvent(i)' <=> IsEvent(i + 1)
                                 /\ IsEnd(i)' <=> IsEnd(i + 1)
                                 /\ IsSync(i)' <=> IsSync(i + 1)
                                 /\ IsFinal(i)' <=> IsFinal(i + 1)
  BY <1>1, OrderedBehind
<1>3. /\ wire \in Seq(Messages) /\ Len(wire) \in Nat /\ DOMAIN wire = 1..Len(wire) /\ 1 \in DOMAIN wire
      /\ IsEvent(1) \/ IsSync(1) \/ IsEnd(1)
      /\ wire[1].seq \in Nat /\ cursor \in {Unknown} \cup Nat
  BY <1>1, WireNumbers
<1>4. /\ DOMAIN wire' = 1..(Len(wire) - 1) /\ Len(wire') = Len(wire) - 1
      /\ wire' = <<>> <=> Len(wire') = 0
  <2>1. wire' \in Seq(Messages) /\ DOMAIN wire' = 1..(Len(wire) - 1) /\ Len(wire') = Len(wire) - 1
    BY <1>1, <1>3, WireShrinks
  <2> QED BY <2>1, EmptySeq
<1>5. Active' <=> Active
  BY <1>1 DEF Active
<1>6. Ends'
  <2> SUFFICES ASSUME NEW i \in DOMAIN wire', IsEnd(i)'
               PROVE  /\ ~Active
                      /\ \A j \in 1..(i - 1) : ~IsEnd(j)' /\ ~IsFinal(j)'
                      /\ IF i = 1 THEN view' = 1..stored ELSE wire'[i - 1].seq = stored
    BY <1>1, <1>5 DEF Ends
  <2>1. i + 1 \in DOMAIN wire /\ IsEnd(i + 1) /\ i \in Nat /\ i >= 1 /\ i + 1 # 1 /\ (i + 1) - 1 = i
    BY <1>2, <1>3, <1>4
  <2>2. ~Active /\ (\A j \in 1..i : ~IsEnd(j) /\ ~IsFinal(j)) /\ wire[i].seq = stored
    BY <2>1 DEF Ordered, Ends
  <2>3. ASSUME NEW j \in 1..(i - 1) PROVE ~IsEnd(j)' /\ ~IsFinal(j)'
    <3>1. j \in DOMAIN wire' /\ j + 1 \in 1..i
      BY <1>3, <1>4, <2>1
    <3> QED BY <1>2, <2>2, <3>1
  <2>4. CASE i = 1
    <3>1. ~IsEnd(1) /\ wire[1].seq = stored
      BY <2>2, <2>4
    <3>2. view' = 1..stored
      BY <1>1, <1>3, <3>1
    <3> QED BY <2>2, <2>3, <2>4, <3>2
  <2>5. CASE i # 1
    <3>1. i - 1 \in DOMAIN wire' /\ (i - 1) + 1 = i
      BY <1>3, <1>4, <2>1, <2>5
    <3>2. wire'[i - 1] = wire[i]
      BY <1>2, <3>1
    <3> QED BY <2>2, <2>3, <2>5, <3>2
  <2> QED BY <2>4, <2>5
<1>7. HeadOfWire'
  <2> SUFFICES ASSUME wire' # <<>>
               PROVE  /\ IsEvent(1)' => InStep(wire[1].seq - 1)' \/ Lagging(wire[1].seq)'
                      /\ IsFinal(1)' => cursor' <= wire'[1].seq
    BY DEF HeadOfWire
  <2>1. 1 \in DOMAIN wire' /\ 2 \in DOMAIN wire /\ wire'[1] = wire[2] /\ 2 > 1 /\ 2 - 1 = 1 /\ Len(wire) > 1
    <3>1. 1 \in DOMAIN wire' /\ 1 + 1 = 2 /\ Len(wire) > 1
      BY <1>3, <1>4
    <3> QED BY <1>2, <3>1
  <2>2. (IsEvent(1)' <=> IsEvent(2)) /\ (IsFinal(1)' <=> IsFinal(2))
    <3>1. 1 + 1 = 2
      OBVIOUS
    <3> QED BY <1>2, <2>1, <3>1
  <2>3. ASSUME IsEvent(1)' PROVE InStep(wire[1].seq - 1)' \/ Lagging(wire[1].seq)'
    <3>1. (IsEvent(1) \/ IsSync(1)) /\ wire'[1].seq = wire[1].seq + 1
      BY <2>1, <2>2, <2>3 DEF Ordered, Follows
    <3>2. view' = 1..wire[1].seq /\ wire'[1].seq - 1 = wire[1].seq
      BY <1>1, <1>3, <3>1
    <3>3. CASE ~IsFinal(1)
      BY <1>1, <3>1, <3>2, <3>3 DEF InStep
    <3>4. CASE IsFinal(1)
      <4>1. cursor' = cursor /\ ~Active' /\ cursor <= wire[1].seq
        BY <1>1, <1>3, <1>5, <2>1, <2>2, <2>3, <3>4 DEF Current, Ordered, HeadOfWire
      <4>2. \A k \in DOMAIN wire' : ~IsEnd(k)'
        <5> SUFFICES ASSUME NEW k \in DOMAIN wire', IsEnd(k + 1) PROVE FALSE
          BY <1>2
        <5>1. k + 1 \in DOMAIN wire /\ 1 \in 1..((k + 1) - 1)
          BY <1>2, <1>3, <1>4
        <5> QED BY <3>4, <5>1 DEF Ordered, Ends
      <4>3. CASE cursor \in {Unknown, wire[1].seq}
        BY <3>2, <4>1, <4>3 DEF InStep
      <4>4. CASE cursor \notin {Unknown, wire[1].seq}
        <5>1. cursor # Unknown /\ cursor + 1 < wire'[1].seq
          BY <1>3, <3>1, <4>1, <4>4
        <5> QED BY <4>1, <4>2, <5>1 DEF Lagging
      <4> QED BY <4>3, <4>4
    <3> QED BY <3>3, <3>4
  <2>4. ASSUME IsFinal(1)' PROVE cursor' <= wire'[1].seq
    <3>1. IF IsEnd(1) THEN wire[2].seq = stored ELSE wire[1].seq <= wire[2].seq
      BY <2>1, <2>2, <2>4 DEF Ordered, Snapshots, IsFinal
    <3>2. CASE IsEnd(1)
      <4>1. run' # "lost" /\ cursor' <= stored'
        BY <2>1 DEF Reach
      <4> QED BY <1>1, <2>1, <3>1, <3>2, <4>1
    <3>3. CASE ~IsEnd(1)
      <4>1. cursor' <= wire[1].seq
        <5>1. CASE IsFinal(1)
          BY <1>1, <5>1 DEF Ordered, HeadOfWire
        <5>2. CASE ~IsFinal(1)
          BY <1>1, <1>3, <3>3, <5>2
        <5> QED BY <5>1, <5>2
      <4>2. wire[2].seq \in Nat /\ wire[1].seq \in Nat /\ cursor' \in {Unknown} \cup Nat /\ Unknown = -1
        BY <1>1, <1>3, <2>1, WireNumbers, TakenIn
      <4> QED BY <2>1, <3>1, <3>3, <4>1, <4>2
    <3> QED BY <3>2, <3>3
  <2> QED BY <2>3, <2>4
<1>8. TailOfWire'
  <2> SUFFICES ASSUME Tapped' # {} PROVE TailOfWire'
    BY DEF TailOfWire
  <2>1. Tapped # {} /\ Active
    BY <1>1 DEF Tapped, Kinds, Fits
  <2>2. ~IsEnd(Len(wire)) /\ wire[Len(wire)].seq = stored
    BY <1>1, <2>1 DEF Ordered, TailOfWire
  <2>3. CASE wire' = <<>>
    <3>0. Len(wire') = 0 /\ Len(wire') = Len(wire) - 1
      BY <1>4, <2>3
    <3>1. Len(wire) = 1
      <4>1. Len(wire) \in Nat
        BY <1>3
      <4> QED BY <3>0, <4>1
    <3>2. wire[1].seq = stored /\ (IsEvent(1) \/ IsSync(1)) /\ ~IsFinal(1)
      BY <1>3, <2>1, <2>2, <3>1 DEF Current
    <3> QED BY <1>1, <2>3, <3>2 DEF TailOfWire, InStep
  <2>4. CASE wire' # <<>>
    <3>0. Len(wire') \in Nat
      BY <1>3, <1>4
    <3>1. PICK l \in Nat : l = Len(wire')
      BY <3>0
    <3>2. l \in DOMAIN wire' /\ l + 1 = Len(wire)
      BY <1>3, <1>4, <2>4, <3>1
    <3>3. wire'[l] = wire[Len(wire)] /\ ~IsEnd(l)'
      BY <1>2, <2>2, <3>2
    <3>4. ~IsEnd(Len(wire))' /\ wire'[Len(wire')].seq = stored'
      BY <1>1, <2>2, <3>1, <3>3 DEF IsEnd
    <3> QED BY <2>4, <3>4 DEF TailOfWire
  <2> QED BY <2>3, <2>4
<1> QED BY <1>2, <1>6, <1>7, <1>8 DEF Ordered

\* A record past the cursor is passed over.
LEMMA OrderedGap ==
  ASSUME Types, Types', Kinds, Kinds', Reach', Ordered, ReceiveGap
  PROVE  Ordered'
<1>1. /\ Receive /\ UNCHANGED <<run, stored, cursor, view>> /\ wire # <<>>
      /\ IsEvent(1) /\ cursor # Unknown /\ wire[1].seq # cursor + 1
  BY ReceiveGapEffect DEF Receive, logVars
<1>2. /\ \A i \in DOMAIN wire' : IsEvent(i)' /\ i > 1 => Follows(i)'
      /\ Snapshots'
      /\ \A i \in DOMAIN wire' : i + 1 \in DOMAIN wire /\ i + 1 > 1 /\ wire'[i] = wire[i + 1]
      /\ \A i \in DOMAIN wire' : /\ IsEvent(i)' <=> IsEvent(i + 1)
                                 /\ IsEnd(i)' <=> IsEnd(i + 1)
                                 /\ IsSync(i)' <=> IsSync(i + 1)
                                 /\ IsFinal(i)' <=> IsFinal(i + 1)
  BY <1>1, OrderedBehind
<1>3. /\ wire \in Seq(Messages) /\ Len(wire) \in Nat /\ DOMAIN wire = 1..Len(wire) /\ 1 \in DOMAIN wire
      /\ wire[1].seq \in Nat /\ cursor \in {Unknown} \cup Nat
  BY <1>1, WireNumbers
<1>4. /\ DOMAIN wire' = 1..(Len(wire) - 1) /\ Len(wire') = Len(wire) - 1
      /\ wire' = <<>> <=> Len(wire') = 0
  <2>1. wire' \in Seq(Messages) /\ DOMAIN wire' = 1..(Len(wire) - 1) /\ Len(wire') = Len(wire) - 1
    BY <1>1, <1>3, WireShrinks
  <2> QED BY <2>1, EmptySeq
<1>5. Lagging(wire[1].seq)
  <2>1. ~InStep(wire[1].seq - 1)
    BY <1>1, <1>3 DEF InStep
  <2> QED BY <1>1, <2>1 DEF Ordered, HeadOfWire
<1>6. /\ ~Active /\ ~Active' /\ cursor + 1 < wire[1].seq
      /\ \A i \in DOMAIN wire' : ~IsEnd(i)'
  BY <1>1, <1>2, <1>5 DEF Lagging, Active
<1>7. Tapped' = {}
  BY <1>6 DEF Tapped, Kinds, Fits
<1>8. HeadOfWire'
  <2> SUFFICES ASSUME wire' # <<>>
               PROVE  /\ IsEvent(1)' => Lagging(wire[1].seq)'
                      /\ IsFinal(1)' => cursor' <= wire'[1].seq
    BY DEF HeadOfWire
  <2>1. 1 \in DOMAIN wire' /\ 2 \in DOMAIN wire /\ wire'[1] = wire[2] /\ 2 > 1 /\ 2 - 1 = 1
    <3>1. 1 \in DOMAIN wire' /\ 1 + 1 = 2
      BY <1>3, <1>4
    <3> QED BY <1>2, <3>1
  <2>2. (IsEvent(1)' <=> IsEvent(2)) /\ (IsFinal(1)' <=> IsFinal(2))
    <3>1. 1 + 1 = 2
      OBVIOUS
    <3> QED BY <1>2, <2>1, <3>1
  <2>3. ASSUME IsEvent(1)' PROVE Lagging(wire[1].seq)'
    <3>1. wire'[1].seq = wire[1].seq + 1
      BY <2>1, <2>2, <2>3 DEF Ordered, Follows
    <3>2. cursor' + 1 < wire'[1].seq /\ cursor' # Unknown
      BY <1>1, <1>3, <1>6, <3>1
    <3> QED BY <1>6, <3>2 DEF Lagging
  <2>4. ASSUME IsFinal(1)' PROVE cursor' <= wire'[1].seq
    <3>1. wire[1].seq <= wire[2].seq
      BY <1>1, <2>1, <2>2, <2>4 DEF Ordered, Snapshots, IsFinal, IsEvent, IsEnd
    <3>2. wire[2].seq \in Nat
      BY <2>1, WireNumbers
    <3> QED BY <1>1, <1>3, <1>6, <2>1, <3>1, <3>2
  <2> QED BY <2>3, <2>4
<1> QED BY <1>2, <1>6, <1>7, <1>8 DEF Ordered, Ends, TailOfWire

\* A subscribe that owes no snapshot: the device has all it read, or there is
\* nothing more to send.
LEMMA NothingOwed ==
  ASSUME Types, Kinds, Reach, Informed, OwnRun, NEW c \in Calls,
         calls[c].pc = "status", ~TapOnly(c), ~NeedsSync(c), calls[c].mode = "tapOnly" => Active
  PROVE  (~Active /\ calls[c].seen = stored) \/ InStep(calls[c].seen)
<1>1. /\ calls[c].mode \in Modes /\ calls[c].explicit \in BOOLEAN
      /\ calls[c].cursor \in Nat /\ calls[c].seen \in Nat
  BY CallFields DEF Types
<1>2. calls[c].mode = "catchUp" /\ calls[c].seen <= calls[c].cursor
  BY <1>1 DEF NeedsSync, TapOnly, Modes
<1>3. CASE calls[c].explicit
  BY <1>1, <1>2, <1>3 DEF Informed, Knows
<1>4. CASE ~calls[c].explicit
  <2>1. calls[c].seen = 0
    BY <1>1, <1>2, <1>4 DEF Kinds, Fits
  <2>2. CASE Behind(c)
    <3>1. view = {} /\ cursor = Unknown
      BY <1>2, <1>4, <2>1, <2>2 DEF OwnRun, First, Alone
    <3>2. 1..0 = {}
      OBVIOUS
    <3> QED BY <2>1, <3>1, <3>2 DEF InStep
  <2>3. CASE ~Behind(c)
    <3>1. run # "lost"
      BY DEF Reach, Asked
    <3>2. calls[c].seen <= stored /\ ~(calls[c].seen < stored) /\ ~Active
      BY <2>3, <3>1 DEF Reach, Behind
    <3>3. stored \in Nat
      BY Bounds DEF Types, TypeOK, LogTypeOK
    <3> QED BY <1>1, <3>2, <3>3
  <2> QED BY <2>2, <2>3
<1> QED BY <1>3, <1>4

\* Nothing is on its way, and a subscribe sends what the device lacks.
LEMMA OrderedCaughtUp ==
  ASSUME Types, LogInv, wire = <<>>, UNCHANGED <<cursor, view, stored, run>>,
         NEW c \in Calls, Base0(c) \in Nat, Base0(c) <= stored, Tapped' # {} => Active,
         NEW s \in Seq(Messages), wire' = wire \o s, SnapshotThenRecords(c, s, 0),
         ~Due(c) => InStep(Base0(c)), ~Active => cursor <= Base0(c)
  PROVE  Ordered'
<1> DEFINE b == Base0(c)
<1>0. /\ b \in Nat /\ stored \in Nat /\ b <= stored
      /\ wire' = s /\ Len(s) \in Nat /\ DOMAIN s = 1..Len(s)
  BY InvBounds, LenProperties
<1>1. /\ Len(s) = Shot(c) + (stored - b) /\ Shot(c) \in {0, 1} /\ (Due(c) <=> Shot(c) = 1)
      /\ Due(c) => s[1] = Sync(b, Active)
      /\ \A k \in 1..(stored - b) : s[Shot(c) + k] = Event(b + k)
      /\ \A k \in DOMAIN s : \/ k = 1 /\ Due(c) /\ s[k] = Sync(b, Active)
                             \/ \E m \in 1..(stored - b) : k = Shot(c) + m /\ s[k] = Event(b + m)
  <2>1. stored - b - 0 = stored - b /\ Shot(c) + (stored - b) - 0 = Shot(c) + (stored - b)
    BY <1>0 DEF Shot
  <2> QED BY <2>1 DEF SnapshotThenRecords, Shot
<1> HIDE DEF b
<1>2. /\ \A m \in 1..(stored - b) : s[Shot(c) + m].type = "event" /\ s[Shot(c) + m].seq = b + m
      /\ Due(c) => s[1].type = "sync" /\ s[1].seq = b /\ s[1].active = Active
  <2>1. ASSUME NEW m \in 1..(stored - b)
        PROVE  s[Shot(c) + m].type = "event" /\ s[Shot(c) + m].seq = b + m
    <3>1. s[Shot(c) + m] = Event(b + m)
      BY <1>1
    <3> QED BY <3>1 DEF Event
  <2>2. Due(c) => s[1].type = "sync" /\ s[1].seq = b /\ s[1].active = Active
    BY <1>1 DEF Sync
  <2> QED BY <2>1, <2>2
<1>3. \A k \in DOMAIN s : \/ k = 1 /\ Due(c) /\ s[k].type = "sync" /\ s[k].active = Active
                          \/ \E m \in 1..(stored - b) : k = Shot(c) + m /\ s[k].type = "event" /\ s[k].seq = b + m
  BY <1>1, <1>2
<1>4. ASSUME NEW i \in DOMAIN wire', IsEvent(i)', i > 1 PROVE Follows(i)'
  <2>1. PICK m \in 1..(stored - b) : i = Shot(c) + m /\ wire'[i].seq = b + m
    BY <1>3, <1>4 DEF IsEvent
  <2>2. m \in Nat /\ m >= 1
    OBVIOUS
  <2>3. CASE m = 1
    <3>1. Due(c) /\ i = 2 /\ i - 1 = 1
      BY <1>1, <1>4, <2>1, <2>3
    <3>2. 1 \in DOMAIN wire'
      BY <3>1
    <3> QED BY <1>2, <2>1, <2>3, <3>1, <3>2 DEF Follows, IsSync
  <2>4. CASE m # 1
    <3>1. m - 1 \in 1..(stored - b)
      BY <1>0, <2>2, <2>4
    <3>2. i - 1 = Shot(c) + (m - 1) /\ b + m = b + (m - 1) + 1
      BY <1>0, <1>1, <2>1, <2>2
    <3>3. i - 1 \in DOMAIN wire'
      BY <1>4
    <3>4. wire'[i - 1].type = "event" /\ wire'[i - 1].seq = b + (m - 1)
      BY <1>2, <3>1, <3>2
    <3> QED BY <2>1, <3>2, <3>3, <3>4 DEF Follows, IsEvent
  <2> QED BY <2>3, <2>4
<1>5. Snapshots' /\ Ends'
  <2>1. \A i \in DOMAIN wire' : ~IsEnd(i)' /\ (IsSync(i)' => i = 1)
    BY <1>3 DEF IsEnd, IsSync
  <2> QED BY <2>1 DEF Snapshots, Ends
<1>6. HeadOfWire'
  <2> SUFFICES ASSUME wire' # <<>>
               PROVE  /\ IsEvent(1)' => InStep(wire[1].seq - 1)'
                      /\ IsFinal(1)' => cursor' <= wire'[1].seq
    BY DEF HeadOfWire
  <2>1. CASE Due(c)
    <3>1. ~IsEvent(1)' /\ wire'[1].seq = b /\ (IsFinal(1)' => ~Active)
      BY <1>2, <2>1 DEF IsEvent, IsFinal
    <3> QED BY <3>1 DEF b
  <2>2. CASE ~Due(c)
    <3>1. 1 \in DOMAIN s
      BY EmptySeq
    <3>2. PICK m \in 1..(stored - b) : 1 = Shot(c) + m /\ s[1].type = "event" /\ s[1].seq = b + m
      BY <1>3, <2>2, <3>1
    <3>3. m = 1
      BY <1>1, <2>2, <3>2
    <3>4. wire'[1].seq - 1 = b /\ ~IsFinal(1)'
      BY <1>0, <3>2, <3>3 DEF IsFinal, IsSync
    <3>5. view' = 1..b /\ cursor' \in {Unknown, b}
      BY <2>2 DEF InStep, b
    <3> QED BY <3>4, <3>5 DEF InStep
  <2> QED BY <2>1, <2>2
<1>7. TailOfWire'
  <2>1. CASE stored = b
    <3>1. Len(s) = Shot(c)
      BY <1>0, <1>1, <2>1
    <3>2. CASE Due(c)
      <4>1. Len(s) = 1
        BY <1>1, <3>1, <3>2
      <4>2. wire' # <<>> /\ Len(wire') = 1 /\ wire'[1].seq = stored' /\ wire'[1].type = "sync"
        <5>1. s[1].seq = b /\ s[1].type = "sync"
          BY <1>2, <3>2
        <5>2. s # <<>>
          BY <4>1, EmptySeq
        <5> QED BY <2>1, <4>1, <5>1, <5>2
      <4> QED BY <4>2 DEF TailOfWire, IsEnd
    <3>3. CASE ~Due(c)
      <4>1. wire' = <<>>
        BY <1>1, <3>1, <3>3, EmptySeq
      <4> QED BY <2>1, <3>3, <4>1 DEF TailOfWire, InStep, b
    <3> QED BY <3>2, <3>3
  <2>2. CASE stored # b
    <3>1. b < stored /\ stored - b \in 1..(stored - b) /\ b + (stored - b) = stored
      BY <1>0, <2>2
    <3>2. s[Len(s)].type = "event" /\ s[Len(s)].seq = stored /\ Len(s) # 0
      BY <1>1, <1>2, <3>1
    <3>3. wire' # <<>> /\ wire'[Len(wire')].seq = stored' /\ wire'[Len(wire')].type = "event"
      BY <3>2
    <3> QED BY <3>3 DEF TailOfWire, IsEnd
  <2> QED BY <2>1, <2>2
<1> QED BY <1>4, <1>5, <1>6, <1>7 DEF Ordered

\* What a subscribe sends behind a snapshot of its first records is one chain.
LEMMA ChainSent ==
  ASSUME Types, LogInv, NEW c \in Calls, Base0(c) \in Nat, Base0(c) <= stored,
         NEW s \in Seq(Messages), SnapshotThenRecords(c, s, 0), Due(c)
  PROVE  /\ Len(s) \in Nat /\ Len(s) >= 1 /\ DOMAIN s = 1..Len(s)
         /\ s[1] = Sync(Base0(c), Active) /\ s[Len(s)].seq = stored
         /\ \A k \in DOMAIN s : s[k].type \in {"event", "sync"} /\ (k # 1 => s[k].type = "event")
         /\ \A k \in DOMAIN s : k # 1 => k - 1 \in DOMAIN s /\ s[k].seq = s[k - 1].seq + 1
<1> DEFINE b == Base0(c)
<1>0. b \in Nat /\ stored \in Nat /\ b <= stored /\ Len(s) \in Nat /\ DOMAIN s = 1..Len(s)
  BY InvBounds, LenProperties
<1>1. /\ Len(s) = 1 + (stored - b) /\ s[1] = Sync(b, Active)
      /\ \A k \in 1..(stored - b) : s[1 + k] = Event(b + k)
  <2>1. stored - b - 0 = stored - b /\ 1 + (stored - b) - 0 = 1 + (stored - b) /\ Shot(c) = 1
    BY <1>0 DEF Shot
  <2> QED BY <2>1 DEF SnapshotThenRecords
<1> HIDE DEF b
<1>2. s[1].type = "sync" /\ s[1].seq = b
  BY <1>1 DEF Sync
<1>3. ASSUME NEW k \in 1..(stored - b) PROVE s[1 + k].type = "event" /\ s[1 + k].seq = b + k
  <2>1. s[1 + k] = Event(b + k)
    BY <1>1
  <2> QED BY <2>1 DEF Event
<1>4. ASSUME NEW k \in DOMAIN s, k # 1
      PROVE  s[k].type = "event" /\ s[k].seq = b + (k - 1) /\ k - 1 \in DOMAIN s
  <2>1. k - 1 \in 1..(stored - b) /\ 1 + (k - 1) = k /\ k - 1 \in DOMAIN s
    BY <1>0, <1>1, <1>4
  <2> QED BY <1>3, <2>1
<1>5. ASSUME NEW k \in DOMAIN s, k # 1 PROVE s[k].seq = s[k - 1].seq + 1
  <2>1. k \in Nat /\ s[k].seq = b + (k - 1) /\ k - 1 \in DOMAIN s
    BY <1>0, <1>4, <1>5
  <2>2. CASE k - 1 = 1
    BY <1>0, <1>2, <2>1, <2>2
  <2>3. CASE k - 1 # 1
    <3>1. s[k - 1].seq = b + ((k - 1) - 1)
      BY <1>4, <2>1, <2>3
    <3> QED BY <1>0, <2>1, <3>1
  <2> QED BY <2>2, <2>3
<1>6. s[Len(s)].seq = stored
  <2>1. CASE stored = b
    <3>1. Len(s) = 1
      BY <1>0, <1>1, <2>1
    <3> QED BY <1>2, <2>1, <3>1
  <2>2. CASE stored # b
    <3>1. Len(s) \in DOMAIN s /\ Len(s) # 1 /\ b + (Len(s) - 1) = stored
      BY <1>0, <1>1, <2>2
    <3> QED BY <1>4, <3>1
  <2> QED BY <2>1, <2>2
<1>7. Len(s) >= 1
  BY <1>0, <1>1
<1>8. s[1] = Sync(Base0(c), Active)
  BY <1>1 DEF b
<1>9. \A k \in DOMAIN s : s[k].type \in {"event", "sync"} /\ (k # 1 => s[k].type = "event")
  BY <1>2, <1>4
<1> QED BY <1>0, <1>4, <1>5, <1>6, <1>7, <1>8, <1>9

\* A snapshot, and what is behind it, may come behind messages it has read past.
LEMMA OrderedTakenOver ==
  ASSUME Types, LogInv, Current', Ordered, wire # <<>>, UNCHANGED <<cursor, view, stored, run>>,
         NEW c \in Calls, Base0(c) \in Nat, Base0(c) <= stored, Due(c),
         \A i \in DOMAIN wire : ~IsEnd(i) /\ wire[i].seq <= Base0(c),
         NEW s \in Seq(Messages), wire' = wire \o s, SnapshotThenRecords(c, s, 0)
  PROVE  Ordered'
<1>n. PICK n \in Nat : n = Len(wire)
  BY WireNumbers
<1>1. /\ n \in Nat /\ n >= 1 /\ DOMAIN wire = 1..n /\ wire \in Seq(Messages) /\ Len(wire) = n
      /\ 1 \in DOMAIN wire /\ n \in DOMAIN wire
  BY <1>n, WireNumbers
<1>2. /\ Len(s) \in Nat /\ Len(s) >= 1 /\ DOMAIN s = 1..Len(s)
      /\ s[1] = Sync(Base0(c), Active) /\ s[Len(s)].seq = stored
      /\ \A k \in DOMAIN s : s[k].type \in {"event", "sync"} /\ (k # 1 => s[k].type = "event")
      /\ \A k \in DOMAIN s : k # 1 => k - 1 \in DOMAIN s /\ s[k].seq = s[k - 1].seq + 1
  BY ChainSent
<1>3. /\ Len(wire') = n + Len(s) /\ DOMAIN wire' = 1..(n + Len(s))
      /\ \A i \in DOMAIN wire : i \in DOMAIN wire' /\ wire'[i] = wire[i]
      /\ \A k \in DOMAIN s : n + k \in DOMAIN wire' /\ wire'[n + k] = s[k]
      /\ \A i \in DOMAIN wire' : i \in DOMAIN wire \/ \E k \in DOMAIN s : i = n + k /\ wire'[i] = s[k]
  <2>1. /\ Len(wire') = Len(wire) + Len(s) /\ DOMAIN wire' = 1..(Len(wire) + Len(s))
        /\ \A i \in DOMAIN wire : i \in DOMAIN wire' /\ wire'[i] = wire[i]
        /\ \A k \in 1..Len(s) : Len(wire) + k \in DOMAIN wire' /\ wire'[Len(wire) + k] = s[k]
        /\ \A i \in DOMAIN wire' : i \in DOMAIN wire \/ \E k \in DOMAIN s : i = Len(wire) + k /\ wire'[i] = s[k]
    BY <1>1, WireGrows
  <2> QED BY <1>1, <1>2, <2>1
<1>4. ASSUME NEW i \in DOMAIN wire' PROVE ~IsEnd(i)'
  <2>1. CASE i \in DOMAIN wire
    BY <1>3, <2>1 DEF IsEnd
  <2>2. CASE i \notin DOMAIN wire
    <3>1. PICK k \in DOMAIN s : wire'[i] = s[k]
      BY <1>3, <2>2
    <3>2. s[k].type # "end"
      BY <1>2
    <3> QED BY <3>1, <3>2 DEF IsEnd
  <2> QED BY <2>1, <2>2
<1>5. ASSUME NEW i \in DOMAIN wire', IsEvent(i)', i > 1 PROVE Follows(i)'
  <2>1. CASE i \in DOMAIN wire
    <3>1. Follows(i)
      BY <1>3, <1>5, <2>1 DEF Ordered, IsEvent
    <3> QED BY <1>1, <2>1, <3>1, FollowsGrows
  <2>2. CASE i \notin DOMAIN wire
    <3>1. PICK k \in DOMAIN s : i = n + k /\ wire'[i] = s[k]
      BY <1>3, <2>2
    <3>2. k # 1
      BY <1>2, <1>5, <3>1 DEF Sync, IsEvent
    <3>3. k - 1 \in DOMAIN s /\ s[k].seq = s[k - 1].seq + 1 /\ s[k - 1].type \in {"event", "sync"}
      BY <1>2, <3>2
    <3>4. n + (k - 1) = i - 1
      BY <1>1, <1>2, <3>1
    <3>5. i - 1 \in DOMAIN wire' /\ wire'[i - 1] = s[k - 1]
      BY <1>3, <3>3, <3>4
    <3> QED BY <3>1, <3>3, <3>5 DEF Follows, IsEvent, IsSync
  <2> QED BY <2>1, <2>2
<1>6. Snapshots'
  <2> SUFFICES ASSUME NEW i \in DOMAIN wire', IsSync(i)', i > 1
               PROVE  /\ ~IsEnd(i - 1)' /\ wire'[i - 1].seq <= wire'[i].seq
                      /\ IsFinal(i)' => ~Active
    BY DEF Snapshots, Active
  <2>1. CASE i \in DOMAIN wire
    <3>1. i - 1 \in DOMAIN wire
      BY <1>1, <2>1
    <3>2. wire'[i] = wire[i] /\ wire'[i - 1] = wire[i - 1]
      BY <1>3, <2>1, <3>1
    <3>3. wire[i - 1].seq <= wire[i].seq /\ (IsFinal(i) => ~Active)
      BY <2>1, <3>1, <3>2 DEF Ordered, Snapshots, IsSync
    <3> QED BY <1>4, <1>3, <3>1, <3>2, <3>3 DEF IsFinal, IsSync
  <2>2. CASE i \notin DOMAIN wire
    <3>1. PICK k \in DOMAIN s : i = n + k /\ wire'[i] = s[k]
      BY <1>3, <2>2
    <3>2. k = 1
      BY <1>2, <3>1 DEF IsSync
    <3>3. i - 1 = n /\ wire'[i - 1] = wire[n]
      BY <1>1, <1>3, <3>1, <3>2
    <3>4. wire'[i].seq = Base0(c) /\ wire'[i].active = Active
      BY <1>2, <3>1, <3>2 DEF Sync
    <3>5. i - 1 \in DOMAIN wire'
      BY <1>1, <1>3, <3>3
    <3> QED BY <1>1, <1>4, <3>3, <3>4, <3>5 DEF IsFinal
  <2> QED BY <2>1, <2>2
<1>7. HeadOfWire'
  <2>1. wire'[1] = wire[1] /\ wire' # <<>>
    BY <1>1, <1>3
  <2>2. /\ IsEvent(1) => InStep(wire[1].seq - 1) \/ Lagging(wire[1].seq)
        /\ IsFinal(1) => cursor <= wire[1].seq
    BY DEF Ordered, HeadOfWire
  <2>3. ASSUME Lagging(wire[1].seq) PROVE Lagging(wire[1].seq)'
    BY <1>4, <2>1, <2>3 DEF Lagging, Active
  <2>4. ASSUME InStep(wire[1].seq - 1) PROVE InStep(wire[1].seq - 1)'
    BY <2>1, <2>4 DEF InStep
  <2> QED BY <2>1, <2>2, <2>3, <2>4 DEF HeadOfWire, IsEvent, IsFinal, IsSync
<1>8. TailOfWire'
  <2>1. Len(wire') \in DOMAIN wire' /\ Len(s) \in DOMAIN s /\ Len(wire') = n + Len(s)
    BY <1>1, <1>2, <1>3
  <2>2. wire'[Len(wire')] = s[Len(s)]
    BY <1>3, <2>1
  <2>3. wire'[Len(wire')].seq = stored' /\ ~IsEnd(Len(wire))' /\ wire' # <<>>
    <3>1. wire'[Len(wire')].seq = stored'
      BY <1>2, <2>2
    <3>2. s[Len(s)].type # "end"
      BY <1>2, <2>1
    <3> QED BY <2>1, <2>2, <3>1, <3>2 DEF IsEnd
  <2> QED BY <2>3 DEF TailOfWire
<1> QED BY <1>4, <1>5, <1>6, <1>7, <1>8 DEF Ordered, Ends

\* Nothing forwards: what is on its way stays as it is while the log grows.
LEMMA OrderedWaits ==
  ASSUME Types, Current, Ordered, Active, UNCHANGED <<wire, cursor, view, run>>, Tapped' = {}
  PROVE  Ordered'
<1>1. \A i \in DOMAIN wire : (IsEvent(i) \/ IsSync(i)) /\ ~IsFinal(i) /\ ~IsEnd(i)
  BY OnlyRecords
<1>2. \A i \in DOMAIN wire : /\ IsEvent(i)' <=> IsEvent(i)
                             /\ IsSync(i)' <=> IsSync(i)
                             /\ ~IsFinal(i)' /\ ~IsEnd(i)'
  BY <1>1 DEF IsEvent, IsSync, IsFinal, IsEnd
<1>3. \A i \in DOMAIN wire : i > 1 => i - 1 \in DOMAIN wire
  BY WireNumbers
<1>4. Snapshots'
  <2> SUFFICES ASSUME NEW i \in DOMAIN wire, IsSync(i), i > 1
               PROVE  ~IsEnd(i - 1)' /\ wire[i - 1].seq <= wire[i].seq /\ ~IsFinal(i)'
    BY <1>2 DEF Snapshots
  <2> QED BY <1>1, <1>2, <1>3 DEF Ordered, Snapshots
<1>5. HeadOfWire'
  <2> SUFFICES ASSUME wire # <<>> PROVE IsEvent(1) => InStep(wire[1].seq - 1)'
    BY <1>2, WireNumbers DEF HeadOfWire
  <2> QED BY DEF Ordered, HeadOfWire, Lagging, InStep
<1>6. \A i \in DOMAIN wire : IsEvent(i)' /\ i > 1 => Follows(i)'
  BY <1>2 DEF Ordered, Follows, IsEvent, IsSync
<1> QED BY <1>2, <1>4, <1>5, <1>6 DEF Ordered, Ends, TailOfWire

\* A socket that is served is served by one.
LEMMA OneServes ==
  ASSUME Owned, Tapped # {}
  PROVE  \E t : Tapped = {t}
<1>1. PICK t \in Tapped : TRUE
  OBVIOUS
<1>2. \A u \in Tapped : u = t
  BY DEF Owned, Serving
<1>3. Tapped = {t}
  BY <1>2
<1> QED BY <1>3

\* What is on its way stays in order.
LEMMA OrderedStep ==
  ASSUME LogInv, LogInv', Types, Types', CountedOnItsWay, Kinds, Kinds',
         Reach, Reach', Before, Unasked, Unserved, Informed, OwnRun, Current, Current',
         Owned, Steady, Readers, Ordered,
         drops = 0, drops' = 0, [Next]_vars
  PROVE  Ordered'
<1>0. /\ calls \in [Calls -> CallStates] /\ calls' \in [Calls -> CallStates]
      /\ wire \in Seq(Messages) /\ wire' \in Seq(Messages)
  BY DEF Types
<1>b. \A e \in Calls : Fits(calls[e], Active)
  BY DEF Kinds
<1>s. stored \in Nat /\ drops \in Nat
  BY InvBounds, Bounds DEF Types, TypeOK
<1>1. CASE OpenRun
  <2>1. \A e \in Calls : calls'[e].pc \in {"idle", "authz", "listed", "send", "watch"}
    BY <1>1, OpenRunEffect DEF Before, Asked, NoCall, Sending, Watching
  <2>2. Tapped' = {}
    BY <2>1 DEF Tapped
  <2>3. wire' = <<>>
    BY <1>1, OpenRunEffect DEF Before
  <2> QED BY <2>2, <2>3, OrderedEmpty
<1>2. CASE LogMove
  <2>1. UNCHANGED <<wire, cursor, view, stored>> /\ (Active' => Active)
    BY <1>2, LogMoveEffect DEF Active, LogMove
  <2>2. Tapped' # {} => Tapped # {}
    BY <1>2, LogMoveEffect DEF LogMove, Tapped
  <2> QED BY <2>1, <2>2, OrderedKept
<1>3. CASE Store
  <2>1. /\ Active /\ UNCHANGED <<cursor, view, run, calls>>
        /\ stored' \in Nat /\ stored < stored'
    BY <1>3, StoreEffect DEF Active
  <2>2. Tapped' = Tapped
    BY <2>1 DEF Tapped
  <2>3. CASE Tapped = {}
    <3>1. PICK s \in Seq(Messages) : wire' = wire \o s /\ s = <<>>
      BY <1>3, <2>3, StoreEffect
    <3>2. wire' = wire
      BY <3>1
    <3> QED BY <2>1, <2>2, <2>3, <3>2, OrderedWaits
  <2>4. CASE Tapped # {}
    <3>1. PICK t : Tapped = {t}
      BY <2>4, OneServes
    <3>2. PICK s \in Seq(Messages), d \in Nat :
            /\ wire' = wire \o s /\ drops' = drops + d
            /\ Len(s) = stored' - stored - d
            /\ \A k \in 1..(stored' - stored - d) : s[k] = Event(stored + k)
      BY <1>3, <3>1, StoreEffect
    <3>3. d = 0
      <4>1. 0 = 0 + d
        BY <3>2
      <4> QED BY <4>1
    <3>4. stored' - stored - 0 = stored' - stored
      BY <1>s, <2>1
    <3>5. Len(s) = stored' - stored /\ \A k \in 1..(stored' - stored) : s[k] = Event(stored + k)
      BY <3>2, <3>3, <3>4
    <3> QED BY <1>s, <2>1, <2>4, <3>2, <3>5, OrderedStored
  <2> QED BY <2>3, <2>4
<1>4. CASE EndRun
  <2>1. Active /\ ~Active' /\ UNCHANGED <<cursor, view, stored>>
    BY <1>4, EndRunEffect DEF Active
  <2>2. Tapped' = {}
    BY <1>4, NoCallFields, EndRunEffect DEF Tapped
  <2>3. PICK s \in Seq(Messages) :
          wire' = wire \o s /\ Len(s) = Cardinality(Tapped) /\ \A k \in DOMAIN s : s[k] = Ended
    BY <1>4, EndRunEffect
  <2>4. CASE Tapped = {}
    <3>1. s = <<>>
      BY <2>3, <2>4, CountTapped, EmptySeq
    <3>2. wire' = wire
      BY <2>3, <3>1
    <3> QED BY <2>1, <2>2, <3>2, OrderedKept
  <2>5. CASE Tapped # {}
    <3>1. PICK t : Tapped = {t}
      BY <2>5, OneServes
    <3>2. Len(s) = 1
      BY <2>3, <3>1, CountTapped
    <3>3. 1 \in DOMAIN s
      BY <3>2, LenProperties
    <3>4. s[1] = Ended
      BY <2>3, <3>3
    <3> QED BY <2>1, <2>2, <2>3, <2>5, <3>2, <3>4, OrderedEnded
  <2> QED BY <2>4, <2>5
<1>5. ASSUME NEW c \in Calls, AutoSubscribe(c) \/ Announced(c) PROVE Ordered'
  <2>1. UNCHANGED <<wire, cursor, view, stored>> /\ (Active' => Active)
    BY <1>5, UninvitedEffect DEF logVars, Active
  <2>2. Tapped' # {} => Tapped # {}
    BY <1>5, NoCallFields, UninvitedEffect DEF Tapped, Others
  <2> QED BY <2>1, <2>2, OrderedKept
<1>6. ASSUME NEW c \in Calls, ListRuns(c) PROVE Ordered'
  <2>1. UNCHANGED <<wire, cursor, view, stored>> /\ (Active' => Active)
    BY <1>6, ListRunsEffect DEF logVars, Active
  <2>2. Tapped' # {} => Tapped # {}
    BY <1>6, ListRunsEffect DEF Tapped, Others, Kept
  <2> QED BY <2>1, <2>2, OrderedKept
<1>7. ASSUME NEW c \in Calls, ReadMeta(c) PROVE Ordered'
  <2>1. UNCHANGED <<wire, cursor, view, stored>> /\ (Active' => Active)
    BY <1>7, ReadMetaEffect DEF logVars, Active
  <2>2. Tapped' # {} => Tapped # {}
    BY <1>7, NoCallFields, ReadMetaEffect DEF Tapped, Kept
  <2> QED BY <2>1, <2>2, OrderedKept
<1>8. ASSUME NEW c \in Calls, ReadLog(c) PROVE Ordered'
  <2>1. UNCHANGED <<wire, cursor, view, stored>> /\ (Active' => Active)
    BY <1>8, ReadLogEffect DEF logVars, Active
  <2>2. Tapped' # {} => Tapped # {}
    BY <1>8, ReadLogEffect DEF Tapped, Others
  <2> QED BY <2>1, <2>2, OrderedKept
<1>9. ASSUME NEW c \in Calls, CatchUp(c) PROVE Ordered'
  <2>1. /\ calls[c].pc = "status" /\ (calls[c].mode = "tapOnly" => Active)
        /\ Base0(c) \in Nat /\ Base0(c) <= stored
        /\ UNCHANGED <<cursor, view, stored, run>> /\ (Active' <=> Active)
    BY <1>9, CatchUpEffect DEF logVars, Active
  <2>2. PICK s \in Seq(Messages), d \in Nat :
          wire' = wire \o s /\ drops' = drops + d /\ SnapshotThenRecords(c, s, d)
    BY <1>9, CatchUpEffect
  <2>3. d = 0
    <3>1. 0 = 0 + d
      BY <2>2
    <3> QED BY <3>1
  <2>4. SnapshotThenRecords(c, s, 0)
    BY <2>2, <2>3
  <2>5. Tapped' # {} => Active
    BY <2>1 DEF Tapped, Kinds, Fits
  <2>6. Tapped = {} /\ Reading = {c}
    BY <2>1 DEF Owned, Serving, Reading, Tapped
  <2>7. CASE wire = <<>> /\ (~Due(c) => InStep(Base0(c))) /\ (~Active => cursor <= Base0(c))
    BY <2>1, <2>2, <2>4, <2>5, <2>7, OrderedCaughtUp
  <2>a. CASE /\ wire # <<>> /\ Due(c)
             /\ \A i \in DOMAIN wire : ~IsEnd(i) /\ wire[i].seq <= Base0(c)
    BY <2>1, <2>2, <2>4, <2>a, OrderedTakenOver
  <2>b. Informed /\ calls[c].cursor \in Nat /\ calls[c].seen \in Nat
    BY <1>0, CallFields
  <2>8. CASE Active
    <3>1. ReadPast(c)
      BY <2>1, <2>6, <2>8 DEF Readers, Behind
    <3>2. CASE TapOnly(c)
      <4>1. Base0(c) = calls[c].cursor /\ InStep(calls[c].cursor) /\ wire = <<>>
        BY <2>1, <2>6, <2>8, <3>1, <3>2 DEF Base0, TapOnly, Readers, ReadPast, Takes
      <4> QED BY <2>7, <2>8, <4>1
    <3>3. CASE ~TapOnly(c)
      <4>1. Base0(c) = calls[c].seen /\ (Due(c) <=> NeedsSync(c))
        BY <3>3 DEF Base0, Due
      <4>2. ~NeedsSync(c) => InStep(calls[c].seen)
        BY <2>1, <2>8, <3>3, NothingOwed
      <4>3. Takes(c) => NeedsSync(c)
        BY <2>1, <2>8, <2>b DEF Takes, NeedsSync, Informed, Knows
      <4> QED BY <2>7, <2>8, <2>a, <3>1, <4>1, <4>2, <4>3 DEF ReadPast
    <3> QED BY <3>2, <3>3
  <2>9. CASE ~Active
    <3>1. ~TapOnly(c) /\ Base0(c) = calls[c].seen /\ (Due(c) <=> NeedsSync(c))
      BY <2>9 DEF TapOnly, Base0, Due
    <3>2. ~NeedsSync(c) => calls[c].seen = stored \/ InStep(calls[c].seen)
      BY <2>1, <3>1, NothingOwed
    <3>3. CASE calls[c].seen < stored
      <4>1. ReadPast(c) /\ calls[c].seen # stored
        BY <1>s, <2>1, <2>6, <2>b, <3>3 DEF Readers, Behind
      <4>2. Takes(c) => NeedsSync(c)
        BY <2>1, <2>b, <4>1 DEF Takes, NeedsSync, Informed, Knows
      <4> QED BY <2>7, <2>a, <3>1, <3>2, <4>1, <4>2 DEF ReadPast
    <3>4. CASE ~(calls[c].seen < stored)
      <4>1. Base0(c) = stored /\ stored - Base0(c) = 0
        BY <1>s, <2>1, <3>1, <3>4
      <4>2. Len(s) = Shot(c) /\ (Due(c) => s[1] = Sync(stored, FALSE))
        <5>1. Len(s) = Shot(c) + (stored - Base0(c)) - 0 /\ (Due(c) => s[1] = Sync(Base0(c), Active))
          BY <2>4 DEF SnapshotThenRecords
        <5>2. Shot(c) + 0 - 0 = Shot(c)
          BY DEF Shot
        <5>3. Active = FALSE
          BY <2>9 DEF Active
        <5> QED BY <4>1, <5>1, <5>2, <5>3
      <4>3. CASE Due(c)
        <5>1. run # "lost"
          BY <2>1 DEF Reach, Asked
        <5> QED BY <2>1, <2>2, <2>5, <2>9, <4>2, <4>3, <5>1, OrderedFinal DEF Shot
      <4>4. CASE ~Due(c)
        <5>1. s = <<>>
          BY <4>2, <4>4, EmptySeq DEF Shot
        <5>2. wire' = wire
          BY <2>2, <5>1
        <5> QED BY <2>1, <2>5, <2>9, <5>2, OrderedKept
      <4> QED BY <4>3, <4>4
    <3> QED BY <3>3, <3>4
  <2> QED BY <2>8, <2>9
<1>10. ASSUME NEW c \in Calls, Reread(c) PROVE Ordered'
  <2>1. UNCHANGED <<wire, cursor, view, stored>> /\ (Active' => Active)
    BY <1>10, RereadEffect DEF logVars, Active
  <2>2. Tapped' # {} => Tapped # {}
    BY <1>10, RereadEffect DEF Tapped, Others, Kept
  <2> QED BY <2>1, <2>2, OrderedKept
<1>11. ASSUME NEW c \in Calls, SendFinished(c) PROVE Ordered'
  <2>1. calls[c].pc = "reread" /\ ~Active /\ ~Active' /\ UNCHANGED <<cursor, view, stored>>
    BY <1>11, <1>b, SendFinishedEffect DEF Fits, Active, logVars
  <2>2. Tapped' = {}
    BY <2>1 DEF Tapped, Kinds, Fits
  <2>3. PICK s \in Seq(Messages) : wire' = wire \o s /\ Len(s) = 1 /\ s[1] = Sync(stored, FALSE)
    BY <1>11, SendFinishedEffect
  <2>4. run # "lost"
    BY <2>1 DEF Reach, Asked
  <2> QED BY <2>1, <2>2, <2>3, <2>4, OrderedFinal
<1>12. CASE Heard
  BY <1>12, OrderedReceived
<1>13. CASE ReceiveGap
  BY <1>13, OrderedGap
<1>14. CASE OpenThread
  <2>1. UNCHANGED <<wire, cursor, view, stored>> /\ (Active' => Active)
    BY <1>14, OpenThreadEffect DEF logVars, Active
  <2>2. Tapped' # {} => Tapped # {}
    BY <1>14, <1>0, AskingTyped, OpenThreadEffect DEF Tapped
  <2> QED BY <2>1, <2>2, OrderedKept
<1>15. CASE Reconnect \/ Restart
  <2>1. wire' = <<>> /\ \A e \in Calls : calls'[e].pc \in {"idle", "authz"}
    BY <1>15, NewSocketEffect, AskingTyped, NoCallFields
  <2>2. Tapped' = {}
    BY <2>1 DEF Tapped
  <2> QED BY <2>1, <2>2, OrderedEmpty
<1> QED BY <1>1, <1>2, <1>3, <1>4, <1>5, <1>6, <1>7, <1>8, <1>9, <1>10, <1>11, <1>12, <1>13, <1>14,
           <1>15, StepCases

\* The thread shows a beginning of the run.
LEMMA PrefixStep ==
  ASSUME LogInv, LogInv', Types, Types', CountedOnItsWay, Kinds, Kinds',
         Reach, Reach', Before, Unasked, Unserved, Informed, OwnRun, Current, Current',
         Owned, Steady, Readers, Ordered,
         drops = 0, drops' = 0, [Next]_vars,
         \E n \in 0..MaxEvents : view = 1..n
  PROVE  \E n \in 0..MaxEvents : view' = 1..n
<1>1. CASE OpenRun
  <2>1. view' = view
    BY <1>1, OpenRunEffect
  <2> QED BY <2>1
<1>2. CASE LogMove
  <2>1. view' = view
    BY <1>2, LogMoveEffect DEF LogMove
  <2> QED BY <2>1
<1>3. CASE Store
  <2>1. view' = view
    BY <1>3, StoreEffect
  <2> QED BY <2>1
<1>4. CASE EndRun
  <2>1. view' = view
    BY <1>4, EndRunEffect
  <2> QED BY <2>1
<1>5. ASSUME NEW c \in Calls, AutoSubscribe(c) \/ Announced(c)
      PROVE  \E n \in 0..MaxEvents : view' = 1..n
  <2>1. view' = view
    BY <1>5, UninvitedEffect
  <2> QED BY <2>1
<1>6. ASSUME NEW c \in Calls, ListRuns(c) PROVE \E n \in 0..MaxEvents : view' = 1..n
  <2>1. view' = view
    BY <1>6, ListRunsEffect
  <2> QED BY <2>1
<1>7. ASSUME NEW c \in Calls, ReadMeta(c) PROVE \E n \in 0..MaxEvents : view' = 1..n
  <2>1. view' = view
    BY <1>7, ReadMetaEffect
  <2> QED BY <2>1
<1>8. ASSUME NEW c \in Calls, ReadLog(c) PROVE \E n \in 0..MaxEvents : view' = 1..n
  <2>1. view' = view
    BY <1>8, ReadLogEffect
  <2> QED BY <2>1
<1>9. ASSUME NEW c \in Calls, CatchUp(c) PROVE \E n \in 0..MaxEvents : view' = 1..n
  <2>1. view' = view
    BY <1>9, CatchUpEffect
  <2> QED BY <2>1
<1>10. ASSUME NEW c \in Calls, Reread(c) PROVE \E n \in 0..MaxEvents : view' = 1..n
  <2>1. view' = view
    BY <1>10, RereadEffect
  <2> QED BY <2>1
<1>11. ASSUME NEW c \in Calls, SendFinished(c) PROVE \E n \in 0..MaxEvents : view' = 1..n
  <2>1. view' = view
    BY <1>11, SendFinishedEffect
  <2> QED BY <2>1
<1>12. CASE Heard
  <2>1. /\ wire # <<>> /\ 1 \in DOMAIN wire /\ wire[1].seq \in 0..MaxEvents
        /\ IsEvent(1) \/ IsSync(1) \/ IsEnd(1)
    <3>1. \A m \in Messages : m.seq \in 0..MaxEvents
      BY DEF Messages
    <3> QED BY <1>12, <3>1, TakenIn, WireNumbers, WireIndexed
  <2> QED BY <1>12, <2>1, TakenIn
<1>13. CASE ReceiveGap
  <2>1. view' = view
    BY <1>13, ReceiveGapEffect
  <2> QED BY <2>1
<1>14. CASE OpenThread
  <2>1. view' = view
    BY <1>14, OpenThreadEffect
  <2> QED BY <2>1
<1>15. CASE Reconnect \/ Restart
  <2>1. view' = view
    BY <1>15, NewSocketEffect
  <2> QED BY <2>1
<1> QED BY <1>1, <1>2, <1>3, <1>4, <1>5, <1>6, <1>7, <1>8, <1>9, <1>10, <1>11, <1>12, <1>13, <1>14,
           <1>15, StepCases

-----------------------------------------------------------------------------
\* A send that was dropped stays dropped.
LEMMA DropsStay ==
  ASSUME LogInv, Base, [Next]_vars, drops' = 0
  PROVE  drops = 0
<1>0. Types /\ Kinds /\ Before /\ Unasked
  BY DEF Base
<1>d. drops \in Nat
  BY <1>0, Bounds DEF Types, TypeOK
<1>1. CASE OpenRun
  <2>1. drops' = drops
    BY <1>1, <1>0, OpenRunEffect
  <2> QED BY <2>1
<1>2. CASE LogMove
  <2>1. drops' = drops
    BY <1>2, <1>0, LogMoveEffect DEF LogMove
  <2> QED BY <2>1
<1>3. CASE Store
  <2>1. PICK d \in Nat : drops' = drops + d
    BY <1>3, <1>0, StoreEffect
  <2>2. 0 = drops + d
    BY <2>1
  <2> QED BY <1>d, <2>2
<1>4. CASE EndRun
  <2>1. drops' = drops
    BY <1>4, <1>0, EndRunEffect
  <2> QED BY <2>1
<1>5. ASSUME NEW c \in Calls, AutoSubscribe(c) \/ Announced(c) PROVE drops = 0
  <2>1. drops' = drops
    BY <1>5, <1>0, UninvitedEffect DEF boundVars
  <2> QED BY <2>1
<1>6. ASSUME NEW c \in Calls, ListRuns(c) PROVE drops = 0
  <2>1. drops' = drops
    BY <1>6, <1>0, ListRunsEffect DEF boundVars
  <2> QED BY <2>1
<1>7. ASSUME NEW c \in Calls, ReadMeta(c) PROVE drops = 0
  <2>1. drops' = drops
    BY <1>7, <1>0, ReadMetaEffect DEF boundVars
  <2> QED BY <2>1
<1>8. ASSUME NEW c \in Calls, ReadLog(c) PROVE drops = 0
  <2>1. drops' = drops
    BY <1>8, <1>0, ReadLogEffect DEF boundVars
  <2> QED BY <2>1
<1>9. ASSUME NEW c \in Calls, CatchUp(c) PROVE drops = 0
  <2>1. PICK d \in Nat : drops' = drops + d
    BY <1>9, <1>0, CatchUpEffect
  <2>2. 0 = drops + d
    BY <2>1
  <2> QED BY <1>d, <2>2
<1>10. ASSUME NEW c \in Calls, Reread(c) PROVE drops = 0
  <2>1. drops' = drops
    BY <1>10, <1>0, RereadEffect DEF boundVars
  <2> QED BY <2>1
<1>11. ASSUME NEW c \in Calls, SendFinished(c) PROVE drops = 0
  <2>1. drops' = drops
    BY <1>11, <1>0, SendFinishedEffect DEF boundVars
  <2> QED BY <2>1
<1>12. CASE Heard
  <2>1. drops' = drops
    BY <1>12, <1>0, ReceiveEffect DEF boundVars, Heard
  <2> QED BY <2>1
<1>13. CASE ReceiveGap
  <2>1. drops' = drops
    BY <1>13, <1>0, ReceiveGapEffect DEF boundVars
  <2> QED BY <2>1
<1>14. CASE OpenThread
  <2>1. drops' = drops
    BY <1>14, <1>0, OpenThreadEffect DEF boundVars
  <2> QED BY <2>1
<1>15. CASE Reconnect \/ Restart
  <2>1. drops' = drops
    BY <1>15, <1>0, NewSocketEffect
  <2> QED BY <2>1
<1> QED BY <1>1, <1>2, <1>3, <1>4, <1>5, <1>6, <1>7, <1>8, <1>9, <1>10, <1>11, <1>12, <1>13, <1>14,
           <1>15, StepCases

LEMMA InitDelivered == Init => Delivered
<1> SUFFICES ASSUME Init PROVE Delivered
  OBVIOUS
<1>1. /\ \A c \in Calls : calls[c] = NoCall
      /\ wire = <<>> /\ DOMAIN wire = {} /\ run = "none" /\ view = {} /\ 1..0 = {}
  BY DEF Init, LogInit
<1>2. Serving = {} /\ Reading = {} /\ Tapped = {} /\ ~Active
  BY <1>1, NoCallFields DEF Serving, Reading, Tapped, Active
<1>3. Steady /\ Readers
  BY <1>2 DEF Steady, Readers
<1>4. Ordered
  BY <1>1, <1>2 DEF Ordered, Snapshots, Ends, HeadOfWire, TailOfWire
<1>5. \E n \in 0..MaxEvents : view = 1..n
  <2>1. 0 \in 0..MaxEvents
    BY Bounds
  <2> QED BY <1>1, <2>1
<1> QED BY <1>3, <1>4, <1>5 DEF Delivered

LEMMA NextDelivered ==
  LogInv /\ LogInv' /\ Base /\ Base' /\ ~torn /\ Delivered /\ [Next]_vars => Delivered'
<1> SUFFICES ASSUME LogInv, LogInv', Base, Base', ~torn, Delivered, [Next]_vars, drops' = 0
             PROVE  Delivered'
  BY DEF Delivered
<1>1. drops = 0
  BY DropsStay
<1>2. /\ Types /\ CountedOnItsWay /\ Kinds /\ Reach /\ Before /\ Unasked /\ Unserved /\ Informed /\ OwnRun
      /\ Current /\ Owned
  BY DEF Base, Owner
<1>3. Types' /\ Kinds' /\ Reach' /\ Current'
  BY DEF Base
<1>4. Steady /\ Readers /\ Ordered /\ \E n \in 0..MaxEvents : view = 1..n
  BY <1>1 DEF Delivered
<1>6. Steady'
  BY <1>2, <1>3, <1>4, SteadyStep
<1>7. Readers'
  BY <1>2, <1>3, <1>4, ReadersStep
<1>8. Ordered'
  BY <1>1, <1>2, <1>3, <1>4, OrderedStep
<1>9. \E n \in 0..MaxEvents : view' = 1..n
  BY <1>1, <1>2, <1>3, <1>4, PrefixStep
<1> QED BY <1>6, <1>7, <1>8, <1>9 DEF Delivered

LEMMA DeliveredAlways == Spec /\ []~torn => [](LogInv /\ Base /\ Delivered)
BY InitDelivered, NextDelivered, BaseAlways, PTL DEF Spec

\* What the thread shows of a run is a beginning of it, however often the
\* socket is replaced, unless a send was dropped (the gap check of
\* useChatSession, the hand-over of subscribeToStream).  Proved of a device
\* whose subscribes take down no reservation.
THEOREM Prefix == Spec /\ []~torn => []ShownIsPrefix
<1>1. Delivered => ShownIsPrefix
  BY DEF Delivered, ShownIsPrefix
<1> QED BY <1>1, DeliveredAlways, PTL

\* A resync that takes down the reservation of a subscribe still reading is the
\* only way to two live taps: every other guard of subscribeToStream, and every
\* drop, keeps a socket to one.
THEOREM OneTapEach == Spec => []OneTap
<1>1. Base => OneTap
  <2> SUFFICES ASSUME Base, ~torn PROVE Cardinality(Tapped) <= 1
    BY DEF OneTap, NeverTwoTaps
  <2>1. Tapped = {} \/ \E t : Tapped = {t}
    BY OneServes DEF Base, Owner
  <2>2. Cardinality(Tapped) \in {0, 1}
    BY <2>1, CountTapped
  <2> QED BY <2>2
<1> QED BY <1>1, BaseAlways, PTL

\* The device hears the end of a run only after everything the run said,
\* unless a send was dropped (useChatSession's stream.end).  Proved of a device
\* whose subscribes take down no reservation.
THEOREM EndIsLast == Spec /\ []~torn => []EndComesAfterAll
<1>1. Base /\ Delivered => EndComesAfterAll
  <2> SUFFICES ASSUME Base, Delivered, drops = 0, wire # <<>>, Head(wire).type = "end" PROVE view = 1..stored
    BY DEF EndComesAfterAll
  <2>1. 1 \in DOMAIN wire /\ IsEnd(1)
    BY WireIndexed DEF Base, Types, IsEnd
  <2> QED BY <2>1 DEF Delivered, Ordered, Ends
<1> QED BY <1>1, DeliveredAlways, PTL
=============================================================================
