------------------------- MODULE ExecutorLinkProofs -------------------------
(***************************************************************************)
(* ExecutorLink for any calls, panels, sockets and cap: the types, that no *)
(* command runs unattended, and that nobody waits on an entry that is gone.*)
(***************************************************************************)
EXTENDS ExecutorLink, TLAPS

-----------------------------------------------------------------------------
(* Frames. *)

LEMMA LinkNumbers == NoLink \in Link0 /\ Links \subseteq Link0 /\ NoLink \notin Links
                     /\ \A k \in Link0 : k # NoLink => k \in Links
BY LinkAssumption DEF NoLink, Link0, Links

\* What the server sends on a socket keeps the frames of their types.
LEMMA SentTypes ==
  ASSUME FrameTypes, NEW k \in Links, NEW frames \in Seq(Downward)
  PROVE  Sent(k, frames) \in [Links -> Seq(Downward)]
<1>1. down[k] \o frames \in Seq(Downward)
  BY DEF FrameTypes
<1>2. QED BY <1>1 DEF FrameTypes, Sent

\* So does what the executor sends.
LEMMA ReportedTypes ==
  ASSUME FrameTypes, NEW frame \in Upward
  PROVE  Reported(frame) \in [Links -> Seq(Upward)]
<1>1. \A k \in Links : Append(up[k], frame) \in Seq(Upward) /\ up[k] \in Seq(Upward)
  BY DEF FrameTypes
<1>2. QED BY <1>1 DEF Reported

\* The frames the actions send.
LEMMA FrameKinds ==
  /\ Hello \in Upward
  /\ \A c \in Calls : /\ Frame("result", c) \in Upward
                      /\ Frame("call", c) \in Downward /\ Frame("cancel", c) \in Downward
  /\ \A s \in Shells : /\ Frame("exit", s) \in Upward
                       /\ Frame("open", s) \in Downward /\ Frame("close", s) \in Downward
BY DEF Hello, Frame, Upward, Downward

\* Taking a frame off a queue leaves a queue.
LEMMA TailTypes ==
  ASSUME NEW S, NEW q \in [Links -> Seq(S)], NEW k \in Links, q[k] # <<>>
  PROVE  [q EXCEPT ![k] = Tail(@)] \in [Links -> Seq(S)] /\ Head(q[k]) \in S
<1>1. q[k] \in Seq(S)
  OBVIOUS
<1>2. Tail(q[k]) \in Seq(S) /\ Head(q[k]) \in S
  BY <1>1
<1>3. QED BY <1>2

-----------------------------------------------------------------------------
(* Types. *)

\* Telling everyone who waits on an entry.
LEMMA FailedTypes ==
  ASSUME ServerTypes, NEW k
  PROVE  FailedCalls(k) \in [Calls -> CallStates] /\ FailedPanels(k) \in [Shells -> PanelStates]
<1>1. \A x \in CallStates : [x EXCEPT !.at = "settled"] \in CallStates
  BY DEF CallStates
<1>2. \A x \in PanelStates : [x EXCEPT !.at = "over"] \in PanelStates
  BY DEF PanelStates
<1>3. QED BY <1>1, <1>2 DEF ServerTypes, FailedCalls, FailedPanels

\* The states a command and a shell are taken to.
LEMMA JobUpdates ==
  ASSUME NEW x \in JobStates
  PROVE  /\ [x EXCEPT !.at = "running"] \in JobStates
         /\ [x EXCEPT !.at = "answering"] \in JobStates
         /\ [x EXCEPT !.at = "over"] \in JobStates
         /\ Abort(x) \in JobStates
BY DEF JobStates, Abort

LEMMA ShellUpdates ==
  ASSUME NEW x \in ShellStates
  PROVE  /\ [x EXCEPT !.at = "open"] \in ShellStates
         /\ [x EXCEPT !.at = "ending"] \in ShellStates
         /\ [x EXCEPT !.at = "over"] \in ShellStates
BY DEF ShellStates

LEMMA InitTypes == Init => TypeOK
<1> SUFFICES ASSUME NEW day \in Days, InitOn(day) PROVE TypeOK
  BY DEF Init
<1>1. day.before \in Link0
  BY LinkAssumption DEF Link0
<1>2. <<>> \in Seq(Downward) /\ <<>> \in Seq(Upward)
  OBVIOUS
<1>3. ServerTypes
  BY <1>1, LinkNumbers DEF InitOn, ServerTypes, Ends, CallStates, PanelStates
<1>4. MachineTypes
  BY <1>1, LinkNumbers DEF InitOn, MachineTypes, JobStates, ShellStates
<1>5. FrameTypes
  BY <1>2 DEF InitOn, FrameTypes
<1>6. QED BY <1>3, <1>4, <1>5 DEF TypeOK

\* A run's part: callExecutor and what settles it.
LEMMA WaitingTypes ==
  ASSUME TypeOK, NobodyWaitsOnGone, NEW c \in Calls, Waiting(c)
  PROVE  TypeOK'
<1> USE DEF TypeOK
<1>1. CASE Invoke(c)
  <2>1. Request(c) \in Seq(Downward)
    <3>1. Frame("call", c) \in Downward /\ Frame("cancel", c) \in Downward
      BY FrameKinds
    <3>2. QED BY <3>1 DEF Request
  <2>2. call' \in [Calls -> CallStates]
    BY <1>1 DEF Invoke, ServerTypes, CallStates
  <2>3. down' \in [Links -> Seq(Downward)]
    <3>1. CASE registered = NoLink
      BY <1>1, <3>1 DEF Invoke, FrameTypes
    <3>2. CASE registered # NoLink
      <4>1. registered \in Links
        BY <3>2, LinkNumbers DEF ServerTypes
      <4>2. QED BY <1>1, <2>1, <3>2, <4>1, SentTypes DEF Invoke
    <3>3. QED BY <3>1, <3>2
  <2>4. QED BY <1>1, <2>2, <2>3 DEF Invoke, ServerTypes, MachineTypes, FrameTypes, machineVars
<1>2. CASE Stop(c)
  <2>1. CASE call[c].at # "pending"
    <3>1. down' = down
      BY <1>2, <2>1 DEF Stop
    <3>2. QED BY <1>2, <3>1 DEF Stop, ServerTypes, MachineTypes, FrameTypes, machineVars
  <2>2. CASE call[c].at = "pending"
    <3>1. call[c].link \in Links
      BY <2>2, LinkNumbers DEF NobodyWaitsOnGone, ServerTypes
    <3>2. <<Frame("cancel", c)>> \in Seq(Downward)
      BY FrameKinds
    <3>3. down' = Sent(call[c].link, <<Frame("cancel", c)>>)
      BY <1>2, <2>2 DEF Stop
    <3>4. down' \in [Links -> Seq(Downward)]
      BY <3>1, <3>2, <3>3, SentTypes
    <3>5. QED BY <1>2, <3>4 DEF Stop, ServerTypes, MachineTypes, FrameTypes, machineVars
  <2>3. QED BY <2>1, <2>2
<1>3. CASE Deadline(c)
  <2>1. call' \in [Calls -> CallStates]
    BY <1>3 DEF Deadline, ServerTypes, CallStates
  <2>2. QED BY <1>3, <2>1 DEF Deadline, ServerTypes, MachineTypes, FrameTypes, machineVars
<1>4. QED BY <1>1, <1>2, <1>3 DEF Waiting
\* A panel's part.
LEMMA PanelTypes ==
  ASSUME TypeOK, NobodyWaitsOnGone, NEW s \in Shells, OpenPanel(s) \/ ClosePanel(s)
  PROVE  TypeOK'
<1> USE DEF TypeOK
<1>1. \A kind \in {"open", "close"} : <<Frame(kind, s)>> \in Seq(Downward)
  BY FrameKinds
<1>2. panel' \in [Shells -> PanelStates]
  BY DEF OpenPanel, ClosePanel, ServerTypes, PanelStates
<1>3. down' \in [Links -> Seq(Downward)]
  <2>1. CASE OpenPanel(s)
    <3>1. CASE registered = NoLink
      BY <2>1, <3>1 DEF OpenPanel, FrameTypes
    <3>2. CASE registered # NoLink
      <4>1. registered \in Links
        BY <3>2, LinkNumbers DEF ServerTypes
      <4>2. down' = Sent(registered, <<Frame("open", s)>>)
        BY <2>1, <3>2 DEF OpenPanel
      <4>3. QED BY <1>1, <4>1, <4>2, SentTypes
    <3>3. QED BY <3>1, <3>2
  <2>2. CASE ClosePanel(s)
    <3>1. panel[s].link \in Links
      BY <2>2, LinkNumbers DEF ClosePanel, NobodyWaitsOnGone, ServerTypes
    <3>2. down' = Sent(panel[s].link, <<Frame("close", s)>>)
      BY <2>2 DEF ClosePanel
    <3>3. QED BY <1>1, <3>1, <3>2, SentTypes
  <2>3. QED BY <2>1, <2>2
<1>4. UNCHANGED <<server, greeted, registered, call, aborted, machineVars, up>>
  BY DEF OpenPanel, ClosePanel
<1>5. QED BY <1>2, <1>3, <1>4 DEF ServerTypes, MachineTypes, FrameTypes, machineVars

\* A frame taken by the server: the entry's socket stays one that greeted.
LEMMA TakeTypes ==
  ASSUME TypeOK, NEW k \in Links, Take(k)
  PROVE  TypeOK'
<1> USE DEF TypeOK
<1>1. up' \in [Links -> Seq(Upward)]
  BY TailTypes DEF Take, FrameTypes
<1>2. UNCHANGED <<aborted, machineVars, down>>
  BY DEF Take
<1>3. CASE k \notin greeted /\ Register(k)
  <2>1. server' \in [Links -> Ends] /\ server'[k] \in {"open", "closing"}
    BY <1>3 DEF Take, Register, Closing, ServerTypes, Ends
  <2>2. call' \in [Calls -> CallStates] /\ panel' \in [Shells -> PanelStates]
    BY <1>3, FailedTypes DEF Register, ServerTypes
  <2>3. registered' = k /\ greeted' = greeted \cup {k} /\ k \in Link0
    BY <1>3, LinkNumbers DEF Register
  <2>4. ServerTypes'
    BY <1>2, <2>1, <2>2, <2>3 DEF ServerTypes
  <2>5. QED BY <1>1, <1>2, <2>4 DEF MachineTypes, FrameTypes, machineVars
<1>4. CASE server' = Closing(k) /\ UNCHANGED <<greeted, registered, call, panel>>
  <2>1. ServerTypes'
    BY <1>2, <1>4 DEF ServerTypes, Closing, Ends
  <2>2. QED BY <1>1, <1>2, <2>1 DEF MachineTypes, FrameTypes, machineVars
<1>5. CASE /\ UNCHANGED <<call, panel>> \/ Answered(Head(up[k]).id)
           /\ UNCHANGED <<server, greeted, registered>>
  <2>1. call' \in [Calls -> CallStates] /\ panel' \in [Shells -> PanelStates]
    <3>1. CASE UNCHANGED <<call, panel>>
      BY <3>1 DEF ServerTypes
    <3>2. CASE Answered(Head(up[k]).id)
      BY <3>2 DEF Answered, ServerTypes, CallStates, PanelStates
    <3>3. QED BY <1>5, <3>1, <3>2
  <2>2. ServerTypes'
    BY <1>2, <1>5, <2>1 DEF ServerTypes
  <2>3. QED BY <1>1, <1>2, <2>2 DEF MachineTypes, FrameTypes, machineVars
<1>6. QED BY <1>3, <1>4, <1>5 DEF Take

LEMMA HangUpTypes ==
  ASSUME TypeOK, NEW k \in Links, HangUp(k)
  PROVE  TypeOK'
BY DEF TypeOK, HangUp, Closing, ServerTypes, Ends, MachineTypes, FrameTypes, machineVars

\* A socket's close at the server takes its entry with it.
LEMMA ServerClosedTypes ==
  ASSUME TypeOK, NEW k \in Links, ServerClosed(k)
  PROVE  TypeOK'
<1> USE DEF TypeOK
<1>1. server' \in [Links -> Ends] /\ \A j \in Links : j # k => server'[j] = server[j]
  BY DEF ServerClosed, ServerTypes, Ends
<1>2. up' \in [Links -> Seq(Upward)]
  BY DEF ServerClosed, FrameTypes
<1>3. call' \in [Calls -> CallStates] /\ panel' \in [Shells -> PanelStates]
  BY FailedTypes DEF ServerClosed, ServerTypes
<1>4. registered' = NoLink \/ (registered' = registered /\ registered # k)
  <2>1. CASE registered = k
    BY <2>1 DEF ServerClosed, Unregisters, Unlinked
  <2>2. CASE registered # k
    BY <2>2 DEF ServerClosed, Unregisters
  <2>3. QED BY <2>1, <2>2
<1>5. UNCHANGED <<greeted, aborted, machineVars, down>>
  BY DEF ServerClosed
<1>6. ServerTypes'
  BY <1>1, <1>3, <1>4, <1>5, LinkNumbers DEF ServerTypes
<1>7. QED BY <1>2, <1>5, <1>6 DEF MachineTypes, FrameTypes, machineVars

\* The machine's socket comes and goes.
LEMMA ConnectTypes ==
  ASSUME TypeOK, Connect
  PROVE  TypeOK'
<1> USE DEF TypeOK
<1>1. made + 1 \in Links /\ made + 1 \in Link0
  BY LinkAssumption DEF Connect, MachineTypes, Links, Link0
<1>2. ServerTypes'
  BY <1>1 DEF Connect, ServerTypes, Ends
<1>3. QED BY <1>1, <1>2 DEF Connect, MachineTypes, FrameTypes

LEMMA SayHelloTypes ==
  ASSUME TypeOK, NEW k \in Links, SayHello(k)
  PROVE  TypeOK'
<1>1. up' \in [Links -> Seq(Upward)]
  BY FrameKinds, ReportedTypes DEF SayHello, TypeOK
<1>2. QED BY <1>1 DEF SayHello, TypeOK, ServerTypes, MachineTypes, FrameTypes, serverVars

LEMMA DisconnectTypes ==
  ASSUME TypeOK, Disconnect
  PROVE  TypeOK'
<1> USE DEF TypeOK
<1>1. job' \in [Calls -> JobStates]
  BY JobUpdates DEF Disconnect, MachineTypes
<1>2. shell' \in [Shells -> ShellStates]
  BY ShellUpdates DEF Disconnect, MachineTypes
<1>3. down' \in [Links -> Seq(Downward)]
  <2>1. <<>> \in Seq(Downward) /\ down' = [down EXCEPT ![machine] = <<>>]
    BY DEF Disconnect
  <2>2. QED BY <2>1 DEF FrameTypes
<1>4. QED BY <1>1, <1>2, <1>3 DEF Disconnect, ServerTypes, MachineTypes, FrameTypes, serverVars

LEMMA ExitTypes ==
  ASSUME TypeOK, Exit
  PROVE  TypeOK'
<1> USE DEF TypeOK
<1>1. job' \in [Calls -> JobStates]
  BY JobUpdates DEF Exit, MachineTypes
<1>2. shell' \in [Shells -> ShellStates]
  BY ShellUpdates DEF Exit, MachineTypes
<1>3. down' \in [Links -> Seq(Downward)]
  BY DEF Exit, FrameTypes
<1>4. QED BY <1>1, <1>2, <1>3 DEF Exit, ServerTypes, MachineTypes, FrameTypes, serverVars

\* A frame obeyed by the executor.
LEMMA ServeTypes ==
  ASSUME TypeOK, Serve
  PROVE  TypeOK'
<1> USE DEF TypeOK
<1>1. PICK k \in Links :
        /\ machine = k /\ down[k] # <<>>
        /\ Obey(Head(down[k]))
        /\ down' = [down EXCEPT ![k] = Tail(@)]
        /\ UNCHANGED <<serverVars, machine, made, probing>>
  BY DEF Serve
<1> DEFINE f == Head(down[k])
<1>2. f \in Downward /\ down' \in [Links -> Seq(Downward)]
  BY <1>1, TailTypes DEF FrameTypes
<1>3. machine \in Link0
  BY <1>1, LinkNumbers
<1>4. job' \in [Calls -> JobStates] /\ shell' \in [Shells -> ShellStates]
      /\ up' \in [Links -> Seq(Upward)]
  <2> HIDE DEF f
  <2>1. CASE f.kind = "call"
    <3>1. [at |-> "preparing", link |-> machine, stop |-> FALSE] \in JobStates
      BY <1>3 DEF JobStates
    <3>2. job' = [job EXCEPT ![f.id] = [at |-> "preparing", link |-> machine, stop |-> FALSE]]
          /\ UNCHANGED <<shell, up>>
      BY <1>1, <2>1 DEF Obey, f
    <3>3. QED BY <3>1, <3>2 DEF MachineTypes, FrameTypes
  <2>2. CASE f.kind = "cancel"
    <3>1. f.id \in Calls
      BY <1>2, <2>2 DEF Downward
    <3>2. job' = [job EXCEPT ![f.id] = IF InFlight(f.id) THEN Abort(@) ELSE @]
          /\ UNCHANGED <<shell, up>>
      BY <1>1, <2>2 DEF Obey, f
    <3>3. QED BY <3>1, <3>2, JobUpdates DEF MachineTypes, FrameTypes
  <2>3. CASE f.kind = "open"
    <3>1. f.id \in Shells
      BY <1>2, <2>3 DEF Downward
    <3>2. Open(f.id) /\ UNCHANGED job
      BY <1>1, <2>3 DEF Obey, f
    <3>3. [at |-> "opening", link |-> machine] \in ShellStates
      BY <1>3 DEF ShellStates
    <3>4. shell' \in [Shells -> ShellStates]
      BY <3>1, <3>2, <3>3, ShellUpdates DEF Open, MachineTypes
    <3>5. up' \in [Links -> Seq(Upward)]
      BY <3>1, <3>2, FrameKinds, ReportedTypes DEF Open, FrameTypes
    <3>6. QED BY <3>2, <3>4, <3>5 DEF MachineTypes
  <2>4. CASE f.kind = "close"
    <3>1. f.id \in Shells
      BY <1>2, <2>4 DEF Downward
    <3>2. Close(f.id) /\ UNCHANGED job
      BY <1>1, <2>4 DEF Obey, f
    <3>3. shell[f.id] \in ShellStates
      BY <3>1 DEF MachineTypes
    <3>4. [shell[f.id] EXCEPT !.at = IF @ = "open" THEN "ending" ELSE @] \in ShellStates
      BY <3>3 DEF ShellStates
    <3>5. QED BY <3>1, <3>2, <3>4 DEF Close, MachineTypes, FrameTypes
  <2>5. QED BY <1>2, <2>1, <2>2, <2>3, <2>4 DEF Downward
<1>5. QED BY <1>1, <1>2, <1>4 DEF ServerTypes, MachineTypes, FrameTypes, serverVars

\* A command's steps on the machine.
LEMMA WorkingTypes ==
  ASSUME TypeOK, NEW c \in Calls, Working(c)
  PROVE  TypeOK'
<1>1. job' \in [Calls -> JobStates]
  <2>1. job[c] \in JobStates
    BY DEF TypeOK, MachineTypes
  <2>2. PICK x \in {"running", "answering", "over"} : job' = [job EXCEPT ![c].at = x]
    BY DEF Working, Begin, Finish, Answer
  <2>3. [job[c] EXCEPT !.at = x] \in JobStates
    BY <2>1 DEF JobStates
  <2>4. QED BY <2>2, <2>3 DEF TypeOK, MachineTypes
<1>2. up' \in [Links -> Seq(Upward)]
  BY FrameKinds, ReportedTypes DEF Working, Begin, Finish, Answer, TypeOK, FrameTypes
<1>3. JobStep(c)
  BY DEF Working, Begin, Finish, Answer
<1>4. QED BY <1>1, <1>2, <1>3 DEF JobStep, TypeOK, ServerTypes, MachineTypes, FrameTypes, serverVars

\* And a shell's.
LEMMA ShellTypes ==
  ASSUME TypeOK, NEW s \in Shells, Opened(s) \/ Ended(s)
  PROVE  TypeOK'
<1>1. shell' \in [Shells -> ShellStates]
  <2>1. shell[s] \in ShellStates
    BY DEF TypeOK, MachineTypes
  <2>2. PICK x \in {"open", "over"} : shell' = [shell EXCEPT ![s].at = x]
    BY DEF Opened, Ended
  <2>3. [shell[s] EXCEPT !.at = x] \in ShellStates
    BY <2>1 DEF ShellStates
  <2>4. QED BY <2>2, <2>3 DEF TypeOK, MachineTypes
<1>2. up' \in [Links -> Seq(Upward)]
  BY FrameKinds, ReportedTypes DEF Opened, Ended, TypeOK, FrameTypes
<1>3. UNCHANGED <<serverVars, machine, made, probing, job, down>>
  BY DEF Opened, Ended
<1>4. QED BY <1>1, <1>2, <1>3 DEF TypeOK, ServerTypes, MachineTypes, FrameTypes, serverVars

LEMMA NextTypes ==
  ASSUME TypeOK, NobodyWaitsOnGone, [Next]_vars
  PROVE  TypeOK'
<1>1. CASE UNCHANGED vars
  BY <1>1 DEF vars, serverVars, machineVars, TypeOK, ServerTypes, MachineTypes, FrameTypes
<1>2. CASE Next
  BY <1>1, <1>2, WaitingTypes, WorkingTypes, PanelTypes, ShellTypes, TakeTypes, HangUpTypes,
     ServerClosedTypes, SayHelloTypes, ConnectTypes, DisconnectTypes, ExitTypes, ServeTypes
     DEF Next, Rest
<1>3. QED BY <1>1, <1>2

-----------------------------------------------------------------------------
(* Nobody waits on an entry that is gone. *)

\* Who is still waiting after an entry was failed waited on another.
LEMMA FailedWaitElsewhere ==
  ASSUME ServerTypes, NEW k, call' = FailedCalls(k), panel' = FailedPanels(k)
  PROVE  /\ \A c \in Calls : call'[c].at = "pending" => call'[c] = call[c] /\ call[c].link # k
         /\ \A s \in Shells : panel'[s].at = "open" => panel'[s] = panel[s] /\ panel[s].link # k
BY DEF FailedCalls, FailedPanels, ServerTypes, CallStates, PanelStates

LEMMA InitWaits == Init => NobodyWaitsOnGone
BY DEF Init, InitOn, NobodyWaitsOnGone

LEMMA WaitsStep ==
  ASSUME TypeOK, NobodyWaitsOnGone, [Next]_vars
  PROVE  NobodyWaitsOnGone'
<1> USE DEF TypeOK
<1>1. CASE \E c \in Calls : Waiting(c)
  <2>1. PICK c \in Calls : Waiting(c)
    BY <1>1
  <2>2. UNCHANGED <<registered, panel>>
    BY <2>1 DEF Waiting, Invoke, Stop, Deadline
  <2>3. \A d \in Calls : \/ call'[d] = call[d] \/ call'[d].at = "settled"
                         \/ call'[d].link = registered /\ registered # NoLink
    BY <2>1 DEF Waiting, Invoke, Stop, Deadline, ServerTypes, CallStates
  <2>4. QED BY <2>2, <2>3 DEF NobodyWaitsOnGone
<1>2. CASE \E s \in Shells : OpenPanel(s) \/ ClosePanel(s)
  <2>1. PICK s \in Shells : OpenPanel(s) \/ ClosePanel(s)
    BY <1>2
  <2>2. UNCHANGED <<registered, call>>
    BY <2>1 DEF OpenPanel, ClosePanel
  <2>3. \A d \in Shells : \/ panel'[d] = panel[d] \/ panel'[d].at = "over"
                          \/ panel'[d].link = registered /\ registered # NoLink
    BY <2>1 DEF OpenPanel, ClosePanel, ServerTypes, PanelStates
  <2>4. QED BY <2>2, <2>3 DEF NobodyWaitsOnGone
<1>3. CASE \E k \in Links : Take(k)
  <2>1. PICK k \in Links : Take(k)
    BY <1>3
  <2>2. CASE Register(k) /\ registered = NoLink
    BY <2>2 DEF Register, NobodyWaitsOnGone
  <2>3. CASE Register(k) /\ registered # NoLink
    BY <2>3, FailedWaitElsewhere DEF Register, NobodyWaitsOnGone
  <2>4. CASE UNCHANGED <<registered, call, panel>>
    BY <2>4 DEF NobodyWaitsOnGone
  <2>5. CASE Answered(Head(up[k]).id) /\ UNCHANGED registered
    <3>1. \A c \in Calls : call'[c] = call[c] \/ call'[c].at = "settled"
      BY <2>5 DEF Answered, ServerTypes, CallStates
    <3>2. \A s \in Shells : panel'[s] = panel[s] \/ panel'[s].at = "over"
      BY <2>5 DEF Answered, ServerTypes, PanelStates
    <3>3. QED BY <2>5, <3>1, <3>2 DEF NobodyWaitsOnGone
  <2>6. QED BY <2>1, <2>2, <2>3, <2>4, <2>5 DEF Take
<1>4. CASE \E k \in Links : ServerClosed(k)
  <2>1. PICK k \in Links : ServerClosed(k)
    BY <1>4
  <2>2. CASE call' = FailedCalls(registered) /\ panel' = FailedPanels(registered)
    BY <2>2, FailedWaitElsewhere DEF NobodyWaitsOnGone
  <2>3. CASE UNCHANGED <<registered, call, panel>>
    BY <2>3 DEF NobodyWaitsOnGone
  <2>4. QED BY <2>1, <2>2, <2>3 DEF ServerClosed
<1>5. CASE UNCHANGED <<registered, call, panel>>
  BY <1>5 DEF NobodyWaitsOnGone
<1>6. QED
  BY <1>1, <1>2, <1>3, <1>4, <1>5
     DEF Next, Working, Begin, Finish, Answer, JobStep, Opened, Ended, HangUp, SayHello,
         Connect, Disconnect, Exit, Serve, Rest, vars, serverVars

\* Types of both ends; the entry's socket has greeted and is not closed.
THEOREM LinkTypes == Spec => []TypeOK
<1>1. TypeOK /\ NobodyWaitsOnGone /\ [Next]_vars => TypeOK' /\ NobodyWaitsOnGone'
  BY NextTypes, WaitsStep
<1>2. QED BY <1>1, InitTypes, InitWaits, PTL DEF Spec

\* A call or a panel waits on the registered entry or has been told
\* (NobodyWaitsOnGone), whatever sockets replace and outlive each other.
THEOREM TheGoneAreTold == Spec => []NobodyWaitsOnGone
<1>1. TypeOK /\ NobodyWaitsOnGone /\ [Next]_vars => NobodyWaitsOnGone'
  BY WaitsStep
<1>2. QED BY <1>1, InitWaits, LinkTypes, PTL DEF Spec

-----------------------------------------------------------------------------
(* No command runs unattended. *)

\* What may still start belongs to the socket of now, as what runs does.
Attended(c) ==
  job[c].at = "running" \/ (job[c].at = "preparing" /\ ~job[c].stop)
    => job[c].link = machine /\ machine # NoLink
AllAttended == \A c \in Calls : Attended(c)

LEMMA InitAttended == Init => AllAttended
BY DEF Init, InitOn, AllAttended, Attended

\* A command of another socket is not in flight, one of this socket is.
LEMMA AbortedAreAttended ==
  ASSUME MachineTypes, AllAttended, Disconnect
  PROVE  AllAttended'
<1> SUFFICES ASSUME NEW c \in Calls PROVE Attended(c)'
  BY DEF AllAttended
<1>1. job[c] \in JobStates /\ Attended(c)
  BY DEF MachineTypes, AllAttended
<1>2. job'[c] = IF InFlight(c) THEN Abort(job[c]) ELSE job[c]
  BY DEF Disconnect, MachineTypes
<1>3. CASE InFlight(c)
  <2>1. job'[c].stop = TRUE /\ job'[c].at # "running"
    BY <1>1, <1>2, <1>3 DEF Abort, JobStates
  <2>2. QED BY <2>1 DEF Attended
<1>4. CASE ~InFlight(c)
  <2>1. ~(job[c].at = "running" \/ (job[c].at = "preparing" /\ ~job[c].stop))
    BY <1>1, <1>4 DEF Attended, InFlight
  <2>2. QED BY <1>2, <1>4, <2>1 DEF Attended
<1>5. QED BY <1>3, <1>4

LEMMA AttendedStep ==
  ASSUME TypeOK, AllAttended, [Next]_vars
  PROVE  AllAttended'
<1> USE DEF TypeOK
<1>1. CASE Disconnect
  BY <1>1, AbortedAreAttended
<1>2. CASE Exit
  <2>1. \A c \in Calls : job'[c].at \in {"none", "over"}
    BY <1>2 DEF Exit, MachineTypes, JobStates
  <2>2. QED BY <2>1 DEF AllAttended, Attended
<1>3. CASE Connect
  <2>1. \A c \in Calls : job'[c] = job[c]
    BY <1>3 DEF Connect
  <2>2. QED BY <1>3, <2>1 DEF Connect, AllAttended, Attended
<1>4. CASE Serve
  <2>1. PICK k \in Links :
          /\ machine = k /\ down[k] # <<>> /\ Obey(Head(down[k]))
          /\ UNCHANGED machine
    BY <1>4 DEF Serve
  <2>2. machine # NoLink
    BY <2>1, LinkNumbers
  <2>3. CASE UNCHANGED job
    BY <2>1, <2>3 DEF AllAttended, Attended
  <2>4. CASE \E d \in Calls : job' = [job EXCEPT ![d] = [at |-> "preparing", link |-> machine, stop |-> FALSE]]
    <3>1. PICK d \in Calls : job' = [job EXCEPT ![d] = [at |-> "preparing", link |-> machine, stop |-> FALSE]]
      BY <2>4
    <3>2. \A c \in Calls : job'[c] = job[c] \/ job'[c].link = machine
      BY <3>1 DEF MachineTypes
    <3>3. QED BY <2>1, <2>2, <3>2 DEF AllAttended, Attended
  <2>5. CASE \E d \in Calls : job' = [job EXCEPT ![d] = IF InFlight(d) THEN Abort(@) ELSE @]
    <3>1. PICK d \in Calls : job' = [job EXCEPT ![d] = IF InFlight(d) THEN Abort(@) ELSE @]
      BY <2>5
    <3>2. \A c \in Calls : job'[c] = job[c] \/ job'[c].link = machine
      BY <3>1 DEF MachineTypes, JobStates, InFlight, Abort
    <3>3. QED BY <2>1, <2>2, <3>2 DEF AllAttended, Attended
  <2>6. Head(down[machine]) \in Downward
    BY <2>1, TailTypes DEF FrameTypes
  <2>7. QED BY <2>1, <2>3, <2>4, <2>5, <2>6 DEF Obey, Downward
<1>5. CASE \E c \in Calls : Working(c)
  <2>1. PICK d \in Calls : Working(d)
    BY <1>5
  <2>2. \A c \in Calls : c # d => job'[c] = job[c]
    BY <2>1 DEF Working, Begin, Finish, Answer, MachineTypes
  <2>3. \/ job'[d].at \in {"answering", "over"}
        \/ job[d].at = "preparing" /\ ~job[d].stop /\ job'[d].link = job[d].link
    BY <2>1 DEF Working, Begin, Finish, Answer, MachineTypes, JobStates
  <2>4. UNCHANGED machine
    BY <2>1 DEF Working, Begin, Finish, Answer, JobStep
  <2>5. QED BY <2>2, <2>3, <2>4 DEF AllAttended, Attended
<1>6. CASE UNCHANGED <<machine, job>>
  BY <1>6 DEF AllAttended, Attended
<1>7. QED
  BY <1>1, <1>2, <1>3, <1>4, <1>5, <1>6
     DEF Next, Waiting, Invoke, Stop, Deadline, OpenPanel, ClosePanel, Opened, Ended, Take, HangUp,
         ServerClosed, SayHello, Rest, vars, machineVars

\* A command runs for the socket that asked for it and no longer
\* (NoUnattendedCommand), whatever stage it is at when that socket drops.
THEOREM NothingRunsUnattended == Spec => []NoUnattendedCommand
<1>1. TypeOK /\ AllAttended /\ [Next]_vars => AllAttended'
  BY AttendedStep
<1>2. AllAttended => NoUnattendedCommand
  BY DEF AllAttended, Attended, NoUnattendedCommand
<1>3. QED BY <1>1, <1>2, InitAttended, LinkTypes, PTL DEF Spec
=============================================================================
