---------------------------- MODULE ExecutorLink ----------------------------
(***************************************************************************)
(* One user's machine and the server: the executor process on the machine  *)
(* (executor/main.ts, terminal.ts), the server's registry of it            *)
(* (executor/registry.ts) and the sockets between them (ws/executor.ts).   *)
(*                                                                         *)
(* The machine has one socket at a time; the server may still hold the     *)
(* ends of older ones.  A socket delivers its frames in order, and either  *)
(* end may learn of its loss long before the other.                        *)
(***************************************************************************)
EXTENDS Integers, Sequences, FiniteSets

CONSTANTS
  Calls,          \* requests to run a command on the machine
  Shells,         \* terminal panels, and the shell each of them opens
  MaxTerminals,   \* MAX_TERMINALS
  MaxLinks,       \* bound: sockets the machine ever opens
  Days            \* who turns up together, and how many sockets came before

ASSUME LinkAssumption ==
  /\ MaxTerminals \in Nat /\ MaxLinks \in Nat
  /\ IsFiniteSet(Shells)
  /\ Calls \cap Shells = {}
  /\ Days \subseteq [who : SUBSET (Calls \cup Shells), before : 0..MaxLinks]

Links == 1..MaxLinks
NoLink == 0
Link0 == 0..MaxLinks

VARIABLES
  server,      \* the server's end of each socket: "none", "open", "closing", "closed"
  greeted,     \* sockets whose hello was taken
  registered,  \* byId: the socket of the machine's entry
  call,        \* the entry's pending calls
  aborted,     \* calls whose run was stopped
  panel,       \* the entry's terminals
  machine,     \* the executor's socket
  made,        \* sockets it opened
  probing,     \* those whose capability probe is out
  job,         \* what the executor does for a call
  shell,       \* and for a terminal
  down, up     \* frames under way on each socket

serverVars == <<server, greeted, registered, call, aborted, panel>>
machineVars == <<machine, made, probing, job, shell>>
vars == <<serverVars, machineVars, down, up>>

Frame(kind, id) == [kind |-> kind, id |-> id]
Hello == Frame("hello", NoLink)

InitOn(day) ==
  /\ server = [k \in Links |-> IF k <= day.before THEN "closed" ELSE "none"]
  /\ greeted = {} /\ registered = NoLink /\ aborted = {}
  /\ call = [c \in Calls |-> [at |-> IF c \in day.who THEN "idle" ELSE "settled", link |-> NoLink]]
  /\ panel = [s \in Shells |-> [at |-> IF s \in day.who THEN "idle" ELSE "over", link |-> NoLink]]
  /\ machine = NoLink /\ made = day.before /\ probing = {}
  /\ job = [c \in Calls |-> [at |-> "none", link |-> NoLink, stop |-> FALSE]]
  /\ shell = [s \in Shells |-> [at |-> "none", link |-> NoLink]]
  /\ down = [k \in Links |-> <<>>] /\ up = [k \in Links |-> <<>>]

Init == \E day \in Days : InitOn(day)

\* conn.send: dropped unless the server's end is open.
Sent(k, frames) == IF server[k] = "open" THEN [down EXCEPT ![k] = @ \o frames] ELSE down

\* The executor's send: on whatever socket it has now.
Reported(frame) ==
  [k \in Links |-> IF k = machine /\ server[k] \in {"open", "closing"} THEN Append(up[k], frame) ELSE up[k]]

-----------------------------------------------------------------------------
(* The server: calls and panels. *)

\* callExecutor.  A cancel names an id the executor learns from the call.
Request_CancelFirst(c) ==
  (IF c \in aborted THEN <<Frame("cancel", c)>> ELSE <<>>) \o <<Frame("call", c)>>
Request(c) ==
  <<Frame("call", c)>> \o (IF c \in aborted THEN <<Frame("cancel", c)>> ELSE <<>>)

Invoke(c) ==
  /\ call[c].at = "idle"
  /\ \/ /\ registered = NoLink   \* ExecutorOfflineError
        /\ call' = [call EXCEPT ![c].at = "settled"]
        /\ UNCHANGED down
     \/ /\ registered # NoLink
        /\ call' = [call EXCEPT ![c] = [at |-> "pending", link |-> registered]]
        /\ down' = Sent(registered, Request(c))
  /\ UNCHANGED <<server, greeted, registered, aborted, panel, machineVars, up>>

\* The run is stopped; onAbort listens while the call is pending.
Stop(c) ==
  /\ c \notin aborted /\ call[c].at # "settled"
  /\ aborted' = aborted \cup {c}
  /\ \/ call[c].at = "pending" /\ down' = Sent(call[c].link, <<Frame("cancel", c)>>)
     \/ call[c].at # "pending" /\ UNCHANGED down
  /\ UNCHANGED <<server, greeted, registered, call, panel, machineVars, up>>

\* ExecutorTimeoutError.
Deadline(c) ==
  /\ call[c].at = "pending"
  /\ call' = [call EXCEPT ![c].at = "settled"]
  /\ UNCHANGED <<server, greeted, registered, aborted, panel, machineVars, down, up>>

\* openExecutorTerminal.
OpenPanel(s) ==
  /\ panel[s].at = "idle"
  /\ \/ registered = NoLink /\ panel' = [panel EXCEPT ![s].at = "over"] /\ UNCHANGED down
     \/ /\ registered # NoLink
        /\ panel' = [panel EXCEPT ![s] = [at |-> "open", link |-> registered]]
        /\ down' = Sent(registered, <<Frame("open", s)>>)
  /\ UNCHANGED <<server, greeted, registered, call, aborted, machineVars, up>>

ClosePanel(s) ==
  /\ panel[s].at = "open"
  /\ panel' = [panel EXCEPT ![s].at = "over"]
  /\ down' = Sent(panel[s].link, <<Frame("close", s)>>)
  /\ UNCHANGED <<server, greeted, registered, call, aborted, machineVars, up>>

-----------------------------------------------------------------------------
(* The server: sockets. *)

\* failPending: what waits on an entry is told.
FailedCalls(k) ==
  [c \in Calls |-> IF call[c].at = "pending" /\ call[c].link = k
                   THEN [call[c] EXCEPT !.at = "settled"] ELSE call[c]]
FailedPanels_Kept(k) == panel
FailedPanels(k) ==
  [s \in Shells |-> IF panel[s].at = "open" /\ panel[s].link = k
                    THEN [panel[s] EXCEPT !.at = "over"] ELSE panel[s]]

Closing(k) == [server EXCEPT ![k] = "closing"]

\* registerExecutor: a second socket replaces the first.
Register(k) ==
  /\ registered' = k /\ greeted' = greeted \cup {k}
  /\ \/ registered = NoLink /\ UNCHANGED <<server, call, panel>>
     \/ /\ registered # NoLink
        /\ server' = Closing(registered)
        /\ call' = FailedCalls(registered) /\ panel' = FailedPanels(registered)

\* handleExecutorResult, handleExecutorTerminalMessage: looked up in the
\* entry of the moment, whichever socket the frame came by.
Answered(id) ==
  /\ call' = [c \in Calls |-> IF c = id /\ call[c].at = "pending" /\ call[c].link = registered
                              THEN [call[c] EXCEPT !.at = "settled"] ELSE call[c]]
  /\ panel' = [s \in Shells |-> IF s = id /\ panel[s].at = "open" /\ panel[s].link = registered
                                THEN [panel[s] EXCEPT !.at = "over"] ELSE panel[s]]

Greets(k) == Head(up[k]).kind = "hello"

\* A frame of a socket, one that is closing included.  The first must be a
\* hello; another hello is ignored.
Take(k) ==
  /\ server[k] \in {"open", "closing"} /\ up[k] # <<>>
  /\ up' = [up EXCEPT ![k] = Tail(@)]
  /\ \/ k \notin greeted /\ Greets(k) /\ Register(k)
     \/ /\ k \notin greeted /\ ~Greets(k)
        /\ server' = Closing(k)
        /\ UNCHANGED <<greeted, registered, call, panel>>
     \/ /\ k \in greeted
        /\ \/ Greets(k) /\ UNCHANGED <<call, panel>>
           \/ ~Greets(k) /\ Answered(Head(up[k]).id)
        /\ UNCHANGED <<server, greeted, registered>>
  /\ UNCHANGED <<aborted, machineVars, down>>

\* No hello in time, or a session that expired.
HangUp(k) ==
  /\ server[k] = "open"
  /\ server' = Closing(k)
  /\ UNCHANGED <<greeted, registered, call, aborted, panel, machineVars, down, up>>

\* The socket's close event, as the machine's end is lost or believed to be,
\* or does not answer the closing handshake.  Only the entry's own socket
\* unregisters it.
Unregisters_Anyone(k) == k \in greeted /\ registered # NoLink
Unregisters(k) == registered = k

Unlinked_Kept == registered
Unlinked == NoLink

ServerClosed(k) ==
  /\ server[k] \in {"open", "closing"}
  /\ server' = [server EXCEPT ![k] = "closed"]
  /\ up' = [up EXCEPT ![k] = <<>>]
  /\ \/ /\ Unregisters(k)
        /\ registered' = Unlinked
        /\ call' = FailedCalls(registered) /\ panel' = FailedPanels(registered)
     \/ ~Unregisters(k) /\ UNCHANGED <<registered, call, panel>>
  /\ UNCHANGED <<greeted, aborted, machineVars, down>>

-----------------------------------------------------------------------------
(* The machine: its socket. *)

Connect ==
  /\ machine = NoLink /\ made < MaxLinks
  /\ made' = made + 1 /\ machine' = made + 1
  /\ probing' = probing \cup {made + 1}
  /\ server' = [server EXCEPT ![made + 1] = "open"]
  /\ UNCHANGED <<greeted, registered, call, aborted, panel, job, shell, down, up>>

\* A socket's capability probe ends; the hello goes to the socket of now.
SayHello(k) ==
  /\ k \in probing
  /\ probing' = probing \ {k}
  /\ up' = Reported(Hello)
  /\ UNCHANGED <<serverVars, machine, made, job, shell, down>>

\* inFlight: the calls a cancel or a close can still reach.
InFlight_Started(c) == job[c].at \in {"running", "answering"} /\ job[c].link = machine
InFlight(c) == job[c].at \in {"preparing", "running", "answering"} /\ job[c].link = machine

\* controller.abort(): a command that runs is killed, one that is being
\* prepared will not start.
Abort(j) == [j EXCEPT !.stop = TRUE, !.at = IF @ = "running" THEN "answering" ELSE @]

\* The socket's close event: commands are aborted, shells closed (closeAll,
\* which knows only those that have opened).
Disconnect ==
  /\ machine # NoLink
  /\ machine' = NoLink
  /\ job' = [c \in Calls |-> IF InFlight(c) THEN Abort(job[c]) ELSE job[c]]
  /\ shell' = [s \in Shells |-> IF shell[s].at = "open" THEN [shell[s] EXCEPT !.at = "ending"] ELSE shell[s]]
  /\ down' = [down EXCEPT ![machine] = <<>>]
  /\ UNCHANGED <<serverVars, made, probing, up>>

\* The process leaves: the desktop closed, 4001, or quit and started again.
\* Its exit handler kills what it runs.
Exit ==
  /\ made > 0
  /\ machine' = NoLink /\ probing' = {}
  /\ job' = [c \in Calls |-> IF job[c].at = "none" THEN job[c] ELSE [job[c] EXCEPT !.at = "over"]]
  /\ shell' = [s \in Shells |-> IF shell[s].at = "none" THEN shell[s] ELSE [shell[s] EXCEPT !.at = "over"]]
  /\ down' = [k \in Links |-> IF k = machine THEN <<>> ELSE down[k]]
  /\ UNCHANGED <<serverVars, made, up>>

-----------------------------------------------------------------------------
(* The machine: commands and shells. *)

Held == {s \in Shells : shell[s].at \in {"opening", "open"}}

\* terminals.open, with its cap on the shells open or opening.
Open(s) ==
  \/ Cardinality(Held) < MaxTerminals
     /\ shell' = [shell EXCEPT ![s] = [at |-> "opening", link |-> machine]] /\ UNCHANGED up
  \/ Cardinality(Held) >= MaxTerminals
     /\ shell' = [shell EXCEPT ![s].at = "over"] /\ up' = Reported(Frame("exit", s))

\* terminals.close: a session, if there is one already.
Close(s) == shell' = [shell EXCEPT ![s].at = IF @ = "open" THEN "ending" ELSE @] /\ UNCHANGED up

Obey(f) ==
  \/ /\ f.kind = "call"
     /\ job' = [job EXCEPT ![f.id] = [at |-> "preparing", link |-> machine, stop |-> FALSE]]
     /\ UNCHANGED <<shell, up>>
  \/ /\ f.kind = "cancel"
     /\ job' = [job EXCEPT ![f.id] = IF InFlight(f.id) THEN Abort(@) ELSE @]
     /\ UNCHANGED <<shell, up>>
  \/ f.kind = "open" /\ Open(f.id) /\ UNCHANGED job
  \/ f.kind = "close" /\ Close(f.id) /\ UNCHANGED job

Serve ==
  \E k \in Links :
    /\ machine = k /\ down[k] # <<>>
    /\ Obey(Head(down[k]))
    /\ down' = [down EXCEPT ![k] = Tail(@)]
    /\ UNCHANGED <<serverVars, machine, made, probing>>

JobStep(c) == UNCHANGED <<serverVars, machine, made, probing, shell, down>>

\* The reference is resolved (or refused); a signal already aborted means
\* nothing should start (execHost).
Begin(c) ==
  /\ job[c].at = "preparing"
  /\ \/ ~job[c].stop /\ job' = [job EXCEPT ![c].at = "running"]
     \/ job' = [job EXCEPT ![c].at = "answering"]
  /\ UNCHANGED up /\ JobStep(c)

Finish(c) ==
  /\ job[c].at = "running"
  /\ job' = [job EXCEPT ![c].at = "answering"]
  /\ UNCHANGED up /\ JobStep(c)

\* settle.
Answer(c) ==
  /\ job[c].at = "answering"
  /\ job' = [job EXCEPT ![c].at = "over"]
  /\ up' = Reported(Frame("result", c))
  /\ JobStep(c)

\* terminals.open goes on: a session, or the refusal.
Opened(s) ==
  /\ shell[s].at = "opening"
  /\ \/ shell' = [shell EXCEPT ![s].at = "open"] /\ UNCHANGED up
     \/ shell' = [shell EXCEPT ![s].at = "over"] /\ up' = Reported(Frame("exit", s))
  /\ UNCHANGED <<serverVars, machine, made, probing, job, down>>

\* session.onClose: it was closed, or its bash ended.
Ended(s) ==
  /\ shell[s].at \in {"open", "ending"}
  /\ shell' = [shell EXCEPT ![s].at = "over"]
  /\ up' = Reported(Frame("exit", s))
  /\ UNCHANGED <<serverVars, machine, made, probing, job, down>>

-----------------------------------------------------------------------------
\* Nothing left to call, open or connect.
Rest ==
  /\ made = MaxLinks /\ machine = NoLink
  /\ \A c \in Calls : call[c].at = "settled"
  /\ \A s \in Shells : panel[s].at = "over"
  /\ UNCHANGED vars

Waiting(c) == Invoke(c) \/ Stop(c) \/ Deadline(c)
Working(c) == Begin(c) \/ Finish(c) \/ Answer(c)
Next ==
  \/ \E c \in Calls : Waiting(c) \/ Working(c)
  \/ \E s \in Shells : OpenPanel(s) \/ ClosePanel(s) \/ Opened(s) \/ Ended(s)
  \/ \E k \in Links : Take(k) \/ HangUp(k) \/ ServerClosed(k) \/ SayHello(k)
  \/ Connect \/ Disconnect \/ Exit \/ Serve \/ Rest

\* The event loops turn, and frames travel while both ends have the socket.
\* Nobody need stop, answer or reconnect, no deadline need pass, and neither
\* end need ever learn that the other is gone: there is no ping.
Holds(k) == machine = k /\ server[k] = "open"
Served == (\E k \in Links : Holds(k)) /\ Serve
Fairness ==
  /\ WF_vars(Served)
  /\ \A k \in Links : WF_vars(Holds(k) /\ Take(k)) /\ WF_vars(SayHello(k))
  /\ \A c \in Calls : WF_vars(Begin(c)) /\ WF_vars(Answer(c))

Spec == Init /\ [][Next]_vars
FairSpec == Spec /\ Fairness

-----------------------------------------------------------------------------
(* Properties. *)

\* Types of both ends; the entry's socket said hello and has not closed.
Downward == [kind : {"call", "cancel"}, id : Calls] \cup [kind : {"open", "close"}, id : Shells]
Upward == {Hello} \cup [kind : {"result"}, id : Calls] \cup [kind : {"exit"}, id : Shells]
Ends == {"none", "open", "closing", "closed"}
CallStates == [at : {"idle", "pending", "settled"}, link : Link0]
PanelStates == [at : {"idle", "open", "over"}, link : Link0]
JobStates ==
  [at : {"none", "preparing", "running", "answering", "over"}, link : Link0, stop : BOOLEAN]
ShellStates == [at : {"none", "opening", "open", "ending", "over"}, link : Link0]

ServerTypes ==
  /\ server \in [Links -> Ends]
  /\ greeted \subseteq Links /\ registered \in Link0
  /\ registered # NoLink => registered \in greeted /\ server[registered] \in {"open", "closing"}
  /\ call \in [Calls -> CallStates] /\ panel \in [Shells -> PanelStates]
  /\ aborted \subseteq Calls
MachineTypes ==
  /\ made \in Link0 /\ machine \in {NoLink, made} /\ probing \subseteq Links
  /\ job \in [Calls -> JobStates] /\ shell \in [Shells -> ShellStates]
FrameTypes == down \in [Links -> Seq(Downward)] /\ up \in [Links -> Seq(Upward)]
TypeOK == ServerTypes /\ MachineTypes /\ FrameTypes

\* main.ts:203: a command runs for the connection that asked for it and no
\* longer: whatever stage it is at when the socket drops, none runs on
\* unattended, across reconnects included.
NoUnattendedCommand == \A c \in Calls : job[c].at = "running" => job[c].link = machine

\* registry.ts:97: a call or a panel waits only on the entry that is
\* registered; whoever waited on one that was replaced or lost has been told.
NobodyWaitsOnGone ==
  /\ \A c \in Calls : call[c].at = "pending" => call[c].link = registered /\ registered # NoLink
  /\ \A s \in Shells : panel[s].at = "open" => panel[s].link = registered /\ registered # NoLink

\* registry.ts:337: a call that is stopped, before it is sent or while the
\* server waits for it, ends up not running, without its own end or timeout;
\* supposing the machine is not left for ever on a socket whose other end is
\* gone, which nothing would tell it.
Stranded(k) == machine = k /\ server[k] # "open"
StopReachesCommand ==
  (\A k \in Links : []<>~Stranded(k)) =>
    \A c \in Calls :
      [](c \in aborted /\ call[c].at = "pending" => <>[](job[c].at # "running"))

\* registry.ts:166: a machine whose connection holds is registered by it in
\* the end, whatever frames and closes of its older sockets arrive late.
StaysReachable == \A k \in Links : <>[]Holds(k) => <>[](registered = k)
=============================================================================
