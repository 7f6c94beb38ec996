---------------------------- MODULE SandboxPool ----------------------------
(***************************************************************************)
(* One user's containers: the engine's, the sandboxes table's account of   *)
(* them, and the server's two maps (agent/sandbox-manager.ts over          *)
(* sandbox/container-engine.ts).                                           *)
(*                                                                         *)
(* A process is one call of the manager, a step what it does between two   *)
(* awaits, the awaited write or engine request taking effect as the step   *)
(* begins.  Every sandbox needs the same room, so the user's allocation is *)
(* a number of them.  Any wait may outlast the idle window.                *)
(***************************************************************************)
EXTENDS Integers, FiniteSets

CONSTANTS
  Convs,                  \* the user's conversations
  Calls,                  \* getConversationSandbox: tool calls of runs
  Terminals,              \* attachRunningSandbox: terminal, files and git routes
  Pauses, Switches,       \* by the owner, under the conversation's claim
  Ticks,                  \* the idle timer reaching one conversation
  Deletes,                \* destroyConversationSandboxes
  ConvOf,                 \* the conversation each of them is about
  Days,                   \* sets of them, and of Mishaps, that turn up together
  Limit,                  \* the allocation, in sandboxes
  Refs,                   \* bound: containers the engine can make
  NoOne

Procs == Calls \cup Terminals \cup Pauses \cup Switches \cup Ticks \cup Deletes
Kinds == <<Calls, Terminals, Pauses, Switches, Ticks, Deletes>>

\* Each can happen once on a day that has it: the server restarts, a container
\* is removed by hand, the engine leaves a request of this kind unanswered.
Requests == {"create", "start", "stop", "exists", "remove"}
Mishaps == Requests \cup {"restart", "loss"}

ASSUME PoolAssumption ==
  /\ Convs # {} /\ ConvOf \in [Procs -> Convs]
  /\ \A i, j \in 1..6 : i # j => Kinds[i] \cap Kinds[j] = {}
  /\ Days \subseteq SUBSET (Procs \cup Mishaps)
  /\ Refs \subseteq Nat /\ 0 \notin Refs /\ IsFiniteSet(Refs)
  /\ IsFiniteSet(Procs)
  /\ Limit \in Nat
  /\ NoOne \notin Procs

NoRef == 0
Ref0 == Refs \cup {NoRef}

VARIABLES
  engine,    \* per container: "none" yet, "running", "stopped" or "gone"
  row,       \* its row: "none" yet, "running", "stopped" or "destroyed"
  home,      \* its conversation
  maker,     \* who made it, NoOne before this story
  born,      \* under which process of the server
  active,    \* per conversation: the entry's container, and who registered it
  pending,   \* per conversation: the call creating its sandbox
  reserved,  \* who holds a reservation
  deciding,  \* whose reservation is being decided
  pr,        \* per process
  boot,      \* the boot sweep
  lost,      \* containers removed by hand
  ahead,     \* mishaps still to come today
  restarts,
  \* History, which no action reads:
  forsaken,  \* containers still there when their row was given up, but
             \* by a delete whose request the engine answered
  revived    \* rows marked again after they had been given up

poolVars == <<home, maker, born>>
faultVars == <<lost, ahead, restarts>>
historyVars == <<forsaken, revived>>
vars == <<engine, row, poolVars, active, pending, reserved, deciding, pr, boot, faultVars, historyVars>>

RunningRows == {f \in Refs : row[f] = "running"}
Claiming == {"running", "stopped"}
Live(f) == engine[f] \in {"running", "stopped"}
Claims(c) == {f \in Refs : home[f] = c /\ row[f] \in Claiming}
RunningClaims(c) == {f \in Refs : home[f] = c /\ row[f] = "running"}
Recoverable_Running(c) == RunningClaims(c)
Recoverable(c) == Claims(c)

Places == {"absent", "idle", "done", "lost",
  "cached", "tomb", "joined", "lookup", "start", "touch", "mark", "settle", "dead",
  "make", "record",                                 \* createEntryReserved
  "reserve", "measure", "reconcile", "remeasure",   \* reserveNow
  "pause", "stopping",
  "snapped", "tick", "ticked",
  "look", "inspect", "copy", "land", "discard",     \* replaceConversationSandbox
  "await", "list", "destroy"}
Goals == {"none", "wake", "late", "make", "switch"}

NoEntry == [ref |-> NoRef, by |-> NoOne]
AtRest(place) ==
  [at |-> place, ref |-> NoRef, goal |-> "none", held |-> 0, mine |-> NoEntry,
   todo |-> {}, owes |-> {}, awaits |-> NoOne]
BootOver == [at |-> "over", claims |-> {}, todo |-> {}, ref |-> NoRef]

\* A conversation begins with no sandbox, with one in use or with a paused one.
Holds(start, first, c, f) == start[c] # "none" /\ first[c] = f
Opening(start, first, f) ==
  IF \E c \in Convs : Holds(start, first, c, f)
    THEN IF \E c \in Convs : Holds(start, first, c, f) /\ start[c] = "used" THEN "running" ELSE "stopped"
    ELSE "none"
Opens(start, first, day) ==
  /\ \A c, d \in Convs : c # d => first[c] # first[d]
  /\ \A c \in Convs : first[c] <= Cardinality(Convs)
  /\ engine = [f \in Refs |-> Opening(start, first, f)]
  /\ row = engine
  /\ Cardinality(RunningRows) <= Limit
  /\ home = [f \in Refs |-> CHOOSE c \in Convs : (\E d \in Convs : first[d] = f) => first[c] = f]
  /\ active = [c \in Convs |-> IF start[c] = "used" THEN [ref |-> first[c], by |-> NoOne] ELSE NoEntry]
  /\ pr = [p \in Procs |-> AtRest(IF p \in day THEN "idle" ELSE "absent")]
  /\ ahead = day \cap Mishaps

Init ==
  /\ \E start \in [Convs -> {"none", "used", "paused"}], first \in [Convs -> Refs], day \in Days :
       Opens(start, first, day)
  /\ maker = [f \in Refs |-> NoOne] /\ born = [f \in Refs |-> 0]
  /\ pending = [c \in Convs |-> NoOne] /\ reserved = {} /\ deciding = NoOne
  /\ boot = BootOver /\ lost = {} /\ restarts = 0 /\ forsaken = {} /\ revived = {}

At(p, place) == pr[p].at = place
Goes(p, place) == pr' = [pr EXCEPT ![p].at = place]
InFlight(p) == pr[p].at \notin {"absent", "idle", "done", "lost"}
InFlightOn(c, kind) == \E p \in kind : ConvOf[p] = c /\ InFlight(p)

\* The engine does not answer this request.
Happens(mishap) == mishap \in ahead /\ ahead' = ahead \ {mishap}
Fails(request) == request \in Requests /\ Happens(request)
Answers == UNCHANGED ahead

\* What is left when process p is finished: its reservation released, and
\* when it was creating its conversation's sandbox, everyone who joined it
\* answered too.
Shared(p) == {q \in Calls : At(q, "joined") /\ pending[ConvOf[q]] = p}
Ends_Holding(p) ==
  /\ pr' = [q \in Procs |-> IF q \in {p} \cup Shared(p) THEN AtRest("done") ELSE pr[q]]
  /\ pending' = [c \in Convs |-> IF pending[c] = p THEN NoOne ELSE pending[c]]
  /\ UNCHANGED reserved
Ends(p) ==
  /\ pr' = [q \in Procs |-> IF q \in {p} \cup Shared(p) THEN AtRest("done") ELSE pr[q]]
  /\ pending' = [c \in Convs |-> IF pending[c] = p THEN NoOne ELSE pending[c]]
  /\ reserved' = reserved \ {p}

-----------------------------------------------------------------------------
(* Reservations: one user's are decided one at a time (reserveSandbox). *)

Replaced(p) == IF pr[p].goal = "switch" THEN {pr[p].ref} ELSE {}

\* The two reads of a measure, in their order: reservations, then rows.
Reading_RowsFirst(turn, except) ==
  IF turn = 2 THEN Cardinality(reserved) ELSE Cardinality(RunningRows \ except)
Reading(turn, except) ==
  IF turn = 1 THEN Cardinality(reserved) ELSE Cardinality(RunningRows \ except)

Fits(p) == pr[p].held + Reading(2, Replaced(p)) + 1 <= Limit

Reserve(p) ==
  /\ At(p, "reserve") /\ deciding = NoOne
  /\ deciding' = p
  /\ pr' = [pr EXCEPT ![p].at = "measure", ![p].held = Reading(1, Replaced(p))]
  /\ UNCHANGED <<engine, row, poolVars, active, pending, reserved, boot, faultVars>>

Granted(goal) ==
  CASE goal = "wake" -> "start" [] goal = "late" -> "mark"
    [] goal = "make" -> "make"  [] OTHER -> "copy"

Grant(p) ==
  /\ pr[p].at \in {"measure", "remeasure"} /\ Fits(p)
  /\ reserved' = reserved \cup {p}
  /\ deciding' = NoOne
  /\ pr' = [pr EXCEPT ![p].at = Granted(pr[p].goal), ![p].held = 0]
  /\ UNCHANGED <<engine, row, poolVars, active, pending, boot, faultVars>>

LooksAgain(p) ==
  /\ At(p, "measure") /\ ~Fits(p)
  /\ Goes(p, "reconcile")
  /\ UNCHANGED <<engine, row, poolVars, active, pending, reserved, deciding, boot, faultVars>>

\* markDeadRowsDestroyed: exists() is false of a container that is gone, and
\* of one the engine did not answer about.
Dead(candidates) == {f \in candidates : engine[f] = "gone"}
Buried(rows) == [f \in Refs |-> IF f \in rows THEN "destroyed" ELSE row[f]]
BuryDead(candidates) ==
  \/ Answers /\ row' = Buried(Dead(candidates))
  \/ Fails("exists") /\ \E f \in candidates : row' = Buried(Dead(candidates) \cup {f})

Reconcile(p) ==
  /\ At(p, "reconcile")
  /\ BuryDead(RunningRows)
  /\ pr' = [pr EXCEPT ![p].at = "remeasure", ![p].held = Reading(1, Replaced(p))]
  /\ UNCHANGED <<engine, poolVars, active, pending, reserved, deciding, boot, lost, restarts>>

\* SandboxLimitError.  A wake that started its container before it asked
\* leaves it running: `release` is still undefined where wake() looks.
Refuse(p) ==
  /\ At(p, "remeasure") /\ ~Fits(p)
  /\ deciding' = NoOne
  /\ Ends(p)
  /\ UNCHANGED <<engine, row, poolVars, active, boot, faultVars>>

-----------------------------------------------------------------------------
(* A run's tool call, and the routes that wake a row. *)

\* A claim of the conversation keeps runs out, and a run keeps claims out.
\* A delete waits for the runs it stops, so no call starts after it.
MayCall(c) ==
  /\ ~InFlightOn(c, Pauses \cup Switches)
  /\ \A d \in Deletes : ConvOf[d] = c => pr[d].at \in {"absent", "idle"}
MayClaim(c) == ~InFlightOn(c, Calls \cup Pauses \cup Switches)

\* resolveEntry from `pending.get` on.
JoinOrCreate(p) ==
  IF pending[ConvOf[p]] # NoOne
    THEN /\ pr' = [pr EXCEPT ![p] = AtRest("joined")]
         /\ UNCHANGED pending
    ELSE /\ pending' = [pending EXCEPT ![ConvOf[p]] = p]
         /\ pr' = [pr EXCEPT ![p] = AtRest("lookup")]

Call(p) ==
  /\ p \in Calls /\ At(p, "idle") /\ MayCall(ConvOf[p])
  /\ LET entry == active[ConvOf[p]] IN
     IF entry # NoEntry
       THEN pr' = [pr EXCEPT ![p].at = "cached", ![p].ref = entry.ref] /\ UNCHANGED pending
       ELSE JoinOrCreate(p)
  /\ UNCHANGED <<engine, row, poolVars, active, reserved, deciding, boot, faultVars>>

Started(f) == engine' = [engine EXCEPT ![f] = "running"]

\* The cached entry's container is started, whatever its row says.
Cached(p) ==
  /\ At(p, "cached")
  /\ \/ /\ Live(pr[p].ref) /\ Answers /\ Started(pr[p].ref)
        /\ Goes(p, "done") /\ UNCHANGED active
     \/ /\ ~Live(pr[p].ref) /\ Answers
        /\ active' = [active EXCEPT ![ConvOf[p]] = NoEntry]
        /\ Goes(p, "tomb") /\ UNCHANGED engine
     \/ Fails("start") /\ Goes(p, "done") /\ UNCHANGED <<engine, active>>
  /\ UNCHANGED <<row, poolVars, pending, reserved, deciding, boot, lost, restarts>>

Stopped(f) == [row EXCEPT ![f] = "stopped"]  \* markStopped: unconditional

Tomb(p) ==
  /\ p \in Calls /\ At(p, "tomb")
  /\ row' = Stopped(pr[p].ref)
  /\ JoinOrCreate(p)
  /\ UNCHANGED <<engine, poolVars, active, reserved, deciding, boot, faultVars>>

\* A row read as stopped is a wake, reserved first; one read as running is not.
Wakes(p, f) ==
  pr' = [pr EXCEPT ![p].ref = f,
                   ![p].at = IF row[f] = "stopped" THEN "reserve" ELSE "start",
                   ![p].goal = IF row[f] = "stopped" THEN "wake" ELSE "none"]

Lookup(p) ==
  /\ At(p, "lookup")
  /\ \/ \E f \in Recoverable(ConvOf[p]) : Wakes(p, f)
     \/ /\ Recoverable(ConvOf[p]) = {}
        /\ pr' = [pr EXCEPT ![p].at = "reserve", ![p].goal = "make"]
  /\ UNCHANGED <<engine, row, poolVars, active, pending, reserved, deciding, boot, faultVars>>

\* The route has read a row that is not destroyed.
Terminal(p) ==
  /\ p \in Terminals /\ At(p, "idle")
  /\ \E f \in Claims(ConvOf[p]) : Wakes(p, f)
  /\ UNCHANGED <<engine, row, poolVars, active, pending, reserved, deciding, boot, faultVars>>

Start(p) ==
  /\ At(p, "start")
  /\ \/ /\ Live(pr[p].ref) /\ Answers /\ Started(pr[p].ref)
        /\ Goes(p, IF p \in reserved THEN "mark" ELSE "touch")
        /\ UNCHANGED <<pending, reserved>>
     \/ /\ ~Live(pr[p].ref) /\ Answers
        /\ Goes(p, "dead") /\ reserved' = reserved \ {p}
        /\ UNCHANGED <<engine, pending>>
     \/ Fails("start") /\ Ends(p) /\ UNCHANGED engine
  /\ UNCHANGED <<row, poolVars, active, deciding, boot, lost, restarts>>

\* touchRunning: a Pause since the row was read makes this start a wake.
Touch(p) ==
  /\ At(p, "touch")
  /\ pr' = [pr EXCEPT ![p].at = IF row[pr[p].ref] = "running" THEN "settle" ELSE "reserve",
                      ![p].goal = IF row[pr[p].ref] = "running" THEN "none" ELSE "late"]
  /\ UNCHANGED <<engine, row, poolVars, active, pending, reserved, deciding, boot, faultVars>>

Mark(p) ==
  /\ At(p, "mark")
  /\ row' = [row EXCEPT ![pr[p].ref] = "running"]
  /\ Goes(p, "settle")
  /\ UNCHANGED <<engine, poolVars, active, pending, reserved, deciding, boot, faultVars>>

\* A call registers its container; a route does unless another is registered.
Registers(p) ==
  \/ p \in Calls
  \/ active[ConvOf[p]].ref \in {NoRef, pr[p].ref}

Settle(p) ==
  /\ At(p, "settle")
  /\ active' = IF Registers(p) THEN [active EXCEPT ![ConvOf[p]] = [ref |-> pr[p].ref, by |-> p]]
                               ELSE active
  /\ Ends(p)
  /\ UNCHANGED <<engine, row, poolVars, deciding, boot, faultVars>>

\* Gone after all: a call goes on to make another, a route answers 404.
DeadRow(p) ==
  /\ At(p, "dead")
  /\ row' = Buried({pr[p].ref})
  /\ IF p \in Calls
       THEN pr' = [pr EXCEPT ![p] = [AtRest("reserve") EXCEPT !.goal = "make"]]
            /\ UNCHANGED <<pending, reserved>>
       ELSE Ends(p)
  /\ UNCHANGED <<engine, poolVars, active, deciding, boot, faultVars>>

Unmade == {f \in Refs : engine[f] = "none"}
New == CHOOSE f \in Unmade : TRUE

\* provider.create
Creates(p, f) ==
  /\ engine' = [engine EXCEPT ![f] = "running"]
  /\ home' = [home EXCEPT ![f] = ConvOf[p]]
  /\ maker' = [maker EXCEPT ![f] = p]
  /\ born' = [born EXCEPT ![f] = restarts]

Make(p) ==
  /\ At(p, "make") /\ Unmade # {}
  /\ \/ /\ Answers /\ Creates(p, New)
        /\ pr' = [pr EXCEPT ![p].at = "record", ![p].ref = New]
        /\ UNCHANGED <<pending, reserved>>
     \/ Fails("create") /\ Ends(p) /\ UNCHANGED <<engine, poolVars>>
  /\ UNCHANGED <<row, active, deciding, boot, lost, restarts>>

Record(p) ==
  /\ At(p, "record")
  /\ row' = [row EXCEPT ![pr[p].ref] = "running"]
  /\ active' = [active EXCEPT ![ConvOf[p]] = [ref |-> pr[p].ref, by |-> p]]
  /\ Ends(p)
  /\ UNCHANGED <<engine, poolVars, deciding, boot, faultVars>>

-----------------------------------------------------------------------------
(* Pause, and the idle timer. *)

Halted(f) == engine' = [engine EXCEPT ![f] = IF @ = "running" THEN "stopped" ELSE @]

\* stop() answers nothing either way: the handle swallows what it could not do.
Halt(f) ==
  \/ Answers /\ Halted(f)
  \/ Fails("stop") /\ UNCHANGED engine

Pause(p) ==
  /\ p \in Pauses /\ At(p, "idle") /\ MayClaim(ConvOf[p])
  /\ \E f \in RunningClaims(ConvOf[p]) :
       pr' = [pr EXCEPT ![p].at = "pause", ![p].ref = f,
                        ![p].mine = IF active[ConvOf[p]].ref = f THEN active[ConvOf[p]] ELSE NoEntry]
  /\ UNCHANGED <<engine, row, poolVars, active, pending, reserved, deciding, boot, faultVars>>

\* The row first, and only from running.
MarkPaused(p) ==
  /\ At(p, "pause")
  /\ IF row[pr[p].ref] = "running"
       THEN /\ row' = Stopped(pr[p].ref)
            /\ active' = IF active[ConvOf[p]] = pr[p].mine
                           THEN [active EXCEPT ![ConvOf[p]] = NoEntry] ELSE active
            /\ Goes(p, "stopping")
       ELSE Goes(p, "done") /\ UNCHANGED <<row, active>>
  /\ UNCHANGED <<engine, poolVars, pending, reserved, deciding, boot, faultVars>>

StopPaused(p) ==
  /\ At(p, "stopping")
  /\ Halt(pr[p].ref)
  /\ Goes(p, "done")
  /\ UNCHANGED <<row, poolVars, active, pending, reserved, deciding, boot, lost, restarts>>

\* stopIdleSandboxes: the entries are copied first, and other conversations'
\* may be stopped before this one's turn comes.
Snapshot(p) ==
  /\ p \in Ticks /\ At(p, "idle") /\ active[ConvOf[p]] # NoEntry
  /\ pr' = [pr EXCEPT ![p].at = "snapped", ![p].ref = active[ConvOf[p]].ref]
  /\ UNCHANGED <<engine, row, poolVars, active, pending, reserved, deciding, boot, faultVars>>

\* Forgotten, stopped, marked; or used since.
Tick(p) ==
  /\ At(p, "snapped")
  /\ \/ active' = [active EXCEPT ![ConvOf[p]] = NoEntry] /\ Goes(p, "tick")
     \/ Goes(p, "done") /\ UNCHANGED active
  /\ UNCHANGED <<engine, row, poolVars, pending, reserved, deciding, boot, faultVars>>

StopIdle(p) ==
  /\ At(p, "tick")
  /\ Halt(pr[p].ref)
  /\ Goes(p, "ticked")
  /\ UNCHANGED <<row, poolVars, active, pending, reserved, deciding, boot, lost, restarts>>

MarkIdle(p) ==
  /\ At(p, "ticked")
  /\ row' = Stopped(pr[p].ref)
  /\ Goes(p, "done")
  /\ UNCHANGED <<engine, poolVars, active, pending, reserved, deciding, boot, faultVars>>

-----------------------------------------------------------------------------
(* An image switch, and the deletion of a conversation. *)

InUse(c) == {f \in Claims(c) : f = active[c].ref}
Working(c) ==
  IF InUse(c) # {} THEN InUse(c)
  ELSE IF RunningClaims(c) # {} THEN RunningClaims(c) ELSE Claims(c)

Switch(p) ==
  /\ p \in Switches /\ At(p, "idle") /\ MayClaim(ConvOf[p])
  /\ Goes(p, "look")
  /\ UNCHANGED <<engine, row, poolVars, active, pending, reserved, deciding, boot, faultVars>>

FindWorking(p) ==
  /\ At(p, "look")
  /\ \/ Working(ConvOf[p]) = {} /\ Goes(p, "done")
     \/ \E f \in Working(ConvOf[p]) : pr' = [pr EXCEPT ![p].at = "inspect", ![p].ref = f]
  /\ UNCHANGED <<engine, row, poolVars, active, pending, reserved, deciding, boot, faultVars>>

Inspect(p) ==
  /\ At(p, "inspect")
  /\ IF Live(pr[p].ref)
       THEN /\ pr' = [pr EXCEPT ![p].at = "reserve", ![p].goal = "switch"]
            /\ UNCHANGED <<row, active>>
       ELSE /\ row' = Buried({pr[p].ref})
            /\ active' = IF active[ConvOf[p]].ref = pr[p].ref
                           THEN [active EXCEPT ![ConvOf[p]] = NoEntry] ELSE active
            /\ Goes(p, "done")
  /\ UNCHANGED <<engine, poolVars, pending, reserved, deciding, boot, faultVars>>

CreateNext(p) ==
  /\ At(p, "copy") /\ Unmade # {}
  /\ \/ /\ Answers /\ Creates(p, New)
        /\ pr' = [pr EXCEPT ![p].at = "land", ![p].todo = {New}]
        /\ UNCHANGED <<pending, reserved>>
     \/ Fails("create") /\ Ends(p) /\ UNCHANGED <<engine, poolVars>>
  /\ UNCHANGED <<row, active, deciding, boot, lost, restarts>>

\* One transaction gives the old row up and inserts the new one.
Land(p) ==
  /\ At(p, "land")
  /\ \E next \in pr[p].todo :
       /\ row' = [row EXCEPT ![pr[p].ref] = "destroyed", ![next] = "running"]
       /\ active' = [active EXCEPT ![ConvOf[p]] = [ref |-> next, by |-> p]]
       /\ pr' = [pr EXCEPT ![p].at = "discard", ![p].ref = next, ![p].todo = {pr[p].ref}]
  /\ UNCHANGED <<engine, poolVars, pending, reserved, deciding, boot, faultVars>>

Removed(refs) == [f \in Refs |-> IF f \in refs /\ Live(f) THEN "gone" ELSE engine[f]]

\* destroy() swallows what the engine did not do, and its callers a failing
\* attach: they go on as if the container were gone.
Remove(refs) ==
  \/ Answers /\ engine' = Removed(refs)
  \/ Fails("remove") /\ \E f \in refs : engine' = Removed(refs \ {f})

\* The copy failed, or ran out of time: what was made for it goes.
Rollback(p) == pr[p].todo

CopyFails(p) ==
  /\ At(p, "land")
  /\ Remove(Rollback(p))
  /\ Ends(p)
  /\ UNCHANGED <<row, poolVars, active, deciding, boot, lost, restarts>>

Discard(p) ==
  /\ At(p, "discard")
  /\ Remove(pr[p].todo)
  /\ Ends(p)
  /\ UNCHANGED <<row, poolVars, active, deciding, boot, lost, restarts>>

\* A creation in flight is awaited before the map is cleared and the rows read.
Awaited_Nobody(c) == NoOne
Awaited(c) == pending[c]

Delete(p) ==
  /\ p \in Deletes /\ At(p, "idle") /\ ~InFlightOn(ConvOf[p], Switches \cup Pauses)
  /\ pr' = [pr EXCEPT ![p].at = "await", ![p].owes = Claims(ConvOf[p]),
                      ![p].awaits = pending[ConvOf[p]]]
  /\ UNCHANGED <<engine, row, poolVars, active, pending, reserved, deciding, boot, faultVars>>

Forget(p) ==
  /\ At(p, "await")
  /\ Awaited(ConvOf[p]) = NoOne
  /\ active' = [active EXCEPT ![ConvOf[p]] = NoEntry]
  /\ Goes(p, "list")
  /\ UNCHANGED <<engine, row, poolVars, pending, reserved, deciding, boot, faultVars>>

ListRows(p) ==
  /\ At(p, "list")
  /\ pr' = [pr EXCEPT ![p].at = "destroy", ![p].todo = Claims(ConvOf[p])]
  /\ UNCHANGED <<engine, row, poolVars, active, pending, reserved, deciding, boot, faultVars>>

DestroyOne(p) ==
  /\ At(p, "destroy")
  /\ \/ \E f \in pr[p].todo :
          /\ Remove({f})
          /\ row' = Buried({f})
          /\ pr' = [pr EXCEPT ![p].todo = @ \ {f}]
     \/ pr[p].todo = {} /\ Goes(p, "done") /\ Answers /\ UNCHANGED <<engine, row>>
  /\ UNCHANGED <<poolVars, active, pending, reserved, deciding, boot, lost, restarts>>

-----------------------------------------------------------------------------
(* The server goes down and comes back, and sweeps beside its first requests. *)

Restart ==
  /\ Happens("restart")
  /\ restarts' = restarts + 1
  /\ pr' = [p \in Procs |-> IF InFlight(p) THEN AtRest("lost") ELSE pr[p]]
  /\ active' = [c \in Convs |-> NoEntry]
  /\ pending' = [c \in Convs |-> NoOne]
  /\ reserved' = {} /\ deciding' = NoOne
  /\ boot' = [BootOver EXCEPT !.at = "read"]
  /\ UNCHANGED <<engine, row, poolVars, lost>>

BootAt(place) == boot.at = place
TheRest == <<poolVars, active, pending, reserved, deciding, pr, lost, restarts>>

Swept_Running == RunningRows
Swept == {f \in Refs : row[f] \in Claiming}

ReadClaims ==
  /\ BootAt("read")
  /\ boot' = [at |-> "dead", claims |-> Swept, todo |-> RunningRows, ref |-> NoRef]
  /\ UNCHANGED <<engine, row, ahead, TheRest>>

SweepDead ==
  /\ BootAt("dead")
  /\ BuryDead(boot.claims)
  /\ boot' = [boot EXCEPT !.at = "stray"]
  /\ UNCHANGED <<engine, TheRest>>

Registered(f) == \E c \in Convs : active[c].ref = f

\* stopStrayRunning, one row at a time: one that nobody has woken yet.
StopStray ==
  /\ BootAt("stray")
  /\ \E f \in boot.todo :
       boot' = [boot EXCEPT !.todo = @ \ {f}, !.at = IF Registered(f) THEN "stray" ELSE "halt",
                            !.ref = IF Registered(f) THEN NoRef ELSE f]
  /\ UNCHANGED <<engine, row, ahead, TheRest>>

HaltStray ==
  /\ BootAt("halt")
  /\ \/ Live(boot.ref) /\ Halt(boot.ref) /\ boot' = [boot EXCEPT !.at = "mark"]
     \/ /\ (engine[boot.ref] = "gone" /\ Answers) \/ Fails("exists")
        /\ boot' = [boot EXCEPT !.at = "stray", !.ref = NoRef]
        /\ UNCHANGED engine
  /\ UNCHANGED <<row, TheRest>>

MarkStray ==
  /\ BootAt("mark")
  /\ row' = Stopped(boot.ref)
  /\ boot' = [boot EXCEPT !.at = "stray", !.ref = NoRef]
  /\ UNCHANGED <<engine, ahead, TheRest>>

\* Containers no row claimed, made before this process: destroyed.
Unclaimed == {f \in Refs : Live(f) /\ born[f] < restarts /\ f \notin boot.claims /\ ~Registered(f)}

SweepUnclaimed ==
  /\ BootAt("stray") /\ boot.todo = {}
  /\ Remove(Unclaimed)
  /\ boot' = BootOver
  /\ UNCHANGED <<row, TheRest>>

\* `docker rm`, or an engine that lost it.
Lose ==
  /\ Happens("loss")
  /\ \E f \in Refs :
       /\ Live(f)
       /\ engine' = [engine EXCEPT ![f] = "gone"]
       /\ lost' = lost \cup {f}
  /\ UNCHANGED <<row, poolVars, active, pending, reserved, deciding, pr, boot, restarts>>

-----------------------------------------------------------------------------
Reserving(p) == Reserve(p) \/ Grant(p) \/ LooksAgain(p) \/ Reconcile(p) \/ Refuse(p)
Waking(p) ==
  \/ Call(p) \/ Cached(p) \/ Tomb(p) \/ Lookup(p) \/ Terminal(p) \/ Start(p) \/ Touch(p)
  \/ Mark(p) \/ Settle(p) \/ DeadRow(p) \/ Make(p) \/ Record(p)
Pausing(p) ==
  \/ Pause(p) \/ MarkPaused(p) \/ StopPaused(p) \/ Snapshot(p) \/ Tick(p) \/ StopIdle(p) \/ MarkIdle(p)
Switching(p) ==
  \/ Switch(p) \/ FindWorking(p) \/ Inspect(p) \/ CreateNext(p) \/ Land(p) \/ CopyFails(p) \/ Discard(p)
Deleting(p) == Delete(p) \/ Forget(p) \/ ListRows(p) \/ DestroyOne(p)
Booting == ReadClaims \/ SweepDead \/ StopStray \/ HaltStray \/ MarkStray \/ SweepUnclaimed

GivenUp(f) == row[f] = "destroyed"
Unanswered(request) == request \in ahead \ ahead'
Deleted(f) == \E p \in Deletes : At(p, "destroy") /\ f \in pr[p].todo \ pr'[p].todo
Remember ==
  /\ forsaken' = forsaken \cup {f \in Refs : ~GivenUp(f) /\ GivenUp(f)' /\ Live(f)'
                                             /\ (Deleted(f) => Unanswered("remove"))}
  /\ revived' = revived \cup {f \in Refs : GivenUp(f) /\ ~GivenUp(f)'}

\* Nobody waits for anything any more.
Rest == (\A p \in Procs : ~InFlight(p)) /\ BootAt("over") /\ UNCHANGED vars

Step ==
  \/ \E p \in Procs : Reserving(p) \/ Waking(p) \/ Pausing(p) \/ Switching(p) \/ Deleting(p)
  \/ Booting \/ Restart \/ Lose

Next == (Step /\ Remember) \/ Rest

Spec == Init /\ [][Next]_vars

-----------------------------------------------------------------------------
(* Properties. *)

\* Types of the pool's state; a reservation is held only by somebody at work.
Entries == [ref : Ref0, by : Procs \cup {NoOne}]
ProcStates ==
  [at : Places, ref : Ref0, goal : Goals, held : Nat, mine : Entries,
   todo : SUBSET Ref0, owes : SUBSET Refs, awaits : Calls \cup {NoOne}]
TypeOK ==
  /\ engine \in [Refs -> {"none", "running", "stopped", "gone"}]
  /\ row \in [Refs -> {"none", "running", "stopped", "destroyed"}]
  /\ home \in [Refs -> Convs] /\ maker \in [Refs -> Procs \cup {NoOne}]
  /\ born \in [Refs -> 0..restarts]
  /\ active \in [Convs -> Entries]
  /\ pending \in [Convs -> Calls \cup {NoOne}]
  /\ reserved \in SUBSET {p \in Procs : InFlight(p)}
  /\ deciding \in Procs \cup {NoOne}
  /\ pr \in [Procs -> ProcStates]
  /\ restarts \in Nat /\ ahead \subseteq Mishaps
  /\ lost \subseteq Refs /\ forsaken \subseteq Refs /\ revived \subseteq Refs

\* What the allocation is charged, the ledger: the reservations, and the
\* running rows none of them is about.  A switch's stands in for what it
\* replaces.
Starting == {pr[p].ref : p \in reserved}
Charged == Cardinality(reserved) + Cardinality(RunningRows \ Starting)

\* However tool calls, routes, switches and pauses race, reservations and
\* running rows together never exceed the allocation: reserveNow reads the one
\* and the other across awaits, while starts go from the one to the other.
\* This is the ledger, not the engine: a container started without a
\* reservation, whose row a Pause or the idle timer marked stopped meanwhile,
\* is in neither until its late reservation, after a refused one for good.
ChargedWithinLimit == Charged <= Limit

\* A conversation never has two live containers that rows claim: calls that
\* meet share one creation, and a sandbox that is recorded, running or paused,
\* is woken rather than replaced (resolveEntry, createEntry).  What the lookup
\* can mistake for it is a row with no container behind it: one of a container
\* removed by hand, or one that was given up and marked again.
Kept(f) == row[f] \in Claiming /\ Live(f)
OneContainer ==
  \A f, g \in Refs :
    f # g /\ home[f] = home[g] /\ Kept(f) /\ Kept(g) => \E h \in lost \cup revived : home[h] = home[f]

\* A container a row claims holds somebody's work.  It is destroyed, or its
\* row given up, only because its conversation is deleted, a switch has copied
\* it, or somebody removed it by hand: "cannot ask" must never be recorded as
\* "destroyed" (markDeadRowsDestroyed, sweepOrphanSandboxes).  A container
\* whose row had been given up was already waiting to be removed.
Meant(f) ==
  \/ f \in lost'
  \/ \E p \in Deletes : At(p, "destroy") /\ f \in pr[p].todo
  \/ \E p \in Switches : At(p, "land") /\ pr[p].ref = f /\ pr'[p].at = "discard"
TakesWork(f) == Kept(f) /\ f \notin revived /\ ~Kept(f)'
WorkIsKept == [][\A f \in Refs : TakesWork(f) => Meant(f)]_vars

\* The same of every engine that answers each inspect: no order of sweeps,
\* wakes, pauses, switches and restarts takes work nobody gave up.
WorkIsKeptOtherwise == [][\A f \in Refs : TakesWork(f) => Meant(f) \/ Unanswered("exists")]_vars

\* A delete leaves no container of those its conversation had when it began,
\* nor the one that was being made for it (destroyConversationSandboxes),
\* but one the engine did not remove when it was asked, or whose row a switch
\* or an unanswered inspect had given up before the delete came to it.
Owed(p, f) == f \in pr[p].owes \/ (maker[f] = pr[p].awaits /\ maker[f] # NoOne)
DeleteTakesAll ==
  \A p \in Deletes : At(p, "done") =>
    \A f \in Refs : home[f] = ConvOf[p] /\ Owed(p, f) => ~Live(f) \/ f \in forsaken
=============================================================================
