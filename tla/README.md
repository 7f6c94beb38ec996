# Loxaic: a verification project

Loxaic is a self-hosted AI platform: one Node server runs model turns and agent
turns with tools, streams them to any number of devices, and asks people for
permission on the way. This directory holds TLA+ models of the parts of the
server (and of the client's stream reducer) in which several things happen at
once, the TLC runs that check them on small instances, and TLAPS proofs of what
holds for every instance.

Contents:

1. [The system](#1-the-system): components, state, interactions, hard behaviour
2. [The modules](#2-the-modules) and how they correspond to the code
3. [The runs](#3-the-runs): what each checks, bounds, fairness
4. [The proofs](#4-the-proofs): what is proved, from what, and how
5. [Where code and text disagree](#5-where-code-and-text-disagree)
6. [What is not modelled](#6-what-is-not-modelled)
7. [The plan](#7-the-plan)

To check everything by hand:

    tlc -workers 2 -config MCRunScheduler_all.cfg MCRunScheduler    # one run
    tlapm RunSchedulerProofs.tla                                    # one proof module

`PROJECT.json` has the machine-readable side: components, runs, a mutant for
every property, the map from definitions to source lines, hazards, findings and
theorems. Paths below are relative to `src/apps/server/src/` unless they start
with `apps/` or `packages/`.

## 1. The system

### What runs where

One server process, one event loop. Code between two `await`s runs alone; across
an `await` anything may happen. That is the grain of every module here: **a step
is the code from one await to the next**, and what an `await` brings back may be
old by the time it is used. There are also timers, abort signals, a Redis (or
in-memory) log that outlives a run, Postgres rows, and clients on sockets whose
messages are *not* handled one at a time (`void handleMessage`, `ws/chat.ts`).

    device ──ws──> handlers ──> start run ──> engine ──slot──> inference queue ──> backend
      ^                            |            |  ^
      |                            v            v  |  answers, stops, mode switches
      └── delivery <── event log (producer, driver)└── run registry <── run-actions <── any device

### Inventory

Components with their own state and concurrency come first. "Modelled" is
said of the modules in section 2, "planned" of section 7; the rest is in
section 6.

| component | state it keeps | operations | hard behaviour | what makes it correct |
|---|---|---|---|---|
| **inference run queue** `inference/scheduler.ts` | per provider `running`, `exclusive`, `waiting`; a cached probe of the backend's slots | enter, pump, release, `yieldWhile`, exclusive entry, abort, `kickScheduler` | the limit is read across an await before it is used; re-entries jump the line; a context-stage switch needs the backend alone; only `pump` admits | the counter is who holds; a switch is alone; no lost wake-up; nobody overtakes; the stopped are not served |
| **run event log** `streams/broker.ts`, `redis.ts`, `memory.ts`, `recovery.ts` | producer buffer and timer, `meta` (seq, status), records | emit, flush, end, append, finalize, recover | an append is two round trips; `end()` awaits only its own flush; the process may die between | a finalized log is whole and final |
| **live delivery** `ws/delivery.ts`, `streams/watchers.ts` | per socket `subs`, `convWatches`, `syncedFinished`, thread-list watches | subscribe, auto-subscribe, watch, unsubscribe, close | subscribes overlap each other, the run's records and its end; sends are dropped under backpressure | each device ends with the whole run, each event once, the end last |
| **client reducer** `apps/mobile/hooks/useChatSession.ts` | cursor per stream, what the thread shows, which runs it counts as going | apply sync/event/end, ask for a resync | gaps, cooldowns, replaced sockets, two taps at once | shows a prefix, heals gaps, applies nothing twice |
| **run registry and questions** `streams/registry.ts`, `streams/runs/engine.ts`, `ws/run-actions.ts` | live runs: mode, `approvals`, `stepsDecision`, abort signal | ask, answer, time out, stop, switch mode, switch limits | answers authorized across an await; four ways to settle one wait; model-supplied call ids | an answer stays with the run it names; modes agree; no child is left alone; Stop ends |
| **sub-agents** `streams/runs/subagentRun.ts`, `engine.ts` | child runs tied to a parent's signal, mode and slot | start, inherit, mirror, settle | a child being started hears no switch; the parent's slot is away | no orphan, same mode, stopped together |
| **run start and claims** `streams/registry.ts`, `streams/runs/{start-run,chatRun,agentRun,compactRun}.ts` | the conversation's one run slot, its rows | claim, write rows, open, end, compact | send vs. rewind vs. delete; failure half way; a compaction that looks first and registers later | one request at work in a conversation; no claim outlives its request |
| **conversation lifecycle** `conversations/{delete,rewind,reaper}.ts` | rows, stream logs, sub-agents, `runEndWaiters` | retry, rewind, delete, purge, hold, restore, the sweeps | a live run writing what is being removed; a wait with a timeout; cleanup detached from its transaction | a removal takes all it showed; a deletion ends with nothing left |
| **thread-list watch** `streams/watchers.ts`, `ws/delivery.ts` | who lists which threads, last notice | announce, re-read, notify | an authorization read per notice reorders them | the list ends up right |
| **send outcomes** `ws/send-outcomes.ts`, `ws/client-ref.ts` | outcome per client ref, bounded per user | record, ask again after a reconnect | retry after a lost answer, eviction | one send, one turn |
| **executor link** `executor/`, `ws/executor.ts`, `sandbox/host-provider.ts` | on the server the entry of each machine, its pending calls and terminals; on the machine its socket, commands in flight, shells | connect, greet, replace, call, stop, open and close a terminal, disconnect | either end learns of a loss long before the other; a reconnect overtakes the old socket's frames and close; a command is at any stage when the socket drops | nobody waits on an entry that is gone; no command runs unattended; a stop stops; a connected machine is registered |
| **sandboxes** `agent/sandbox-manager.ts`, `agent/allocation.ts`, `sandbox/container-engine.ts` | containers, their rows, `active`, `pending`, `reserved` | resolve, wake, make, reserve, pause, stop idle, switch image, destroy, sweep at boot | three accounts of one container, each read across awaits; an engine that does not answer; a restart that forgets the maps | the allocation holds; one container a conversation; nobody's work is destroyed; a delete takes all of it |
| **routines** `routines/scheduler.ts` | due times, claims | tick, claim, reconcile | several processes, a restart between claim and run | a due routine runs once |
| **llama.cpp router** `llama/router.ts`, `room.ts`, `residency.ts`, `context-stage-*.ts` | loaded models, pins, reservations | make room, load, unload, switch stage | concurrent requests for room; a reload under runs | memory is not promised twice |
| **desktop supervisor** `apps/desktop/src/supervisor`, `updates` | child processes, ports, update state | start, adopt, restart, update | crash loops, an update between two states | one server per data directory |
| **step gate, loop detector** `streams/runs/step-gate.ts`, `loop-detector.ts` | windows and counters of one run | count, ask | limits switched mid-run | a check-in every window, not more |

Without shared mutable state of their own, or out of reach of a model of
interleavings: context-stage policy, llama.cpp runtime and downloads,
inference providers, permission rules, MCP client, egress proxy, files and
images, browser pool, skills and GitHub, auth, HTTP routes and schema, offline
sync, cluster and settings, the rest of the mobile client. `PROJECT.json` lists
each with the reason.

### Interactions that matter

- **engine → queue.** A turn takes a slot for its whole life, gives it back
  (`yieldWhile`) while it waits for a person, a sub-agent or a stage switch, and
  queues again at the *front*. `RunScheduler` has the slot's side, `RunQuestions`
  the wait's.
- **engine → log → delivery → device.** `producer.emit` buffers; a flush appends;
  when the append is answered the records are durable *and* emitted live in the
  same turn of the loop. Delivery taps the live emitter first and reads the log
  second, then merges.
- **requests → registry → rows, logs.** A send, a retry and a rewind claim the
  conversation's one run slot before they touch its rows; a delete does not claim,
  it commits, stops whoever holds the slot and waits for `unregisterRun` to wake
  it, detached from the request that asked. A stream log outlives its rows' run
  and is removed after them.
- **engine, routes, timers → sandbox manager → container engine, rows.** A tool
  call resolves its conversation's sandbox; terminals and file routes wake it
  without a claim; pauses and image switches hold the claim. What may run is
  counted from reservations in memory and rows in Postgres.
- **tool calls, terminals → executor registry → a person's machine.** A call or a
  terminal is tied to the entry that was registered when it began and so to one
  socket; answers are looked up in the entry of the moment they arrive.
- **device → registry → engine.** An answer finds a live run, awaits
  `mayActOnRun`, looks the wait up again and settles it. Stop, the deadline, a
  mode switch and a limits switch settle the same waits.

## 2. The modules

| module | what it is | extends / instantiates |
|---|---|---|
| `SlotLock` | abstract: a shared/exclusive lock with a capacity, no queue in it | |
| `RunScheduler` | one provider's run queue | `SlotLock` (refinement) |
| `RunSchedulerProofs` | what push, unshift, splice and shift do to a line; the queue's inductive invariant and what follows | `RunScheduler` |
| `RunSchedulerLock` | the refinement of the lock, no overcommit, no slot for the stopped | `RunSchedulerProofs` |
| `StreamLog` | one run's event log | |
| `StreamDelivery` | one device following that run, over a socket | `StreamLog` |
| `StreamLogProofs` | theorems of the log, and that delivery leaves it to its own steps | `StreamDelivery` |
| `StreamDeliveryProofs` | theorems of the socket and the device | `StreamLogProofs` |
| `RunQuestions` | a run and a sub-agent waiting on people | |
| `RunQuestionsProofs` | theorems of the questions | `RunQuestions` |
| `ConversationLife` | one conversation: its run slot, rows, logs, and what removes them | |
| `ConversationLifeProofs` | theorems of the conversation | `ConversationLife` |
| `SandboxPool` | one user's containers, rows and reservations | |
| `SandboxPoolProofs` | theorems of the allocation and of the containers | `SandboxPool` |
| `ExecutorLink` | one machine's executor, the registry's entry and the sockets between | |
| `ExecutorLinkProofs` | theorems of the link | `ExecutorLink` |
| `MCRunScheduler`, `MCStreamDelivery`, `MCRunQuestions`, `MCConversationLife`, `MCSandboxPool`, `MCExecutorLink` | instances for TLC | the modules they name |

In each module a helper that a mutant breaks (`RoomFor`, `UpTo`, `Candidates`,
...) stands behind its broken forms (`RoomFor_OneTooMany`, ...). The broken forms
are used by nothing else.

### RunScheduler and SlotLock (`inference/scheduler.ts`)

A caller is a turn (`Runs`, `acquireRunSlot`) or a context-stage switch
(`Switches`, `acquireExclusiveSlot`). Its `phase`:

    idle ─Enter─> asking ─LimitAnswered─> answered ─TakeFreeSlot─> holding ─Release─> ended
                    ^                        └─JoinLine─> waiting ─PumpAdmits─┘ │
                    └────────────── Return ────────────── outside <──GiveUp──────┘

`enter` and `pump` both begin with `await resolveMaxConcurrent(...)`, so both are
three steps: ask, be answered, act on the answer. `pumps[0]` counts pumps that
have only asked and `pumps[m]` those that were told `m`; several are in flight at
a time and may hold different limits. `PumpAdmits` is the whole admission loop:
it has no `await` in it, so it admits the longest admissible front of the line at
once and tells everyone left its place. `ChangeLimit` is an admin's or provider's
write with its `kickScheduler`; `ProbeExpires` is the cached probe running out,
which kicks nobody. A stop is `AbortWaiting` for a caller in line (its listener
splices it out, notifies, pumps) and `AbortElsewhere` for one anywhere else,
which only raises the signal that the next step looks at.

`SlotLock` says what the callers are promised: runs hold together up to a
capacity, a switch holds alone.

### StreamLog (`streams/broker.ts`, `redis.ts`, `recovery.ts`)

Records are numbered, so a log is the number of its last record and a prefix is a
number. `emitted >= flushed >= stored` are the stations of an event: handed to
`emit`, taken out of the buffer, durable. `appends` are the driver calls in
flight; `counted` is `meta.lastSeq`, which runs ahead of the records because an
append is two round trips (HINCRBY, then the XADDs).

One fact the module rests on: the driver uses **one** Redis connection, commands
on it are answered in the order they were sent, so an append cannot overtake the
one before, and a read sent behind a meta that counted an append is behind that
append's records (`least` in `StreamDelivery`). `Crash` keeps what Redis had
(`Durable`), or nothing (memory driver); recovery finalizes before a socket is
accepted.

### StreamDelivery (`ws/delivery.ts`, `useChatSession.ts`)

One device and one run: devices share nothing but the log. The device's `role` says
how it comes to the run: an `opener` opens the thread at some moment, a `replier` does
and sends the turn itself, a `creator` sends the turn that creates the conversation.
Messages of one socket are not handled one after the other, so a subscribe may be on
its way while the same socket's send opens the run, and a new socket subscribes to the
thread whenever it comes. Each subscribe is an *activation* in `calls` with its own
closure and its own place between awaits:

| place | code |
|---|---|
| `authz`, `listed` | `handleSubscribe` before and after it knows the runs |
| `send`, `watch` | `autoSubscribe`, and the watch's announcement of a new run |
| `read`, `status`, `reread` | `subscribeToStream` awaiting `readFrom`, `getMeta`, the second read |
| `live` | its `onRecord` and `onEnd` forward |

They share the socket's `subs` entry: empty, *reserved* (someone is between
reading and tapping) or the tap. `torn` (history) says that a resync took down a
reservation on this socket. `wire` is what the socket carries, in order;
`Forwarded` may drop the rest of a batch of copies while `MaxDrops` allows (backpressure
does not end within one turn of the loop). The client
side is `cursor`, `view` (what the thread shows of the run), `tracked` (it counts
the run as going), `cooling` (no second resync within 500 ms).

### RunQuestions (`engine.ts`, `registry.ts`, `run-actions.ts`, `subagentRun.ts`)

A run makes its tool calls one at a time, so it waits on at most one person:
`approvals` and `stepsDecision` are *where the run is* (`asking`, `parked`).
`checking` is the permission gate's own await (Auto's check), `returning` the way
back into the queue, `delegating` the parent's wait around its sub-agent.

An answer is on the wire, then with `mayActOnRun`, then lands: candidates are found
before that await and the entry is taken after it (`Arrive`, `Land`). Call ids are the
model's: `Id(n)` numbers the calls, or names every one `call_0` (`IdsRepeat`, which
every run has `TRUE`). `askedIn` is the mode a question went out in, `decidedIn`
(history) the mode the gate decided the call in; `asked` (history) is every question
people have been shown, so an answer may be as late as it likes.

Abstracted: what a tool does, why a call is harmless, when a step earns a
check-in (any finished step may), the text of everything.

### ConversationLife (`registry.ts`, `start-run.ts`, `rewind.ts`, `delete.ts`, `reaper.ts`)

A *request* is one handler with its own place in `at`; a *job* is one deletion.

    send     idle -> allowed -> claimed -> wrote ---------------------> running -> ended
    retry    idle -> allowed -> claimed -> listed -> removed -> wrote -> running -> ended
    rewind   idle -> allowed -> claimed -> listed -> removed -> dropped ---------> ended
    compact  idle -> allowed -> clear -> opened ----------------------> running -> ended
    delete   idle -> allowed -> committed -> waiting -> woken -> found -> settled
                                                     -> erased -> cleared -> done

`slot` is `runByConversation` and names one request. `Claim` is
`claimConversation`, check and claim in one step; `LookForRun` and
`RegisterCompaction` are the two halves of `startCompactRun`, several awaits apart,
and the second overwrites the slot as `registerRun` does. `Unregister` gives back
a slot only to whoever it names and wakes the deletions that wait
(`runEndWaiters`). `Throw` is every error path between a claim and a started run.

`rows` are the messages with who wrote them and a stamp (`deletedAt`); `clock`
counts inserts and stands for `created_at`. `log[r]` is when request `r`'s stream
log began, which is what `deleteRemovedStreams` compares with the pivot. A
sub-agent (`kid`) has its conversation's row, its texts and its log apart, because
the code removes them apart. A deletion's `known` is the children it has seen and
`ended` whether every wait it did was answered.

`RunTimeout` is `waitForRunEnd`'s timer. `Wedged` runs never hear their stop.
`Restart` loses handlers, jobs and the slot and keeps rows and logs. `Days` says
who turns up together, so that TLC looks at three or four requests at a time from
a larger set; the theorems hold for any days.

### SandboxPool (`sandbox-manager.ts`, `container-engine.ts`, `allocation.ts`)

One user, several conversations, and three accounts of each container: what the
`engine` has, what its `row` says, and what the server's maps (`active`,
`pending`, `reserved`) remember. A process is one call of the manager and `pr[p]`
its locals: the place, the container it is about, the goal of a reservation, the
count it has `held` in mind.

| process | places | code |
|---|---|---|
| call | `cached`, `tomb`, `joined`, `lookup` | `getConversationSandbox`, `resolveEntry`, `createEntry` |
| call, terminal | `start`, `touch`, `mark`, `settle`, `dead` | `wake`, `attachRunningSandbox` |
| any start | `reserve`, `measure`, `reconcile`, `remeasure` | `reserveSandbox`, `reserveNow` |
| call | `make`, `record` | `createEntryReserved` |
| pause, tick | `pause`, `stopping`; `snapped`, `tick`, `ticked` | `pauseSandbox`, `stopIdleSandboxes` |
| switch | `look`, `inspect`, `copy`, `land`, `discard` | `replaceConversationSandbox` |
| delete | `await`, `list`, `destroy` | `destroyConversationSandboxes` |

`lost` (a container removed by hand), `forsaken` (a row given up with its container
still there: by an unanswered inspect, by a switch, or by a delete whose `remove` the
engine did not do) and `revived` (a row marked again after it was given up) remember what
the properties make an exception of; the last two no action reads.

`boot` is `sweepOrphanSandboxes` running beside the first requests of a restarted
server. `Fails` is a request the engine leaves unanswered, by kind, because each kind
is handled differently: `start` is rethrown, `stop` swallowed, `exists` taken for
false, `create` propagated, and `remove` swallowed by the handle and by its callers,
who go on to mark the row destroyed (a `stop`, an `attach` or a `remove` that fails in
a `destroy` come to the same and are one kind). `MayCall` and `MayClaim` are the
conversation's claim, which `ConversationLife` has in full.

A measure reads reservations, awaits the rows and only then decides; `held` is
the first of the two reads. `markDeadRowsDestroyed` and the removal of one
container with its row are one step each, where the code has an await per row.

### ExecutorLink (`executor/registry.ts`, `ws/executor.ts`, `executor/main.ts`, `terminal.ts`)

One machine that connects, loses its socket and connects again. Sockets are
numbered; each has two queues of frames in order, and two ends that are lost
separately.

| end | state | steps |
|---|---|---|
| server | `server[k]` (`open`, `closing`, `closed`), `greeted`, `registered` (`byId`) | `Take` a frame (hello, result, exit), `HangUp`, `ServerClosed` |
| server | `call`, `panel`, `aborted` | `Invoke`, `Stop`, `Deadline`; `OpenPanel`, `ClosePanel` |
| machine | `machine` (its `ws`), `made`, `probing` | `Connect`, `SayHello`, `Disconnect`, `Exit` |
| machine | `job`, `shell` | `Serve` a frame; `Begin`, `Finish`, `Answer`; `Opened`, `Ended` |

A call is one to run a command (`exec`), the only kind that heeds a cancel. Its job
is `preparing` while the reference is resolved, `running` while the process group
lives, `answering` from then until the result is sent. `InFlight` is the
executor's map of abort controllers: `Disconnect` aborts all of it and empties it,
so what it holds is what began on the socket of now. `SayHello` ends the
capability probe, which is awaited: the hello goes out on the socket there is by
then. `closing` is a socket the server has closed and whose frames still arrive.

`Register` is a replacement when an entry is there: the old one's callers are
failed and its socket closed, and its later frames and close find an entry that is
not theirs (`Answered`, `Unregisters`). `Days` says who turns up and how many
sockets the machine has had before.

## 3. The runs

Every run finishes in two and a half minutes or less on two workers. Each property of
a passing run has a mutant: the model with one helper broken the way a slip in the
code would break it, in which TLC finds the property violated.

| run | properties | bounds | states |
|---|---|---|---|
| `queue` | `TypeOK`, `Accounting`, `NoLostWakeup`, `NoOvercommit`, `NoSlotForStopped`, `NoOvertaking`, `ImplementsLock`, `WaitersLeaveLine` | 2 turns yielding once each, 1 switch, limits 1..2, 1 change, fair | 480 k |
| `delivery` | `TypeOK`, `ShownIsPrefix`, `EndComesAfterAll`, `OneTap`, `SealedLogIsWhole`, `NothingAppliedTwice`, `ConvergesOtherwise`, `GapsHeal` | 4 events, 3 roles, 3 activations, 1 drop, 1 reconnect, 1 restart, fair | 352 k |
| `questions` | `TypeOK`, `AnswersStayInTheirRun`, `QuestionInForce`, `ChildSharesMode`, `NoOrphan`, `StopEndsTheRun` | starter and editor, 2 calls + 1 of the sub-agent under one id, 1 answer, 1 switch, fair | 1.35 M |
| `conversation` | `TypeOK`, `ClaimsExclude`, `RewindTakesAll`, `LogsAnswerVisible`, `StoppedRunLeavesNothing`, `DeleteStopsTheRun`, `NothingOutlivesErasure` | 6 days of 2 or 3 requests and deletions, 3 rows, 1 sub-agent, 1 wedged run, 1 restart, fair | 294 k |
| `sandboxes` | `TypeOK`, `ChargedWithinLimit`, `OneContainer`, `DeleteTakesAll`, `WorkIsKeptOtherwise` | 2 conversations, room for 2, 5 containers, 16 days of 2 to 4 processes with up to 2 mishaps | 1.65 M |
| `executor` | `TypeOK`, `NoUnattendedCommand`, `NobodyWaitsOnGone`, `StopReachesCommand`, `StaysReachable` | 3 days: a command over 3 sockets; a command and a panel, and two panels, over 2; 1 shell at a time, fair | 388 k |

Six more runs each show one disagreement between the code and what its comments
say; see section 5.

### The inference queue

What it shows: whatever enters, pumps, stops, yields and limit changes do to each
other across their awaits, `running` is exactly the number of holders and `exclusive`
exactly "a switch holds"; the line is exactly the waiting callers, each once
(`LineIsWaiters`, proved as part of the inductive invariant); a switch is never beside
anyone; an idle backend with a line has a pump on the way; nobody is admitted past
someone who stood there before; a stopped caller gets nothing.

`NoOvercommit` is stated for a limit nobody has changed: after a change the code
lets the slots that are out run on, and so should it.

Bounds: two turns and a switch give every pair of kinds of caller, a re-entry beside a
newcomer and beside a switch, and a line of three. A limit of 1 and of 2 distinguishes
"full", "room for one" and "room for all". More callers make a longer line and no new
kind of step; that the bounds hide nothing from the safety properties proved in
section 4 needs no argument, since those hold for any number.

Fairness: weak fairness on what the event loop does by itself:
an awaited limit is answered, the continuation runs, a pump runs, a holder
releases (turns and switches end by their timeouts). None on stops, on `Return`
(a person may never answer) nor on limit changes.

### Delivery

`delivery` has every way to a run, a socket replaced and a server restarted at any
moment, and a send dropped. `ShownIsPrefix` and `EndComesAfterAll`: what the thread
shows is a beginning of the run with nothing missing, and the end is heard after
everything else. Both carry the premise that no send was dropped, because one breaks
each of them (section 5, and below).

`OneTap`: two taps of one socket on the run have one cause, an explicit subscribe that
takes down the reservation of another while it reads (`torn`, section 5). Nothing else
that overlaps makes them, whatever is dropped or replaced. `NothingAppliedTwice` holds
even then: two taps send every event twice, and the client's cursor refuses the second
copy.

`ConvergesOtherwise`: once the run is over, a device with the thread open ends up
showing all of it and no longer as streaming, unless a send was dropped for it. It
supposes three things, each of which section 5 shows to be needed: that its subscribe
did not overlook the run (`Overlooked`: the run starts between the listing and the
watch), that the log counts no records it lost (`Miscounted`: a crash between HINCRBY
and XADD), and that two taps were not made. `GapsHeal` covers the drop that a later
event reveals, over a tap of any origin. Its premise `[]~ResyncsOverlap` is of calls
still being answered, not of taps: two explicit subscribes put together at the same
time can each take the other's reservation, and the snapshot that results may leave the
gap (`syncedFinished` is set by the one that did nothing).

Bounds: four events are two appends of two, so a snapshot can end before, inside
and after an append. Three activations are a tap with two more subscribes put together
beside it (a send or an announcement, a resync, a reopened thread); a call with nothing
to do is free again. A drop budget of one is enough for a gap, and the counterexamples
of section 5 need no drop at all.

Fairness: timers fire (`Carry`), Redis answers (`Store`, `EndRun`, every
activation), a connected socket delivers and the cooldown runs out (`ClientStep`).
None on the run's speaking or ending, on people or on sockets failing.

### Questions

`questions` names every call `call_0`, as chat templates do: a call's id is unique
within one response of the model and no further (`registry.ts:401`).
`AnswersStayInTheirRun`: an answer that names its run decides a call of that run under
the id it was given about, never one of the sub-agent's that waits under the same id,
although candidates are found before an await and the entry is taken after it. It does
not say *which* call of that id: that is `AnswersFindTheirCall`, which the code does not
keep (section 5). A question that waits went out in the mode its run is in; a sub-agent
is in its parent's mode at every moment and never without its parent's waiting for it.
That an abandoned run carries on `AutoContinues` times in a row and no more
(`UnattendedBounded`) is proved.

One answer is enough: answers have no state in common but the wait they settle,
and the wait has other settlers (deadline, stop, two switches) for the answer to
race with. The theorems of section 4 need no such argument.

`StopEndsTheRun` has no fairness on deadlines or people, which is its point: Stop
must work while nobody answers. The permission check answers, the queue readmits
(`WaitersLeaveLine` is the reason that may be assumed), a stopped run's loop
reaches its abort check, a child that is starting starts or fails.

`Rest` in each `Next` lets a system that is finished stutter, so that TLC's
deadlock check stays on and reports a system that is stuck.

### The conversation

`ClaimsExclude`: until a compaction is past its look, the request at work in the
conversation is exactly the one the slot names: no claim is lost on an error path,
and none is kept. The premise is the finding of section 5. `RewindTakesAll` and
`LogsAnswerVisible` are the two halves of a removal, rows and logs: after a rewind
nothing from its message on is visible, although the rows were listed, the files
restored and the children read some awaits before; and no log is left that would
bring a removed turn back on a device that resyncs.

`StoppedRunLeavesNothing` is about the passes of a purge: the run it stopped goes on
writing and may start a sub-agent after the transaction, so the passes must come
after the wait and must know children that no query finds any more. It speaks of
deletions that saw everything end, and of one purge by itself; a compaction that
took the slot of the run (section 5) is what the deletion then waits for, so the
premise `~Unclaimed` is here as well. Proving it showed that both are needed.
`DeleteStopsTheRun` leaves out a run in such a slot too. `NothingOutlivesErasure` has
no such premise: with a wedged run, a timeout and a
restart in the middle, in the end nothing is left, because the orphan sweep finds it.

Bounds: a day has each pair that shares state (two claimers and a rewind, a
compaction beside a claimer, a run with a sub-agent beside a delete, two deletions
of one conversation). Three rows are a message, a reply that spawns a sub-agent and
one row that comes too late. One restart cuts any handler or cleanup in two.

Fairness: handlers and detached cleanups go on when their await ends; a stopped
run, and its sub-agent, end unless they are wedged; the orphan sweep runs (hourly,
`index.ts`). None on runs ending by themselves, on anyone turning up, nor on
`Throw`. What a deletion must reach therefore rests on its timeouts, not on runs.

### The sandboxes

`ChargedWithinLimit` is about the ledger: the reservations, and the running rows that
none of them is about, add up to no more than the allocation, whatever reads cross.
`held` may be old when it is used, but only too high. It is not about the engine. A
start that was not reserved, since its row said `running`, and whose row a Pause or the
idle timer then marked stopped, is in neither account until its late reservation, and
for good when that is refused (section 5). `OneContainer`: no conversation has two
live containers that rows claim, unless one of its rows has had no container behind
it: somebody removed the container by hand, or the row was marked again after it had been
given up (section 5 has how a second container comes of it). `WorkIsKeptOtherwise`: with
an engine that answers each inspect, a live container a row claims loses
the container or the row only to its conversation's delete, to a switch that has
copied it, or to somebody's hand; a revived row was waiting to be removed and is
nobody's work. Of an engine that leaves one inspect unanswered it is false (`WorkIsKept`,
section 5). `DeleteTakesAll`: a delete takes the containers
its conversation had when it began and the one that was being made then, but for those
the engine did not remove when it was asked, and one whose row was given up meanwhile
with the container still there (`forsaken`), which no query finds.

These are about what the server counts and keeps, and that is all the code
promises: a container may run without being counted (section 5).

Bounds: with room for two, two starts compete for the last place and a second
container of one conversation has somewhere to run; room for one refuses it and
would hide a violation of `OneContainer`. Two conversations give a competitor that
shares nothing but the allocation; five containers are one more than any day can
make. The days put each kind of process beside those it shares state with, and each
mishap where the code handles it.

### The executor

`NoUnattendedCommand`: a command runs for the machine's socket of now, never for
one that is lost, whichever of its stages the loss found it in. `NobodyWaitsOnGone`:
a call or a panel waits on the registered entry, so whoever waited on one that was
replaced or lost has been told. `StopReachesCommand`: a call that is stopped, before
it is sent or while the server waits for it, ends up not running, without help from
its own end or its deadline. It supposes of each socket that its machine does not go
on believing in it for ever once the server's end is closed (`Stranded`): nobody
pings, so the machine's end of a half-open socket learns nothing and a cancel sent into
it is lost. It says nothing of a call the server has given up
on, which the code leaves to the command's own timeout. `StaysReachable`: a machine
whose socket holds ends up registered by it, however late the hello, the frames
and the close of older sockets come.

Bounds: three sockets are one registered, one on its way in and one whose close is
still to come. One shell at a time with two panels reaches the cap. A command
shares with a panel the sockets and the entry's fate and nothing else.

Fairness: a frame is taken while both ends of its socket hold, and continuations run
(`Begin`, `Answer`, `SayHello`, `Served`). None on learning of the other end's loss,
on commands ending, deadlines, reconnecting, or on anybody hanging up. What the
liveness properties need of the network they suppose: `StaysReachable` of one socket
that it holds, `StopReachesCommand` of the machine that it is not left with a dead one.

## 4. The proofs

TLAPS checks eight modules, some 16,400 obligations, with SMT, Zenon and (for the
temporal steps) LS4. The assumptions are those the modules state about their
constants and nothing else: `ProcsAssumption` (finite, disjoint sets of callers)
and `BoundsAssumption` for the queue, `LogAssumption` for the log, `DeliveryAssumption`
(at least two activations, since a run that opens may start two at once) for delivery,
`QuestionsAssumption` for the questions, `ConversationAssumption` for the
conversation, `PoolAssumption` (finitely many processes and containers, a process
of one kind only) for the sandboxes and `LinkAssumption` for the executor. `ExclusiveAlone`,
`NothingAfterTheEnd` and `UnattendedBounded` are proved and in no run.

| theorem | for every ... | says |
|---|---|---|
| `RunSchedulerProofs`: `TypeCorrect`, `AccountingHolds`, `SwitchHoldsAlone`, `NoWakeupIsLost` | finite set of turns and switches, limit, number of yields and changes | the types, `Accounting`, `ExclusiveAlone`, `NoLostWakeup` |
| `RunSchedulerLock`: `QueueImplementsLock`, `LineNeverOvercommits`, `StoppedAreNeverServed`, `NobodyIsOvertaken` | the same | the refinement of `SlotLock`, `NoOvercommit`, `NoSlotForStopped`, `NoOvertaking` |
| `StreamLogProofs`: `SealedLogsAreWhole`, `NothingFollowsTheEnd` | number of events, either driver | the two promises of a finalized log |
| `StreamLogProofs`: `DeliveryLeavesTheLogAlone`, `DeliveredLogsAreWhole`, `DeliveredLogsEnd` | the same, any device, drops, reconnects, restarts | `StreamDelivery` implements `StreamLog`, which therefore keeps its promises there |
| `StreamDeliveryProofs`: `DeliveryTypes`, `OneTapEach`, `NothingTwice` | number of events, activations, reconnects, restarts, drops; either driver, any roles | the types, `OneTap`, `NothingAppliedTwice` |
| `StreamDeliveryProofs`: `Prefix`, `EndIsLast` | the same, while no resync takes down a reservation (`[]~torn`) | `ShownIsPrefix`, `EndComesAfterAll` |
| `RunQuestionsProofs`: `TypeCorrect`, `NoChildIsOrphaned`, `ChildIsInItsParentsMode`, `QuestionsAreInForce`, `AbandonedRunsEnd` | people, calls, answers, switches, ladder | the types, `NoOrphan`, `ChildSharesMode`, `QuestionInForce`, `UnattendedBounded` |
| `RunQuestionsProofs`: `AnswersKeepToTheirRun` | the same, ids repeated or not | `AnswersStayInTheirRun` |
| `ConversationLifeProofs`: `ConversationTypes`, `OneHolderAtATime`, `RewindTakesTheSuffix` | requests, deletions, days, rows, restarts | the types, `ClaimsExclude`, `RewindTakesAll` |
| `ConversationLifeProofs`: `LogsAnswerMessages`, `PurgeLeavesNothing` | the same | `LogsAnswerVisible`, `StoppedRunLeavesNothing` |
| `SandboxPoolProofs`: `PoolTypes`, `AllocationKept` | conversations, processes, days, allocation, containers | the types, `ChargedWithinLimit` |
| `SandboxPoolProofs`: `OneSandboxEach`, `NobodysWorkIsTaken`, `DeletesTakeAll` | the same | `OneContainer`, `WorkIsKeptOtherwise`, `DeleteTakesAll` |
| `ExecutorLinkProofs`: `LinkTypes`, `TheGoneAreTold`, `NothingRunsUnattended` | calls, panels, sockets, cap, days | the types, `NobodyWaitsOnGone`, `NoUnattendedCommand` |

### The queue

`IInv == TypeOK /\ Accounting /\ ExclusiveAlone /\ LineIsWaiters /\ NoLostWakeup
/\ AnswerPositive`. None of the middle four is inductive alone:

- `ExclusiveAlone` needs the counter to be exact, because a switch looks at
  `running`, not at who runs.
- The counter needs the line to hold waiters only, each once, because a pump
  admits whoever stands there and counts how many.
- `NoLostWakeup` needs `exclusive` to imply a holder, whose release will pump,
  and every answered limit to be at least one (`AnswerPositive`): a limit of zero
  would let a caller join the line of an idle backend.

There is one lemma per action that moves someone in or out of the line or the
backend (`TakeFreeSlotStep`, `JoinLineStep`, `AbortWaitingStep`, `ReleaseStep`,
`GiveUpStep`, `PumpAdmitsStep`) and one (`QuietStep`) for the rest. What push,
unshift, splice and shift do to a sequence of distinct members is at the head of
`RunSchedulerProofs`.

`RunSchedulerLock` adds what needs history. The mapping of the lock's `holders` is
the set of callers in phase `holding`; a pump's admission of several runs is one
`AdmitRuns` of the lock, and `AdmittedFit` says why it fits. `NoOvercommit` needs
every limit still travelling, to a caller or a pump, to be the limit that holds
(`Steady`); `NoSlotForStopped` needs that no waiter is stopped (`WaitersLive`),
because the abort listener runs in the same turn as the signal. `NoOvertaking` rests
on two facts: the fast path asks for an empty line, so nobody takes it past a
waiter, and a pump admits a front of the line (`PumpAdmitsTheFront`); that the line
is exactly the waiters gives everyone left behind a later place in it.

### The log

`LogInv == LogTypeOK /\ InFlight /\ Drained`. `InFlight`: the appends in flight
are the part of the buffer that was taken and is not durable, in order, the last
one reaching `flushed`. `Drained`: outside a live run nothing is left in the
buffer, and before and after it nothing is in flight. The second is what makes
`end()`'s single awaited flush enough.

### Delivery

Three invariants, one on top of the other: `Base` and `Fresh` hold whatever is dropped
and torn, `Delivered` while nothing was.

`Base` says what each party may know. Nobody is ahead of the log (`Reach`: cursors,
reads and messages are of stored records, unless the log was lost, and then nobody
follows it). Until somebody serves the socket nothing is sent on it (`Unserved`). A
snapshot that was asked for brings news (`Informed`), which
turns on the one connection to Redis: a read sent behind a meta that counted an append
finds its records. A sender that follows its own run from the start and found the log
empty is the first to send, whoever took its reservation (`OwnRun`), which is why no
snapshot is owed to it. While the run goes on the thread
shows nothing past the cursor (`Current`). `Owner`: whoever reads or taps has the
socket's entry, and only one does, unless a resync took down a reservation. This is the
reservation taken before the first await, and `OneTap` is what it says of taps
(`OneTapEach`); the premise is the one step that breaks it, `ReadMeta` on an entry that
is reserved.

`NothingTwice` is about the one moment where that last fact fails: the snapshot of a
finished run moves what is shown and not the cursor, so the cursor alone would let
through an event that the snapshot holds already. `Fresh` says why none is on the wire:
an event behind such a snapshot follows the message before it without a break, and one
at the head of the wire, when the thread is past its cursor, is past all that is shown.
Two taps, overlapping resyncs and drops change nothing in it.

`Delivered` has three parts beside the prefix itself, and each is what the next one
lacks to be inductive. They are kept by steps that leave `torn` false, where `Owner`
says that one call serves the socket; that the run `delivery` finds the same with it
true is not proved.

- `Steady`: while the run goes on the thread shows exactly what the cursor says
  (`view = 1..cursor`), nothing is sent before the tap is there, and a subscribe that
  names a cursor names the device's and has the socket to itself. One that names none
  may come in the middle of a tap, since a thread is opened when somebody opens it: its
  snapshot is as good behind messages as in front of them (`Takes`).
- `Readers`: a subscribe that has read less than the log holds has read past all that is
  on the wire (`ReadPast`), and one that only taps finds the device at the cursor it
  named. So the records that came between its read and its tap are the next ones.
- `Ordered`: what is on the wire follows on from what the thread shows, record by
  record, with snapshots in between that are not behind what precedes them
  (`Snapshots`), and while there is a tap ends with the last record stored.
  `TailOfWire` is what a tap installed one record late would break, `HeadOfWire` what
  a client without the gap check would, `Ends` what a finalize ahead of the last
  append would.

`Prefix`, `OneTapEach` and `EndIsLast` are read off these. The proof has one lemma per
action that says what it does to the wire and the calls (`CatchUpEffect`,
`StoreEffect`, `ReceiveEffect`, ...), and then one lemma per part of the invariant
that goes through the actions with those effects; only `Ordered` needs a lemma per
action as well. That a dropped send stays counted (`DropsStay`) lets the premise
`drops = 0` go backwards along a step.

The proof found two things in the model. A drop used to leave out any copies of a
batch; `ws.bufferedAmount` does not go down within one turn of the loop, so the code drops
from one copy on. And `MaxCalls = 1` has behaviours in which an opening run finds no
free activation: `DeliveryAssumption` asks for two.

### The questions

Types first, with one lemma for each way a run's place changes (`SettleType`,
`ProceedType`, `AskType`, `UnaskedType`, `GateType`) and one for each action. Then
each property by itself on top of them: `ChildSharesMode` needs `NoOrphan` (a
child that lives has a parent that waits for it, so is live and hears the switch);
`AnswersStayInTheirRun` needs that a named answer stays with the run it names across
`mayActOnRun` (`NamedAnswersStayPut`). Nothing is supposed of the ids.

### The conversation

`ClaimsExclude` is inductive with the types: each action that gives a place which
holds the slot either takes the slot while it is free or already had it, and
`Unclaimed` never becomes false again but by a restart, which empties the slot and
every place. `RewindTakesAll` needs one thing more, that between a rewind's listing
and its transaction the visible rows from the pivot on are among those it listed:
only a run writes, a run at work has the slot, and the rewind has it.

`LogsAnswerVisible` is about two orders that must agree, that of the rows and that
of the logs. `LogsInv` says of every log that its message was inserted before it
began (`LogsAnswered`, and `AboutToAnswer` one step earlier), and of every removal
that it takes no row before its pivot (`Taking`). A message that is removed is then
not before the pivot, nor is its log, which `DropLogs` takes; a log that stays is
before it, and so is its message. All of it stands until one of three things that
never heal: the conversation is gone, a compaction passed its look at the slot, or a
restart cut a removal in two (`Settled`).

`StoppedRunLeavesNothing` follows a stopped run through the five passes of a purge.
`PurgeInv` says of a job that waits what it may still find (`WaitsForIt`: the run it
stopped is at work and has the slot, or has ended), of a child that it is found by a
query or known to the job (`KidsKept`), and, pass by pass, what can be left of an
ended run (`EndedRunsLeft`, `LeftOf`): rows until the second erasure, a log until
`DeleteLogs`. `KidsKept` is what a second purge breaks, by erasing the row by which
the first would have found the child.

### The sandboxes

Counting containers leads nowhere, because a container may be started before it is
counted. The argument counts reservations. `IInv == Types /\ Positions /\
ChargedWithinLimit`, with four facts about places in `Positions`:

- `Holders`, `MustHold`: who holds a reservation is at a place of a start, and the
  places that write `running` into a row are reached with one only. So a row
  begins to run only by somebody already charged for it, and moving from the
  reservations to the rows does not raise the charge.
- `Decider`: one process decides at a time, and there are no more reservations
  than it read: others only release while it decides. So a grant on an old read is
  a grant on too high a count.
- `Makers`: who is about to make a container names none yet, so a reservation that
  stands for a new container hides no row that runs.

Stopping, pausing and burying rows only lower the charge (`Cardinality` of a
subset); a switch's grant leaves out the row it replaces, and its reservation
stands for that row until the transaction swaps them.

*Which containers there are* is a second invariant, `CInv == Types /\ Makers /\ History /\
Containers /\ Workers`, about three accounts of each
container. The proof looks at it from two sides.

- From a container: whatever is done, one step does one of a few things to it and
  its row (`Touched`): nothing (`Stands`), a row that exists is marked (`Marked`) or
  given up (`Dropped`), a new row is written (`Written`), the container is removed by
  hand (`Taken`) or created (`Made`). `ContainersTouched` proves it action by action,
  and everything said of containers follows from it without opening an action again.
- From a process: `Sound(p)` says what it knows at each of its places, and
  `Movements` where a step can take it.

`OneContainer` turns on who may give a container its first row. That is its maker
(`Fresh`): a call while it resolves or a switch before its transaction. There is one
such process in a conversation (`PendingResolves`: the call named in `pending`;
`Apart`: never a call beside a switch), and it knows every container the
conversation keeps (`Theirs`), since it looked when it was already alone and nobody
else can add one. What it can miss is a row with no container behind it, which
`createEntry` may be given in place of the live one; `Tombstones` says that this takes
a container removed by hand or a revived row. `WorkIsKeptOtherwise` needs, besides
`Touched`, that the boot sweep knows every claim of before the restart (`BootKnows`) and
that a delete's and a discarding switch's lists hold recorded containers only. In
`DeleteTakesAll`, `Waited` ties the delete to the creation it waits for, so that the
container it makes has its row when the rows are read, and `Leftovers` says what a
read of the rows cannot show.

### The executor

`NobodyWaitsOnGone` is inductive with the types: a call or a panel takes the
registered entry with it, and each of the two steps that change the entry
(`Register`, `ServerClosed`) tells whoever waits on the old one. The types carry
one relation, that the entry's socket has greeted and is not closed.

`NoUnattendedCommand` is not inductive, because a command that is being prepared
when its socket drops would start afterwards. `AllAttended` says it of what runs
*or may still start*: that belongs to the machine's socket, or has been told to
stop. It holds because `inFlight` has a call from the moment it arrives
(`AbortedAreAttended`), and it is what a map filled at the spawn would break.

### Only model-checked

- Liveness: `WaitersLeaveLine`, `ConvergesOtherwise`, `GapsHeal`, `StopEndsTheRun`,
  `DeleteStopsTheRun`, `NothingOutlivesErasure`, `StopReachesCommand`,
  `StaysReachable`. Fairness and `ENABLED` are beyond the prover.
- `ShownIsPrefix` and `EndComesAfterAll` once a resync has taken down a reservation:
  the theorems stop there, the run does not.

Every invariant and every action property of the passing runs is a theorem, those two
under the premise.

## 5. Where code and text disagree

Six runs show behaviour that a comment of the repository rules out.

| run | property | what happens |
|---|---|---|
| `delivery_missed_run` | `Converges` | A run that starts between `handleSubscribe`'s listing of the runs and its registering of the watch is in neither (`delivery.ts:282`). |
| `delivery_two_taps` | `NeverTwoTaps` | A device opens a thread and sends in it before the subscribe is answered. The subscribe finds the run active and takes down the reservation of the send, which still reads its log (`delivery.ts:278`): both install a tap, and the socket has every event twice. Nothing was dropped. The cursor makes it harmless (`NothingAppliedTwice`). |
| `questions_stale_gate` | `QuestionDecidedInForce` | A switch to Manual while Auto's check is out: the question goes out as Manual's, with Auto's decision behind it, and nothing decides it again (`engine.ts:2256`). |
| `conversation_two_runs` | `OneHolder` | A compaction looks for a run, then awaits the history, the stream and its row, then registers over a send that claimed meanwhile: two runs at once, of which the slot names one (`compactRun.ts:446`). |
| `questions_repeated_ids` | `AnswersFindTheirCall` | With a model that names every call `call_0`, an answer to a call that was settled meanwhile decides the next one (`run-actions.ts:78`), though it should be a no-op. |
| `sandboxes_unanswered` | `WorkIsKept` | The sweep at boot asks for each container that a row claims, and the engine leaves one inspect unanswered: `exists()` says false (`container-engine.ts:728`), and `markDeadRowsDestroyed` records the row of a live container as destroyed. Its conversation's next call makes a new container, without the work. The second look before a start is refused does the same to another conversation's. |

Met while modelling, of the same kind, and left without a run of their own:

- A turn that comes back from an approval while a switch waits is put at the head
  of the line with no pump (`scheduler.ts:290`): it stands beside a free slot until
  somebody else's release.
- `kickScheduler` clears the cached probe, but a probe in flight then writes its old
  answer back, fresh for another period (`scheduler.ts:421`).
- The last event of a run dropped for backpressure shows no gap, and the device
  takes the end without it (`delivery.ts:74`).
- The sender of a new conversation may find its log empty (the read overtook the
  first append), gets events and no snapshot, and never counts the run as going
  (`delivery.ts:335`).
- A subscribe in flight when its socket closes installs its tap afterwards
  (`delivery.ts:462`); a subscribe in flight when a rewind withdraws a stream
  (`delivery.ts:310`) answers with what was removed; thread-list notices can
  answer out of order after their authorization (`delivery.ts:377`).
- With the memory driver a restarted server knows no streams; a client that
  follows a run is told nothing (`recovery.ts` documents the loss). `ConvergesOtherwise`
  is checked with `Durable = TRUE`.
- Two resyncs that overlap the end of a run can leave a gap for good
  (`syncedFinished`, see `GapsHeal` in section 3).
- A server that dies between HINCRBY and XADD leaves `lastSeq` ahead of the records
  (`redis.ts:74`). A device that has every record then reconnects with a cursor behind
  `lastSeq`, so `handleSubscribe` takes the ordinary catch-up and not `forceSync`; the
  log it reads holds nothing past the cursor, `subscribeToStream` sends no snapshot
  (`currentSeq > cursor`, `delivery.ts:149`), and the run, which recovery has ended, is
  shown as streaming. `delivery.ts:248` has the `forceSync` for the same sight:
  "Without this the client shows a finished run as streaming". `ConvergesOtherwise`
  leaves it out as `Miscounted`.
- A dropped first event, while the device has no cursor yet, and a gap inside the
  500 ms cooldown with nothing following it, are not noticed by anyone.

Of the conversation:

- The retention sweep selects its rows and then erases them one by one: a hold or
  a restore set in between is not looked at again (`reaper.ts:67`).
- A send that was authorized before a delete and claims after the delete's
  `abortRuns` starts a run in a conversation that is gone; its rows go with the
  orphan sweep. `delete.ts` says of the transaction that the instant it commits
  nothing new can start a run.
- The detached cleanup of a retaining delete removes logs and sandboxes some time
  after; a restore and a new run meanwhile lose theirs.
- A restart between `removeSuffix`'s transaction and `deleteRemovedStreams` leaves
  a removed run's log (the premise `Removing` of `LogsAnswerVisible`).
- A rewind during the part of a compaction that holds no claim leaves the summary
  of the rows it removed.
- A compaction that registers over a run's slot is what a delete then finds and waits
  for (`runByConversation` names one): the run itself is stopped by nobody, and writes
  after the last pass.
- Two purges of one conversation at once: the second's transaction erases the row of
  a child that the first has yet to look for, and the child's stream log stays
  until it expires.

Of the sandboxes:

- What `destroy()` could not remove is taken for removed: the handle swallows a
  failing `stop` and `remove` (`container-engine.ts:774-778`), a delete and a switch
  swallow a failing `attach` as well (`sandbox-manager.ts:844-845`, `1323`,
  `1333-1335`), and the row is marked destroyed. The container runs on, counted by
  nobody, until a restart's sweep finds that no row claims it. `forsaken` has it, and
  `DeleteTakesAll` excepts it.
- A route that read its row as running starts the container without a reservation
  (`wake()`, `sandbox-manager.ts:965`); a Pause, or the idle timer, that marks the row
  stopped in between leaves a container that runs and is in neither account until
  `touchRunning` has failed and the late reservation is granted. `wake()`'s comment
  (`sandbox-manager.ts:953-957`) and `pauseSandbox`'s (`1208-1213`) say the start then
  counts itself as a wake; in the meantime, and when the reservation is refused (further
  down), the engine runs more than the allocation. `ChargedWithinLimit` is about the
  ledger for that reason.
- `markStopped` is unconditional. `stopIdleSandboxes`, `stopStrayRunning` and the
  tombstone of a cached entry can revive a row that a switch or a delete has marked
  destroyed, although `createEntry`'s comment has destroyed as terminal; and the
  idle timer stops first and marks after, the order that `pauseSandbox` avoids
  because it can leave a running container behind a `stopped` row.
- `createEntry` takes whichever row `findFirst` returns (`sandbox-manager.ts:477`, no
  order). When one row of a conversation has no container behind it, because somebody
  removed that container or because the row was revived as above, that row can be
  picked while another has a live container, and a second one is made. `OneContainer`
  leaves such conversations out.
- A wake that started its container and is then refused (a Pause overtook it)
  leaves it running with a stopped row: where `wake()` would stop it, `release` is
  still undefined (`sandbox-manager.ts:975`).
- A terminal that settles after a Pause registers its container again; the cached
  path of the next call starts it without counting it.
- `pauseSandbox` reports an engine that did not answer as an error, it says, but
  the handle's `stop()` swallows it (`container-engine.ts:771`): the row is stopped
  and its container runs.

Of the executor:

- `closeAll()`, and `close()` of one panel, know the shells that have opened
  (`terminal.ts:98`). One that is still `opening` then registers and runs on with
  nobody behind it, although `terminal.ts:41` has "Every shell this executor
  holds — for a lost server connection, which must not leave bash processes
  running on someone's laptop". It counts against `MAX_TERMINALS` until the next
  disconnect.
- A result or an exit can be the first frame of a new socket, ahead of the hello
  that waits for its probe: the server closes that socket as one that did not say
  hello (`ws/executor.ts:164`), and the machine reconnects.
- A hello whose probe began on an older socket goes out on the newer; a late hello
  on a dying socket evicts the newer entry. Both heal (`StaysReachable`).
- `updateExecutorRoots` looks its entry up by id, so the roots an old socket still
  sends are taken for the new one's (`registry.ts:178`).
- A cancel or a disconnect aborts a signal that only `exec` looks at: a container
  being created for a call goes on across a disconnect.

## 6. What is not modelled

Inside the modelled components:

- *Queue.* One provider at a time (providers share no state). A provider
  that cannot be resolved is one more answer of 1. The probe
  cache is a value that may expire; two probes of the same backend in flight
  together, and `kickScheduler` racing a probe, are not told apart. Callers that
  queue several times in their life do so by yielding, not by a second entry.
- *Log.* One run; the idle expiry of its keys (`ttlSeconds`) is left out, as is
  the memory driver's loss beyond `Durable = FALSE`.
- *Delivery.* One device, one run of the conversation: the loop of
  `handleSubscribe` over older runs' end states, activity notices and a rewind's
  withdrawal of subscriptions (`delivery.ts:310`) are left out. So is a tap
  installed after its socket closed. The device sends one turn, and a socket that is
  replaced takes the answer to its send with it.
- *Questions.* One sub-agent; `delegate` may start several side by side. The
  deadline's length, the risk analysis behind Auto, and the permission rules that
  make a call harmless are choices the module leaves open. A question about steps
  and a question about a call are both there; the text of a denial is not.
- *Conversation.* The insert of a conversation that does not exist yet; usage rows,
  workspace checkpoints, file restores. Claims of a pause, an image switch and a
  stage run are a `Claim` and a `Throw` to the rest. A compaction inside a run is
  one of its rows. One send spawns one sub-agent, which its run awaits. The orphan
  sweep's hour of grace is "no deletion is under way".
- *Sandboxes.* Every container needs the same room, so memory and CPU sums and the
  "too big" answer are a count. The abandoned reaper, `stopAllSandboxes`, sandboxes
  made by hand over the API, executor and host providers, process limits and database
  failures are left out. So are a wedged run's calls after a delete, a switch's failed
  inspect and a change of settings under it. A `destroy` is one request that is done
  or not (`remove`), where the code has an attach, a stop and a remove that fail
  separately and are each swallowed.
- *Executor.* One machine of one user, so the refusal of another user's claim
  (4003) is left out. Methods other than `exec` are request and answer and differ
  only in ignoring the cancel. Keystrokes, output, resizes and roots are
  left out, as are the length of the backoff and of the deadlines. A socket half open
  is one of whose ends has not noticed, either of them and perhaps for ever: no end
  pings. A cancel sent into one is lost and its command runs to its own end or timeout,
  which is what `StopReachesCommand` supposes away.

Components left out altogether, by reason:

- *Pure decisions and file formats*, where a unit test reaches everything a model
  would: permission rules, context-stage policy, GGUF and sizing arithmetic,
  egress rules, checkpoints, skills catalogs.
- *Rows and requests*, whose only concurrency is Postgres's: HTTP routes, schema,
  shares, auth, sync, settings.
- *Outside processes and services*: provider transports, MCP servers, browser
  pool, image pulls, GitHub, the llama.cpp runtime and its downloads. Modules take
  what they return, and when, as a choice.
- *Screens*: the mobile client apart from the reducer that follows a run.
- *Planned*: the parts section 7 lists.

`PROJECT.json` names each with its files.

## 7. The plan

In order of what the system would lose by it:

| module | code | abstract specification | hard part |
|---|---|---|---|
| `SendOutcomes` | `ws/send-outcomes.ts`, `ws/client-ref.ts`, the client's outbox | `TrueAnswer`: whoever asks about a send hears its own outcome, or that it is unknown, never another's | asked between the frame and its settlement, a ref used again, eviction at `PER_USER` |
| `ThreadListWatch` | `streams/watchers.ts`, `ws/delivery.ts` (`sendRunNotice`) | a list converges to what is going | notices reordered by their authorization |
| `Routines` | `routines/scheduler.ts` | each due time is run once or skipped | claims of two ticks, a restart between claim and run |
| `StepGate` | `streams/runs/step-gate.ts`, `loop-detector.ts` | a reference counting of steps | limits switched in mid-window; operators checked over bounded histories |
| `LlamaRoom` | `llama/room.ts`, `residency.ts`, `context-stage-switch.ts` | memory promised once | requests for room that cross a load |
| `DesktopUpdate` | `apps/desktop/src/supervisor`, `updates` | one server per data directory | a crash between two states of an update |

Extensions of what is here: several sub-agents of one run in `RunQuestions`, with
their slots in the queue's line; a second conversation run behind the first in
`StreamDelivery`; the probe cache's two probes in `RunScheduler`.

Compositions: `ConversationLife` with the registry's half of `RunQuestions` (a
Stop or a delete that arrives while a run is being opened), `SandboxPool` with its
deletions (the sandboxes' passes of `detachedCleanup`), and `SendOutcomes` with
`ConversationLife` (a retried send meets the claim of its first attempt).

Runs: a dozen are kept in all, so that everything is checked in minutes. As modules
come, the runs of section 5 give way to passing runs of new modules, and what they
show stays described in the text.

Theorems, after those of section 4, which have every invariant and action property of
the passing runs: `Prefix` and `EndIsLast` without their premise, the new modules'
own, and for the compositions that each component's invariant survives the other's
steps.
