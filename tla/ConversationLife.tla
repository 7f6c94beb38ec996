-------------------------- MODULE ConversationLife --------------------------
(***************************************************************************)
(* One conversation: who holds its one run slot, and what takes its rows   *)
(* away again (streams/registry.ts, streams/runs/{chatRun,agentRun,        *)
(* start-run,compactRun}.ts, conversations/{rewind,delete,reaper}.ts).     *)
(*                                                                         *)
(* A request is one handler from its authorization to its end, a step is   *)
(* what it does between two awaits.  Sends, retries and rewinds claim the  *)
(* slot in one step; a compaction looks first and registers later.  A      *)
(* deletion commits one transaction and cleans up detached from whoever    *)
(* asked.  The clock counts rows inserted, and stands for created_at.      *)
(***************************************************************************)
EXTENDS Integers, FiniteSets

CONSTANTS
  Sends, Retries, Rewinds,  \* requests that call claimConversation
  Compactions,              \* calls of startCompactRun
  Spawners,                 \* runs that start a sub-agent
  Wedged,                   \* runs that never hear their stop
  OwnerDeletes,             \* the owner deletes the conversation
  AdminPurges,              \* an admin's "Delete now"
  Sweeps,                   \* a turn of the retention sweep
  Days,                     \* the sets of the above that turn up together
  MaxRows,                  \* bound: rows after which runs write no more
  MaxRestarts,              \* bound: restarts of the server
  NoOne

Runs == Sends \cup Retries
Claimers == Runs \cup Rewinds
Requests == Claimers \cup Compactions
Jobs == OwnerDeletes \cup AdminPurges \cup Sweeps

ASSUME ConversationAssumption ==
  /\ NoOne \notin Requests
  /\ Spawners \subseteq Runs
  /\ Wedged \subseteq Requests
  /\ Sends \cap Retries = {} /\ Runs \cap Rewinds = {} /\ Claimers \cap Compactions = {}
  /\ OwnerDeletes \cap AdminPurges = {} /\ (OwnerDeletes \cup AdminPurges) \cap Sweeps = {}
  /\ Days \subseteq SUBSET (Requests \cup Jobs)
  /\ {MaxRows, MaxRestarts} \subseteq Nat

VARIABLES
  conv,      \* the conversations row: "live", "retained" (deletedAt) or "gone"
  hold,      \* its deletedHold
  keep,      \* settings: keepDeleted
  rows,      \* its message rows
  clock,     \* rows inserted so far
  log,       \* per request: the clock its stream log began at, 0 without one
  kid,       \* per spawner: its sub-agent's conversation
  at,        \* per request: where its handler is
  slot,      \* runByConversation: the request it names
  aborted,   \* requests whose abort signal fired
  question,  \* per run: the row it answers
  plan,      \* per retry and rewind: what removeSuffix read
  job,       \* per deletion
  restarts

requestVars == <<log, at, slot, aborted, question, plan>>
vars == <<conv, hold, keep, rows, clock, log, kid, at, slot, aborted, question,
          plan, job, restarts>>

RequestPlaces == {"absent", "idle", "allowed", "refused", "ended", "lost",
  "claimed", "wrote",                \* a send, its row inserted
  "listed", "removed", "dropped",    \* removeSuffix
  "clear", "opened",                 \* a compaction before registerRun
  "running"}

\* Places at which the slot is the request's, to give back by unregisterRun.
Holding(r) == at[r] \in {"claimed", "wrote", "listed", "removed", "dropped", "running"}

JobPlaces == {"absent", "idle", "allowed", "committed", "waiting", "woken", "found",
              "settled", "erased", "cleared", "done", "lost"}

NoKid == [at |-> "none", row |-> "none", texts |-> FALSE, log |-> FALSE, under |-> 0]
NoPlan == [pivot |-> 0, ids |-> {}, kids |-> {}, keep |-> FALSE]
NoJob == [at |-> "idle", purge |-> FALSE, known |-> {}, ended |-> TRUE, stopped |-> NoOne]

Init ==
  /\ conv = "live" /\ hold = FALSE /\ keep \in BOOLEAN
  /\ rows = {} /\ clock = 0
  /\ log = [r \in Requests |-> 0]
  /\ kid = [r \in Spawners |-> NoKid]
  /\ slot = NoOne /\ aborted = {}
  /\ question = [r \in Runs |-> 0]
  /\ plan = [r \in Retries \cup Rewinds |-> NoPlan]
  /\ \E day \in Days :
       /\ at = [r \in Requests |-> IF r \in day THEN "idle" ELSE "absent"]
       /\ job = [d \in Jobs |-> [NoJob EXCEPT !.at = IF d \in day THEN "idle" ELSE "absent"]]
  /\ restarts = 0

Row_Ahead(r, kind) == [by |-> r, kind |-> kind, at |-> clock + 2, stamped |-> FALSE]
Row(r, kind) == [by |-> r, kind |-> kind, at |-> clock + 1, stamped |-> FALSE]
Visible == {row \in rows : ~row.stamped}
Typed == {row \in Visible : row.kind = "typed"}

-----------------------------------------------------------------------------
(* The slot. *)

Move(r, place) == at' = [at EXCEPT ![r] = place]

Free_UnlessRunning == slot # NoOne => at[slot] # "running"
Free == slot = NoOne

\* resolveAccess answers null for a row that is gone or stamped.
Authorize(r) ==
  /\ at[r] = "idle"
  /\ Move(r, IF conv = "live" THEN "allowed" ELSE "refused")
  /\ UNCHANGED <<conv, hold, keep, rows, clock, log, kid, slot, aborted, question, plan, job, restarts>>

\* claimConversation: the check and the claim are one step.
Claim(r) ==
  /\ r \in Claimers /\ at[r] = "allowed"
  /\ IF Free
       THEN slot' = r /\ Move(r, "claimed")
       ELSE Move(r, "refused") /\ UNCHANGED slot
  /\ UNCHANGED <<conv, hold, keep, rows, clock, log, kid, aborted, question, plan, job, restarts>>

\* unregisterRun: frees the slot if it is r's, and wakes whoever waits for
\* the conversation's run to end.
Waiters == {d \in Jobs : job[d].at = "waiting"}

Unregister(r) ==
  IF slot = r
    THEN /\ slot' = NoOne
         /\ job' = [d \in Jobs |-> IF d \in Waiters THEN [job[d] EXCEPT !.at = "woken"] ELSE job[d]]
    ELSE UNCHANGED <<slot, job>>

\* Something threw before the run started: the starters' catch, the rewind's
\* finally.
GivesBack(r) == at[r] \in {"claimed", "wrote", "listed"}

Throw(r) ==
  /\ at[r] \in {"claimed", "wrote", "listed"}
  /\ IF GivesBack(r) THEN Unregister(r) ELSE UNCHANGED <<slot, job>>
  /\ Move(r, "refused")
  /\ UNCHANGED <<conv, hold, keep, rows, clock, log, kid, aborted, question, plan, restarts>>

-----------------------------------------------------------------------------
(* Runs. *)

InsertTyped(r) ==
  /\ r \in Sends /\ at[r] = "claimed"
  /\ rows' = rows \cup {Row(r, "typed")}
  /\ clock' = clock + 1
  /\ question' = [question EXCEPT ![r] = clock + 1]
  /\ Move(r, "wrote")
  /\ UNCHANGED <<conv, hold, keep, log, kid, slot, aborted, plan, job, restarts>>

\* startRunOnRow: the stream log is open and the loop detached.
OpenRun(r) ==
  /\ r \in Runs /\ at[r] = "wrote"
  /\ log' = [log EXCEPT ![r] = clock]
  /\ Move(r, "running")
  /\ UNCHANGED <<conv, hold, keep, rows, clock, kid, slot, aborted, question, plan, job, restarts>>

\* A reply, a tool result, the cancelled row of a stopped run.
WriteReply(r) ==
  /\ r \in Runs /\ at[r] = "running" /\ clock < MaxRows
  /\ rows' = rows \cup {Row(r, "reply")}
  /\ clock' = clock + 1
  /\ UNCHANGED <<conv, hold, keep, log, kid, at, slot, aborted, question, plan, job, restarts>>

\* A run awaits its sub-agent however it ends (runSubagentGroup).
KidSettled(r) == r \in Spawners => kid[r].at \in {"none", "ended"}

EndRun(r) ==
  /\ at[r] = "running" /\ KidSettled(r)
  /\ Move(r, "ended")
  /\ Unregister(r)
  /\ UNCHANGED <<conv, hold, keep, rows, clock, log, kid, aborted, question, plan, restarts>>

\* runSubagent: the child's conversation and its task in one transaction,
\* under the reply that called for it; then its log and its handle.
SpawnKid(r) ==
  /\ at[r] = "running" /\ kid[r].at = "none"
  /\ \E row \in rows :
       /\ row.by = r /\ row.kind = "reply"
       /\ kid' = [kid EXCEPT ![r] = [NoKid EXCEPT !.at = "inserted", !.row = "live",
                                                  !.texts = TRUE, !.under = row.at]]
  /\ UNCHANGED <<conv, hold, keep, rows, clock, job, restarts, requestVars>>

StartKid(r) ==
  /\ kid[r].at = "inserted"
  /\ kid' = [kid EXCEPT ![r].at = "running", ![r].log = TRUE]
  /\ UNCHANGED <<conv, hold, keep, rows, clock, job, restarts, requestVars>>

KidWrites(r) ==
  /\ kid[r].at = "running" /\ clock < MaxRows
  /\ kid' = [kid EXCEPT ![r].texts = TRUE]
  /\ clock' = clock + 1
  /\ UNCHANGED <<conv, hold, keep, rows, job, restarts, requestVars>>

EndKid(r) ==
  /\ kid[r].at = "running"
  /\ kid' = [kid EXCEPT ![r].at = "ended"]
  /\ UNCHANGED <<conv, hold, keep, rows, clock, job, restarts, requestVars>>

\* startCompactRun: refused if a run is going; the history, the leaf and the
\* lamport are read before the summary's row is inserted and its stream open,
\* and only then is it registered, over whatever the slot names by now.
LookForRun(c) ==
  /\ c \in Compactions /\ at[c] = "allowed"
  /\ Move(c, IF slot = NoOne THEN "clear" ELSE "refused")
  /\ UNCHANGED <<conv, hold, keep, rows, clock, log, kid, slot, aborted, question, plan, job, restarts>>

\* Nothing to compact: the card is the summary, and there is no run.
OpenSummary(c) ==
  /\ at[c] = "clear"
  /\ rows' = rows \cup {Row(c, "summary")}
  /\ clock' = clock + 1
  /\ log' = [log EXCEPT ![c] = clock]
  /\ \E place \in {"opened", "ended"} : Move(c, place)
  /\ UNCHANGED <<conv, hold, keep, kid, slot, aborted, question, plan, job, restarts>>

RegisterCompaction(c) ==
  /\ at[c] = "opened"
  /\ slot' = c
  /\ Move(c, "running")
  /\ UNCHANGED <<conv, hold, keep, rows, clock, log, kid, aborted, question, plan, job, restarts>>

-----------------------------------------------------------------------------
(* Rewind and retry. *)

\* suffixRows: a rewind takes the message too, a retry answers it again.
Suffix_Exclusive(r, p) == {row.at : row \in {v \in Visible : v.at > p}}
Suffix(r, p) == {row.at : row \in {v \in Visible : IF r \in Rewinds THEN v.at >= p ELSE v.at > p}}

\* The message a person typed: any for a rewind, the newest for a retry.
Pivots(r) ==
  {row.at : row \in {t \in Typed : r \in Retries => \A u \in Typed : u.at <= t.at}}

ListSuffix(r) ==
  /\ r \in Retries \cup Rewinds /\ at[r] = "claimed"
  /\ \E p \in Pivots(r) :
       LET ids == Suffix(r, p)
       IN plan' = [plan EXCEPT ![r] =
            [pivot |-> p, ids |-> ids, keep |-> keep,
             kids |-> {k \in Spawners : kid[k].row # "none" /\ kid[k].under \in ids}]]
  /\ Move(r, "listed")
  /\ UNCHANGED <<conv, hold, keep, rows, clock, log, kid, slot, aborted, question, job, restarts>>

\* removeSuffix's transaction: stamps while deletions are kept, else deletes.
RemoveSuffix(r) ==
  /\ at[r] = "listed"
  /\ LET pl == plan[r]
         taken == {row \in rows : row.at \in pl.ids}
     IN IF pl.keep
          THEN /\ rows' = (rows \ taken) \cup {[row EXCEPT !.stamped = TRUE] : row \in taken}
               /\ kid' = [k \in Spawners |->
                    IF k \in pl.kids /\ kid[k].row # "none" THEN [kid[k] EXCEPT !.row = "stamped"] ELSE kid[k]]
          ELSE /\ rows' = rows \ taken
               /\ kid' = [k \in Spawners |->
                    IF k \in pl.kids THEN [kid[k] EXCEPT !.row = "none", !.texts = FALSE] ELSE kid[k]]
  /\ Move(r, "removed")
  /\ UNCHANGED <<conv, hold, keep, clock, log, slot, aborted, question, plan, job, restarts>>

\* deleteRemovedStreams: the logs begun at or after the pivot, whoever wrote
\* them, and the removed sub-agents'.
RemovedLogs_After(r) == {q \in Requests : log[q] > plan[r].pivot}
RemovedLogs(r) == {q \in Requests : log[q] >= plan[r].pivot}

DropLogs(r) ==
  /\ at[r] = "removed"
  /\ log' = [q \in Requests |-> IF q \in RemovedLogs(r) THEN 0 ELSE log[q]]
  /\ kid' = [k \in Spawners |-> IF k \in plan[r].kids THEN [kid[k] EXCEPT !.log = FALSE] ELSE kid[k]]
  /\ IF r \in Retries
       THEN Move(r, "wrote") /\ question' = [question EXCEPT ![r] = plan[r].pivot]
       ELSE Move(r, "dropped") /\ UNCHANGED question
  /\ UNCHANGED <<conv, hold, keep, rows, clock, slot, aborted, plan, job, restarts>>

EndRewind(r) ==
  /\ at[r] = "dropped"
  /\ Move(r, "ended")
  /\ Unregister(r)
  /\ UNCHANGED <<conv, hold, keep, rows, clock, log, kid, aborted, question, plan, restarts>>

-----------------------------------------------------------------------------
(* Deletion. *)

Kids == {k \in Spawners : kid[k].row # "none"}

\* eraseRows, one transaction; the sub-agents it finds or is told of.
Erase(known) ==
  /\ conv' = "gone" /\ hold' = FALSE
  /\ rows' = {}
  /\ kid' = [k \in Spawners |->
       IF k \in known \cup Kids THEN [kid[k] EXCEPT !.row = "none", !.texts = FALSE] ELSE kid[k]]

Step(d, from, to) == job[d].at = from /\ job' = [job EXCEPT ![d].at = to]

\* The owner's role; isRetained; the rows a sweep selects.  Whether the
\* window has passed is the sweep's to find: any row may be old enough.
MayDelete(d) ==
  CASE d \in OwnerDeletes -> conv = "live"
    [] d \in AdminPurges -> conv = "retained"
    [] d \in Sweeps -> conv = "retained" /\ ~hold

Permit(d) ==
  /\ MayDelete(d)
  /\ Step(d, "idle", "allowed")
  /\ UNCHANGED <<conv, hold, keep, rows, clock, kid, restarts, requestVars>>

\* deleteConversation, purgeConversation: what the caller waits for.
Retain(d) ==
  /\ d \in OwnerDeletes /\ keep
  /\ job[d].at = "allowed"
  /\ conv' = IF conv = "live" THEN "retained" ELSE conv
  /\ job' = [job EXCEPT ![d].at = "committed", ![d].known = Kids]
  /\ UNCHANGED <<hold, keep, rows, clock, kid, restarts, requestVars>>

Purge(d) ==
  /\ d \in OwnerDeletes => ~keep
  /\ job[d].at = "allowed"
  /\ Erase({})
  /\ job' = [job EXCEPT ![d].at = "committed", ![d].purge = TRUE, ![d].known = Kids]
  /\ UNCHANGED <<keep, clock, restarts, requestVars>>

\* abortRuns, and waitForRunEnd's look at the slot.
Stopped_IfErased(d) == IF job[d].purge THEN {slot} \ {NoOne} ELSE {}
Stopped(d) == {slot} \ {NoOne}

AbortRuns(d) ==
  /\ job[d].at = "committed"
  /\ job' = [job EXCEPT ![d].at = IF slot = NoOne THEN "woken" ELSE "waiting",
                        ![d].stopped = slot]
  /\ aborted' = aborted \cup Stopped(d)
  /\ UNCHANGED <<conv, hold, keep, rows, clock, log, kid, at, slot, question, plan, restarts>>

TimesOut(d) == job[d].at = "waiting"

RunTimeout(d) ==
  /\ TimesOut(d)
  /\ job' = [job EXCEPT ![d].at = "woken", ![d].ended = FALSE]
  /\ UNCHANGED <<conv, hold, keep, rows, clock, kid, restarts, requestVars>>

\* The children are found again after the wait: the unwinding run may have
\* started one.
Found == Kids

FindKids(d) ==
  /\ job[d].at = "woken"
  /\ job' = [job EXCEPT ![d].at = "found", ![d].known = @ \cup Found]
  /\ UNCHANGED <<conv, hold, keep, rows, clock, kid, restarts, requestVars>>

WaitKids(d) ==
  /\ job[d].at = "found"
  /\ \E late \in BOOLEAN :
       /\ ~late => \A k \in job[d].known : kid[k].at # "running"
       /\ job' = [job EXCEPT ![d].at = "settled", ![d].ended = @ /\ ~late]
  /\ UNCHANGED <<conv, hold, keep, rows, clock, kid, restarts, requestVars>>

ErasesAgain_IfLate(d) == job[d].purge /\ ~job[d].ended
ErasesAgain(d) == job[d].purge

SecondPass(d) ==
  /\ Step(d, "settled", "erased")
  /\ IF ErasesAgain(d) THEN Erase(job[d].known) ELSE UNCHANGED <<conv, hold, rows, kid>>
  /\ UNCHANGED <<keep, clock, restarts, requestVars>>

DeleteLogs(d) ==
  /\ Step(d, "erased", "cleared")
  /\ log' = [r \in Requests |-> 0]
  /\ kid' = [k \in Spawners |-> IF k \in job[d].known THEN [kid[k] EXCEPT !.log = FALSE] ELSE kid[k]]
  /\ UNCHANGED <<conv, hold, keep, rows, clock, at, slot, aborted, question, plan, restarts>>

\* The long wait ends by itself or at its ceiling, and the erase runs either way.
FinalPass(d) ==
  /\ Step(d, "cleared", "done")
  /\ IF job[d].purge /\ ~job[d].ended THEN Erase(job[d].known) ELSE UNCHANGED <<conv, hold, rows, kid>>
  /\ UNCHANGED <<keep, clock, restarts, requestVars>>

-----------------------------------------------------------------------------
(* An admin, the hourly orphan sweep, a restart. *)

SetHold ==
  /\ conv = "retained" /\ hold' = ~hold
  /\ UNCHANGED <<conv, keep, rows, clock, kid, job, restarts, requestVars>>

SetKeep ==
  /\ keep' = ~keep
  /\ UNCHANGED <<conv, hold, rows, clock, kid, job, restarts, requestVars>>

Restore ==
  /\ conv = "retained"
  /\ conv' = "live" /\ hold' = FALSE
  /\ UNCHANGED <<keep, rows, clock, kid, job, restarts, requestVars>>

\* sweepOrphanedRows: rows whose conversation is gone, sub-agents whose
\* parent is, an hour after they were written: well past a delete's own passes.
Orphans_ByParent == {k \in Spawners : conv = "gone" /\ kid[k].row # "none"}
Orphans == {k \in Spawners : (kid[k].row = "none" /\ kid[k].texts) \/ (conv = "gone" /\ kid[k].row # "none")}

Resting(d) == job[d].at \in {"absent", "idle", "done", "lost"}

SweepOrphans ==
  /\ \A d \in Jobs : Resting(d)
  /\ Orphans # {} \/ (conv = "gone" /\ rows # {})
  /\ rows' = IF conv = "gone" THEN {} ELSE rows
  /\ kid' = [k \in Spawners |->
       IF k \in Orphans THEN [kid[k] EXCEPT !.row = "none", !.texts = FALSE] ELSE kid[k]]
  /\ UNCHANGED <<conv, hold, keep, clock, job, restarts, requestVars>>

\* The rows and the logs survive; whatever was going is lost.
Restart ==
  /\ restarts < MaxRestarts
  /\ restarts' = restarts + 1
  /\ at' = [r \in Requests |-> IF at[r] \in {"absent", "idle", "refused", "ended"} THEN at[r] ELSE "lost"]
  /\ job' = [d \in Jobs |-> IF job[d].at \in {"absent", "idle", "done"} THEN job[d] ELSE [NoJob EXCEPT !.at = "lost"]]
  /\ kid' = [k \in Spawners |-> IF kid[k].at = "none" THEN kid[k] ELSE [kid[k] EXCEPT !.at = "ended"]]
  /\ slot' = NoOne /\ aborted' = {}
  /\ UNCHANGED <<conv, hold, keep, rows, clock, log, question, plan>>

RequestStep(r) ==
  \/ Authorize(r) \/ Claim(r) \/ InsertTyped(r) \/ OpenRun(r)
  \/ ListSuffix(r) \/ RemoveSuffix(r) \/ DropLogs(r) \/ EndRewind(r)
  \/ LookForRun(r) \/ OpenSummary(r) \/ RegisterCompaction(r)

KidStep(k) == SpawnKid(k) \/ StartKid(k) \/ KidWrites(k) \/ EndKid(k)

JobStep(d) ==
  \/ Permit(d) \/ Retain(d) \/ Purge(d) \/ AbortRuns(d) \/ RunTimeout(d) \/ FindKids(d)
  \/ WaitKids(d) \/ SecondPass(d) \/ DeleteLogs(d) \/ FinalPass(d)

Next ==
  \/ \E r \in Requests : RequestStep(r) \/ Throw(r) \/ WriteReply(r) \/ EndRun(r)
  \/ \E k \in Spawners : KidStep(k)
  \/ \E d \in Jobs : JobStep(d)
  \/ SetHold \/ SetKeep \/ Restore \/ SweepOrphans \/ Restart

\* A handler and a detached cleanup go on at their next await's end, an
\* aborted run and its sub-agent unwind unless wedged, the orphan sweep runs
\* hourly.
Fairness ==
  /\ \A r \in Requests : WF_vars(RequestStep(r))
  /\ \A r \in Requests \ Wedged : WF_vars(r \in aborted /\ EndRun(r))
  /\ \A k \in Spawners \ Wedged : WF_vars(StartKid(k)) /\ WF_vars(k \in aborted /\ EndKid(k))
  /\ \A d \in Jobs : WF_vars(JobStep(d))
  /\ WF_vars(SweepOrphans)

Spec == Init /\ [][Next]_vars
FairSpec == Spec /\ Fairness

-----------------------------------------------------------------------------
(* Properties. *)

Rows == [by : Requests, kind : {"typed", "reply", "summary"}, at : Nat, stamped : BOOLEAN]
KidStates == [at : {"none", "inserted", "running", "ended"}, row : {"none", "live", "stamped"},
              texts : BOOLEAN, log : BOOLEAN, under : Nat]
Plans == [pivot : Nat, ids : SUBSET Nat, kids : SUBSET Spawners, keep : BOOLEAN]
JobStates == [at : JobPlaces, purge : BOOLEAN, known : SUBSET Spawners, ended : BOOLEAN,
              stopped : Requests \cup {NoOne}]

\* The values of the state; no row and no log is from the future, a request
\* is only at the places of its kind.
TypeOK ==
  /\ conv \in {"live", "retained", "gone"} /\ hold \in BOOLEAN /\ keep \in BOOLEAN
  /\ clock \in Nat /\ restarts \in Nat
  /\ rows \subseteq Rows /\ \A row \in rows : row.at <= clock
  /\ log \in [Requests -> 0..clock]
  /\ kid \in [Spawners -> KidStates]
  /\ at \in [Requests -> RequestPlaces]
  /\ \A c \in Compactions : at[c] \notin {"claimed", "wrote", "listed", "removed", "dropped"}
  /\ \A r \in Claimers : at[r] \notin {"clear", "opened"}
  /\ slot \in Requests \cup {NoOne} /\ aborted \subseteq Requests
  /\ question \in [Runs -> Nat]
  /\ plan \in [Retries \cup Rewinds -> Plans]
  /\ job \in [Jobs -> JobStates]

\* registry.ts:252 "enforces one active run per conversation": the slot names
\* the request at work in the conversation, and no other is at work.
OneHolder == \A r \in Requests : Holding(r) <=> slot = r

\* A compaction past its look at the slot writes and registers under no claim.
Unclaimed == \E c \in Compactions : at[c] \notin {"absent", "idle", "allowed", "refused"}

\* The same of the requests that claim, until a compaction is past its look:
\* none works without the slot, none keeps it afterwards.
ClaimsExclude == ~Unclaimed => OneHolder

\* rewind.ts:100 "a send arriving meanwhile is refused, never written into
\* the suffix being removed": after the removal nothing from the pivot on is
\* visible, whatever was sent, ended or deleted since it was listed.
RemovalTakesAll ==
  \A w \in Rewinds : at[w] = "listed" /\ at'[w] = "removed" /\ ~Unclaimed =>
    \A row \in rows' : row.stamped \/ row.at < plan[w].pivot

RewindTakesAll == [][RemovalTakesAll]_vars

\* rewind.ts:399: a resync folds a conversation's last logs into snapshots, so
\* a log left of a removed turn would bring it back on every device.  Every
\* log of a live conversation answers a message that is still in it, but for
\* a removal under way or one that a restart cut in two, and the claims a
\* compaction overwrote.
Removing == \E w \in Retries \cup Rewinds : at[w] \in {"removed", "lost"} /\ plan[w].pivot > 0

LogsAnswerVisible ==
  \/ conv # "live" \/ Unclaimed \/ Removing
  \/ \A r \in Runs : log[r] > 0 => \E row \in Typed : row.at = question[r]

\* delete.ts:236: a purge that saw the run it stopped and its children end
\* leaves nothing they wrote on their way out, in rows or in stream logs, once
\* no other deletion or removal is under way.  A second purge erases a child's
\* row, the only way to find the child again, and a compaction in the run's
\* slot is waited for in its place: neither is claimed here.
StoppedRunLeavesNothing ==
  \A d \in Jobs :
    /\ job[d].at = "done" /\ job[d].purge /\ job[d].ended /\ ~Removing /\ ~Unclaimed
    /\ \A e \in Jobs : job[e].at \in {"absent", "idle", "done"}
    /\ \A e \in Jobs \ {d} : ~job[e].purge
    => /\ \A row \in rows : row.by # job[d].stopped
       /\ job[d].stopped \in Requests => log[job[d].stopped] = 0
       /\ job[d].stopped \in Spawners => ~kid[job[d].stopped].texts /\ ~kid[job[d].stopped].log

\* delete.ts:106: a run that is going when its conversation's delete commits
\* is stopped, whichever way the conversation is deleted; not one whose slot a
\* compaction has taken over.
DeleteStopsTheRun ==
  \A r \in Runs \ Wedged :
    (at[r] = "running" /\ \E d \in Jobs : job[d].at = "committed") ~> (at[r] # "running" \/ Unclaimed)

\* delete.ts:433-449: in the end no row of an erased conversation or of its
\* sub-agents is left, whoever was still writing, whatever was lost to a
\* restart (stream logs are not rows: they end with the time they are kept).
NothingOutlivesErasure ==
  <>[](conv = "gone" => rows = {} /\ \A k \in Spawners : kid[k].row = "none" /\ ~kid[k].texts)
=============================================================================
