----------------------- MODULE ConversationLifeProofs -----------------------
(***************************************************************************)
(* ConversationLife for any requests, deletions and days: the types, the   *)
(* exclusion of the claims, that a rewind takes the whole suffix, and that a  *)
(* log left answers a message that is left.                                *)
(***************************************************************************)
EXTENDS ConversationLife, TLAPS

-----------------------------------------------------------------------------
(* Types. *)

\* A new row is of its time, and an old one stays of its.
LEMMA NewRow ==
  ASSUME TypeOK, NEW r \in Requests, NEW kind \in {"typed", "reply", "summary"},
         rows' = rows \cup {Row(r, kind)}, clock' = clock + 1
  PROVE  /\ clock' \in Nat /\ rows' \subseteq Rows
         /\ \A row \in rows' : row.at <= clock'
         /\ 0..clock \subseteq 0..clock'
<1>1. clock \in Nat /\ clock' \in Nat
  BY DEF TypeOK
<1>2. Row(r, kind) \in Rows /\ Row(r, kind).at = clock + 1
  BY <1>1 DEF Row, Rows
<1>3. \A row \in rows : row \in Rows /\ row.at \in Nat /\ row.at <= clock
  BY DEF TypeOK, Rows
<1>4. QED BY <1>1, <1>2, <1>3

\* The states of a sub-agent that the actions take another one to.
LEMMA KidUpdates ==
  ASSUME NEW x \in KidStates
  PROVE  /\ [x EXCEPT !.row = "none", !.texts = FALSE] \in KidStates
         /\ [x EXCEPT !.row = "stamped"] \in KidStates
         /\ [x EXCEPT !.log = FALSE] \in KidStates
         /\ [x EXCEPT !.at = "running", !.log = TRUE] \in KidStates
         /\ [x EXCEPT !.at = "ended"] \in KidStates
BY DEF KidStates

LEMMA EachKid == TypeOK => \A k \in Spawners : kid[k] \in KidStates
BY DEF TypeOK

\* What erasing leaves is of the types.
LEMMA EraseTypes ==
  ASSUME TypeOK, NEW known, Erase(known)
  PROVE  /\ conv' = "gone" /\ hold' = FALSE /\ rows' = {}
         /\ kid' \in [Spawners -> KidStates]
<1>1. \A k \in Spawners : [kid[k] EXCEPT !.row = "none", !.texts = FALSE] \in KidStates
  BY KidUpdates, EachKid
<1>2. QED BY <1>1 DEF TypeOK, Erase

\* Giving the slot back leaves the slot and the jobs of their types.
LEMMA UnregisterTypes ==
  ASSUME TypeOK, NEW r, Unregister(r)
  PROVE  slot' \in Requests \cup {NoOne} /\ job' \in [Jobs -> JobStates]
<1>1. CASE slot = r
  <2>1. \A d \in Jobs : [job[d] EXCEPT !.at = "woken"] \in JobStates
    BY DEF TypeOK, JobStates, JobPlaces
  <2>2. QED BY <1>1, <2>1 DEF Unregister, TypeOK
<1>2. CASE slot # r
  BY <1>2 DEF Unregister, TypeOK
<1>3. QED BY <1>1, <1>2

LEMMA InitTypes == Init => TypeOK
<1> SUFFICES ASSUME Init PROVE TypeOK
  OBVIOUS
<1>1. NoKid \in KidStates /\ NoPlan \in Plans
  BY DEF NoKid, NoPlan, KidStates, Plans
<1>2. [NoJob EXCEPT !.at = "idle"] \in JobStates /\ [NoJob EXCEPT !.at = "absent"] \in JobStates
  BY DEF NoJob, JobStates, JobPlaces
<1>3. job \in [Jobs -> JobStates]
  <2>1. PICK day \in Days :
          job = [d \in Jobs |-> [NoJob EXCEPT !.at = IF d \in day THEN "idle" ELSE "absent"]]
    BY DEF Init
  <2>2. \A d \in Jobs : job[d] \in JobStates
    BY <1>2, <2>1
  <2>3. QED BY <2>1, <2>2
<1>4. at \in [Requests -> {"idle", "absent"}]
  BY DEF Init
<1>5. \A c \in Compactions \cup Claimers : at[c] \in {"idle", "absent"}
  BY <1>4 DEF Requests
<1>6. at \in [Requests -> RequestPlaces]
  BY <1>4 DEF RequestPlaces
<1>7. /\ log \in [Requests -> 0..clock] /\ kid \in [Spawners -> KidStates]
      /\ question \in [Runs -> Nat] /\ plan \in [Retries \cup Rewinds -> Plans]
  BY <1>1 DEF Init
<1>8. /\ conv = "live" /\ hold = FALSE /\ keep \in BOOLEAN /\ rows = {} /\ clock = 0
      /\ slot = NoOne /\ aborted = {} /\ restarts = 0
  BY DEF Init
<1>9. QED BY <1>3, <1>5, <1>6, <1>7, <1>8 DEF TypeOK

\* A request that moves to a place of its kind.
LEMMA MoveTypes ==
  ASSUME TypeOK, NEW r \in Requests, NEW place \in RequestPlaces, Move(r, place),
         r \in Compactions => place \notin {"claimed", "wrote", "listed", "removed", "dropped"},
         r \in Claimers => place \notin {"clear", "opened"}
  PROVE  /\ at' \in [Requests -> RequestPlaces]
         /\ \A c \in Compactions : at'[c] \notin {"claimed", "wrote", "listed", "removed", "dropped"}
         /\ \A c \in Claimers : at'[c] \notin {"clear", "opened"}
BY DEF TypeOK, Move, Requests

LEMMA RequestTypes ==
  ASSUME ConversationAssumption, TypeOK, NEW r \in Requests,
         RequestStep(r) \/ Throw(r) \/ WriteReply(r) \/ EndRun(r)
  PROVE  TypeOK'
<1> USE DEF RequestPlaces
<1>a. r \in Claimers => r \notin Compactions
  BY DEF ConversationAssumption
<1>1. CASE Authorize(r)
  BY <1>1, MoveTypes DEF Authorize, TypeOK
<1>2. CASE Claim(r)
  BY <1>2, <1>a, MoveTypes DEF Claim, TypeOK
<1>3. CASE InsertTyped(r)
  <2>1. r \in Runs /\ r \in Claimers
    BY <1>3 DEF InsertTyped, Runs, Claimers
  <2>2. clock + 1 \in Nat /\ question \in [Runs -> Nat] /\ question' = [question EXCEPT ![r] = clock + 1]
    BY <1>3 DEF InsertTyped, TypeOK
  <2>3. question' \in [Runs -> Nat]
    BY <2>1, <2>2
  <2>4. log' \in [Requests -> 0..clock']
    BY <1>3, NewRow DEF InsertTyped, TypeOK
  <2>5. QED BY <1>3, <1>a, <2>1, <2>3, <2>4, MoveTypes, NewRow DEF InsertTyped, TypeOK
<1>4. CASE OpenRun(r)
  <2>1. r \in Claimers /\ log' \in [Requests -> 0..clock]
    BY <1>4 DEF OpenRun, TypeOK, Claimers
  <2>2. QED BY <1>4, <1>a, <2>1, MoveTypes DEF OpenRun, TypeOK
<1>5. CASE ListSuffix(r)
  <2>1. r \in Claimers
    BY <1>5 DEF ListSuffix, Claimers, Runs
  <2>2. \A p \in Pivots(r) : p \in Nat /\ Suffix(r, p) \subseteq Nat
    BY DEF Pivots, Suffix, Typed, Visible, TypeOK, Rows
  <2>3. plan' \in [Retries \cup Rewinds -> Plans]
    <3>1. PICK p \in Pivots(r) : plan' = [plan EXCEPT ![r] =
            [pivot |-> p, ids |-> Suffix(r, p), keep |-> keep,
             kids |-> {k \in Spawners : kid[k].row # "none" /\ kid[k].under \in Suffix(r, p)}]]
      BY <1>5 DEF ListSuffix
    <3>2. QED BY <2>2, <3>1 DEF TypeOK, Plans
  <2>4. QED BY <1>5, <1>a, <2>1, <2>3, MoveTypes DEF ListSuffix, TypeOK
<1>6. CASE RemoveSuffix(r)
  <2>1. r \notin Compactions
    BY <1>6 DEF RemoveSuffix, TypeOK
  <2>2. \A row \in rows : /\ [row EXCEPT !.stamped = TRUE] \in Rows
                          /\ [row EXCEPT !.stamped = TRUE].at = row.at
    BY DEF TypeOK, Rows
  <2>3. rows' \subseteq Rows /\ \A row \in rows' : row.at <= clock
    <3> DEFINE taken == {row \in rows : row.at \in plan[r].ids}
    <3>1. \/ rows' = rows \ taken
          \/ rows' = (rows \ taken) \cup {[row EXCEPT !.stamped = TRUE] : row \in taken}
      BY <1>6 DEF RemoveSuffix
    <3>2. \A row \in rows : row \in Rows /\ row.at <= clock
      BY DEF TypeOK
    <3>3. \A row \in rows' : (row \in rows) \/ \E old \in rows : row = [old EXCEPT !.stamped = TRUE]
      BY <3>1
    <3>4. QED BY <2>2, <3>2, <3>3
  <2>4. \A k \in Spawners : /\ [kid[k] EXCEPT !.row = "stamped"] \in KidStates
                            /\ [kid[k] EXCEPT !.row = "none", !.texts = FALSE] \in KidStates
    BY KidUpdates, EachKid
  <2>5. kid' \in [Spawners -> KidStates]
    <3>1. kid' = [k \in Spawners |-> kid'[k]] /\ \A k \in Spawners :
            \/ kid'[k] = kid[k]
            \/ kid'[k] = [kid[k] EXCEPT !.row = "stamped"]
            \/ kid'[k] = [kid[k] EXCEPT !.row = "none", !.texts = FALSE]
      <4>1. CASE plan[r].keep
        BY <1>6, <4>1 DEF RemoveSuffix
      <4>2. CASE ~plan[r].keep
        BY <1>6, <4>2 DEF RemoveSuffix
      <4>3. QED BY <4>1, <4>2
    <3>2. \A k \in Spawners : kid'[k] \in KidStates
      <4>1. TAKE k \in Spawners
      <4>2. kid[k] \in KidStates
        BY EachKid
      <4>3. QED BY <2>4, <3>1, <4>2
    <3>3. QED BY <3>1, <3>2
  <2>6. QED BY <1>6, <2>1, <2>3, <2>5, MoveTypes DEF RemoveSuffix, TypeOK
<1>7. CASE DropLogs(r)
  <2>1. r \notin Compactions
    BY <1>7 DEF DropLogs, TypeOK
  <2>2. \A k \in Spawners : [kid[k] EXCEPT !.log = FALSE] \in KidStates
    BY KidUpdates, EachKid
  <2>3. kid' \in [Spawners -> KidStates] /\ log' \in [Requests -> 0..clock]
    BY <1>7, <2>2 DEF DropLogs, TypeOK
  <2>4. question' \in [Runs -> Nat]
    BY <1>7 DEF DropLogs, TypeOK, Runs, Plans
  <2>5. QED BY <1>7, <2>1, <2>3, <2>4, MoveTypes DEF DropLogs, TypeOK
<1>8. CASE EndRewind(r)
  BY <1>8, MoveTypes, UnregisterTypes DEF EndRewind, TypeOK
<1>9. CASE LookForRun(r)
  BY <1>9, <1>a, MoveTypes DEF LookForRun, TypeOK
<1>10. CASE OpenSummary(r)
  <2>1. r \notin Claimers
    BY <1>10 DEF OpenSummary, TypeOK
  <2>2. log' \in [Requests -> 0..clock']
    BY <1>10, NewRow DEF OpenSummary, TypeOK
  <2>3. QED BY <1>10, <2>1, <2>2, MoveTypes, NewRow DEF OpenSummary, TypeOK
<1>11. CASE RegisterCompaction(r)
  BY <1>11, MoveTypes DEF RegisterCompaction, TypeOK
<1>12. CASE Throw(r)
  BY <1>12, MoveTypes, UnregisterTypes DEF Throw, TypeOK
<1>13. CASE WriteReply(r)
  BY <1>13, NewRow DEF WriteReply, TypeOK
<1>14. CASE EndRun(r)
  BY <1>14, MoveTypes, UnregisterTypes DEF EndRun, TypeOK
<1>15. QED
  BY <1>1, <1>2, <1>3, <1>4, <1>5, <1>6, <1>7, <1>8, <1>9, <1>10, <1>11, <1>12, <1>13, <1>14
     DEF RequestStep

LEMMA KidTypes ==
  ASSUME ConversationAssumption, TypeOK, NEW k \in Spawners, KidStep(k)
  PROVE  TypeOK'
<1> USE DEF requestVars
<1>1. CASE SpawnKid(k)
  <2>1. PICK row \in rows : kid' = [kid EXCEPT ![k] =
          [NoKid EXCEPT !.at = "inserted", !.row = "live", !.texts = TRUE, !.under = row.at]]
    BY <1>1 DEF SpawnKid
  <2>2. row.at \in Nat
    BY DEF TypeOK, Rows
  <2>3. [NoKid EXCEPT !.at = "inserted", !.row = "live", !.texts = TRUE, !.under = row.at] \in KidStates
    BY <2>2 DEF NoKid, KidStates
  <2>4. QED BY <1>1, <2>1, <2>3 DEF SpawnKid, TypeOK
<1>2. CASE StartKid(k)
  <2>1. kid' \in [Spawners -> KidStates]
    <3>1. [kid[k] EXCEPT !.at = "running", !.log = TRUE] \in KidStates
      BY KidUpdates, EachKid
    <3>2. kid' = [kid EXCEPT ![k] = [kid[k] EXCEPT !.at = "running", !.log = TRUE]]
      BY <1>2 DEF StartKid, TypeOK
    <3>3. QED BY <3>1, <3>2 DEF TypeOK
  <2>2. QED BY <1>2, <2>1 DEF StartKid, TypeOK
<1>3. CASE KidWrites(k)
  <2>1. kid' \in [Spawners -> KidStates]
    BY <1>3 DEF KidWrites, TypeOK, KidStates
  <2>2. clock' \in Nat /\ clock' = clock + 1
    BY <1>3 DEF KidWrites, TypeOK
  <2>3. \A row \in rows : row.at \in Nat
    BY DEF TypeOK, Rows
  <2>4. QED BY <1>3, <2>1, <2>2, <2>3 DEF KidWrites, TypeOK
<1>4. CASE EndKid(k)
  <2>1. kid' \in [Spawners -> KidStates]
    BY <1>4 DEF EndKid, TypeOK, KidStates
  <2>2. QED BY <1>4, <2>1 DEF EndKid, TypeOK
<1>5. QED BY <1>1, <1>2, <1>3, <1>4 DEF KidStep

\* A deletion that goes on from one of its places to another.
LEMMA JobTypes ==
  ASSUME ConversationAssumption, TypeOK, NEW d \in Jobs, JobStep(d)
  PROVE  TypeOK'
<1> USE DEF requestVars, JobPlaces
<1>1. job[d] \in JobStates
  BY DEF TypeOK
<1>2. ASSUME NEW to \in JobPlaces PROVE [job EXCEPT ![d].at = to] \in [Jobs -> JobStates]
  BY <1>1 DEF TypeOK, JobStates
<1>3. Kids \subseteq Spawners
  BY DEF Kids
<1>4. CASE Permit(d)
  BY <1>2, <1>4 DEF Permit, Step, TypeOK
<1>5. CASE Retain(d)
  <2>1. job' \in [Jobs -> JobStates]
    BY <1>1, <1>3, <1>5 DEF Retain, TypeOK, JobStates
  <2>2. QED BY <1>5, <2>1 DEF Retain, TypeOK
<1>6. CASE Purge(d)
  <2>1. job' \in [Jobs -> JobStates]
    BY <1>1, <1>3, <1>6 DEF Purge, TypeOK, JobStates
  <2>2. QED BY <1>6, <2>1, EraseTypes DEF Purge, TypeOK
<1>7. CASE AbortRuns(d)
  <2>1. job' \in [Jobs -> JobStates]
    BY <1>1, <1>7 DEF AbortRuns, TypeOK, JobStates
  <2>2. aborted' \subseteq Requests
    BY <1>7 DEF AbortRuns, Stopped, TypeOK
  <2>3. QED BY <1>7, <2>1, <2>2 DEF AbortRuns, TypeOK
<1>8. CASE RunTimeout(d)
  <2>1. job' \in [Jobs -> JobStates]
    BY <1>1, <1>8 DEF RunTimeout, TypeOK, JobStates
  <2>2. QED BY <1>8, <2>1 DEF RunTimeout, TypeOK
<1>9. CASE FindKids(d)
  <2>1. job' \in [Jobs -> JobStates]
    BY <1>1, <1>3, <1>9 DEF FindKids, Found, TypeOK, JobStates
  <2>2. QED BY <1>9, <2>1 DEF FindKids, TypeOK
<1>10. CASE WaitKids(d)
  <2>1. job' \in [Jobs -> JobStates]
    <3>1. PICK late \in BOOLEAN :
            job' = [job EXCEPT ![d].at = "settled", ![d].ended = @ /\ ~late]
      BY <1>10 DEF WaitKids
    <3>2. (job[d].ended /\ ~late) \in BOOLEAN
      OBVIOUS
    <3>3. QED BY <1>1, <3>1, <3>2 DEF TypeOK, JobStates
  <2>2. QED BY <1>10, <2>1 DEF WaitKids, TypeOK
<1>11. CASE SecondPass(d)
  <2>1. job' \in [Jobs -> JobStates]
    BY <1>2, <1>11 DEF SecondPass, Step
  <2>2. QED BY <1>11, <2>1, EraseTypes DEF SecondPass, TypeOK
<1>12. CASE DeleteLogs(d)
  <2>1. job' \in [Jobs -> JobStates]
    BY <1>2, <1>12 DEF DeleteLogs, Step
  <2>2. \A k \in Spawners : [kid[k] EXCEPT !.log = FALSE] \in KidStates
    BY KidUpdates, EachKid
  <2>3. kid' \in [Spawners -> KidStates] /\ log' \in [Requests -> 0..clock]
    BY <1>12, <2>2 DEF DeleteLogs, TypeOK
  <2>4. QED BY <1>12, <2>1, <2>3 DEF DeleteLogs, TypeOK
<1>13. CASE FinalPass(d)
  <2>1. job' \in [Jobs -> JobStates]
    BY <1>2, <1>13 DEF FinalPass, Step
  <2>2. QED BY <1>13, <2>1, EraseTypes DEF FinalPass, TypeOK
<1>14. QED
  BY <1>4, <1>5, <1>6, <1>7, <1>8, <1>9, <1>10, <1>11, <1>12, <1>13 DEF JobStep

LEMMA OtherTypes ==
  ASSUME TypeOK, SetHold \/ SetKeep \/ Restore \/ SweepOrphans \/ Restart
  PROVE  TypeOK'
<1> USE DEF requestVars
<1>1. CASE SetHold BY <1>1 DEF SetHold, TypeOK
<1>2. CASE SetKeep BY <1>2 DEF SetKeep, TypeOK
<1>3. CASE Restore BY <1>3 DEF Restore, TypeOK
<1>4. CASE SweepOrphans
  <2>1. \A k \in Spawners : [kid[k] EXCEPT !.row = "none", !.texts = FALSE] \in KidStates
    BY KidUpdates, EachKid
  <2>2. kid' \in [Spawners -> KidStates]
    BY <1>4, <2>1 DEF SweepOrphans, TypeOK
  <2>3. QED BY <1>4, <2>2 DEF SweepOrphans, TypeOK
<1>5. CASE Restart
  <2>1. [NoJob EXCEPT !.at = "lost"] \in JobStates
    BY DEF NoJob, JobStates, JobPlaces
  <2>2. job' \in [Jobs -> JobStates]
    BY <1>5, <2>1 DEF Restart, TypeOK
  <2>3. \A k \in Spawners : [kid[k] EXCEPT !.at = "ended"] \in KidStates
    BY KidUpdates, EachKid
  <2>4. kid' \in [Spawners -> KidStates]
    BY <1>5, <2>3 DEF Restart, TypeOK
  <2>5. at' \in [Requests -> RequestPlaces]
    BY <1>5 DEF Restart, TypeOK, RequestPlaces
  <2>6. \A r \in Requests : at'[r] \in {"absent", "idle", "refused", "ended", "lost"}
    BY <1>5 DEF Restart
  <2>7. QED BY <1>5, <2>2, <2>4, <2>5, <2>6 DEF Restart, TypeOK, Requests
<1>6. QED BY <1>1, <1>2, <1>3, <1>4, <1>5

LEMMA StepTypes ==
  ASSUME ConversationAssumption, TypeOK, [Next]_vars
  PROVE  TypeOK'
<1>1. CASE UNCHANGED vars
  BY <1>1 DEF vars, TypeOK
<1>2. CASE Next
  BY <1>2, RequestTypes, KidTypes, JobTypes, OtherTypes DEF Next
<1>3. QED BY <1>1, <1>2

\* The state has its types at all times (TypeOK of ConversationLife).
THEOREM ConversationTypes == Spec => []TypeOK
<1>1. Init => TypeOK
  BY InitTypes
<1>2. TypeOK /\ [Next]_vars => TypeOK'
  BY StepTypes, ConversationAssumption
<1>3. QED BY <1>1, <1>2, PTL DEF Spec

-----------------------------------------------------------------------------
(* The slot. *)

\* A compaction past its look at the slot does not come back before it.
LEMMA UnclaimedStays ==
  ASSUME TypeOK, [Next]_vars, Unclaimed
  PROVE  Unclaimed'
<1>1. PICK c \in Compactions : at[c] \notin {"absent", "idle", "allowed", "refused"}
  BY DEF Unclaimed
<1>2. /\ c \in Requests /\ at[c] \in RequestPlaces /\ at \in [Requests -> RequestPlaces]
      /\ at[c] \notin {"claimed", "wrote", "listed", "removed", "dropped"}
  BY <1>1 DEF TypeOK, Requests
<1>3. at'[c] \notin {"absent", "idle", "allowed", "refused"}
  <2>1. CASE UNCHANGED at
    BY <1>1, <2>1
  <2>2. ASSUME NEW r \in Requests, NEW from \in {{"running"}, {"dropped"}}, at[r] \in from, Move(r, "ended")
        PROVE  at'[c] \notin {"absent", "idle", "allowed", "refused"}
    BY <1>1, <1>2, <2>2 DEF Move
  <2>3. ASSUME NEW r \in Requests, NEW place, Move(r, place),
               at[r] \in {"idle", "allowed", "claimed", "wrote", "listed", "removed"}
        PROVE  at'[c] \notin {"absent", "idle", "allowed", "refused"}
    BY <1>1, <1>2, <2>3 DEF Move
  <2>4. ASSUME NEW r \in Requests, NEW place \in {"opened", "ended", "running"}, Move(r, place)
        PROVE  at'[c] \notin {"absent", "idle", "allowed", "refused"}
    BY <1>1, <1>2, <2>4 DEF Move
  <2>5. ASSUME NEW r \in Requests, RequestStep(r) \/ Throw(r) \/ WriteReply(r) \/ EndRun(r)
        PROVE  UNCHANGED at \/ \E place : Move(r, place) /\
                 (at[r] \in {"idle", "allowed", "claimed", "wrote", "listed", "removed"}
                    \/ place \in {"opened", "ended", "running"})
    <3>1. CASE Authorize(r) \/ Claim(r) \/ InsertTyped(r) \/ OpenRun(r) \/ LookForRun(r)
      BY <3>1 DEF Authorize, Claim, InsertTyped, OpenRun, LookForRun
    <3>2. CASE ListSuffix(r) \/ RemoveSuffix(r) \/ DropLogs(r) \/ EndRewind(r)
      BY <3>2 DEF ListSuffix, RemoveSuffix, DropLogs, EndRewind
    <3>3. CASE OpenSummary(r) \/ RegisterCompaction(r)
      BY <3>3 DEF OpenSummary, RegisterCompaction
    <3>4. CASE Throw(r) \/ WriteReply(r) \/ EndRun(r)
      BY <3>4 DEF Throw, WriteReply, EndRun
    <3>5. QED BY <2>5, <3>1, <3>2, <3>3, <3>4 DEF RequestStep
  <2>6. CASE Restart
    BY <1>1, <1>2, <2>6 DEF Restart
  <2>7. CASE \E k \in Spawners : KidStep(k)
    BY <2>1, <2>7 DEF KidStep, SpawnKid, StartKid, KidWrites, EndKid, requestVars
  <2>8. CASE \E d \in Jobs : JobStep(d)
    BY <2>1, <2>8 DEF JobStep, Permit, Retain, Purge, AbortRuns, RunTimeout, FindKids, WaitKids,
                      SecondPass, DeleteLogs, FinalPass, requestVars
  <2>9. CASE SetHold \/ SetKeep \/ Restore \/ SweepOrphans \/ UNCHANGED vars
    BY <2>1, <2>9 DEF SetHold, SetKeep, Restore, SweepOrphans, vars, requestVars
  <2>10. QED BY <2>1, <2>3, <2>4, <2>5, <2>6, <2>7, <2>8, <2>9 DEF Next
<1>4. QED BY <1>3 DEF Unclaimed

\* One that holds moves on among the places that hold.
LEMMA HoldsOn ==
  ASSUME TypeOK, OneHolder, NEW r \in Requests, Holding(r), UNCHANGED slot,
         NEW place \in {"claimed", "wrote", "listed", "removed", "dropped", "running"}, Move(r, place)
  PROVE  OneHolder'
BY DEF OneHolder, Holding, Move, TypeOK

\* One that does not hold stays so.
LEMMA StaysOut ==
  ASSUME TypeOK, OneHolder, NEW r \in Requests, ~Holding(r), UNCHANGED slot,
         NEW place \in {"allowed", "refused", "clear", "opened", "ended"}, Move(r, place)
  PROVE  OneHolder'
BY DEF OneHolder, Holding, Move, TypeOK

\* One that holds gives the slot back as it ends.
LEMMA GivesUp ==
  ASSUME ConversationAssumption, TypeOK, OneHolder, NEW r \in Requests, Holding(r), Unregister(r),
         NEW place \in {"refused", "ended"}, Move(r, place)
  PROVE  OneHolder'
<1>1. slot = r /\ slot' = NoOne
  BY DEF OneHolder, Unregister
<1>2. \A q \in Requests : ~Holding(q)'
  BY <1>1 DEF OneHolder, Holding, Move, TypeOK
<1>3. QED BY <1>1, <1>2 DEF OneHolder, ConversationAssumption

LEMMA ClaimsStep ==
  ASSUME ConversationAssumption, TypeOK, ClaimsExclude, [Next]_vars
  PROVE  ClaimsExclude'
<1> SUFFICES ASSUME ~Unclaimed' PROVE OneHolder'
  BY DEF ClaimsExclude
<1>1. ~Unclaimed /\ OneHolder
  BY UnclaimedStays DEF ClaimsExclude
<1>2. CASE UNCHANGED <<at, slot>>
  BY <1>1, <1>2 DEF OneHolder, Holding
<1>3. ASSUME NEW r \in Requests, RequestStep(r) \/ Throw(r) \/ WriteReply(r) \/ EndRun(r)
      PROVE  OneHolder'
  <2>1. CASE Authorize(r)
    BY <1>1, <2>1, StaysOut DEF Authorize, Holding
  <2>2. CASE Claim(r)
    <3>1. CASE slot = NoOne
      <4>1. slot' = r /\ Move(r, "claimed") /\ \A q \in Requests : ~Holding(q)
        BY <1>1, <2>2, <3>1 DEF Claim, Free, OneHolder, ConversationAssumption
      <4>2. QED BY <4>1 DEF OneHolder, Holding, Move, TypeOK
    <3>2. CASE slot # NoOne
      BY <1>1, <2>2, <3>2, StaysOut DEF Claim, Free, Holding
    <3>3. QED BY <3>1, <3>2
  <2>3. CASE InsertTyped(r) \/ OpenRun(r) \/ ListSuffix(r) \/ RemoveSuffix(r)
    BY <1>1, <2>3, HoldsOn DEF InsertTyped, OpenRun, ListSuffix, RemoveSuffix, Holding
  <2>4. CASE DropLogs(r)
    BY <1>1, <2>4, HoldsOn DEF DropLogs, Holding
  <2>5. CASE EndRewind(r) \/ EndRun(r)
    BY <1>1, <2>5, GivesUp DEF EndRewind, EndRun, Holding
  <2>6. CASE Throw(r)
    BY <1>1, <2>6, GivesUp DEF Throw, GivesBack, Holding
  <2>7. CASE LookForRun(r)
    BY <1>1, <2>7, StaysOut DEF LookForRun, Holding
  <2>8. CASE OpenSummary(r)
    BY <1>1, <2>8, StaysOut DEF OpenSummary, Holding
  <2>9. CASE RegisterCompaction(r)
    <3>1. r \in Compactions
      BY <2>9 DEF RegisterCompaction, TypeOK, Requests
    <3>2. Unclaimed
      BY <2>9, <3>1 DEF RegisterCompaction, Unclaimed
    <3>3. QED BY <1>1, <3>2
  <2>10. CASE WriteReply(r)
    BY <1>2, <2>10 DEF WriteReply
  <2>11. QED
    BY <1>3, <2>1, <2>2, <2>3, <2>4, <2>5, <2>6, <2>7, <2>8, <2>9, <2>10 DEF RequestStep
<1>4. CASE Restart
  <2>1. slot' = NoOne /\ \A r \in Requests : ~Holding(r)'
    BY <1>4 DEF Restart, Holding
  <2>2. QED BY <2>1 DEF OneHolder, ConversationAssumption
<1>5. CASE \E k \in Spawners : KidStep(k)
  BY <1>2, <1>5 DEF KidStep, SpawnKid, StartKid, KidWrites, EndKid, requestVars
<1>6. CASE \E d \in Jobs : JobStep(d)
  BY <1>2, <1>6 DEF JobStep, Permit, Retain, Purge, AbortRuns, RunTimeout, FindKids, WaitKids,
                    SecondPass, DeleteLogs, FinalPass, requestVars
<1>7. CASE SetHold \/ SetKeep \/ Restore \/ SweepOrphans \/ UNCHANGED vars
  BY <1>2, <1>7 DEF SetHold, SetKeep, Restore, SweepOrphans, vars, requestVars
<1>8. QED BY <1>3, <1>4, <1>5, <1>6, <1>7 DEF Next

\* Until a compaction is past its look at the slot, the slot names the one
\* request at work in the conversation (ClaimsExclude).
THEOREM OneHolderAtATime == Spec => []ClaimsExclude
<1>1. Init => ClaimsExclude
  BY ConversationAssumption DEF Init, ClaimsExclude, OneHolder, Holding
<1>2. TypeOK /\ ClaimsExclude /\ [Next]_vars => ClaimsExclude'
  BY ClaimsStep, ConversationAssumption
<1>3. QED BY <1>1, <1>2, ConversationTypes, PTL DEF Spec

-----------------------------------------------------------------------------
(* What a rewind takes. *)

\* From the listing to the removal nothing is added to the suffix: whoever
\* could holds the slot, which the rewind does.
Listed(w) == \A row \in rows : row.stamped \/ row.at < plan[w].pivot \/ row.at \in plan[w].ids
SuffixListed == \A w \in Rewinds : at[w] = "listed" /\ ~Unclaimed => Listed(w)

\* An action that adds no row and leaves w and what it read alone.
LEMMA ListedStays ==
  ASSUME NEW w \in Rewinds, Listed(w), rows' \subseteq rows, plan'[w] = plan[w]
  PROVE  Listed(w)'
BY DEF Listed

LEMMA ListedStep ==
  ASSUME ConversationAssumption, TypeOK, ClaimsExclude, SuffixListed, [Next]_vars
  PROVE  SuffixListed'
<1> SUFFICES ASSUME NEW w \in Rewinds, at'[w] = "listed", ~Unclaimed'
             PROVE  Listed(w)'
  BY DEF SuffixListed
<1>1. ~Unclaimed /\ OneHolder
  BY UnclaimedStays DEF ClaimsExclude
<1>2. w \in Requests /\ w \in Retries \cup Rewinds
  BY DEF Requests, Claimers
<1>3. ASSUME at[w] = "listed", rows' \subseteq rows, plan'[w] = plan[w]
      PROVE  Listed(w)'
  BY <1>1, <1>3, ListedStays DEF SuffixListed
<1>4. CASE UNCHANGED <<at, plan>> /\ rows' \subseteq rows
  BY <1>3, <1>4
<1>5. ASSUME NEW r \in Requests, RequestStep(r) \/ Throw(r) \/ WriteReply(r) \/ EndRun(r)
      PROVE  Listed(w)'
  <2>1. CASE ListSuffix(r)
    <3>1. CASE r = w
      <4>1. PICK p \in Pivots(w) : plan'[w].pivot = p /\ plan'[w].ids = Suffix(w, p)
        BY <1>2, <2>1, <3>1 DEF ListSuffix, TypeOK
      <4>2. \A row \in rows : ~row.stamped /\ row.at >= p => row.at \in Suffix(w, p)
        BY DEF Suffix, Visible
      <4>3. \A row \in rows : row.at \in Nat /\ row.stamped \in BOOLEAN
        BY DEF TypeOK, Rows
      <4>4. p \in Nat
        BY <4>3 DEF Pivots, Typed, Visible
      <4>5. rows' = rows
        BY <2>1 DEF ListSuffix
      <4>6. QED BY <4>1, <4>2, <4>3, <4>4, <4>5 DEF Listed
    <3>2. CASE r # w
      BY <1>2, <1>3, <2>1, <3>2 DEF ListSuffix, Move, TypeOK
    <3>3. QED BY <3>1, <3>2
  <2>2. CASE at[w] # "listed"
    <3>1. ~ListSuffix(r) => at'[w] # "listed"
      <4>1. ASSUME NEW place, place # "listed", Move(r, place) PROVE at'[w] # "listed"
        BY <1>2, <2>2, <4>1 DEF Move, TypeOK
      <4>2. CASE Authorize(r) \/ Claim(r) \/ InsertTyped(r) \/ OpenRun(r) \/ LookForRun(r)
        BY <4>1, <4>2 DEF Authorize, Claim, InsertTyped, OpenRun, LookForRun
      <4>3. CASE RemoveSuffix(r) \/ DropLogs(r) \/ EndRewind(r)
        BY <4>1, <4>3 DEF RemoveSuffix, DropLogs, EndRewind
      <4>4. CASE OpenSummary(r) \/ RegisterCompaction(r)
        BY <4>1, <4>4 DEF OpenSummary, RegisterCompaction
      <4>5. CASE Throw(r) \/ EndRun(r)
        BY <4>1, <4>5 DEF Throw, EndRun
      <4>6. CASE WriteReply(r)
        BY <2>2, <4>6 DEF WriteReply
      <4>7. QED BY <1>5, <4>2, <4>3, <4>4, <4>5, <4>6 DEF RequestStep
    <3>2. QED BY <2>1, <3>1
  <2>3. CASE at[w] = "listed" /\ ~ListSuffix(r)
    <3>1. slot = w /\ \A q \in Requests : Holding(q) => q = w
      BY <1>1, <1>2, <2>3 DEF OneHolder, Holding
    <3>2. CASE Authorize(r) \/ Claim(r) \/ OpenRun(r) \/ LookForRun(r) \/ RegisterCompaction(r)
      BY <1>3, <2>3, <3>2 DEF Authorize, Claim, OpenRun, LookForRun, RegisterCompaction
    <3>3. CASE InsertTyped(r) \/ WriteReply(r)
      BY <2>3, <3>1, <3>3 DEF InsertTyped, WriteReply, Holding
    <3>4. CASE RemoveSuffix(r)
      <4>1. r = w
        BY <3>1, <3>4 DEF RemoveSuffix, Holding
      <4>2. at'[w] = "removed"
        BY <1>2, <3>4, <4>1 DEF RemoveSuffix, Move, TypeOK
      <4>3. QED BY <4>2
    <3>5. CASE OpenSummary(r)
      <4>1. r \in Compactions /\ at[r] = "clear"
        BY <3>5 DEF OpenSummary, TypeOK, Requests
      <4>2. QED BY <1>1, <4>1 DEF Unclaimed
    <3>6. CASE DropLogs(r) \/ EndRewind(r) \/ Throw(r) \/ EndRun(r)
      BY <1>3, <2>3, <3>6 DEF DropLogs, EndRewind, Throw, EndRun
    <3>7. QED BY <1>5, <2>3, <3>2, <3>3, <3>4, <3>5, <3>6 DEF RequestStep
  <2>4. QED BY <2>1, <2>2, <2>3
<1>6. CASE Restart
  BY <1>2, <1>6 DEF Restart
<1>7. CASE \E k \in Spawners : KidStep(k)
  BY <1>4, <1>7 DEF KidStep, SpawnKid, StartKid, KidWrites, EndKid, requestVars
<1>8. CASE \E d \in Jobs : JobStep(d)
  BY <1>4, <1>8 DEF JobStep, Permit, Retain, Purge, Erase, AbortRuns, RunTimeout, FindKids, WaitKids,
                    SecondPass, DeleteLogs, FinalPass, requestVars
<1>9. CASE SetHold \/ SetKeep \/ Restore \/ SweepOrphans \/ UNCHANGED vars
  BY <1>4, <1>9 DEF SetHold, SetKeep, Restore, SweepOrphans, vars, requestVars
<1>10. QED BY <1>5, <1>6, <1>7, <1>8, <1>9 DEF Next

\* The removal takes or stamps all that was listed.
LEMMA RemovalTakesListed ==
  ASSUME TypeOK, NEW w \in Rewinds, Listed(w), RemoveSuffix(w)
  PROVE  \A row \in rows' : row.stamped \/ row.at < plan[w].pivot
<1> DEFINE taken == {row \in rows : row.at \in plan[w].ids}
<1>1. \A row \in rows \ taken : row.stamped \/ row.at < plan[w].pivot
  BY DEF Listed
<1>2. rows' \subseteq (rows \ taken) \cup {[row EXCEPT !.stamped = TRUE] : row \in taken}
  BY DEF RemoveSuffix
<1>3. \A row \in rows : [row EXCEPT !.stamped = TRUE].stamped = TRUE
  BY DEF TypeOK, Rows
<1>4. QED BY <1>1, <1>2, <1>3

LEMMA OnlyRemovalRemoves ==
  ASSUME TypeOK, [Next]_vars, NEW w \in Rewinds, at[w] = "listed", at'[w] = "removed"
  PROVE  RemoveSuffix(w)
<1>1. w \in Requests
  BY DEF Requests, Claimers
<1>2. CASE \E r \in Requests : RequestStep(r) \/ Throw(r) \/ WriteReply(r) \/ EndRun(r)
  <2>1. PICK r \in Requests : RequestStep(r) \/ Throw(r) \/ WriteReply(r) \/ EndRun(r)
    BY <1>2
  <2>2. ASSUME NEW place, place # "removed", Move(r, place) PROVE FALSE
    BY <1>1, <2>2 DEF Move, TypeOK
  <2>3. CASE Authorize(r) \/ Claim(r) \/ InsertTyped(r) \/ OpenRun(r) \/ LookForRun(r)
    BY <2>2, <2>3 DEF Authorize, Claim, InsertTyped, OpenRun, LookForRun
  <2>4. CASE ListSuffix(r) \/ DropLogs(r) \/ EndRewind(r)
    BY <2>2, <2>4 DEF ListSuffix, DropLogs, EndRewind
  <2>5. CASE OpenSummary(r) \/ RegisterCompaction(r)
    BY <2>2, <2>5 DEF OpenSummary, RegisterCompaction
  <2>6. CASE Throw(r) \/ EndRun(r)
    BY <2>2, <2>6 DEF Throw, EndRun
  <2>7. CASE WriteReply(r)
    BY <2>7 DEF WriteReply
  <2>8. CASE RemoveSuffix(r)
    BY <1>1, <2>8 DEF RemoveSuffix, Move, TypeOK
  <2>9. QED BY <2>1, <2>3, <2>4, <2>5, <2>6, <2>7, <2>8 DEF RequestStep
<1>3. CASE Restart
  BY <1>1, <1>3 DEF Restart
<1>4. CASE \E k \in Spawners : KidStep(k)
  BY <1>4 DEF KidStep, SpawnKid, StartKid, KidWrites, EndKid, requestVars
<1>5. CASE \E d \in Jobs : JobStep(d)
  BY <1>5 DEF JobStep, Permit, Retain, Purge, AbortRuns, RunTimeout, FindKids, WaitKids,
              SecondPass, DeleteLogs, FinalPass, requestVars
<1>6. CASE SetHold \/ SetKeep \/ Restore \/ SweepOrphans \/ UNCHANGED vars
  BY <1>6 DEF SetHold, SetKeep, Restore, SweepOrphans, vars, requestVars
<1>7. QED BY <1>2, <1>3, <1>4, <1>5, <1>6 DEF Next

\* After a rewind's removal nothing from its message on is visible, whatever
\* ran, was sent or was deleted since it listed the rows (RewindTakesAll).
THEOREM RewindTakesTheSuffix == Spec => RewindTakesAll
<1>1. Init => SuffixListed
  <2> SUFFICES ASSUME Init PROVE \A w \in Rewinds : at[w] # "listed"
    BY DEF SuffixListed
  <2>1. at \in [Requests -> {"idle", "absent"}]
    BY DEF Init
  <2>2. QED BY <2>1 DEF Requests, Claimers
<1>2. TypeOK /\ ClaimsExclude /\ SuffixListed /\ [Next]_vars => SuffixListed'
  BY ListedStep, ConversationAssumption
<1>3. TypeOK /\ SuffixListed /\ [Next]_vars => RemovalTakesAll
  BY OnlyRemovalRemoves, RemovalTakesListed DEF RemovalTakesAll, SuffixListed
<1>4. QED BY <1>1, <1>2, <1>3, ConversationTypes, OneHolderAtATime, PTL DEF Spec, RewindTakesAll

-----------------------------------------------------------------------------
(* What a log answers. *)

Removers == Retries \cup Rewinds

\* A removal that a restart cut in two.
RemovalCut == \E w \in Removers : at[w] = "lost" /\ plan[w].pivot > 0

\* None of the three that end what is said below, each for good.
Settled == conv # "gone" /\ ~Unclaimed /\ ~RemovalCut

Answered(r) == \E row \in Typed : row.at = question[r]

RowsDated == \A row \in rows : row.at > 0

\* A run with a log has begun, with a message older than the log; the message
\* is there, unless a removal has taken it and will take the log as well.
LogsAnswered ==
  \A r \in Runs : log[r] > 0 =>
    /\ at[r] \in {"running", "ended", "lost"}
    /\ question[r] <= log[r]
    /\ (\A w \in Removers : at[w] = "removed" => log[r] < plan[w].pivot) => Answered(r)

AboutToAnswer == \A r \in Runs : at[r] = "wrote" => question[r] <= clock /\ Answered(r)

\* What a removal under way has read: a message of before and what follows it.
Taking ==
  \A w \in Removers : at[w] \in {"listed", "removed"} =>
    /\ plan[w].pivot \in 1..clock
    /\ \A i \in plan[w].ids : plan[w].pivot <= i /\ (w \in Retries => i # plan[w].pivot)
    /\ w \in Retries => \E row \in Typed : row.at = plan[w].pivot

OnlyRemoversRemove == \A r \in Requests : at[r] \in {"listed", "removed"} => r \in Removers

LogsInv ==
  /\ RowsDated
  /\ OnlyRemoversRemove
  /\ Settled => LogsAnswered /\ AboutToAnswer /\ Taking

LEMMA GoneStays ==
  ASSUME [Next]_vars, conv = "gone"
  PROVE  conv' = "gone"
<1>1. CASE \E r \in Requests : RequestStep(r) \/ Throw(r) \/ WriteReply(r) \/ EndRun(r)
  BY <1>1 DEF RequestStep, Authorize, Claim, InsertTyped, OpenRun, ListSuffix, RemoveSuffix,
    DropLogs, EndRewind, LookForRun, OpenSummary, RegisterCompaction, Throw, WriteReply, EndRun
<1>2. CASE \E k \in Spawners : KidStep(k)
  BY <1>2 DEF KidStep, SpawnKid, StartKid, KidWrites, EndKid
<1>3. CASE \E d \in Jobs : JobStep(d)
  BY <1>3 DEF JobStep, Permit, Retain, Purge, Erase, AbortRuns, RunTimeout, FindKids,
    WaitKids, SecondPass, DeleteLogs, FinalPass
<1>4. CASE SetHold \/ SetKeep \/ Restore \/ SweepOrphans \/ Restart \/ UNCHANGED vars
  BY <1>4 DEF SetHold, SetKeep, Restore, SweepOrphans, Restart, vars
<1> QED BY <1>1, <1>2, <1>3, <1>4 DEF Next

\* A conversation that is gone stays gone, and a removal cut in two stays so.
LEMMA SettledBefore ==
  ASSUME ConversationAssumption, TypeOK, [Next]_vars, Settled'
  PROVE  Settled
<1>1. ~Unclaimed
  BY UnclaimedStays DEF Settled
<1>2. conv # "gone"
  BY GoneStays DEF Settled
<1>3. ~RemovalCut
  <2>1. SUFFICES ASSUME NEW w \in Removers, at[w] = "lost", plan[w].pivot > 0
                 PROVE  at'[w] = "lost" /\ plan'[w] = plan[w]
    BY DEF Settled, RemovalCut
  <2>2. w \in Requests /\ w \in Retries \cup Rewinds
    BY DEF Removers, Requests, Claimers, Runs
  <2>3. CASE UNCHANGED <<at, plan>>
    BY <2>1, <2>3
  <2>4. ASSUME NEW r \in Requests, RequestStep(r) \/ Throw(r) \/ WriteReply(r) \/ EndRun(r)
        PROVE  at'[w] = "lost" /\ plan'[w] = plan[w]
    <3>1. ASSUME NEW place, Move(r, place), at[r] # "lost" PROVE at'[w] = "lost"
      BY <2>1, <2>2, <3>1 DEF Move, TypeOK
    <3>2. CASE Authorize(r) \/ Claim(r) \/ InsertTyped(r) \/ OpenRun(r) \/ LookForRun(r)
      BY <3>1, <3>2 DEF Authorize, Claim, InsertTyped, OpenRun, LookForRun
    <3>3. CASE RemoveSuffix(r) \/ DropLogs(r) \/ EndRewind(r)
      BY <3>1, <3>3 DEF RemoveSuffix, DropLogs, EndRewind
    <3>4. CASE ListSuffix(r)
      BY <2>1, <2>2, <3>1, <3>4 DEF ListSuffix, TypeOK
    <3>5. CASE OpenSummary(r) \/ RegisterCompaction(r)
      BY <3>1, <3>5 DEF OpenSummary, RegisterCompaction
    <3>6. CASE Throw(r) \/ EndRun(r)
      BY <3>1, <3>6 DEF Throw, EndRun
    <3>7. CASE WriteReply(r)
      BY <2>3, <3>7 DEF WriteReply
    <3> QED BY <2>4, <3>2, <3>3, <3>4, <3>5, <3>6, <3>7 DEF RequestStep
  <2>5. CASE Restart
    BY <2>1, <2>2, <2>5 DEF Restart
  <2>6. CASE \E k \in Spawners : KidStep(k)
    BY <2>3, <2>6 DEF KidStep, SpawnKid, StartKid, KidWrites, EndKid, requestVars
  <2>7. CASE \E d \in Jobs : JobStep(d)
    BY <2>3, <2>7 DEF JobStep, Permit, Retain, Purge, AbortRuns, RunTimeout, FindKids,
      WaitKids, SecondPass, DeleteLogs, FinalPass, requestVars
  <2>8. CASE SetHold \/ SetKeep \/ Restore \/ SweepOrphans \/ UNCHANGED vars
    BY <2>3, <2>8 DEF SetHold, SetKeep, Restore, SweepOrphans, vars, requestVars
  <2> QED BY <2>4, <2>5, <2>6, <2>7, <2>8 DEF Next
<1> QED BY <1>1, <1>2, <1>3 DEF Settled

\* A step that takes no message away, and takes nobody to or from the places
\* these facts are about.
LEMMA QuietStep ==
  ASSUME TypeOK, LogsAnswered, AboutToAnswer, Taking,
         Typed \subseteq Typed', clock' \in Nat, clock <= clock', UNCHANGED <<log, question, plan>>,
         \A w \in Removers : at'[w] = "removed" <=> at[w] = "removed",
         \A w \in Removers : at'[w] = "listed" => at[w] = "listed",
         \A r \in Runs : at'[r] = "wrote" => at[r] = "wrote",
         \A r \in Runs : at[r] \in {"running", "ended", "lost"}
                        => at'[r] \in {"running", "ended", "lost"}
  PROVE  LogsAnswered' /\ AboutToAnswer' /\ Taking'
<1>0. clock \in Nat
  BY DEF TypeOK
<1>1. \A r \in Runs : Answered(r) => \E row \in Typed' : row.at = question[r]
  BY DEF Answered
<1>2. LogsAnswered'
  <2> SUFFICES ASSUME NEW r \in Runs, log[r] > 0
               PROVE  /\ at'[r] \in {"running", "ended", "lost"}
                      /\ question[r] <= log[r]
                      /\ (\A w \in Removers : at'[w] = "removed" => log[r] < plan[w].pivot)
                         => \E row \in Typed' : row.at = question[r]
    BY DEF LogsAnswered, Answered
  <2>1. at[r] \in {"running", "ended", "lost"} /\ question[r] <= log[r]
    BY DEF LogsAnswered
  <2>2. ASSUME \A w \in Removers : at'[w] = "removed" => log[r] < plan[w].pivot
        PROVE  Answered(r)
    BY <2>2 DEF LogsAnswered
  <2> QED BY <1>1, <2>1, <2>2
<1>3. AboutToAnswer'
  <2> SUFFICES ASSUME NEW r \in Runs, at[r] = "wrote"
               PROVE  question[r] <= clock' /\ \E row \in Typed' : row.at = question[r]
    BY DEF AboutToAnswer, Answered
  <2>1. question[r] \in Nat /\ question[r] <= clock
    BY DEF TypeOK, AboutToAnswer
  <2> QED BY <1>0, <1>1, <2>1 DEF AboutToAnswer
<1>4. Taking'
  <2> SUFFICES ASSUME NEW w \in Removers, at[w] \in {"listed", "removed"}
               PROVE  /\ plan[w].pivot \in 1..clock'
                      /\ \A i \in plan[w].ids : plan[w].pivot <= i /\ (w \in Retries => i # plan[w].pivot)
                      /\ w \in Retries => \E row \in Typed' : row.at = plan[w].pivot
    BY DEF Taking
  <2>1. plan[w].pivot \in 1..clock'
    BY <1>0 DEF Taking
  <2> QED BY <2>1 DEF Taking
<1> QED BY <1>2, <1>3, <1>4

\* The message of a new row, and those there were.
LEMMA TypedGrows ==
  ASSUME rows \subseteq rows'
  PROVE  Typed \subseteq Typed'
BY DEF Typed, Visible

LEMMA DatedRow ==
  ASSUME TypeOK, RowsDated, NEW r, NEW kind, rows' = rows \cup {Row(r, kind)}
  PROVE  RowsDated'
BY DEF RowsDated, Row, TypeOK

\* Every row is dated, whatever is stamped or erased.
LEMMA DatedStep ==
  ASSUME ConversationAssumption, TypeOK, RowsDated, [Next]_vars
  PROVE  RowsDated'
<1>1. CASE rows' \subseteq rows
  BY <1>1 DEF RowsDated
<1>2. ASSUME NEW r \in Requests, RequestStep(r) \/ Throw(r) \/ WriteReply(r) \/ EndRun(r)
      PROVE  RowsDated'
  <2>1. CASE InsertTyped(r) \/ WriteReply(r) \/ OpenSummary(r)
    BY <2>1, DatedRow DEF InsertTyped, WriteReply, OpenSummary
  <2>2. CASE RemoveSuffix(r)
    <3> DEFINE taken == {row \in rows : row.at \in plan[r].ids}
    <3>0. \/ rows' = rows \ taken
          \/ rows' = (rows \ taken) \cup {[row EXCEPT !.stamped = TRUE] : row \in taken}
      BY <2>2 DEF RemoveSuffix
    <3>1. \A row \in rows' : (row \in rows) \/ \E old \in rows : row = [old EXCEPT !.stamped = TRUE]
      BY <3>0
    <3>2. \A old \in rows : [old EXCEPT !.stamped = TRUE].at = old.at
      BY DEF TypeOK, Rows
    <3> QED BY <3>1, <3>2 DEF RowsDated
  <2>3. CASE \/ Authorize(r) \/ Claim(r) \/ OpenRun(r) \/ LookForRun(r) \/ ListSuffix(r) \/ DropLogs(r)
             \/ EndRewind(r) \/ RegisterCompaction(r) \/ Throw(r) \/ EndRun(r)
    BY <1>1, <2>3 DEF Authorize, Claim, OpenRun, LookForRun, ListSuffix, DropLogs, EndRewind,
      RegisterCompaction, Throw, EndRun
  <2> QED BY <1>2, <2>1, <2>2, <2>3 DEF RequestStep
<1>3. CASE \E k \in Spawners : KidStep(k)
  BY <1>1, <1>3 DEF KidStep, SpawnKid, StartKid, KidWrites, EndKid
<1>4. CASE \E d \in Jobs : JobStep(d)
  BY <1>1, <1>4 DEF JobStep, Permit, Retain, Purge, Erase, AbortRuns, RunTimeout, FindKids,
    WaitKids, SecondPass, DeleteLogs, FinalPass
<1>5. CASE SetHold \/ SetKeep \/ Restore \/ SweepOrphans \/ Restart \/ UNCHANGED vars
  BY <1>1, <1>5 DEF SetHold, SetKeep, Restore, SweepOrphans, Restart, vars
<1> QED BY <1>2, <1>3, <1>4, <1>5 DEF Next

\* A request that moves on without a word in what a log answers.
LEMMA MovesOn ==
  ASSUME TypeOK, LogsAnswered, AboutToAnswer, Taking, NEW r \in Requests,
         Typed \subseteq Typed', clock' \in Nat, clock <= clock', UNCHANGED <<log, question, plan>>,
         NEW place \in RequestPlaces \ {"wrote", "listed", "removed", "lost"}, Move(r, place),
         at[r] # "removed",
         at[r] \in {"running", "ended", "lost"} => place \in {"running", "ended", "lost"}
  PROVE  LogsAnswered' /\ AboutToAnswer' /\ Taking'
<1>1. \A q \in Requests : at'[q] = IF q = r THEN place ELSE at[q]
  BY DEF Move, TypeOK
<1>2. Removers \subseteq Requests /\ Runs \subseteq Requests
  BY DEF Removers, Requests, Claimers, Runs
<1> QED BY <1>1, <1>2, QuietStep

\* The run that is about to answer has its log begin after its message.
LEMMA OpenRunAnswers ==
  ASSUME TypeOK, LogsAnswered, AboutToAnswer, Taking, OneHolder, NEW r \in Requests, OpenRun(r)
  PROVE  LogsAnswered' /\ AboutToAnswer' /\ Taking'
<1>1. /\ \A q \in Requests : at'[q] = IF q = r THEN "running" ELSE at[q]
      /\ \A q \in Runs : log'[q] = IF q = r THEN clock ELSE log[q]
      /\ r \in Runs /\ at[r] = "wrote" /\ UNCHANGED <<rows, clock, question, plan>>
  BY DEF OpenRun, Move, TypeOK, Requests, Claimers
<1>2. Removers \subseteq Requests /\ Runs \subseteq Requests
  BY DEF Removers, Requests, Claimers, Runs
<1>3. Typed' = Typed
  BY <1>1 DEF Typed, Visible
<1>4. AboutToAnswer' /\ Taking'
  BY <1>1, <1>2, <1>3 DEF AboutToAnswer, Taking, Answered
<1>5. LogsAnswered'
  <2> SUFFICES ASSUME NEW q \in Runs, log'[q] > 0
               PROVE  /\ at'[q] \in {"running", "ended", "lost"}
                      /\ question[q] <= log'[q]
                      /\ (\A w \in Removers : at'[w] = "removed" => log'[q] < plan[w].pivot)
                         => Answered(q)
    BY <1>1, <1>3 DEF LogsAnswered, Answered
  <2>1. CASE q = r
    BY <1>1, <2>1 DEF AboutToAnswer
  <2>2. CASE q # r
    <3>1. \A w \in Removers : at'[w] = "removed" <=> at[w] = "removed"
      BY <1>1, <1>2
    <3> QED BY <1>1, <1>2, <2>2, <3>1 DEF LogsAnswered
  <2> QED BY <2>1, <2>2
<1> QED BY <1>4, <1>5

\* A send's message is there before its run.
LEMMA InsertTypedAnswers ==
  ASSUME TypeOK, LogsAnswered, AboutToAnswer, Taking, NEW r \in Requests, InsertTyped(r)
  PROVE  LogsAnswered' /\ AboutToAnswer' /\ Taking'
<1>1. /\ \A q \in Requests : at'[q] = IF q = r THEN "wrote" ELSE at[q]
      /\ \A q \in Runs : question'[q] = IF q = r THEN clock + 1 ELSE question[q]
      /\ r \in Runs /\ at[r] = "claimed" /\ UNCHANGED <<log, plan>>
      /\ clock \in Nat /\ clock' = clock + 1
      /\ rows' = rows \cup {Row(r, "typed")}
  BY DEF InsertTyped, Move, TypeOK, Runs
<1>2. Removers \subseteq Requests /\ Runs \subseteq Requests
  BY DEF Removers, Requests, Claimers, Runs
<1>3. Typed \subseteq Typed'
  BY <1>1, TypedGrows
<1>4. Row(r, "typed") \in Typed' /\ Row(r, "typed").at = clock + 1
  BY <1>1 DEF Typed, Visible, Row
<1>5. LogsAnswered'
  <2> SUFFICES ASSUME NEW q \in Runs, log[q] > 0
               PROVE  /\ at'[q] \in {"running", "ended", "lost"}
                      /\ question'[q] <= log[q]
                      /\ (\A w \in Removers : at'[w] = "removed" => log[q] < plan[w].pivot)
                         => \E row \in Typed' : row.at = question'[q]
    BY <1>1 DEF LogsAnswered, Answered
  <2>1. q # r /\ question'[q] = question[q] /\ at'[q] = at[q]
    BY <1>1, <1>2 DEF LogsAnswered
  <2>2. \A w \in Removers : at'[w] = "removed" <=> at[w] = "removed"
    BY <1>1, <1>2
  <2> QED BY <1>3, <2>1, <2>2 DEF LogsAnswered, Answered
<1>6. AboutToAnswer'
  <2> SUFFICES ASSUME NEW q \in Runs, at'[q] = "wrote"
               PROVE  question'[q] <= clock' /\ \E row \in Typed' : row.at = question'[q]
    BY DEF AboutToAnswer, Answered
  <2>1. CASE q = r
    BY <1>1, <1>4, <2>1
  <2>2. CASE q # r
    <3>1. at[q] = "wrote" /\ question'[q] = question[q] /\ question[q] \in Nat
      BY <1>1, <1>2, <2>2 DEF TypeOK
    <3> QED BY <1>1, <1>3, <3>1 DEF AboutToAnswer, Answered
  <2> QED BY <2>1, <2>2
<1>7. Taking'
  <2> SUFFICES ASSUME NEW w \in Removers, at'[w] \in {"listed", "removed"}
               PROVE  /\ plan[w].pivot \in 1..clock'
                      /\ \A i \in plan[w].ids : plan[w].pivot <= i /\ (w \in Retries => i # plan[w].pivot)
                      /\ w \in Retries => \E row \in Typed' : row.at = plan[w].pivot
    BY <1>1 DEF Taking
  <2>1. at[w] = at'[w]
    BY <1>1, <1>2
  <2> QED BY <1>1, <1>3, <2>1 DEF Taking
<1> QED BY <1>5, <1>6, <1>7

\* A removal picks a message of before, and what follows it.
LEMMA ListSuffixAnswers ==
  ASSUME ConversationAssumption, TypeOK, RowsDated, LogsAnswered, AboutToAnswer, Taking,
         NEW r \in Requests, ListSuffix(r)
  PROVE  LogsAnswered' /\ AboutToAnswer' /\ Taking'
<1>1. /\ r \in Removers /\ at[r] = "claimed"
      /\ \A q \in Requests : at'[q] = IF q = r THEN "listed" ELSE at[q]
      /\ UNCHANGED <<rows, clock, log, question>>
      /\ \A w \in Removers : w # r => plan'[w] = plan[w]
  BY DEF ListSuffix, Move, TypeOK, Removers
<1>2. Removers \subseteq Requests /\ Runs \subseteq Requests
  BY DEF Removers, Requests, Claimers, Runs
<1>3. Typed' = Typed
  BY <1>1 DEF Typed, Visible
<1>4. AboutToAnswer'
  BY <1>1, <1>2, <1>3 DEF AboutToAnswer, Answered
<1>5. LogsAnswered'
  <2> SUFFICES ASSUME NEW q \in Runs, log[q] > 0
               PROVE  /\ at'[q] \in {"running", "ended", "lost"}
                      /\ question[q] <= log[q]
                      /\ (\A w \in Removers : at'[w] = "removed" => log[q] < plan'[w].pivot)
                         => Answered(q)
    BY <1>1, <1>3 DEF LogsAnswered, Answered
  <2>1. q # r /\ at'[q] = at[q]
    BY <1>1, <1>2 DEF LogsAnswered
  <2>2. \A w \in Removers : at[w] = "removed" => at'[w] = "removed" /\ plan'[w] = plan[w]
    BY <1>1, <1>2
  <2> QED BY <2>1, <2>2 DEF LogsAnswered
<1>6. Taking'
  <2> SUFFICES ASSUME NEW w \in Removers, at'[w] \in {"listed", "removed"}
               PROVE  /\ plan'[w].pivot \in 1..clock
                      /\ \A i \in plan'[w].ids :
                           plan'[w].pivot <= i /\ (w \in Retries => i # plan'[w].pivot)
                      /\ w \in Retries => \E row \in Typed : row.at = plan'[w].pivot
    BY <1>1, <1>3 DEF Taking
  <2>1. CASE w = r
    <3>1. PICK p \in Pivots(r) : plan'[r].pivot = p /\ plan'[r].ids = Suffix(r, p)
      BY <1>1 DEF ListSuffix, TypeOK, Removers
    <3>2. PICK row \in Typed : row.at = p
      BY DEF Pivots
    <3>3. /\ \A v \in rows : v.at \in Nat /\ v.at > 0 /\ v.at <= clock
          /\ clock \in Nat
      BY DEF TypeOK, Rows, RowsDated
    <3>4. p \in 1..clock
      BY <3>2, <3>3 DEF Typed, Visible
    <3>5. \A i \in Suffix(r, p) : p <= i /\ (r \in Retries => i # p)
      <4>1. r \in Retries => r \notin Rewinds
        BY DEF ConversationAssumption, Runs
      <4> QED BY <3>3, <3>4, <4>1 DEF Suffix, Visible
    <3> QED BY <2>1, <3>1, <3>2, <3>4, <3>5
  <2>2. CASE w # r
    BY <1>1, <1>2, <2>2 DEF Taking
  <2> QED BY <2>1, <2>2
<1> QED BY <1>4, <1>5, <1>6

\* What is taken lies at or after the pivot: only logs of after it lose their message.
LEMMA RemoveSuffixAnswers ==
  ASSUME TypeOK, OnlyRemoversRemove, LogsAnswered, AboutToAnswer, Taking, OneHolder,
         NEW r \in Requests, RemoveSuffix(r)
  PROVE  LogsAnswered' /\ AboutToAnswer' /\ Taking'
<1>0. Removers \subseteq Requests /\ Runs \subseteq Requests
  BY DEF Removers, Requests, Claimers, Runs
<1>1. /\ at[r] = "listed"
      /\ \A q \in Requests : at'[q] = IF q = r THEN "removed" ELSE at[q]
      /\ UNCHANGED <<clock, log, question, plan>>
  BY DEF RemoveSuffix, Move, TypeOK
<1>2. \A q \in Requests : q # r => ~Holding(q)
  BY <1>1 DEF OneHolder, Holding
<1>3. \A row \in Typed : row.at \notin plan[r].ids => row \in Typed'
  BY DEF RemoveSuffix, Typed, Visible
<1>4. AboutToAnswer'
  <2>1. \A q \in Runs : at'[q] # "wrote"
    BY <1>0, <1>1, <1>2 DEF Holding
  <2> QED BY <2>1 DEF AboutToAnswer
<1>5. r \in Removers
  BY <1>1 DEF OnlyRemoversRemove
<1>6. LogsAnswered'
  <2> SUFFICES ASSUME NEW q \in Runs, log[q] > 0
               PROVE  /\ at'[q] \in {"running", "ended", "lost"}
                      /\ question[q] <= log[q]
                      /\ (\A w \in Removers : at'[w] = "removed" => log[q] < plan[w].pivot)
                         => \E row \in Typed' : row.at = question[q]
    BY <1>1 DEF LogsAnswered, Answered
  <2>1. q # r /\ at'[q] = at[q]
    BY <1>0, <1>1 DEF LogsAnswered
  <2>2. \A w \in Removers : at[w] # "removed"
    BY <1>0, <1>1, <1>2 DEF Holding
  <2>3. PICK row \in Typed : row.at = question[q]
    BY <2>2 DEF LogsAnswered, Answered
  <2>4. ASSUME log[q] < plan[r].pivot PROVE row \in Typed'
    <3>1. log[q] \in Nat /\ question[q] \in Nat /\ question[q] <= log[q]
      BY <1>0 DEF LogsAnswered, TypeOK
    <3>2. plan[r].pivot \in Nat /\ plan[r].ids \subseteq Nat
      BY <1>5 DEF TypeOK, Plans, Removers
    <3>3. \A i \in plan[r].ids : plan[r].pivot <= i
      BY <1>1, <1>5 DEF Taking
    <3>4. question[q] \notin plan[r].ids
      BY <2>4, <3>1, <3>2, <3>3
    <3> QED BY <1>3, <2>3, <3>4
  <2>5. at'[r] = "removed"
    BY <1>1
  <2> QED BY <1>5, <2>1, <2>3, <2>4, <2>5 DEF LogsAnswered
<1>7. Taking'
  <2> SUFFICES ASSUME NEW w \in Removers, at'[w] \in {"listed", "removed"}
               PROVE  /\ plan[w].pivot \in 1..clock
                      /\ \A i \in plan[w].ids : plan[w].pivot <= i /\ (w \in Retries => i # plan[w].pivot)
                      /\ w \in Retries => \E row \in Typed' : row.at = plan[w].pivot
    BY <1>1 DEF Taking
  <2>1. w = r
    BY <1>0, <1>1, <1>2 DEF Holding
  <2> QED BY <1>1, <1>3, <1>5, <2>1 DEF Taking
<1> QED BY <1>4, <1>6, <1>7

\* The logs begun at or after the pivot go, and a retry takes up its message.
LEMMA DropLogsAnswers ==
  ASSUME ConversationAssumption, TypeOK, OnlyRemoversRemove, LogsAnswered, AboutToAnswer, Taking,
         OneHolder, NEW r \in Requests, DropLogs(r)
  PROVE  LogsAnswered' /\ AboutToAnswer' /\ Taking'
<1>0. Removers \subseteq Requests /\ Runs \subseteq Requests /\ Retries \subseteq Runs
  BY DEF Removers, Requests, Claimers, Runs
<1>1. /\ at[r] = "removed" /\ UNCHANGED <<rows, clock, plan>>
      /\ \A q \in Requests : log'[q] = IF log[q] >= plan[r].pivot THEN 0 ELSE log[q]
      /\ \A q \in Requests : q # r => at'[q] = at[q]
      /\ IF r \in Retries THEN at'[r] = "wrote" ELSE at'[r] = "dropped"
      /\ \A q \in Runs : question'[q] = IF q = r /\ r \in Retries THEN plan[r].pivot ELSE question[q]
  BY <1>0 DEF DropLogs, RemovedLogs, Move, TypeOK
<1>2. r \in Removers
  BY <1>1 DEF OnlyRemoversRemove
<1>3. \A q \in Requests : q # r => ~Holding(q)
  BY <1>1 DEF OneHolder, Holding
<1>4. Typed' = Typed
  BY <1>1 DEF Typed, Visible
<1>5. plan[r].pivot \in 1..clock /\ clock \in Nat
  BY <1>1, <1>2 DEF Taking, TypeOK
<1>6. LogsAnswered'
  <2> SUFFICES ASSUME NEW q \in Runs, log'[q] > 0
               PROVE  /\ at'[q] \in {"running", "ended", "lost"}
                      /\ question'[q] <= log'[q]
                      /\ Answered(q)'
    BY DEF LogsAnswered
  <2>1. log[q] \in Nat /\ log[q] < plan[r].pivot /\ log'[q] = log[q] /\ log[q] > 0
    BY <1>0, <1>1, <1>5 DEF TypeOK
  <2>2. at[q] \in {"running", "ended", "lost"} /\ question[q] <= log[q]
    BY <2>1 DEF LogsAnswered
  <2>3. q # r /\ at'[q] = at[q] /\ question'[q] = question[q]
    BY <1>0, <1>1, <2>2
  <2>4. \A w \in Removers : at[w] = "removed" => w = r
    BY <1>0, <1>3 DEF Holding
  <2>5. \E row \in Typed : row.at = question[q]
    BY <2>1, <2>4 DEF LogsAnswered, Answered
  <2> QED BY <1>4, <2>1, <2>2, <2>3, <2>5 DEF Answered
<1>7. AboutToAnswer'
  <2> SUFFICES ASSUME NEW q \in Runs, at'[q] = "wrote"
               PROVE  question'[q] <= clock /\ \E row \in Typed : row.at = question'[q]
    BY <1>1, <1>4 DEF AboutToAnswer, Answered
  <2>1. q = r /\ r \in Retries
    BY <1>0, <1>1, <1>3 DEF Holding
  <2> QED BY <1>0, <1>1, <1>5, <2>1 DEF Taking, Removers
<1>8. Taking'
  <2>1. \A w \in Removers : at'[w] \notin {"listed", "removed"}
    BY <1>0, <1>1, <1>3 DEF Holding
  <2> QED BY <2>1 DEF Taking
<1> QED BY <1>6, <1>7, <1>8

\* A restart leaves no removal half done that is not counted as cut in two.
LEMMA RestartAnswers ==
  ASSUME TypeOK, LogsAnswered, AboutToAnswer, Taking, Restart, ~RemovalCut'
  PROVE  LogsAnswered' /\ AboutToAnswer' /\ Taking'
<1>1. /\ UNCHANGED <<rows, clock, log, question, plan>> /\ clock \in Nat
      /\ \A r \in Requests :
           at'[r] = IF at[r] \in {"absent", "idle", "refused", "ended"} THEN at[r] ELSE "lost"
  BY DEF Restart, TypeOK
<1>2. Removers \subseteq Requests /\ Runs \subseteq Requests
  BY DEF Removers, Requests, Claimers, Runs
<1>3. Typed' = Typed
  BY <1>1 DEF Typed, Visible
<1>4. \A w \in Removers : at[w] # "removed"
  <2> SUFFICES ASSUME NEW w \in Removers, at[w] = "removed" PROVE FALSE
    OBVIOUS
  <2>1. at'[w] = "lost" /\ plan'[w].pivot \in 1..clock
    BY <1>1, <1>2 DEF Taking
  <2> QED BY <1>1, <2>1 DEF RemovalCut
<1>5. \A r \in Runs : at[r] \in {"running", "ended", "lost"} => at'[r] \in {"running", "ended", "lost"}
  BY <1>1, <1>2
<1>6. \A r \in Requests : at'[r] \notin {"wrote", "listed", "removed"}
  BY <1>1
<1>7. clock' \in Nat /\ clock <= clock' /\ Typed \subseteq Typed'
  BY <1>1, <1>3
<1> QED BY <1>1, <1>2, <1>4, <1>5, <1>6, <1>7, QuietStep

\* Of the requests' steps.
LEMMA RequestAnswers ==
  ASSUME ConversationAssumption, TypeOK, RowsDated, OnlyRemoversRemove, OneHolder, ~Unclaimed',
         LogsAnswered, AboutToAnswer, Taking,
         NEW r \in Requests, RequestStep(r) \/ Throw(r) \/ WriteReply(r) \/ EndRun(r)
  PROVE  LogsAnswered' /\ AboutToAnswer' /\ Taking'
<1> USE DEF RequestPlaces
<1>0. clock \in Nat
  BY DEF TypeOK
<1>1. rows' = rows => Typed \subseteq Typed'
  BY TypedGrows
<1>2. CASE Authorize(r)
  BY <1>0, <1>1, <1>2, MovesOn DEF Authorize
<1>3. CASE Claim(r)
  BY <1>0, <1>1, <1>3, MovesOn DEF Claim
<1>4. CASE LookForRun(r)
  BY <1>0, <1>1, <1>4, MovesOn DEF LookForRun
<1>5. CASE EndRewind(r)
  BY <1>0, <1>1, <1>5, MovesOn DEF EndRewind
<1>6. CASE Throw(r)
  BY <1>0, <1>1, <1>6, MovesOn DEF Throw
<1>7. CASE EndRun(r)
  BY <1>0, <1>1, <1>7, MovesOn DEF EndRun
<1>8. CASE WriteReply(r)
  BY <1>0, <1>8, TypedGrows, QuietStep DEF WriteReply
<1>9. CASE OpenSummary(r) \/ RegisterCompaction(r)
  <2>1. r \in Compactions
    BY <1>9 DEF OpenSummary, RegisterCompaction, TypeOK, Requests
  <2>2. at'[r] \in {"opened", "ended", "running"}
    BY <1>9 DEF OpenSummary, RegisterCompaction, Move, TypeOK
  <2> QED BY <2>1, <2>2 DEF Unclaimed
<1> QED BY <1>2, <1>3, <1>4, <1>5, <1>6, <1>7, <1>8, <1>9, OpenRunAnswers, InsertTypedAnswers,
           ListSuffixAnswers, RemoveSuffixAnswers, DropLogsAnswers DEF RequestStep

\* Of everyone else's.
LEMMA OtherAnswers ==
  ASSUME TypeOK, LogsAnswered, AboutToAnswer, Taking, conv' # "gone",
         \/ \E k \in Spawners : KidStep(k)
         \/ \E d \in Jobs : JobStep(d)
         \/ SetHold \/ SetKeep \/ Restore \/ SweepOrphans \/ UNCHANGED vars
  PROVE  LogsAnswered' /\ AboutToAnswer' /\ Taking'
<1>0. clock \in Nat
  BY DEF TypeOK
<1>1. ASSUME UNCHANGED <<at, log, question, plan, rows>>, clock' \in {clock, clock + 1}
      PROVE  LogsAnswered' /\ AboutToAnswer' /\ Taking'
  <2>1. Typed \subseteq Typed' /\ clock' \in Nat /\ clock <= clock'
    BY <1>0, <1>1, TypedGrows
  <2> QED BY <1>1, <2>1, QuietStep
<1>2. CASE \E k \in Spawners : KidStep(k)
  BY <1>1, <1>2 DEF KidStep, SpawnKid, StartKid, KidWrites, EndKid, requestVars
<1>3. ASSUME NEW d \in Jobs, JobStep(d) PROVE LogsAnswered' /\ AboutToAnswer' /\ Taking'
  <2>1. CASE DeleteLogs(d)
    <3>1. /\ \A r \in Requests : log'[r] = 0
          /\ UNCHANGED <<at, question, plan, rows, clock>>
      BY <2>1 DEF DeleteLogs
    <3>2. Typed' = Typed /\ Runs \subseteq Requests
      BY <3>1 DEF Typed, Visible, Requests, Claimers
    <3> QED BY <3>1, <3>2 DEF LogsAnswered, AboutToAnswer, Taking, Answered
  <2>2. CASE Permit(d) \/ Retain(d) \/ AbortRuns(d) \/ RunTimeout(d) \/ FindKids(d) \/ WaitKids(d)
    BY <1>1, <2>2 DEF Permit, Retain, AbortRuns, RunTimeout, FindKids, WaitKids, requestVars
  <2>3. CASE Purge(d) \/ SecondPass(d) \/ FinalPass(d)
    BY <1>1, <2>3 DEF Purge, SecondPass, FinalPass, Erase, requestVars
  <2> QED BY <1>3, <2>1, <2>2, <2>3 DEF JobStep
<1>4. CASE SetHold \/ SetKeep \/ Restore \/ UNCHANGED vars
  BY <1>1, <1>4 DEF SetHold, SetKeep, Restore, vars, requestVars
<1>5. CASE SweepOrphans
  BY <1>1, <1>5 DEF SweepOrphans, requestVars
<1> QED BY <1>2, <1>3, <1>4, <1>5

\* Nobody but a retry or a rewind comes to a place of a removal.
LEMMA RemoversStep ==
  ASSUME TypeOK, OnlyRemoversRemove, [Next]_vars
  PROVE  OnlyRemoversRemove'
<1>1. ASSUME UNCHANGED at PROVE OnlyRemoversRemove'
  BY <1>1 DEF OnlyRemoversRemove
<1>2. ASSUME NEW r \in Requests, RequestStep(r) \/ Throw(r) \/ WriteReply(r) \/ EndRun(r)
      PROVE  OnlyRemoversRemove'
  <2>1. ASSUME NEW place, Move(r, place), place \in {"listed", "removed"} => r \in Removers
        PROVE  OnlyRemoversRemove'
    BY <2>1 DEF OnlyRemoversRemove, Move, TypeOK
  <2>2. CASE Authorize(r) \/ Claim(r) \/ InsertTyped(r) \/ OpenRun(r) \/ LookForRun(r)
    BY <2>1, <2>2 DEF Authorize, Claim, InsertTyped, OpenRun, LookForRun
  <2>3. CASE ListSuffix(r) \/ RemoveSuffix(r)
    BY <2>1, <2>3 DEF ListSuffix, RemoveSuffix, Removers, OnlyRemoversRemove
  <2>4. CASE DropLogs(r) \/ EndRewind(r) \/ OpenSummary(r) \/ RegisterCompaction(r)
    BY <2>1, <2>4 DEF DropLogs, EndRewind, OpenSummary, RegisterCompaction
  <2>5. CASE Throw(r) \/ EndRun(r)
    BY <2>1, <2>5 DEF Throw, EndRun
  <2>6. CASE WriteReply(r)
    BY <1>1, <2>6 DEF WriteReply
  <2> QED BY <1>2, <2>2, <2>3, <2>4, <2>5, <2>6 DEF RequestStep
<1>3. CASE Restart
  BY <1>3 DEF Restart, OnlyRemoversRemove
<1>4. CASE \E k \in Spawners : KidStep(k)
  BY <1>1, <1>4 DEF KidStep, SpawnKid, StartKid, KidWrites, EndKid, requestVars
<1>5. CASE \E d \in Jobs : JobStep(d)
  BY <1>1, <1>5 DEF JobStep, Permit, Retain, Purge, AbortRuns, RunTimeout, FindKids, WaitKids,
                    SecondPass, DeleteLogs, FinalPass, requestVars
<1>6. CASE SetHold \/ SetKeep \/ Restore \/ SweepOrphans \/ UNCHANGED vars
  BY <1>1, <1>6 DEF SetHold, SetKeep, Restore, SweepOrphans, vars, requestVars
<1> QED BY <1>2, <1>3, <1>4, <1>5, <1>6 DEF Next

LEMMA LogsStep ==
  ASSUME ConversationAssumption, TypeOK, ClaimsExclude, LogsInv, [Next]_vars
  PROVE  LogsInv'
<1>1. RowsDated'
  BY DatedStep DEF LogsInv
<1>2. OnlyRemoversRemove'
  BY RemoversStep DEF LogsInv
<1>3. ASSUME Settled' PROVE LogsAnswered' /\ AboutToAnswer' /\ Taking'
  <2>1. Settled /\ conv' # "gone" /\ ~Unclaimed' /\ ~RemovalCut'
    BY <1>3, SettledBefore DEF Settled
  <2>2. /\ RowsDated /\ OnlyRemoversRemove /\ OneHolder
        /\ LogsAnswered /\ AboutToAnswer /\ Taking
    BY <2>1 DEF LogsInv, Settled, ClaimsExclude
  <2> QED BY <2>1, <2>2, RequestAnswers, OtherAnswers, RestartAnswers DEF Next
<1> QED BY <1>1, <1>2, <1>3 DEF LogsInv

LEMMA LogsInvariant == Spec => []LogsInv
<1>1. Init => LogsInv
  <2> SUFFICES ASSUME Init PROVE LogsInv
    OBVIOUS
  <2>1. at \in [Requests -> {"idle", "absent"}]
    BY DEF Init
  <2>2. Removers \subseteq Requests /\ Runs \subseteq Requests
    BY DEF Removers, Requests, Claimers, Runs
  <2>3. rows = {} /\ \A r \in Runs : log[r] = 0
    BY <2>2 DEF Init
  <2> QED BY <2>1, <2>2, <2>3
          DEF LogsInv, RowsDated, OnlyRemoversRemove, LogsAnswered, AboutToAnswer, Taking
<1>2. TypeOK /\ ClaimsExclude /\ LogsInv /\ [Next]_vars => LogsInv'
  BY LogsStep, ConversationAssumption
<1> QED BY <1>1, <1>2, ConversationTypes, OneHolderAtATime, PTL DEF Spec

\* Every log of a live conversation answers a message that is still in it
\* (LogsAnswerVisible), whoever sent, retried, rewound or deleted.
THEOREM LogsAnswerMessages == Spec => []LogsAnswerVisible
<1>1. LogsInv => LogsAnswerVisible
  <2> SUFFICES ASSUME LogsInv, conv = "live", ~Unclaimed, ~Removing, NEW r \in Runs, log[r] > 0
               PROVE  \E row \in Typed : row.at = question[r]
    BY DEF LogsAnswerVisible
  <2>1. Settled
    BY DEF Settled, RemovalCut, Removing, Removers
  <2>2. \A w \in Removers : at[w] # "removed"
    BY <2>1 DEF LogsInv, Taking, Removing, Removers
  <2> QED BY <2>1, <2>2 DEF LogsInv, LogsAnswered, Answered
<1> QED BY <1>1, LogsInvariant, PTL

-----------------------------------------------------------------------------
(* What a purge waits for. *)

\* A run goes on while its sub-agent does; a removal's pivot is a row's.
KidPlaces ==
  /\ \A k \in Spawners : kid[k].at \in {"inserted", "running"} => at[k] = "running"
  /\ \A w \in Removers : at[w] \in {"listed", "removed"} => plan[w].pivot > 0

\* A deletion purges from its commit on, and only a purge makes a conversation
\* go; the deletions that a restart lost are remembered as lost.
PurgesKnown ==
  /\ \A d \in Jobs : job[d].at \in {"absent", "idle", "allowed"} => ~job[d].purge
  /\ conv = "gone" => \E e \in Jobs : job[e].purge \/ job[e].at = "lost"

\* A deletion waits for the run it stopped, and goes on when that one is over.
Waited == {"woken", "found", "settled", "erased", "cleared", "done"}
SeenToEnd(d) == job[d].at \in Waited /\ job[d].ended /\ job[d].stopped \in Requests

WaitsForIt ==
  \A d \in Jobs : /\ job[d].at = "waiting" => slot = job[d].stopped /\ slot # NoOne
                  /\ SeenToEnd(d) => at[job[d].stopped] \in {"refused", "ended"}

\* How a request comes to another place, and that nobody leaves the last ones.
LEMMA RequestMoves ==
  ASSUME TypeOK, NEW r \in Requests, RequestStep(r) \/ Throw(r) \/ WriteReply(r) \/ EndRun(r)
  PROVE  /\ at[r] \notin {"refused", "ended", "lost"} \/ UNCHANGED at
         /\ \A q \in Requests : q # r => at'[q] = at[q]
         /\ at' \in [Requests -> RequestPlaces]
<1>0. at \in [Requests -> RequestPlaces]
  BY DEF TypeOK
<1>1. ASSUME NEW place \in RequestPlaces, Move(r, place), at[r] \notin {"refused", "ended", "lost"}
      PROVE  /\ at[r] \notin {"refused", "ended", "lost"} \/ UNCHANGED at
             /\ \A q \in Requests : q # r => at'[q] = at[q]
             /\ at' \in [Requests -> RequestPlaces]
  BY <1>0, <1>1 DEF Move
<1> USE DEF RequestPlaces
<1>2. CASE Authorize(r) \/ Claim(r) \/ InsertTyped(r) \/ OpenRun(r) \/ LookForRun(r)
  BY <1>1, <1>2 DEF Authorize, Claim, InsertTyped, OpenRun, LookForRun
<1>3. CASE ListSuffix(r) \/ RemoveSuffix(r) \/ DropLogs(r) \/ EndRewind(r)
  BY <1>1, <1>3 DEF ListSuffix, RemoveSuffix, DropLogs, EndRewind
<1>4. CASE OpenSummary(r) \/ RegisterCompaction(r)
  BY <1>1, <1>4 DEF OpenSummary, RegisterCompaction
<1>5. CASE Throw(r) \/ EndRun(r)
  BY <1>1, <1>5 DEF Throw, EndRun
<1>6. CASE WriteReply(r)
  BY <1>0, <1>6 DEF WriteReply
<1> QED BY <1>2, <1>3, <1>4, <1>5, <1>6 DEF RequestStep

\* Who moves nobody.
LEMMA OthersMoveNobody ==
  ASSUME \/ \E k \in Spawners : KidStep(k)
         \/ \E d \in Jobs : JobStep(d)
         \/ SetHold \/ SetKeep \/ Restore \/ SweepOrphans \/ UNCHANGED vars
  PROVE  UNCHANGED <<at, slot, plan>>
<1>1. CASE \E k \in Spawners : KidStep(k)
  BY <1>1 DEF KidStep, SpawnKid, StartKid, KidWrites, EndKid, requestVars
<1>2. CASE \E d \in Jobs : JobStep(d)
  BY <1>2 DEF JobStep, Permit, Retain, Purge, AbortRuns, RunTimeout, FindKids, WaitKids,
              SecondPass, DeleteLogs, FinalPass, requestVars
<1>3. CASE SetHold \/ SetKeep \/ Restore \/ SweepOrphans \/ UNCHANGED vars
  BY <1>3 DEF SetHold, SetKeep, Restore, SweepOrphans, vars, requestVars
<1> QED BY <1>1, <1>2, <1>3

\* A request that is over stays where it is.
LEMMA OverStays ==
  ASSUME TypeOK, [Next]_vars, NEW r \in Requests, at[r] \in {"refused", "ended"}
  PROVE  at'[r] = at[r]
<1>1. CASE \E q \in Requests : RequestStep(q) \/ Throw(q) \/ WriteReply(q) \/ EndRun(q)
  BY <1>1, RequestMoves
<1>2. CASE Restart
  BY <1>2 DEF Restart
<1> QED BY <1>1, <1>2, OthersMoveNobody DEF Next

\* Only a deletion's own steps take it on, but for the wake-up and a restart.
LEMMA OthersLeaveJob ==
  ASSUME TypeOK, [Next]_vars, NEW d \in Jobs, ~JobStep(d)
  PROVE  \/ job'[d] = job[d]
         \/ /\ job[d].at = "waiting" /\ job'[d] = [job[d] EXCEPT !.at = "woken"]
            /\ slot \in Requests => at'[slot] \in {"refused", "ended"}
         \/ /\ Restart /\ job[d].at \notin {"absent", "idle", "done"}
            /\ job'[d] = [NoJob EXCEPT !.at = "lost"]
<1>0. job \in [Jobs -> JobStates] /\ at \in [Requests -> RequestPlaces]
  BY DEF TypeOK
<1>1. ASSUME NEW r \in Requests, Unregister(r), NEW place \in {"refused", "ended"}, Move(r, place)
      PROVE  \/ job'[d] = job[d]
             \/ /\ job[d].at = "waiting" /\ job'[d] = [job[d] EXCEPT !.at = "woken"]
                /\ slot \in Requests => at'[slot] \in {"refused", "ended"}
  <2>1. slot = r => at'[slot] \in {"refused", "ended"}
    BY <1>0, <1>1 DEF Move
  <2> QED BY <1>0, <1>1, <2>1 DEF Unregister, Waiters
<1>2. CASE \E r \in Requests : RequestStep(r) \/ Throw(r) \/ WriteReply(r) \/ EndRun(r)
  <2>1. PICK r \in Requests : RequestStep(r) \/ Throw(r) \/ WriteReply(r) \/ EndRun(r)
    BY <1>2
  <2>2. CASE Throw(r) \/ EndRun(r) \/ EndRewind(r)
    BY <1>1, <2>2 DEF Throw, GivesBack, EndRun, EndRewind
  <2>3. CASE ~(Throw(r) \/ EndRun(r) \/ EndRewind(r))
    BY <2>1, <2>3 DEF RequestStep, Authorize, Claim, InsertTyped, OpenRun, ListSuffix, RemoveSuffix,
      DropLogs, LookForRun, OpenSummary, RegisterCompaction, WriteReply
  <2> QED BY <2>2, <2>3
<1>3. CASE \E k \in Spawners : KidStep(k)
  BY <1>3 DEF KidStep, SpawnKid, StartKid, KidWrites, EndKid
<1>4. ASSUME NEW e \in Jobs, JobStep(e) PROVE job'[d] = job[d]
  <2>1. e # d
    BY <1>4
  <2>2. CASE Permit(e) \/ SecondPass(e) \/ DeleteLogs(e) \/ FinalPass(e)
    BY <1>0, <2>1, <2>2 DEF Permit, SecondPass, DeleteLogs, FinalPass, Step
  <2>3. CASE Retain(e) \/ Purge(e) \/ AbortRuns(e)
    BY <1>0, <2>1, <2>3 DEF Retain, Purge, AbortRuns
  <2>4. CASE RunTimeout(e) \/ FindKids(e) \/ WaitKids(e)
    BY <1>0, <2>1, <2>4 DEF RunTimeout, FindKids, WaitKids
  <2> QED BY <1>4, <2>2, <2>3, <2>4 DEF JobStep
<1>5. CASE SetHold \/ SetKeep \/ Restore \/ SweepOrphans \/ UNCHANGED vars
  BY <1>5 DEF SetHold, SetKeep, Restore, SweepOrphans, vars
<1>6. CASE Restart
  BY <1>6 DEF Restart
<1> QED BY <1>2, <1>3, <1>4, <1>5, <1>6 DEF Next

\* What erasing does to a sub-agent it knows or finds, and to any other.
LEMMA ErasedKids ==
  ASSUME TypeOK, NEW known, Erase(known), NEW k \in Spawners
  PROVE  /\ kid'[k].at = kid[k].at /\ kid'[k].log = kid[k].log
         /\ k \in known \/ kid[k].row # "none" => kid'[k].row = "none" /\ ~kid'[k].texts
         /\ k \notin known /\ kid[k].row = "none" => kid'[k] = kid[k]
<1>1. kid[k] \in KidStates
  BY EachKid
<1>2. kid'[k] = IF k \in known \cup Kids THEN [kid[k] EXCEPT !.row = "none", !.texts = FALSE] ELSE kid[k]
  BY DEF Erase
<1>3. k \in Kids <=> kid[k].row # "none"
  BY DEF Kids
<1> QED BY <1>1, <1>2, <1>3 DEF KidStates

\* What a removal does to the sub-agents it has listed, and to any other.
LEMMA RemovedKids ==
  ASSUME TypeOK, NEW r, RemoveSuffix(r), NEW k \in Spawners
  PROVE  /\ kid'[k].at = kid[k].at /\ kid'[k].log = kid[k].log
         /\ k \notin plan[r].kids => kid'[k] = kid[k]
         /\ kid'[k].texts => kid[k].texts
         /\ kid[k].row = "none" => kid'[k].row = "none"
         /\ kid[k].row # "none" /\ kid'[k].row = "none" => ~kid'[k].texts
<1>1. kid[k] \in KidStates
  BY EachKid
<1>2. \/ kid'[k] = kid[k]
      \/ k \in plan[r].kids /\ kid[k].row # "none" /\ kid'[k] = [kid[k] EXCEPT !.row = "stamped"]
      \/ k \in plan[r].kids /\ kid'[k] = [kid[k] EXCEPT !.row = "none", !.texts = FALSE]
  <2>1. CASE plan[r].keep
    BY <2>1 DEF RemoveSuffix
  <2>2. CASE ~plan[r].keep
    BY <2>2 DEF RemoveSuffix
  <2> QED BY <2>1, <2>2
<1> QED BY <1>1, <1>2 DEF KidStates

LEMMA KidPlacesStep ==
  ASSUME ConversationAssumption, TypeOK, RowsDated, KidPlaces, [Next]_vars
  PROVE  KidPlaces'
<1>0. /\ kid \in [Spawners -> KidStates] /\ at \in [Requests -> RequestPlaces]
      /\ Spawners \subseteq Requests /\ Spawners \subseteq Runs /\ Removers \subseteq Requests
  BY DEF TypeOK, ConversationAssumption, Requests, Claimers, Runs, Removers
<1>1. ASSUME UNCHANGED <<at, plan>>,
             \A k \in Spawners : kid'[k].at \in {"inserted", "running"}
                                 => kid[k].at \in {"inserted", "running"} \/ at[k] = "running"
      PROVE  KidPlaces'
  BY <1>1 DEF KidPlaces
<1>2. ASSUME NEW r \in Requests, RequestStep(r) \/ Throw(r) \/ WriteReply(r) \/ EndRun(r)
      PROVE  KidPlaces'
  <2>1. \A k \in Spawners : kid'[k].at = kid[k].at
    <3>1. CASE RemoveSuffix(r)
      BY <3>1, RemovedKids
    <3>2. CASE DropLogs(r)
      BY <1>0, <3>2 DEF DropLogs, KidStates
    <3>3. CASE ~(RemoveSuffix(r) \/ DropLogs(r))
      BY <1>2, <3>3 DEF RequestStep, Authorize, Claim, InsertTyped, OpenRun, ListSuffix, EndRewind,
        LookForRun, OpenSummary, RegisterCompaction, Throw, WriteReply, EndRun
    <3> QED BY <3>1, <3>2, <3>3
  <2>2. ASSUME NEW k \in Spawners, kid[k].at \in {"inserted", "running"} PROVE at'[k] = "running"
    <3>1. at[k] = "running"
      BY <2>2 DEF KidPlaces
    <3>2. CASE k # r
      BY <1>0, <1>2, <3>1, <3>2, RequestMoves
    <3>3. CASE k = r
      <4>1. k \notin Rewinds /\ k \notin Compactions
        BY <1>0 DEF ConversationAssumption, Claimers
      <4>2. ~EndRun(r)
        BY <2>2, <3>3 DEF EndRun, KidSettled
      <4>3. CASE WriteReply(r)
        BY <3>1, <4>3 DEF WriteReply
      <4> QED BY <1>2, <3>1, <3>3, <4>2, <4>3 DEF RequestStep, Authorize, Claim, InsertTyped, OpenRun,
             ListSuffix, RemoveSuffix, DropLogs, EndRewind, LookForRun, OpenSummary,
             RegisterCompaction, Throw
    <3> QED BY <3>2, <3>3
  <2>3. ASSUME NEW w \in Removers, at'[w] \in {"listed", "removed"} PROVE plan'[w].pivot > 0
    <3>1. CASE ListSuffix(r)
      <4>1. CASE w = r
        <5>1. PICK p \in Pivots(r) : plan'[r].pivot = p
          BY <3>1 DEF ListSuffix, TypeOK
        <5> QED BY <4>1, <5>1 DEF Pivots, Typed, Visible, RowsDated
      <4>2. CASE w # r
        <5>1. plan'[w] = plan[w] /\ at'[w] = at[w]
          BY <1>0, <3>1, <4>2 DEF ListSuffix, Move, TypeOK, Removers
        <5> QED BY <2>3, <5>1 DEF KidPlaces
      <4> QED BY <4>1, <4>2
    <3>2. CASE ~ListSuffix(r)
      <4>1. UNCHANGED plan
        BY <1>2, <3>2 DEF RequestStep, Authorize, Claim, InsertTyped, OpenRun, RemoveSuffix, DropLogs,
          EndRewind, LookForRun, OpenSummary, RegisterCompaction, Throw, WriteReply, EndRun
      <4>2. at[w] \in {"listed", "removed"}
        <5>1. CASE w # r
          BY <1>0, <1>2, <2>3, <5>1, RequestMoves
        <5>2. ASSUME w = r, NEW place, Move(r, place), place \notin {"listed", "removed"} PROVE FALSE
          BY <1>0, <2>3, <5>2 DEF Move
        <5>3. CASE RemoveSuffix(r) \/ WriteReply(r)
          BY <1>0, <2>3, <5>1, <5>3 DEF RemoveSuffix, WriteReply
        <5>4. CASE Authorize(r) \/ Claim(r) \/ InsertTyped(r) \/ OpenRun(r) \/ LookForRun(r)
          BY <5>1, <5>2, <5>4 DEF Authorize, Claim, InsertTyped, OpenRun, LookForRun
        <5>5. CASE DropLogs(r) \/ EndRewind(r) \/ OpenSummary(r) \/ RegisterCompaction(r)
          BY <5>1, <5>2, <5>5 DEF DropLogs, EndRewind, OpenSummary, RegisterCompaction
        <5>6. CASE Throw(r) \/ EndRun(r)
          BY <5>1, <5>2, <5>6 DEF Throw, EndRun
        <5> QED BY <1>2, <3>2, <5>3, <5>4, <5>5, <5>6 DEF RequestStep
      <4> QED BY <4>1, <4>2 DEF KidPlaces
    <3> QED BY <3>1, <3>2
  <2> QED BY <2>1, <2>2, <2>3 DEF KidPlaces
<1>3. ASSUME NEW k \in Spawners, KidStep(k) PROVE KidPlaces'
  <2>1. kid[k].at \in {"inserted", "running"} \/ at[k] = "running"
    BY <1>3 DEF KidStep, SpawnKid, StartKid, KidWrites, EndKid
  <2>2. \A j \in Spawners : j # k => kid'[j] = kid[j]
    BY <1>0, <1>3 DEF KidStep, SpawnKid, StartKid, KidWrites, EndKid
  <2> QED BY <1>1, <1>3, <2>1, <2>2, OthersMoveNobody
<1>4. ASSUME NEW d \in Jobs, JobStep(d) PROVE KidPlaces'
  <2>1. \A k \in Spawners : kid'[k].at = kid[k].at
    <3>1. CASE DeleteLogs(d)
      BY <1>0, <3>1 DEF DeleteLogs, KidStates
    <3>2. CASE Purge(d) \/ SecondPass(d) \/ FinalPass(d)
      BY <3>2, ErasedKids DEF Purge, SecondPass, FinalPass
    <3>3. CASE Permit(d) \/ Retain(d) \/ AbortRuns(d) \/ RunTimeout(d) \/ FindKids(d) \/ WaitKids(d)
      BY <3>3 DEF Permit, Retain, AbortRuns, RunTimeout, FindKids, WaitKids
    <3> QED BY <1>4, <3>1, <3>2, <3>3 DEF JobStep
  <2> QED BY <1>1, <1>4, <2>1, OthersMoveNobody
<1>5. CASE SetHold \/ SetKeep \/ Restore \/ UNCHANGED vars
  BY <1>1, <1>5 DEF SetHold, SetKeep, Restore, vars, requestVars
<1>6. CASE SweepOrphans
  <2>1. \A k \in Spawners : kid'[k].at = kid[k].at
    BY <1>0, <1>6 DEF SweepOrphans, KidStates
  <2> QED BY <1>1, <1>6, <2>1 DEF SweepOrphans, requestVars
<1>7. CASE Restart
  <2>1. \A k \in Spawners : kid'[k].at \in {"none", "ended"}
    BY <1>0, <1>7 DEF Restart, KidStates
  <2>2. \A r \in Requests : at'[r] \notin {"listed", "removed"}
    BY <1>7 DEF Restart
  <2> QED BY <1>0, <2>1, <2>2 DEF KidPlaces
<1> QED BY <1>2, <1>3, <1>4, <1>5, <1>6, <1>7 DEF Next

LEMMA PurgesKnownStep ==
  ASSUME TypeOK, PurgesKnown, [Next]_vars
  PROVE  PurgesKnown'
<1>0. job \in [Jobs -> JobStates]
  BY DEF TypeOK
<1>1. ASSUME NEW d \in Jobs, ~JobStep(d)
      PROVE  /\ job'[d].at \in {"absent", "idle", "allowed"} => ~job'[d].purge
             /\ job[d].purge \/ job[d].at = "lost" => job'[d].purge \/ job'[d].at = "lost"
  <2>1. job[d] \in JobStates
    BY <1>0
  <2>2. /\ [job[d] EXCEPT !.at = "woken"].at = "woken"
        /\ [job[d] EXCEPT !.at = "woken"].purge = job[d].purge
        /\ [NoJob EXCEPT !.at = "lost"].at = "lost"
    BY <2>1 DEF JobStates, NoJob
  <2> QED BY <1>1, <2>2, OthersLeaveJob DEF PurgesKnown
<1>2. ASSUME NEW d \in Jobs, JobStep(d)
      PROVE  /\ job'[d].at \in {"absent", "idle", "allowed"} => ~job'[d].purge
             /\ job[d].purge \/ job[d].at = "lost" => job'[d].purge \/ job'[d].at = "lost"
             /\ conv' = "gone" => conv = "gone" \/ job'[d].purge
  <2>1. job[d] \in JobStates
    BY <1>0
  <2>2. CASE Permit(d) \/ SecondPass(d) \/ DeleteLogs(d) \/ FinalPass(d)
    <3>1. ASSUME NEW from, NEW to, Step(d, from, to)
          PROVE  job[d].at = from /\ job'[d].at = to /\ job'[d].purge = job[d].purge
      BY <1>0, <2>1, <3>1 DEF Step, JobStates
    <3>2. CASE Permit(d)
      BY <3>1, <3>2 DEF Permit, PurgesKnown
    <3>3. CASE SecondPass(d)
      BY <3>1, <3>3 DEF SecondPass, ErasesAgain
    <3>4. CASE DeleteLogs(d)
      BY <3>1, <3>4 DEF DeleteLogs
    <3>5. CASE FinalPass(d)
      BY <3>1, <3>5 DEF FinalPass
    <3> QED BY <2>2, <3>2, <3>3, <3>4, <3>5
  <2>3. CASE Retain(d) \/ Purge(d) \/ AbortRuns(d)
    BY <1>0, <2>1, <2>3 DEF Retain, Purge, AbortRuns, JobStates
  <2>4. CASE RunTimeout(d) \/ FindKids(d) \/ WaitKids(d)
    BY <1>0, <2>1, <2>4 DEF RunTimeout, TimesOut, FindKids, WaitKids, JobStates
  <2> QED BY <1>2, <2>2, <2>3, <2>4 DEF JobStep
<1>3. conv' = "gone" => conv = "gone" \/ \E d \in Jobs : JobStep(d)
  <2>1. CASE \E r \in Requests : RequestStep(r) \/ Throw(r) \/ WriteReply(r) \/ EndRun(r)
    BY <2>1 DEF RequestStep, Authorize, Claim, InsertTyped, OpenRun, ListSuffix, RemoveSuffix,
      DropLogs, EndRewind, LookForRun, OpenSummary, RegisterCompaction, Throw, WriteReply, EndRun
  <2>2. CASE \E k \in Spawners : KidStep(k)
    BY <2>2 DEF KidStep, SpawnKid, StartKid, KidWrites, EndKid
  <2>3. CASE SetHold \/ SetKeep \/ Restore \/ SweepOrphans \/ Restart \/ UNCHANGED vars
    BY <2>3 DEF SetHold, SetKeep, Restore, SweepOrphans, Restart, vars
  <2> QED BY <2>1, <2>2, <2>3 DEF Next
<1>4. conv' = "gone" => \E e \in Jobs : job'[e].purge \/ job'[e].at = "lost"
  <2>1. CASE conv = "gone"
    BY <1>1, <1>2, <2>1 DEF PurgesKnown
  <2>2. CASE \E d \in Jobs : JobStep(d)
    <3>1. PICK d \in Jobs : JobStep(d)
      BY <2>2
    <3> QED BY <1>2, <2>1, <3>1
  <2> QED BY <1>3, <2>1, <2>2
<1> QED BY <1>1, <1>2, <1>4 DEF PurgesKnown

\* The wait ends with the run, or is given up.
LEMMA WaitsForItStep ==
  ASSUME ConversationAssumption, TypeOK, OneHolder, WaitsForIt, [Next]_vars, ~Unclaimed'
  PROVE  WaitsForIt'
<1>0. job \in [Jobs -> JobStates] /\ NoOne \notin Requests
  BY DEF TypeOK, ConversationAssumption
<1> SUFFICES ASSUME NEW d \in Jobs
             PROVE  /\ job'[d].at = "waiting" => slot' = job'[d].stopped /\ slot' # NoOne
                    /\ /\ job'[d].at \in Waited /\ job'[d].ended /\ job'[d].stopped \in Requests
                       => at'[job'[d].stopped] \in {"refused", "ended"}
  BY DEF WaitsForIt, SeenToEnd
<1>1. job[d] \in JobStates /\ slot \in Requests \cup {NoOne}
  BY <1>0 DEF TypeOK
<1>2. SeenToEnd(d) => at'[job[d].stopped] \in {"refused", "ended"}
  BY OverStays DEF WaitsForIt, SeenToEnd
<1>3. CASE JobStep(d)
  <2>1. UNCHANGED <<at, slot>>
    BY <1>3, OthersMoveNobody
  <2>2. CASE Permit(d) \/ Retain(d) \/ Purge(d)
    BY <1>0, <1>1, <2>2 DEF Permit, Retain, Purge, Step, JobStates, Waited
  <2>3. CASE AbortRuns(d)
    BY <1>0, <1>1, <2>1, <2>3 DEF AbortRuns, JobStates, Waited
  <2>4. CASE RunTimeout(d)
    BY <1>0, <1>1, <2>4 DEF RunTimeout, JobStates
  <2>5. CASE FindKids(d) \/ SecondPass(d) \/ DeleteLogs(d) \/ FinalPass(d)
    BY <1>0, <1>1, <1>2, <2>5 DEF FindKids, SecondPass, DeleteLogs, FinalPass, Step, JobStates,
      Waited, SeenToEnd
  <2>6. CASE WaitKids(d)
    <3>1. PICK late \in BOOLEAN :
            job' = [job EXCEPT ![d].at = "settled", ![d].ended = @ /\ ~late]
      BY <2>6 DEF WaitKids
    <3>2. /\ job'[d].at = "settled" /\ job'[d].stopped = job[d].stopped
          /\ job'[d].ended => job[d].ended
      BY <1>0, <1>1, <3>1 DEF JobStates
    <3> QED BY <1>2, <2>6, <3>2 DEF WaitKids, Waited, SeenToEnd
  <2> QED BY <1>3, <2>2, <2>3, <2>4, <2>5, <2>6 DEF JobStep
<1>4. CASE ~JobStep(d)
  <2>1. CASE job'[d] = job[d] /\ job[d].at # "waiting"
    BY <1>2, <2>1 DEF SeenToEnd
  <2>2. CASE job'[d] = job[d] /\ job[d].at = "waiting"
    <3>1. slot = job[d].stopped /\ slot # NoOne
      BY <2>2 DEF WaitsForIt
    <3>2. slot' = slot
      <4>1. CASE \E r \in Requests : RequestStep(r) \/ Throw(r) \/ WriteReply(r) \/ EndRun(r)
        <5>1. PICK r \in Requests : RequestStep(r) \/ Throw(r) \/ WriteReply(r) \/ EndRun(r)
          BY <4>1
        <5>2. CASE Throw(r) \/ EndRun(r) \/ EndRewind(r)
          <6>1. ASSUME Unregister(r), slot = r PROVE FALSE
            <7>1. job'[d] = [job[d] EXCEPT !.at = "woken"]
              BY <2>2, <6>1 DEF Unregister, Waiters
            <7> QED BY <1>1, <2>2, <7>1 DEF JobStates
          <6> QED BY <5>2, <6>1 DEF Throw, GivesBack, EndRun, EndRewind, Unregister
        <5>3. CASE Claim(r)
          BY <3>1, <5>3 DEF Claim, Free
        <5>4. CASE RegisterCompaction(r)
          <6>1. r \in Compactions /\ at'[r] = "running"
            BY <5>4 DEF RegisterCompaction, Move, TypeOK, Requests
          <6> QED BY <6>1 DEF Unclaimed
        <5> QED BY <5>1, <5>2, <5>3, <5>4 DEF RequestStep, Authorize, InsertTyped, OpenRun, ListSuffix,
               RemoveSuffix, DropLogs, LookForRun, OpenSummary, WriteReply
      <4>2. CASE Restart
        BY <1>1, <2>2, <4>2 DEF Restart, JobStates, NoJob
      <4> QED BY <4>1, <4>2, OthersMoveNobody DEF Next
    <3> QED BY <2>2, <3>1, <3>2 DEF Waited
  <2>3. CASE /\ job[d].at = "waiting" /\ job'[d] = [job[d] EXCEPT !.at = "woken"]
             /\ slot \in Requests => at'[slot] \in {"refused", "ended"}
    <3>1. slot = job[d].stopped
      BY <2>3 DEF WaitsForIt
    <3> QED BY <1>1, <2>3, <3>1 DEF JobStates
  <2>4. CASE job'[d] = [NoJob EXCEPT !.at = "lost"]
    BY <2>4 DEF NoJob, Waited
  <2> QED BY <1>4, <2>1, <2>2, <2>3, <2>4, OthersLeaveJob
<1> QED BY <1>3, <1>4

-----------------------------------------------------------------------------
(* What is left of a sub-agent while and after a purge goes on. *)

\* No other deletion has purged, or was lost to a restart.
Alone(d) == \A e \in Jobs \ {d} : ~job[e].purge /\ job[e].at # "lost"

\* A removal that is to drop the log of k, or was cut in two.
ToDrop(k) == \E w \in Removers : \/ at[w] = "removed" /\ k \in plan[w].kids
                                 \/ at[w] = "lost" /\ plan[w].pivot > 0

\* A sub-agent whose row is gone has left nothing, but a log that is to go.
Kept(k) ==
  /\ kid[k].row = "none" => ~kid[k].texts
  /\ kid[k].at \in {"inserted", "running"} => kid[k].row # "none"
  /\ kid[k].row = "none" /\ kid[k].log => ToDrop(k)

\* True of all of them until the conversation goes, and from then on of those
\* that the one purge does not know.
KidsKept ==
  /\ conv # "gone" => \A k \in Spawners : Kept(k)
  /\ \A d \in Jobs :
       /\ Alone(d) /\ job[d].purge
       /\ job[d].at \in {"committed", "waiting", "woken", "found", "settled"}
       => \A k \in Spawners \ job[d].known : Kept(k)

LEMMA AloneBefore ==
  ASSUME TypeOK, [Next]_vars, NEW d \in Jobs, Alone(d)'
  PROVE  Alone(d)
<1> SUFFICES ASSUME NEW e \in Jobs, e # d, job[e].purge \/ job[e].at = "lost"
             PROVE  job'[e].purge \/ job'[e].at = "lost"
  BY DEF Alone
<1>0. job \in [Jobs -> JobStates] /\ job[e] \in JobStates
  BY DEF TypeOK
<1>1. CASE ~JobStep(e)
  <2>1. /\ [job[e] EXCEPT !.at = "woken"].purge = job[e].purge
        /\ [NoJob EXCEPT !.at = "lost"].at = "lost"
    BY <1>0 DEF JobStates, NoJob
  <2> QED BY <1>1, <2>1, OthersLeaveJob
<1>2. CASE JobStep(e)
  <2>1. CASE Permit(e) \/ SecondPass(e) \/ DeleteLogs(e) \/ FinalPass(e)
    BY <1>0, <2>1 DEF Permit, SecondPass, DeleteLogs, FinalPass, Step, JobStates
  <2>2. CASE Retain(e) \/ Purge(e) \/ AbortRuns(e)
    BY <1>0, <2>2 DEF Retain, Purge, AbortRuns, JobStates
  <2>3. CASE RunTimeout(e) \/ FindKids(e) \/ WaitKids(e)
    BY <1>0, <2>3 DEF RunTimeout, TimesOut, FindKids, WaitKids, JobStates
  <2> QED BY <1>2, <2>1, <2>2, <2>3 DEF JobStep
<1> QED BY <1>1, <1>2

\* A log that is to be dropped stays so until it is.
LEMMA ToDropStays ==
  ASSUME TypeOK, KidPlaces, [Next]_vars, NEW k \in Spawners, ToDrop(k)
  PROVE  ToDrop(k)' \/ ~kid'[k].log
<1>0. /\ kid \in [Spawners -> KidStates] /\ at \in [Requests -> RequestPlaces]
      /\ Removers \subseteq Requests
  BY DEF TypeOK, Requests, Claimers, Runs, Removers
<1>1. PICK w \in Removers : \/ at[w] = "removed" /\ k \in plan[w].kids
                            \/ at[w] = "lost" /\ plan[w].pivot > 0
  BY DEF ToDrop
<1>2. CASE UNCHANGED <<at, plan>>
  BY <1>1, <1>2 DEF ToDrop
<1>3. ASSUME NEW r \in Requests, RequestStep(r) \/ Throw(r) \/ WriteReply(r) \/ EndRun(r)
      PROVE  ToDrop(k)' \/ ~kid'[k].log
  <2>1. CASE DropLogs(r) /\ r = w
    <3>1. k \in plan[w].kids
      BY <1>1, <2>1 DEF DropLogs
    <3>2. kid'[k] = [kid[k] EXCEPT !.log = FALSE]
      BY <2>1, <3>1 DEF DropLogs
    <3> QED BY <1>0, <3>2 DEF KidStates
  <2>2. CASE ~(DropLogs(r) /\ r = w)
    <3>1. r = w => at'[w] = at[w] /\ UNCHANGED plan
      <4>1. CASE Authorize(r) \/ Claim(r) \/ InsertTyped(r) \/ OpenRun(r) \/ LookForRun(r)
        BY <1>1, <4>1 DEF Authorize, Claim, InsertTyped, OpenRun, LookForRun
      <4>2. CASE ListSuffix(r) \/ RemoveSuffix(r) \/ DropLogs(r) \/ EndRewind(r)
        BY <1>1, <2>2, <4>2 DEF ListSuffix, RemoveSuffix, DropLogs, EndRewind
      <4>3. CASE OpenSummary(r) \/ RegisterCompaction(r)
        BY <1>1, <4>3 DEF OpenSummary, RegisterCompaction
      <4>4. CASE Throw(r) \/ EndRun(r) \/ WriteReply(r)
        BY <1>1, <4>4 DEF Throw, EndRun, WriteReply
      <4> QED BY <1>3, <4>1, <4>2, <4>3, <4>4 DEF RequestStep
    <3>2. r # w => at'[w] = at[w]
      BY <1>0, <1>3, RequestMoves
    <3>3. r # w => plan'[w] = plan[w]
      <4>1. CASE ListSuffix(r)
        BY <4>1 DEF ListSuffix, TypeOK, Removers
      <4>2. CASE ~ListSuffix(r)
        BY <1>3, <4>2 DEF RequestStep, Authorize, Claim, InsertTyped, OpenRun, RemoveSuffix, DropLogs,
          EndRewind, LookForRun, OpenSummary, RegisterCompaction, Throw, WriteReply, EndRun
      <4> QED BY <4>1, <4>2
    <3> QED BY <1>1, <3>1, <3>2, <3>3 DEF ToDrop
  <2> QED BY <2>1, <2>2
<1>4. CASE Restart
  <2>1. at'[w] = "lost" /\ plan'[w] = plan[w] /\ plan[w].pivot > 0
    BY <1>0, <1>1, <1>4 DEF Restart, KidPlaces
  <2> QED BY <2>1 DEF ToDrop
<1> QED BY <1>2, <1>3, <1>4, OthersMoveNobody DEF Next

\* Any step but an erasure leaves a sub-agent as it should be left.
LEMMA KeptStep ==
  ASSUME ConversationAssumption, TypeOK, KidPlaces, OneHolder, OnlyRemoversRemove, [Next]_vars,
         NEW k \in Spawners, Kept(k),
         \A d \in Jobs : Purge(d) \/ SecondPass(d) \/ FinalPass(d) => kid'[k] = kid[k],
         SweepOrphans => conv # "gone"
  PROVE  Kept(k)'
<1>0. /\ kid \in [Spawners -> KidStates] /\ kid[k] \in KidStates
      /\ k \in Requests /\ Spawners \subseteq Requests
  BY DEF TypeOK, ConversationAssumption, Requests, Claimers, Runs
<1>1. CASE kid'[k] = kid[k]
  BY <1>1, ToDropStays DEF Kept
<1>2. ASSUME kid'[k] = [kid[k] EXCEPT !.log = FALSE] PROVE Kept(k)'
  BY <1>0, <1>2 DEF Kept, KidStates
<1>3. ASSUME NEW r \in Requests, RemoveSuffix(r) PROVE Kept(k)'
  <2>1. CASE k \in plan[r].kids
    <3>1. at[r] = "listed" /\ at'[r] = "removed" /\ plan' = plan
      BY <1>3 DEF RemoveSuffix, Move, TypeOK
    <3>2. ToDrop(k)'
      BY <2>1, <3>1 DEF ToDrop, OnlyRemoversRemove
    <3>3. at[k] # "running"
      BY <1>0, <3>1 DEF OneHolder, Holding
    <3>4. kid'[k].at \notin {"inserted", "running"}
      BY <1>3, <3>3, RemovedKids DEF KidPlaces
    <3> QED BY <1>3, <3>2, <3>4, RemovedKids DEF Kept
  <2>2. CASE k \notin plan[r].kids
    BY <1>1, <1>3, <2>2, RemovedKids
  <2> QED BY <2>1, <2>2
<1>4. ASSUME NEW r \in Requests, RequestStep(r) \/ Throw(r) \/ WriteReply(r) \/ EndRun(r)
      PROVE  Kept(k)'
  <2>1. CASE DropLogs(r)
    <3>1. kid'[k] = kid[k] \/ kid'[k] = [kid[k] EXCEPT !.log = FALSE]
      BY <2>1 DEF DropLogs
    <3> QED BY <1>1, <1>2, <3>1
  <2>2. CASE ~DropLogs(r) /\ ~RemoveSuffix(r)
    <3>1. kid' = kid
      BY <1>4, <2>2 DEF RequestStep, Authorize, Claim, InsertTyped, OpenRun, ListSuffix, EndRewind,
        LookForRun, OpenSummary, RegisterCompaction, Throw, WriteReply, EndRun
    <3> QED BY <1>1, <3>1
  <2> QED BY <1>3, <2>1, <2>2
<1>5. ASSUME NEW j \in Spawners, KidStep(j) PROVE Kept(k)'
  <2>1. CASE j # k
    <3>1. kid'[k] = kid[k]
      BY <1>0, <1>5, <2>1 DEF KidStep, SpawnKid, StartKid, KidWrites, EndKid
    <3> QED BY <1>1, <3>1
  <2>2. CASE j = k
    <3>1. CASE SpawnKid(k)
      <4>1. PICK row \in rows : kid'[k] = [NoKid EXCEPT !.at = "inserted", !.row = "live",
                                                        !.texts = TRUE, !.under = row.at]
        BY <1>0, <3>1 DEF SpawnKid
      <4>2. kid'[k].row = "live"
        BY <4>1 DEF NoKid
      <4> QED BY <4>2 DEF Kept
    <3>2. CASE StartKid(k) \/ KidWrites(k)
      <4>1. kid'[k].row = kid[k].row /\ kid[k].row # "none"
        BY <1>0, <3>2 DEF StartKid, KidWrites, Kept, KidStates
      <4> QED BY <4>1 DEF Kept
    <3>3. CASE EndKid(k)
      <4>1. kid'[k].row = kid[k].row /\ kid[k].row # "none" /\ kid'[k].at = "ended"
        BY <1>0, <3>3 DEF EndKid, Kept, KidStates
      <4> QED BY <4>1 DEF Kept
    <3> QED BY <1>5, <2>2, <3>1, <3>2, <3>3 DEF KidStep
  <2> QED BY <2>1, <2>2
<1>6. ASSUME NEW d \in Jobs, JobStep(d) PROVE Kept(k)'
  <2>1. CASE DeleteLogs(d)
    <3>1. kid'[k] = kid[k] \/ kid'[k] = [kid[k] EXCEPT !.log = FALSE]
      BY <2>1 DEF DeleteLogs
    <3> QED BY <1>1, <1>2, <3>1
  <2>2. CASE Permit(d) \/ Retain(d) \/ AbortRuns(d) \/ RunTimeout(d) \/ FindKids(d) \/ WaitKids(d)
    BY <1>1, <2>2 DEF Permit, Retain, AbortRuns, RunTimeout, FindKids, WaitKids
  <2> QED BY <1>1, <1>6, <2>1, <2>2 DEF JobStep
<1>7. CASE SetHold \/ SetKeep \/ Restore \/ UNCHANGED vars
  BY <1>1, <1>7 DEF SetHold, SetKeep, Restore, vars
\* The sweep's orphans of a live conversation have left no text.
<1>8. CASE SweepOrphans
  <2>1. k \notin Orphans
    BY <1>8 DEF Orphans, Kept
  <2> QED BY <1>1, <1>8, <2>1 DEF SweepOrphans
<1>9. CASE Restart
  <2>1. kid'[k] = kid[k] \/ kid'[k] = [kid[k] EXCEPT !.at = "ended"]
    BY <1>9 DEF Restart
  <2>2. CASE kid'[k] = [kid[k] EXCEPT !.at = "ended"]
    <3>1. /\ kid'[k].at = "ended" /\ kid'[k].row = kid[k].row /\ kid'[k].texts = kid[k].texts
          /\ kid'[k].log = kid[k].log
      BY <1>0, <2>2 DEF KidStates
    <3> QED BY <3>1, ToDropStays DEF Kept
  <2> QED BY <1>1, <2>1, <2>2
<1> QED BY <1>4, <1>5, <1>6, <1>7, <1>8, <1>9 DEF Next

LEMMA KidsKeptStep ==
  ASSUME ConversationAssumption, TypeOK, KidPlaces, PurgesKnown, OneHolder, OnlyRemoversRemove,
         KidsKept, [Next]_vars
  PROVE  KidsKept'
<1>0. job \in [Jobs -> JobStates]
  BY DEF TypeOK
<1>1. ASSUME conv' # "gone", NEW k \in Spawners PROVE Kept(k)'
  <2>1. conv # "gone" /\ Kept(k)
    BY <1>1, GoneStays DEF KidsKept
  <2>2. \A d \in Jobs : Purge(d) \/ SecondPass(d) \/ FinalPass(d) => kid'[k] = kid[k]
    BY <1>1 DEF Purge, SecondPass, FinalPass, Erase
  <2> QED BY <2>1, <2>2, KeptStep
<1>2. ASSUME NEW d \in Jobs, Alone(d)', job'[d].purge,
             job'[d].at \in {"committed", "waiting", "woken", "found", "settled"},
             NEW k \in Spawners, k \notin job'[d].known
      PROVE  Kept(k)'
  <2>0. Alone(d) /\ job[d] \in JobStates
    BY <1>0, <1>2, AloneBefore
  <2>1. CASE Purge(d)
    <3>1. job[d].at = "allowed" /\ ~job[d].purge /\ job'[d].known = Kids /\ Erase({})
      BY <1>0, <2>0, <2>1 DEF Purge, PurgesKnown, JobStates
    <3>2. conv # "gone"
      BY <2>0, <3>1 DEF Alone, PurgesKnown
    <3>3. Kept(k)
      BY <3>2 DEF KidsKept
    <3>4. kid[k].row = "none"
      BY <1>2, <3>1 DEF Kids
    <3>5. kid'[k] = kid[k]
      BY <3>1, <3>4, ErasedKids
    <3> QED BY <3>2, <3>3, <3>5, KeptStep
  <2>2. CASE AbortRuns(d) \/ RunTimeout(d) \/ FindKids(d) \/ WaitKids(d)
    <3>1. /\ job[d].at \in {"committed", "waiting", "woken", "found"}
          /\ job'[d].purge = job[d].purge /\ job[d].known \subseteq job'[d].known
          /\ UNCHANGED <<conv, kid>>
      <4>1. CASE AbortRuns(d) \/ RunTimeout(d)
        BY <1>0, <2>0, <4>1 DEF AbortRuns, RunTimeout, TimesOut, JobStates
      <4>2. CASE FindKids(d)
        BY <1>0, <2>0, <4>2 DEF FindKids, JobStates
      <4>3. CASE WaitKids(d)
        BY <1>0, <2>0, <4>3 DEF WaitKids, JobStates
      <4> QED BY <2>2, <4>1, <4>2, <4>3
    <3>2. ~SweepOrphans
      BY <3>1 DEF SweepOrphans, Resting
    <3>3. Kept(k)
      BY <1>2, <2>0, <3>1 DEF KidsKept
    <3> QED BY <3>1, <3>2, <3>3, KeptStep
  <2>3. CASE Permit(d) \/ Retain(d) \/ SecondPass(d) \/ DeleteLogs(d) \/ FinalPass(d)
    <3>1. CASE Retain(d)
      <4>1. ~job'[d].purge
        BY <1>0, <2>0, <3>1 DEF Retain, PurgesKnown, JobStates
      <4> QED BY <1>2, <4>1
    <3>2. CASE ~Retain(d)
      <4>1. job'[d].at \in {"allowed", "erased", "cleared", "done"}
        BY <1>0, <2>0, <2>3, <3>2 DEF Permit, SecondPass, DeleteLogs, FinalPass, Step, JobStates
      <4> QED BY <1>2, <4>1
    <3> QED BY <3>1, <3>2
  <2>4. CASE ~JobStep(d)
    <3>1. /\ job[d].at \in {"committed", "waiting", "woken", "found", "settled"}
          /\ job'[d].purge = job[d].purge /\ job'[d].known = job[d].known
      <4>1. job'[d].at # "lost"
        BY <1>2
      <4>2. /\ [job[d] EXCEPT !.at = "woken"].purge = job[d].purge
            /\ [job[d] EXCEPT !.at = "woken"].known = job[d].known
            /\ [NoJob EXCEPT !.at = "lost"].at = "lost"
        BY <2>0 DEF JobStates, NoJob
      <4> QED BY <1>2, <2>4, <4>1, <4>2, OthersLeaveJob
    <3>2. ~SweepOrphans
      BY <3>1 DEF SweepOrphans, Resting
    <3>3. Kept(k)
      BY <1>2, <2>0, <3>1 DEF KidsKept
    <3>4. ASSUME NEW e \in Jobs, Purge(e) \/ SecondPass(e) \/ FinalPass(e) PROVE kid'[k] = kid[k]
      <4>1. e # d
        BY <2>4, <3>4 DEF JobStep
      <4>2. ~job[e].purge /\ ~job'[e].purge
        BY <1>2, <2>0, <4>1 DEF Alone
      <4>3. ~Purge(e)
        BY <1>0, <4>2 DEF Purge, JobStates
      <4> QED BY <3>4, <4>2, <4>3 DEF SecondPass, ErasesAgain, FinalPass
    <3> QED BY <3>2, <3>3, <3>4, KeptStep
  <2> QED BY <2>1, <2>2, <2>3, <2>4 DEF JobStep
<1>3. \A d \in Jobs :
        /\ Alone(d)' /\ job'[d].purge
        /\ job'[d].at \in {"committed", "waiting", "woken", "found", "settled"}
        => \A k \in Spawners \ job'[d].known : Kept(k)'
  BY <1>2
<1>4. conv' # "gone" => \A k \in Spawners : Kept(k)'
  BY <1>1
<1> QED BY <1>3, <1>4 DEF KidsKept

\* What a deletion that saw its run end has left of it: no row once it has
\* erased again, no log once it has deleted the logs, and of the run's
\* sub-agent what a removal is still to take.
LeftOf(d, r) ==
  /\ job[d].at \in {"cleared", "done"} => log[r] = 0
  /\ job[d].purge /\ job[d].at \in {"erased", "cleared", "done"} => \A row \in rows : row.by # r
  /\ r \in Spawners /\ Alone(d) =>
       /\ job[d].at \in {"found", "settled", "erased", "cleared", "done"}
          => r \in job[d].known \/ kid[r].row = "none"
       /\ job[d].purge /\ job[d].at \in {"erased", "cleared", "done"}
          => ~kid[r].texts /\ (r \in job[d].known \/ ~kid[r].log \/ ToDrop(r))
       /\ job[d].purge /\ job[d].at \in {"cleared", "done"} => ~kid[r].log \/ ToDrop(r)

EndedRunsLeft == \A d \in Jobs : SeenToEnd(d) => LeftOf(d, job[d].stopped)

\* A run that is over writes nothing, and its sub-agent does not either.
LEMMA OverWritesNothing ==
  ASSUME ConversationAssumption, TypeOK, KidPlaces, ~Unclaimed', [Next]_vars,
         NEW r \in Requests, at[r] \in {"refused", "ended"}
  PROVE  /\ (\A row \in rows : row.by # r) => \A row \in rows' : row.by # r
         /\ log[r] = 0 => log'[r] = 0
         /\ r \in Spawners => /\ kid[r].row = "none" => kid'[r].row = "none"
                              /\ ~kid[r].texts => ~kid'[r].texts
                              /\ ~kid[r].log => ~kid'[r].log
<1>0. kid \in [Spawners -> KidStates] /\ log \in [Requests -> 0..clock]
  BY DEF TypeOK
<1>1. ASSUME UNCHANGED <<rows, kid>>, log'[r] = log[r]
      PROVE  /\ (\A row \in rows : row.by # r) => \A row \in rows' : row.by # r
             /\ log[r] = 0 => log'[r] = 0
             /\ r \in Spawners => /\ kid[r].row = "none" => kid'[r].row = "none"
                                  /\ ~kid[r].texts => ~kid'[r].texts
                                  /\ ~kid[r].log => ~kid'[r].log
  BY <1>1
<1>2. ASSUME NEW q \in Requests, RequestStep(q) \/ Throw(q) \/ WriteReply(q) \/ EndRun(q)
      PROVE  /\ (\A row \in rows : row.by # r) => \A row \in rows' : row.by # r
             /\ log[r] = 0 => log'[r] = 0
             /\ r \in Spawners => /\ kid[r].row = "none" => kid'[r].row = "none"
                                  /\ ~kid[r].texts => ~kid'[r].texts
                                  /\ ~kid[r].log => ~kid'[r].log
  <2>1. CASE InsertTyped(q) \/ WriteReply(q)
    <3>1. q # r /\ UNCHANGED <<kid, log>>
      BY <2>1 DEF InsertTyped, WriteReply
    <3>2. rows' = rows \cup {Row(q, "typed")} \/ rows' = rows \cup {Row(q, "reply")}
      BY <2>1 DEF InsertTyped, WriteReply
    <3>3. Row(q, "typed").by = q /\ Row(q, "reply").by = q
      BY DEF Row
    <3> QED BY <3>1, <3>2, <3>3
  <2>2. CASE RemoveSuffix(q)
    <3>1. UNCHANGED log
      BY <2>2 DEF RemoveSuffix
    <3>2. (\A row \in rows : row.by # r) => \A row \in rows' : row.by # r
      <4> DEFINE taken == {row \in rows : row.at \in plan[q].ids}
      <4>1. \/ rows' = rows \ taken
            \/ rows' = (rows \ taken) \cup {[row EXCEPT !.stamped = TRUE] : row \in taken}
        BY <2>2 DEF RemoveSuffix
      <4>2. \A row \in rows : [row EXCEPT !.stamped = TRUE].by = row.by
        BY DEF TypeOK, Rows
      <4>3. \A row \in rows' : (row \in rows) \/ \E old \in rows : row = [old EXCEPT !.stamped = TRUE]
        BY <4>1
      <4> QED BY <4>2, <4>3
    <3>3. r \in Spawners => /\ kid[r].row = "none" => kid'[r].row = "none"
                            /\ ~kid[r].texts => ~kid'[r].texts
                            /\ ~kid[r].log => ~kid'[r].log
      BY <2>2, RemovedKids
    <3> QED BY <3>1, <3>2, <3>3
  <2>3. CASE DropLogs(q)
    <3>1. rows' = rows /\ log'[r] \in {0, log[r]}
      BY <1>0, <2>3 DEF DropLogs
    <3>2. r \in Spawners => kid'[r] = kid[r] \/ kid'[r] = [kid[r] EXCEPT !.log = FALSE]
      BY <2>3 DEF DropLogs
    <3>3. r \in Spawners => /\ kid'[r].row = kid[r].row /\ kid'[r].texts = kid[r].texts
                            /\ kid'[r].log => kid[r].log
      BY <1>0, <3>2 DEF KidStates
    <3> QED BY <3>1, <3>3
  <2>4. CASE OpenRun(q)
    <3>1. q # r /\ log'[r] = log[r]
      BY <1>0, <2>4 DEF OpenRun
    <3> QED BY <1>1, <2>4, <3>1 DEF OpenRun
  <2>5. CASE OpenSummary(q)
    <3>1. q \in Compactions /\ at'[q] \in {"opened", "ended"}
      BY <2>5 DEF OpenSummary, Move, TypeOK, Requests
    <3> QED BY <3>1 DEF Unclaimed
  <2>6. CASE \/ Authorize(q) \/ Claim(q) \/ LookForRun(q) \/ ListSuffix(q) \/ EndRewind(q)
             \/ RegisterCompaction(q) \/ Throw(q) \/ EndRun(q)
    BY <1>1, <2>6 DEF Authorize, Claim, LookForRun, ListSuffix, EndRewind, RegisterCompaction,
      Throw, EndRun
  <2> QED BY <1>2, <2>1, <2>2, <2>3, <2>4, <2>5, <2>6 DEF RequestStep
<1>3. ASSUME NEW k \in Spawners, KidStep(k)
      PROVE  UNCHANGED <<rows, log>> /\ (r \in Spawners => kid'[r] = kid[r])
  <2>1. UNCHANGED <<rows, log>>
    BY <1>3 DEF KidStep, SpawnKid, StartKid, KidWrites, EndKid, requestVars
  <2>2. r \in Spawners => k # r
    BY <1>3 DEF KidStep, SpawnKid, StartKid, KidWrites, EndKid, KidPlaces
  <2> QED BY <1>0, <1>3, <2>1, <2>2 DEF KidStep, SpawnKid, StartKid, KidWrites, EndKid
<1>4. ASSUME NEW known, Erase(known), UNCHANGED log
      PROVE  /\ (\A row \in rows : row.by # r) => \A row \in rows' : row.by # r
             /\ log[r] = 0 => log'[r] = 0
             /\ r \in Spawners => /\ kid[r].row = "none" => kid'[r].row = "none"
                                  /\ ~kid[r].texts => ~kid'[r].texts
                                  /\ ~kid[r].log => ~kid'[r].log
  <2>1. rows' = {}
    BY <1>4 DEF Erase
  <2> QED BY <1>4, <2>1, ErasedKids
<1>5. ASSUME NEW d \in Jobs, JobStep(d)
      PROVE  /\ (\A row \in rows : row.by # r) => \A row \in rows' : row.by # r
             /\ log[r] = 0 => log'[r] = 0
             /\ r \in Spawners => /\ kid[r].row = "none" => kid'[r].row = "none"
                                  /\ ~kid[r].texts => ~kid'[r].texts
                                  /\ ~kid[r].log => ~kid'[r].log
  <2>1. CASE Permit(d) \/ Retain(d) \/ AbortRuns(d) \/ RunTimeout(d) \/ FindKids(d) \/ WaitKids(d)
    BY <1>1, <2>1 DEF Permit, Retain, AbortRuns, RunTimeout, FindKids, WaitKids, requestVars
  <2>2. CASE Purge(d) \/ SecondPass(d) \/ FinalPass(d)
    BY <1>1, <1>4, <2>2 DEF Purge, SecondPass, FinalPass, requestVars
  <2>3. CASE DeleteLogs(d)
    <3>1. rows' = rows /\ log'[r] = 0
      BY <2>3 DEF DeleteLogs
    <3>2. r \in Spawners => kid'[r] = kid[r] \/ kid'[r] = [kid[r] EXCEPT !.log = FALSE]
      BY <2>3 DEF DeleteLogs
    <3>3. r \in Spawners => /\ kid'[r].row = kid[r].row /\ kid'[r].texts = kid[r].texts
                            /\ kid'[r].log => kid[r].log
      BY <1>0, <3>2 DEF KidStates
    <3> QED BY <3>1, <3>3
  <2> QED BY <1>5, <2>1, <2>2, <2>3 DEF JobStep
<1>6. CASE SetHold \/ SetKeep \/ Restore \/ UNCHANGED vars
  BY <1>1, <1>6 DEF SetHold, SetKeep, Restore, vars, requestVars
<1>7. CASE SweepOrphans \/ Restart
  <2>1. rows' \subseteq rows /\ UNCHANGED log
    BY <1>7 DEF SweepOrphans, Restart, requestVars
  <2>2. r \in Spawners => \/ kid'[r] = kid[r] \/ kid'[r] = [kid[r] EXCEPT !.at = "ended"]
                          \/ kid'[r] = [kid[r] EXCEPT !.row = "none", !.texts = FALSE]
    BY <1>7 DEF SweepOrphans, Restart
  <2>3. r \in Spawners => /\ kid[r].row = "none" => kid'[r].row = "none"
                          /\ ~kid[r].texts => ~kid'[r].texts
                          /\ kid'[r].log = kid[r].log
    BY <1>0, <2>2 DEF KidStates
  <2> QED BY <2>1, <2>3
<1> QED BY <1>2, <1>3, <1>5, <1>6, <1>7 DEF Next

LEMMA EndedRunsLeftStep ==
  ASSUME ConversationAssumption, TypeOK, KidPlaces, WaitsForIt, KidsKept, EndedRunsLeft,
         ~Unclaimed', [Next]_vars
  PROVE  EndedRunsLeft'
<1> SUFFICES ASSUME NEW d \in Jobs, SeenToEnd(d)' PROVE LeftOf(d, job[d].stopped)'
  BY DEF EndedRunsLeft
<1>0. job \in [Jobs -> JobStates] /\ job[d] \in JobStates
  BY DEF TypeOK
<1> DEFINE r == job[d].stopped
\* A step of others, or of d without a word in what it leaves.
<1>1. ASSUME SeenToEnd(d), job'[d].stopped = r
      PROVE  /\ r \in Requests /\ at[r] \in {"refused", "ended"} /\ LeftOf(d, r)
             /\ (\A row \in rows : row.by # r) => \A row \in rows' : row.by # r
             /\ log[r] = 0 => log'[r] = 0
             /\ r \in Spawners => /\ kid[r].row = "none" => kid'[r].row = "none"
                                  /\ ~kid[r].texts => ~kid'[r].texts
                                  /\ ~kid[r].log \/ ToDrop(r) => ~kid'[r].log \/ ToDrop(r)'
  <2>1. r \in Requests /\ at[r] \in {"refused", "ended"} /\ LeftOf(d, r)
    BY <1>1 DEF SeenToEnd, WaitsForIt, EndedRunsLeft
  <2>2. \A k \in Spawners : ToDrop(k) => ~kid'[k].log \/ ToDrop(k)'
    BY ToDropStays
  <2>3. r \in Spawners /\ ToDrop(r) => ~kid'[r].log \/ ToDrop(r)'
    BY <1>1, <2>2 DEF ToDrop
  <2> QED BY <2>1, <2>3, OverWritesNothing
<1>2. ASSUME SeenToEnd(d), job'[d] = job[d] PROVE LeftOf(d, job[d].stopped)'
  <2>1. Alone(d)' => Alone(d)
    BY AloneBefore
  <2> QED BY <1>1, <1>2, <2>1 DEF LeftOf
<1>3. CASE ~JobStep(d)
  <2>1. CASE job'[d] = job[d]
    BY <1>2, <2>1 DEF SeenToEnd
  <2>2. CASE job'[d] = [job[d] EXCEPT !.at = "woken"]
    <3>1. job'[d].at = "woken"
      BY <1>0, <2>2 DEF JobStates
    <3> QED BY <3>1 DEF LeftOf
  <2>3. CASE job'[d] = [NoJob EXCEPT !.at = "lost"]
    BY <2>3 DEF NoJob, SeenToEnd, Waited
  <2> QED BY <1>3, <2>1, <2>2, <2>3, OthersLeaveJob
<1>4. CASE Permit(d) \/ Retain(d) \/ Purge(d) \/ AbortRuns(d) \/ RunTimeout(d)
  <2>1. job'[d].at \in {"allowed", "committed", "woken", "waiting"}
    <3>1. CASE Permit(d) \/ Retain(d) \/ Purge(d)
      BY <1>0, <3>1 DEF Permit, Step, Retain, Purge, JobStates
    <3>2. CASE AbortRuns(d) \/ RunTimeout(d)
      BY <1>0, <3>2 DEF AbortRuns, RunTimeout, JobStates
    <3> QED BY <1>4, <3>1, <3>2
  <2> QED BY <2>1 DEF LeftOf
<1>5. CASE FindKids(d)
  <2>1. /\ job'[d].at = "found" /\ job'[d].known = job[d].known \cup Kids /\ job'[d].stopped = r
        /\ kid' = kid
    BY <1>0, <1>5 DEF FindKids, Found, JobStates
  <2>2. r \in Spawners => r \in job'[d].known \/ kid'[r].row = "none"
    BY <2>1 DEF Kids
  <2> QED BY <2>1, <2>2 DEF LeftOf
<1>6. CASE WaitKids(d)
  <2>1. /\ job[d].at = "found" /\ job'[d].at = "settled" /\ job'[d].known = job[d].known
        /\ job'[d].stopped = r /\ (job'[d].ended => job[d].ended)
    <3>1. PICK late \in BOOLEAN :
            job' = [job EXCEPT ![d].at = "settled", ![d].ended = @ /\ ~late]
      BY <1>6 DEF WaitKids
    <3> QED BY <1>0, <1>6, <3>1 DEF WaitKids, JobStates
  <2>2. SeenToEnd(d)
    BY <2>1 DEF SeenToEnd, Waited
  <2>3. Alone(d)' => Alone(d)
    BY AloneBefore
  <2> QED BY <1>1, <2>1, <2>2, <2>3 DEF LeftOf
<1>7. CASE SecondPass(d)
  <2>1. /\ job[d].at = "settled" /\ job'[d].at = "erased" /\ job'[d].known = job[d].known
        /\ job'[d].stopped = r /\ job'[d].ended = job[d].ended /\ job'[d].purge = job[d].purge
    BY <1>0, <1>7 DEF SecondPass, Step, JobStates
  <2>2. SeenToEnd(d)
    BY <2>1 DEF SeenToEnd, Waited
  <2>3. Alone(d)' => Alone(d)
    BY AloneBefore
  <2>4. job[d].purge => Erase(job[d].known)
    BY <1>7 DEF SecondPass, ErasesAgain
  <2>5. job[d].purge => rows' = {}
    BY <2>4 DEF Erase
  <2>6. ASSUME job[d].purge, r \in Spawners, Alone(d)
        PROVE  ~kid'[r].texts /\ (r \in job[d].known \/ ~kid'[r].log \/ ToDrop(r)')
    <3>1. CASE r \in job[d].known
      BY <2>4, <2>6, <3>1, ErasedKids
    <3>2. CASE r \notin job[d].known
      <4>1. Kept(r)
        BY <2>1, <2>6, <3>2 DEF KidsKept
      <4>2. kid[r].row = "none"
        BY <1>1, <2>1, <2>2, <2>6, <3>2 DEF LeftOf
      <4> QED BY <1>1, <2>1, <2>2, <2>6, <4>1, <4>2 DEF Kept
    <3> QED BY <3>1, <3>2
  <2> QED BY <1>1, <2>1, <2>2, <2>3, <2>5, <2>6 DEF LeftOf
<1>8. CASE DeleteLogs(d)
  <2>1. /\ job[d].at = "erased" /\ job'[d].at = "cleared" /\ job'[d].known = job[d].known
        /\ job'[d].stopped = r /\ job'[d].ended = job[d].ended /\ job'[d].purge = job[d].purge
    BY <1>0, <1>8 DEF DeleteLogs, Step, JobStates
  <2>2. SeenToEnd(d)
    BY <2>1 DEF SeenToEnd, Waited
  <2>3. Alone(d)' => Alone(d)
    BY AloneBefore
  <2>4. log'[r] = 0
    BY <1>1, <1>8, <2>1, <2>2 DEF DeleteLogs
  <2>5. r \in Spawners /\ r \in job[d].known => ~kid'[r].log
    <3>1. r \in Spawners /\ r \in job[d].known => kid'[r] = [kid[r] EXCEPT !.log = FALSE]
      BY <1>8 DEF DeleteLogs
    <3>2. r \in Spawners => kid[r] \in KidStates
      BY EachKid
    <3> QED BY <3>1, <3>2 DEF KidStates
  <2> QED BY <1>1, <2>1, <2>2, <2>3, <2>4, <2>5 DEF LeftOf
<1>9. CASE FinalPass(d)
  <2>1. /\ job[d].at = "cleared" /\ job'[d].at = "done" /\ job'[d].known = job[d].known
        /\ job'[d].stopped = r /\ job'[d].ended = job[d].ended /\ job'[d].purge = job[d].purge
    BY <1>0, <1>9 DEF FinalPass, Step, JobStates
  <2>2. SeenToEnd(d)
    BY <2>1 DEF SeenToEnd, Waited
  <2>3. Alone(d)' => Alone(d)
    BY AloneBefore
  <2> QED BY <1>1, <2>1, <2>2, <2>3 DEF LeftOf
<1> QED BY <1>3, <1>4, <1>5, <1>6, <1>7, <1>8, <1>9 DEF JobStep

\* What holds of purges until a compaction is past its look at the slot.
PurgeInv ==
  /\ KidPlaces /\ PurgesKnown
  /\ ~Unclaimed => WaitsForIt /\ KidsKept /\ EndedRunsLeft

LEMMA PurgeInvStep ==
  ASSUME ConversationAssumption, TypeOK, ClaimsExclude, LogsInv, PurgeInv, [Next]_vars
  PROVE  PurgeInv'
<1>1. KidPlaces' /\ PurgesKnown'
  BY KidPlacesStep, PurgesKnownStep DEF PurgeInv, LogsInv
<1>2. ASSUME ~Unclaimed' PROVE WaitsForIt' /\ KidsKept' /\ EndedRunsLeft'
  <2>1. ~Unclaimed /\ OneHolder
    BY <1>2, UnclaimedStays DEF ClaimsExclude
  <2> QED BY <1>2, <2>1, WaitsForItStep, KidsKeptStep, EndedRunsLeftStep DEF PurgeInv, LogsInv
<1> QED BY <1>1, <1>2 DEF PurgeInv

\* A purge that saw the run it stopped and its children end leaves nothing of
\* what they wrote (StoppedRunLeavesNothing).
THEOREM PurgeLeavesNothing == Spec => []StoppedRunLeavesNothing
<1>1. Init => PurgeInv
  <2> SUFFICES ASSUME Init PROVE PurgeInv
    OBVIOUS
  <2>1. at \in [Requests -> {"idle", "absent"}]
    BY DEF Init
  <2>2. Removers \subseteq Requests /\ Spawners \subseteq Requests
    BY ConversationAssumption DEF ConversationAssumption, Removers, Requests, Claimers, Runs
  <2>3. \A k \in Spawners : kid[k].at = "none" /\ ~kid[k].texts /\ ~kid[k].log
    BY DEF Init, NoKid
  <2>4. \A d \in Jobs : job[d].at \in {"idle", "absent"} /\ ~job[d].purge
    BY DEF Init, NoJob
  <2>5. conv = "live"
    BY DEF Init
  <2>6. KidPlaces /\ PurgesKnown
    BY <2>1, <2>2, <2>3, <2>4, <2>5 DEF KidPlaces, PurgesKnown
  <2>7. WaitsForIt /\ EndedRunsLeft
    BY <2>4 DEF WaitsForIt, EndedRunsLeft, SeenToEnd, Waited
  <2>8. KidsKept
    BY <2>3, <2>4 DEF KidsKept, Kept
  <2> QED BY <2>6, <2>7, <2>8 DEF PurgeInv
<1>2. TypeOK /\ ClaimsExclude /\ LogsInv /\ PurgeInv /\ [Next]_vars => PurgeInv'
  BY PurgeInvStep, ConversationAssumption
<1>3. TypeOK /\ PurgeInv => StoppedRunLeavesNothing
  <2> SUFFICES ASSUME TypeOK, PurgeInv, NEW d \in Jobs,
                      job[d].at = "done", job[d].purge, job[d].ended, ~Removing, ~Unclaimed,
                      \A e \in Jobs : job[e].at \in {"absent", "idle", "done"},
                      \A e \in Jobs \ {d} : ~job[e].purge
               PROVE  /\ \A row \in rows : row.by # job[d].stopped
                      /\ job[d].stopped \in Requests => log[job[d].stopped] = 0
                      /\ job[d].stopped \in Spawners =>
                           ~kid[job[d].stopped].texts /\ ~kid[job[d].stopped].log
    BY DEF StoppedRunLeavesNothing
  <2>1. job[d].stopped \in Requests \cup {NoOne} /\ Spawners \subseteq Requests
    BY ConversationAssumption
       DEF ConversationAssumption, TypeOK, JobStates, Requests, Claimers, Runs
  <2>2. CASE job[d].stopped = NoOne
    <3>1. \A row \in rows : row.by \in Requests
      BY DEF TypeOK, Rows
    <3> QED BY <2>1, <2>2, <3>1, ConversationAssumption DEF ConversationAssumption
  <2>3. CASE job[d].stopped \in Requests
    <3>1. LeftOf(d, job[d].stopped)
      BY <2>3 DEF PurgeInv, EndedRunsLeft, SeenToEnd, Waited
    <3>2. Alone(d)
      BY DEF Alone
    <3>3. \A k \in Spawners : ~ToDrop(k)
      BY DEF ToDrop, Removing, Removers, PurgeInv, KidPlaces
    <3> QED BY <3>1, <3>2, <3>3 DEF LeftOf
  <2> QED BY <2>1, <2>2, <2>3
<1> QED BY <1>1, <1>2, <1>3, ConversationTypes, OneHolderAtATime, LogsInvariant, PTL DEF Spec
=============================================================================
