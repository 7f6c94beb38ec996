------------------------- MODULE SandboxPoolProofs -------------------------
(***************************************************************************)
(* SandboxPool for any conversations, processes, days and allocation: the  *)
(* types, that the allocation is never exceeded, and what becomes of the   *)
(* containers.                                                             *)
(*                                                                         *)
(* The allocation's argument counts reservations rather than containers.   *)
(* Who decides has read a number of reservations that only shrinks until   *)
(* it adds its own, and a row comes to say running only by somebody who    *)
(* holds one.  The containers' argument is at the head of its part.        *)
(***************************************************************************)
EXTENDS SandboxPool, FiniteSetTheorems, TLAPS

\* TypeOK without what the places of the holders say.
Types ==
  /\ engine \in [Refs -> {"none", "running", "stopped", "gone"}]
  /\ row \in [Refs -> {"none", "running", "stopped", "destroyed"}]
  /\ home \in [Refs -> Convs] /\ maker \in [Refs -> Procs \cup {NoOne}]
  /\ born \in [Refs -> 0..restarts]
  /\ active \in [Convs -> Entries]
  /\ pending \in [Convs -> Calls \cup {NoOne}]
  /\ reserved \in SUBSET Procs
  /\ deciding \in Procs \cup {NoOne}
  /\ pr \in [Procs -> ProcStates]
  /\ restarts \in Nat /\ ahead \subseteq Mishaps /\ lost \subseteq Refs

HoldPlaces == {"start", "mark", "settle", "make", "record", "copy", "land", "discard"}
MustPlaces == HoldPlaces \ {"start", "settle"}
DecidePlaces == {"measure", "reconcile", "remeasure"}

\* Who holds a reservation is where one is held; these places are reached
\* with one only; one process decides, on no fewer reservations than there are.
Holders == \A p \in reserved : pr[p].at \in HoldPlaces
MustHold == \A p \in Procs : pr[p].at \in MustPlaces => p \in reserved
Decider ==
  \A p \in Procs : pr[p].at \in DecidePlaces =>
    deciding = p /\ Cardinality(reserved) <= pr[p].held

\* Who is about to make a container has none yet.
Blank(x) ==
  \/ x.at \in {"lookup", "make"}
  \/ x.at \in DecidePlaces \cup {"reserve"} /\ x.goal = "make"
Makers == \A p \in Procs : Blank(pr[p]) => pr[p].ref = NoRef

History == forsaken \subseteq Refs /\ revived \subseteq Refs

Positions == Holders /\ MustHold /\ Decider /\ Makers
IInv == Types /\ Positions /\ ChargedWithinLimit

-----------------------------------------------------------------------------
(* Finite sets. *)

LEMMA Finite ==
  ASSUME Types
  PROVE  /\ IsFiniteSet(reserved) /\ Cardinality(reserved) \in Nat
         /\ \A S \in SUBSET Refs : IsFiniteSet(S) /\ Cardinality(S) \in Nat
         /\ \A S, T \in SUBSET Refs : S \subseteq T => Cardinality(S) <= Cardinality(T)
<1>1. IsFiniteSet(reserved) /\ Cardinality(reserved) \in Nat
  BY PoolAssumption, FS_Subset, FS_CardinalityType DEF Types
<1>2. \A S \in SUBSET Refs : IsFiniteSet(S) /\ Cardinality(S) \in Nat
  BY PoolAssumption, FS_Subset, FS_CardinalityType
<1>3. ASSUME NEW S \in SUBSET Refs, NEW T \in SUBSET Refs, S \subseteq T
      PROVE  Cardinality(S) <= Cardinality(T)
  BY <1>2, <1>3, FS_Subset
<1>4. QED BY <1>1, <1>2, <1>3

LEMMA RowsAreRefs == RunningRows \in SUBSET Refs /\ RunningRows \ Starting \in SUBSET Refs
BY DEF RunningRows

\* With one element more, a set is at most one larger.
LEMMA OneMore ==
  ASSUME Types, NEW S \in SUBSET Refs, NEW T \in SUBSET Refs, NEW x, T \subseteq S \cup {x}
  PROVE  Cardinality(T) <= Cardinality(S) + 1
<1>1. IsFiniteSet(S) /\ Cardinality(S) \in Nat
  BY Finite
<1>2. /\ IsFiniteSet(S \cup {x}) /\ Cardinality(S \cup {x}) \in Nat
      /\ Cardinality(S \cup {x}) <= Cardinality(S) + 1
  <2>1. IsFiniteSet(S \cup {x})
    BY <1>1, FS_AddElement
  <2>2. Cardinality(S \cup {x}) = IF x \in S THEN Cardinality(S) ELSE Cardinality(S) + 1
    BY <1>1, FS_AddElement
  <2>3. QED BY <1>1, <2>1, <2>2
<1>3. T \in SUBSET (S \cup {x})
  OBVIOUS
<1>4. Cardinality(T) <= Cardinality(S \cup {x}) /\ Cardinality(T) \in Nat
  BY <1>2, <1>3, FS_Subset, FS_CardinalityType, Finite
<1>5. QED BY <1>1, <1>2, <1>4

\* There are no more containers being started than reservations.
LEMMA StartingBound ==
  ASSUME Types
  PROVE  IsFiniteSet(Starting) /\ Cardinality(Starting) <= Cardinality(reserved)
<1> DEFINE f == [p \in reserved |-> pr[p].ref]
<1>1. f \in Surjection(reserved, Starting)
  BY DEF Surjection, Starting
<1>2. QED BY <1>1, Finite, FS_Surjection

-----------------------------------------------------------------------------
(* What a step may do to the charge. *)

\* Nobody reserves or releases, and no row runs that nobody is starting.
LEMMA ChargeKept ==
  ASSUME IInv, Types', reserved' = reserved,
         (RunningRows \ Starting)' \subseteq RunningRows \ Starting
  PROVE  ChargedWithinLimit'
<1>1. (RunningRows \ Starting)' \in SUBSET Refs
  BY DEF RunningRows
<1>2. Cardinality((RunningRows \ Starting)') <= Cardinality(RunningRows \ Starting)
  BY <1>1, RowsAreRefs, Finite DEF IInv
<1>3. /\ Cardinality((RunningRows \ Starting)') \in Nat /\ Cardinality(RunningRows \ Starting) \in Nat
      /\ Cardinality(reserved) \in Nat /\ Limit \in Nat
  BY <1>1, RowsAreRefs, Finite, PoolAssumption DEF IInv
<1>4. Charged' = Cardinality(reserved) + Cardinality((RunningRows \ Starting)')
  BY DEF Charged
<1>5. QED BY <1>2, <1>3, <1>4 DEF IInv, ChargedWithinLimit, Charged

\* A holder lets go, and at most its own container's row comes to count.
LEMMA ChargeReleased ==
  ASSUME IInv, Types', NEW p \in reserved, reserved' = reserved \ {p},
         (RunningRows \ Starting)' \subseteq (RunningRows \ Starting) \cup {pr[p].ref}
  PROVE  ChargedWithinLimit'
<1>1. (RunningRows \ Starting)' \in SUBSET Refs
  BY DEF RunningRows
<1>2. Cardinality((RunningRows \ Starting)') <= Cardinality(RunningRows \ Starting) + 1
  BY <1>1, RowsAreRefs, OneMore DEF IInv
<1>3. Cardinality(reserved \ {p}) = Cardinality(reserved) - 1
  BY Finite, FS_RemoveElement DEF IInv
<1>4. /\ Cardinality((RunningRows \ Starting)') \in Nat /\ Cardinality(RunningRows \ Starting) \in Nat
      /\ Cardinality(reserved) \in Nat /\ Limit \in Nat
  BY <1>1, RowsAreRefs, Finite, PoolAssumption DEF IInv
<1>5. Charged' = Cardinality(reserved) - 1 + Cardinality((RunningRows \ Starting)')
  BY <1>3 DEF Charged
<1>6. QED BY <1>2, <1>4, <1>5 DEF IInv, ChargedWithinLimit, Charged

\* All of them let go at once.
LEMMA ChargeDropped ==
  ASSUME IInv, Types', reserved' = {}, RunningRows' = RunningRows
  PROVE  ChargedWithinLimit'
<1>1. Starting' = {}
  BY DEF Starting
<1>2. Charged' = Cardinality(RunningRows)
  BY <1>1, FS_EmptySet, RowsAreRefs, Finite DEF Charged, IInv
<1>3. RunningRows \subseteq Starting \cup (RunningRows \ Starting)
  OBVIOUS
<1>4. /\ IsFiniteSet(Starting) /\ Cardinality(Starting) <= Cardinality(reserved)
      /\ Cardinality(Starting) \in Nat
      /\ IsFiniteSet(RunningRows \ Starting) /\ Cardinality(RunningRows \ Starting) \in Nat
      /\ Cardinality(reserved) \in Nat /\ Limit \in Nat
  BY StartingBound, RowsAreRefs, Finite, FS_CardinalityType, PoolAssumption DEF IInv
<1>5. Cardinality(RunningRows) <= Cardinality(Starting) + Cardinality(RunningRows \ Starting)
  <2>1. /\ IsFiniteSet(Starting \cup (RunningRows \ Starting))
        /\ Cardinality(Starting \cup (RunningRows \ Starting))
             = Cardinality(Starting) + Cardinality(RunningRows \ Starting)
               - Cardinality(Starting \cap (RunningRows \ Starting))
    BY <1>4, FS_Union
  <2>2. Starting \cap (RunningRows \ Starting) = {}
    OBVIOUS
  <2>3. Cardinality(RunningRows) <= Cardinality(Starting \cup (RunningRows \ Starting))
    BY <1>3, <2>1, FS_Subset
  <2>4. QED BY <1>4, <2>1, <2>2, <2>3, FS_EmptySet
<1>6. Cardinality(RunningRows) \in Nat
  BY RowsAreRefs, Finite DEF IInv
<1>7. QED BY <1>2, <1>4, <1>5, <1>6 DEF IInv, ChargedWithinLimit, Charged

-----------------------------------------------------------------------------
(* Types. *)

LEMMA RestTypes ==
  ASSUME NEW place \in Places
  PROVE  /\ AtRest(place) \in ProcStates /\ AtRest(place).at = place
         /\ [AtRest(place) EXCEPT !.goal = "make"] \in ProcStates
         /\ [AtRest(place) EXCEPT !.goal = "make"].at = place
BY DEF AtRest, ProcStates, Ref0, NoEntry, Entries, Goals, NoRef

LEMMA EachProc == Types => \A p \in Procs : pr[p] \in ProcStates
BY DEF Types

LEMMA InitTypes == Init => Types
<1> SUFFICES ASSUME Init PROVE Types
  OBVIOUS
<1>1. PICK start \in [Convs -> {"none", "used", "paused"}], first \in [Convs -> Refs], day \in Days :
        Opens(start, first, day)
  BY DEF Init
<1>2. engine \in [Refs -> {"none", "running", "stopped", "gone"}]
  BY <1>1 DEF Opens, Opening
<1>3. row \in [Refs -> {"none", "running", "stopped", "destroyed"}]
  BY <1>1 DEF Opens, Opening
<1>4. home \in [Refs -> Convs]
  <2>1. \A f \in Refs : (CHOOSE c \in Convs : (\E d \in Convs : first[d] = f) => first[c] = f) \in Convs
    BY PoolAssumption
  <2>2. QED BY <1>1, <2>1 DEF Opens
<1>5. active \in [Convs -> Entries]
  BY <1>1 DEF Opens, Entries, NoEntry, Ref0
<1>6. pr \in [Procs -> ProcStates]
  BY <1>1, RestTypes DEF Opens, Places
<1>7. QED BY <1>1, <1>2, <1>3, <1>4, <1>5, <1>6 DEF Init, Types, Opens

LEMMA EndsTypes ==
  ASSUME Types, NEW p \in Procs, Ends(p)
  PROVE  /\ pr' \in [Procs -> ProcStates]
         /\ pending' \in [Convs -> Calls \cup {NoOne}]
         /\ reserved' \in SUBSET Procs
<1>1. AtRest("done") \in ProcStates
  BY RestTypes DEF Places
<1>2. QED BY <1>1, EachProc DEF Ends, Types

LEMMA GoesTypes ==
  ASSUME Types, NEW p \in Procs, NEW place \in Places, Goes(p, place)
  PROVE  /\ pr' \in [Procs -> ProcStates]
         /\ pr'[p] = [pr[p] EXCEPT !.at = place]
         /\ \A q \in Procs \ {p} : pr'[q] = pr[q]
BY DEF Goes, Types, ProcStates

\* The parts of the state that several actions change in one way.
LEMMA PoolUpdates ==
  ASSUME Types
  PROVE  /\ \A f : Started(f) => engine' \in [Refs -> {"none", "running", "stopped", "gone"}]
         /\ \A f : Halt(f) => engine' \in [Refs -> {"none", "running", "stopped", "gone"}]
         /\ \A S : Removed(S) \in [Refs -> {"none", "running", "stopped", "gone"}]
         /\ \A S : Buried(S) \in [Refs -> {"none", "running", "stopped", "destroyed"}]
         /\ \A f : Stopped(f) \in [Refs -> {"none", "running", "stopped", "destroyed"}]
         /\ \A S : BuryDead(S) => row' \in [Refs -> {"none", "running", "stopped", "destroyed"}]
         /\ \A p \in Procs : JoinOrCreate(p) => pending' \in [Convs -> Calls \cup {NoOne}] \/ p \notin Calls
         /\ \A request : Fails(request) => ahead' \subseteq Mishaps
         /\ \A f : Halt(f) => ahead' \subseteq Mishaps
         /\ \A S : BuryDead(S) => ahead' \subseteq Mishaps
         /\ \A S : Remove(S) => /\ engine' \in [Refs -> {"none", "running", "stopped", "gone"}]
                                /\ ahead' \subseteq Mishaps
BY DEF Types, Started, Halt, Halted, Remove, Removed, Buried, Stopped, BuryDead, JoinOrCreate, Fails,
       Happens, Answers

LEMMA Joining ==
  ASSUME Types, NEW p \in Procs, JoinOrCreate(p)
  PROVE  pr' \in [Procs -> ProcStates]
BY EachProc, RestTypes DEF JoinOrCreate, Types, Places

\* A measure reads two numbers.
LEMMA Reads ==
  ASSUME Types, NEW turn, NEW p
  PROVE  Reading(turn, Replaced(p)) \in Nat
<1>1. RunningRows \ Replaced(p) \in SUBSET Refs
  BY RowsAreRefs
<1>2. QED BY <1>1, Finite DEF Reading

LEMMA WakesTypes ==
  ASSUME Types, NEW p \in Procs, NEW f \in Refs, Wakes(p, f)
  PROVE  pr' \in [Procs -> ProcStates]
<1>1. "reserve" \in Places /\ "start" \in Places /\ "wake" \in Goals /\ "none" \in Goals /\ f \in Ref0
  BY DEF Places, Goals, Ref0
<1>2. CASE row[f] = "stopped"
  <2>1. pr' = [pr EXCEPT ![p].ref = f, ![p].at = "reserve", ![p].goal = "wake"]
    BY <1>2 DEF Wakes
  <2>2. [pr[p] EXCEPT !.ref = f, !.at = "reserve", !.goal = "wake"] \in ProcStates
    BY <1>1, EachProc DEF ProcStates
  <2>3. QED BY <2>1, <2>2 DEF Types
<1>3. CASE row[f] # "stopped"
  <2>1. pr' = [pr EXCEPT ![p].ref = f, ![p].at = "start", ![p].goal = "none"]
    BY <1>3 DEF Wakes
  <2>2. [pr[p] EXCEPT !.ref = f, !.at = "start", !.goal = "none"] \in ProcStates
    BY <1>1, EachProc DEF ProcStates
  <2>3. QED BY <2>1, <2>2 DEF Types
<1>4. QED BY <1>2, <1>3

LEMMA NewIsUnmade == Unmade # {} => New \in Unmade /\ New \in Refs
BY DEF Unmade, New

\* Every action keeps the types.
LEMMA TypesReserving ==
  ASSUME Types, NEW p \in Procs, Reserving(p)
  PROVE  Types'
<1>1. CASE Reserve(p)
  <2>1. "measure" \in Places
    BY DEF Places
  <2>2. Reading(1, Replaced(p)) \in Nat
    BY Reads
  <2>3. [pr[p] EXCEPT !.at = "measure", !.held = Reading(1, Replaced(p))] \in ProcStates
    BY <1>1, <2>1, <2>2, EachProc DEF ProcStates
  <2>4. pr' \in [Procs -> ProcStates]
    BY <1>1, <2>1, <2>2, <2>3, EachProc DEF Reserve, Types
  <2>5. QED
    BY <1>1, <2>1, <2>2, <2>3, <2>4 DEF Reserve, Types, poolVars, faultVars
<1>2. CASE Grant(p)
  <2>1. Granted(pr[p].goal) \in Places
    BY DEF Granted, Places
  <2>2. [pr[p] EXCEPT !.at = Granted(pr[p].goal), !.held = 0] \in ProcStates
    BY <1>2, <2>1, EachProc DEF ProcStates
  <2>3. pr' \in [Procs -> ProcStates]
    BY <1>2, <2>1, <2>2, EachProc DEF Grant, Types
  <2>4. QED
    BY <1>2, <2>1, <2>2, <2>3 DEF Grant, Types, poolVars, faultVars
<1>3. CASE LooksAgain(p)
  <2>1. "reconcile" \in Places
    BY DEF Places
  <2>2. pr' \in [Procs -> ProcStates]
    BY <1>3, <2>1, GoesTypes DEF LooksAgain
  <2>3. QED
    BY <1>3, <2>1, <2>2 DEF LooksAgain, Types, poolVars, faultVars
<1>4. CASE Reconcile(p)
  <2>1. "remeasure" \in Places
    BY DEF Places
  <2>2. Reading(1, Replaced(p)) \in Nat
    BY Reads
  <2>3. [pr[p] EXCEPT !.at = "remeasure", !.held = Reading(1, Replaced(p))] \in ProcStates
    BY <1>4, <2>1, <2>2, EachProc DEF ProcStates
  <2>4. pr' \in [Procs -> ProcStates]
    BY <1>4, <2>1, <2>2, <2>3, EachProc DEF Reconcile, Types
  <2>5. row' \in [Refs -> {"none", "running", "stopped", "destroyed"}] /\ ahead' \subseteq Mishaps
    BY <1>4, PoolUpdates DEF Reconcile
  <2>6. QED
    BY <1>4, <2>1, <2>2, <2>3, <2>4, <2>5 DEF Reconcile, Types, poolVars, faultVars
<1>5. CASE Refuse(p)
  <2>1. pr' \in [Procs -> ProcStates] /\ pending' \in [Convs -> Calls \cup {NoOne}] /\ reserved' \in SUBSET Procs
    BY <1>5, EndsTypes DEF Refuse
  <2>2. QED
    BY <1>5, <2>1 DEF Refuse, Types, poolVars, faultVars
<1>6. QED BY <1>1, <1>2, <1>3, <1>4, <1>5 DEF Reserving

LEMMA TypesWaking ==
  ASSUME Types, NEW p \in Procs, Waking(p)
  PROVE  Types'
<1>1. CASE Call(p)
  <2>1. ConvOf[p] \in Convs /\ active[ConvOf[p]] \in Entries /\ pending[ConvOf[p]] \in Calls \cup {NoOne}
    BY <1>1, PoolAssumption DEF Types
  <2>2. "cached" \in Places
    BY DEF Places
  <2>3. [pr[p] EXCEPT !.at = "cached", !.ref = active[ConvOf[p]].ref] \in ProcStates
    BY <1>1, <2>1, <2>2, EachProc DEF ProcStates, Entries
  <2>4. pr' \in [Procs -> ProcStates] /\ pending' \in [Convs -> Calls \cup {NoOne}]
    <3>1. CASE active[ConvOf[p]] # NoEntry
      BY <1>1, <2>1, <2>2, <2>3, <3>1 DEF Call, Types
    <3>2. CASE active[ConvOf[p]] = NoEntry
      BY <1>1, <3>2, Joining, PoolUpdates DEF Call, Types
    <3>3. QED BY <3>1, <3>2
  <2>5. QED
    BY <1>1, <2>1, <2>2, <2>3, <2>4 DEF Call, Types, poolVars, faultVars
<1>2. CASE Cached(p)
  <2>1. "done" \in Places /\ "tomb" \in Places
    BY DEF Places
  <2>2. pr' \in [Procs -> ProcStates]
    BY <1>2, <2>1, GoesTypes DEF Cached
  <2>3. NoEntry \in Entries
    BY DEF NoEntry, Entries, Ref0
  <2>4. active' \in [Convs -> Entries]
    BY <1>2, <2>1, <2>2, <2>3 DEF Cached, Types
  <2>5. engine' \in [Refs -> {"none", "running", "stopped", "gone"}] /\ ahead' \subseteq Mishaps
    BY <1>2, PoolUpdates DEF Cached, Types, Answers
  <2>6. QED
    BY <1>2, <2>1, <2>2, <2>3, <2>4, <2>5 DEF Cached, Types, poolVars, faultVars
<1>3. CASE Tomb(p)
  <2>1. pr' \in [Procs -> ProcStates] /\ pending' \in [Convs -> Calls \cup {NoOne}]
    BY <1>3, Joining, PoolUpdates DEF Tomb
  <2>2. row' \in [Refs -> {"none", "running", "stopped", "destroyed"}]
    BY <1>3, PoolUpdates DEF Tomb
  <2>3. QED
    BY <1>3, <2>1, <2>2 DEF Tomb, Types, poolVars, faultVars
<1>4. CASE Lookup(p)
  <2>1. "reserve" \in Places /\ "start" \in Places
    BY DEF Places
  <2>3. [pr[p] EXCEPT !.at = "reserve", !.goal = "make"] \in ProcStates
    BY <1>4, <2>1, EachProc DEF ProcStates, Goals
  <2>4. pr' \in [Procs -> ProcStates]
    <3>1. CASE Recoverable(ConvOf[p]) = {}
      BY <1>4, <2>1, <2>3, <3>1 DEF Lookup, Types
    <3>2. CASE \E f \in Recoverable(ConvOf[p]) : Wakes(p, f)
      BY <3>2, WakesTypes DEF Recoverable, Claims
    <3>3. QED
      BY <1>4, <3>1, <3>2 DEF Lookup
  <2>5. QED
    BY <1>4, <2>4 DEF Lookup, Types, poolVars, faultVars
<1>5. CASE Terminal(p)
  <2>1. pr' \in [Procs -> ProcStates]
    BY <1>5, WakesTypes DEF Terminal, Recoverable, Claims
  <2>2. QED
    BY <1>5, <2>1 DEF Terminal, Types, poolVars, faultVars
<1>6. CASE Start(p)
  <2>1. "mark" \in Places /\ "touch" \in Places /\ "dead" \in Places
    BY DEF Places
  <2>2. pr' \in [Procs -> ProcStates] /\ pending' \in [Convs -> Calls \cup {NoOne}] /\ reserved' \in SUBSET Procs
    BY <1>6, <2>1, GoesTypes, EndsTypes DEF Start, Types
  <2>3. engine' \in [Refs -> {"none", "running", "stopped", "gone"}] /\ ahead' \subseteq Mishaps
    BY <1>6, PoolUpdates DEF Start, Types, Answers
  <2>4. QED
    BY <1>6, <2>1, <2>2, <2>3 DEF Start, Types, poolVars, faultVars
<1>7. CASE Touch(p)
  <2>1. "settle" \in Places /\ "reserve" \in Places
    BY DEF Places
  <2>2. \A place \in {"reserve", "settle"}, goal \in {"late", "none"} :
       [pr[p] EXCEPT !.at = place, !.goal = goal] \in ProcStates
    BY <1>7, <2>1, EachProc DEF ProcStates, Goals
  <2>3. pr' \in [Procs -> ProcStates]
    BY <1>7, <2>1, <2>2, EachProc DEF Touch, Types
  <2>4. QED
    BY <1>7, <2>1, <2>2, <2>3 DEF Touch, Types, poolVars, faultVars
<1>8. CASE Mark(p)
  <2>1. "settle" \in Places
    BY DEF Places
  <2>2. pr' \in [Procs -> ProcStates]
    BY <1>8, <2>1, GoesTypes DEF Mark
  <2>3. QED
    BY <1>8, <2>1, <2>2 DEF Mark, Types, poolVars, faultVars
<1>9. CASE Settle(p)
  <2>1. ConvOf[p] \in Convs /\ active[ConvOf[p]] \in Entries /\ pending[ConvOf[p]] \in Calls \cup {NoOne}
    BY <1>9, PoolAssumption DEF Types
  <2>2. [ref |-> pr[p].ref, by |-> p] \in Entries /\ NoEntry \in Entries
    BY <1>9, EachProc DEF ProcStates, Entries, NoEntry, Ref0
  <2>3. active' \in [Convs -> Entries]
    BY <1>9, <2>1, <2>2 DEF Settle, Types
  <2>4. pr' \in [Procs -> ProcStates] /\ pending' \in [Convs -> Calls \cup {NoOne}] /\ reserved' \in SUBSET Procs
    BY <1>9, EndsTypes DEF Settle
  <2>5. QED
    BY <1>9, <2>1, <2>2, <2>3, <2>4 DEF Settle, Types, poolVars, faultVars
<1>10. CASE DeadRow(p)
  <2>1. "reserve" \in Places
    BY DEF Places
  <2>2. [AtRest("reserve") EXCEPT !.goal = "make"] \in ProcStates
    BY <1>10, <2>1, RestTypes
  <2>3. pr' \in [Procs -> ProcStates] /\ pending' \in [Convs -> Calls \cup {NoOne}] /\ reserved' \in SUBSET Procs
    BY <1>10, <2>1, <2>2, EndsTypes DEF DeadRow, Types
  <2>4. row' \in [Refs -> {"none", "running", "stopped", "destroyed"}]
    BY <1>10, PoolUpdates DEF DeadRow
  <2>5. QED
    BY <1>10, <2>1, <2>2, <2>3, <2>4 DEF DeadRow, Types, poolVars, faultVars
<1>11. CASE Make(p)
  <2>1. ConvOf[p] \in Convs /\ active[ConvOf[p]] \in Entries /\ pending[ConvOf[p]] \in Calls \cup {NoOne}
    BY <1>11, PoolAssumption DEF Types
  <2>2. "record" \in Places
    BY DEF Places
  <2>3. New \in Refs
    BY <1>11, NewIsUnmade DEF Make
  <2>4. [pr[p] EXCEPT !.at = "record", !.ref = New] \in ProcStates
    BY <1>11, <2>1, <2>2, <2>3, EachProc DEF ProcStates, Ref0
  <2>5. pr' \in [Procs -> ProcStates] /\ pending' \in [Convs -> Calls \cup {NoOne}] /\ reserved' \in SUBSET Procs
    BY <1>11, <2>1, <2>2, <2>3, <2>4, EndsTypes DEF Make, Types
  <2>6. engine' \in [Refs -> {"none", "running", "stopped", "gone"}] /\ home' \in [Refs -> Convs]
         /\ maker' \in [Refs -> Procs \cup {NoOne}] /\ born' \in [Refs -> 0..restarts]
    BY <1>11, <2>1, <2>2, <2>3, <2>4, <2>5 DEF Make, Creates, Types, poolVars
  <2>7. ahead' \subseteq Mishaps
    BY <1>11, PoolUpdates DEF Make, Answers, Types
  <2>8. QED
    BY <1>11, <2>1, <2>2, <2>3, <2>4, <2>5, <2>6, <2>7 DEF Make, Types, poolVars, faultVars
<1>12. CASE Record(p)
  <2>1. ConvOf[p] \in Convs /\ active[ConvOf[p]] \in Entries /\ pending[ConvOf[p]] \in Calls \cup {NoOne}
    BY <1>12, PoolAssumption DEF Types
  <2>2. [ref |-> pr[p].ref, by |-> p] \in Entries /\ NoEntry \in Entries
    BY <1>12, EachProc DEF ProcStates, Entries, NoEntry, Ref0
  <2>3. active' \in [Convs -> Entries]
    BY <1>12, <2>1, <2>2 DEF Record, Types
  <2>4. pr' \in [Procs -> ProcStates] /\ pending' \in [Convs -> Calls \cup {NoOne}] /\ reserved' \in SUBSET Procs
    BY <1>12, EndsTypes DEF Record
  <2>5. row' \in [Refs -> {"none", "running", "stopped", "destroyed"}]
    BY <1>12 DEF Record, Types
  <2>6. QED
    BY <1>12, <2>1, <2>2, <2>3, <2>4, <2>5 DEF Record, Types, poolVars, faultVars
<1>13. QED BY <1>1, <1>2, <1>3, <1>4, <1>5, <1>6, <1>7, <1>8, <1>9, <1>10, <1>11, <1>12 DEF Waking

LEMMA TypesPausing ==
  ASSUME Types, NEW p \in Procs, Pausing(p)
  PROVE  Types'
<1>1. CASE Pause(p)
  <2>1. ConvOf[p] \in Convs /\ active[ConvOf[p]] \in Entries /\ pending[ConvOf[p]] \in Calls \cup {NoOne}
    BY <1>1, PoolAssumption DEF Types
  <2>2. "pause" \in Places
    BY DEF Places
  <2>3. \A f \in Refs, e \in Entries : [pr[p] EXCEPT !.at = "pause", !.ref = f, !.mine = e] \in ProcStates
    BY <1>1, <2>1, <2>2, EachProc DEF ProcStates, Ref0
  <2>4. NoEntry \in Entries
    BY DEF NoEntry, Entries, Ref0
  <2>5. pr' \in [Procs -> ProcStates]
    <3>1. PICK f \in RunningClaims(ConvOf[p]) :
            pr' = [pr EXCEPT ![p].at = "pause", ![p].ref = f,
                             ![p].mine = IF active[ConvOf[p]].ref = f THEN active[ConvOf[p]] ELSE NoEntry]
      BY <1>1 DEF Pause
    <3>2. f \in Refs
      BY DEF RunningClaims
    <3>3. CASE active[ConvOf[p]].ref = f
      <4>1. pr' = [pr EXCEPT ![p].at = "pause", ![p].ref = f, ![p].mine = active[ConvOf[p]]]
        BY <3>1, <3>3
      <4>2. QED BY <2>1, <2>3, <3>2, <4>1 DEF Types
    <3>4. CASE active[ConvOf[p]].ref # f
      <4>1. pr' = [pr EXCEPT ![p].at = "pause", ![p].ref = f, ![p].mine = NoEntry]
        BY <3>1, <3>4
      <4>2. QED BY <2>3, <2>4, <3>2, <4>1 DEF Types
    <3>5. QED BY <3>3, <3>4
  <2>6. QED
    BY <1>1, <2>1, <2>2, <2>3, <2>4, <2>5 DEF Pause, Types, poolVars, faultVars
<1>2. CASE MarkPaused(p)
  <2>1. ConvOf[p] \in Convs /\ active[ConvOf[p]] \in Entries /\ pending[ConvOf[p]] \in Calls \cup {NoOne}
    BY <1>2, PoolAssumption DEF Types
  <2>2. "stopping" \in Places /\ "done" \in Places
    BY DEF Places
  <2>3. pr' \in [Procs -> ProcStates]
    BY <1>2, <2>1, <2>2, GoesTypes DEF MarkPaused
  <2>4. NoEntry \in Entries
    BY DEF NoEntry, Entries, Ref0
  <2>5. active' \in [Convs -> Entries]
    BY <1>2, <2>1, <2>2, <2>3, <2>4 DEF MarkPaused, Types
  <2>6. row' \in [Refs -> {"none", "running", "stopped", "destroyed"}]
    BY <1>2, PoolUpdates DEF MarkPaused, Types
  <2>7. QED
    BY <1>2, <2>1, <2>2, <2>3, <2>4, <2>5, <2>6 DEF MarkPaused, Types, poolVars, faultVars
<1>3. CASE StopPaused(p)
  <2>1. "done" \in Places
    BY DEF Places
  <2>2. pr' \in [Procs -> ProcStates]
    BY <1>3, <2>1, GoesTypes DEF StopPaused
  <2>3. engine' \in [Refs -> {"none", "running", "stopped", "gone"}] /\ ahead' \subseteq Mishaps
    BY <1>3, PoolUpdates DEF StopPaused
  <2>4. QED
    BY <1>3, <2>1, <2>2, <2>3 DEF StopPaused, Types, poolVars, faultVars
<1>4. CASE Snapshot(p)
  <2>1. ConvOf[p] \in Convs /\ active[ConvOf[p]] \in Entries
    BY <1>4, PoolAssumption DEF Types
  <2>2. "snapped" \in Places
    BY DEF Places
  <2>3. [pr[p] EXCEPT !.at = "snapped", !.ref = active[ConvOf[p]].ref] \in ProcStates
    BY <2>1, <2>2, EachProc DEF ProcStates, Entries
  <2>4. pr' \in [Procs -> ProcStates]
    BY <1>4, <2>3, EachProc DEF Snapshot, Types
  <2>5. QED
    BY <1>4, <2>4 DEF Snapshot, Types, poolVars, faultVars
<1>5. CASE Tick(p)
  <2>1. "tick" \in Places /\ "done" \in Places
    BY DEF Places
  <2>2. pr' \in [Procs -> ProcStates]
    BY <1>5, <2>1, GoesTypes DEF Tick
  <2>3. NoEntry \in Entries
    BY DEF NoEntry, Entries, Ref0
  <2>4. active' \in [Convs -> Entries]
    BY <1>5, <2>3 DEF Tick, Types
  <2>5. QED
    BY <1>5, <2>2, <2>4 DEF Tick, Types, poolVars, faultVars
<1>6. CASE StopIdle(p)
  <2>1. "ticked" \in Places
    BY DEF Places
  <2>2. pr' \in [Procs -> ProcStates]
    BY <1>6, <2>1, GoesTypes DEF StopIdle
  <2>3. engine' \in [Refs -> {"none", "running", "stopped", "gone"}] /\ ahead' \subseteq Mishaps
    BY <1>6, PoolUpdates DEF StopIdle
  <2>4. QED
    BY <1>6, <2>1, <2>2, <2>3 DEF StopIdle, Types, poolVars, faultVars
<1>7. CASE MarkIdle(p)
  <2>1. "done" \in Places
    BY DEF Places
  <2>2. pr' \in [Procs -> ProcStates]
    BY <1>7, <2>1, GoesTypes DEF MarkIdle
  <2>3. row' \in [Refs -> {"none", "running", "stopped", "destroyed"}]
    BY <1>7, PoolUpdates DEF MarkIdle, Types
  <2>4. QED
    BY <1>7, <2>1, <2>2, <2>3 DEF MarkIdle, Types, poolVars, faultVars
<1>8. QED BY <1>1, <1>2, <1>3, <1>4, <1>5, <1>6, <1>7 DEF Pausing

LEMMA TypesSwitching ==
  ASSUME Types, NEW p \in Procs, Switching(p)
  PROVE  Types'
<1>1. CASE Switch(p)
  <2>1. "look" \in Places
    BY DEF Places
  <2>2. pr' \in [Procs -> ProcStates]
    BY <1>1, <2>1, GoesTypes DEF Switch
  <2>3. QED
    BY <1>1, <2>1, <2>2 DEF Switch, Types, poolVars, faultVars
<1>2. CASE FindWorking(p)
  <2>1. "done" \in Places /\ "inspect" \in Places
    BY DEF Places
  <2>2. \A f \in Refs : [pr[p] EXCEPT !.at = "inspect", !.ref = f] \in ProcStates
    BY <1>2, <2>1, EachProc DEF ProcStates, Ref0
  <2>3. Working(ConvOf[p]) \subseteq Refs
    BY DEF Working, InUse, Claims, RunningClaims
  <2>4. pr' \in [Procs -> ProcStates]
    <3>1. CASE Goes(p, "done")
      BY <1>2, <2>1, <2>2, <2>3, <3>1, GoesTypes
    <3>2. CASE \E f \in Working(ConvOf[p]) : pr' = [pr EXCEPT ![p].at = "inspect", ![p].ref = f]
      <4>1. PICK f \in Working(ConvOf[p]) : pr' = [pr EXCEPT ![p].at = "inspect", ![p].ref = f]
        BY <3>2
      <4>2. f \in Refs /\ [pr[p] EXCEPT !.at = "inspect", !.ref = f] \in ProcStates
        BY <2>2, <2>3
      <4>3. QED BY <4>1, <4>2 DEF Types
    <3>3. QED
      BY <1>2, <3>1, <3>2 DEF FindWorking
  <2>5. QED
    BY <1>2, <2>1, <2>2, <2>3, <2>4 DEF FindWorking, Types, poolVars, faultVars
<1>3. CASE Inspect(p)
  <2>1. ConvOf[p] \in Convs /\ active[ConvOf[p]] \in Entries /\ pending[ConvOf[p]] \in Calls \cup {NoOne}
    BY <1>3, PoolAssumption DEF Types
  <2>2. "reserve" \in Places /\ "done" \in Places
    BY DEF Places
  <2>3. [pr[p] EXCEPT !.at = "reserve", !.goal = "switch"] \in ProcStates
    BY <1>3, <2>1, <2>2, EachProc DEF ProcStates, Goals
  <2>4. pr' \in [Procs -> ProcStates]
    BY <1>3, <2>1, <2>2, <2>3, GoesTypes DEF Inspect, Types
  <2>5. NoEntry \in Entries
    BY DEF NoEntry, Entries, Ref0
  <2>6. active' \in [Convs -> Entries]
    BY <1>3, <2>1, <2>2, <2>3, <2>4, <2>5 DEF Inspect, Types
  <2>7. row' \in [Refs -> {"none", "running", "stopped", "destroyed"}]
    BY <1>3, PoolUpdates DEF Inspect, Types
  <2>8. QED
    BY <1>3, <2>1, <2>2, <2>3, <2>4, <2>5, <2>6, <2>7 DEF Inspect, Types, poolVars, faultVars
<1>4. CASE CreateNext(p)
  <2>1. ConvOf[p] \in Convs /\ active[ConvOf[p]] \in Entries /\ pending[ConvOf[p]] \in Calls \cup {NoOne}
    BY <1>4, PoolAssumption DEF Types
  <2>2. "land" \in Places
    BY DEF Places
  <2>3. New \in Refs
    BY <1>4, NewIsUnmade DEF CreateNext
  <2>4. [pr[p] EXCEPT !.at = "land", !.todo = {New}] \in ProcStates
    BY <1>4, <2>1, <2>2, <2>3, EachProc DEF ProcStates, Ref0
  <2>5. pr' \in [Procs -> ProcStates] /\ pending' \in [Convs -> Calls \cup {NoOne}] /\ reserved' \in SUBSET Procs
    BY <1>4, <2>1, <2>2, <2>3, <2>4, EndsTypes DEF CreateNext, Types
  <2>6. engine' \in [Refs -> {"none", "running", "stopped", "gone"}] /\ home' \in [Refs -> Convs]
         /\ maker' \in [Refs -> Procs \cup {NoOne}] /\ born' \in [Refs -> 0..restarts]
    BY <1>4, <2>1, <2>2, <2>3, <2>4, <2>5 DEF CreateNext, Creates, Types, poolVars
  <2>7. ahead' \subseteq Mishaps
    BY <1>4, PoolUpdates DEF CreateNext, Answers, Types
  <2>8. QED
    BY <1>4, <2>1, <2>2, <2>3, <2>4, <2>5, <2>6, <2>7 DEF CreateNext, Types, poolVars, faultVars
<1>5. CASE Land(p)
  <2>1. ConvOf[p] \in Convs /\ active[ConvOf[p]] \in Entries /\ pending[ConvOf[p]] \in Calls \cup {NoOne}
    BY <1>5, PoolAssumption DEF Types
  <2>2. "discard" \in Places
    BY DEF Places
  <2>3. pr[p].ref \in Ref0 /\ pr[p].todo \subseteq Ref0
    BY EachProc DEF ProcStates
  <2>4. PICK next \in pr[p].todo :
          /\ row' = [row EXCEPT ![pr[p].ref] = "destroyed", ![next] = "running"]
          /\ active' = [active EXCEPT ![ConvOf[p]] = [ref |-> next, by |-> p]]
          /\ pr' = [pr EXCEPT ![p].at = "discard", ![p].ref = next, ![p].todo = {pr[p].ref}]
    BY <1>5 DEF Land
  <2>5. next \in Ref0 /\ [ref |-> next, by |-> p] \in Entries
    BY <2>3, <2>4 DEF Entries
  <2>6. [pr[p] EXCEPT !.at = "discard", !.ref = next, !.todo = {pr[p].ref}] \in ProcStates
    BY <2>2, <2>3, <2>5, EachProc DEF ProcStates
  <2>7. pr' \in [Procs -> ProcStates]
    BY <2>4, <2>6 DEF Types
  <2>8. active' \in [Convs -> Entries] /\ row' \in [Refs -> {"none", "running", "stopped", "destroyed"}]
    BY <2>1, <2>4, <2>5 DEF Types
  <2>9. QED
    BY <1>5, <2>7, <2>8 DEF Land, Types, poolVars, faultVars
<1>6. CASE CopyFails(p)
  <2>1. pr' \in [Procs -> ProcStates] /\ pending' \in [Convs -> Calls \cup {NoOne}] /\ reserved' \in SUBSET Procs
    BY <1>6, EndsTypes DEF CopyFails
  <2>2. engine' \in [Refs -> {"none", "running", "stopped", "gone"}] /\ ahead' \subseteq Mishaps
    BY <1>6, PoolUpdates DEF CopyFails
  <2>3. QED
    BY <1>6, <2>1, <2>2 DEF CopyFails, Types, poolVars
<1>7. CASE Discard(p)
  <2>1. pr' \in [Procs -> ProcStates] /\ pending' \in [Convs -> Calls \cup {NoOne}] /\ reserved' \in SUBSET Procs
    BY <1>7, EndsTypes DEF Discard
  <2>2. engine' \in [Refs -> {"none", "running", "stopped", "gone"}] /\ ahead' \subseteq Mishaps
    BY <1>7, PoolUpdates DEF Discard
  <2>3. QED
    BY <1>7, <2>1, <2>2 DEF Discard, Types, poolVars
<1>8. QED BY <1>1, <1>2, <1>3, <1>4, <1>5, <1>6, <1>7 DEF Switching

LEMMA TypesDeleting ==
  ASSUME Types, NEW p \in Procs, Deleting(p)
  PROVE  Types'
<1>1. CASE Delete(p)
  <2>1. ConvOf[p] \in Convs /\ active[ConvOf[p]] \in Entries /\ pending[ConvOf[p]] \in Calls \cup {NoOne}
    BY <1>1, PoolAssumption DEF Types
  <2>2. "await" \in Places
    BY DEF Places
  <2>3. Claims(ConvOf[p]) \subseteq Refs
    BY DEF Claims
  <2>4. [pr[p] EXCEPT !.at = "await", !.owes = Claims(ConvOf[p]), !.awaits = pending[ConvOf[p]]] \in ProcStates
    BY <1>1, <2>1, <2>2, <2>3, EachProc DEF ProcStates
  <2>5. pr' \in [Procs -> ProcStates]
    BY <1>1, <2>1, <2>2, <2>3, <2>4, EachProc DEF Delete, Types
  <2>6. QED
    BY <1>1, <2>1, <2>2, <2>3, <2>4, <2>5 DEF Delete, Types, poolVars, faultVars
<1>2. CASE Forget(p)
  <2>1. ConvOf[p] \in Convs /\ active[ConvOf[p]] \in Entries /\ pending[ConvOf[p]] \in Calls \cup {NoOne}
    BY <1>2, PoolAssumption DEF Types
  <2>2. "list" \in Places
    BY DEF Places
  <2>3. pr' \in [Procs -> ProcStates]
    BY <1>2, <2>1, <2>2, GoesTypes DEF Forget
  <2>4. NoEntry \in Entries
    BY DEF NoEntry, Entries, Ref0
  <2>5. active' \in [Convs -> Entries]
    BY <1>2, <2>1, <2>2, <2>3, <2>4 DEF Forget, Types
  <2>6. QED
    BY <1>2, <2>1, <2>2, <2>3, <2>4, <2>5 DEF Forget, Types, poolVars, faultVars
<1>3. CASE ListRows(p)
  <2>1. "destroy" \in Places
    BY DEF Places
  <2>2. Claims(ConvOf[p]) \subseteq Refs
    BY DEF Claims
  <2>3. [pr[p] EXCEPT !.at = "destroy", !.todo = Claims(ConvOf[p])] \in ProcStates
    BY <1>3, <2>1, <2>2, EachProc DEF ProcStates, Ref0
  <2>4. pr' \in [Procs -> ProcStates]
    BY <1>3, <2>1, <2>2, <2>3, EachProc DEF ListRows, Types
  <2>5. QED
    BY <1>3, <2>1, <2>2, <2>3, <2>4 DEF ListRows, Types, poolVars, faultVars
<1>4. CASE DestroyOne(p)
  <2>1. CASE \E f \in pr[p].todo :
               /\ Remove({f})
               /\ row' = Buried({f})
               /\ pr' = [pr EXCEPT ![p].todo = @ \ {f}]
    <3>1. PICK f \in pr[p].todo :
            /\ Remove({f})
            /\ row' = Buried({f})
            /\ pr' = [pr EXCEPT ![p].todo = pr[p].todo \ {f}]
      BY <2>1
    <3>2. [pr[p] EXCEPT !.todo = pr[p].todo \ {f}] \in ProcStates
      BY EachProc DEF ProcStates
    <3>3. pr' \in [Procs -> ProcStates]
      BY <3>1, <3>2 DEF Types
    <3>4. /\ engine' \in [Refs -> {"none", "running", "stopped", "gone"}]
          /\ row' \in [Refs -> {"none", "running", "stopped", "destroyed"}]
          /\ ahead' \subseteq Mishaps
      BY <3>1, PoolUpdates
    <3>5. QED
      BY <1>4, <3>3, <3>4 DEF DestroyOne, Types, poolVars
  <2>2. CASE Goes(p, "done") /\ Answers /\ UNCHANGED <<engine, row>>
    <3>1. pr' \in [Procs -> ProcStates]
      BY <2>2, GoesTypes DEF Places
    <3>2. QED
      BY <1>4, <2>2, <3>1 DEF DestroyOne, Types, poolVars, Answers
  <2>3. QED
    BY <1>4, <2>1, <2>2 DEF DestroyOne
<1>5. QED BY <1>1, <1>2, <1>3, <1>4 DEF Deleting

LEMMA TypesBooting ==
  ASSUME Types, Booting
  PROVE  Types'
<1>1. CASE ReadClaims
  BY <1>1 DEF ReadClaims, TheRest, Types, poolVars
<1>2. CASE SweepDead
  <2>1. row' \in [Refs -> {"none", "running", "stopped", "destroyed"}] /\ ahead' \subseteq Mishaps
    BY <1>2, PoolUpdates DEF SweepDead
  <2>2. QED BY <1>2, <2>1 DEF SweepDead, TheRest, Types, poolVars
<1>3. CASE StopStray
  BY <1>3 DEF StopStray, TheRest, Types, poolVars
<1>4. CASE HaltStray
  <2>1. engine' \in [Refs -> {"none", "running", "stopped", "gone"}] /\ ahead' \subseteq Mishaps
    BY <1>4, PoolUpdates DEF HaltStray, Types, Answers
  <2>2. QED BY <1>4, <2>1 DEF HaltStray, TheRest, Types, poolVars
<1>5. CASE MarkStray
  <2>1. row' \in [Refs -> {"none", "running", "stopped", "destroyed"}]
    BY <1>5, PoolUpdates DEF MarkStray
  <2>2. QED BY <1>5, <2>1 DEF MarkStray, TheRest, Types, poolVars
<1>6. CASE SweepUnclaimed
  <2>1. engine' \in [Refs -> {"none", "running", "stopped", "gone"}] /\ ahead' \subseteq Mishaps
    BY <1>6, PoolUpdates DEF SweepUnclaimed
  <2>2. QED BY <1>6, <2>1 DEF SweepUnclaimed, TheRest, Types, poolVars
<1>7. QED BY <1>1, <1>2, <1>3, <1>4, <1>5, <1>6 DEF Booting

LEMMA TypesRestart ==
  ASSUME Types, Restart
  PROVE  Types'
<1>1. AtRest("lost") \in ProcStates
  BY RestTypes DEF Places
<1>2. pr' \in [Procs -> ProcStates]
  BY <1>1, EachProc DEF Restart
<1>3. NoEntry \in Entries
  BY DEF NoEntry, Entries, Ref0
<1>4. active' \in [Convs -> Entries] /\ pending' \in [Convs -> Calls \cup {NoOne}]
  BY <1>3 DEF Restart
<1>5. restarts \in Nat /\ restarts' = restarts + 1 /\ born' = born /\ born \in [Refs -> 0..restarts]
  BY DEF Restart, Types, poolVars
<1>6. restarts' \in Nat /\ born' \in [Refs -> 0..restarts']
  BY <1>5
<1>7. ahead' \subseteq Mishaps
  BY DEF Restart, Happens, Types
<1>8. QED BY <1>2, <1>4, <1>6, <1>7 DEF Restart, Types, poolVars

LEMMA TypesLose ==
  ASSUME Types, Lose
  PROVE  Types'
<1>1. ahead' \subseteq Mishaps
  BY DEF Lose, Happens, Types
<1>2. PICK f \in Refs : engine' = [engine EXCEPT ![f] = "gone"] /\ lost' = lost \cup {f}
  BY DEF Lose
<1>3. /\ engine' \in [Refs -> {"none", "running", "stopped", "gone"}]
      /\ lost' \subseteq Refs
  BY <1>2 DEF Types
<1>4. QED BY <1>1, <1>3 DEF Lose, Types, poolVars

LEMMA TypesStep == Types /\ [Next]_vars => Types'
<1> SUFFICES ASSUME Types, [Next]_vars PROVE Types'
  OBVIOUS
<1>1. ASSUME NEW p \in Procs,
             Reserving(p) \/ Waking(p) \/ Pausing(p) \/ Switching(p) \/ Deleting(p)
      PROVE  Types'
  BY <1>1, TypesReserving, TypesWaking, TypesPausing, TypesSwitching, TypesDeleting
<1>2. CASE Booting
  BY <1>2, TypesBooting
<1>3. CASE Restart
  BY <1>3, TypesRestart
<1>4. CASE Lose
  BY <1>4, TypesLose
<1>5. CASE UNCHANGED vars
  BY <1>5 DEF Types, vars, poolVars, faultVars
<1>6. QED BY <1>1, <1>2, <1>3, <1>4, <1>5 DEF Next, Step, Rest

-----------------------------------------------------------------------------
(* Places. *)

\* A step of p leaves the others where they are, but for those who joined it.
Others(p) ==
  \A q \in Procs \ {p} : pr'[q] = pr[q] \/ (pr[q].at = "joined" /\ pr'[q].at = "done")

\* Where p may go when it holds the reservations it held.
Arrives(p) ==
  /\ pr'[p].at \notin DecidePlaces
  /\ Blank(pr'[p]) => pr'[p].ref = NoRef
  /\ pr'[p].at \in MustPlaces => p \in reserved
  /\ p \in reserved => pr'[p].at \in HoldPlaces

LEMMA PlaceSets ==
  /\ DecidePlaces \cap HoldPlaces = {} /\ MustPlaces \subseteq HoldPlaces
  /\ "joined" \notin HoldPlaces /\ "done" \notin HoldPlaces \cup DecidePlaces
BY DEF DecidePlaces, HoldPlaces, MustPlaces

LEMMA NotHolding ==
  ASSUME IInv, NEW p \in Procs, pr[p].at \notin HoldPlaces
  PROVE  p \notin reserved
BY DEF IInv, Positions, Holders

LEMMA PositionsKept ==
  ASSUME IInv, Types', NEW p \in Procs, Others(p), UNCHANGED <<reserved, deciding>>,
         Arrives(p)
  PROVE  Positions'
<1>1. Holders'
  <2>1. ASSUME NEW q \in reserved' PROVE pr'[q].at \in HoldPlaces
    <3>1. CASE q = p
      BY <3>1, <2>1 DEF Arrives
    <3>2. CASE q # p
      BY <3>2, <2>1, PlaceSets DEF Others, IInv, Types, Positions, Holders
    <3>3. QED BY <3>1, <3>2
  <2>2. QED BY <2>1 DEF Holders
<1>2. MustHold'
  BY PlaceSets DEF Others, IInv, Positions, MustHold, Arrives
<1>3. Decider'
  BY PlaceSets DEF Others, IInv, Positions, Decider, Arrives
<1>4. Makers'
  BY DEF Others, IInv, Positions, Makers, Arrives, Blank, DecidePlaces
<1>5. QED BY <1>1, <1>2, <1>3, <1>4 DEF Positions

\* Nothing is reserved or released, and no row comes to run.
LEMMA Moves ==
  ASSUME IInv, Types', NEW p \in Procs, Others(p), UNCHANGED <<reserved, deciding>>,
         Arrives(p), RunningRows' \subseteq RunningRows,
         p \in reserved => pr'[p].ref = pr[p].ref \/ pr[p].ref \notin RunningRows
  PROVE  IInv'
<1>1. Positions'
  BY PositionsKept
<1>2. \A q \in reserved : pr'[q].ref = pr[q].ref \/ pr[q].ref \notin RunningRows
  BY PlaceSets DEF Others, IInv, Types, Positions, Holders
<1>3. (RunningRows \ Starting)' \subseteq RunningRows \ Starting
  BY <1>2 DEF Starting
<1>4. ChargedWithinLimit'
  BY <1>3, ChargeKept
<1>5. QED BY <1>1, <1>4 DEF IInv

\* The holder of a reservation marks its container's row.
LEMMA Marks ==
  ASSUME IInv, Types', NEW p \in Procs, Others(p), UNCHANGED <<reserved, deciding>>,
         Arrives(p), p \in reserved,
         RunningRows' \subseteq (RunningRows \ {pr[p].ref}) \cup {pr'[p].ref}
  PROVE  IInv'
<1>1. Positions'
  BY PositionsKept
<1>2. \A q \in reserved \ {p} : pr'[q].ref = pr[q].ref
  BY PlaceSets DEF Others, IInv, Types, Positions, Holders
<1>3. (RunningRows \ Starting)' \subseteq RunningRows \ Starting
  BY <1>2 DEF Starting
<1>4. ChargedWithinLimit'
  BY <1>3, ChargeKept
<1>5. QED BY <1>1, <1>4 DEF IInv

\* A process lets go of what it may have reserved.
LEMMA Releases ==
  ASSUME IInv, Types', NEW p \in Procs, Others(p), reserved' = reserved \ {p},
         deciding' = deciding \/ (deciding = p /\ deciding' = NoOne),
         pr'[p].at \notin DecidePlaces \cup MustPlaces \cup {"lookup", "reserve"},
         RunningRows' \subseteq RunningRows \cup (IF p \in reserved THEN {pr[p].ref} ELSE {})
  PROVE  IInv'
<1>1. Holders'
  <2>1. ASSUME NEW q \in reserved' PROVE pr'[q].at \in HoldPlaces
    BY <2>1, PlaceSets DEF Others, IInv, Types, Positions, Holders
  <2>2. QED BY <2>1 DEF Holders
<1>2. MustHold'
  BY PlaceSets DEF Others, IInv, Positions, MustHold
<1>3. Decider'
  <2>1. ASSUME NEW q \in Procs, pr'[q].at \in DecidePlaces
        PROVE  deciding' = q /\ Cardinality(reserved') <= pr'[q].held
    <3>1. q # p /\ pr'[q] = pr[q]
      BY <2>1, PlaceSets DEF Others
    <3>2. deciding = q /\ Cardinality(reserved) <= pr[q].held
      BY <2>1, <3>1 DEF IInv, Positions, Decider
    <3>3. Cardinality(reserved \ {p}) <= Cardinality(reserved)
      BY Finite, FS_Subset DEF IInv
    <3>4. Cardinality(reserved \ {p}) \in Nat /\ Cardinality(reserved) \in Nat /\ pr[q].held \in Nat
      BY Finite, FS_Subset, FS_CardinalityType, EachProc DEF IInv, ProcStates
    <3>5. QED BY <3>1, <3>2, <3>3, <3>4
  <2>2. QED BY <2>1 DEF Decider
<1>4. Makers'
  BY DEF Others, IInv, Positions, Makers, Blank, DecidePlaces, MustPlaces, HoldPlaces
<1>5. \A q \in reserved \ {p} : pr'[q].ref = pr[q].ref
  BY PlaceSets DEF Others, IInv, Types, Positions, Holders
<1>6. ChargedWithinLimit'
  <2>1. CASE p \in reserved
    <3>1. (RunningRows \ Starting)' \subseteq (RunningRows \ Starting) \cup {pr[p].ref}
      BY <1>5, <2>1 DEF Starting
    <3>2. QED BY <2>1, <3>1, ChargeReleased
  <2>2. CASE p \notin reserved
    <3>1. reserved' = reserved /\ RunningRows' \subseteq RunningRows
      BY <2>2
    <3>2. (RunningRows \ Starting)' \subseteq RunningRows \ Starting
      BY <1>5, <2>2, <3>1 DEF Starting
    <3>3. QED BY <3>1, <3>2, ChargeKept
  <2>3. QED BY <2>1, <2>2
<1>7. QED BY <1>1, <1>2, <1>3, <1>4, <1>6 DEF IInv, Positions

\* Nothing happens to the processes, and no row comes to run.
LEMMA Elsewhere ==
  ASSUME IInv, Types', UNCHANGED <<pr, reserved, deciding>>, RunningRows' \subseteq RunningRows
  PROVE  IInv'
<1>1. Positions'
  BY DEF IInv, Positions, Holders, MustHold, Decider, Makers
<1>2. (RunningRows \ Starting)' \subseteq RunningRows \ Starting
  BY DEF Starting
<1>3. ChargedWithinLimit'
  BY <1>2, ChargeKept
<1>4. QED BY <1>1, <1>3 DEF IInv

LEMMA GoesTo ==
  ASSUME Types, NEW p \in Procs, NEW place \in Places, Goes(p, place)
  PROVE  Others(p) /\ pr'[p].at = place /\ pr'[p].ref = pr[p].ref /\ pr'[p].goal = pr[p].goal
BY EachProc DEF Goes, Types, ProcStates, Others

LEMMA EndsAt ==
  ASSUME Types, NEW p \in Procs, Ends(p)
  PROVE  Others(p) /\ pr'[p].at = "done" /\ reserved' = reserved \ {p}
<1>1. AtRest("done").at = "done"
  BY RestTypes DEF Places
<1>2. QED BY <1>1 DEF Ends, Others, Shared, At, Types

\* Rows that are buried or marked stopped do not come to run.
LEMMA NoRowRuns ==
  ASSUME Types
  PROVE  /\ \A S : row' = Buried(S) => RunningRows' \subseteq RunningRows
         /\ \A f : row' = Stopped(f) => RunningRows' \subseteq RunningRows
         /\ \A S : BuryDead(S) => RunningRows' \subseteq RunningRows
         /\ row' = row => RunningRows' \subseteq RunningRows
BY DEF RunningRows, Buried, Stopped, BuryDead, Types

-----------------------------------------------------------------------------
(* Steps. *)

LEMMA NoOneIsNotAtWork == NoOne \notin Procs
BY PoolAssumption

\* Who joins or creates is at neither a holder's place nor a decider's.
LEMMA JoinsAt ==
  ASSUME Types, NEW p \in Procs, JoinOrCreate(p)
  PROVE  Others(p) /\ pr'[p].at \in {"joined", "lookup"} /\ pr'[p].ref = NoRef
<1>1. /\ AtRest("joined").at = "joined" /\ AtRest("joined").ref = NoRef
      /\ AtRest("lookup").at = "lookup" /\ AtRest("lookup").ref = NoRef
  BY DEF AtRest
<1>2. QED BY <1>1 DEF JoinOrCreate, Others, Types

LEMMA WakesAt ==
  ASSUME Types, NEW p \in Procs, NEW f, Wakes(p, f)
  PROVE  Others(p) /\ pr'[p].at \in {"reserve", "start"} /\ pr'[p].goal \in {"wake", "none"}
<1>1. CASE row[f] = "stopped"
  <2>1. pr' = [pr EXCEPT ![p].ref = f, ![p].at = "reserve", ![p].goal = "wake"]
    BY <1>1 DEF Wakes
  <2>2. QED BY <2>1, EachProc DEF Types, ProcStates, Others
<1>2. CASE row[f] # "stopped"
  <2>1. pr' = [pr EXCEPT ![p].ref = f, ![p].at = "start", ![p].goal = "none"]
    BY <1>2 DEF Wakes
  <2>2. QED BY <2>1, EachProc DEF Types, ProcStates, Others
<1>3. QED BY <1>1, <1>2

\* Deciding goes on: the row reads and the second look.
LEMMA Decides ==
  ASSUME IInv, Types', NEW p \in Procs, UNCHANGED <<reserved, deciding>>,
         \A q \in Procs \ {p} : pr'[q] = pr[q],
         pr[p].at \in DecidePlaces, pr'[p].at \in DecidePlaces,
         Cardinality(reserved) <= pr'[p].held,
         pr'[p].ref = pr[p].ref, pr'[p].goal = pr[p].goal,
         RunningRows' \subseteq RunningRows
  PROVE  IInv'
<1>1. p \notin reserved
  BY NotHolding, PlaceSets
<1>2. Holders' /\ MustHold'
  BY <1>1, PlaceSets DEF IInv, Types, Positions, Holders, MustHold
<1>3. Decider'
  BY DEF IInv, Positions, Decider
<1>4. Makers'
  BY PlaceSets DEF IInv, Positions, Makers, Blank, DecidePlaces
<1>5. (RunningRows \ Starting)' \subseteq RunningRows \ Starting
  BY <1>1 DEF Starting, IInv, Types
<1>6. ChargedWithinLimit'
  BY <1>5, ChargeKept
<1>7. QED BY <1>2, <1>3, <1>4, <1>6 DEF IInv, Positions

LEMMA StepReserve ==
  ASSUME IInv, Types', NEW p \in Procs, Reserve(p)
  PROVE  IInv'
<1>1. /\ pr[p].at = "reserve" /\ deciding = NoOne /\ deciding' = p /\ reserved' = reserved /\ row' = row
      /\ pr' = [pr EXCEPT ![p].at = "measure", ![p].held = Reading(1, Replaced(p))]
  BY DEF Reserve, At
<1>2. Reading(1, Replaced(p)) = Cardinality(reserved) /\ Cardinality(reserved) \in Nat
  BY Finite DEF Reading, IInv
<1>3. /\ pr'[p].at = "measure" /\ pr'[p].held = Cardinality(reserved)
      /\ pr'[p].ref = pr[p].ref /\ pr'[p].goal = pr[p].goal
      /\ \A q \in Procs \ {p} : pr'[q] = pr[q]
  BY <1>1, <1>2, EachProc DEF IInv, Types, ProcStates
<1>4. p \notin reserved
  BY <1>1, NotHolding DEF HoldPlaces
<1>5. \A q \in Procs : pr[q].at \notin DecidePlaces
  BY <1>1, NoOneIsNotAtWork DEF IInv, Positions, Decider
<1>6. Holders' /\ MustHold'
  BY <1>1, <1>3, <1>4 DEF IInv, Types, Positions, Holders, MustHold, MustPlaces, HoldPlaces
<1>7. Decider'
  <2>1. Cardinality(reserved) <= Cardinality(reserved)
    BY <1>2
  <2>2. QED BY <1>1, <1>3, <1>5, <2>1 DEF Decider
<1>8. Makers'
  BY <1>1, <1>3 DEF IInv, Positions, Makers, Blank, DecidePlaces
<1>9. RunningRows' = RunningRows
  BY <1>1 DEF RunningRows
<1>10. (RunningRows \ Starting)' \subseteq RunningRows \ Starting
  BY <1>1, <1>3, <1>9 DEF Starting, IInv, Types
<1>11. ChargedWithinLimit'
  BY <1>1, <1>10, ChargeKept
<1>12. QED BY <1>6, <1>7, <1>8, <1>11 DEF IInv, Positions

\* The step that adds to the charge.
LEMMA StepGrant ==
  ASSUME IInv, Types', NEW p \in Procs, Grant(p)
  PROVE  IInv'
<1>1. /\ pr[p].at \in DecidePlaces /\ Fits(p) /\ reserved' = reserved \cup {p}
      /\ row' = row
      /\ pr' = [pr EXCEPT ![p].at = Granted(pr[p].goal), ![p].held = 0]
  BY DEF Grant, DecidePlaces
<1>2. /\ pr'[p].at = Granted(pr[p].goal)
      /\ pr'[p].ref = pr[p].ref
      /\ \A q \in Procs \ {p} : pr'[q] = pr[q]
  BY <1>1, EachProc DEF IInv, Types, ProcStates
<1>3. p \notin reserved
  BY <1>1, NotHolding, PlaceSets
<1>4. deciding = p /\ Cardinality(reserved) <= pr[p].held /\ pr[p].held \in Nat
  BY <1>1, EachProc DEF IInv, Positions, Decider, ProcStates
<1>5. Granted(pr[p].goal) \in HoldPlaces /\ (Granted(pr[p].goal) = "make" => pr[p].goal = "make")
  BY DEF Granted, HoldPlaces
<1>6. Holders' /\ MustHold'
  BY <1>1, <1>2, <1>5 DEF IInv, Types, Positions, Holders, MustHold
<1>7. Decider'
  <2>1. \A q \in Procs \ {p} : pr[q].at \notin DecidePlaces
    BY <1>4 DEF IInv, Positions, Decider
  <2>2. QED BY <1>2, <1>5, <2>1, PlaceSets DEF Decider
<1>8. Makers'
  BY <1>1, <1>2, <1>5, PlaceSets DEF IInv, Positions, Makers, Blank, DecidePlaces, HoldPlaces
<1>9. ChargedWithinLimit'
  <2>1. RunningRows' = RunningRows
    BY <1>1 DEF RunningRows
  <2>2. Cardinality(reserved') = Cardinality(reserved) + 1
    BY <1>1, <1>3, Finite, FS_AddElement DEF IInv
  <2>3. pr[p].ref \in Starting'
    BY <1>1, <1>2 DEF Starting
  <2>4. RunningRows' \ Starting' \subseteq RunningRows \ Replaced(p)
    BY <2>1, <2>3 DEF Replaced
  <2>5. RunningRows' \ Starting' \in SUBSET Refs /\ RunningRows \ Replaced(p) \in SUBSET Refs
    BY DEF RunningRows
  <2>6. /\ Cardinality(RunningRows' \ Starting') <= Cardinality(RunningRows \ Replaced(p))
        /\ Cardinality(RunningRows' \ Starting') \in Nat
        /\ Cardinality(RunningRows \ Replaced(p)) \in Nat
        /\ Cardinality(reserved) \in Nat /\ Limit \in Nat
    BY <2>4, <2>5, Finite, PoolAssumption DEF IInv
  <2>7. pr[p].held + Cardinality(RunningRows \ Replaced(p)) + 1 <= Limit
    BY <1>1 DEF Fits, Reading
  <2>8. Charged' = Cardinality(reserved) + 1 + Cardinality(RunningRows' \ Starting')
    BY <2>2 DEF Charged
  <2>9. QED BY <1>4, <2>6, <2>7, <2>8 DEF ChargedWithinLimit
<1>10. QED BY <1>6, <1>7, <1>8, <1>9 DEF IInv, Positions

LEMMA StepReserving ==
  ASSUME IInv, Types', NEW p \in Procs, Reserving(p)
  PROVE  IInv'
<1> USE DEF IInv
<1>1. CASE LooksAgain(p)
  <2>1. /\ pr[p].at = "measure" /\ UNCHANGED <<reserved, deciding, row>>
        /\ pr' = [pr EXCEPT ![p].at = "reconcile"]
    BY <1>1 DEF LooksAgain, At, Goes
  <2>2. /\ pr'[p].at = "reconcile" /\ pr'[p].held = pr[p].held /\ pr'[p].ref = pr[p].ref
        /\ pr'[p].goal = pr[p].goal /\ \A q \in Procs \ {p} : pr'[q] = pr[q]
    BY <2>1, EachProc DEF Types, ProcStates
  <2>3. Cardinality(reserved) <= pr[p].held
    BY <2>1 DEF Positions, Decider, DecidePlaces
  <2>4. QED BY <2>1, <2>2, <2>3, NoRowRuns, Decides DEF DecidePlaces
<1>2. CASE Reconcile(p)
  <2>1. /\ pr[p].at = "reconcile" /\ UNCHANGED <<reserved, deciding>> /\ BuryDead(RunningRows)
        /\ pr' = [pr EXCEPT ![p].at = "remeasure", ![p].held = Reading(1, Replaced(p))]
    BY <1>2 DEF Reconcile, At
  <2>2. Reading(1, Replaced(p)) = Cardinality(reserved) /\ Cardinality(reserved) \in Nat
    BY Finite DEF Reading
  <2>3. /\ pr'[p].at = "remeasure" /\ pr'[p].held = Cardinality(reserved) /\ pr'[p].ref = pr[p].ref
        /\ pr'[p].goal = pr[p].goal /\ \A q \in Procs \ {p} : pr'[q] = pr[q]
    BY <2>1, <2>2, EachProc DEF Types, ProcStates
  <2>4. RunningRows' \subseteq RunningRows
    BY <2>1, NoRowRuns
  <2>5. Cardinality(reserved) <= Cardinality(reserved)
    BY <2>2
  <2>6. QED BY <2>1, <2>3, <2>4, <2>5, Decides DEF DecidePlaces
<1>3. CASE Refuse(p)
  <2>1. pr[p].at = "remeasure" /\ deciding' = NoOne /\ row' = row /\ Ends(p)
    BY <1>3 DEF Refuse, At
  <2>2. deciding = p
    BY <2>1 DEF Positions, Decider, DecidePlaces
  <2>3. Others(p) /\ pr'[p].at = "done" /\ reserved' = reserved \ {p}
    BY <2>1, EndsAt
  <2>4. QED BY <2>1, <2>2, <2>3, NoRowRuns, Releases DEF DecidePlaces, MustPlaces, HoldPlaces
<1>4. QED BY <1>1, <1>2, <1>3, StepReserve, StepGrant DEF Reserving

LEMMA StepWaking ==
  ASSUME IInv, Types', NEW p \in Procs, Waking(p)
  PROVE  IInv'
<1> USE DEF IInv
<1>1. CASE Call(p)
  <2>1. pr[p].at = "idle" /\ UNCHANGED <<reserved, deciding>>
    BY <1>1 DEF Call, At
  <2>2. p \notin reserved
    BY <2>1, NotHolding DEF HoldPlaces
  <2>3. Others(p) /\ (pr'[p].at = "cached" \/ (pr'[p].at \in {"joined", "lookup"} /\ pr'[p].ref = NoRef))
    <3>1. CASE active[ConvOf[p]] # NoEntry
      <4>1. pr' = [pr EXCEPT ![p].at = "cached", ![p].ref = active[ConvOf[p]].ref]
        BY <1>1, <3>1 DEF Call
      <4>2. QED BY <4>1, EachProc DEF Types, ProcStates, Others
    <3>2. CASE active[ConvOf[p]] = NoEntry
      BY <1>1, <3>2, JoinsAt DEF Call
    <3>3. QED BY <3>1, <3>2
  <2>4. RunningRows' \subseteq RunningRows
    BY <1>1, NoRowRuns DEF Call
  <2>5. Arrives(p)
    BY <2>2, <2>3 DEF Arrives, Blank, HoldPlaces, MustPlaces, DecidePlaces
  <2>6. QED BY <2>1, <2>2, <2>3, <2>4, <2>5, Moves
<1>2. CASE Cached(p)
  <2>1. pr[p].at = "cached" /\ UNCHANGED <<reserved, deciding>>
    BY <1>2 DEF Cached, At
  <2>2. p \notin reserved
    BY <2>1, NotHolding DEF HoldPlaces
  <2>3. Others(p) /\ pr'[p].at \in {"done", "tomb"}
    BY <1>2, GoesTo DEF Cached, Places
  <2>4. RunningRows' \subseteq RunningRows
    BY <1>2, NoRowRuns DEF Cached
  <2>5. Arrives(p)
    BY <2>2, <2>3 DEF Arrives, Blank, HoldPlaces, MustPlaces, DecidePlaces
  <2>6. QED BY <2>1, <2>2, <2>3, <2>4, <2>5, Moves
<1>3. CASE Tomb(p)
  <2>1. pr[p].at = "tomb" /\ UNCHANGED <<reserved, deciding>>
    BY <1>3 DEF Tomb, At
  <2>2. p \notin reserved
    BY <2>1, NotHolding DEF HoldPlaces
  <2>3. Others(p) /\ pr'[p].at \in {"joined", "lookup"} /\ pr'[p].ref = NoRef
    BY <1>3, JoinsAt DEF Tomb
  <2>4. RunningRows' \subseteq RunningRows
    BY <1>3, NoRowRuns DEF Tomb
  <2>5. Arrives(p)
    BY <2>2, <2>3 DEF Arrives, Blank, HoldPlaces, MustPlaces, DecidePlaces
  <2>6. QED BY <2>1, <2>2, <2>3, <2>4, <2>5, Moves
<1>4. CASE Lookup(p)
  <2>1. pr[p].at = "lookup" /\ UNCHANGED <<reserved, deciding>>
    BY <1>4 DEF Lookup, At
  <2>2. p \notin reserved
    BY <2>1, NotHolding DEF HoldPlaces
  <2>3. /\ Others(p) /\ pr'[p].at \in {"reserve", "start"}
        /\ pr'[p].goal \in {"wake", "none"} \/ pr'[p].ref = NoRef
    <3>1. CASE Recoverable(ConvOf[p]) = {}
      <4>1. pr' = [pr EXCEPT ![p].at = "reserve", ![p].goal = "make"]
        BY <1>4, <3>1 DEF Lookup
      <4>2. pr[p].ref = NoRef
        BY <2>1 DEF Positions, Makers, Blank
      <4>3. QED BY <4>1, <4>2, EachProc DEF Types, ProcStates, Others
    <3>2. CASE Recoverable(ConvOf[p]) # {}
      BY <1>4, <3>2, WakesAt DEF Lookup
    <3>3. QED BY <3>1, <3>2
  <2>4. RunningRows' \subseteq RunningRows
    BY <1>4, NoRowRuns DEF Lookup
  <2>5. Arrives(p)
    BY <2>2, <2>3 DEF Arrives, Blank, HoldPlaces, MustPlaces, DecidePlaces
  <2>6. QED BY <2>1, <2>2, <2>3, <2>4, <2>5, Moves
<1>5. CASE Terminal(p)
  <2>1. pr[p].at = "idle" /\ UNCHANGED <<reserved, deciding>>
    BY <1>5 DEF Terminal, At
  <2>2. p \notin reserved
    BY <2>1, NotHolding DEF HoldPlaces
  <2>3. Others(p) /\ pr'[p].at \in {"reserve", "start"} /\ pr'[p].goal \in {"wake", "none"}
    BY <1>5, WakesAt DEF Terminal
  <2>4. RunningRows' \subseteq RunningRows
    BY <1>5, NoRowRuns DEF Terminal
  <2>5. Arrives(p)
    BY <2>2, <2>3 DEF Arrives, Blank, HoldPlaces, MustPlaces, DecidePlaces
  <2>6. QED BY <2>1, <2>2, <2>3, <2>4, <2>5, Moves
<1>6. CASE Start(p)
  <2>1. deciding' = deciding /\ RunningRows' \subseteq RunningRows /\ pr[p].at = "start"
    BY <1>6, NoRowRuns DEF Start, At
  <2>2. CASE Goes(p, IF p \in reserved THEN "mark" ELSE "touch") /\ UNCHANGED reserved
    <3>1. /\ Others(p) /\ pr'[p].at = IF p \in reserved THEN "mark" ELSE "touch"
          /\ pr'[p].ref = pr[p].ref
      BY <2>2, GoesTo DEF Places
    <3>2. Arrives(p)
      BY <3>1 DEF Arrives, Blank, HoldPlaces, MustPlaces, DecidePlaces
    <3>3. QED BY <2>1, <2>2, <3>1, <3>2, Moves
  <2>3. CASE Goes(p, "dead") /\ reserved' = reserved \ {p}
    <3>1. Others(p) /\ pr'[p].at = "dead"
      BY <2>3, GoesTo DEF Places
    <3>2. QED BY <2>1, <2>3, <3>1, Releases DEF DecidePlaces, MustPlaces, HoldPlaces
  <2>4. CASE Ends(p)
    <3>1. Others(p) /\ pr'[p].at = "done" /\ reserved' = reserved \ {p}
      BY <2>4, EndsAt
    <3>2. QED BY <2>1, <3>1, Releases DEF DecidePlaces, MustPlaces, HoldPlaces
  <2>5. QED BY <1>6, <2>2, <2>3, <2>4 DEF Start
<1>7. CASE Touch(p)
  <2>1. pr[p].at = "touch" /\ UNCHANGED <<reserved, deciding>>
    BY <1>7 DEF Touch, At
  <2>2. p \notin reserved
    BY <2>1, NotHolding DEF HoldPlaces
  <2>3. Others(p) /\ pr'[p].at \in {"settle", "reserve"} /\ pr'[p].goal \in {"none", "late"}
    BY <1>7, EachProc DEF Touch, Types, ProcStates, Others
  <2>4. RunningRows' \subseteq RunningRows
    BY <1>7, NoRowRuns DEF Touch
  <2>5. Arrives(p)
    BY <2>2, <2>3 DEF Arrives, Blank, HoldPlaces, MustPlaces, DecidePlaces
  <2>6. QED BY <2>1, <2>2, <2>3, <2>4, <2>5, Moves
<1>8. CASE Mark(p)
  <2>1. pr[p].at = "mark" /\ UNCHANGED <<reserved, deciding>> /\ Goes(p, "settle")
    BY <1>8 DEF Mark, At
  <2>2. Others(p) /\ pr'[p].at = "settle" /\ pr'[p].ref = pr[p].ref
    BY <2>1, GoesTo DEF Places
  <2>3. p \in reserved
    BY <2>1 DEF Positions, MustHold, MustPlaces, HoldPlaces
  <2>4. RunningRows' \subseteq (RunningRows \ {pr[p].ref}) \cup {pr'[p].ref}
    BY <1>8, <2>2 DEF Mark, RunningRows, Types
  <2>5. Arrives(p)
    BY <2>2, <2>3 DEF Arrives, Blank, HoldPlaces, MustPlaces, DecidePlaces
  <2>6. QED BY <2>1, <2>2, <2>3, <2>4, <2>5, Marks
<1>9. CASE Settle(p)
  <2>1. Ends(p) /\ deciding' = deciding
    BY <1>9 DEF Settle
  <2>2. Others(p) /\ pr'[p].at = "done" /\ reserved' = reserved \ {p}
    BY <2>1, EndsAt
  <2>3. RunningRows' \subseteq RunningRows
    BY <1>9, NoRowRuns DEF Settle
  <2>4. QED BY <2>1, <2>2, <2>3, Releases DEF DecidePlaces, MustPlaces, HoldPlaces
<1>10. CASE DeadRow(p)
  <2>1. pr[p].at = "dead" /\ deciding' = deciding /\ RunningRows' \subseteq RunningRows
    BY <1>10, NoRowRuns DEF DeadRow, At
  <2>2. p \notin reserved
    BY <2>1, NotHolding DEF HoldPlaces
  <2>3. CASE pr' = [pr EXCEPT ![p] = [AtRest("reserve") EXCEPT !.goal = "make"]] /\ UNCHANGED reserved
    <3>1. /\ [AtRest("reserve") EXCEPT !.goal = "make"].at = "reserve"
          /\ [AtRest("reserve") EXCEPT !.goal = "make"].ref = NoRef
      BY DEF AtRest
    <3>2. Others(p) /\ pr'[p].at = "reserve" /\ pr'[p].ref = NoRef
      BY <2>3, <3>1 DEF Types, Others
    <3>3. Arrives(p)
      BY <2>2, <3>2 DEF Arrives, Blank, HoldPlaces, MustPlaces, DecidePlaces
    <3>4. QED BY <2>1, <2>2, <2>3, <3>2, <3>3, Moves
  <2>4. CASE Ends(p)
    <3>1. Others(p) /\ pr'[p].at = "done" /\ reserved' = reserved \ {p}
      BY <2>4, EndsAt
    <3>2. QED BY <2>1, <3>1, Releases DEF DecidePlaces, MustPlaces, HoldPlaces
  <2>5. QED BY <1>10, <2>3, <2>4 DEF DeadRow
<1>11. CASE Make(p)
  <2>1. pr[p].at = "make" /\ deciding' = deciding /\ RunningRows' \subseteq RunningRows
    BY <1>11, NoRowRuns DEF Make, At
  <2>2. p \in reserved /\ pr[p].ref = NoRef
    BY <2>1 DEF Positions, MustHold, Makers, MustPlaces, HoldPlaces, Blank
  <2>3. pr[p].ref \notin RunningRows
    BY <2>2, PoolAssumption DEF RunningRows, NoRef
  <2>4. CASE pr' = [pr EXCEPT ![p].at = "record", ![p].ref = New] /\ UNCHANGED reserved
    <3>1. Others(p) /\ pr'[p].at = "record"
      BY <2>4, EachProc DEF Types, ProcStates, Others
    <3>2. Arrives(p)
      BY <2>2, <3>1 DEF Arrives, Blank, HoldPlaces, MustPlaces, DecidePlaces
    <3>3. QED BY <2>1, <2>3, <2>4, <3>1, <3>2, Moves
  <2>5. CASE Ends(p)
    <3>1. Others(p) /\ pr'[p].at = "done" /\ reserved' = reserved \ {p}
      BY <2>5, EndsAt
    <3>2. QED BY <2>1, <3>1, Releases DEF DecidePlaces, MustPlaces, HoldPlaces
  <2>6. QED BY <1>11, <2>4, <2>5 DEF Make
<1>12. CASE Record(p)
  <2>1. pr[p].at = "record" /\ Ends(p) /\ deciding' = deciding
    BY <1>12 DEF Record, At
  <2>2. Others(p) /\ pr'[p].at = "done" /\ reserved' = reserved \ {p}
    BY <2>1, EndsAt
  <2>3. p \in reserved
    BY <2>1 DEF Positions, MustHold, MustPlaces, HoldPlaces
  <2>4. RunningRows' \subseteq RunningRows \cup {pr[p].ref}
    BY <1>12 DEF Record, RunningRows, Types
  <2>5. QED BY <2>1, <2>2, <2>3, <2>4, Releases DEF DecidePlaces, MustPlaces, HoldPlaces
<1>13. QED BY <1>1, <1>2, <1>3, <1>4, <1>5, <1>6, <1>7, <1>8, <1>9, <1>10, <1>11, <1>12 DEF Waking

LEMMA StepPausing ==
  ASSUME IInv, Types', NEW p \in Procs, Pausing(p)
  PROVE  IInv'
<1> USE DEF IInv
<1>1. CASE Pause(p)
  <2>1. pr[p].at = "idle" /\ UNCHANGED <<reserved, deciding>>
    BY <1>1 DEF Pause, At
  <2>2. p \notin reserved
    BY <2>1, NotHolding DEF HoldPlaces
  <2>3. Others(p) /\ pr'[p].at = "pause"
    BY <1>1, EachProc DEF Pause, Types, ProcStates, Others
  <2>4. RunningRows' \subseteq RunningRows
    BY <1>1, NoRowRuns DEF Pause
  <2>5. Arrives(p)
    BY <2>2, <2>3 DEF Arrives, Blank, HoldPlaces, MustPlaces, DecidePlaces
  <2>6. QED BY <2>1, <2>2, <2>3, <2>4, <2>5, Moves
<1>2. CASE MarkPaused(p)
  <2>1. pr[p].at = "pause" /\ UNCHANGED <<reserved, deciding>>
    BY <1>2 DEF MarkPaused, At
  <2>2. p \notin reserved
    BY <2>1, NotHolding DEF HoldPlaces
  <2>3. Others(p) /\ pr'[p].at \in {"stopping", "done"}
    BY <1>2, GoesTo DEF MarkPaused, Places
  <2>4. RunningRows' \subseteq RunningRows
    BY <1>2, NoRowRuns DEF MarkPaused
  <2>5. Arrives(p)
    BY <2>2, <2>3 DEF Arrives, Blank, HoldPlaces, MustPlaces, DecidePlaces
  <2>6. QED BY <2>1, <2>2, <2>3, <2>4, <2>5, Moves
<1>3. CASE StopPaused(p)
  <2>1. pr[p].at = "stopping" /\ UNCHANGED <<reserved, deciding>>
    BY <1>3 DEF StopPaused, At
  <2>2. p \notin reserved
    BY <2>1, NotHolding DEF HoldPlaces
  <2>3. Others(p) /\ pr'[p].at \in {"done"}
    BY <1>3, GoesTo DEF StopPaused, Places
  <2>4. RunningRows' \subseteq RunningRows
    BY <1>3, NoRowRuns DEF StopPaused
  <2>5. Arrives(p)
    BY <2>2, <2>3 DEF Arrives, Blank, HoldPlaces, MustPlaces, DecidePlaces
  <2>6. QED BY <2>1, <2>2, <2>3, <2>4, <2>5, Moves
<1>4. CASE Snapshot(p)
  <2>1. pr[p].at = "idle" /\ UNCHANGED <<reserved, deciding>>
    BY <1>4 DEF Snapshot, At
  <2>2. p \notin reserved
    BY <2>1, NotHolding DEF HoldPlaces
  <2>3. Others(p) /\ pr'[p].at = "snapped"
    BY <1>4, EachProc DEF Snapshot, Types, ProcStates, Others
  <2>4. RunningRows' \subseteq RunningRows
    BY <1>4, NoRowRuns DEF Snapshot
  <2>5. Arrives(p)
    BY <2>2, <2>3 DEF Arrives, Blank, HoldPlaces, MustPlaces, DecidePlaces
  <2>6. QED BY <2>1, <2>2, <2>3, <2>4, <2>5, Moves
<1>5. CASE Tick(p)
  <2>1. pr[p].at = "snapped" /\ UNCHANGED <<reserved, deciding>>
    BY <1>5 DEF Tick, At
  <2>2. p \notin reserved
    BY <2>1, NotHolding DEF HoldPlaces
  <2>3. Others(p) /\ pr'[p].at \in {"tick", "done"}
    BY <1>5, GoesTo DEF Tick, Places
  <2>4. RunningRows' \subseteq RunningRows
    BY <1>5, NoRowRuns DEF Tick
  <2>5. Arrives(p)
    BY <2>2, <2>3 DEF Arrives, Blank, HoldPlaces, MustPlaces, DecidePlaces
  <2>6. QED BY <2>1, <2>2, <2>3, <2>4, <2>5, Moves
<1>6. CASE StopIdle(p)
  <2>1. pr[p].at = "tick" /\ UNCHANGED <<reserved, deciding>>
    BY <1>6 DEF StopIdle, At
  <2>2. p \notin reserved
    BY <2>1, NotHolding DEF HoldPlaces
  <2>3. Others(p) /\ pr'[p].at \in {"ticked"}
    BY <1>6, GoesTo DEF StopIdle, Places
  <2>4. RunningRows' \subseteq RunningRows
    BY <1>6, NoRowRuns DEF StopIdle
  <2>5. Arrives(p)
    BY <2>2, <2>3 DEF Arrives, Blank, HoldPlaces, MustPlaces, DecidePlaces
  <2>6. QED BY <2>1, <2>2, <2>3, <2>4, <2>5, Moves
<1>7. CASE MarkIdle(p)
  <2>1. pr[p].at = "ticked" /\ UNCHANGED <<reserved, deciding>>
    BY <1>7 DEF MarkIdle, At
  <2>2. p \notin reserved
    BY <2>1, NotHolding DEF HoldPlaces
  <2>3. Others(p) /\ pr'[p].at \in {"done"}
    BY <1>7, GoesTo DEF MarkIdle, Places
  <2>4. RunningRows' \subseteq RunningRows
    BY <1>7, NoRowRuns DEF MarkIdle
  <2>5. Arrives(p)
    BY <2>2, <2>3 DEF Arrives, Blank, HoldPlaces, MustPlaces, DecidePlaces
  <2>6. QED BY <2>1, <2>2, <2>3, <2>4, <2>5, Moves
<1>8. QED BY <1>1, <1>2, <1>3, <1>4, <1>5, <1>6, <1>7 DEF Pausing

LEMMA StepSwitching ==
  ASSUME IInv, Types', NEW p \in Procs, Switching(p)
  PROVE  IInv'
<1> USE DEF IInv
<1>1. CASE Switch(p)
  <2>1. pr[p].at = "idle" /\ UNCHANGED <<reserved, deciding>>
    BY <1>1 DEF Switch, At
  <2>2. p \notin reserved
    BY <2>1, NotHolding DEF HoldPlaces
  <2>3. Others(p) /\ pr'[p].at \in {"look"}
    BY <1>1, GoesTo DEF Switch, Places
  <2>4. RunningRows' \subseteq RunningRows
    BY <1>1, NoRowRuns DEF Switch
  <2>5. Arrives(p)
    BY <2>2, <2>3 DEF Arrives, Blank, HoldPlaces, MustPlaces, DecidePlaces
  <2>6. QED BY <2>1, <2>2, <2>3, <2>4, <2>5, Moves
<1>2. CASE FindWorking(p)
  <2>1. pr[p].at = "look" /\ UNCHANGED <<reserved, deciding>>
    BY <1>2 DEF FindWorking, At
  <2>2. p \notin reserved
    BY <2>1, NotHolding DEF HoldPlaces
  <2>3. Others(p) /\ pr'[p].at \in {"done", "inspect"}
    <3>1. CASE Goes(p, "done")
      BY <3>1, GoesTo DEF Places
    <3>2. CASE \E f \in Working(ConvOf[p]) : pr' = [pr EXCEPT ![p].at = "inspect", ![p].ref = f]
      BY <3>2, EachProc DEF Types, ProcStates, Others
    <3>3. QED BY <1>2, <3>1, <3>2 DEF FindWorking
  <2>4. RunningRows' \subseteq RunningRows
    BY <1>2, NoRowRuns DEF FindWorking
  <2>5. Arrives(p)
    BY <2>2, <2>3 DEF Arrives, Blank, HoldPlaces, MustPlaces, DecidePlaces
  <2>6. QED BY <2>1, <2>2, <2>3, <2>4, <2>5, Moves
<1>3. CASE Inspect(p)
  <2>1. pr[p].at = "inspect" /\ UNCHANGED <<reserved, deciding>>
    BY <1>3 DEF Inspect, At
  <2>2. p \notin reserved
    BY <2>1, NotHolding DEF HoldPlaces
  <2>3. Others(p) /\ (pr'[p].at = "done" \/ (pr'[p].at = "reserve" /\ pr'[p].goal = "switch"))
    <3>1. CASE Live(pr[p].ref)
      <4>1. pr' = [pr EXCEPT ![p].at = "reserve", ![p].goal = "switch"]
        BY <1>3, <3>1 DEF Inspect
      <4>2. QED BY <4>1, EachProc DEF Types, ProcStates, Others
    <3>2. CASE ~Live(pr[p].ref)
      BY <1>3, <3>2, GoesTo DEF Inspect, Places
    <3>3. QED BY <3>1, <3>2
  <2>4. RunningRows' \subseteq RunningRows
    BY <1>3, NoRowRuns DEF Inspect
  <2>5. Arrives(p)
    BY <2>2, <2>3 DEF Arrives, Blank, HoldPlaces, MustPlaces, DecidePlaces
  <2>6. QED BY <2>1, <2>2, <2>3, <2>4, <2>5, Moves
<1>4. CASE CreateNext(p)
  <2>1. pr[p].at = "copy" /\ deciding' = deciding /\ RunningRows' \subseteq RunningRows
    BY <1>4, NoRowRuns DEF CreateNext, At
  <2>2. p \in reserved
    BY <2>1 DEF Positions, MustHold, MustPlaces, HoldPlaces
  <2>3. CASE pr' = [pr EXCEPT ![p].at = "land", ![p].todo = {New}] /\ UNCHANGED reserved
    <3>1. Others(p) /\ pr'[p].at = "land" /\ pr'[p].ref = pr[p].ref
      BY <2>3, EachProc DEF Types, ProcStates, Others
    <3>2. Arrives(p)
      BY <2>2, <3>1 DEF Arrives, Blank, HoldPlaces, MustPlaces, DecidePlaces
    <3>3. QED BY <2>1, <2>3, <3>1, <3>2, Moves
  <2>4. CASE Ends(p)
    <3>1. Others(p) /\ pr'[p].at = "done" /\ reserved' = reserved \ {p}
      BY <2>4, EndsAt
    <3>2. QED BY <2>1, <3>1, Releases DEF DecidePlaces, MustPlaces, HoldPlaces
  <2>5. QED BY <1>4, <2>3, <2>4 DEF CreateNext
<1>5. CASE Land(p)
  <2>1. pr[p].at = "land" /\ UNCHANGED <<reserved, deciding>>
    BY <1>5 DEF Land, At
  <2>2. p \in reserved
    BY <2>1 DEF Positions, MustHold, MustPlaces, HoldPlaces
  <2>3. PICK next \in pr[p].todo :
          /\ row' = [row EXCEPT ![pr[p].ref] = "destroyed", ![next] = "running"]
          /\ pr' = [pr EXCEPT ![p].at = "discard", ![p].ref = next, ![p].todo = {pr[p].ref}]
    BY <1>5 DEF Land
  <2>4. Others(p) /\ pr'[p].at = "discard" /\ pr'[p].ref = next
    BY <2>3, EachProc DEF Types, ProcStates, Others
  <2>5. RunningRows' \subseteq (RunningRows \ {pr[p].ref}) \cup {pr'[p].ref}
    BY <2>3, <2>4 DEF RunningRows, Types
  <2>6. Arrives(p)
    BY <2>2, <2>4 DEF Arrives, Blank, HoldPlaces, MustPlaces, DecidePlaces
  <2>7. QED BY <2>1, <2>2, <2>4, <2>5, <2>6, Marks
<1>6. CASE CopyFails(p)
  <2>1. Ends(p) /\ deciding' = deciding
    BY <1>6 DEF CopyFails
  <2>2. Others(p) /\ pr'[p].at = "done" /\ reserved' = reserved \ {p}
    BY <2>1, EndsAt
  <2>3. RunningRows' \subseteq RunningRows
    BY <1>6, NoRowRuns DEF CopyFails
  <2>4. QED BY <2>1, <2>2, <2>3, Releases DEF DecidePlaces, MustPlaces, HoldPlaces
<1>7. CASE Discard(p)
  <2>1. Ends(p) /\ deciding' = deciding
    BY <1>7 DEF Discard
  <2>2. Others(p) /\ pr'[p].at = "done" /\ reserved' = reserved \ {p}
    BY <2>1, EndsAt
  <2>3. RunningRows' \subseteq RunningRows
    BY <1>7, NoRowRuns DEF Discard
  <2>4. QED BY <2>1, <2>2, <2>3, Releases DEF DecidePlaces, MustPlaces, HoldPlaces
<1>8. QED BY <1>1, <1>2, <1>3, <1>4, <1>5, <1>6, <1>7 DEF Switching

LEMMA StepDeleting ==
  ASSUME IInv, Types', NEW p \in Procs, Deleting(p)
  PROVE  IInv'
<1> USE DEF IInv
<1>1. CASE Delete(p)
  <2>1. pr[p].at = "idle" /\ UNCHANGED <<reserved, deciding>>
    BY <1>1 DEF Delete, At
  <2>2. p \notin reserved
    BY <2>1, NotHolding DEF HoldPlaces
  <2>3. Others(p) /\ pr'[p].at = "await"
    BY <1>1, EachProc DEF Delete, Types, ProcStates, Others
  <2>4. RunningRows' \subseteq RunningRows
    BY <1>1, NoRowRuns DEF Delete
  <2>5. Arrives(p)
    BY <2>2, <2>3 DEF Arrives, Blank, HoldPlaces, MustPlaces, DecidePlaces
  <2>6. QED BY <2>1, <2>2, <2>3, <2>4, <2>5, Moves
<1>2. CASE Forget(p)
  <2>1. pr[p].at = "await" /\ UNCHANGED <<reserved, deciding>>
    BY <1>2 DEF Forget, At
  <2>2. p \notin reserved
    BY <2>1, NotHolding DEF HoldPlaces
  <2>3. Others(p) /\ pr'[p].at \in {"list"}
    BY <1>2, GoesTo DEF Forget, Places
  <2>4. RunningRows' \subseteq RunningRows
    BY <1>2, NoRowRuns DEF Forget
  <2>5. Arrives(p)
    BY <2>2, <2>3 DEF Arrives, Blank, HoldPlaces, MustPlaces, DecidePlaces
  <2>6. QED BY <2>1, <2>2, <2>3, <2>4, <2>5, Moves
<1>3. CASE ListRows(p)
  <2>1. pr[p].at = "list" /\ UNCHANGED <<reserved, deciding>>
    BY <1>3 DEF ListRows, At
  <2>2. p \notin reserved
    BY <2>1, NotHolding DEF HoldPlaces
  <2>3. Others(p) /\ pr'[p].at = "destroy"
    BY <1>3, EachProc DEF ListRows, Types, ProcStates, Others
  <2>4. RunningRows' \subseteq RunningRows
    BY <1>3, NoRowRuns DEF ListRows
  <2>5. Arrives(p)
    BY <2>2, <2>3 DEF Arrives, Blank, HoldPlaces, MustPlaces, DecidePlaces
  <2>6. QED BY <2>1, <2>2, <2>3, <2>4, <2>5, Moves
<1>4. CASE DestroyOne(p)
  <2>1. pr[p].at = "destroy" /\ UNCHANGED <<reserved, deciding>>
    BY <1>4 DEF DestroyOne, At
  <2>2. p \notin reserved
    BY <2>1, NotHolding DEF HoldPlaces
  <2>3. Others(p) /\ pr'[p].at \in {"done", "destroy"}
    <3>1. CASE Goes(p, "done")
      BY <3>1, GoesTo DEF Places
    <3>2. CASE \E f \in pr[p].todo : pr' = [pr EXCEPT ![p].todo = @ \ {f}]
      BY <2>1, <3>2, EachProc DEF Types, ProcStates, Others
    <3>3. QED BY <1>4, <3>1, <3>2 DEF DestroyOne
  <2>4. RunningRows' \subseteq RunningRows
    BY <1>4, NoRowRuns DEF DestroyOne
  <2>5. Arrives(p)
    BY <2>2, <2>3 DEF Arrives, Blank, HoldPlaces, MustPlaces, DecidePlaces
  <2>6. QED BY <2>1, <2>2, <2>3, <2>4, <2>5, Moves
<1>5. QED BY <1>1, <1>2, <1>3, <1>4 DEF Deleting

LEMMA StepBooting ==
  ASSUME IInv, Types', Booting
  PROVE  IInv'
<1>1. UNCHANGED <<pr, reserved, deciding>>
  BY DEF Booting, ReadClaims, SweepDead, StopStray, HaltStray, MarkStray, SweepUnclaimed, TheRest
<1>2. RunningRows' \subseteq RunningRows
  BY NoRowRuns DEF IInv, Booting, ReadClaims, SweepDead, StopStray, HaltStray, MarkStray, SweepUnclaimed
<1>3. QED BY <1>1, <1>2, Elsewhere

LEMMA StepRestart ==
  ASSUME IInv, Types', Restart
  PROVE  IInv'
<1>1. reserved' = {} /\ row' = row
  BY DEF Restart
<1>2. AtRest("lost").at = "lost"
  BY DEF AtRest
<1>3. \A p \in Procs : pr'[p].at \in {"absent", "idle", "done", "lost"}
  BY <1>2 DEF Restart, InFlight, IInv, Types
<1>4. Positions'
  BY <1>1, <1>3 DEF Positions, Holders, MustHold, Decider, Makers, Blank, MustPlaces, HoldPlaces, DecidePlaces
<1>5. RunningRows' = RunningRows
  BY <1>1 DEF RunningRows
<1>6. ChargedWithinLimit'
  BY <1>1, <1>5, ChargeDropped
<1>7. QED BY <1>4, <1>6 DEF IInv

LEMMA IInvStep == IInv /\ [Next]_vars => IInv'
<1> SUFFICES ASSUME IInv, [Next]_vars PROVE IInv'
  OBVIOUS
<1>1. Types'
  BY TypesStep DEF IInv
<1>2. ASSUME NEW p \in Procs,
             Reserving(p) \/ Waking(p) \/ Pausing(p) \/ Switching(p) \/ Deleting(p)
      PROVE  IInv'
  BY <1>1, <1>2, StepReserving, StepWaking, StepPausing, StepSwitching, StepDeleting
<1>3. CASE Booting
  BY <1>1, <1>3, StepBooting
<1>4. CASE Restart
  BY <1>1, <1>4, StepRestart
<1>5. CASE Lose
  BY <1>1, <1>5, NoRowRuns, Elsewhere DEF Lose, IInv
<1>6. CASE UNCHANGED vars
  BY <1>1, <1>6, NoRowRuns, Elsewhere DEF vars, IInv
<1>7. QED BY <1>2, <1>3, <1>4, <1>5, <1>6 DEF Next, Step, Rest

LEMMA IInvInit == Init => IInv
<1> SUFFICES ASSUME Init PROVE IInv
  OBVIOUS
<1>1. Types /\ reserved = {}
  BY InitTypes DEF Init
<1>2. PICK start \in [Convs -> {"none", "used", "paused"}], first \in [Convs -> Refs], day \in Days :
        Opens(start, first, day)
  BY DEF Init
<1>3. \A place : AtRest(place).at = place
  BY DEF AtRest
<1>4. \A p \in Procs : pr[p].at \in {"idle", "absent"}
  BY <1>2, <1>3 DEF Opens
<1>5. Positions
  BY <1>1, <1>4 DEF Positions, Holders, MustHold, Decider, Makers, Blank, MustPlaces, HoldPlaces, DecidePlaces
<1>6. Starting = {} /\ Cardinality(reserved) = 0 /\ Cardinality(RunningRows) \in Nat
  BY <1>1, FS_EmptySet, RowsAreRefs, Finite DEF Starting
<1>7. Charged = Cardinality(RunningRows) /\ Cardinality(RunningRows) <= Limit
  BY <1>2, <1>6 DEF Charged, Opens
<1>8. QED BY <1>1, <1>5, <1>7 DEF IInv, ChargedWithinLimit

\* Types of the pool's state; a reservation is held only by somebody at work
\* (sandbox-manager.ts, its maps and its rows).
THEOREM PoolTypes == Spec => []TypeOK
<1>1. IInv /\ History => TypeOK
  <2>1. HoldPlaces \cap {"absent", "idle", "done", "lost"} = {}
    BY DEF HoldPlaces
  <2>2. QED BY <2>1 DEF IInv, Types, Positions, Holders, TypeOK, InFlight, History
<1>2. Init => History
  BY DEF Init, History
<1>3. History /\ [Next]_vars => History'
  BY DEF History, Next, Rest, Remember, vars, historyVars
<1>4. QED BY IInvInit, IInvStep, <1>1, <1>2, <1>3, PTL DEF Spec

\* However tool calls, routes, switches, pauses, sweeps and restarts race, the
\* user's reservations and running rows, which is what a start is decided on,
\* never exceed the allocation (reserveSandbox, reserveNow).
THEOREM AllocationKept == Spec => []ChargedWithinLimit
<1>1. IInv => ChargedWithinLimit
  BY DEF IInv
<1>2. QED BY IInvInit, IInvStep, <1>1, PTL DEF Spec

-----------------------------------------------------------------------------
(***************************************************************************)
(* Containers: one to a conversation, kept, and all taken by a delete.     *)
(*                                                                         *)
(* A row is written for the first time only by the process that made the   *)
(* container, and while it makes one it is the only one of its             *)
(* conversation that could: a call holds `pending`, a switch the claim.    *)
(* Such a process knows every container the conversation keeps, unless a   *)
(* row has no container behind it.                                         *)
(***************************************************************************)

Asking == {"reserve"} \cup DecidePlaces
Resolving == Asking \cup {"lookup", "start", "touch", "mark", "settle", "dead", "make", "record"}

\* Somebody removed a container of c by hand, or marked a row given up.
Marred(c) == \E h \in lost \cup revived : home[h] = c
Held(c) == {f \in Refs : home[f] = c /\ Kept(f)}

\* A container not made yet has no row and no past.
NothingYet ==
  \A f \in Refs : engine[f] = "none" =>
    row[f] = "none" /\ maker[f] = NoOne /\ f \notin lost \cup revived \cup forsaken

\* A row with no container behind it, and a container whose row was given up.
Tombstones == \A f \in Refs : row[f] \in Claiming /\ engine[f] = "gone" => f \in lost \cup revived
Leftovers ==
  \A f \in Refs : /\ GivenUp(f) /\ Live(f) => f \in forsaken
                  /\ f \in forsaken => GivenUp(f) \/ f \in revived

\* What a process, an entry and the boot sweep know of have rows.
Recorded(c, f) == f # NoRef => f \in Refs /\ home[f] = c /\ row[f] # "none"
EntriesRecorded == \A c \in Convs : Recorded(c, active[c].ref)
BootKnows ==
  /\ boot = [at |-> boot.at, claims |-> boot.claims, todo |-> boot.todo, ref |-> boot.ref]
  /\ \A f \in boot.todo \cup boot.claims \cup {boot.ref} : f # NoRef => f \in Refs /\ row[f] # "none"
  /\ ~BootAt("over") /\ ~BootAt("read") =>
       \A f \in Refs : row[f] \in Claiming /\ born[f] < restarts => f \in boot.claims \cup revived

\* A container on its way into a row is known to its maker only.
Fresh(p, n) ==
  /\ n \in Refs /\ row[n] = "none" /\ (Live(n) \/ n \in lost)
  /\ maker[n] = p /\ home[n] = ConvOf[p] /\ born[n] = restarts
Unrecorded ==
  \A f \in Refs : Live(f) /\ row[f] = "none" /\ maker[f] \in Calls =>
    \/ At(maker[f], "record") /\ pr[maker[f]].ref = f
    \/ At(maker[f], "lost")

\* Who may be where.
OfKind(p) ==
  /\ pr[p].at \in {"cached", "tomb", "joined", "lookup", "make", "record"} => p \in Calls
  /\ pr[p].at \in {"start", "touch", "mark", "settle", "dead"} => p \in Calls \cup Terminals
  /\ pr[p].at \in {"look", "inspect", "copy", "land", "discard"} => p \in Switches
  /\ pr[p].at \in {"await", "list", "destroy"} => p \in Deletes
  /\ pr[p].at \in {"pause", "stopping", "snapped", "tick", "ticked"} => p \in Pauses \cup Ticks
  /\ pr[p].at \in Asking => \/ pr[p].goal = "make" /\ p \in Calls
                            \/ pr[p].goal \in {"wake", "late"} /\ p \in Calls \cup Terminals
                            \/ pr[p].goal = "switch" /\ p \in Switches

\* The process knows every container its conversation keeps.
Theirs(p) == Marred(ConvOf[p]) \/ Held(ConvOf[p]) \subseteq {pr[p].ref}
Alone(p) ==
  \/ p \in Calls /\ pr[p].at \in Resolving \ {"lookup"}
  \/ p \in Switches /\ pr[p].at \in Asking \cup {"inspect", "copy", "land"}

\* What a delete has seen to, and whom it waits for.
Waited(d) ==
  pr[d].awaits # NoOne =>
    /\ ConvOf[pr[d].awaits] = ConvOf[d]
    /\ \/ At(pr[d].awaits, "done")
       \/ At(d, "await") /\ pr[pr[d].awaits].at \in Resolving
Taking(d) ==
  /\ Waited(d)
  /\ \A f \in pr[d].owes : row[f] # "none"
  /\ pr[d].at \in {"destroy", "done"} =>
       \A f \in Refs : home[f] = ConvOf[d] /\ Owed(d, f) =>
         ~Live(f) \/ f \in forsaken \/ (At(d, "destroy") /\ f \in pr[d].todo)

Sound(p) ==
  /\ ~At(p, "record") => Recorded(ConvOf[p], pr[p].ref)
  /\ OfKind(p)
  /\ At(p, "record") => Fresh(p, pr[p].ref)
  /\ At(p, "land") => \E n \in Refs : pr[p].todo = {n} /\ Fresh(p, n)
  /\ At(p, "discard") =>
       \A f \in pr[p].todo : f \in Refs => row[f] # "none" /\ (f \in forsaken \/ engine[f] = "gone")
  /\ At(p, "destroy") => \A f \in pr[p].todo : f \in Refs /\ row[f] # "none"
  /\ At(p, "dead") => \A f \in Refs : pr[p].ref = f => engine[f] = "gone"
  /\ Alone(p) => Theirs(p)
  /\ p \in Deletes /\ pr[p].at \in {"await", "list", "destroy", "done"} => Taking(p)

\* One call of a conversation resolves at a time, and never beside a switch.
PendingResolves ==
  /\ \A p \in Calls : pr[p].at \in Resolving => pending[ConvOf[p]] = p
  /\ \A c \in Convs : pending[c] # NoOne => ConvOf[pending[c]] = c /\ pr[pending[c]].at \in Resolving
Apart ==
  \A p \in Calls \cup Switches : \A w \in Switches :
    p # w /\ ConvOf[p] = ConvOf[w] => ~(InFlight(p) /\ InFlight(w))

Containers == NothingYet /\ Tombstones /\ Leftovers /\ EntriesRecorded /\ BootKnows
Workers == Unrecorded /\ PendingResolves /\ Apart /\ OneContainer /\ \A p \in Procs : Sound(p)
CInv == Types /\ Makers /\ History /\ Containers /\ Workers

\* A step that may take somebody's work.
Excused(f) == Meant(f) \/ Unanswered("exists")

\* What one step may do to one container and its row.
Stands(f) == row'[f] = row[f] /\ (engine'[f] = engine[f] \/ (Live(f) /\ Live(f)'))
Marked(f) == row[f] # "none" /\ row'[f] \in Claiming /\ engine'[f] = engine[f]
Dropped(f) ==
  /\ row[f] # "none" /\ GivenUp(f)' /\ engine'[f] \in {engine[f], "gone"}
  /\ Kept(f) => Excused(f)
Recording(p, f) ==
  \/ At(p, "record") /\ pr[p].ref = f /\ At(p, "done")'
  \/ At(p, "land") /\ pr[p].todo = {f} /\ At(p, "discard")'
Written(f) ==
  /\ row[f] = "none" /\ row'[f] = "running" /\ engine'[f] = engine[f]
  /\ \E p \in Procs : Recording(p, f)
Taken(f) ==
  /\ row'[f] = row[f] /\ Live(f) /\ engine'[f] = "gone"
  /\ f \in lost' \/ ~Kept(f) \/ f \in revived
  /\ row[f] = "none" => \/ f \in lost' \/ born[f] < restarts
                        \/ \E p \in Procs : maker[f] = p /\ At(p, "land") /\ At(p, "done")'
SameOrigin(f) == home'[f] = home[f] /\ maker'[f] = maker[f] /\ born'[f] = born[f]
Making(p, f) ==
  /\ home'[f] = ConvOf[p] /\ maker'[f] = p
  /\ \/ At(p, "make") /\ At(p, "record")' /\ pr'[p].ref = f
     \/ At(p, "copy") /\ At(p, "land")' /\ pr'[p].todo = {f}
Made(f) ==
  /\ engine[f] = "none" /\ engine'[f] = "running" /\ row'[f] = row[f]
  /\ born'[f] = restarts
  /\ \E p \in Procs : Making(p, f)
Touched(f) ==
  \/ SameOrigin(f) /\ (Stands(f) \/ Marked(f) \/ Dropped(f) \/ Written(f) \/ Taken(f))
  \/ Made(f)

LEMMA OneKind ==
  /\ \A p \in Calls : p \notin Terminals \cup Pauses \cup Switches \cup Ticks \cup Deletes
  /\ \A p \in Switches : p \notin Calls \cup Terminals \cup Pauses \cup Ticks \cup Deletes
  /\ \A p \in Deletes : p \notin Calls \cup Terminals \cup Pauses \cup Switches \cup Ticks
<1>1. /\ Kinds[1] = Calls /\ Kinds[2] = Terminals /\ Kinds[3] = Pauses
      /\ Kinds[4] = Switches /\ Kinds[5] = Ticks /\ Kinds[6] = Deletes
  BY DEF Kinds
<1>2. \A i, j \in 1..6 : i # j => Kinds[i] \cap Kinds[j] = {}
  BY PoolAssumption
<1>3. \A j \in 1..6 : /\ j # 1 => Calls \cap Kinds[j] = {}
                      /\ j # 4 => Switches \cap Kinds[j] = {}
                      /\ j # 6 => Deletes \cap Kinds[j] = {}
  BY <1>1, <1>2
<1>4. /\ Calls \cap Terminals = {} /\ Calls \cap Pauses = {} /\ Calls \cap Switches = {}
      /\ Calls \cap Ticks = {} /\ Calls \cap Deletes = {}
      /\ Switches \cap Terminals = {} /\ Switches \cap Pauses = {} /\ Switches \cap Ticks = {}
      /\ Switches \cap Deletes = {}
      /\ Deletes \cap Terminals = {} /\ Deletes \cap Pauses = {} /\ Deletes \cap Ticks = {}
  BY <1>1, <1>3
<1> QED BY <1>4

LEMMA ConvOfProc == \A p \in Procs : ConvOf[p] \in Convs
BY PoolAssumption

\* Steps that leave the engine, the rows and the containers' past alone.
LEMMA NothingTouched ==
  ASSUME CInv, UNCHANGED <<engine, row, home, maker, born>>
  PROVE  \A f \in Refs : Touched(f)
BY DEF Touched, SameOrigin, Stands

\* Steps that start or stop a container.
LEMMA OnlyTurned ==
  ASSUME CInv, UNCHANGED <<row, home, maker, born>>, NEW f, Halt(f) \/ (Started(f) /\ Live(f))
  PROVE  \A g \in Refs : Touched(g)
BY DEF Touched, SameOrigin, Stands, Halt, Halted, Started, CInv, Types, Live

\* A mark on a row there is.
LEMMA OnlyMarked ==
  ASSUME CInv, UNCHANGED <<engine, home, maker, born>>, NEW f, f \in Refs => row[f] # "none",
         row' = Stopped(f) \/ row' = [row EXCEPT ![f] = "running"]
  PROVE  \A g \in Refs : Touched(g)
BY DEF Touched, SameOrigin, Stands, Marked, Stopped, CInv, Types, Claiming

\* Rows are given up of containers that are gone, or that seem to be.
LEMMA OnlyBuried ==
  ASSUME CInv, UNCHANGED <<engine, home, maker, born>>, NEW S,
         \A f \in S : f \in Refs => row[f] # "none" /\ (engine[f] = "gone" \/ Excused(f)),
         row' = Buried(S)
  PROVE  \A g \in Refs : Touched(g)
BY DEF Touched, SameOrigin, Stands, Dropped, Buried, GivenUp, CInv, Types, Claiming, Kept, Live

LEMMA DeadAreBuried ==
  ASSUME CInv, UNCHANGED <<engine, home, maker, born>>, NEW S, BuryDead(S),
         \A f \in S : f \in Refs => row[f] # "none"
  PROVE  \A g \in Refs : Touched(g)
<1>1. CASE row' = Buried(Dead(S))
  BY <1>1, OnlyBuried DEF Dead
<1>2. CASE Fails("exists") /\ \E f \in S : row' = Buried(Dead(S) \cup {f})
  <2>1. PICK f \in S : row' = Buried(Dead(S) \cup {f})
    BY <1>2
  <2>2. "exists" \in ahead \ ahead'
    BY <1>2 DEF Fails, Happens
  <2>3. \A g : Excused(g)
    BY <2>2 DEF Excused, Unanswered
  <2> QED BY <2>1, <2>3, OnlyBuried DEF Dead
<1> QED BY <1>1, <1>2 DEF BuryDead

LEMMA TouchReserving ==
  ASSUME CInv, NEW p \in Procs, Reserving(p)
  PROVE  \A f \in Refs : Touched(f)
<1>1. CASE Reconcile(p)
  <2>1. \A f \in RunningRows : f \in Refs /\ row[f] # "none"
    BY DEF RunningRows
  <2>2. BuryDead(RunningRows) /\ UNCHANGED <<engine, home, maker, born>>
    BY <1>1 DEF Reconcile, poolVars
  <2> QED BY <2>1, <2>2, DeadAreBuried
<1>2. CASE ~Reconcile(p)
  BY <1>2, NothingTouched DEF Reserving, Reserve, Grant, LooksAgain, Refuse, poolVars
<1> QED BY <1>1, <1>2

LEMMA TouchWaking ==
  ASSUME CInv, NEW p \in Procs, Waking(p)
  PROVE  \A f \in Refs : Touched(f)
<1>0. Sound(p) /\ pr[p] \in ProcStates
  BY EachProc DEF CInv, Workers
<1>1. CASE Call(p) \/ Lookup(p) \/ Terminal(p) \/ Touch(p) \/ Settle(p)
  BY <1>1, NothingTouched DEF Call, Lookup, Terminal, Touch, Settle, poolVars
<1>2. CASE Cached(p)
  BY <1>2, NothingTouched, OnlyTurned DEF Cached, poolVars
<1>3. CASE Start(p)
  BY <1>3, NothingTouched, OnlyTurned DEF Start, poolVars
<1>4. CASE Tomb(p) \/ Mark(p)
  <2>1. pr[p].ref \in Refs => row[pr[p].ref] # "none"
    BY <1>0, <1>4, PoolAssumption DEF Tomb, Mark, At, Sound, InFlight, Recorded, NoRef
  <2> QED BY <1>4, <2>1, OnlyMarked DEF Tomb, Mark, poolVars
<1>5. CASE DeadRow(p)
  <2>1. pr[p].ref \in Refs => row[pr[p].ref] # "none" /\ engine[pr[p].ref] = "gone"
    BY <1>0, <1>5, PoolAssumption DEF DeadRow, At, Sound, Recorded, NoRef
  <2> QED BY <1>5, <2>1, OnlyBuried DEF DeadRow, poolVars
<1>6. CASE Make(p)
  <2>1. CASE Fails("create") /\ Ends(p) /\ UNCHANGED <<engine, poolVars>>
    BY <1>6, <2>1, NothingTouched DEF Make, poolVars
  <2>2. CASE /\ Creates(p, New)
             /\ pr' = [pr EXCEPT ![p].at = "record", ![p].ref = New]
    <3>1. New \in Refs /\ engine[New] = "none"
      BY <1>6, NewIsUnmade DEF Make, Unmade
    <3>2. At(p, "record")' /\ pr'[p].ref = New
      BY <1>0, <2>2 DEF At, ProcStates, CInv, Types
    <3>3. row' = row /\ At(p, "make")
      BY <1>6 DEF Make
    <3>4. \A f \in Refs \ {New} : SameOrigin(f) /\ Stands(f)
      BY <2>2, <3>3 DEF Creates, SameOrigin, Stands, CInv, Types
    <3>5. Made(New)
      BY <2>2, <3>1, <3>2, <3>3 DEF Creates, Made, Making, CInv, Types
    <3> QED BY <3>4, <3>5 DEF Touched
  <2> QED BY <1>6, <2>1, <2>2 DEF Make
<1>7. CASE Record(p)
  <2> DEFINE n == pr[p].ref
  <2>1. At(p, "record") /\ n \in Refs /\ row[n] = "none"
    BY <1>0, <1>7 DEF Record, Sound, Fresh
  <2>2. pr'[p].at = "done"
    BY <1>7, EndsAt DEF Record, CInv
  <2>3. row' = [row EXCEPT ![n] = "running"] /\ UNCHANGED <<engine, home, maker, born>>
    BY <1>7 DEF Record, poolVars
  <2>4. \A f \in Refs \ {n} : SameOrigin(f) /\ Stands(f)
    BY <2>3 DEF SameOrigin, Stands, CInv, Types
  <2>5. SameOrigin(n) /\ Written(n)
    BY <2>1, <2>2, <2>3 DEF SameOrigin, Written, Recording, At, CInv, Types
  <2> QED BY <2>4, <2>5 DEF Touched
<1> QED BY <1>1, <1>2, <1>3, <1>4, <1>5, <1>6, <1>7 DEF Waking

LEMMA TouchPausing ==
  ASSUME CInv, NEW p \in Procs, Pausing(p)
  PROVE  \A f \in Refs : Touched(f)
<1>0. Sound(p) /\ pr[p] \in ProcStates
  BY EachProc DEF CInv, Workers
<1>1. CASE Pause(p) \/ Snapshot(p) \/ Tick(p)
  BY <1>1, NothingTouched DEF Pause, Snapshot, Tick, poolVars
<1>2. CASE StopPaused(p) \/ StopIdle(p)
  BY <1>2, OnlyTurned DEF StopPaused, StopIdle, poolVars
<1>3. CASE MarkPaused(p) \/ MarkIdle(p)
  <2>1. pr[p].ref \in Refs => row[pr[p].ref] # "none"
    BY <1>0, <1>3, PoolAssumption DEF MarkPaused, MarkIdle, At, Sound, InFlight, Recorded, NoRef
  <2> QED BY <1>3, <2>1, OnlyMarked, NothingTouched DEF MarkPaused, MarkIdle, poolVars
<1> QED BY <1>1, <1>2, <1>3 DEF Pausing

\* What was to be removed is gone, but for what the engine did not remove.
LEMMA Removals ==
  ASSUME NEW S, Remove(S)
  PROVE  \E T \in SUBSET S : engine' = Removed(T) /\ (T = S \/ Unanswered("remove"))
<1>1. CASE Answers /\ engine' = Removed(S)
  BY <1>1
<1>2. CASE Fails("remove") /\ \E f \in S : engine' = Removed(S \ {f})
  <2>1. Unanswered("remove")
    BY <1>2 DEF Fails, Happens, Unanswered
  <2> QED BY <1>2, <2>1
<1> QED BY <1>1, <1>2 DEF Remove

\* Containers are removed.
LEMMA OnlyRemoved ==
  ASSUME CInv, UNCHANGED <<row, home, maker, born>>, NEW S, Remove(S),
         \A f \in S : f \in Refs /\ Live(f) =>
           /\ ~Kept(f) \/ f \in revived
           /\ row[f] = "none" => \/ born[f] < restarts
                                 \/ \E p \in Procs : maker[f] = p /\ At(p, "land") /\ At(p, "done")'
  PROVE  \A f \in Refs : Touched(f)
<1> SUFFICES ASSUME NEW f \in Refs PROVE Touched(f)
  OBVIOUS
<1>0. PICK T \in SUBSET S : engine' = Removed(T)
  BY Removals
<1>1. CASE f \in T /\ Live(f)
  <2>1. engine'[f] = "gone"
    BY <1>0, <1>1 DEF Removed, CInv, Types
  <2> QED BY <1>0, <1>1, <2>1 DEF Touched, SameOrigin, Taken
<1>2. CASE ~(f \in T /\ Live(f))
  <2>1. engine'[f] = engine[f]
    BY <1>0, <1>2 DEF Removed, CInv, Types
  <2> QED BY <2>1 DEF Touched, SameOrigin, Stands
<1> QED BY <1>1, <1>2

LEMMA TouchSwitching ==
  ASSUME CInv, NEW p \in Procs, Switching(p)
  PROVE  \A f \in Refs : Touched(f)
<1>0. Sound(p) /\ pr[p] \in ProcStates
  BY EachProc DEF CInv, Workers
<1>1. CASE Switch(p) \/ FindWorking(p)
  BY <1>1, NothingTouched DEF Switch, FindWorking, poolVars
<1>2. CASE Inspect(p)
  <2>1. pr[p].ref \in Refs => row[pr[p].ref] # "none"
    BY <1>0, <1>2, PoolAssumption DEF Inspect, At, Sound, InFlight, Recorded, NoRef
  <2>2. CASE Live(pr[p].ref)
    BY <1>2, <2>2, NothingTouched DEF Inspect, poolVars
  <2>3. CASE ~Live(pr[p].ref)
    <3>1. pr[p].ref \in Refs => engine[pr[p].ref] = "gone"
      BY <2>1, <2>3 DEF CInv, Containers, NothingYet, Types, Live
    <3> QED BY <1>2, <2>1, <2>3, <3>1, OnlyBuried DEF Inspect, poolVars
  <2> QED BY <2>2, <2>3
<1>3. CASE CreateNext(p)
  <2>1. CASE Fails("create") /\ Ends(p) /\ UNCHANGED <<engine, poolVars>>
    BY <1>3, <2>1, NothingTouched DEF CreateNext, poolVars
  <2>2. CASE /\ Creates(p, New)
             /\ pr' = [pr EXCEPT ![p].at = "land", ![p].todo = {New}]
    <3>1. New \in Refs /\ engine[New] = "none"
      BY <1>3, NewIsUnmade DEF CreateNext, Unmade
    <3>2. At(p, "land")' /\ pr'[p].todo = {New}
      BY <1>0, <2>2 DEF At, ProcStates, CInv, Types
    <3>3. row' = row /\ At(p, "copy")
      BY <1>3 DEF CreateNext
    <3>4. \A f \in Refs \ {New} : SameOrigin(f) /\ Stands(f)
      BY <2>2, <3>3 DEF Creates, SameOrigin, Stands, CInv, Types
    <3>5. Made(New)
      BY <2>2, <3>1, <3>2, <3>3 DEF Creates, Made, Making, CInv, Types
    <3> QED BY <3>4, <3>5 DEF Touched
  <2> QED BY <1>3, <2>1, <2>2 DEF CreateNext
<1>4. CASE Land(p)
  <2>1. PICK n \in Refs : pr[p].todo = {n} /\ Fresh(p, n)
    BY <1>0, <1>4 DEF Land, Sound
  <2>0. PICK old \in Ref0 : old = pr[p].ref
    BY <1>0 DEF ProcStates
  <2>2. /\ row' = [row EXCEPT ![old] = "destroyed", ![n] = "running"]
        /\ pr' = [pr EXCEPT ![p].at = "discard", ![p].ref = n, ![p].todo = {old}]
        /\ UNCHANGED <<engine, home, maker, born>>
    BY <1>4, <2>0, <2>1 DEF Land, poolVars
  <2>3. old \in Refs => row[old] # "none"
    BY <1>0, <1>4, <2>0, PoolAssumption DEF Land, At, Sound, InFlight, Recorded, NoRef
  <2>4. p \in Switches /\ At(p, "land") /\ At(p, "discard")'
    BY <1>0, <1>4, <2>2 DEF Land, At, Sound, OfKind, ProcStates, CInv, Types
  <2>5. SameOrigin(n) /\ Written(n)
    BY <2>0, <2>1, <2>2, <2>3, <2>4 DEF SameOrigin, Written, Recording, Fresh, CInv, Types
  <2>6. ASSUME old \in Refs PROVE SameOrigin(old) /\ Dropped(old)
    <3>1. old # n /\ row[old] # "none"
      BY <2>1, <2>3, <2>6 DEF Fresh
    <3>2. Excused(old)
      BY <2>0, <2>4 DEF Excused, Meant, At
    <3>3. row'[old] = "destroyed" /\ engine'[old] = engine[old]
      BY <2>2, <2>6, <3>1 DEF CInv, Types
    <3> QED BY <2>2, <3>1, <3>2, <3>3 DEF SameOrigin, Dropped, GivenUp
  <2>7. \A f \in Refs \ {n, old} : SameOrigin(f) /\ Stands(f)
    BY <2>2 DEF SameOrigin, Stands, CInv, Types
  <2> QED BY <2>5, <2>6, <2>7 DEF Touched
<1>5. CASE CopyFails(p)
  <2>1. PICK n \in Refs : pr[p].todo = {n} /\ Fresh(p, n)
    BY <1>0, <1>5 DEF CopyFails, Sound
  <2>2. At(p, "land") /\ At(p, "done")'
    BY <1>5, EndsAt DEF CopyFails, CInv, At
  <2>3. Remove({n}) /\ UNCHANGED <<row, home, maker, born>>
    BY <1>5, <2>1 DEF CopyFails, Rollback, poolVars
  <2>4. row[n] = "none" /\ maker[n] = p /\ ~Kept(n)
    BY <2>1 DEF Fresh, Kept, Claiming
  <2> QED BY <2>2, <2>3, <2>4, OnlyRemoved
<1>6. CASE Discard(p)
  <2>1. \A f \in pr[p].todo : f \in Refs => row[f] # "none" /\ (f \in forsaken \/ engine[f] = "gone")
    BY <1>0, <1>6 DEF Discard, Sound
  <2>2. \A f \in pr[p].todo : f \in Refs /\ Live(f) => ~Kept(f) \/ f \in revived
    BY <2>1 DEF CInv, Containers, Leftovers, GivenUp, Kept, Live, Claiming
  <2>3. Remove(pr[p].todo) /\ UNCHANGED <<row, home, maker, born>>
    BY <1>6 DEF Discard, poolVars
  <2> QED BY <2>1, <2>2, <2>3, OnlyRemoved
<1> QED BY <1>1, <1>2, <1>3, <1>4, <1>5, <1>6 DEF Switching

LEMMA TouchDeleting ==
  ASSUME CInv, NEW p \in Procs, Deleting(p)
  PROVE  \A f \in Refs : Touched(f)
<1>0. Sound(p) /\ pr[p] \in ProcStates
  BY EachProc DEF CInv, Workers
<1>1. CASE Delete(p) \/ Forget(p) \/ ListRows(p)
  BY <1>1, NothingTouched DEF Delete, Forget, ListRows, poolVars
<1>2. CASE DestroyOne(p)
  <2>1. CASE UNCHANGED <<engine, row>>
    BY <1>2, <2>1, NothingTouched DEF DestroyOne, poolVars
  <2>2. ASSUME NEW f \in pr[p].todo, Remove({f}), row' = Buried({f})
        PROVE  \A g \in Refs : Touched(g)
    <3>0. PICK T \in SUBSET {f} : engine' = Removed(T)
      BY <2>2, Removals
    <3>1. f \in Refs /\ row[f] # "none" /\ p \in Deletes /\ At(p, "destroy")
      BY <1>0, <1>2 DEF DestroyOne, Sound, OfKind, At
    <3>2. Excused(f)
      BY <3>1 DEF Excused, Meant
    <3>3. UNCHANGED <<home, maker, born>>
      BY <1>2 DEF DestroyOne, poolVars
    <3>4. SameOrigin(f) /\ Dropped(f)
      BY <2>2, <3>0, <3>1, <3>2, <3>3 DEF SameOrigin, Dropped, GivenUp, Removed, Buried, CInv, Types
    <3>5. \A g \in Refs \ {f} : SameOrigin(g) /\ Stands(g)
      BY <2>2, <3>0, <3>3 DEF SameOrigin, Stands, Removed, Buried, CInv, Types
    <3> QED BY <3>4, <3>5 DEF Touched
  <2> QED BY <1>2, <2>1, <2>2 DEF DestroyOne
<1> QED BY <1>1, <1>2 DEF Deleting

LEMMA TouchBooting ==
  ASSUME CInv, Booting
  PROVE  \A f \in Refs : Touched(f)
<1>0. \A f \in boot.todo \cup boot.claims \cup {boot.ref} : f # NoRef => f \in Refs /\ row[f] # "none"
  BY DEF CInv, Containers, BootKnows
<1>1. CASE ReadClaims \/ StopStray
  BY <1>1, NothingTouched DEF ReadClaims, StopStray, TheRest, poolVars
<1>2. CASE SweepDead
  <2>1. \A f \in boot.claims : f \in Refs => row[f] # "none"
    BY <1>0, PoolAssumption DEF NoRef
  <2> QED BY <1>2, <2>1, DeadAreBuried DEF SweepDead, TheRest, poolVars
<1>3. CASE HaltStray
  BY <1>3, NothingTouched, OnlyTurned DEF HaltStray, TheRest, poolVars
<1>4. CASE MarkStray
  <2>1. boot.ref \in Refs => row[boot.ref] # "none"
    BY <1>0, PoolAssumption DEF NoRef
  <2> QED BY <1>4, <2>1, OnlyMarked DEF MarkStray, TheRest, poolVars
<1>5. CASE SweepUnclaimed
  <2>1. \A f \in Unclaimed : f \in Refs => /\ ~Kept(f) \/ f \in revived
                                           /\ born[f] < restarts
    BY <1>5 DEF SweepUnclaimed, Unclaimed, BootAt, CInv, Containers, BootKnows, Kept
  <2> QED BY <1>5, <2>1, OnlyRemoved DEF SweepUnclaimed, TheRest, poolVars
<1> QED BY <1>1, <1>2, <1>3, <1>4, <1>5 DEF Booting

LEMMA ContainersTouched ==
  ASSUME CInv, [Next]_vars
  PROVE  \A f \in Refs : Touched(f)
<1>1. ASSUME NEW p \in Procs,
             Reserving(p) \/ Waking(p) \/ Pausing(p) \/ Switching(p) \/ Deleting(p)
      PROVE  \A f \in Refs : Touched(f)
  BY <1>1, TouchReserving, TouchWaking, TouchPausing, TouchSwitching, TouchDeleting
<1>2. CASE Booting
  BY <1>2, TouchBooting
<1>3. CASE Restart
  BY <1>3, NothingTouched DEF Restart, poolVars
<1>4. CASE Lose
  <2>1. PICK f \in Refs : Live(f) /\ engine' = [engine EXCEPT ![f] = "gone"] /\ f \in lost'
    BY <1>4 DEF Lose
  <2>2. UNCHANGED <<row, home, maker, born>>
    BY <1>4 DEF Lose, poolVars
  <2>3. SameOrigin(f) /\ Taken(f)
    BY <2>1, <2>2 DEF SameOrigin, Taken, CInv, Types
  <2>4. \A g \in Refs \ {f} : SameOrigin(g) /\ Stands(g)
    BY <2>1, <2>2 DEF SameOrigin, Stands, CInv, Types
  <2> QED BY <2>3, <2>4 DEF Touched
<1>5. CASE UNCHANGED vars
  BY <1>5, NothingTouched DEF vars, poolVars
<1> QED BY <1>1, <1>2, <1>3, <1>4, <1>5 DEF Next, Step, Rest

\* Nobody's work is given up for nothing (sweepOrphanSandboxes,
\* markDeadRowsDestroyed).
LEMMA WorkKeptStep ==
  ASSUME CInv, [Next]_vars
  PROVE  \A f \in Refs : TakesWork(f) => Excused(f)
<1> SUFFICES ASSUME NEW f \in Refs, Kept(f), f \notin revived, ~Kept(f)' PROVE Excused(f)
  BY DEF TakesWork
<1>1. Touched(f)
  BY ContainersTouched
<1>2. row[f] # "none" /\ engine[f] # "none"
  BY DEF Kept, Claiming, Live
<1>3. ~Stands(f) /\ ~Marked(f)
  BY DEF Stands, Marked, Kept, Live
<1>4. Dropped(f) => Excused(f)
  BY DEF Dropped
<1>5. Taken(f) => Excused(f)
  BY DEF Taken, Excused, Meant
<1> QED BY <1>1, <1>2, <1>3, <1>4, <1>5 DEF Touched, Written, Made

LEMMA StepOrNot ==
  ASSUME [Next]_vars
  PROVE  (Step /\ Remember) \/ UNCHANGED vars
BY DEF Next, Rest

LEMMA FaultsAdd ==
  ASSUME CInv, [Next]_vars
  PROVE  /\ lost \subseteq lost' /\ \A f \in lost' \ lost : Live(f)
         /\ restarts' = restarts \/ Restart
<1>1. ASSUME NEW p \in Procs, Reserving(p) \/ Waking(p) PROVE lost' = lost /\ restarts' = restarts
  BY <1>1 DEF Reserving, Reserve, Grant, LooksAgain, Reconcile, Refuse, Waking, Call, Cached, Tomb, Lookup,
       Terminal, Start, Touch, Mark, Settle, DeadRow, Make, Record, faultVars
<1>2. ASSUME NEW p \in Procs, Pausing(p) \/ Switching(p) \/ Deleting(p)
      PROVE  lost' = lost /\ restarts' = restarts
  BY <1>2 DEF Pausing, Pause, MarkPaused, StopPaused, Snapshot, Tick, StopIdle, MarkIdle, Switching, Switch,
       FindWorking, Inspect, CreateNext, Land, CopyFails, Discard, Deleting, Delete, Forget, ListRows,
       DestroyOne, faultVars
<1>3. CASE Booting
  BY <1>3 DEF Booting, ReadClaims, SweepDead, StopStray, HaltStray, MarkStray, SweepUnclaimed, TheRest
<1>4. CASE Restart \/ Lose
  BY <1>4 DEF Restart, Lose
<1>5. CASE UNCHANGED vars
  BY <1>5 DEF vars, faultVars
<1> QED BY <1>1, <1>2, <1>3, <1>4, <1>5, StepOrNot DEF Step

\* What is so for good.
LEMMA Lasting ==
  ASSUME CInv, [Next]_vars, NEW f \in Refs
  PROVE  /\ row[f] # "none" => row'[f] # "none" /\ engine[f] # "none"
         /\ engine[f] # "none" => engine'[f] # "none" /\ SameOrigin(f)
         /\ engine[f] = "gone" => engine'[f] = "gone"
         /\ engine[f] # "none" /\ ~Live(f) => engine[f] = "gone"
         /\ f \in lost \cup revived => f \in (lost \cup revived)'
         /\ f \in forsaken => f \in forsaken'
         /\ \A c : Recorded(c, f) => home'[f] = c /\ row'[f] # "none"
<1>1. Touched(f)
  BY ContainersTouched
<1>2. row[f] # "none" => engine[f] # "none"
  BY DEF CInv, Containers, NothingYet
<1>3. forsaken \subseteq forsaken' /\ revived \subseteq revived' /\ lost \subseteq lost'
  BY StepOrNot, FaultsAdd DEF Remember, vars, historyVars
<1>4. row[f] # "none" => row'[f] # "none"
  BY <1>1 DEF Touched, Stands, Marked, Dropped, GivenUp, Written, Taken, Made, Claiming
<1>5. engine[f] # "none" => engine'[f] # "none" /\ SameOrigin(f)
  BY <1>1 DEF Touched, Stands, Marked, Dropped, Written, Taken, Made, Live
<1>6. engine[f] = "gone" => engine'[f] = "gone"
  BY <1>1 DEF Touched, Stands, Marked, Dropped, Written, Taken, Made, Live
<1>7. engine[f] # "none" /\ ~Live(f) => engine[f] = "gone"
  BY DEF CInv, Types, Live
<1>8. \A c : Recorded(c, f) => home'[f] = c /\ row'[f] # "none"
  BY <1>2, <1>4, <1>5, PoolAssumption DEF Recorded, SameOrigin, NoRef
<1> QED BY <1>2, <1>3, <1>4, <1>5, <1>6, <1>7, <1>8

\* One more container the conversation keeps has just been recorded, or its
\* row marked after it was given up.
LEMMA KeptBefore ==
  ASSUME CInv, [Next]_vars, NEW f \in Refs, Kept(f)', ~Kept(f)
  PROVE  Written(f) \/ f \in revived'
<1>1. Touched(f)
  BY ContainersTouched
<1>2. engine'[f] # "none" /\ engine'[f] # "gone" /\ row'[f] \in Claiming
  BY DEF Kept, Live
<1>3. ~Dropped(f) /\ ~Taken(f)
  BY <1>2 DEF Dropped, GivenUp, Taken, Claiming
<1>4. ~Stands(f)
  BY <1>2 DEF Stands, Kept, Live
<1>5. ~Made(f)
  BY <1>2 DEF Made, CInv, Containers, NothingYet, Claiming
<1>6. ASSUME Marked(f) PROVE f \in revived'
  <2>1. row[f] # "none" /\ Live(f) /\ row[f] \notin Claiming
    BY <1>2, <1>6 DEF Marked, Kept, Live
  <2>2. GivenUp(f) /\ ~GivenUp(f)'
    BY <1>2, <2>1 DEF GivenUp, CInv, Types, Claiming
  <2>3. ~UNCHANGED vars
    BY <2>2 DEF vars, GivenUp
  <2> QED BY <2>2, <2>3, StepOrNot DEF Remember
<1> QED BY <1>1, <1>3, <1>4, <1>5, <1>6 DEF Touched

LEMMA NothingYetStep ==
  ASSUME CInv, [Next]_vars
  PROVE  NothingYet'
<1> SUFFICES ASSUME NEW f \in Refs, engine'[f] = "none"
             PROVE  row'[f] = "none" /\ maker'[f] = NoOne /\ f \notin (lost \cup revived \cup forsaken)'
  BY DEF NothingYet
<1>1. engine[f] = "none"
  BY Lasting
<1>2. row[f] = "none" /\ maker[f] = NoOne /\ f \notin lost \cup revived \cup forsaken
  BY <1>1 DEF CInv, Containers, NothingYet
<1>3. Touched(f) /\ ~Made(f)
  BY ContainersTouched DEF Made
<1>4. SameOrigin(f) /\ (Stands(f) \/ Written(f))
  BY <1>1, <1>2, <1>3 DEF Touched, Marked, Dropped, Taken, Live
<1>5. ~Written(f)
  <2>1. ASSUME NEW p \in Procs, Recording(p, f) PROVE FALSE
    <3>1. Fresh(p, f)
      BY <2>1 DEF Recording, CInv, Workers, Sound
    <3> QED BY <1>1, <1>2, <3>1 DEF Fresh, Live
  <2> QED BY <2>1 DEF Written
<1>6. row'[f] = "none" /\ maker'[f] = NoOne
  BY <1>2, <1>4, <1>5 DEF SameOrigin, Stands
<1>7. f \notin lost'
  BY <1>1, <1>2, FaultsAdd DEF Live
<1>8. f \notin (revived \cup forsaken)'
  BY <1>2, <1>6, StepOrNot DEF Remember, GivenUp, vars, historyVars
<1> QED BY <1>6, <1>7, <1>8

LEMMA TombstonesStep ==
  ASSUME CInv, [Next]_vars
  PROVE  Tombstones'
<1> SUFFICES ASSUME NEW f \in Refs, row'[f] \in Claiming, engine'[f] = "gone"
             PROVE  f \in (lost \cup revived)'
  BY DEF Tombstones
<1>1. Touched(f)
  BY ContainersTouched
<1>2. f \in lost \cup revived => f \in (lost \cup revived)'
  BY Lasting
<1>3. row[f] \in Claiming /\ engine[f] = "gone" => f \in lost \cup revived
  BY DEF CInv, Containers, Tombstones
<1>4. CASE Stands(f)
  BY <1>2, <1>3, <1>4 DEF Stands, Live
<1>5. CASE Marked(f)
  <2>1. CASE row[f] \in Claiming
    BY <1>2, <1>3, <1>5, <2>1 DEF Marked
  <2>2. CASE row[f] \notin Claiming
    <3>1. GivenUp(f) /\ ~GivenUp(f)'
      BY <1>5, <2>2 DEF Marked, GivenUp, CInv, Types, Claiming
    <3>2. ~UNCHANGED vars
      BY <3>1 DEF vars, GivenUp
    <3> QED BY <3>1, <3>2, StepOrNot DEF Remember
  <2> QED BY <2>1, <2>2
<1>6. CASE Written(f)
  <2>1. PICK p \in Procs : Recording(p, f)
    BY <1>6 DEF Written
  <2>2. Fresh(p, f)
    BY <2>1 DEF Recording, CInv, Workers, Sound
  <2>3. engine[f] = "gone"
    BY <1>6 DEF Written
  <2> QED BY <1>2, <2>2, <2>3 DEF Fresh, Live
<1>7. CASE Taken(f)
  <2>1. row[f] \in Claiming /\ Live(f)
    BY <1>7 DEF Taken
  <2> QED BY <1>2, <1>7, <2>1 DEF Taken, Kept
<1> QED BY <1>1, <1>4, <1>5, <1>6, <1>7 DEF Touched, Dropped, GivenUp, Made, Claiming

-----------------------------------------------------------------------------
(* Who moves. *)

Acts(p) == Reserving(p) \/ Waking(p) \/ Pausing(p) \/ Switching(p) \/ Deleting(p)

\* A step of p leaves the others where they are, but for those who joined it.
LEMMA ActsAlone ==
  ASSUME CInv, NEW p \in Procs, Acts(p)
  PROVE  Others(p)
<1>0. Types /\ pr \in [Procs -> ProcStates]
  BY DEF CInv, Types
<1>1. CASE Reserving(p)
  BY <1>0, <1>1, GoesTo, EndsAt DEF Reserving, Reserve, Grant, LooksAgain, Reconcile, Refuse, Others, Places
<1>2. CASE Waking(p)
  <2>1. CASE Call(p) \/ Tomb(p) \/ Lookup(p) \/ Terminal(p) \/ Touch(p)
    BY <1>0, <2>1, JoinsAt, WakesAt DEF Call, Tomb, Lookup, Terminal, Touch, Others
  <2>2. CASE Cached(p) \/ Start(p) \/ Mark(p) \/ Settle(p)
    BY <1>0, <2>2, GoesTo, EndsAt DEF Cached, Start, Mark, Settle, Places
  <2>3. CASE DeadRow(p) \/ Make(p) \/ Record(p)
    BY <1>0, <2>3, EndsAt DEF DeadRow, Make, Record, Others
  <2> QED BY <1>2, <2>1, <2>2, <2>3 DEF Waking
<1>3. CASE Pausing(p)
  BY <1>0, <1>3, GoesTo DEF Pausing, Pause, MarkPaused, StopPaused, Snapshot, Tick, StopIdle, MarkIdle,
       Others, Places
<1>4. CASE Switching(p)
  <2>1. CASE Switch(p) \/ FindWorking(p) \/ Inspect(p)
    BY <1>0, <2>1, GoesTo DEF Switch, FindWorking, Inspect, Others, Places
  <2>2. CASE CreateNext(p) \/ Land(p) \/ CopyFails(p) \/ Discard(p)
    BY <1>0, <2>2, EndsAt DEF CreateNext, Land, CopyFails, Discard, Others
  <2> QED BY <1>4, <2>1, <2>2 DEF Switching
<1>5. CASE Deleting(p)
  BY <1>0, <1>5, GoesTo DEF Deleting, Delete, Forget, ListRows, DestroyOne, Others, Places
<1> QED BY <1>1, <1>2, <1>3, <1>4, <1>5 DEF Acts

LEMMA WhoMoves ==
  ASSUME CInv, [Next]_vars, NEW q \in Procs
  PROVE  \/ pr'[q] = pr[q]
         \/ Acts(q)
         \/ At(q, "joined") /\ pr'[q].at = "done"
         \/ Restart /\ InFlight(q) /\ pr'[q] = AtRest("lost")
<1>1. CASE \E p \in Procs : Acts(p)
  BY <1>1, ActsAlone DEF Others, At
<1>2. CASE Booting
  BY <1>2 DEF Booting, ReadClaims, SweepDead, StopStray, HaltStray, MarkStray, SweepUnclaimed, TheRest
<1>3. CASE Restart
  BY <1>3 DEF Restart
<1>4. CASE Lose \/ UNCHANGED vars
  BY <1>4 DEF Lose, vars
<1> QED BY <1>1, <1>2, <1>3, <1>4, StepOrNot DEF Step, Acts

\* Nobody acts who is done, and who records or lands does that or fails.
LEMMA ActsFrom ==
  ASSUME CInv, NEW q \in Procs, Acts(q)
  PROVE  /\ pr[q].at \notin {"done", "joined", "lost", "absent"}
         /\ At(q, "record") => Record(q)
         /\ At(q, "land") => Land(q) \/ CopyFails(q)
<1>1. CASE Reserving(q)
  BY <1>1 DEF Reserving, Reserve, Grant, LooksAgain, Reconcile, Refuse, At
<1>2. CASE Waking(q)
  BY <1>2 DEF Waking, Call, Cached, Tomb, Lookup, Terminal, Start, Touch, Mark, Settle, DeadRow, Make, Record, At
<1>3. CASE Pausing(q)
  BY <1>3 DEF Pausing, Pause, MarkPaused, StopPaused, Snapshot, Tick, StopIdle, MarkIdle, At
<1>4. CASE Switching(q)
  BY <1>4 DEF Switching, Switch, FindWorking, Inspect, CreateNext, Land, CopyFails, Discard, At
<1>5. CASE Deleting(q)
  BY <1>5 DEF Deleting, Delete, Forget, ListRows, DestroyOne, At
<1> QED BY <1>1, <1>2, <1>3, <1>4, <1>5 DEF Acts

\* What is done stays done, and what is recorded is recorded by its maker.
LEMMA Movements ==
  ASSUME CInv, [Next]_vars, NEW q \in Procs
  PROVE  /\ At(q, "done") => pr'[q] = pr[q]
         /\ At(q, "lost") => pr'[q] = pr[q]
         /\ At(q, "record") => pr'[q] = pr[q] \/ Record(q) \/ At(q, "lost")'
         /\ At(q, "land") /\ At(q, "discard")' => Land(q)
<1>1. \/ pr'[q] = pr[q]
      \/ Acts(q)
      \/ At(q, "joined") /\ pr'[q].at = "done"
      \/ Restart /\ InFlight(q) /\ pr'[q] = AtRest("lost")
  BY WhoMoves
<1>2. CASE pr'[q] = pr[q]
  BY <1>2 DEF At
<1>3. CASE Acts(q)
  <2>1. CopyFails(q) => pr'[q].at = "done"
    BY EndsAt DEF CopyFails, CInv
  <2> QED BY <1>3, <2>1, ActsFrom DEF At
<1>4. CASE At(q, "joined") /\ pr'[q].at = "done"
  BY <1>4 DEF At
<1>5. CASE Restart /\ InFlight(q) /\ pr'[q] = AtRest("lost")
  BY <1>5 DEF At, AtRest, InFlight
<1> QED BY <1>1, <1>2, <1>3, <1>4, <1>5

\* A container a delete crosses off is gone, or the engine did not remove it.
LEMMA DeletedAreGone ==
  ASSUME CInv, [Next]_vars, NEW f \in Refs, Deleted(f), GivenUp(f)', ~GivenUp(f)
  PROVE  ~Live(f)' \/ Unanswered("remove")
<1>1. PICK d \in Deletes : At(d, "destroy") /\ f \in pr[d].todo \ pr'[d].todo
  BY DEF Deleted
<1>2. d \in Procs /\ pr'[d] # pr[d]
  BY <1>1 DEF Procs
<1>3. CASE Acts(d)
  <2>1. DestroyOne(d)
    <3>1. ~Reserving(d)
      BY <1>1 DEF Reserving, Reserve, Grant, LooksAgain, Reconcile, Refuse, At
    <3>2. ~Waking(d)
      BY <1>1 DEF Waking, Call, Cached, Tomb, Lookup, Terminal, Start, Touch, Mark, Settle, DeadRow, Make,
                  Record, At
    <3>3. ~Pausing(d)
      BY <1>1 DEF Pausing, Pause, MarkPaused, StopPaused, Snapshot, Tick, StopIdle, MarkIdle, At
    <3>4. ~Switching(d)
      BY <1>1 DEF Switching, Switch, FindWorking, Inspect, CreateNext, Land, CopyFails, Discard, At
    <3> QED BY <1>1, <1>3, <3>1, <3>2, <3>3, <3>4 DEF Acts, Deleting, Delete, Forget, ListRows, At
  <2>2. PICK g \in pr[d].todo : Remove({g}) /\ row' = Buried({g})
    BY <2>1 DEF DestroyOne, GivenUp
  <2>3. f = g
    BY <2>2 DEF Buried, GivenUp, CInv, Types
  <2>4. PICK T \in SUBSET {g} : engine' = Removed(T) /\ (T = {g} \/ Unanswered("remove"))
    BY <2>2, Removals
  <2> QED BY <2>3, <2>4 DEF Removed, Live, CInv, Types
<1>4. CASE Restart
  BY <1>4 DEF Restart, GivenUp
<1> QED BY <1>1, <1>2, <1>3, <1>4, WhoMoves DEF At

LEMMA LeftoversStep ==
  ASSUME CInv, [Next]_vars
  PROVE  Leftovers'
<1> SUFFICES ASSUME NEW f \in Refs
             PROVE  /\ GivenUp(f)' /\ Live(f)' => f \in forsaken'
                    /\ f \in forsaken' => GivenUp(f)' \/ f \in revived'
  BY DEF Leftovers
<1>1. /\ GivenUp(f) /\ Live(f) => f \in forsaken
      /\ f \in forsaken => GivenUp(f) \/ f \in revived
  BY DEF CInv, Containers, Leftovers
<1>2. CASE UNCHANGED vars
  BY <1>1, <1>2 DEF vars, historyVars, GivenUp, Live
<1>3. CASE Remember
  <2>1. GivenUp(f)' /\ Live(f)' => ~GivenUp(f) \/ Live(f)
    BY Lasting DEF GivenUp, Live, CInv, Types
  <2>2. Deleted(f) /\ ~GivenUp(f) /\ GivenUp(f)' => ~Live(f)' \/ Unanswered("remove")
    BY DeletedAreGone
  <2> QED BY <1>1, <1>3, <2>1, <2>2 DEF Remember
<1> QED BY <1>2, <1>3, StepOrNot

-----------------------------------------------------------------------------
(* What a process knows while others move. *)

LEMMA RecordedLasts ==
  ASSUME CInv, [Next]_vars, NEW c, NEW f, Recorded(c, f)
  PROVE  Recorded(c, f)'
BY Lasting DEF Recorded

LEMMA MarredLasts ==
  ASSUME CInv, [Next]_vars, NEW c, Marred(c)
  PROVE  Marred(c)'
<1>1. PICK h \in lost \cup revived : home[h] = c
  BY DEF Marred
<1>2. h \in Refs /\ engine[h] # "none"
  BY DEF CInv, Types, History, Containers, NothingYet
<1>3. home'[h] = c /\ h \in (lost \cup revived)'
  BY <1>1, <1>2, Lasting DEF SameOrigin
<1> QED BY <1>3 DEF Marred

\* Somebody else's new container stays what it was.
LEMMA FreshLasts ==
  ASSUME CInv, [Next]_vars, NEW q \in Procs, NEW n, Fresh(q, n), restarts' = restarts,
         ~Recording(q, n), ~(At(q, "land") /\ At(q, "done")')
  PROVE  Fresh(q, n)'
<1>1. n \in Refs /\ row[n] = "none" /\ maker[n] = q /\ home[n] = ConvOf[q] /\ born[n] = restarts
  BY DEF Fresh
<1>2. engine[n] # "none" /\ (n \in lost => n \in lost')
  BY FaultsAdd DEF Fresh, CInv, Containers, NothingYet, Live
<1>3. Touched(n) /\ SameOrigin(n)
  BY <1>1, <1>2, ContainersTouched, Lasting
<1>4. ~Made(n) /\ ~Marked(n) /\ ~Dropped(n)
  BY <1>1, <1>2 DEF Made, Marked, Dropped
<1>5. ~Written(n)
  <2>1. ASSUME NEW r \in Procs, Recording(r, n) PROVE FALSE
    <3>1. Fresh(r, n)
      BY <2>1 DEF Recording, CInv, Workers, Sound
    <3> QED BY <1>1, <2>1, <3>1 DEF Fresh
  <2> QED BY <2>1 DEF Written
<1>6. Taken(n) => n \in lost' /\ row'[n] = "none"
  <2>1. ~(born[n] < restarts)
    BY <1>1 DEF CInv, Types
  <2> QED BY <1>1, <2>1 DEF Taken
<1>7. Stands(n) => row'[n] = "none" /\ (Live(n)' \/ n \in lost')
  BY <1>1, <1>2 DEF Stands, Fresh, Live
<1>8. row'[n] = "none" /\ (Live(n)' \/ n \in lost')
  BY <1>3, <1>4, <1>5, <1>6, <1>7 DEF Touched
<1> QED BY <1>1, <1>3, <1>8 DEF Fresh, SameOrigin

\* Who resolves or switches is the only one of its conversation to record.
Busy(p) ==
  \/ p \in Calls /\ pr[p].at \in Resolving
  \/ p \in Switches /\ InFlight(p)

LEMMA AloneIsBusy == \A p \in Procs : Alone(p) => Busy(p)
BY DEF Alone, Busy, Resolving, Asking, DecidePlaces, InFlight

LEMMA OneBusy ==
  ASSUME CInv, NEW p \in Procs, NEW q \in Procs, Busy(p), Busy(q), ConvOf[p] = ConvOf[q]
  PROVE  p = q
<1>1. \A x \in Procs : Busy(x) => InFlight(x)
  BY DEF Busy, InFlight, Resolving, Asking, DecidePlaces
<1>2. CASE p \in Calls /\ q \in Calls
  <2>1. pr[p].at \in Resolving /\ pr[q].at \in Resolving
    BY <1>2, OneKind DEF Busy
  <2> QED BY <1>2, <2>1 DEF CInv, Workers, PendingResolves
<1>3. CASE p \in Switches \/ q \in Switches
  BY <1>1, <1>3 DEF Busy, CInv, Workers, Apart
<1> QED BY <1>2, <1>3 DEF Busy

LEMMA Recorders ==
  ASSUME CInv, NEW r \in Procs, NEW f, Recording(r, f)
  PROVE  Fresh(r, f) /\ Alone(r) /\ Busy(r) /\ Theirs(r)
<1>1. Sound(r)
  BY DEF CInv, Workers
<1>2. Fresh(r, f) /\ Alone(r)
  BY <1>1 DEF Recording, Sound, OfKind, Alone, At, Resolving
<1> QED BY <1>1, <1>2, AloneIsBusy DEF Sound

\* What it knows stays so while it records nothing itself.
LEMMA TheirsLasts ==
  ASSUME CInv, [Next]_vars, NEW p \in Procs, Busy(p), \A f : ~Recording(p, f),
         NEW x, Marred(ConvOf[p]) \/ Held(ConvOf[p]) \subseteq {x}
  PROVE  (Marred(ConvOf[p]) \/ Held(ConvOf[p]) \subseteq {x})'
<1> DEFINE c == ConvOf[p]
<1>1. CASE Marred(c)
  BY <1>1, MarredLasts
<1>2. CASE Held(c) \subseteq {x}
  <2> SUFFICES ASSUME NEW f \in Refs, home'[f] = c, Kept(f)', ~Marred(c)' PROVE f = x
    BY DEF Held
  <2>1. f \notin revived'
    BY DEF Marred
  <2>2. CASE Kept(f)
    <3>1. home[f] = c
      BY <2>2, Lasting DEF Kept, Live, SameOrigin
    <3> QED BY <1>2, <2>2, <3>1 DEF Held
  <2>3. CASE ~Kept(f)
    <3>1. Written(f)
      BY <2>1, <2>3, KeptBefore
    <3>2. PICK r \in Procs : Recording(r, f)
      BY <3>1 DEF Written
    <3>3. Fresh(r, f) /\ Busy(r)
      BY <3>2, Recorders
    <3>4. home[f] = ConvOf[r] /\ home'[f] = home[f]
      BY <3>3, Lasting DEF Fresh, SameOrigin, CInv, Containers, NothingYet, Live
    <3>5. r = p
      BY <3>3, <3>4, OneBusy
    <3> QED BY <3>2, <3>5
  <2> QED BY <2>2, <2>3
<1> QED BY <1>1, <1>2

\* What a step does to who resolves: p is done, or goes on as it was, or joins
\* or begins.
Steady(p) ==
  /\ pending' = pending /\ \A q \in Procs \ {p} : pr'[q] = pr[q]
  /\ p \in Calls => (pr[p].at \in Resolving <=> pr'[p].at \in Resolving)
Begins(p) == p \in Calls /\ pr[p].at \notin Resolving /\ JoinOrCreate(p)
Resolves(p) == Ends(p) \/ Steady(p) \/ Begins(p)

LEMMA HowResolved ==
  ASSUME CInv, NEW p \in Procs, Acts(p)
  PROVE  Resolves(p)
<1>0. Types /\ pr[p] \in ProcStates /\ pr \in [Procs -> ProcStates] /\ Sound(p)
  BY EachProc DEF CInv, Types, Workers
<1>1. CASE Reserving(p)
  <2>1. CASE Reserve(p) \/ LooksAgain(p) \/ Reconcile(p)
    <3>1. pr[p].at \in Resolving /\ pr'[p].at \in Resolving /\ pending' = pending
      BY <1>0, <2>1 DEF Reserve, LooksAgain, Reconcile, Goes, At, Resolving, Asking, DecidePlaces, ProcStates
    <3>2. \A q \in Procs \ {p} : pr'[q] = pr[q]
      BY <1>0, <2>1 DEF Reserve, LooksAgain, Reconcile, Goes
    <3> QED BY <3>1, <3>2 DEF Steady, Resolves
  <2>2. CASE Grant(p)
    <3>1. pr[p].at \in Resolving /\ pending' = pending /\ pr'[p].at = Granted(pr[p].goal)
      BY <1>0, <2>2 DEF Grant, Resolving, Asking, DecidePlaces, ProcStates
    <3>2. \A q \in Procs \ {p} : pr'[q] = pr[q]
      BY <1>0, <2>2 DEF Grant
    <3>3. p \in Calls => pr[p].goal \in {"wake", "late", "make"}
      BY <1>0, <2>2, OneKind DEF Grant, Sound, OfKind, Asking, DecidePlaces
    <3>4. p \in Calls => Granted(pr[p].goal) \in Resolving
      BY <3>3 DEF Granted, Resolving
    <3> QED BY <3>1, <3>2, <3>4 DEF Steady, Resolves
  <2>3. CASE Refuse(p)
    BY <2>3 DEF Refuse, Resolves
  <2> QED BY <1>1, <2>1, <2>2, <2>3 DEF Reserving
<1>2. CASE Waking(p)
  <2>1. CASE Call(p) \/ Tomb(p)
    <3>1. p \in Calls /\ pr[p].at \notin Resolving
      BY <2>1 DEF Call, Tomb, At, Resolving, Asking, DecidePlaces
    <3>2. CASE JoinOrCreate(p)
      BY <3>1, <3>2 DEF Begins, Resolves
    <3>3. CASE pending' = pending /\ pr' = [pr EXCEPT ![p].at = "cached", ![p].ref = active[ConvOf[p]].ref]
      <4>1. pr'[p].at = "cached" /\ \A q \in Procs \ {p} : pr'[q] = pr[q]
        BY <1>0, <3>3 DEF ProcStates
      <4> QED BY <3>1, <3>3, <4>1 DEF Steady, Resolves, Resolving, Asking, DecidePlaces
    <3> QED BY <2>1, <3>2, <3>3 DEF Call, Tomb
  <2>2. CASE Cached(p)
    <3>1. pending' = pending /\ At(p, "cached") /\ (Goes(p, "done") \/ Goes(p, "tomb"))
      BY <2>2 DEF Cached
    <3>2. pr'[p].at \in {"done", "tomb"} /\ \A q \in Procs \ {p} : pr'[q] = pr[q]
      BY <1>0, <3>1 DEF Goes, ProcStates
    <3> QED BY <3>1, <3>2 DEF Steady, Resolves, Resolving, Asking, DecidePlaces, At
  <2>3. CASE Lookup(p) \/ Touch(p)
    <3>1. pr[p].at \in Resolving /\ pr'[p].at \in Resolving /\ pending' = pending
      BY <1>0, <2>3, WakesAt DEF Lookup, Touch, At, Resolving, Asking, DecidePlaces, ProcStates
    <3>2. \A q \in Procs \ {p} : pr'[q] = pr[q]
      BY <1>0, <2>3 DEF Lookup, Touch, Wakes
    <3> QED BY <3>1, <3>2 DEF Steady, Resolves
  <2>4. CASE Terminal(p)
    <3>1. p \notin Calls /\ pending' = pending /\ \A q \in Procs \ {p} : pr'[q] = pr[q]
      BY <1>0, <2>4, OneKind DEF Terminal, Wakes
    <3> QED BY <3>1 DEF Steady, Resolves
  <2>5. CASE Start(p) \/ Mark(p)
    <3>1. CASE \E place \in {"mark", "touch", "dead", "settle"} : Goes(p, place) /\ pending' = pending
      <4>1. pr[p].at \in Resolving
        BY <2>5 DEF Start, Mark, At, Resolving
      <4>2. pr'[p].at \in {"mark", "touch", "dead", "settle"} /\ \A q \in Procs \ {p} : pr'[q] = pr[q]
        BY <1>0, <3>1 DEF Goes, ProcStates
      <4> QED BY <3>1, <4>1, <4>2 DEF Steady, Resolves, Resolving
    <3> QED BY <2>5, <3>1 DEF Start, Mark, Resolves
  <2>6. CASE Settle(p) \/ Record(p)
    BY <2>6 DEF Settle, Record, Resolves
  <2>7. CASE DeadRow(p)
    <3>1. CASE p \in Calls
      <4>1. pr'[p].at = "reserve" /\ \A q \in Procs \ {p} : pr'[q] = pr[q]
        <5>1. [AtRest("reserve") EXCEPT !.goal = "make"].at = "reserve"
          BY RestTypes DEF Places
        <5> QED BY <1>0, <2>7, <3>1, <5>1 DEF DeadRow
      <4>2. pending' = pending /\ pr[p].at = "dead"
        BY <2>7, <3>1 DEF DeadRow, At
      <4> QED BY <4>1, <4>2 DEF Steady, Resolves, Resolving, Asking
    <3>2. CASE p \notin Calls
      BY <2>7, <3>2 DEF DeadRow, Resolves
    <3> QED BY <3>1, <3>2
  <2>8. CASE Make(p)
    <3>1. CASE pr' = [pr EXCEPT ![p].at = "record", ![p].ref = New] /\ UNCHANGED pending
      <4>1. pr'[p].at = "record" /\ \A q \in Procs \ {p} : pr'[q] = pr[q]
        BY <1>0, <3>1 DEF ProcStates
      <4> QED BY <2>8, <3>1, <4>1 DEF Make, At, Steady, Resolves, Resolving
    <3> QED BY <2>8, <3>1 DEF Make, Resolves
  <2> QED BY <1>2, <2>1, <2>2, <2>3, <2>4, <2>5, <2>6, <2>7, <2>8 DEF Waking
<1>3. CASE Pausing(p) \/ Switching(p) \/ Deleting(p)
  <2>1. p \notin Calls
    BY <1>0, <1>3, OneKind DEF Sound, OfKind, Pausing, Pause, MarkPaused, StopPaused, Snapshot, Tick, StopIdle,
         MarkIdle, Switching, Switch, FindWorking, Inspect, CreateNext, Land, CopyFails, Discard, Deleting,
         Delete, Forget, ListRows, DestroyOne, At
  <2>2. CASE Pausing(p)
    <3>1. pending' = pending /\ \A q \in Procs \ {p} : pr'[q] = pr[q]
      BY <1>0, <2>2 DEF Pausing, Pause, MarkPaused, StopPaused, Snapshot, Tick, StopIdle, MarkIdle, Goes
    <3> QED BY <2>1, <3>1 DEF Steady, Resolves
  <2>3. CASE Switching(p)
    <3>1. Ends(p) \/ (pending' = pending /\ \A q \in Procs \ {p} : pr'[q] = pr[q])
      BY <1>0, <2>3 DEF Switching, Switch, FindWorking, Inspect, CreateNext, Land, CopyFails, Discard, Goes
    <3> QED BY <2>1, <3>1 DEF Steady, Resolves
  <2>4. CASE Deleting(p)
    <3>1. pending' = pending /\ \A q \in Procs \ {p} : pr'[q] = pr[q]
      BY <1>0, <2>4 DEF Deleting, Delete, Forget, ListRows, DestroyOne, Goes
    <3> QED BY <2>1, <3>1 DEF Steady, Resolves
  <2> QED BY <1>3, <2>2, <2>3, <2>4
<1> QED BY <1>1, <1>2, <1>3 DEF Acts

\* One call of a conversation resolves at a time, whoever joins it.
LEMMA PendingStep ==
  ASSUME CInv, [Next]_vars
  PROVE  PendingResolves'
<1>0. PendingResolves /\ Types
  BY DEF CInv, Workers
<1>1. ASSUME NEW p \in Procs, Acts(p) PROVE PendingResolves'
  <2>0. Others(p) /\ Resolves(p)
    BY <1>1, ActsAlone, HowResolved
  <2>1. CASE Ends(p)
    <3>1. \A q \in Procs : pr'[q] = pr[q] \/ (pr'[q].at = "done" /\ (q = p \/ pr[q].at = "joined"))
      BY <1>0, <2>0, <2>1, EndsAt DEF Others
    <3>2. \A c \in Convs : pending'[c] = IF pending[c] = p THEN NoOne ELSE pending[c]
      BY <2>1 DEF Ends
    <3>3. "done" \notin Resolving /\ "joined" \notin Resolving
      BY DEF Resolving, Asking, DecidePlaces
    <3>4. ASSUME NEW q \in Calls, pr'[q].at \in Resolving PROVE pending'[ConvOf[q]] = q
      <4>1. pr'[q] = pr[q]
        BY <3>1, <3>3, <3>4 DEF Procs
      <4>2. pending[ConvOf[q]] = q /\ q # p
        BY <1>0, <2>1, <3>3, <3>4, <4>1, EndsAt DEF PendingResolves
      <4> QED BY <3>2, <4>2, ConvOfProc DEF Procs
    <3>5. ASSUME NEW c \in Convs, pending'[c] # NoOne
          PROVE  ConvOf[pending'[c]] = c /\ pr'[pending'[c]].at \in Resolving
      <4>1. pending'[c] = pending[c] /\ pending[c] # p /\ pending[c] \in Calls
        BY <1>0, <3>2, <3>5 DEF Types
      <4>2. ConvOf[pending[c]] = c /\ pr[pending[c]].at \in Resolving
        BY <1>0, <3>5, <4>1 DEF PendingResolves
      <4>3. pr'[pending[c]] = pr[pending[c]]
        BY <3>1, <3>3, <4>1, <4>2 DEF Procs
      <4> QED BY <4>1, <4>2, <4>3
    <3> QED BY <3>4, <3>5 DEF PendingResolves
  <2>2. CASE Steady(p)
    <3>1. \A q \in Calls : pr[q].at \in Resolving <=> pr'[q].at \in Resolving
      BY <2>2 DEF Steady, Procs
    <3>2. pending' = pending /\ \A c \in Convs : pending[c] \in Calls \cup {NoOne}
      BY <1>0, <2>2 DEF Steady, Types
    <3> QED BY <1>0, <3>1, <3>2 DEF PendingResolves
  <2>3. CASE Begins(p)
    <3>0. p \in Calls /\ pr[p].at \notin Resolving /\ ConvOf[p] \in Convs /\ p # NoOne
      BY <2>3, ConvOfProc, NoOneIsNotAtWork DEF Begins
    <3>1. \A q \in Procs \ {p} : pr'[q] = pr[q]
      BY <1>0, <2>3 DEF Begins, JoinOrCreate, Types
    <3>2. CASE pending[ConvOf[p]] # NoOne
      <4>1. pr'[p].at = "joined" /\ pending' = pending
        BY <1>0, <2>3, <3>2, RestTypes DEF Begins, JoinOrCreate, Types, Places
      <4>2. \A q \in Calls : pr[q].at \in Resolving <=> pr'[q].at \in Resolving
        BY <3>0, <3>1, <4>1 DEF Procs, Resolving, Asking, DecidePlaces
      <4>3. \A c \in Convs : pending[c] \in Calls \cup {NoOne}
        BY <1>0 DEF Types
      <4> QED BY <1>0, <4>1, <4>2, <4>3 DEF PendingResolves
    <3>3. CASE pending[ConvOf[p]] = NoOne
      <4>1. pr'[p].at = "lookup" /\ pending' = [pending EXCEPT ![ConvOf[p]] = p]
        BY <1>0, <2>3, <3>3, RestTypes DEF Begins, JoinOrCreate, Types, Places
      <4>2. \A c \in Convs : pending'[c] = IF c = ConvOf[p] THEN p ELSE pending[c]
        BY <1>0, <4>1 DEF Types
      <4>3. ASSUME NEW q \in Calls, pr'[q].at \in Resolving PROVE pending'[ConvOf[q]] = q
        <5>1. CASE q = p
          BY <3>0, <4>2, <5>1
        <5>2. CASE q # p
          <6>1. pending[ConvOf[q]] = q /\ q # NoOne /\ ConvOf[q] \in Convs
            BY <1>0, <3>1, <4>3, <5>2, ConvOfProc, NoOneIsNotAtWork DEF PendingResolves, Procs
          <6> QED BY <3>3, <4>2, <6>1
        <5> QED BY <5>1, <5>2
      <4>4. ASSUME NEW c \in Convs, pending'[c] # NoOne
            PROVE  ConvOf[pending'[c]] = c /\ pr'[pending'[c]].at \in Resolving
        <5>1. CASE c = ConvOf[p]
          BY <4>1, <4>2, <5>1 DEF Resolving
        <5>2. CASE c # ConvOf[p]
          <6>1. pending'[c] = pending[c] /\ pending[c] \in Calls
            BY <1>0, <4>2, <4>4, <5>2 DEF Types
          <6>2. ConvOf[pending[c]] = c /\ pr[pending[c]].at \in Resolving
            BY <1>0, <4>4, <6>1 DEF PendingResolves
          <6> QED BY <3>1, <5>2, <6>1, <6>2 DEF Procs
        <5> QED BY <5>1, <5>2
      <4> QED BY <4>3, <4>4 DEF PendingResolves
    <3> QED BY <3>2, <3>3
  <2> QED BY <2>0, <2>1, <2>2, <2>3 DEF Resolves
<1>2. CASE Restart
  <2>1. \A c \in Convs : pending'[c] = NoOne
    BY <1>2 DEF Restart
  <2>2. \A q \in Procs : pr'[q].at \notin Resolving
    BY <1>2 DEF Restart, InFlight, AtRest, Resolving, Asking, DecidePlaces
  <2> QED BY <2>1, <2>2 DEF PendingResolves, Procs
<1>3. CASE UNCHANGED <<pr, pending>>
  BY <1>0, <1>3 DEF PendingResolves
<1>4. Booting \/ Lose \/ UNCHANGED vars => UNCHANGED <<pr, pending>>
  BY DEF Booting, ReadClaims, SweepDead, StopStray, HaltStray, MarkStray, SweepUnclaimed, TheRest, Lose, vars
<1> QED BY <1>1, <1>2, <1>3, <1>4, StepOrNot DEF Step, Acts

\* A call that resolves goes on resolving until it is done, or the server stops.
LEMMA ResolvingLasts ==
  ASSUME CInv, [Next]_vars, NEW q \in Calls, pr[q].at \in Resolving, restarts' = restarts
  PROVE  pr'[q].at \in Resolving \cup {"done"}
<1>0. q \in Procs /\ Types
  BY DEF Procs, CInv
<1>1. CASE Acts(q)
  <2>1. Ends(q) \/ Steady(q)
    BY <1>0, <1>1, HowResolved DEF Resolves, Begins
  <2> QED BY <1>0, <2>1, EndsAt DEF Steady
<1>2. ~Restart
  BY <1>0 DEF Restart, Types
<1> QED BY <1>0, <1>1, <1>2, WhoMoves DEF At

\* What a delete has seen to stays seen to.
LEMMA TakingLasts ==
  ASSUME CInv, [Next]_vars, NEW d \in Deletes, Taking(d), pr'[d] = pr[d],
         restarts' = restarts \/ ~At(d, "await")
  PROVE  Taking(d)'
<1>0. d \in Procs /\ pr[d] \in ProcStates /\ Types
  BY EachProc DEF Procs, CInv
<1>1. PICK a \in Calls \cup {NoOne} : a = pr[d].awaits
  BY <1>0 DEF ProcStates
<1>2. ASSUME a # NoOne
      PROVE  ConvOf[a] = ConvOf[d] /\ (At(a, "done")' \/ (At(d, "await")' /\ pr'[a].at \in Resolving))
  <2>1. a \in Calls /\ a \in Procs /\ ConvOf[a] = ConvOf[d]
    BY <1>1, <1>2 DEF Taking, Waited, Procs
  <2>2. CASE At(a, "done")
    BY <2>1, <2>2, Movements DEF At
  <2>3. CASE At(d, "await") /\ pr[a].at \in Resolving
    <3>1. pr'[a].at \in Resolving \cup {"done"}
      BY <2>1, <2>3, ResolvingLasts
    <3> QED BY <2>1, <2>3, <3>1 DEF At
  <2> QED BY <1>1, <1>2, <2>1, <2>2, <2>3 DEF Taking, Waited
<1>3. Waited(d)'
  BY <1>1, <1>2 DEF Waited, At
<1>4. \A f \in pr'[d].owes : row'[f] # "none"
  BY <1>0, Lasting DEF Taking, ProcStates
<1>5. ASSUME pr'[d].at \in {"destroy", "done"}, NEW f \in Refs, home'[f] = ConvOf[d],
             f \in pr'[d].owes \/ (maker'[f] = pr'[d].awaits /\ maker'[f] # NoOne)
      PROVE  ~Live(f)' \/ f \in forsaken' \/ (At(d, "destroy") /\ f \in pr[d].todo)
  <2>1. engine[f] # "none" /\ SameOrigin(f)
    <3>1. CASE f \in pr[d].owes
      BY <3>1, Lasting DEF Taking
    <3>2. CASE f \notin pr[d].owes
      <4>1. maker'[f] = a /\ a # NoOne
        BY <1>1, <1>5, <3>2
      <4>2. At(a, "done")
        BY <1>1, <1>5, <4>1 DEF Taking, Waited, At
      <4>3. ~Made(f)
        BY <4>1, <4>2 DEF Made, Making, At
      <4>4. SameOrigin(f)
        BY <4>3, ContainersTouched DEF Touched
      <4>5. maker[f] # NoOne
        BY <4>1, <4>4 DEF SameOrigin
      <4> QED BY <4>4, <4>5 DEF CInv, Containers, NothingYet
    <3> QED BY <3>1, <3>2
  <2>2. home[f] = ConvOf[d] /\ Owed(d, f)
    BY <1>5, <2>1 DEF SameOrigin, Owed
  <2>3. ~Live(f) \/ f \in forsaken \/ (At(d, "destroy") /\ f \in pr[d].todo)
    BY <1>5, <2>2 DEF Taking
  <2>4. ~Live(f) => ~Live(f)'
    BY <2>1, Lasting DEF Live
  <2> QED BY <2>3, <2>4, Lasting
<1>6. pr'[d].at \in {"destroy", "done"} =>
        \A f \in Refs : home'[f] = ConvOf[d] /\ Owed(d, f)' =>
          ~Live(f)' \/ f \in forsaken' \/ (At(d, "destroy")' /\ f \in pr'[d].todo)
  BY <1>5 DEF Owed, At
<1> QED BY <1>3, <1>4, <1>6 DEF Taking

\* Whoever stands still knows what it knew.
LEMMA StillSound ==
  ASSUME CInv, [Next]_vars, NEW q \in Procs, pr'[q] = pr[q], restarts' = restarts
  PROVE  Sound(q)'
<1>0. Sound(q) /\ pr[q] \in ProcStates
  BY EachProc DEF CInv, Workers
<1>1. \A f : ~Recording(q, f)
  BY DEF Recording, At
<1>2. PICK x \in Ref0 : x = pr[q].ref
  BY <1>0 DEF ProcStates
<1>3. ~At(q, "record") => Recorded(ConvOf[q], pr[q].ref)'
  BY <1>0, <1>2, RecordedLasts DEF Sound, Recorded
<1>4. OfKind(q)'
  BY <1>0 DEF Sound, OfKind
<1>5. At(q, "record") => Fresh(q, pr[q].ref)'
  <2>1. At(q, "record") => Fresh(q, x)'
    BY <1>0, <1>1, <1>2, FreshLasts DEF Sound, At
  <2> QED BY <1>2, <2>1 DEF Fresh
<1>6. At(q, "land") => \E n \in Refs : pr[q].todo = {n} /\ Fresh(q, n)'
  BY <1>0, <1>1, FreshLasts DEF Sound, At
<1>7. At(q, "discard") =>
        \A f \in pr[q].todo : f \in Refs => row'[f] # "none" /\ (f \in forsaken' \/ engine'[f] = "gone")
  BY <1>0, Lasting DEF Sound
<1>8. At(q, "destroy") => \A f \in pr[q].todo : f \in Refs /\ row'[f] # "none"
  BY <1>0, Lasting DEF Sound
<1>9. At(q, "dead") => \A f \in Refs : pr[q].ref = f => engine'[f] = "gone"
  BY <1>0, Lasting DEF Sound
<1>10. Alone(q) => Theirs(q)'
  <2>1. Alone(q) => (Marred(ConvOf[q]) \/ Held(ConvOf[q]) \subseteq {x})'
    BY <1>0, <1>1, <1>2, AloneIsBusy, TheirsLasts DEF Sound, Theirs
  <2>2. pr'[q].ref = x
    BY <1>2
  <2> QED BY <2>1, <2>2 DEF Theirs
<1>11. q \in Deletes /\ pr[q].at \in {"await", "list", "destroy", "done"} => Taking(q)'
  BY <1>0, TakingLasts DEF Sound
<1> QED BY <1>3, <1>4, <1>5, <1>6, <1>7, <1>8, <1>9, <1>10, <1>11 DEF Sound, At, Alone

-----------------------------------------------------------------------------
(* What the process that moves knows. *)

\* It goes on with the container it had.
LEMMA KeepsTo ==
  ASSUME CInv, [Next]_vars, NEW p \in Procs, p \notin Deletes,
         pr'[p].ref = pr[p].ref, pr[p].at \notin {"record", "land"},
         pr'[p].at \notin {"record", "land", "discard", "destroy"},
         pr'[p].at = "dead" => \A f \in Refs : pr'[p].ref = f => engine'[f] = "gone",
         OfKind(p)', Alone(p)' => Alone(p)
  PROVE  Sound(p)'
<1>0. Sound(p) /\ pr[p] \in ProcStates
  BY EachProc DEF CInv, Workers
<1>1. PICK x \in Ref0 : x = pr[p].ref
  BY <1>0 DEF ProcStates
<1>2. Recorded(ConvOf[p], x)'
  BY <1>0, <1>1, RecordedLasts DEF Sound, At, Recorded
<1>3. \A f : ~Recording(p, f)
  BY DEF Recording, At
<1>4. Alone(p)' => Theirs(p)'
  <2>1. Alone(p) => (Marred(ConvOf[p]) \/ Held(ConvOf[p]) \subseteq {x})'
    BY <1>0, <1>1, <1>3, AloneIsBusy, TheirsLasts DEF Sound, Theirs
  <2>2. pr'[p].ref = x
    BY <1>1
  <2> QED BY <2>1, <2>2 DEF Theirs
<1> QED BY <1>1, <1>2, <1>4 DEF Sound, At, Recorded

\* It rests.
LEMMA RestsSound ==
  ASSUME NEW p \in Procs, p \notin Deletes, NEW place \in {"done", "lost", "joined"},
         pr'[p] = AtRest(place), place = "joined" => p \in Calls
  PROVE  Sound(p)'
<1>1. pr'[p].at = place /\ pr'[p].ref = NoRef
  BY DEF AtRest
<1> QED BY <1>1 DEF Sound, At, OfKind, Alone, Recorded, Resolving, Asking, DecidePlaces

LEMMA EndsSound ==
  ASSUME CInv, NEW p \in Procs, p \notin Deletes, Ends(p)
  PROVE  Sound(p)'
<1>1. pr'[p] = AtRest("done")
  BY DEF Ends, CInv, Types
<1> QED BY <1>1, RestsSound

LEMMA SoundReserving ==
  ASSUME CInv, [Next]_vars, NEW p \in Procs, Reserving(p)
  PROVE  Sound(p)'
<1>0. Sound(p) /\ pr[p] \in ProcStates /\ Types /\ pr \in [Procs -> ProcStates]
  BY EachProc DEF CInv, Types, Workers
<1>1. pr[p].at \in Asking
  BY DEF Reserving, Reserve, Grant, LooksAgain, Reconcile, Refuse, At, Asking, DecidePlaces
<1>2. /\ pr[p].at \notin {"record", "land"} /\ p \notin Deletes
      /\ p \in Calls \cup Switches => Alone(p)
  BY <1>0, <1>1, OneKind DEF Asking, DecidePlaces, Sound, OfKind, Alone, Resolving
<1>3. CASE Reserve(p) \/ LooksAgain(p) \/ Reconcile(p)
  <2>1. pr'[p].at \in Asking /\ pr'[p].ref = pr[p].ref /\ pr'[p].goal = pr[p].goal
    BY <1>0, <1>3 DEF Reserve, LooksAgain, Reconcile, Goes, ProcStates, Asking, DecidePlaces
  <2>2. OfKind(p)'
    BY <1>0, <1>1, <2>1 DEF Sound, OfKind, Asking, DecidePlaces
  <2> QED BY <1>2, <2>1, <2>2, KeepsTo DEF Alone, Asking, DecidePlaces
<1>4. CASE Grant(p)
  <2>1. pr'[p].at = Granted(pr[p].goal) /\ pr'[p].ref = pr[p].ref
    BY <1>0, <1>4 DEF Grant, ProcStates
  <2>2. \/ pr[p].goal = "make" /\ p \in Calls /\ pr'[p].at = "make"
        \/ pr[p].goal \in {"wake", "late"} /\ p \in Calls \cup Terminals /\ pr'[p].at \in {"start", "mark"}
        \/ pr[p].goal = "switch" /\ p \in Switches /\ pr'[p].at = "copy"
    BY <1>0, <1>1, <2>1 DEF Granted, Sound, OfKind
  <2>3. OfKind(p)'
    BY <2>2 DEF OfKind, Asking, DecidePlaces
  <2> QED BY <1>2, <2>1, <2>2, <2>3, KeepsTo DEF Alone
<1>5. CASE Refuse(p)
  BY <1>2, <1>5, EndsSound DEF Refuse
<1> QED BY <1>3, <1>4, <1>5 DEF Reserving

\* A row that can be woken is all its conversation has.
LEMMA OneKept ==
  ASSUME CInv, NEW c \in Convs, NEW f \in Claims(c)
  PROVE  Marred(c) \/ Held(c) \subseteq {f}
<1>1. f \in Refs /\ home[f] = c /\ row[f] \in Claiming
  BY DEF Claims
<1>2. CASE Live(f)
  BY <1>1, <1>2 DEF Kept, Held, Marred, CInv, Workers, OneContainer
<1>3. CASE ~Live(f)
  <2>1. engine[f] = "gone"
    BY <1>1, <1>3 DEF CInv, Types, Containers, NothingYet, Live, Claiming
  <2> QED BY <1>1, <2>1 DEF CInv, Containers, Tombstones, Marred
<1> QED BY <1>2, <1>3

LEMMA NoneKept ==
  ASSUME NEW c, Claims(c) = {}
  PROVE  Held(c) = {}
BY DEF Claims, Held, Kept

LEMMA NewIsFresh ==
  ASSUME CInv, NEW p \in Procs, NEW n, n = New, Unmade # {}, Creates(p, n), row' = row, restarts' = restarts
  PROVE  Fresh(p, n)'
<1>1. n \in Refs /\ engine[n] = "none" /\ row[n] = "none"
  BY NewIsUnmade DEF Unmade, CInv, Containers, NothingYet
<1>2. engine'[n] = "running" /\ home'[n] = ConvOf[p] /\ maker'[n] = p /\ born'[n] = restarts
  BY <1>1 DEF Creates, CInv, Types
<1> QED BY <1>1, <1>2 DEF Fresh, Live

LEMMA SoundWoken ==
  ASSUME CInv, [Next]_vars, NEW p \in Procs, p \in Calls \cup Terminals, NEW f \in Claims(ConvOf[p]),
         Wakes(p, f), \A x : ~Recording(p, x), p \in Calls => Busy(p)
  PROVE  Sound(p)'
<1>0. pr[p] \in ProcStates /\ Types /\ pr \in [Procs -> ProcStates] /\ ConvOf[p] \in Convs
  BY EachProc, ConvOfProc DEF CInv, Types
<1>1. pr'[p].ref = f
  BY <1>0 DEF Wakes, ProcStates
<1>2. \/ pr'[p].at = "reserve" /\ pr'[p].goal = "wake"
      \/ pr'[p].at = "start"
  BY <1>0 DEF Wakes, ProcStates
<1>3. Recorded(ConvOf[p], f)'
  <2>1. Recorded(ConvOf[p], f)
    BY DEF Claims, Recorded, Claiming
  <2> QED BY <2>1, RecordedLasts
<1>4. p \notin Switches /\ p \notin Deletes
  BY OneKind
<1>5. p \in Calls => (Marred(ConvOf[p]) \/ Held(ConvOf[p]) \subseteq {f})'
  BY <1>0, OneKept, TheirsLasts
<1>6. OfKind(p)'
  BY <1>2 DEF OfKind, Asking, DecidePlaces
<1> QED BY <1>1, <1>2, <1>3, <1>4, <1>5, <1>6 DEF Sound, At, Alone, Theirs, Recorded

LEMMA SoundWaking ==
  ASSUME CInv, [Next]_vars, NEW p \in Procs, Waking(p)
  PROVE  Sound(p)'
<1>0. /\ Sound(p) /\ pr[p] \in ProcStates /\ Types /\ pr \in [Procs -> ProcStates]
      /\ ConvOf[p] \in Convs
  BY EachProc, ConvOfProc DEF CInv, Types, Workers
<1>1. p \in Calls \cup Terminals /\ p \notin Deletes
  BY <1>0, OneKind DEF Waking, Call, Cached, Tomb, Lookup, Terminal, Start, Touch, Mark, Settle, DeadRow, Make,
       Record, Sound, OfKind, At
<1>2. CASE Call(p)
  <2>1. CASE active[ConvOf[p]] # NoEntry
    <3>1. pr'[p].at = "cached" /\ pr'[p].ref = active[ConvOf[p]].ref /\ p \in Calls
      BY <1>0, <1>2, <2>1 DEF Call, ProcStates
    <3>2. PICK x : x = active[ConvOf[p]].ref
      OBVIOUS
    <3>3. Recorded(ConvOf[p], x)'
      BY <1>0, <3>2, RecordedLasts DEF CInv, Containers, EntriesRecorded, Recorded
    <3> QED BY <1>1, <3>1, <3>2, <3>3 DEF Sound, At, OfKind, Alone, Recorded, Resolving, Asking, DecidePlaces
  <2>2. CASE active[ConvOf[p]] = NoEntry
    <3>1. pr'[p].at \in {"joined", "lookup"} /\ pr'[p].ref = NoRef /\ p \in Calls
      BY <1>0, <1>2, <2>2, JoinsAt DEF Call
    <3> QED BY <1>1, <3>1, OneKind DEF Sound, At, OfKind, Alone, Recorded, Resolving, Asking, DecidePlaces
  <2> QED BY <2>1, <2>2
<1>3. CASE Tomb(p)
  <2>1. pr'[p].at \in {"joined", "lookup"} /\ pr'[p].ref = NoRef /\ p \in Calls
    BY <1>0, <1>3, JoinsAt DEF Tomb
  <2> QED BY <1>1, <2>1, OneKind DEF Sound, At, OfKind, Alone, Recorded, Resolving, Asking, DecidePlaces
<1>4. CASE Cached(p)
  <2>1. At(p, "cached") /\ (Goes(p, "done") \/ Goes(p, "tomb"))
    BY <1>4 DEF Cached
  <2>2. pr'[p].at \in {"done", "tomb"} /\ pr'[p].ref = pr[p].ref
    BY <1>0, <2>1 DEF Goes, ProcStates
  <2>3. p \in Calls /\ p \notin Switches
    BY <1>0, <2>1, OneKind DEF Sound, OfKind, At
  <2> QED BY <1>1, <2>1, <2>2, <2>3, KeepsTo DEF OfKind, Alone, Resolving, Asking, DecidePlaces, At
<1>5. CASE Lookup(p)
  <2>0. p \in Calls /\ Busy(p) /\ At(p, "lookup") /\ \A x : ~Recording(p, x)
    BY <1>0, <1>5 DEF Lookup, Sound, OfKind, Busy, Resolving, At, Recording
  <2>1. CASE \E f \in Recoverable(ConvOf[p]) : Wakes(p, f)
    BY <1>1, <2>0, <2>1, SoundWoken DEF Recoverable
  <2>2. CASE /\ Recoverable(ConvOf[p]) = {}
             /\ pr' = [pr EXCEPT ![p].at = "reserve", ![p].goal = "make"]
    <3>1. pr'[p].at = "reserve" /\ pr'[p].goal = "make" /\ pr'[p].ref = pr[p].ref
      BY <1>0, <2>2 DEF ProcStates
    <3>2. pr[p].ref = NoRef
      BY <2>0 DEF CInv, Makers, Blank, At
    <3>3. (Marred(ConvOf[p]) \/ Held(ConvOf[p]) \subseteq {NoRef})'
      BY <2>0, <2>2, NoneKept, TheirsLasts DEF Recoverable
    <3>4. OfKind(p)'
      BY <2>0, <3>1 DEF OfKind, Asking
    <3> QED BY <1>1, <3>1, <3>2, <3>3, <3>4 DEF Sound, At, Theirs, Recorded
  <2> QED BY <1>5, <2>1, <2>2 DEF Lookup
<1>6. CASE Terminal(p)
  <2>1. p \notin Calls /\ \A x : ~Recording(p, x)
    BY <1>6, OneKind DEF Terminal, Recording, At
  <2> QED BY <1>1, <1>6, <2>1, SoundWoken DEF Terminal
<1>7. CASE Start(p)
  <2>0. At(p, "start") /\ (p \in Calls => Alone(p)) /\ p \notin Switches
    BY <1>1, <1>7, OneKind DEF Start, At, Alone, Resolving
  <2>1. CASE \E place \in {"mark", "touch"} : Goes(p, place)
    <3>1. pr'[p].at \in {"mark", "touch"} /\ pr'[p].ref = pr[p].ref
      BY <1>0, <2>1 DEF Goes, ProcStates
    <3>2. OfKind(p)'
      BY <1>1, <3>1 DEF OfKind, Asking, DecidePlaces
    <3> QED BY <1>1, <2>0, <3>1, <3>2, KeepsTo DEF At, Alone
  <2>2. CASE Goes(p, "dead") /\ ~Live(pr[p].ref) /\ UNCHANGED engine
    <3>1. pr'[p].at = "dead" /\ pr'[p].ref = pr[p].ref
      BY <1>0, <2>2 DEF Goes, ProcStates
    <3>2. OfKind(p)'
      BY <1>1, <3>1 DEF OfKind, Asking, DecidePlaces
    <3>3. \A f \in Refs : pr[p].ref = f => engine[f] = "gone"
      <4>1. \A f \in Refs : pr[p].ref = f => row[f] # "none"
        BY <1>0, <2>0, PoolAssumption DEF Sound, At, Recorded, NoRef
      <4> QED BY <2>2, <4>1 DEF CInv, Types, Containers, NothingYet, Live
    <3> QED BY <1>1, <2>0, <2>2, <3>1, <3>2, <3>3, KeepsTo DEF At, Alone
  <2>3. CASE Ends(p)
    BY <1>1, <2>3, EndsSound
  <2> QED BY <1>7, <2>1, <2>2, <2>3 DEF Start
<1>8. CASE Touch(p) \/ Mark(p)
  <2>0. pr[p].at \in {"touch", "mark"} /\ (p \in Calls => Alone(p)) /\ p \notin Switches
    BY <1>1, <1>8, OneKind DEF Touch, Mark, At, Alone, Resolving
  <2>1. /\ pr'[p].at = "settle" \/ (pr'[p].at = "reserve" /\ pr'[p].goal = "late")
        /\ pr'[p].ref = pr[p].ref
    BY <1>0, <1>8 DEF Touch, Mark, Goes, ProcStates
  <2>2. OfKind(p)'
    BY <1>1, <2>1 DEF OfKind, Asking, DecidePlaces
  <2> QED BY <1>1, <2>0, <2>1, <2>2, KeepsTo DEF Alone
<1>9. CASE Settle(p) \/ Record(p)
  BY <1>1, <1>9, EndsSound DEF Settle, Record
<1>10. CASE DeadRow(p)
  <2>1. CASE p \in Calls
    <3>1. pr'[p] = [AtRest("reserve") EXCEPT !.goal = "make"] /\ At(p, "dead")
      BY <1>0, <1>10, <2>1 DEF DeadRow
    <3>2. pr'[p].at = "reserve" /\ pr'[p].goal = "make" /\ pr'[p].ref = NoRef
      BY <3>1 DEF AtRest
    <3>3. Alone(p) /\ \A x : ~Recording(p, x)
      BY <2>1, <3>1 DEF Alone, Resolving, At, Recording
    <3>4. Marred(ConvOf[p]) \/ Held(ConvOf[p]) = {}
      BY <1>0, <3>1, <3>3 DEF Sound, Theirs, Held, Kept, Live
    <3>5. (Marred(ConvOf[p]) \/ Held(ConvOf[p]) \subseteq {NoRef})'
      BY <3>3, <3>4, AloneIsBusy, TheirsLasts
    <3>6. OfKind(p)'
      BY <2>1, <3>2 DEF OfKind, Asking
    <3> QED BY <1>1, <3>2, <3>5, <3>6 DEF Sound, At, Theirs, Recorded
  <2>2. CASE p \notin Calls
    BY <1>1, <1>10, <2>2, EndsSound DEF DeadRow
  <2> QED BY <2>1, <2>2
<1>11. CASE Make(p)
  <2>0. At(p, "make") /\ p \in Calls /\ Alone(p) /\ pr[p].ref = NoRef /\ \A x : ~Recording(p, x)
    BY <1>0, <1>11 DEF Make, At, Sound, OfKind, Alone, Resolving, CInv, Makers, Blank, Recording
  <2>1. CASE Creates(p, New) /\ pr' = [pr EXCEPT ![p].at = "record", ![p].ref = New]
    <3>1. PICK n : n = New
      OBVIOUS
    <3>2. pr'[p].at = "record" /\ pr'[p].ref = n
      BY <1>0, <2>1, <3>1 DEF ProcStates
    <3>3. Fresh(p, n)'
      BY <1>11, <2>1, <3>1, NewIsFresh DEF Make
    <3>4. Held(ConvOf[p]) \subseteq {n} \/ Marred(ConvOf[p])
      BY <1>0, <2>0, PoolAssumption DEF Sound, Theirs, Held, NoRef
    <3>5. (Marred(ConvOf[p]) \/ Held(ConvOf[p]) \subseteq {n})'
      BY <2>0, <3>4, AloneIsBusy, TheirsLasts
    <3>6. OfKind(p)'
      BY <2>0, <3>2 DEF OfKind, Asking, DecidePlaces
    <3> QED BY <1>1, <3>2, <3>3, <3>5, <3>6 DEF Sound, At, Theirs, Fresh
  <2>2. CASE Ends(p)
    BY <1>1, <2>2, EndsSound
  <2> QED BY <1>11, <2>1, <2>2 DEF Make
<1> QED BY <1>2, <1>3, <1>4, <1>5, <1>6, <1>7, <1>8, <1>9, <1>10, <1>11 DEF Waking

LEMMA SoundPausing ==
  ASSUME CInv, [Next]_vars, NEW p \in Procs, Pausing(p)
  PROVE  Sound(p)'
<1>0. /\ Sound(p) /\ pr[p] \in ProcStates /\ Types /\ pr \in [Procs -> ProcStates]
      /\ ConvOf[p] \in Convs
  BY EachProc, ConvOfProc DEF CInv, Types, Workers
<1>1. p \in Pauses \cup Ticks
  BY <1>0 DEF Pausing, Pause, MarkPaused, StopPaused, Snapshot, Tick, StopIdle, MarkIdle, Sound, OfKind, At
<1>2. p \notin Deletes /\ p \notin Calls /\ p \notin Switches
  BY <1>1, OneKind
<1>3. CASE Pause(p) \/ Snapshot(p)
  <2>1. pr'[p].at \in {"pause", "snapped"}
    <3>1. CASE Pause(p)
      BY <1>0, <3>1 DEF Pause, ProcStates
    <3>2. CASE Snapshot(p)
      BY <1>0, <3>2 DEF Snapshot, ProcStates
    <3> QED BY <1>3, <3>1, <3>2
  <2>2. PICK x : x = pr'[p].ref
    OBVIOUS
  <2>3. Recorded(ConvOf[p], x)
    <3>1. CASE Pause(p)
      BY <1>0, <2>2, <3>1 DEF Pause, ProcStates, RunningClaims, Recorded
    <3>2. CASE Snapshot(p)
      <4>1. x = active[ConvOf[p]].ref
        BY <1>0, <2>2, <3>2 DEF Snapshot, ProcStates
      <4> QED BY <1>0, <4>1 DEF CInv, Containers, EntriesRecorded
    <3> QED BY <1>3, <3>1, <3>2
  <2>4. Recorded(ConvOf[p], x)'
    BY <2>3, RecordedLasts
  <2>5. OfKind(p)'
    BY <1>1, <2>1 DEF OfKind, Asking, DecidePlaces
  <2> QED BY <1>2, <2>1, <2>2, <2>4, <2>5 DEF Sound, At, Alone, Recorded
<1>4. CASE MarkPaused(p) \/ StopPaused(p) \/ Tick(p) \/ StopIdle(p) \/ MarkIdle(p)
  <2>1. /\ pr[p].at \in {"pause", "stopping", "snapped", "tick", "ticked"}
        /\ \E place \in {"stopping", "done", "tick", "ticked"} : Goes(p, place)
    BY <1>4 DEF MarkPaused, StopPaused, Tick, StopIdle, MarkIdle, At
  <2>2. pr'[p].at \in {"stopping", "done", "tick", "ticked"} /\ pr'[p].ref = pr[p].ref
    BY <1>0, <2>1 DEF Goes, ProcStates
  <2>3. OfKind(p)'
    BY <1>1, <2>2 DEF OfKind, Asking, DecidePlaces
  <2> QED BY <1>2, <2>1, <2>2, <2>3, KeepsTo DEF Alone
<1> QED BY <1>3, <1>4 DEF Pausing

LEMMA SoundSwitching ==
  ASSUME CInv, [Next]_vars, NEW p \in Procs, Switching(p)
  PROVE  Sound(p)'
<1>0. /\ Sound(p) /\ pr[p] \in ProcStates /\ Types /\ pr \in [Procs -> ProcStates]
      /\ ConvOf[p] \in Convs
  BY EachProc, ConvOfProc DEF CInv, Types, Workers
<1>1. p \in Switches /\ p \notin Deletes /\ p \notin Calls
  BY <1>0, OneKind DEF Switching, Switch, FindWorking, Inspect, CreateNext, Land, CopyFails, Discard, Sound,
       OfKind, At
<1>2. CASE Switch(p)
  <2>1. pr'[p].at = "look" /\ pr'[p].ref = pr[p].ref /\ pr[p].at = "idle"
    BY <1>0, <1>2 DEF Switch, Goes, At, ProcStates
  <2> QED BY <1>1, <2>1, KeepsTo DEF OfKind, Alone, Asking, DecidePlaces
<1>3. CASE FindWorking(p)
  <2>0. At(p, "look") /\ Busy(p) /\ \A x : ~Recording(p, x)
    BY <1>1, <1>3 DEF FindWorking, At, Busy, InFlight, Recording
  <2>1. CASE Goes(p, "done")
    <3>1. pr'[p].at = "done" /\ pr'[p].ref = pr[p].ref
      BY <1>0, <2>1 DEF Goes, ProcStates
    <3> QED BY <1>1, <2>0, <3>1, KeepsTo DEF At, OfKind, Alone, Asking, DecidePlaces
  <2>2. ASSUME NEW f \in Working(ConvOf[p]), pr' = [pr EXCEPT ![p].at = "inspect", ![p].ref = f]
        PROVE  Sound(p)'
    <3>1. pr'[p].at = "inspect" /\ pr'[p].ref = f
      BY <1>0, <2>2 DEF ProcStates
    <3>2. f \in Claims(ConvOf[p])
      BY DEF Working, InUse, RunningClaims, Claims, Claiming
    <3>3. Recorded(ConvOf[p], f)
      BY <3>2 DEF Claims, Recorded, Claiming
    <3>4. Recorded(ConvOf[p], f)'
      BY <3>3, RecordedLasts
    <3>5. (Marred(ConvOf[p]) \/ Held(ConvOf[p]) \subseteq {f})'
      BY <1>0, <2>0, <3>2, OneKept, TheirsLasts
    <3> QED BY <1>1, <3>1, <3>4, <3>5 DEF Sound, At, OfKind, Theirs, Recorded, Asking, DecidePlaces
  <2> QED BY <1>3, <2>1, <2>2 DEF FindWorking
<1>4. CASE Inspect(p)
  <2>0. At(p, "inspect") /\ Alone(p)
    BY <1>1, <1>4 DEF Inspect, At, Alone
  <2>1. /\ pr'[p].at = "done" \/ (pr'[p].at = "reserve" /\ pr'[p].goal = "switch")
        /\ pr'[p].ref = pr[p].ref
    BY <1>0, <1>4 DEF Inspect, Goes, ProcStates
  <2>2. OfKind(p)'
    BY <1>1, <2>1 DEF OfKind, Asking, DecidePlaces
  <2> QED BY <1>1, <2>0, <2>1, <2>2, KeepsTo DEF At
<1>5. CASE CreateNext(p)
  <2>0. At(p, "copy") /\ Alone(p) /\ \A x : ~Recording(p, x)
    BY <1>1, <1>5 DEF CreateNext, At, Alone, Recording
  <2>1. CASE Creates(p, New) /\ pr' = [pr EXCEPT ![p].at = "land", ![p].todo = {New}]
    <3>1. PICK n : n = New
      OBVIOUS
    <3>2. pr'[p].at = "land" /\ pr'[p].todo = {n} /\ pr'[p].ref = pr[p].ref
      BY <1>0, <2>1, <3>1 DEF ProcStates
    <3>3. Fresh(p, n)'
      BY <1>5, <2>1, <3>1, NewIsFresh DEF CreateNext
    <3>4. PICK x : x = pr[p].ref
      OBVIOUS
    <3>5. (Marred(ConvOf[p]) \/ Held(ConvOf[p]) \subseteq {x})'
      BY <1>0, <2>0, <3>4, AloneIsBusy, TheirsLasts DEF Sound, Theirs
    <3>6. Recorded(ConvOf[p], x)'
      BY <1>0, <2>0, <3>4, RecordedLasts DEF Sound, At, Recorded
    <3>7. OfKind(p)'
      BY <1>1, <3>2 DEF OfKind, Asking, DecidePlaces
    <3>8. n \in Refs
      BY <3>3 DEF Fresh
    <3> QED BY <1>1, <3>2, <3>3, <3>4, <3>5, <3>6, <3>7, <3>8 DEF Sound, At, Theirs, Recorded
  <2>2. CASE Ends(p)
    BY <1>1, <2>2, EndsSound
  <2> QED BY <1>5, <2>1, <2>2 DEF CreateNext
<1>6. CASE Land(p)
  <2>1. PICK n \in Refs : pr[p].todo = {n} /\ Fresh(p, n)
    BY <1>0, <1>6 DEF Land, Sound
  <2>2. PICK old \in Ref0 : old = pr[p].ref
    BY <1>0 DEF ProcStates
  <2>3. /\ row' = [row EXCEPT ![old] = "destroyed", ![n] = "running"]
        /\ pr' = [pr EXCEPT ![p].at = "discard", ![p].ref = n, ![p].todo = {old}]
    BY <1>6, <2>1, <2>2 DEF Land
  <2>4. pr'[p].at = "discard" /\ pr'[p].ref = n /\ pr'[p].todo = {old}
    BY <1>0, <2>3 DEF ProcStates
  <2>5. home'[n] = ConvOf[p] /\ row'[n] # "none"
    BY <1>0, <1>6, <2>1, <2>3 DEF Land, Fresh, poolVars, Types
  <2>6. ASSUME old \in Refs PROVE row'[old] # "none" /\ (old \in forsaken' \/ engine'[old] = "gone")
    <3>1. row[old] # "none" /\ old # n
      BY <1>0, <1>6, <2>1, <2>2, <2>6, PoolAssumption DEF Land, Sound, At, Recorded, Fresh, NoRef
    <3>2. row'[old] = "destroyed"
      BY <1>0, <2>3, <2>6, <3>1 DEF Types
    <3>3. engine'[old] = "gone" \/ Live(old)'
      <4>1. engine'[old] # "none" /\ engine[old] # "none" /\ engine' = engine
        BY <1>6, <2>6, <3>1, Lasting DEF Land
      <4> QED BY <1>0, <2>6, <4>1 DEF Types, Live
    <3>4. Live(old)' => old \in forsaken'
      BY <2>6, <3>2, LeftoversStep DEF Leftovers, GivenUp
    <3> QED BY <3>2, <3>3, <3>4
  <2> QED BY <1>1, <2>4, <2>5, <2>6 DEF Sound, At, OfKind, Alone, Recorded, Resolving, Asking, DecidePlaces
<1>7. CASE CopyFails(p) \/ Discard(p)
  BY <1>1, <1>7, EndsSound DEF CopyFails, Discard
<1> QED BY <1>2, <1>3, <1>4, <1>5, <1>6, <1>7 DEF Switching

\* Where a delete goes, and what it carries.
LEMMA DeleteMoves ==
  ASSUME Types, NEW d \in Procs
  PROVE  /\ Delete(d) => /\ pr[d].at = "idle" /\ pr'[d].at = "await" /\ pr'[d].ref = pr[d].ref
                         /\ pr'[d].owes = Claims(ConvOf[d]) /\ pr'[d].awaits = pending[ConvOf[d]]
         /\ Forget(d) => /\ pr[d].at = "await" /\ pr'[d] = [pr[d] EXCEPT !.at = "list"]
         /\ ListRows(d) => /\ pr[d].at = "list"
                           /\ pr'[d] = [pr[d] EXCEPT !.at = "destroy", !.todo = Claims(ConvOf[d])]
         /\ DestroyOne(d) => /\ pr[d].at = "destroy"
                             /\ \/ pr'[d] = [pr[d] EXCEPT !.at = "done"]
                                \/ \E f \in pr[d].todo : pr'[d] = [pr[d] EXCEPT !.todo = pr[d].todo \ {f}]
<1>0. pr[d] \in ProcStates /\ pr \in [Procs -> ProcStates]
  BY EachProc DEF Types
<1>1. CASE Delete(d)
  <2>1. pr[d].at = "idle" /\ pr'[d] = [pr[d] EXCEPT !.at = "await", !.owes = Claims(ConvOf[d]),
                                                   !.awaits = pending[ConvOf[d]]]
    BY <1>0, <1>1 DEF Delete, At
  <2>2. Claims(ConvOf[d]) \in SUBSET Refs
    BY DEF Claims
  <2> QED BY <1>0, <2>1, <2>2 DEF ProcStates, Forget, ListRows, DestroyOne, At
<1>2. Forget(d) => pr[d].at = "await" /\ pr'[d] = [pr[d] EXCEPT !.at = "list"]
  BY <1>0 DEF Forget, Goes, At
<1>3. ListRows(d) => pr[d].at = "list" /\ pr'[d] = [pr[d] EXCEPT !.at = "destroy", !.todo = Claims(ConvOf[d])]
  BY <1>0 DEF ListRows, At
<1>4. DestroyOne(d) => /\ pr[d].at = "destroy"
                       /\ \/ pr'[d] = [pr[d] EXCEPT !.at = "done"]
                          \/ \E f \in pr[d].todo : pr'[d] = [pr[d] EXCEPT !.todo = pr[d].todo \ {f}]
  BY <1>0 DEF DestroyOne, Goes, At
<1> QED BY <1>1, <1>2, <1>3, <1>4

\* A delete has taken what it owes when nothing it listed is left.
LEMMA SoundDeleting ==
  ASSUME CInv, [Next]_vars, NEW d \in Procs, Deleting(d)
  PROVE  Sound(d)'
<1>0. /\ Sound(d) /\ pr[d] \in ProcStates /\ Types /\ pr \in [Procs -> ProcStates]
      /\ ConvOf[d] \in Convs
  BY EachProc, ConvOfProc DEF CInv, Types, Workers
<1>1. d \in Deletes /\ d \notin Calls /\ d \notin Switches
  BY <1>0, OneKind DEF Deleting, Delete, Forget, ListRows, DestroyOne, Sound, OfKind, At
<1>2. /\ pr[d].at \in {"idle", "await", "list", "destroy"}
      /\ pr'[d].at \in {"await", "list", "destroy", "done"} /\ pr'[d].ref = pr[d].ref
  BY <1>0, DeleteMoves DEF Deleting, ProcStates
<1>3. PICK x : x = pr[d].ref
  OBVIOUS
<1>4. Recorded(ConvOf[d], x)'
  BY <1>0, <1>2, <1>3, RecordedLasts DEF Sound, At, Recorded
<1>5. PICK a \in Calls \cup {NoOne} : a = pr'[d].awaits
  <2>1. /\ Delete(d) => pr'[d].awaits = pending[ConvOf[d]]
        /\ ~Delete(d) => pr'[d].awaits = pr[d].awaits
    BY <1>0, DeleteMoves DEF Deleting, ProcStates
  <2> QED BY <1>0, <2>1 DEF Types, ProcStates
<1>6. UNCHANGED <<home, maker, forsaken>> \/ DestroyOne(d)
  <2>1. row' = row /\ engine' = engine => forsaken' = forsaken
    BY StepOrNot DEF Remember, GivenUp, vars, historyVars
  <2> QED BY <2>1 DEF Deleting, Delete, Forget, ListRows, poolVars
<1>7. Taking(d)'
  <2>0. \A q \in Calls : pr'[q] = pr[q]
    BY <1>1, ActsAlone, <1>0 DEF Deleting, Delete, Forget, ListRows, DestroyOne, Goes, Procs
  <2>1. CASE Delete(d)
    <3>1. /\ pr'[d].at = "await" /\ pr'[d].owes = Claims(ConvOf[d]) /\ a = pending[ConvOf[d]]
          /\ row' = row
      BY <1>0, <1>5, <2>1 DEF Delete, ProcStates
    <3>2. a # NoOne => ConvOf[a] = ConvOf[d] /\ pr'[a].at \in Resolving
      BY <1>0, <1>5, <2>0, <3>1 DEF CInv, Workers, PendingResolves
    <3>3. \A f \in pr'[d].owes : row'[f] # "none"
      BY <3>1 DEF Claims, Claiming
    <3> QED BY <1>5, <3>1, <3>2, <3>3 DEF Taking, Waited, At
  <2>2. CASE ~Delete(d)
    <3>1. /\ pr[d].at \in {"await", "list", "destroy"} /\ Taking(d)
          /\ pr'[d].owes = pr[d].owes /\ a = pr[d].awaits
      <4>1. /\ pr[d].at \in {"await", "list", "destroy"}
            /\ pr'[d].owes = pr[d].owes /\ pr'[d].awaits = pr[d].awaits
        BY <1>0, <2>2, DeleteMoves DEF Deleting, ProcStates
      <4> QED BY <1>0, <1>1, <1>5, <4>1 DEF Sound
    <3>2. a # NoOne => ConvOf[a] = ConvOf[d] /\ At(a, "done") /\ pr'[a] = pr[a]
      <4>1. a # NoOne => /\ ConvOf[a] = ConvOf[d] /\ pr'[a] = pr[a]
                         /\ At(a, "done") \/ (At(d, "await") /\ pr[a].at \in Resolving)
        BY <1>5, <2>0, <3>1 DEF Taking, Waited
      <4>2. At(d, "await") => pending[ConvOf[d]] = NoOne
        BY <2>2 DEF Deleting, Forget, Awaited, ListRows, DestroyOne, At
      <4> QED BY <1>5, <4>1, <4>2 DEF CInv, Workers, PendingResolves
    <3>3. \A f \in pr'[d].owes : row'[f] # "none"
      BY <1>0, <3>1, Lasting DEF Taking, ProcStates
    <3>4. ASSUME NEW f \in Refs, home'[f] = ConvOf[d],
                 f \in pr'[d].owes \/ (maker'[f] = a /\ a # NoOne),
                 pr'[d].at \in {"destroy", "done"}
          PROVE  ~Live(f)' \/ f \in forsaken' \/ (pr'[d].at = "destroy" /\ f \in pr'[d].todo)
      <4>0. UNCHANGED <<home, maker>>
        BY DEF Deleting, Delete, Forget, ListRows, DestroyOne, poolVars
      <4>1. CASE ListRows(d)
        <5>1. pr'[d].at = "destroy" /\ pr'[d].todo = Claims(ConvOf[d]) /\ engine' = engine /\ row' = row
          BY <1>0, <4>1 DEF ListRows, ProcStates
        <5>2. CASE row[f] = "none"
          <6>1. maker[f] = a /\ a \in Calls /\ At(a, "done")
            BY <1>5, <3>1, <3>2, <3>4, <4>0, <5>2 DEF Taking
          <6>2. ~Live(f)
            BY <5>2, <6>1 DEF CInv, Workers, Unrecorded, At
          <6> QED BY <5>1, <6>2 DEF Live
        <5>3. CASE row[f] \in Claiming
          BY <3>4, <4>0, <5>1, <5>3 DEF Claims
        <5>4. CASE GivenUp(f)
          BY <5>1, <5>4, LeftoversStep DEF Leftovers, GivenUp
        <5> QED BY <1>0, <5>2, <5>3, <5>4 DEF Types, GivenUp, Claiming
      <4>2. CASE DestroyOne(d)
        <5>1. Owed(d, f) /\ At(d, "destroy") /\ home[f] = ConvOf[d]
          BY <3>1, <3>4, <4>0, <4>2 DEF Owed, DestroyOne
        <5>2. ~Live(f) \/ f \in forsaken \/ f \in pr[d].todo
          BY <3>1, <5>1 DEF Taking, At
        <5>3. engine[f] # "none" \/ ~Live(f)'
          <6>1. engine' = engine \/ \E T : engine' = Removed(T)
            BY <4>2 DEF DestroyOne, Remove
          <6> QED BY <1>0, <6>1 DEF Removed, Types, Live
        <5>4. ~Live(f) => ~Live(f)'
          BY <5>3, Lasting DEF Live
        <5>5. f \in forsaken => f \in forsaken'
          BY Lasting
        <5>6. CASE f \in pr[d].todo
          <6>1. ASSUME NEW g \in pr[d].todo, row' = Buried({g}), pr' = [pr EXCEPT ![d].todo = @ \ {g}]
                PROVE  \/ ~Live(f)' \/ f \in forsaken'
                       \/ pr'[d].at = "destroy" /\ f \in pr'[d].todo
            <7>1. pr'[d].at = "destroy" /\ pr'[d].todo = pr[d].todo \ {g}
              BY <1>0, <5>1, <6>1 DEF At, ProcStates
            <7>2. f = g => GivenUp(f)'
              BY <1>0, <6>1 DEF Buried, GivenUp
            <7>3. f = g => ~Live(f)' \/ f \in forsaken'
              BY <7>2, LeftoversStep DEF Leftovers
            <7> QED BY <5>6, <7>1, <7>3
          <6> QED BY <4>2, <5>6, <6>1 DEF DestroyOne
        <5> QED BY <5>2, <5>4, <5>5, <5>6
      <4>3. CASE Forget(d)
        BY <1>0, <3>4, <4>3 DEF Forget, Goes, ProcStates
      <4> QED BY <2>2, <4>1, <4>2, <4>3 DEF Deleting
    <3>5. pr'[d].at \in {"destroy", "done"} =>
            \A f \in Refs : home'[f] = ConvOf[d] /\ Owed(d, f)' =>
              ~Live(f)' \/ f \in forsaken' \/ (At(d, "destroy")' /\ f \in pr'[d].todo)
      BY <1>5, <3>4 DEF Owed, At
    <3> QED BY <1>5, <3>2, <3>3, <3>5 DEF Taking, Waited, At
  <2> QED BY <2>1, <2>2
<1>8. At(d, "destroy")' => \A f \in pr'[d].todo : f \in Refs /\ row'[f] # "none"
  <2>1. CASE ListRows(d)
    <3>1. pr'[d].todo = Claims(ConvOf[d]) /\ row' = row
      BY <1>0, <2>1 DEF ListRows, ProcStates
    <3> QED BY <3>1 DEF Claims, Claiming
  <2>2. CASE DestroyOne(d)
    <3>1. pr'[d].todo \subseteq pr[d].todo /\ At(d, "destroy")
      <4>1. /\ pr[d].at = "destroy"
            /\ \/ pr'[d] = [pr[d] EXCEPT !.at = "done"]
               \/ \E f \in pr[d].todo : pr'[d] = [pr[d] EXCEPT !.todo = pr[d].todo \ {f}]
        BY <1>0, <2>2, DeleteMoves
      <4>2. CASE pr'[d] = [pr[d] EXCEPT !.at = "done"]
        BY <1>0, <4>1, <4>2 DEF At, ProcStates
      <4>3. CASE \E f \in pr[d].todo : pr'[d] = [pr[d] EXCEPT !.todo = pr[d].todo \ {f}]
        BY <1>0, <4>1, <4>3 DEF At, ProcStates
      <4> QED BY <4>1, <4>2, <4>3
    <3> QED BY <1>0, <3>1, Lasting DEF Sound
  <2>3. CASE Delete(d) \/ Forget(d)
    BY <1>0, <2>3 DEF Delete, Forget, Goes, ProcStates, At
  <2> QED BY <2>1, <2>2, <2>3 DEF Deleting
<1>9. OfKind(d)'
  BY <1>1, <1>2 DEF OfKind, Asking, DecidePlaces
<1> QED BY <1>1, <1>2, <1>3, <1>4, <1>7, <1>8, <1>9 DEF Sound, At, Alone, Recorded

-----------------------------------------------------------------------------
(* Every part of the invariant is kept. *)

LEMMA SoundStep ==
  ASSUME CInv, [Next]_vars
  PROVE  \A q \in Procs : Sound(q)'
<1> SUFFICES ASSUME NEW q \in Procs PROVE Sound(q)'
  OBVIOUS
<1>0. Sound(q) /\ Types
  BY DEF CInv, Workers
<1>1. CASE Acts(q)
  BY <1>1, SoundReserving, SoundWaking, SoundPausing, SoundSwitching, SoundDeleting DEF Acts
<1>2. CASE pr'[q] = pr[q] /\ restarts' = restarts
  BY <1>2, StillSound
<1>3. CASE At(q, "joined") /\ pr'[q].at = "done" /\ ~Acts(q)
  <2>1. q \in Calls /\ q \notin Deletes
    BY <1>0, <1>3, OneKind DEF Sound, OfKind, At
  <2>2. PICK p \in Procs : Acts(p) /\ p # q
    <3>1. pr'[q] # pr[q] /\ pr'[q] # AtRest("lost")
      BY <1>3 DEF At, AtRest
    <3>2. ~Booting /\ ~Restart /\ ~Lose /\ ~UNCHANGED vars
      BY <3>1, <1>3 DEF Booting, ReadClaims, SweepDead, StopStray, HaltStray, MarkStray, SweepUnclaimed,
           TheRest, Restart, Lose, vars
    <3> QED BY <1>3, <3>2, StepOrNot DEF Step, Acts
  <2>3. pr'[q] = AtRest("done")
    <3>1. pr'[q] # pr[q]
      BY <1>3 DEF At
    <3>2. Resolves(p)
      BY <2>2, HowResolved
    <3>3. ~Steady(p)
      BY <2>2, <3>1 DEF Steady
    <3>4. ~Begins(p)
      BY <1>0, <2>2, <3>1 DEF Begins, JoinOrCreate, Types
    <3> QED BY <1>0, <3>1, <3>2, <3>3, <3>4 DEF Resolves, Ends, Types
  <2> QED BY <2>1, <2>3, RestsSound
<1>4. CASE Restart
  <2>1. pr'[q] = IF InFlight(q) THEN AtRest("lost") ELSE pr[q]
    BY <1>4 DEF Restart
  <2>2. CASE InFlight(q)
    <3>1. pr'[q].at = "lost" /\ pr'[q].ref = NoRef
      BY <2>1, <2>2 DEF AtRest
    <3> QED BY <3>1 DEF Sound, At, OfKind, Alone, Recorded, Resolving, Asking, DecidePlaces
  <2>3. CASE ~InFlight(q)
    <3>1. pr'[q] = pr[q] /\ pr[q].at \in {"absent", "idle", "done", "lost"}
      BY <2>1, <2>3 DEF InFlight
    <3>2. PICK x : x = pr[q].ref
      OBVIOUS
    <3>3. Recorded(ConvOf[q], x)'
      BY <1>0, <3>1, <3>2, RecordedLasts DEF Sound, At, Recorded
    <3>4. q \in Deletes /\ pr[q].at = "done" => Taking(q)'
      BY <1>0, <3>1, TakingLasts DEF Sound, At
    <3> QED BY <3>1, <3>2, <3>3, <3>4 DEF Sound, At, OfKind, Alone, Recorded, Resolving, Asking, DecidePlaces
  <2> QED BY <2>2, <2>3
<1>5. restarts' = restarts \/ Restart
  BY FaultsAdd
<1> QED BY <1>1, <1>2, <1>3, <1>4, <1>5, WhoMoves

\* Only a settled or recorded container enters the map.
LEMMA EntriesStep ==
  ASSUME CInv, [Next]_vars
  PROVE  EntriesRecorded'
<1>0. Types /\ EntriesRecorded /\ \A p \in Procs : Sound(p) /\ ConvOf[p] \in Convs
  BY ConvOfProc DEF CInv, Containers, Workers
<1> SUFFICES ASSUME NEW c \in Convs PROVE Recorded(c, active[c].ref)'
  BY DEF EntriesRecorded
<1>1. CASE active'[c].ref = active[c].ref \/ active'[c] = NoEntry
  <2>1. PICK x : x = active[c].ref
    OBVIOUS
  <2>2. Recorded(c, x)'
    BY <1>0, <2>1, RecordedLasts DEF EntriesRecorded
  <2> QED BY <1>1, <2>1, <2>2 DEF Recorded, NoEntry
<1>2. ASSUME NEW p \in Procs, Settle(p) \/ Record(p) \/ Land(p),
             ~(active'[c].ref = active[c].ref \/ active'[c] = NoEntry)
      PROVE  Recorded(c, active[c].ref)'
  <2>1. CASE Settle(p)
    <3>1. c = ConvOf[p] /\ active'[c].ref = pr[p].ref
      BY <1>0, <1>2, <2>1 DEF Settle, Types
    <3>2. PICK x : x = pr[p].ref
      OBVIOUS
    <3>3. Recorded(c, x)'
      BY <1>0, <2>1, <3>1, <3>2, RecordedLasts DEF Settle, Sound, At
    <3> QED BY <3>1, <3>2, <3>3 DEF Recorded
  <2>2. CASE Record(p)
    <3>1. PICK n : n = pr[p].ref
      OBVIOUS
    <3>2. c = ConvOf[p] /\ active'[c].ref = n
      BY <1>0, <1>2, <2>2, <3>1 DEF Record, Types
    <3>3. n \in Refs /\ home'[n] = c /\ row'[n] = "running"
      BY <1>0, <2>2, <3>1, <3>2 DEF Record, Sound, Fresh, poolVars, Types
    <3> QED BY <3>2, <3>3 DEF Recorded
  <2>3. CASE Land(p)
    <3>1. PICK n \in Refs : pr[p].todo = {n} /\ Fresh(p, n)
      BY <1>0, <2>3 DEF Land, Sound
    <3>2. c = ConvOf[p] /\ active'[c].ref = n
      BY <1>0, <1>2, <2>3, <3>1 DEF Land, Types
    <3>3. row'[n] = "running" /\ home'[n] = c
      BY <1>0, <2>3, <3>1, <3>2 DEF Land, Fresh, poolVars, Types
    <3> QED BY <3>1, <3>2, <3>3 DEF Recorded
  <2> QED BY <1>2, <2>1, <2>2, <2>3
<1>3. ASSUME NEW p \in Procs, Acts(p), ~(Settle(p) \/ Record(p) \/ Land(p))
      PROVE  active'[c] = active[c] \/ active'[c] = NoEntry
  <2>1. CASE Reserving(p)
    BY <2>1 DEF Reserving, Reserve, Grant, LooksAgain, Reconcile, Refuse
  <2>2. CASE Waking(p)
    BY <1>0, <1>3, <2>2 DEF Waking, Call, Cached, Tomb, Lookup, Terminal, Start, Touch, Mark, DeadRow, Make, Types
  <2>3. CASE Pausing(p)
    BY <1>0, <2>3 DEF Pausing, Pause, MarkPaused, StopPaused, Snapshot, Tick, StopIdle, MarkIdle, Types
  <2>4. CASE Switching(p)
    BY <1>0, <1>3, <2>4 DEF Switching, Switch, FindWorking, Inspect, CreateNext, CopyFails, Discard, Types
  <2>5. CASE Deleting(p)
    BY <1>0, <2>5 DEF Deleting, Delete, Forget, ListRows, DestroyOne, Types
  <2> QED BY <1>3, <2>1, <2>2, <2>3, <2>4, <2>5 DEF Acts
<1>4. Booting \/ Restart \/ Lose \/ UNCHANGED vars => active'[c] = active[c] \/ active'[c] = NoEntry
  BY DEF Booting, ReadClaims, SweepDead, StopStray, HaltStray, MarkStray, SweepUnclaimed, TheRest, Restart, Lose,
       vars
<1> QED BY <1>1, <1>2, <1>3, <1>4, StepOrNot DEF Step, Acts

\* The boot sweep has read every claim made before it, or the row was marked
\* again after it was given up.
LEMMA BootStep ==
  ASSUME CInv, [Next]_vars
  PROVE  BootKnows'
<1>0. Types /\ BootKnows
  BY DEF CInv, Containers
<1>1. ASSUME NEW f \in Refs, row'[f] \in Claiming, born'[f] < restarts, f \notin revived'
      PROVE  row[f] \in Claiming /\ born[f] < restarts
  <2>1. Touched(f) /\ ~Dropped(f)
    BY <1>1, ContainersTouched DEF Dropped, GivenUp, Claiming
  <2>2. ~Made(f)
    <3>1. Made(f) => born'[f] = restarts /\ restarts \in Nat
      BY <1>0 DEF Made, Types
    <3> QED BY <1>1, <3>1
  <2>3. ~Written(f)
    <3>1. ASSUME NEW p \in Procs, Recording(p, f), SameOrigin(f) PROVE FALSE
      <4>1. born[f] = restarts /\ restarts \in Nat
        BY <1>0, <3>1, Recorders DEF Fresh, Types
      <4> QED BY <1>1, <3>1, <4>1 DEF SameOrigin
    <3> QED BY <2>1, <2>2, <3>1 DEF Touched, Written
  <2>4. Marked(f) => row[f] \in Claiming
    <3>1. ASSUME Marked(f), row[f] \notin Claiming PROVE FALSE
      <4>1. GivenUp(f) /\ ~GivenUp(f)'
        BY <1>0, <1>1, <3>1 DEF Marked, GivenUp, Types, Claiming
      <4>2. ~UNCHANGED vars
        BY <4>1 DEF vars, GivenUp
      <4> QED BY <1>1, <4>1, <4>2, StepOrNot DEF Remember
    <3> QED BY <3>1
  <2>5. SameOrigin(f) /\ row[f] \in Claiming
    BY <1>1, <2>1, <2>2, <2>3, <2>4 DEF Touched, Stands, Taken
  <2> QED BY <1>1, <2>5 DEF SameOrigin
<1>2. revived \subseteq revived'
  BY StepOrNot DEF Remember, vars, historyVars
<1>3. CASE boot' = boot /\ restarts' = restarts
  <2>1. \A f \in boot'.todo \cup boot'.claims \cup {boot'.ref} : f # NoRef => f \in Refs /\ row'[f] # "none"
    BY <1>0, <1>3, Lasting DEF BootKnows
  <2>2. ~BootAt("over")' /\ ~BootAt("read")' =>
          \A f \in Refs : row'[f] \in Claiming /\ born'[f] < restarts' => f \in boot'.claims \cup revived'
    BY <1>0, <1>1, <1>2, <1>3 DEF BootKnows, BootAt
  <2> QED BY <1>0, <1>3, <2>1, <2>2 DEF BootKnows
<1>4. CASE Restart
  BY <1>4 DEF Restart, BootOver, BootKnows, BootAt, NoRef
<1>5. CASE ReadClaims
  <2>1. /\ boot' = [at |-> "dead", claims |-> Swept, todo |-> RunningRows, ref |-> NoRef]
        /\ UNCHANGED <<row, born, restarts>>
    BY <1>5 DEF ReadClaims, TheRest, poolVars
  <2> QED BY <2>1 DEF BootKnows, BootAt, Swept, RunningRows, Claiming
<1>6. CASE Booting /\ ~ReadClaims
  <2>0. boot = [at |-> boot.at, claims |-> boot.claims, todo |-> boot.todo, ref |-> boot.ref]
    BY <1>0 DEF BootKnows
  <2>1. restarts' = restarts /\ ~BootAt("over") /\ ~BootAt("read")
    BY <1>6 DEF Booting, SweepDead, StopStray, HaltStray, MarkStray, SweepUnclaimed, TheRest, BootAt
  <2>2. CASE boot' = BootOver
    BY <2>2 DEF BootOver, BootKnows, BootAt, NoRef
  <2>3. CASE boot' # BootOver
    <3>1. SweepDead \/ StopStray \/ HaltStray \/ MarkStray
      BY <1>6, <2>3 DEF Booting, SweepUnclaimed
    <3>2. /\ boot'.claims = boot.claims /\ boot'.todo \subseteq boot.todo
          /\ boot'.ref \in boot.todo \cup {boot.ref, NoRef}
          /\ boot' = [at |-> boot'.at, claims |-> boot'.claims, todo |-> boot'.todo, ref |-> boot'.ref]
      <4>1. CASE SweepDead
        BY <2>0, <4>1 DEF SweepDead
      <4>2. CASE StopStray
        BY <2>0, <4>2 DEF StopStray
      <4>3. CASE HaltStray
        BY <2>0, <4>3 DEF HaltStray
      <4>4. CASE MarkStray
        BY <2>0, <4>4 DEF MarkStray
      <4> QED BY <3>1, <4>1, <4>2, <4>3, <4>4
    <3>3. \A f \in boot'.todo \cup boot'.claims \cup {boot'.ref} : f # NoRef => f \in Refs /\ row'[f] # "none"
      BY <1>0, <3>2, Lasting DEF BootKnows
    <3>4. \A f \in Refs : row'[f] \in Claiming /\ born'[f] < restarts' => f \in boot'.claims \cup revived'
      BY <1>0, <1>1, <1>2, <2>1, <3>2 DEF BootKnows
    <3> QED BY <3>2, <3>3, <3>4 DEF BootKnows
  <2> QED BY <2>2, <2>3
<1>7. ASSUME NEW p \in Procs, Acts(p) PROVE boot' = boot /\ restarts' = restarts
  <2>1. CASE Reserving(p) \/ Waking(p)
    BY <2>1 DEF Reserving, Reserve, Grant, LooksAgain, Reconcile, Refuse, Waking, Call, Cached, Tomb, Lookup,
         Terminal, Start, Touch, Mark, Settle, DeadRow, Make, Record, faultVars
  <2>2. CASE Pausing(p) \/ Switching(p) \/ Deleting(p)
    BY <2>2 DEF Pausing, Pause, MarkPaused, StopPaused, Snapshot, Tick, StopIdle, MarkIdle, Switching, Switch,
         FindWorking, Inspect, CreateNext, Land, CopyFails, Discard, Deleting, Delete, Forget, ListRows,
         DestroyOne, faultVars
  <2> QED BY <1>7, <2>1, <2>2 DEF Acts
<1>8. Lose \/ UNCHANGED vars => boot' = boot /\ restarts' = restarts
  BY DEF Lose, vars, faultVars
<1> QED BY <1>3, <1>4, <1>5, <1>6, <1>7, <1>8, StepOrNot DEF Step, Acts

\* A call that makes a container and has not recorded it is still there to do
\* so, or was lost with its server.
LEMMA UnrecordedStep ==
  ASSUME CInv, [Next]_vars
  PROVE  Unrecorded'
<1> SUFFICES ASSUME NEW f \in Refs, Live(f)', row'[f] = "none", maker'[f] \in Calls
             PROVE  \/ At(maker[f], "record")' /\ pr'[maker'[f]].ref = f
                    \/ At(maker[f], "lost")'
  BY DEF Unrecorded
<1>0. Types
  BY DEF CInv
<1>1. Touched(f)
  BY ContainersTouched
<1>2. CASE Made(f)
  <2>1. PICK p \in Procs : Making(p, f)
    BY <1>2 DEF Made
  <2>2. maker'[f] = p /\ p \notin Switches
    BY <2>1, OneKind DEF Making
  <2>3. ~At(p, "copy")
    BY <2>2 DEF CInv, Workers, Sound, OfKind, At
  <2> QED BY <2>1, <2>2, <2>3 DEF Making, At
<1>3. CASE ~Made(f)
  <2>1. SameOrigin(f) /\ row[f] = "none" /\ Live(f)
    BY <1>1, <1>3 DEF Touched, Stands, Marked, Dropped, GivenUp, Written, Taken, Live, Claiming
  <2>2. PICK m \in Calls : m = maker[f] /\ m = maker'[f]
    BY <2>1 DEF SameOrigin
  <2>3. (At(m, "record") /\ pr[m].ref = f) \/ At(m, "lost")
    BY <2>1, <2>2 DEF CInv, Workers, Unrecorded
  <2>4. ~Record(m) \/ At(m, "lost")
    <3>1. Record(m) /\ pr[m].ref = f => row'[f] = "running"
      BY <1>0 DEF Record, Types
    <3> QED BY <2>3, <3>1
  <2>5. At(m, "record") => pr'[m] = pr[m] \/ At(m, "lost")'
    BY <2>4, Movements DEF Procs, At
  <2>6. At(m, "lost") => At(m, "lost")'
    BY Movements DEF Procs, At
  <2> QED BY <2>2, <2>3, <2>5, <2>6 DEF At
<1> QED BY <1>2, <1>3

\* A switch and a run's call are never of one conversation at once.
LEMMA ApartStep ==
  ASSUME CInv, [Next]_vars
  PROVE  Apart'
<1>0. Types /\ Apart
  BY DEF CInv, Workers
<1>1. ASSUME NEW p \in Procs, Acts(p), NEW q \in Procs, InFlight(q)', ~InFlight(q)
      PROVE  p = q /\ (q \in Calls => Call(q)) /\ (q \in Switches => Switch(q))
  <2>1. p = q
    <3>1. pr'[q] # pr[q] /\ pr[q].at # "joined" /\ pr'[q].at # "done"
      BY <1>1 DEF InFlight
    <3> QED BY <1>1, <3>1, ActsAlone DEF Others
  <2>2. pr[q].at = "idle"
    BY <1>1, <2>1, ActsFrom DEF InFlight
  <2>3. Call(q) \/ Terminal(q) \/ Pause(q) \/ Snapshot(q) \/ Switch(q) \/ Delete(q)
    <3>1. ~Reserving(q)
      BY <2>2 DEF Reserving, Reserve, Grant, LooksAgain, Reconcile, Refuse, At
    <3>2. Waking(q) => Call(q) \/ Terminal(q)
      BY <2>2 DEF Waking, Cached, Tomb, Lookup, Start, Touch, Mark, Settle, DeadRow, Make, Record, At
    <3>3. Pausing(q) => Pause(q) \/ Snapshot(q)
      BY <2>2 DEF Pausing, MarkPaused, StopPaused, Tick, StopIdle, MarkIdle, At
    <3>4. Switching(q) => Switch(q)
      BY <2>2 DEF Switching, FindWorking, Inspect, CreateNext, Land, CopyFails, Discard, At
    <3>5. Deleting(q) => Delete(q)
      BY <2>2 DEF Deleting, Forget, ListRows, DestroyOne, At
    <3> QED BY <1>1, <2>1, <3>1, <3>2, <3>3, <3>4, <3>5 DEF Acts
  <2> QED BY <2>1, <2>3, OneKind DEF Call, Terminal, Pause, Snapshot, Switch, Delete
<1>2. ASSUME NEW p \in Procs, Acts(p) PROVE Apart'
  <2> SUFFICES ASSUME NEW x \in Calls \cup Switches, NEW w \in Switches, x # w, ConvOf[x] = ConvOf[w],
                      InFlight(x)', InFlight(w)'
               PROVE  FALSE
    BY DEF Apart
  <2>0. x \in Procs /\ w \in Procs
    BY DEF Procs
  <2>1. ~(InFlight(x) /\ InFlight(w))
    BY <1>0 DEF Apart
  <2>2. InFlight(x) \/ InFlight(w)
    BY <1>1, <1>2, <2>0
  <2>3. CASE ~InFlight(w)
    <3>1. Switch(w)
      BY <1>1, <1>2, <2>0, <2>3
    <3> QED BY <2>2, <2>3, <3>1 DEF Switch, MayClaim, InFlightOn
  <2>4. CASE ~InFlight(x) /\ InFlight(w)
    <3>1. Call(x) \/ Switch(x)
      BY <1>1, <1>2, <2>0, <2>4
    <3> QED BY <2>4, <3>1 DEF Switch, Call, MayClaim, MayCall, InFlightOn
  <2> QED BY <2>1, <2>3, <2>4
<1>3. CASE Restart
  BY <1>0, <1>3 DEF Restart, Apart, InFlight, AtRest, Procs
<1>4. CASE UNCHANGED pr
  BY <1>0, <1>4 DEF Apart, InFlight
<1>5. Booting \/ Lose \/ UNCHANGED vars => UNCHANGED pr
  BY DEF Booting, ReadClaims, SweepDead, StopStray, HaltStray, MarkStray, SweepUnclaimed, TheRest, Lose, vars
<1> QED BY <1>2, <1>3, <1>4, <1>5, StepOrNot DEF Step, Acts

LEMMA OneContainerStep ==
  ASSUME CInv, [Next]_vars
  PROVE  OneContainer'
<1>0. Types
  BY DEF CInv
<1>1. ASSUME NEW f \in Refs, NEW g \in Refs, f # g, home'[f] = home'[g], Kept(f)', Kept(g)',
             ~Kept(f), ~Marred(home[f])'
      PROVE  FALSE
  <2>1. Written(f) /\ SameOrigin(f)
    BY <1>1, KeptBefore, ContainersTouched DEF Marred, Touched, Written, Made
  <2>2. PICK r \in Procs : Recording(r, f)
    BY <2>1 DEF Written
  <2>3. Fresh(r, f) /\ Busy(r) /\ Theirs(r) /\ home'[f] = ConvOf[r]
    BY <2>1, <2>2, Recorders DEF Fresh, SameOrigin
  <2>4. ~Marred(ConvOf[r])
    BY <1>1, <2>3, MarredLasts DEF Marred
  <2>5. Kept(g)
    <3>1. SUFFICES ASSUME ~Kept(g) PROVE FALSE
      OBVIOUS
    <3>2. Written(g) /\ SameOrigin(g)
      BY <1>1, <3>1, KeptBefore, ContainersTouched DEF Marred, Touched, Written, Made
    <3>3. PICK s \in Procs : Recording(s, g)
      BY <3>2 DEF Written
    <3>4. Busy(s) /\ ConvOf[s] = ConvOf[r]
      BY <1>1, <2>3, <3>2, <3>3, Recorders DEF Fresh, SameOrigin
    <3>5. s = r
      BY <2>3, <3>4, OneBusy
    <3> QED BY <1>1, <2>2, <3>3, <3>5 DEF Recording, At
  <2>6. home[g] = ConvOf[r]
    BY <1>1, <2>3, <2>5, Lasting DEF Kept, Live, SameOrigin
  <2>7. g = pr[r].ref
    BY <2>3, <2>4, <2>5, <2>6 DEF Theirs, Held
  <2>8. CASE At(r, "record") /\ pr[r].ref = f
    BY <1>1, <2>7, <2>8
  <2>9. CASE At(r, "land") /\ pr[r].todo = {f} /\ At(r, "discard")'
    <3>1. Land(r)
      BY <2>9, Movements
    <3>2. row' = [row EXCEPT ![pr[r].ref] = "destroyed", ![f] = "running"]
      BY <2>9, <3>1 DEF Land
    <3>3. row'[g] = "destroyed"
      BY <1>0, <1>1, <2>7, <3>2 DEF Types
    <3> QED BY <1>1, <3>3 DEF Kept, Claiming
  <2> QED BY <2>2, <2>8, <2>9 DEF Recording
<1>2. ASSUME NEW f \in Refs, NEW g \in Refs, f # g, home'[f] = home'[g], Kept(f)', Kept(g)'
      PROVE  Marred(home[f])'
  <2>1. CASE ~Kept(f)
    BY <1>1, <1>2, <2>1
  <2>2. CASE ~Kept(g)
    <3>1. Marred(home[g])'
      BY <1>1, <1>2, <2>2
    <3> QED BY <1>2, <3>1 DEF Marred
  <2>3. CASE Kept(f) /\ Kept(g)
    <3>1. home'[f] = home[f] /\ home'[g] = home[g]
      BY <2>3, Lasting DEF Kept, Live, SameOrigin
    <3>2. PICK c : c = home[f]
      OBVIOUS
    <3>3. Marred(c)
      BY <1>2, <2>3, <3>1, <3>2 DEF CInv, Workers, OneContainer, Marred
    <3>4. Marred(c)'
      BY <3>3, MarredLasts
    <3> QED BY <3>1, <3>2, <3>4 DEF Marred
  <2> QED BY <2>1, <2>2, <2>3
<1> QED BY <1>2 DEF OneContainer, Marred

LEMMA CInvInit == Init => CInv
<1> SUFFICES ASSUME Init PROVE CInv
  OBVIOUS
<1>1. PICK start \in [Convs -> {"none", "used", "paused"}], first \in [Convs -> Refs], day \in Days :
        Opens(start, first, day)
  BY DEF Init
<1>2. Types
  BY InitTypes
<1>3. /\ maker = [f \in Refs |-> NoOne] /\ lost = {} /\ forsaken = {} /\ revived = {}
      /\ pending = [c \in Convs |-> NoOne] /\ boot = BootOver
  BY DEF Init
<1>4. \A f \in Refs : engine[f] = row[f] /\ row[f] \in {"none", "running", "stopped"}
  BY <1>1 DEF Opens, Opening
<1>5. \A p \in Procs : pr[p].at \in {"idle", "absent"} /\ pr[p].ref = NoRef
  BY <1>1 DEF Opens, AtRest
<1>6. \A c \in Convs : home[first[c]] = c
  <2> SUFFICES ASSUME NEW c \in Convs PROVE home[first[c]] = c
    OBVIOUS
  <2> DEFINE ours(x) == (\E d \in Convs : first[d] = first[c]) => first[x] = first[c]
  <2>1. home[first[c]] = CHOOSE x \in Convs : ours(x)
    BY <1>1 DEF Opens
  <2>2. \E x \in Convs : ours(x)
    OBVIOUS
  <2>3. home[first[c]] \in Convs /\ ours(home[first[c]])
    BY <2>1, <2>2
  <2> QED BY <1>1, <2>3 DEF Opens
<1>7. \A f \in Refs : row[f] # "none" => \E c \in Convs : start[c] # "none" /\ first[c] = f
  BY <1>1 DEF Opens, Opening, Holds
<1>8. Makers /\ History
  BY IInvInit, <1>3 DEF IInv, Positions, History
<1>9. Containers
  <2>1. NothingYet /\ Tombstones /\ Leftovers
    BY <1>3, <1>4 DEF NothingYet, Tombstones, Leftovers, GivenUp
  <2>2. EntriesRecorded
    <3> SUFFICES ASSUME NEW c \in Convs PROVE Recorded(c, active[c].ref)
      BY DEF EntriesRecorded
    <3>1. CASE start[c] = "used"
      <4>1. active[c].ref = first[c]
        BY <1>1, <3>1 DEF Opens
      <4>2. row[first[c]] # "none"
        <5>1. Holds(start, first, c, first[c])
          BY <3>1 DEF Holds
        <5> QED BY <1>1, <5>1 DEF Opens, Opening
      <4> QED BY <1>6, <4>1, <4>2 DEF Recorded
    <3>2. CASE start[c] # "used"
      BY <1>1, <3>2 DEF Opens, NoEntry, Recorded
    <3> QED BY <3>1, <3>2
  <2>3. BootKnows
    BY <1>3 DEF BootKnows, BootOver, BootAt, NoRef
  <2> QED BY <2>1, <2>2, <2>3 DEF Containers
<1>10. Workers
  <2>1. Unrecorded
    BY <1>3, PoolAssumption DEF Unrecorded, Procs
  <2>2. PendingResolves
    BY <1>3, <1>5 DEF PendingResolves, Resolving, Asking, DecidePlaces, Procs
  <2>3. Apart
    BY <1>5 DEF Apart, InFlight, Procs
  <2>4. OneContainer
    BY <1>6, <1>7 DEF OneContainer, Kept, Claiming
  <2>5. \A p \in Procs : Sound(p)
    BY <1>5 DEF Sound, Recorded, At, OfKind, Alone, Resolving, Asking, DecidePlaces
  <2> QED BY <2>1, <2>2, <2>3, <2>4, <2>5 DEF Workers
<1> QED BY <1>2, <1>8, <1>9, <1>10 DEF CInv

LEMMA CInvStep == IInv /\ CInv /\ [Next]_vars => CInv'
<1> SUFFICES ASSUME IInv, CInv, [Next]_vars PROVE CInv'
  OBVIOUS
<1>1. Types' /\ Makers'
  BY IInvStep DEF IInv, Positions
<1>2. History'
  BY StepOrNot DEF CInv, History, Remember, vars, historyVars
<1>3. Containers'
  BY NothingYetStep, TombstonesStep, LeftoversStep, EntriesStep, BootStep DEF Containers
<1>4. Workers'
  BY UnrecordedStep, PendingStep, ApartStep, OneContainerStep, SoundStep DEF Workers
<1> QED BY <1>1, <1>2, <1>3, <1>4 DEF CInv

LEMMA CInvAlways == Spec => []CInv
<1>1. IInv /\ CInv /\ [Next]_vars => IInv' /\ CInv'
  BY IInvStep, CInvStep
<1> QED BY IInvInit, CInvInit, <1>1, PTL DEF Spec

-----------------------------------------------------------------------------
(* The properties. *)

\* A conversation never has two live containers that rows claim, unless one of
\* its rows has no container behind it: calls that meet share one creation, a
\* switch keeps the calls out, and a sandbox that is recorded is woken rather
\* than replaced (resolveEntry, createEntry, replaceConversationSandbox).
THEOREM OneSandboxEach == Spec => []OneContainer
<1>1. CInv => OneContainer
  BY DEF CInv, Workers
<1> QED BY CInvAlways, <1>1, PTL

\* No step takes a container that holds somebody's work, or gives up its row,
\* but a delete, a switch that has copied it, a person with `docker rm`, or an
\* inspect that was not answered (sweepOrphanSandboxes, markDeadRowsDestroyed).
THEOREM NobodysWorkIsTaken == Spec => WorkIsKeptOtherwise
<1>1. CInv /\ [Next]_vars => [\A f \in Refs : TakesWork(f) => Meant(f) \/ Unanswered("exists")]_vars
  BY WorkKeptStep DEF Excused
<1> QED BY CInvAlways, <1>1, PTL DEF Spec, WorkIsKeptOtherwise

\* A delete that is done has left no container its conversation had when it
\* began, nor the one that was being made for it, but one the engine did not
\* remove when it was asked, or whose row was given up before the delete came
\* to it (destroyConversationSandboxes).
THEOREM DeletesTakeAll == Spec => []DeleteTakesAll
<1>1. CInv => DeleteTakesAll
  <2> SUFFICES ASSUME CInv, NEW d \in Deletes, At(d, "done"), NEW f \in Refs, home[f] = ConvOf[d], Owed(d, f)
               PROVE  ~Live(f) \/ f \in forsaken
    BY DEF DeleteTakesAll
  <2>1. Taking(d)
    BY DEF CInv, Workers, Sound, Procs, At
  <2> QED BY <2>1 DEF Taking, At
<1> QED BY CInvAlways, <1>1, PTL

=============================================================================
