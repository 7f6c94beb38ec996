------------------------- MODULE RunSchedulerProofs -------------------------
(***************************************************************************)
(* Theorems about RunScheduler, for every finite set of turns and switches *)
(* and every bound.                                                        *)
(***************************************************************************)
EXTENDS RunScheduler, FiniteSetTheorems, SequenceTheorems, TLAPS

-----------------------------------------------------------------------------
(* Lines: sequences in which nobody stands twice.  The queue's array is    *)
(* pushed to, unshifted to, spliced and shifted; each leaves a line.       *)

Members(w) == {w[i] : i \in DOMAIN w}
FirstOf(w, n) == {w[i] : i \in 1..n}
Distinct(w) == \A i, j \in DOMAIN w : w[i] = w[j] => i = j

\* Joining the back of a line adds one member and no duplicate.
LEMMA AppendLine ==
  ASSUME NEW S, NEW w \in Seq(S), NEW e \in S, Distinct(w), e \notin Members(w)
  PROVE  /\ Append(w, e) \in Seq(S)
         /\ Distinct(Append(w, e))
         /\ Members(Append(w, e)) = Members(w) \cup {e}
<1> DEFINE v == Append(w, e)
<1>1. /\ v \in Seq(S) /\ Len(v) = Len(w) + 1 /\ DOMAIN v = 1..Len(v)
      /\ \A i \in 1..Len(w) : v[i] = w[i]
      /\ v[Len(w) + 1] = e
      /\ Len(w) \in Nat /\ DOMAIN w = 1..Len(w)
  BY AppendProperties, LenProperties
<1> HIDE DEF v
<1>2. Distinct(v)
  BY <1>1 DEF Distinct, Members
<1>3. Members(v) = Members(w) \cup {e}
  BY <1>1 DEF Members
<1> QED BY <1>1, <1>2, <1>3 DEF v

\* So does joining the front.
LEMMA UnshiftLine ==
  ASSUME NEW S, NEW w \in Seq(S), NEW e \in S, Distinct(w), e \notin Members(w)
  PROVE  /\ <<e>> \o w \in Seq(S)
         /\ Distinct(<<e>> \o w)
         /\ Members(<<e>> \o w) = Members(w) \cup {e}
<1> DEFINE v == <<e>> \o w
<1>0. <<e>> \in Seq(S) /\ Len(<<e>>) = 1 /\ <<e>>[1] = e
  OBVIOUS
<1>1. /\ v \in Seq(S) /\ Len(v) = Len(w) + 1 /\ DOMAIN v = 1..Len(v)
      /\ \A i \in 1..(Len(w) + 1) : v[i] = IF i <= 1 THEN e ELSE w[i - 1]
      /\ Len(w) \in Nat /\ DOMAIN w = 1..Len(w)
  BY <1>0, ConcatProperties, LenProperties
<1> HIDE DEF v
<1>2. Distinct(v)
  <2>1. ASSUME NEW i \in DOMAIN v, i # 1 PROVE v[i] # e /\ i - 1 \in DOMAIN w /\ v[i] = w[i - 1]
    <3>1. i \in 1..(Len(w) + 1) /\ ~(i <= 1) /\ i - 1 \in DOMAIN w
      BY <1>1, <2>1
    <3>2. v[i] = w[i - 1]
      BY <1>1, <3>1
    <3>3. w[i - 1] \in Members(w)
      BY <3>1 DEF Members
    <3> QED BY <3>1, <3>2, <3>3
  <2>2. v[1] = e
    BY <1>1
  <2>3. ASSUME NEW i \in DOMAIN v, NEW j \in DOMAIN v, v[i] = v[j] PROVE i = j
    <3>1. CASE i = 1 \/ j = 1
      BY <2>1, <2>2, <2>3, <3>1
    <3>2. CASE i # 1 /\ j # 1
      <4>1. i - 1 = j - 1
        BY <2>1, <2>3, <3>2 DEF Distinct
      <4> QED BY <1>1, <4>1
    <3> QED BY <3>1, <3>2
  <2> QED BY <2>3 DEF Distinct
<1>3. Members(v) = Members(w) \cup {e}
  <2>1. \A i \in 1..Len(w) : i + 1 \in 1..(Len(w) + 1) /\ v[i + 1] = w[i]
    BY <1>1
  <2>2. v[1] = e /\ 1 \in DOMAIN v
    BY <1>1
  <2> QED BY <1>1, <2>1, <2>2 DEF Members
<1> QED BY <1>1, <1>2, <1>3 DEF v

\* Leaving a line takes out exactly the one that left.
LEMMA RemoveFromLine ==
  ASSUME NEW S, NEW w \in Seq(S), NEW k \in DOMAIN w, Distinct(w)
  PROVE  /\ RemoveAt(w, k) \in Seq(S)
         /\ Distinct(RemoveAt(w, k))
         /\ Members(RemoveAt(w, k)) = Members(w) \ {w[k]}
<1> DEFINE a == SubSeq(w, 1, k - 1)
           b == SubSeq(w, k + 1, Len(w))
           v == RemoveAt(w, k)
<1>0. Len(w) \in Nat /\ DOMAIN w = 1..Len(w) /\ \A i \in 1..Len(w) : w[i] \in S
  BY LenProperties
<1>1. a \in Seq(S) /\ Len(a) = k - 1 /\ \A i \in 1..(k - 1) : a[i] = w[i]
  <2>1. \A i \in 1..(k - 1) : w[i] \in S
    BY <1>0
  <2> QED BY <1>0, <2>1, SubSeqProperties
<1>2. b \in Seq(S) /\ Len(b) = Len(w) - k /\ \A i \in 1..(Len(w) - k) : b[i] = w[k + i]
  <2>1. \A i \in (k + 1)..Len(w) : w[i] \in S
    BY <1>0
  <2>2. /\ b \in Seq(S)
        /\ Len(b) = IF k + 1 <= Len(w) THEN Len(w) - (k + 1) + 1 ELSE 0
        /\ \A i \in 1..(Len(w) - (k + 1) + 1) : b[i] = w[(k + 1) + i - 1]
    BY <1>0, <2>1, SubSeqProperties
  <2> HIDE DEF b
  <2>3. k \in 1..Len(w) /\ Len(b) = Len(w) - k
    BY <1>0, <2>2
  <2>4. ASSUME NEW i \in 1..(Len(w) - k) PROVE b[i] = w[k + i]
    <3>1. i \in 1..(Len(w) - (k + 1) + 1) /\ (k + 1) + i - 1 = k + i
      BY <1>0, <2>3
    <3> QED BY <2>2, <3>1
  <2> QED BY <2>2, <2>3, <2>4
<1>3. v = a \o b
  BY DEF RemoveAt
<1> HIDE DEF a, b, v
<1>4. /\ v \in Seq(S) /\ Len(v) = Len(w) - 1 /\ DOMAIN v = 1..(Len(w) - 1)
      /\ \A i \in 1..(Len(w) - 1) : v[i] = IF i < k THEN w[i] ELSE w[i + 1]
  <2>1. /\ v \in Seq(S) /\ Len(v) = Len(a) + Len(b)
        /\ \A i \in 1..(Len(a) + Len(b)) : v[i] = IF i <= Len(a) THEN a[i] ELSE b[i - Len(a)]
    BY <1>1, <1>2, <1>3, ConcatProperties
  <2>2. DOMAIN v = 1..Len(v)
    BY <2>1, LenProperties
  <2>3. ASSUME NEW i \in 1..(Len(w) - 1)
        PROVE  v[i] = IF i < k THEN w[i] ELSE w[i + 1]
    <3>1. CASE i < k
      BY <1>0, <1>1, <1>2, <2>1, <3>1
    <3>2. CASE ~(i < k)
      <4>1. v[i] = b[i - (k - 1)] /\ i - (k - 1) \in 1..(Len(w) - k)
        BY <1>0, <1>1, <1>2, <2>1, <3>2
      <4>2. k + (i - (k - 1)) = i + 1
        BY <1>0
      <4> QED BY <1>2, <3>2, <4>1, <4>2
    <3> QED BY <3>1, <3>2
  <2> QED BY <1>0, <1>1, <1>2, <2>1, <2>2, <2>3
<1>5. Distinct(v)
  BY <1>0, <1>4 DEF Distinct
<1>6. Members(v) = Members(w) \ {w[k]}
  <2>1. ASSUME NEW i \in DOMAIN v PROVE v[i] \in Members(w) \ {w[k]}
    BY <1>0, <1>4 DEF Members, Distinct
  <2>2. ASSUME NEW j \in DOMAIN w, j # k PROVE w[j] \in Members(v)
    <3>1. CASE j < k
      BY <1>0, <1>4, <3>1 DEF Members
    <3>2. CASE j > k
      <4>1. j - 1 \in DOMAIN v /\ v[j - 1] = w[j]
        BY <1>0, <1>4, <3>2
      <4> QED BY <4>1 DEF Members
    <3> QED BY <1>0, <2>2, <3>1, <3>2
  <2> QED BY <2>1, <2>2 DEF Members
<1> QED BY <1>4, <1>5, <1>6 DEF v

\* Shifting n waiters off the head parts the line in two.
LEMMA ShiftLine ==
  ASSUME NEW S, NEW w \in Seq(S), NEW n \in 0..Len(w), Distinct(w)
  PROVE  /\ SubSeq(w, n + 1, Len(w)) \in Seq(S)
         /\ Len(SubSeq(w, n + 1, Len(w))) = Len(w) - n
         /\ Distinct(SubSeq(w, n + 1, Len(w)))
         /\ Members(SubSeq(w, n + 1, Len(w))) = Members(w) \ FirstOf(w, n)
         /\ FirstOf(w, n) \subseteq Members(w)
         /\ IsFiniteSet(FirstOf(w, n))
         /\ Cardinality(FirstOf(w, n)) = n
<1> DEFINE v == SubSeq(w, n + 1, Len(w))
           front == {w[i] : i \in 1..n}
<1>0. Len(w) \in Nat /\ n \in Nat /\ n <= Len(w) /\ DOMAIN w = 1..Len(w)
      /\ \A i \in 1..Len(w) : w[i] \in S
  BY LenProperties
<1>1. /\ v \in Seq(S) /\ Len(v) = Len(w) - n /\ DOMAIN v = 1..(Len(w) - n)
      /\ \A i \in 1..(Len(w) - n) : v[i] = w[n + i]
  <2>1. \A i \in (n + 1)..Len(w) : w[i] \in S
    BY <1>0
  <2>2. /\ v \in Seq(S)
        /\ Len(v) = IF n + 1 <= Len(w) THEN Len(w) - (n + 1) + 1 ELSE 0
        /\ \A i \in 1..(Len(w) - (n + 1) + 1) : v[i] = w[(n + 1) + i - 1]
    BY <1>0, <2>1, SubSeqProperties
  <2>3. DOMAIN v = 1..Len(v)
    BY <2>2, LenProperties
  <2> HIDE DEF v
  <2>4. Len(v) = Len(w) - n
    <3>0. Len(w) \in Nat /\ n \in Nat /\ n <= Len(w)
      BY <1>0
    <3>1. CASE n < Len(w)
      <4>1. n + 1 <= Len(w)
        BY <3>0, <3>1
      <4> QED BY <2>2, <3>0, <4>1
    <3>2. CASE n = Len(w)
      <4>1. ~(n + 1 <= Len(w))
        BY <3>0, <3>2
      <4> QED BY <2>2, <3>0, <3>2, <4>1
    <3> QED BY <3>0, <3>1, <3>2
  <2>5. ASSUME NEW i \in 1..(Len(w) - n) PROVE v[i] = w[n + i]
    <3>1. i \in 1..(Len(w) - (n + 1) + 1) /\ (n + 1) + i - 1 = n + i
      BY <1>0
    <3> QED BY <2>2, <3>1
  <2> QED BY <2>2, <2>3, <2>4, <2>5
<1> HIDE DEF v
<1>2. Distinct(v)
  <2>1. ASSUME NEW i \in DOMAIN v, NEW j \in DOMAIN v, v[i] = v[j] PROVE i = j
    <3>1. n + i \in DOMAIN w /\ n + j \in DOMAIN w /\ w[n + i] = w[n + j]
      BY <1>0, <1>1, <2>1
    <3>2. n + i = n + j
      BY <3>1 DEF Distinct
    <3> QED BY <1>0, <1>1, <3>2
  <2> QED BY <2>1 DEF Distinct
<1>3. Members(v) = Members(w) \ front
  <2>1. ASSUME NEW i \in DOMAIN v PROVE v[i] \in Members(w) \ front
    <3>1. n + i \in DOMAIN w /\ v[i] = w[n + i]
      BY <1>0, <1>1
    <3>2. ASSUME NEW j \in 1..n, w[j] = v[i] PROVE FALSE
      <4>1. j \in DOMAIN w
        BY <1>0
      <4>2. j = n + i
        BY <3>1, <3>2, <4>1 DEF Distinct
      <4> QED BY <1>0, <1>1, <4>2
    <3> QED BY <3>1, <3>2 DEF Members
  <2>2. ASSUME NEW j \in DOMAIN w, w[j] \notin front PROVE w[j] \in Members(v)
    <3>1. j > n
      BY <1>0, <2>2
    <3>2. j - n \in DOMAIN v /\ v[j - n] = w[j]
      BY <1>0, <1>1, <3>1
    <3> QED BY <3>2 DEF Members
  <2> QED BY <2>1, <2>2 DEF Members
<1>4. front \subseteq Members(w)
  BY <1>0 DEF Members
<1>5. IsFiniteSet(front) /\ Cardinality(front) = n
  <2> DEFINE f == [i \in 1..n |-> w[i]]
  <2>1. f \in Surjection(1..n, front)
    BY DEF Surjection
  <2>2. f \in Injection(1..n, front)
    BY <1>0 DEF Injection, Distinct, IsInjective
  <2>3. IsFiniteSet(1..n) /\ Cardinality(1..n) = n
    BY <1>0, FS_Interval
  <2> QED BY <2>1, <2>2, <2>3, FS_Surjection
<1> QED BY <1>1, <1>2, <1>3, <1>4, <1>5 DEF v, FirstOf

-----------------------------------------------------------------------------
(* The inductive invariant.                                                *)

\* resolveMaxConcurrent never answers less than one slot.
AnswerPositive == \A p \in Procs : phase[p] = "answered" => answer[p] > 0

\* What each step preserves.  ExclusiveAlone needs the counter to be exact
\* (a switch looks at `running`, not at who runs), the counter needs the line to
\* hold waiters only (pump admits whoever stands there), and NoLostWakeup needs
\* `exclusive` to imply a holder, whose release will pump, and a floor of one
\* under every limit.
IInv == /\ TypeOK /\ Accounting /\ ExclusiveAlone /\ LineIsWaiters
        /\ NoLostWakeup /\ AnswerPositive

-----------------------------------------------------------------------------
\* There are finitely many callers.
LEMMA ProcsFinite == IsFiniteSet(Procs)
BY ProcsAssumption, FS_Union DEF Procs

\* So the holders can be counted.
LEMMA HoldersFinite ==
  /\ IsFiniteSet(Holders)
  /\ Cardinality(Holders) \in Nat
  /\ Cardinality(Holders) = 0 <=> Holders = {}
<1>1. Holders \in SUBSET Procs
  BY DEF Holders
<1>2. IsFiniteSet(Holders)
  BY <1>1, ProcsFinite, FS_Subset
<1> QED BY <1>2, FS_CardinalityType, FS_EmptySet

\* Positions are natural numbers.
LEMMA NotifiedType ==
  ASSUME TypeOK, NEW w \in Seq(Procs)
  PROVE  Notified(w) \in [Procs -> Nat]
<1>1. DOMAIN w \subseteq Nat
  BY LenProperties
<1>2. ASSUME NEW p \in Procs, \E i \in DOMAIN w : w[i] = p
      PROVE  (CHOOSE i \in DOMAIN w : w[i] = p) \in Nat
  BY <1>1, <1>2
<1> QED BY <1>2 DEF Notified, TypeOK

\* Another pump in flight is another pump.
LEMMA PumpedType ==
  ASSUME TypeOK
  PROVE  /\ Pumped \in [0..MaxLimit -> Nat]
         /\ 0 \in 0..MaxLimit
         /\ Pumped[0] > 0
BY BoundsAssumption DEF Pumped, TypeOK

-----------------------------------------------------------------------------
\* The empty queue satisfies the invariant.
LEMMA InitIInv == Init => IInv
<1> SUFFICES ASSUME Init PROVE IInv
  OBVIOUS
<1>1. TypeOK
  <2>1. <<>> \in Seq(Procs) /\ 0 \in 0..MaxLimit
    BY BoundsAssumption
  <2> QED BY <2>1 DEF Init, TypeOK, Phases, Limits
<1>2. Holders = {}
  BY DEF Init, Holders
<1>3. Accounting
  BY <1>2, FS_EmptySet DEF Accounting, Init
<1>4. ExclusiveAlone
  BY <1>2 DEF ExclusiveAlone
<1>5. LineIsWaiters
  BY DEF Init, LineIsWaiters
<1>6. NoLostWakeup
  BY DEF Init, NoLostWakeup
<1>7. AnswerPositive
  BY DEF Init, AnswerPositive
<1> QED BY <1>1, <1>3, <1>4, <1>5, <1>6, <1>7 DEF IInv

\* A step that moves nobody in or out of the line or the backend, and loses no
\* pump, keeps the invariant.
LEMMA QuietStep ==
  ASSUME IInv, TypeOK', AnswerPositive', UNCHANGED queueVars,
         Holders' = Holders,
         {q \in Procs : phase'[q] = "waiting"} = {q \in Procs : phase[q] = "waiting"},
         (\E m \in 0..MaxLimit : pumps[m] > 0) => (\E m \in 0..MaxLimit : pumps'[m] > 0)
  PROVE  IInv'
<1>1. Accounting'
  BY DEF IInv, Accounting, queueVars
<1>2. ExclusiveAlone'
  BY DEF IInv, ExclusiveAlone
<1>3. LineIsWaiters'
  BY DEF IInv, LineIsWaiters, queueVars
<1>4. NoLostWakeup'
  BY DEF IInv, NoLostWakeup, queueVars
<1> QED BY <1>1, <1>2, <1>3, <1>4 DEF IInv

\* Letting p go takes one holder and one from the counter.
LEMMA LetGo ==
  ASSUME IInv, NEW p \in Procs, p \in Holders,
         Holders' = Holders \ {p}, running' = Freed,
         exclusive' = (exclusive /\ p \notin Switches)
  PROVE  /\ running' \in Nat /\ exclusive' \in BOOLEAN
         /\ Accounting' /\ ExclusiveAlone'
<1>1. IsFiniteSet(Holders) /\ Cardinality(Holders) = running /\ running \in Nat
  BY HoldersFinite DEF IInv, Accounting, TypeOK
<1>2. Cardinality(Holders \ {p}) = running'
  BY <1>1, FS_RemoveElement DEF Freed
<1>3. IsFiniteSet(Holders \ {p})
  BY <1>1, FS_RemoveElement
<1>4. running' \in Nat
  BY <1>2, <1>3, FS_CardinalityType
<1>5. exclusive' <=> \E s \in Switches : s \in Holders'
  <2>1. CASE exclusive
    <3>1. PICK s \in Switches : s \in Holders
      BY <2>1 DEF IInv, Accounting
    <3>2. Holders = {s}
      BY <3>1 DEF IInv, ExclusiveAlone
    <3> QED BY <3>1, <3>2
  <2>2. CASE ~exclusive
    BY <2>2 DEF IInv, Accounting
  <2>3. exclusive \in BOOLEAN
    BY DEF IInv, TypeOK
  <2> QED BY <2>1, <2>2
<1>6. ExclusiveAlone'
  BY DEF IInv, ExclusiveAlone
<1> QED BY <1>2, <1>4, <1>5, <1>6 DEF Accounting, IInv, TypeOK

\* A caller that is not in line may change to any other state outside it
\* without touching the line.
LEMMA LineUntouched ==
  ASSUME IInv, waiting' = waiting,
         {q \in Procs : phase'[q] = "waiting"} = {q \in Procs : phase[q] = "waiting"}
  PROVE  LineIsWaiters'
BY DEF IInv, LineIsWaiters

\* Whoever pumps loses no wake-up.
LEMMA PumpWakes ==
  ASSUME IInv, pumps' = Pumped
  PROVE  NoLostWakeup'
BY PumpedType DEF IInv, NoLostWakeup

-----------------------------------------------------------------------------
(* The actions, one lemma each where the line or the backend moves. *)

\* The fast path lets in a run beside runs, or a switch alone.
LEMMA TakeFreeSlotStep ==
  ASSUME IInv, NEW p \in Procs, TakeFreeSlot(p)
  PROVE  IInv'
<1>0. TypeOK /\ phase \in [Procs -> Phases]
  BY DEF IInv, TypeOK
<1>1. TypeOK'
  <2>1. answer' \in [Procs -> 0..MaxLimit]
    BY BoundsAssumption DEF TakeFreeSlot, IInv, TypeOK
  <2> QED BY <1>0, <2>1 DEF TakeFreeSlot, TypeOK, Phases, limitVars
<1>2. Holders' = Holders \cup {p} /\ p \notin Holders
  BY <1>0 DEF TakeFreeSlot, Holders
<1>3. Accounting'
  <2>1. running' = Cardinality(Holders')
    BY <1>2, HoldersFinite, FS_AddElement DEF TakeFreeSlot, IInv, Accounting
  <2>2. exclusive' <=> \E s \in Switches : s \in Holders'
    BY <1>2 DEF TakeFreeSlot, RoomFor, IInv, Accounting
  <2> QED BY <2>1, <2>2 DEF Accounting
<1>4. ExclusiveAlone'
  <2>1. CASE p \in Switches
    <3>1. Holders = {}
      BY <2>1, HoldersFinite DEF TakeFreeSlot, RoomFor, IInv, Accounting
    <3> QED BY <1>2, <3>1 DEF ExclusiveAlone
  <2>2. CASE p \notin Switches
    BY <1>2, <2>2 DEF TakeFreeSlot, RoomFor, IInv, Accounting, ExclusiveAlone
  <2> QED BY <2>1, <2>2
<1>5. LineIsWaiters'
  <2>1. {q \in Procs : phase'[q] = "waiting"} = {q \in Procs : phase[q] = "waiting"}
    BY <1>0 DEF TakeFreeSlot
  <2> QED BY <2>1, LineUntouched DEF TakeFreeSlot
<1>6. NoLostWakeup'
  BY DEF TakeFreeSlot, RoomFor, NoLostWakeup
<1>7. AnswerPositive'
  BY <1>0 DEF TakeFreeSlot, IInv, AnswerPositive
<1> QED BY <1>1, <1>3, <1>4, <1>5, <1>6, <1>7 DEF IInv

\* Joining the line leaves an idle backend a pump, or there was room.
LEMMA JoinLineStep ==
  ASSUME IInv, NEW p \in Procs, JoinLine(p)
  PROVE  IInv'
<1>0. TypeOK /\ phase \in [Procs -> Phases] /\ waiting \in Seq(Procs)
  BY DEF IInv, TypeOK
<1>1. Distinct(waiting) /\ Members(waiting) = {q \in Procs : phase[q] = "waiting"}
  BY DEF IInv, LineIsWaiters, Distinct, Members
<1>2. p \notin Members(waiting)
  BY <1>0, <1>1 DEF JoinLine
<1>3. /\ waiting' \in Seq(Procs) /\ Distinct(waiting')
      /\ Members(waiting') = Members(waiting) \cup {p}
  BY <1>0, <1>1, <1>2, AppendLine, UnshiftLine DEF JoinLine, Joined
<1>4. TypeOK'
  <2>1. told' \in [Procs -> Nat]
    BY <1>0, <1>3, NotifiedType DEF JoinLine
  <2>2. answer' \in [Procs -> 0..MaxLimit]
    BY BoundsAssumption DEF JoinLine, IInv, TypeOK
  <2> QED BY <1>0, <1>3, <2>1, <2>2 DEF JoinLine, TypeOK, Phases, limitVars
<1>5. Holders' = Holders
  BY <1>0 DEF JoinLine, Holders
<1>6. Accounting' /\ ExclusiveAlone'
  BY <1>5 DEF JoinLine, IInv, Accounting, ExclusiveAlone
<1>7. LineIsWaiters'
  <2>1. {q \in Procs : phase'[q] = "waiting"} = Members(waiting')
    BY <1>0, <1>1, <1>3 DEF JoinLine
  <2> QED BY <1>3, <2>1 DEF LineIsWaiters, Distinct, Members
<1>8. NoLostWakeup'
  <2> SUFFICES ASSUME running = 0 PROVE \E m \in 0..MaxLimit : pumps[m] > 0
    BY DEF JoinLine, NoLostWakeup
  <2>1. ~exclusive
    BY HoldersFinite DEF IInv, Accounting
  <2>2. CASE waiting # <<>>
    BY <2>2 DEF IInv, NoLostWakeup
  <2>3. CASE waiting = <<>>
    \* Nobody runs and nobody waits, so there is room under any limit.
    <3>1. answer[p] > 0
      BY <2>3 DEF JoinLine, IInv, AnswerPositive
    <3> QED BY <2>1, <2>3, <3>1 DEF JoinLine, RoomFor
  <2> QED BY <2>2, <2>3
<1>9. AnswerPositive'
  BY <1>0 DEF JoinLine, IInv, AnswerPositive
<1> QED BY <1>4, <1>6, <1>7, <1>8, <1>9 DEF IInv

\* Leaving the line leaves everyone else in it.
LEMMA AbortWaitingStep ==
  ASSUME IInv, NEW p \in Procs, AbortWaiting(p)
  PROVE  IInv'
<1>0. TypeOK /\ phase \in [Procs -> Phases] /\ waiting \in Seq(Procs)
  BY DEF IInv, TypeOK
<1>1. Distinct(waiting) /\ Members(waiting) = {q \in Procs : phase[q] = "waiting"}
  BY DEF IInv, LineIsWaiters, Distinct, Members
<1>2. PICK i \in DOMAIN waiting : waiting[i] = p /\ waiting' = RemoveAt(waiting, i)
  <2>1. \E i \in DOMAIN waiting : waiting[i] = p
    BY <1>1 DEF AbortWaiting, Members
  <2> QED BY <2>1 DEF AbortWaiting, Left
<1>3. /\ waiting' \in Seq(Procs) /\ Distinct(waiting')
      /\ Members(waiting') = Members(waiting) \ {p}
  BY <1>0, <1>1, <1>2, RemoveFromLine
<1>4. TypeOK'
  <2>1. told' \in [Procs -> Nat]
    BY <1>0, <1>3, NotifiedType DEF AbortWaiting
  <2>2. pumps' \in [0..MaxLimit -> Nat]
    BY <1>0, PumpedType DEF AbortWaiting
  <2> QED BY <1>0, <1>3, <2>1, <2>2 DEF AbortWaiting, TypeOK, Phases, limitVars
<1>5. Holders' = Holders
  BY <1>0 DEF AbortWaiting, Holders
<1>6. Accounting' /\ ExclusiveAlone'
  BY <1>5 DEF AbortWaiting, IInv, Accounting, ExclusiveAlone
<1>7. LineIsWaiters'
  <2>1. {q \in Procs : phase'[q] = "waiting"} = Members(waiting')
    BY <1>0, <1>1, <1>3 DEF AbortWaiting
  <2> QED BY <1>3, <2>1 DEF LineIsWaiters, Distinct, Members
<1>8. NoLostWakeup'
  BY PumpWakes DEF AbortWaiting
<1>9. AnswerPositive'
  BY <1>0 DEF AbortWaiting, IInv, AnswerPositive
<1> QED BY <1>4, <1>6, <1>7, <1>8, <1>9 DEF IInv

\* A release takes one from the counter and pumps.
LEMMA ReleaseStep ==
  ASSUME IInv, NEW p \in Procs, Release(p)
  PROVE  IInv'
<1>0. TypeOK /\ phase \in [Procs -> Phases]
  BY DEF IInv, TypeOK
<1>1. p \in Holders /\ Holders' = Holders \ {p}
  BY <1>0 DEF Release, Holders
<1>2. running' \in Nat /\ exclusive' \in BOOLEAN /\ Accounting' /\ ExclusiveAlone'
  BY <1>1, LetGo DEF Release
<1>3. TypeOK'
  <2>1. pumps' \in [0..MaxLimit -> Nat]
    BY <1>0, PumpedType DEF Release
  <2> QED BY <1>0, <1>2, <2>1 DEF Release, TypeOK, Phases, limitVars
<1>4. LineIsWaiters'
  <2>1. {q \in Procs : phase'[q] = "waiting"} = {q \in Procs : phase[q] = "waiting"}
    BY <1>0 DEF Release
  <2> QED BY <2>1, LineUntouched DEF Release
<1>5. NoLostWakeup'
  BY PumpWakes DEF Release
<1>6. AnswerPositive'
  BY <1>0 DEF Release, IInv, AnswerPositive
<1> QED BY <1>2, <1>3, <1>4, <1>5, <1>6 DEF IInv

\* A yield does too.
LEMMA GiveUpStep ==
  ASSUME IInv, NEW p \in Procs, GiveUp(p)
  PROVE  IInv'
<1>0. TypeOK /\ phase \in [Procs -> Phases] /\ p \notin Switches
  BY ProcsAssumption DEF IInv, TypeOK, GiveUp
<1>1. p \in Holders /\ Holders' = Holders \ {p}
  BY <1>0 DEF GiveUp, Holders
<1>2. running' \in Nat /\ exclusive' \in BOOLEAN /\ Accounting' /\ ExclusiveAlone'
  <2>1. exclusive' = (exclusive /\ p \notin Switches)
    BY <1>0 DEF GiveUp, TypeOK
  <2> QED BY <1>1, <2>1, LetGo DEF GiveUp
<1>3. TypeOK'
  <2>1. pumps' \in [0..MaxLimit -> Nat]
    BY <1>0, PumpedType DEF GiveUp
  <2> QED BY <1>0, <1>2, <2>1 DEF GiveUp, TypeOK, Phases, limitVars
<1>4. LineIsWaiters'
  <2>1. {q \in Procs : phase'[q] = "waiting"} = {q \in Procs : phase[q] = "waiting"}
    BY <1>0 DEF GiveUp
  <2> QED BY <2>1, LineUntouched DEF GiveUp
<1>5. NoLostWakeup'
  BY PumpWakes DEF GiveUp
<1>6. AnswerPositive'
  BY <1>0 DEF GiveUp, IInv, AnswerPositive
<1> QED BY <1>2, <1>3, <1>4, <1>5, <1>6 DEF IInv

\* A pump moves the front of the line into the backend.
LEMMA PumpAdmitsStep ==
  ASSUME IInv, NEW max \in Limits, PumpAdmits(max)
  PROVE  IInv'
<1>0. /\ TypeOK /\ phase \in [Procs -> Phases] /\ waiting \in Seq(Procs)
      /\ running \in Nat /\ max \in Nat /\ max > 0 /\ max \in 0..MaxLimit
  BY BoundsAssumption DEF IInv, TypeOK, Limits
<1>1. Distinct(waiting) /\ Members(waiting) = {q \in Procs : phase[q] = "waiting"}
  BY DEF IInv, LineIsWaiters, Distinct, Members
<1>2. PICK n \in 0..Len(waiting) :
        /\ MayAdmit(n, max)
        /\ \A k \in (n + 1)..Len(waiting) : ~MayAdmit(k, max)
        /\ running' = running + n
        /\ exclusive' = (exclusive \/ {waiting[i] : i \in 1..n} \cap Switches # {})
        /\ waiting' = SubSeq(waiting, n + 1, Len(waiting))
        /\ phase' = [p \in Procs |-> IF p \in {waiting[i] : i \in 1..n} THEN "holding" ELSE phase[p]]
        /\ told' = [p \in Procs |-> IF p \in {waiting[i] : i \in 1..n} THEN 0 ELSE Notified(waiting')[p]]
  BY DEF PumpAdmits
<1> DEFINE F == FirstOf(waiting, n)
<1>3. /\ waiting' \in Seq(Procs) /\ Distinct(waiting') /\ Len(waiting') = Len(waiting) - n
      /\ Members(waiting') = Members(waiting) \ F
      /\ F \subseteq Members(waiting) /\ IsFiniteSet(F) /\ Cardinality(F) = n
  <2>1. waiting' = SubSeq(waiting, n + 1, Len(waiting)) /\ n \in 0..Len(waiting)
    BY <1>2
  <2>2. /\ SubSeq(waiting, n + 1, Len(waiting)) \in Seq(Procs)
        /\ Len(SubSeq(waiting, n + 1, Len(waiting))) = Len(waiting) - n
        /\ Distinct(SubSeq(waiting, n + 1, Len(waiting)))
        /\ Members(SubSeq(waiting, n + 1, Len(waiting))) = Members(waiting) \ F
        /\ F \subseteq Members(waiting) /\ IsFiniteSet(F) /\ Cardinality(F) = n
    <3>1. waiting \in Seq(Procs) /\ n \in 0..Len(waiting) /\ Distinct(waiting)
      BY <1>0, <1>1, <2>1
    <3> QED BY <3>1, ShiftLine
  <2> QED BY <2>1, <2>2
<1>4. n \in Nat /\ Len(waiting) \in Nat /\ DOMAIN waiting = 1..Len(waiting)
  BY <1>0, LenProperties
<1>5. /\ phase' = [p \in Procs |-> IF p \in F THEN "holding" ELSE phase[p]]
      /\ running' = running + n
      /\ exclusive' = (exclusive \/ F \cap Switches # {})
      /\ told' = [p \in Procs |-> IF p \in F THEN 0 ELSE Notified(waiting')[p]]
  BY <1>2 DEF FirstOf
<1>6. n > 0 => ~exclusive
  BY <1>2 DEF MayAdmit
<1>7. ASSUME NEW s \in F, s \in Switches PROVE n = 1 /\ running = 0 /\ F = {s}
  <2>1. PICK i \in 1..n : waiting[i] = s
    BY <1>7 DEF FirstOf
  <2>2. n = 1 /\ running = 0
    BY <1>2, <1>7, <2>1 DEF MayAdmit
  <2> QED BY <2>1, <2>2 DEF FirstOf
<1> HIDE DEF F
<1>8. TypeOK'
  <2>1. told' \in [Procs -> Nat]
    BY <1>0, <1>3, <1>5, NotifiedType
  <2>2. pumps' \in [0..MaxLimit -> Nat]
    <3>1. pumps[max] > 0 /\ pumps' = [pumps EXCEPT ![max] = @ - 1]
      BY DEF PumpAdmits
    <3>2. pumps \in [0..MaxLimit -> Nat]
      BY <1>0 DEF TypeOK
    <3>3. pumps[max] \in Nat /\ pumps[max] > 0
      BY <1>0, <3>1, <3>2
    <3>4. pumps[max] - 1 \in Nat
      BY <3>3
    <3> QED BY <3>1, <3>2, <3>4
  <2>3. phase' \in [Procs -> Phases]
    BY <1>0, <1>5 DEF Phases
  <2>4. running' \in Nat /\ exclusive' \in BOOLEAN
    BY <1>0, <1>4, <1>5 DEF TypeOK
  <2> QED BY <1>0, <1>3, <2>1, <2>2, <2>3, <2>4 DEF PumpAdmits, TypeOK, limitVars
<1>9. Holders' = Holders \cup F /\ Holders \cap F = {}
  BY <1>0, <1>1, <1>3, <1>5 DEF Holders
<1>10. Accounting'
  <2>1. Cardinality(Holders') = running'
    <3>1. IsFiniteSet(Holders) /\ Cardinality(Holders) = running
      BY HoldersFinite DEF IInv, Accounting
    <3>2. Cardinality(Holders \cap F) = 0
      BY <1>9, FS_EmptySet
    <3>3. Cardinality(Holders \cup F) = Cardinality(Holders) + Cardinality(F) - Cardinality(Holders \cap F)
      BY <1>3, <3>1, FS_Union
    <3>4. Cardinality(Holders \cup F) = running + n
      BY <1>0, <1>3, <1>4, <3>1, <3>2, <3>3
    <3> QED BY <1>5, <1>9, <3>4
  <2>2. exclusive' <=> \E s \in Switches : s \in Holders'
    BY <1>5, <1>9 DEF IInv, Accounting
  <2> QED BY <2>1, <2>2 DEF Accounting
<1>11. ExclusiveAlone'
  <2> SUFFICES ASSUME NEW s \in Switches, s \in Holders' PROVE Holders' = {s}
    BY DEF ExclusiveAlone
  <2>1. CASE s \in F
    BY <1>7, <1>9, <2>1, HoldersFinite DEF IInv, Accounting
  <2>2. CASE s \in Holders
    <3>1. exclusive /\ Holders = {s}
      BY <2>2 DEF IInv, Accounting, ExclusiveAlone
    <3>2. F = {}
      BY <1>3, <1>4, <1>6, <3>1, FS_EmptySet
    <3> QED BY <1>9, <3>1, <3>2
  <2> QED BY <1>9, <2>1, <2>2
<1>12. LineIsWaiters'
  <2>1. {q \in Procs : phase'[q] = "waiting"} = Members(waiting')
    BY <1>1, <1>3, <1>5
  <2> QED BY <1>3, <2>1 DEF LineIsWaiters, Distinct, Members
<1>13. NoLostWakeup'
  \* An idle backend with a line left would have had room for its head.
  <2> SUFFICES ASSUME waiting' # <<>>, running' = 0 PROVE FALSE
    BY DEF NoLostWakeup
  <2>1. n = 0 /\ running = 0
    BY <1>0, <1>4, <1>5
  <2>2. Len(waiting) > 0
    BY <1>3, <1>4, <2>1, EmptySeq
  <2>3. ~exclusive
    BY <2>1, HoldersFinite DEF IInv, Accounting
  <2>4. MayAdmit(1, max)
    BY <1>0, <2>1, <2>3 DEF MayAdmit
  <2> QED BY <1>2, <1>4, <2>1, <2>2, <2>4
<1>14. AnswerPositive'
  BY <1>0, <1>5 DEF PumpAdmits, IInv, AnswerPositive
<1> QED BY <1>8, <1>10, <1>11, <1>12, <1>13, <1>14 DEF IInv

-----------------------------------------------------------------------------
\* Every step keeps the invariant.
LEMMA NextIInv == IInv /\ [Next]_vars => IInv'
<1> SUFFICES ASSUME IInv, [Next]_vars PROVE IInv'
  OBVIOUS
<1>0. /\ TypeOK /\ phase \in [Procs -> Phases] /\ limit \in Limits
      /\ pumps \in [0..MaxLimit -> Nat] /\ MaxLimit \in Nat \ {0}
  BY BoundsAssumption DEF IInv, TypeOK
<1>1. ASSUME NEW p \in Procs, Enter(p) PROVE IInv'
  BY <1>0, <1>1, QuietStep
     DEF Enter, IInv, TypeOK, Phases, Holders, AnswerPositive, limitVars, queueVars
<1>2. ASSUME NEW p \in Procs, LimitAnswered(p) PROVE IInv'
  <2>1. TypeOK' /\ Holders' = Holders /\ UNCHANGED <<queueVars, pumps>>
    BY <1>0, <1>2 DEF LimitAnswered, TypeOK, Phases, Limits, Holders, limitVars, queueVars
  <2>2. AnswerPositive'
    BY <1>0, <1>2 DEF LimitAnswered, IInv, TypeOK, Limits, AnswerPositive
  <2>3. {q \in Procs : phase'[q] = "waiting"} = {q \in Procs : phase[q] = "waiting"}
    BY <1>0, <1>2 DEF LimitAnswered
  <2> QED BY <2>1, <2>2, <2>3, QuietStep
<1>3. ASSUME NEW p \in Procs, StoppedWhileAsking(p) PROVE IInv'
  <2>1. answer' \in [Procs -> 0..MaxLimit]
    BY <1>0, <1>3 DEF StoppedWhileAsking, TypeOK
  <2> QED BY <1>0, <1>3, <2>1, QuietStep
          DEF StoppedWhileAsking, IInv, TypeOK, Phases, Holders, AnswerPositive, limitVars, queueVars
<1>4. ASSUME NEW p \in Procs, AbortElsewhere(p) PROVE IInv'
  BY <1>0, <1>4, QuietStep
     DEF AbortElsewhere, IInv, TypeOK, Holders, AnswerPositive, limitVars, queueVars
<1>5. ASSUME NEW p \in Procs, Return(p) PROVE IInv'
  BY <1>0, <1>5, QuietStep
     DEF Return, IInv, TypeOK, Phases, Holders, AnswerPositive, limitVars, queueVars
<1>6. CASE PumpAnswered
  <2>1. /\ pumps' \in [0..MaxLimit -> Nat]
        /\ limit \in 0..MaxLimit /\ limit # 0 /\ pumps'[limit] > 0
    BY <1>0, <1>6 DEF PumpAnswered, Limits
  <2> QED
    BY <1>0, <1>6, <2>1, QuietStep
       DEF PumpAnswered, IInv, TypeOK, Holders, AnswerPositive, limitVars, queueVars, callerVars
<1>7. ASSUME NEW l \in Limits, ChangeLimit(l) \/ ProbeExpires(l) PROVE IInv'
  <2>1. pumps' = Pumped \/ pumps' = pumps
    BY <1>7 DEF ChangeLimit, ProbeExpires
  <2>2. /\ pumps' \in [0..MaxLimit -> Nat]
        /\ (\E m \in 0..MaxLimit : pumps[m] > 0) => (\E m \in 0..MaxLimit : pumps'[m] > 0)
    BY <1>0, <2>1, PumpedType
  <2>3. /\ UNCHANGED <<queueVars, callerVars, told>> /\ limit' \in Limits
        /\ changes' = changes + 1
    BY <1>7 DEF ChangeLimit, ProbeExpires
  <2>4. TypeOK'
    BY <1>0, <2>2, <2>3 DEF TypeOK, queueVars, callerVars
  <2>5. AnswerPositive' /\ Holders' = Holders
    BY <2>3 DEF IInv, AnswerPositive, Holders, callerVars
  <2> QED BY <2>2, <2>3, <2>4, <2>5, QuietStep DEF callerVars
<1>8. CASE Rest \/ UNCHANGED vars
  <2>1. UNCHANGED vars
    BY <1>8 DEF Rest
  <2>2. TypeOK' /\ AnswerPositive' /\ Holders' = Holders
    BY <1>0, <2>1 DEF vars, IInv, TypeOK, AnswerPositive, Holders
  <2> QED BY <2>1, <2>2, QuietStep DEF vars, queueVars
<1>9. ASSUME NEW p \in Procs, CallerNext(p) PROVE IInv'
  BY <1>1, <1>2, <1>3, <1>4, <1>5, <1>9, TakeFreeSlotStep, JoinLineStep, AbortWaitingStep,
     ReleaseStep, GiveUpStep DEF CallerNext
<1> QED BY <1>6, <1>7, <1>8, <1>9, PumpAdmitsStep DEF Next

\* Every reachable state satisfies the inductive invariant.
THEOREM Invariance == Spec => []IInv
<1> QED BY InitIInv, NextIInv, PTL DEF Spec

\* Types of all the queue's and the callers' state (scheduler.ts, Queue).
THEOREM TypeCorrect == Spec => []TypeOK
<1>1. IInv => TypeOK
  BY DEF IInv
<1> QED BY <1>1, Invariance, PTL

\* The counter and the exclusive flag agree with who holds a slot, across
\* release, yield, abort, re-entry and any change of the limit.
THEOREM AccountingHolds == Spec => []Accounting
<1>1. IInv => Accounting
  BY DEF IInv
<1> QED BY <1>1, Invariance, PTL

\* A context-stage switch never shares the backend with a run.
THEOREM SwitchHoldsAlone == Spec => []ExclusiveAlone
<1>1. IInv => ExclusiveAlone
  BY DEF IInv
<1> QED BY <1>1, Invariance, PTL

\* An idle backend with a line always has a pump on the way to it.
THEOREM NoWakeupIsLost == Spec => []NoLostWakeup
<1>1. IInv => NoLostWakeup
  BY DEF IInv
<1> QED BY <1>1, Invariance, PTL
=============================================================================
