----------------------- MODULE FleetSelectionProofs -----------------------
(***************************************************************************)
(* FindDeleteServer is right about every list of distinct servers, however *)
(* long, for all timestamps and all answers of the sidecars.  The loop is  *)
(* a recursive function, and what it computes is proved by induction over  *)
(* the rounds, written as the absence of a least counterexample.           *)
(***************************************************************************)
EXTENDS FleetSelection, WellFoundedInduction, TLAPS

\* Every nonempty set of natural numbers has a least element.
LEMMA LeastExists ==
    ASSUME NEW T, T \subseteq Nat, T # {}
    PROVE  \E n \in T : \A m \in T : n <= m
<1> DEFINE R == OpToRel(<, Nat)
<1>1. IsWellFoundedOn(R, Nat)
  BY NatLessThanWellFounded
<1>2. \A x, y \in Nat : x < y => <<x, y>> \in R
  BY DEF OpToRel
<1> HIDE DEF R
<1>3. PICK x \in T : \A y \in T : ~(<<y, x>> \in R)
  BY <1>1, WFMin
<1>4. ASSUME NEW m \in T PROVE x <= m
  <2>1. x \in Nat /\ m \in Nat
    OBVIOUS
  <2>2. ~(m < x)
    BY <1>2, <1>3, <2>1
  <2>3. QED
    BY <2>1, <2>2
<1>5. QED
  BY <1>4

\* A set that holds 0, and n + 1 with every n of it that is below a bound,
\* holds every number up to that bound.
LEMMA UpTo ==
    ASSUME NEW bound \in Nat, NEW T, 0 \in T,
           \A n \in 0..bound : n \in T /\ n < bound => n + 1 \in T
    PROVE  \A n \in 0..bound : n \in T
<1> DEFINE Missing == {n \in 0..bound : n \notin T}
<1> SUFFICES ASSUME Missing # {} PROVE FALSE
  OBVIOUS
<1>1. PICK least \in Missing : \A m \in Missing : least <= m
  <2>1. Missing \subseteq Nat
    OBVIOUS
  <2> HIDE DEF Missing
  <2>2. QED
    BY <2>1, LeastExists
<1>2. least \in 0..bound /\ least # 0 /\ least \notin T
  OBVIOUS
<1>3. least - 1 \in 0..bound /\ least - 1 < bound /\ (least - 1) + 1 = least
  BY <1>2
<1>4. least - 1 \in T
  BY <1>1, <1>3
<1>5. QED
  BY <1>2, <1>3, <1>4

\* What a call of FindDeleteServer is given: names of servers, which are
\* positive numbers, a list of them without repetition, a timestamp and an
\* answer for each.
Given(S, list, ts, answer, deleteFirst) ==
    /\ S \subseteq Nat \ {NoChoice}
    /\ list \in Seq(S)
    /\ \A i, j \in DOMAIN list : i # j => list[i] # list[j]
    /\ ts \in [S -> Int]
    /\ answer \in [S -> Answers]
    /\ deleteFirst \in BOOLEAN

-----------------------------------------------------------------------------
(* The recursive function exists *)

LEMMA RoundsUnfold ==
    ASSUME NEW strategy, NEW deleteFirst, NEW list, Len(list) \in Nat, NEW ts, NEW answer
    PROVE  LET acc == Rounds(strategy, deleteFirst, list, ts, answer) IN
           /\ acc[0] = NoCandidates
           /\ \A i \in 1..Len(list) : acc[i] = Round(strategy, deleteFirst, acc[i - 1], list[i], ts, answer)
<1> DEFINE n == Len(list)
           Step(a, i) == Round(strategy, deleteFirst, a, list[i], ts, answer)
           IsRun(g, k) == g = [i \in 0..k |-> IF i = 0 THEN NoCandidates ELSE Step(g[i - 1], i)]
           T == {k \in 0..n : \E g : IsRun(g, k)}
<1> HIDE DEF Step
<1>1. 0 \in T
  <2>1. [i \in 0..0 |-> NoCandidates] = [i \in 0..0 |->
            IF i = 0 THEN NoCandidates ELSE Step([j \in 0..0 |-> NoCandidates][i - 1], i)]
    OBVIOUS
  <2>2. IsRun([i \in 0..0 |-> NoCandidates], 0)
    BY <2>1
  <2> HIDE DEF IsRun
  <2>3. QED
    BY <2>2
<1>2. ASSUME NEW k \in 0..n, k \in T, k < n
      PROVE  k + 1 \in T
  <2>1. PICK g : IsRun(g, k)
    BY <1>2
  <2> DEFINE h == [i \in 0..(k + 1) |-> IF i <= k THEN g[i] ELSE Step(g[k], k + 1)]
  <2>2. ASSUME NEW i \in 0..(k + 1)
        PROVE  h[i] = IF i = 0 THEN NoCandidates ELSE Step(h[i - 1], i)
    <3>1. CASE i = 0
      BY <2>1, <3>1
    <3>2. CASE i \in 1..k
      <4>1. i \in 0..k /\ i - 1 \in 0..k /\ i <= k /\ i - 1 <= k /\ i - 1 \in 0..(k + 1) /\ i # 0
        BY <3>2
      <4>2. h[i] = g[i] /\ h[i - 1] = g[i - 1]
        BY <4>1
      <4>3. g[i] = Step(g[i - 1], i)
        BY <2>1, <4>1
      <4>4. QED
        BY <4>1, <4>2, <4>3
    <3>3. CASE i = k + 1
      <4>1. i # 0 /\ ~(i <= k) /\ i - 1 = k /\ k \in 0..(k + 1) /\ k <= k
        BY <3>3
      <4>2. h[i] = Step(g[k], k + 1) /\ h[k] = g[k]
        BY <4>1
      <4>3. QED
        BY <3>3, <4>1, <4>2
    <3>4. QED
      BY <3>1, <3>2, <3>3
  <2>3. IsRun(h, k + 1)
    <3>1. h = [i \in 0..(k + 1) |-> h[i]]
      OBVIOUS
    <3> HIDE DEF h
    <3>2. QED
      BY <2>2, <3>1
  <2> HIDE DEF IsRun, h
  <2>4. k + 1 \in 0..n
    BY <1>2
  <2>5. QED
    BY <2>3, <2>4
<1>3. \E g : IsRun(g, n)
  <2> HIDE DEF IsRun
  <2>1. \A k \in 0..n : k \in T
    BY <1>1, <1>2, UpTo
  <2>2. QED
    BY <2>1
<1>4. Rounds(strategy, deleteFirst, list, ts, answer) = CHOOSE g : IsRun(g, n)
  BY DEF Rounds, Step
<1>5. IsRun(Rounds(strategy, deleteFirst, list, ts, answer), n)
  <2> HIDE DEF IsRun
  <2>1. QED
    BY <1>3, <1>4
<1>6. QED
  BY <1>5 DEF Step

-----------------------------------------------------------------------------
(* The invariant of the loop *)

\* Candidate c is the server that goes first among those at the places I of
\* the list, and of several such servers the first in the list.
Best(strategy, I, list, ts, c) ==
    \/ I = {} /\ c = NoChoice
    \/ \E j \in I :
          /\ c = list[j]
          /\ \A k \in I : ~Beats(strategy, ts[list[k]], ts[list[j]])
          /\ \A k \in I : k < j => Beats(strategy, ts[list[j]], ts[list[k]])

AllowedPlaces(deleteFirst, list, answer, n) ==
    {j \in 1..n : deleteFirst /\ answer[list[j]] = "yes"}

PodMissing(deleteFirst, list, answer, n) ==
    deleteFirst /\ \E j \in 1..n : answer[list[j]] = "noPod"

LoopInv(strategy, deleteFirst, list, ts, answer, n, acc) ==
    /\ acc.failed = PodMissing(deleteFirst, list, answer, n)
    /\ ~acc.failed =>
          /\ Best(strategy, 1..n, list, ts, acc.any)
          /\ Best(strategy, AllowedPlaces(deleteFirst, list, answer, n), list, ts, acc.allowed)

\* Timestamps are compared strictly and in a linear order.
LEMMA BeatsIsAnOrder ==
    ASSUME NEW strategy, NEW t \in Int, NEW u \in Int, NEW v \in Int,
           Beats(strategy, t, u), ~Beats(strategy, v, u)
    PROVE  Beats(strategy, t, v) /\ ~Beats(strategy, v, t)
BY DEF Beats

\* One Take extends what a candidate is the best of by the next server.
LEMMA TakeKeepsBest ==
    ASSUME NEW strategy, NEW S, NEW list, NEW ts, NEW answer, NEW deleteFirst,
           Given(S, list, ts, answer, deleteFirst),
           NEW n \in Nat, n < Len(list), NEW I, I \subseteq 1..n,
           NEW c, Best(strategy, I, list, ts, c)
    PROVE  Best(strategy, I \cup {n + 1}, list, ts, Take(strategy, c, list[n + 1], ts))
<1>1. /\ n + 1 \in 1..Len(list)
      /\ \A k \in I : k \in 1..Len(list) /\ k < n + 1 /\ ~(n + 1 < k)
  BY DEF Given
<1>2. \A k \in 1..Len(list) : list[k] \in S /\ ts[list[k]] \in Int /\ list[k] # NoChoice
  BY DEF Given
<1>3. CASE I = {}
  <2>1. c = NoChoice
    BY <1>3 DEF Best
  <2>2. ~Beats(strategy, ts[list[n + 1]], ts[list[n + 1]])
    BY <1>1, <1>2 DEF Beats
  <2>3. QED
    BY <1>1, <1>3, <2>1, <2>2 DEF Best, Take
<1>4. CASE I # {}
  <2>1. PICK j \in I : /\ c = list[j]
                       /\ \A k \in I : ~Beats(strategy, ts[list[k]], ts[list[j]])
                       /\ \A k \in I : k < j => Beats(strategy, ts[list[j]], ts[list[k]])
    BY <1>4 DEF Best
  <2>2. c # NoChoice
    BY <1>1, <1>2, <2>1
  <2>3. CASE Beats(strategy, ts[list[n + 1]], ts[c])
    <3>1. Take(strategy, c, list[n + 1], ts) = list[n + 1]
      BY <2>3 DEF Take
    <3>2. ASSUME NEW k \in I
          PROVE  /\ ~Beats(strategy, ts[list[k]], ts[list[n + 1]])
                 /\ Beats(strategy, ts[list[n + 1]], ts[list[k]])
      <4>1. /\ ts[list[k]] \in Int /\ ts[list[j]] \in Int /\ ts[list[n + 1]] \in Int
            /\ ~Beats(strategy, ts[list[k]], ts[list[j]])
            /\ Beats(strategy, ts[list[n + 1]], ts[list[j]])
        BY <1>1, <1>2, <2>1, <2>3
      <4>2. QED
        BY <4>1, BeatsIsAnOrder
    <3>3. ~Beats(strategy, ts[list[n + 1]], ts[list[n + 1]])
      BY <1>1, <1>2 DEF Beats
    <3>4. QED
      BY <3>1, <3>2, <3>3 DEF Best
  <2>4. CASE ~Beats(strategy, ts[list[n + 1]], ts[c])
    <3>1. Take(strategy, c, list[n + 1], ts) = list[j]
      BY <2>1, <2>2, <2>4 DEF Take
    <3>2. ~(n + 1 < j)
      BY <1>1
    <3>3. QED
      BY <2>1, <2>4, <3>1, <3>2 DEF Best
  <2>5. QED
    BY <2>3, <2>4
<1>5. QED
  BY <1>3, <1>4

\* One round keeps the invariant of the loop.
LEMMA RoundKeepsInv ==
    ASSUME NEW strategy, NEW S, NEW list, NEW ts, NEW answer, NEW deleteFirst,
           Given(S, list, ts, answer, deleteFirst),
           NEW n \in Nat, n < Len(list),
           NEW acc, LoopInv(strategy, deleteFirst, list, ts, answer, n, acc)
    PROVE  LoopInv(strategy, deleteFirst, list, ts, answer, n + 1,
                   Round(strategy, deleteFirst, acc, list[n + 1], ts, answer))
<1> DEFINE s == list[n + 1]
           next == Round(strategy, deleteFirst, acc, s, ts, answer)
           A(k) == AllowedPlaces(deleteFirst, list, answer, k)
<1>1. 1..(n + 1) = (1..n) \cup {n + 1}
  OBVIOUS
<1>2. PodMissing(deleteFirst, list, answer, n + 1) =
          (PodMissing(deleteFirst, list, answer, n) \/ (deleteFirst /\ answer[s] = "noPod"))
  BY <1>1 DEF PodMissing
<1>3. deleteFirst \in BOOLEAN /\ acc.failed \in BOOLEAN
  BY DEF Given, LoopInv, PodMissing
<1>4. CASE acc.failed
  BY <1>2, <1>3, <1>4 DEF LoopInv, Round
<1>5. CASE ~acc.failed
  <2>1. /\ next.any = Take(strategy, acc.any, s, ts)
        /\ next.allowed = IF deleteFirst /\ answer[s] = "yes"
                          THEN Take(strategy, acc.allowed, s, ts) ELSE acc.allowed
        /\ next.failed = (deleteFirst /\ answer[s] = "noPod")
    BY <1>5 DEF Round
  <2>2. next.failed = PodMissing(deleteFirst, list, answer, n + 1)
    BY <1>2, <1>5, <2>1 DEF LoopInv
  <2>3. Best(strategy, 1..(n + 1), list, ts, next.any)
    BY <1>1, <1>5, <2>1, TakeKeepsBest DEF LoopInv
  <2>4. Best(strategy, A(n + 1), list, ts, next.allowed)
    <3>1. A(n) \subseteq 1..n /\ Best(strategy, A(n), list, ts, acc.allowed)
      BY <1>5 DEF LoopInv, AllowedPlaces
    <3>2. CASE deleteFirst /\ answer[s] = "yes"
      <4>1. A(n + 1) = A(n) \cup {n + 1}
        BY <1>1, <3>2 DEF AllowedPlaces
      <4> HIDE DEF A
      <4>2. QED
        BY <2>1, <3>1, <3>2, <4>1, TakeKeepsBest
    <3>3. CASE ~(deleteFirst /\ answer[s] = "yes")
      <4>1. A(n + 1) = A(n)
        BY <1>1, <3>3 DEF AllowedPlaces
      <4>2. QED
        BY <2>1, <3>1, <3>3, <4>1
    <3>4. QED
      BY <3>2, <3>3
  <2> HIDE DEF next
  <2>5. QED
    BY <2>2, <2>3, <2>4 DEF LoopInv, next
<1>6. QED
  BY <1>4, <1>5

\* After all rounds the candidates are the best of the whole list.
LEMMA LoopComputes ==
    ASSUME NEW strategy, NEW S, NEW list, NEW ts, NEW answer, NEW deleteFirst,
           Given(S, list, ts, answer, deleteFirst)
    PROVE  LoopInv(strategy, deleteFirst, list, ts, answer, Len(list),
                   Rounds(strategy, deleteFirst, list, ts, answer)[Len(list)])
<1> DEFINE acc == Rounds(strategy, deleteFirst, list, ts, answer)
           Inv(k) == LoopInv(strategy, deleteFirst, list, ts, answer, k, acc[k])
           T == {k \in 0..Len(list) : Inv(k)}
<1>1. Len(list) \in Nat
  BY DEF Given
<1>2. /\ acc[0] = NoCandidates
      /\ \A i \in 1..Len(list) :
            acc[i] = Round(strategy, deleteFirst, acc[i - 1], list[i], ts, answer)
  BY <1>1, RoundsUnfold
<1> HIDE DEF acc
<1>3. Inv(0)
  <2>1. acc[0].any = NoChoice /\ acc[0].allowed = NoChoice /\ acc[0].failed = FALSE
    BY <1>2 DEF NoCandidates
  <2>2. 1..0 = {} /\ AllowedPlaces(deleteFirst, list, answer, 0) = {}
    BY DEF AllowedPlaces
  <2>3. PodMissing(deleteFirst, list, answer, 0) = FALSE
    BY <2>2 DEF PodMissing
  <2>4. QED
    BY <2>1, <2>2, <2>3 DEF LoopInv, Best
<1>4. ASSUME NEW k \in 0..Len(list), k \in T, k < Len(list)
      PROVE  k + 1 \in T
  <2>1. k \in Nat /\ k + 1 \in 1..Len(list) /\ (k + 1) - 1 = k /\ k + 1 \in 0..Len(list)
    BY <1>1, <1>4
  <2>2. acc[k + 1] = Round(strategy, deleteFirst, acc[k], list[k + 1], ts, answer)
    BY <1>2, <2>1
  <2>3. Inv(k + 1)
    BY <1>4, <2>1, <2>2, RoundKeepsInv
  <2>4. QED
    BY <2>1, <2>3
<1>5. 0 \in T
  BY <1>1, <1>3
<1> HIDE DEF T
<1>6. \A k \in 0..Len(list) : k \in T
  BY <1>1, <1>4, <1>5, UpTo
<1>7. QED
  BY <1>1, <1>6 DEF T, acc

-----------------------------------------------------------------------------
(* From places in the list to sets of servers *)

\* The servers at the places I of the list.
At(list, I) == {list[i] : i \in I}

\* The best candidate of the places I is the first, in the order of the list,
\* of the servers there that go first.
LEMMA BestIsFirst ==
    ASSUME NEW strategy, NEW S, NEW list, NEW ts, NEW answer, NEW deleteFirst,
           Given(S, list, ts, answer, deleteFirst),
           NEW I, I \subseteq 1..Len(list), I # {},
           NEW c, Best(strategy, I, list, ts, c)
    PROVE  LET first == First(strategy, At(list, I), ts) IN
           /\ c \in first /\ c # NoChoice
           /\ \A i, j \in DOMAIN list : list[i] \in first /\ list[j] = c => j <= i
<1> DEFINE first == First(strategy, At(list, I), ts)
<1>1. /\ DOMAIN list = 1..Len(list) /\ Len(list) \in Nat
      /\ \A k \in 1..Len(list) : list[k] \in S /\ ts[list[k]] \in Int /\ list[k] # NoChoice
      /\ \A i, j \in 1..Len(list) : list[i] = list[j] => i = j
  <2>1. DOMAIN list = 1..Len(list) /\ Len(list) \in Nat
    BY DEF Given
  <2>2. \A k \in 1..Len(list) : list[k] \in S
    BY DEF Given
  <2>3. \A t \in S : ts[t] \in Int /\ t # NoChoice
    BY DEF Given
  <2>4. \A i, j \in DOMAIN list : i # j => list[i] # list[j]
    BY DEF Given
  <2>5. QED
    BY <2>1, <2>2, <2>3, <2>4
<1>2. PICK j \in I : /\ c = list[j]
                     /\ \A k \in I : ~Beats(strategy, ts[list[k]], ts[list[j]])
                     /\ \A k \in I : k < j => Beats(strategy, ts[list[j]], ts[list[k]])
  BY DEF Best
<1>3. c \in first
  <2>1. ASSUME NEW k \in I
        PROVE  IF strategy = "oldest_first" THEN ts[c] <= ts[list[k]] ELSE ts[c] >= ts[list[k]]
    <3>1. ts[list[k]] \in Int /\ ts[c] \in Int /\ ~Beats(strategy, ts[list[k]], ts[c])
      BY <1>1, <1>2
    <3>2. QED
      BY <3>1 DEF Beats
  <2>2. QED
    BY <1>2, <2>1 DEF First, At
<1>4. ASSUME NEW i \in DOMAIN list, list[i] \in first
      PROVE  j <= i
  <2>1. PICK k \in I : list[i] = list[k]
    BY <1>4 DEF First, At
  <2>2. i = k
    BY <1>1, <2>1
  <2>3. ts[list[i]] \in Int /\ ts[list[j]] \in Int
    BY <1>1, <1>2
  <2>4. ~Beats(strategy, ts[list[j]], ts[list[i]])
    <3>1. IF strategy = "oldest_first" THEN ts[list[i]] <= ts[list[j]] ELSE ts[list[i]] >= ts[list[j]]
      BY <1>4 DEF First, At
    <3>2. QED
      BY <2>3, <3>1 DEF Beats
  <2>5. ~(i < j)
    BY <1>2, <2>2, <2>4
  <2>6. QED
    BY <1>1, <2>2, <2>5
<1>5. ASSUME NEW i \in DOMAIN list, NEW k \in DOMAIN list, list[i] \in first, list[k] = c
      PROVE  k <= i
  BY <1>1, <1>2, <1>4, <1>5
<1>6. QED
  BY <1>1, <1>2, <1>3, <1>5

\* getOldestServer and getNewestServer fail, and choose, as they should.
LEMMA LoopIsCorrect ==
    ASSUME NEW strategy \in {"oldest_first", "newest_first"},
           NEW S, NEW list, NEW ts, NEW answer, NEW deleteFirst,
           Given(S, list, ts, answer, deleteFirst)
    PROVE  LET listed == {list[i] : i \in DOMAIN list}
               result == Loop(strategy, deleteFirst, list, ts, answer)
               best == Eligible(strategy, deleteFirst, listed, ts, answer)
           IN  IF ChoiceFails(strategy, deleteFirst, listed, answer) THEN result = NoChoice
               ELSE /\ result \in best
                    /\ \A i, j \in DOMAIN list : list[i] \in best /\ list[j] = result => j <= i
<1> DEFINE listed == {list[i] : i \in DOMAIN list}
           result == Loop(strategy, deleteFirst, list, ts, answer)
           best == Eligible(strategy, deleteFirst, listed, ts, answer)
           end == Rounds(strategy, deleteFirst, list, ts, answer)[Len(list)]
           n == Len(list)
           A == AllowedPlaces(deleteFirst, list, answer, n)
           allowed == {s \in listed : deleteFirst /\ answer[s] = "yes"}
<1>1. LoopInv(strategy, deleteFirst, list, ts, answer, n, end)
  BY LoopComputes
<1>2. DOMAIN list = 1..n /\ n \in Nat
  BY DEF Given
<1>3. result = IF end.failed \/ end.any = NoChoice THEN NoChoice
               ELSE IF end.allowed # NoChoice THEN end.allowed ELSE end.any
  BY DEF Loop
<1> HIDE DEF end, result
<1>4. ChoiceFails(strategy, deleteFirst, listed, answer) <=> end.failed \/ n = 0
  <2>1. listed = {} <=> n = 0
    <3>1. n = 0 => 1..n = {}
      OBVIOUS
    <3>2. n # 0 => 1 \in 1..n
      BY <1>2
    <3>3. QED
      BY <1>2, <3>1, <3>2
  <2>2. (\E s \in listed : answer[s] = "noPod") <=> (\E j \in 1..n : answer[list[j]] = "noPod")
    BY <1>2
  <2>3. end.failed <=> deleteFirst /\ \E j \in 1..n : answer[list[j]] = "noPod"
    BY <1>1 DEF LoopInv, PodMissing
  <2> HIDE DEF listed, n
  <2>4. QED
    BY <2>1, <2>2, <2>3 DEF ChoiceFails
<1>5. ASSUME end.failed \/ n = 0
      PROVE  result = NoChoice
  <2>1. CASE end.failed
    BY <1>3, <2>1
  <2>2. CASE ~end.failed /\ n = 0
    <3>1. 1..n = {}
      BY <2>2
    <3>2. end.any = NoChoice
      BY <1>1, <2>2, <3>1 DEF LoopInv, Best
    <3>3. QED
      BY <1>3, <3>2
  <2>3. QED
    BY <1>5, <2>1, <2>2
<1>6. ASSUME ~end.failed, n # 0
      PROVE  /\ result \in best
             /\ \A i, j \in DOMAIN list : list[i] \in best /\ list[j] = result => j <= i
  <2>1. Best(strategy, 1..n, list, ts, end.any) /\ Best(strategy, A, list, ts, end.allowed)
    BY <1>1, <1>6 DEF LoopInv
  <2>2. 1..n # {} /\ listed = At(list, 1..n)
    BY <1>2, <1>6 DEF At
  <2>3. allowed = At(list, A) /\ A \subseteq 1..n
    BY <1>2 DEF AllowedPlaces, At
  <2>4. best = First(strategy, IF allowed # {} THEN allowed ELSE listed, ts)
    BY DEF Eligible
  <2> HIDE DEF A, allowed, listed, best
  <2>5. end.any # NoChoice
    BY <2>1, <2>2, BestIsFirst
  <2>6. CASE A # {}
    <3>1. allowed # {}
      BY <2>3, <2>6 DEF At
    <3>2. end.allowed # NoChoice
      BY <2>1, <2>3, <2>6, BestIsFirst
    <3>3. result = end.allowed
      BY <1>3, <1>6, <2>5, <3>2
    <3>4. best = First(strategy, At(list, A), ts)
      BY <2>3, <2>4, <3>1
    <3>5. LET first == First(strategy, At(list, A), ts) IN
          /\ end.allowed \in first
          /\ \A i, j \in DOMAIN list : list[i] \in first /\ list[j] = end.allowed => j <= i
      BY <2>1, <2>3, <2>6, BestIsFirst
    <3>6. QED
      BY <3>3, <3>4, <3>5
  <2>7. CASE A = {}
    <3>1. allowed = {}
      BY <2>3, <2>7 DEF At
    <3>2. end.allowed = NoChoice
      BY <2>1, <2>7 DEF Best
    <3>3. result = end.any
      BY <1>3, <1>6, <2>5, <3>2
    <3>4. best = First(strategy, At(list, 1..n), ts)
      BY <2>2, <2>4, <3>1
    <3>5. LET first == First(strategy, At(list, 1..n), ts) IN
          /\ end.any \in first
          /\ \A i, j \in DOMAIN list : list[i] \in first /\ list[j] = end.any => j <= i
      BY <2>1, <2>2, BestIsFirst
    <3>6. QED
      BY <3>3, <3>4, <3>5
  <2>8. QED
    BY <2>6, <2>7
<1>7. QED
  BY <1>4, <1>5, <1>6 DEF result

\* For every list of distinct servers, of any length, with any timestamps and
\* any answers of the sidecars, and for every AgePriority, known or not,
\* FindDeleteServer fails exactly when it must and otherwise returns the first
\* in the list of the servers that are to go first.
THEOREM FindDeleteServerCorrect ==
    ASSUME NEW strategy, NEW S, NEW list, NEW ts, NEW answer, NEW deleteFirst,
           Given(S, list, ts, answer, deleteFirst)
    PROVE  ChoiceIsCorrect(strategy, deleteFirst, list, ts, answer)
<1>1. CASE strategy = "oldest_first"
  BY <1>1, LoopIsCorrect DEF ChoiceIsCorrect, FindDeleteServer, getOldestServer
<1>2. CASE strategy = "newest_first"
  BY <1>2, LoopIsCorrect DEF ChoiceIsCorrect, FindDeleteServer, getNewestServer
<1>3. CASE strategy \notin {"oldest_first", "newest_first"}
  BY <1>3 DEF ChoiceIsCorrect, ChoiceFails, FindDeleteServer
<1>4. QED
  BY <1>1, <1>2, <1>3
=============================================================================
