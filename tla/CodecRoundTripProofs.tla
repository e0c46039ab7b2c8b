------------------------- MODULE CodecRoundTripProofs -------------------------
(***************************************************************************)
(* The round trip of Message::Writer and Message::Reader: a decode that    *)
(* returns normally and reads every Reader to its end returns exactly the  *)
(* sequence of basic values that were written (CompleteRead), for every    *)
(* set of basic types and every bound on length and nesting.               *)
(*                                                                         *)
(* MessageCodecProofs shows that such a decode has read an increasing      *)
(* sequence of positions holding exactly the basic positions of the body.  *)
(* What is left is about sequences: BasicPositions, the recursion          *)
(* BasicsUpTo, is such a sequence too, and there is only one.  Both are    *)
(* inductions over positions, done here as arguments on a least           *)
(* counterexample, which WFMin provides for the naturals.                  *)
(***************************************************************************)
EXTENDS MessageCodecProofs, WellFoundedInduction

(* The values a sequence holds.                                            *)
Elems(s) == {s[j] : j \in 1..Len(s)}

(* A sequence in strictly increasing order.                                *)
Increasing(s) == \A j, k \in 1..Len(s) : j < k => s[j] < s[k]

(* One step of BasicsUpTo's recursion, for a candidate function F.        *)
BStep(bd, F, i) ==
    IF i = 0 THEN << >>
    ELSE IF bd[i].kind = "basic" THEN Append(F[i - 1], i)
    ELSE F[i - 1]

(* What BasicsUpTo(bd)[n] is: the basic positions up to n, in order.       *)
UpToProps(bd, n) ==
    /\ BasicsUpTo(bd)[n] \in Seq(Nat)
    /\ Increasing(BasicsUpTo(bd)[n])
    /\ Elems(BasicsUpTo(bd)[n]) = {i \in 1..n : bd[i].kind = "basic"}

-----------------------------------------------------------------------------
(* Every non-empty set of naturals has a least element.                   *)
LEMMA NatMin ==
    ASSUME NEW T \in SUBSET Nat, T # {}
    PROVE  \E x \in T : \A y \in T : x <= y
<1>1. PICK x \in T : \A y \in T : ~(<<y, x>> \in OpToRel(<, Nat))
  BY WFMin, NatLessThanWellFounded
<1>2. ASSUME NEW y \in T PROVE x <= y
  <2>1. SUFFICES ASSUME y < x PROVE FALSE
    OBVIOUS
  <2>2. <<y, x>> \in OpToRel(<, Nat)
    BY <2>1 DEF OpToRel
  <2> QED
    BY <1>1, <2>2
<1> QED
  BY <1>2

(* BasicsUpTo is well defined: a function on 0..Len(bd) that satisfies  *)
(* its recursion exists, so the one TLA+ chooses satisfies it.            *)
LEMMA BasicsUpToDef ==
    ASSUME NEW bd \in Seq(Tokens)
    PROVE  BasicsUpTo(bd) = [i \in 0..Len(bd) |-> BStep(bd, BasicsUpTo(bd), i)]
<1> DEFINE L == Len(bd)
           P(n) == \E G \in [0..n -> Seq(Nat)] : \A i \in 0..n : G[i] = BStep(bd, G, i)
<1>1. L \in Nat
  OBVIOUS
<1>2. \A n \in 0..L : P(n)
  <2> DEFINE T == {n \in 0..L : ~P(n)}
  <2>1. SUFFICES ASSUME T # {} PROVE FALSE
    OBVIOUS
  <2>0. T \in SUBSET Nat
    OBVIOUS
  <2> HIDE DEF T
  <2>2. PICK n \in T : \A m \in T : n <= m
    BY <2>0, <2>1, NatMin
  <2>3. CASE n = 0
    <3> DEFINE G == [i \in 0..0 |-> << >>]
    <3>1. G \in [0..0 -> Seq(Nat)] /\ \A i \in 0..0 : G[i] = BStep(bd, G, i)
      BY DEF BStep
    <3>2. P(0)
      BY <3>1
    <3> QED
      BY <2>2, <2>3, <3>2 DEF T
  <2>4. CASE n # 0
    <3>0. n \in 1..L
      BY <2>4 DEF T
    <3>1. n - 1 \in 0..L /\ n - 1 \notin T
      BY <2>2, <3>0
    <3>2. PICK G \in [0..n - 1 -> Seq(Nat)] : \A i \in 0..n - 1 : G[i] = BStep(bd, G, i)
      BY <3>1 DEF T
    <3> DEFINE H == [i \in 0..n |-> IF i < n THEN G[i] ELSE BStep(bd, G, n)]
    <3>3. BStep(bd, G, n) \in Seq(Nat) /\ BStep(bd, H, n) = BStep(bd, G, n)
      <4>1. G[n - 1] \in Seq(Nat) /\ H[n - 1] = G[n - 1]
        BY <3>0, <3>2
      <4>2. Append(G[n - 1], n) \in Seq(Nat)
        BY <3>0, <4>1
      <4> QED
        BY <3>0, <4>1, <4>2 DEF BStep
    <3>4. ASSUME NEW i \in 0..n - 1 PROVE BStep(bd, H, i) = BStep(bd, G, i)
      <4>1. CASE i = 0
        BY <4>1 DEF BStep
      <4>2. CASE i # 0
        <5>1. H[i - 1] = G[i - 1]
          BY <3>0, <4>2
        <5> HIDE DEF H
        <5> QED
          BY <4>2, <5>1 DEF BStep
      <4> QED
        BY <4>1, <4>2
    <3>5. H \in [0..n -> Seq(Nat)]
      BY <3>0, <3>2, <3>3
    <3>6. ASSUME NEW i \in 0..n PROVE H[i] = BStep(bd, H, i)
      <4>1. CASE i < n
        <5>1. i \in 0..n - 1 /\ H[i] = G[i]
          BY <3>0, <4>1
        <5> QED
          BY <5>1, <3>2, <3>4
      <4>2. CASE i = n
        BY <4>2, <3>3
      <4> QED
        BY <3>0, <4>1, <4>2
    <3>7. P(n)
      <4> HIDE DEF H
      <4> QED
        BY <3>5, <3>6
    <3> QED
      BY <2>2, <3>7 DEF T
  <2> QED
    BY <2>3, <2>4
<1>3. PICK G \in [0..L -> Seq(Nat)] : \A i \in 0..L : G[i] = BStep(bd, G, i)
  <2>1. P(L)
    <3> HIDE DEF P
    <3> QED
      BY <1>1, <1>2
  <2> QED
    BY <2>1
<1>4. G = [i \in 0..L |-> BStep(bd, G, i)]
  BY <1>3
<1> QED
  BY <1>4 DEF BasicsUpTo, BStep

(* BasicsUpTo unfolds one position at a time.                             *)
LEMMA BasicsUpToStep ==
    ASSUME NEW bd \in Seq(Tokens), NEW n \in 1..Len(bd)
    PROVE  /\ bd[n].kind = "basic" => BasicsUpTo(bd)[n] = Append(BasicsUpTo(bd)[n - 1], n)
           /\ bd[n].kind # "basic" => BasicsUpTo(bd)[n] = BasicsUpTo(bd)[n - 1]
<1>1. BasicsUpTo(bd)[n] = BStep(bd, BasicsUpTo(bd), n)
  BY BasicsUpToDef
<1> QED
  BY <1>1 DEF BStep

(* BasicsUpTo(bd)[n] is the increasing sequence of the basic positions up *)
(* n, for every n: an induction over n, on its least counterexample.      *)
LEMMA BasicsUpToProps ==
    ASSUME NEW bd \in Seq(Tokens)
    PROVE  \A n \in 0..Len(bd) : UpToProps(bd, n)
<1> DEFINE L == Len(bd)
           T == {n \in 0..L : ~UpToProps(bd, n)}
<1>1. SUFFICES ASSUME T # {} PROVE FALSE
  OBVIOUS
<1>2. T \in SUBSET Nat
  OBVIOUS
<1> HIDE DEF T
<1>3. PICK n \in T : \A m \in T : n <= m
  BY <1>1, <1>2, NatMin
<1>4. n \in 0..L /\ ~UpToProps(bd, n)
  BY <1>3 DEF T
<1>5. CASE n = 0
  <2>1. BasicsUpTo(bd)[0] = << >>
    BY BasicsUpToDef DEF BStep
  <2>2. UpToProps(bd, 0)
    BY <2>1 DEF UpToProps, Increasing, Elems
  <2> QED
    BY <1>4, <1>5, <2>2
<1>6. CASE n # 0
  <2>1. n \in 1..L /\ n - 1 \in 0..L /\ n - 1 \notin T
    BY <1>3, <1>4, <1>6
  <2>2. UpToProps(bd, n - 1)
    BY <2>1 DEF T
  <2> DEFINE U == BasicsUpTo(bd)[n - 1]
  <2>3. U \in Seq(Nat) /\ Increasing(U)
        /\ Elems(U) = {i \in 1..n - 1 : bd[i].kind = "basic"}
    BY <2>2 DEF UpToProps
  <2>4. \A j \in 1..Len(U) : U[j] \in 1..n - 1
    BY <2>3 DEF Elems
  <2>5. CASE bd[n].kind = "basic"
    <3>1. BasicsUpTo(bd)[n] = Append(U, n)
      BY <2>1, <2>5, BasicsUpToStep
    <3>2. /\ Append(U, n) \in Seq(Nat) /\ Len(Append(U, n)) = Len(U) + 1
          /\ \A j \in 1..Len(U) : Append(U, n)[j] = U[j]
          /\ Append(U, n)[Len(U) + 1] = n
      <4> HIDE DEF U
      <4> QED
        BY <2>1, <2>3, AppendProperties
    <3>3. Increasing(Append(U, n))
      <4> HIDE DEF U
      <4> SUFFICES ASSUME NEW j \in 1..Len(U) + 1, NEW k \in 1..Len(U) + 1, j < k
                   PROVE  Append(U, n)[j] < Append(U, n)[k]
        BY <3>2 DEF Increasing
      <4>1. j \in 1..Len(U) /\ Append(U, n)[j] = U[j]
        BY <2>3, <3>2
      <4>2. CASE k <= Len(U)
        <5>1. Append(U, n)[k] = U[k] /\ U[j] < U[k]
          BY <2>3, <3>2, <4>1, <4>2 DEF Increasing
        <5> QED
          BY <4>1, <5>1
      <4>3. CASE k = Len(U) + 1
        BY <2>1, <2>4, <3>2, <4>1, <4>3
      <4> QED
        BY <2>3, <4>2, <4>3
    <3>4. Elems(Append(U, n)) = {i \in 1..n : bd[i].kind = "basic"}
      <4>1. Elems(Append(U, n)) = Elems(U) \cup {n}
        <5> HIDE DEF U
        <5> QED
          BY <2>3, <3>2 DEF Elems
      <4> QED
        BY <2>1, <2>3, <2>5, <4>1
    <3> QED
      BY <1>4, <3>1, <3>2, <3>3, <3>4 DEF UpToProps
  <2>6. CASE bd[n].kind # "basic"
    <3>1. BasicsUpTo(bd)[n] = U
      BY <2>1, <2>6, BasicsUpToStep
    <3>2. {i \in 1..n : bd[i].kind = "basic"} = {i \in 1..n - 1 : bd[i].kind = "basic"}
      BY <2>1, <2>6
    <3> QED
      BY <1>4, <2>3, <3>1, <3>2 DEF UpToProps
  <2> QED
    BY <2>5, <2>6
<1> QED
  BY <1>5, <1>6

(* A sequence that increases from each element to the next is increasing. *)
LEMMA AdjacentIncreasing ==
    ASSUME NEW s \in Seq(Nat), \A i \in 1..Len(s) - 1 : s[i] < s[i + 1]
    PROVE  Increasing(s)
<1> SUFFICES ASSUME NEW j \in 1..Len(s), NEW k \in 1..Len(s), j < k PROVE s[j] < s[k]
  BY DEF Increasing
<1> DEFINE T == {m \in 1..Len(s) : j < m /\ ~(s[j] < s[m])}
<1>1. SUFFICES ASSUME T # {} PROVE FALSE
  OBVIOUS
<1>2. T \in SUBSET Nat
  OBVIOUS
<1> HIDE DEF T
<1>3. PICK m \in T : \A m2 \in T : m <= m2
  BY <1>1, <1>2, NatMin
<1>4. m \in 1..Len(s) /\ j < m /\ ~(s[j] < s[m])
  BY <1>3 DEF T
<1>5. CASE m = j + 1
  BY <1>4, <1>5
<1>6. CASE m # j + 1
  <2>1. m - 1 \in 1..Len(s) /\ j < m - 1 /\ m - 1 \notin T
    BY <1>3, <1>4, <1>6
  <2>2. s[j] < s[m - 1] /\ s[m - 1] < s[m]
    BY <1>4, <2>1 DEF T
  <2> QED
    BY <1>4, <2>1, <2>2
<1> QED
  BY <1>5, <1>6

(* Two increasing sequences of naturals holding the same values agree up  *)
(* to the shorter one's length.                                           *)
LEMMA IncreasingPrefix ==
    ASSUME NEW s \in Seq(Nat), NEW t \in Seq(Nat), Increasing(s), Increasing(t),
           Elems(s) = Elems(t)
    PROVE  \A k \in 1..Len(s) : k \in 1..Len(t) => s[k] = t[k]
<1> DEFINE Bad == {k \in 1..Len(s) : k \in 1..Len(t) /\ s[k] # t[k]}
<1>1. SUFFICES ASSUME Bad # {} PROVE FALSE
  OBVIOUS
<1>2. Bad \in SUBSET Nat
  OBVIOUS
<1> HIDE DEF Bad
<1>3. PICK k \in Bad : \A k2 \in Bad : k <= k2
  <2>1. \E x \in Bad : \A y \in Bad : x <= y
    BY <1>1, <1>2, NatMin
  <2> QED
    BY <2>1
<1>4. k \in 1..Len(s) /\ k \in 1..Len(t) /\ s[k] # t[k]
  BY <1>3 DEF Bad
<1>5. ASSUME NEW i \in 1..k - 1 PROVE s[i] = t[i]
  <2>1. i \in 1..Len(s) /\ i \in 1..Len(t)
    BY <1>4
  <2>2. i \notin Bad
    BY <1>3, <1>4
  <2> QED
    BY <2>1, <2>2 DEF Bad
<1>6. s[k] \in Nat /\ t[k] \in Nat
  BY <1>4
<1>7. t[k] <= s[k]
  <2>1. s[k] \in Elems(t)
    <3>1. s[k] \in Elems(s)
      BY <1>4 DEF Elems
    <3> QED
      BY <3>1
  <2>2. PICK i \in 1..Len(t) : t[i] = s[k]
    BY <2>1 DEF Elems
  <2>3. CASE i < k
    <3>1. i \in 1..Len(s) /\ s[i] = t[i]
      BY <1>4, <1>5, <2>3
    <3>2. s[i] < s[k]
      BY <1>4, <2>3, <3>1 DEF Increasing
    <3> QED
      BY <2>2, <3>1, <3>2
  <2>4. CASE k <= i
    <3>1. CASE k = i
      BY <1>6, <2>2, <3>1
    <3>2. CASE k < i
      <4>1. t[k] < t[i]
        BY <1>4, <3>2 DEF Increasing
      <4> QED
        BY <1>6, <2>2, <4>1
    <3> QED
      BY <1>4, <2>2, <2>4, <3>1, <3>2
  <2> QED
    BY <1>4, <2>2, <2>3, <2>4
<1>8. s[k] <= t[k]
  <2>1. t[k] \in Elems(s)
    <3>1. t[k] \in Elems(t)
      BY <1>4 DEF Elems
    <3> QED
      BY <3>1
  <2>2. PICK i \in 1..Len(s) : s[i] = t[k]
    BY <2>1 DEF Elems
  <2>3. CASE i < k
    <3>1. i \in 1..Len(t) /\ s[i] = t[i]
      BY <1>4, <1>5, <2>3
    <3>2. t[i] < t[k]
      BY <1>4, <2>3, <3>1 DEF Increasing
    <3> QED
      BY <2>2, <3>1, <3>2
  <2>4. CASE k <= i
    <3>1. CASE k = i
      BY <1>6, <2>2, <3>1
    <3>2. CASE k < i
      <4>1. s[k] < s[i]
        BY <1>4, <3>2 DEF Increasing
      <4> QED
        BY <1>6, <2>2, <4>1
    <3> QED
      BY <1>4, <2>2, <2>4, <3>1, <3>2
  <2> QED
    BY <1>4, <2>2, <2>3, <2>4
<1> QED
  BY <1>4, <1>6, <1>7, <1>8

(* There is only one increasing sequence of naturals holding a given set.  *)
LEMMA IncreasingUnique ==
    ASSUME NEW s \in Seq(Nat), NEW t \in Seq(Nat), Increasing(s), Increasing(t),
           Elems(s) = Elems(t)
    PROVE  s = t
<1>1. \A k \in 1..Len(s) : k \in 1..Len(t) => s[k] = t[k]
  BY IncreasingPrefix
<1>2. \A k \in 1..Len(t) : k \in 1..Len(s) => t[k] = s[k]
  BY IncreasingPrefix
<1>3. ~(Len(s) < Len(t))
  <2>1. SUFFICES ASSUME Len(s) < Len(t) PROVE FALSE
    OBVIOUS
  <2> DEFINE x == t[Len(s) + 1]
  <2>2. x \in Elems(s)
    <3>1. x \in Elems(t)
      BY <2>1 DEF Elems
    <3> QED
      BY <3>1
  <2>3. PICK i \in 1..Len(s) : s[i] = x
    BY <2>2 DEF Elems
  <2>4. s[i] = t[i]
    BY <1>1, <2>1
  <2>5. t[i] < x
    <3>1. i \in 1..Len(t) /\ Len(s) + 1 \in 1..Len(t) /\ i < Len(s) + 1
      BY <2>1
    <3>2. \A j, k \in 1..Len(t) : j < k => t[j] < t[k]
      BY DEF Increasing
    <3> QED
      BY <3>1, <3>2
  <2> QED
    BY <2>3, <2>4, <2>5
<1>4. ~(Len(t) < Len(s))
  <2>1. SUFFICES ASSUME Len(t) < Len(s) PROVE FALSE
    OBVIOUS
  <2> DEFINE x == s[Len(t) + 1]
  <2>2. x \in Elems(t)
    <3>1. x \in Elems(s)
      BY <2>1 DEF Elems
    <3> QED
      BY <3>1
  <2>3. PICK i \in 1..Len(t) : t[i] = x
    BY <2>2 DEF Elems
  <2>4. t[i] = s[i]
    BY <1>2, <2>1
  <2>5. s[i] < x
    <3>1. i \in 1..Len(s) /\ Len(t) + 1 \in 1..Len(s) /\ i < Len(t) + 1
      BY <2>1
    <3>2. \A j, k \in 1..Len(s) : j < k => s[j] < s[k]
      BY DEF Increasing
    <3> QED
      BY <3>1, <3>2
  <2> QED
    BY <2>3, <2>4, <2>5
<1>5. Len(s) = Len(t)
  BY <1>3, <1>4
<1> QED
  BY <1>1, <1>5, SeqEqual

-----------------------------------------------------------------------------
(* Round trip: a decode that pops through the whole message without       *)
(* dropping a Reader early and returns normally has read exactly the      *)
(* basic values the push_* calls wrote, in the order they were written    *)
(* (CompleteRead), whatever the nesting of structures, arrays and         *)
(* variants, the set of basic types and the bounds.                       *)
THEOREM RoundTrip == CSpec => []CompleteRead
<1>1. CInit => RInv
  BY CInvInit DEF CInit, RInv, ReadSoFar, ReadAllBasics
<1>2. RInv => CompleteRead
  <2> SUFFICES ASSUME RInv, phase = "done", outcome = "ok", ~skipped
               PROVE  decoded = BasicPositions
    BY DEF CompleteRead
  <2> DEFINE L == Len(body)
  <2>1. body \in Seq(Tokens) /\ decoded \in Seq(Nat) /\ ReadInOrder
        /\ ReadPositions = BasicsBefore(L + 1)
    BY DEF RInv, CInv, CTypeOK, ReadAllBasics
  <2>2. Elems(decoded) = {i \in 1..L : body[i].kind = "basic"}
    BY <2>1 DEF Elems, ReadPositions, BasicsBefore
  <2>3. Increasing(decoded)
    BY <2>1, AdjacentIncreasing DEF ReadInOrder
  <2>4. UpToProps(body, L)
    BY <2>1, BasicsUpToProps
  <2>5. BasicPositions \in Seq(Nat) /\ Increasing(BasicPositions)
        /\ Elems(BasicPositions) = {i \in 1..L : body[i].kind = "basic"}
    BY <2>4 DEF UpToProps, BasicPositions
  <2> QED
    BY <2>1, <2>2, <2>3, <2>5, IncreasingUnique
<1> QED
  BY <1>1, <1>2, RInvStep, PTL DEF CSpec
=====
