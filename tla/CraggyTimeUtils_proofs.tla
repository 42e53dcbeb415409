------------------------ MODULE CraggyTimeUtils_proofs ------------------------
(***************************************************************************)
(* Proofs about craggy_roughtimeToEpoc for every word size and every value *)
(* of the day constants that satisfy ConstantsAssumption.                  *)
(***************************************************************************)
EXTENDS CraggyTimeUtils, TLAPS

\* The assumptions on the constants, without the overflow bound.
LEMMA Consts ==
    /\ Word \in Nat \ {0}
    /\ DayUnit \in 1..Word
    /\ Word % DayUnit = 0
    /\ JulianDaysUntilEpoch \in Nat
    /\ JulianDaysUntilEpoch < Word \div DayUnit
    /\ SecondsInADay \in Nat \ {0}
    /\ MicrosecondsInSecond \in Nat \ {0}
    /\ RoundTrips \subseteq Uint
BY ConstantsAssumption

\* The overflow bound, stated on its own.
LEMMA Bound ==
    /\ 2 * DayUnit <= Word
    /\ (Word \div DayUnit - 1 - JulianDaysUntilEpoch) * SecondsInADay
         + (DayUnit - 1 + (Word - 1) \div 2) \div MicrosecondsInSecond < Word
BY ConstantsAssumption DEF NoOverflowBound

(***************************************************************************)
(* The conversion always yields a uint64_t.                                *)
(***************************************************************************)
LEMMA ConvertInRange ==
    ASSUME NEW t \in Uint, NEW r \in Uint
    PROVE  RoughtimeToEpoc(t, r) \in Uint
BY Consts DEF RoughtimeToEpoc, Uint

(***************************************************************************)
(* Every step keeps the values in range.                                   *)
(***************************************************************************)
LEMMA TypeStep == TypeOK /\ [Next]_vars => TypeOK'
<1> SUFFICES ASSUME TypeOK, [Next]_vars PROVE TypeOK'
  OBVIOUS
<1>1. CASE Convert
  BY <1>1, ConvertInRange, Consts DEF Convert, TypeOK, Uint
<1>2. CASE Returned \/ UNCHANGED vars
  BY <1>2 DEF Returned, vars, TypeOK
<1>3. QED
  BY <1>1, <1>2 DEF Next

\* Below a multiple w of d, the quotient by d is below w's quotient.
LEMMA DivBelowMultiple ==
    ASSUME NEW n \in Nat, NEW d \in Nat \ {0}, NEW w \in Nat,
           w % d = 0, n < w
    PROVE  n \div d < w \div d
<1> DEFINE k == n \div d
           q == w \div d
<1>1. w = q * d /\ k * d <= n /\ k \in Nat /\ q \in Nat
  OBVIOUS
<1> HIDE DEF k, q
<1>2. k * d < q * d
  BY <1>1
<1>3. k < q
  BY <1>2, <1>1
<1>4. QED
  BY <1>3 DEF k, q

(***************************************************************************)
(* For a timestamp at or after the epoch, each uint64_t intermediate of    *)
(* craggy_roughtimeToEpoc stays below the word, so no reduction modulo the *)
(* word changes it and the result is the integer conversion.              *)
(***************************************************************************)
LEMMA ConvertExact ==
    ASSUME NEW t \in Uint, NEW r \in Uint,
           t \div DayUnit >= JulianDaysUntilEpoch
    PROVE  RoughtimeToEpoc(t, r) = EpochSeconds(t, r)
<1> DEFINE D == t \div DayUnit - JulianDaysUntilEpoch
           M == Word \div DayUnit - 1 - JulianDaysUntilEpoch
           U == (t % DayUnit) + r \div 2
           B == DayUnit - 1 + (Word - 1) \div 2
<1>1. t \div DayUnit <= Word \div DayUnit - 1
  BY DivBelowMultiple, Consts DEF Uint
<1>2. D \in 0..M
  <2>1. t \div DayUnit \in Int
    BY Consts DEF Uint
  <2> HIDE DEF Uint
  <2>2. QED
    BY <1>1, <2>1, Consts
<1>3. M < Word
  BY Consts
<1>4. D % Word = D
  BY <1>2, <1>3, Consts
<1>5. D * SecondsInADay <= M * SecondsInADay
  BY <1>2, Consts
<1>6. U \in 0..B
  <2>1. t % DayUnit \in 0..(DayUnit - 1)
    BY Consts DEF Uint
  <2>2. r \div 2 \in 0..((Word - 1) \div 2)
    BY Consts DEF Uint
  <2>3. QED
    BY <2>1, <2>2, Consts
<1>7. B < Word
  BY Consts, Bound
<1>8. U % Word = U
  BY <1>6, <1>7, Consts
<1>9. U \div MicrosecondsInSecond \in 0..(B \div MicrosecondsInSecond)
  BY <1>6, Consts
<1>10. M * SecondsInADay + B \div MicrosecondsInSecond < Word
  BY Bound
<1>11. D * SecondsInADay \in 0..(Word - 1)
  BY <1>2, <1>5, <1>9, <1>10, Consts
<1>12. (D * SecondsInADay) % Word = D * SecondsInADay
  BY <1>11, Consts
<1>13. D * SecondsInADay + U \div MicrosecondsInSecond \in 0..(Word - 1)
  BY <1>5, <1>9, <1>10, <1>11, Consts
<1>14. (D * SecondsInADay + U \div MicrosecondsInSecond) % Word
         = D * SecondsInADay + U \div MicrosecondsInSecond
  BY <1>13, Consts
<1>15. QED
  BY <1>4, <1>8, <1>12, <1>14 DEF RoughtimeToEpoc, EpochSeconds

(***************************************************************************)
(* The invariant, with the type it needs, holds initially and is kept by   *)
(* every step.                                                             *)
(***************************************************************************)
IInv == TypeOK /\ MatchesReferenceAfterEpoch

(***************************************************************************)
(* For every word size and day constants satisfying the assumption, a     *)
(* craggy_roughtimeToEpoc call on a timestamp at or after the epoch         *)
(* returns the exact seconds since the epoch plus half the round trip.     *)
(***************************************************************************)
THEOREM ExactAfterEpoch == Spec => []MatchesReferenceAfterEpoch
<1>1. Init => IInv
  BY Consts DEF Init, IInv, TypeOK, MatchesReferenceAfterEpoch, Uint
<1>2. IInv /\ [Next]_vars => IInv'
  <2> SUFFICES ASSUME IInv, [Next]_vars PROVE IInv'
    OBVIOUS
  <2>1. TypeOK'
    BY TypeStep DEF IInv
  <2>2. MatchesReferenceAfterEpoch'
    <3>1. CASE Convert
      <4>1. time \in Uint /\ rtt \in Uint
        BY Consts DEF IInv, TypeOK, Uint
      <4>2. QED
        BY <3>1, <4>1, ConvertExact DEF Convert, MatchesReferenceAfterEpoch
    <3>2. CASE Returned \/ UNCHANGED vars
      BY <3>2 DEF IInv, Returned, vars, MatchesReferenceAfterEpoch
    <3>3. QED
      BY <3>1, <3>2 DEF Next
  <2>3. QED
    BY <2>1, <2>2 DEF IInv
<1>3. QED
  BY <1>1, <1>2, PTL DEF Spec, IInv

(***************************************************************************)
(* With the code's constants (uint64_t, a 40-bit microsecond field and the *)
(* defines of CraggyTimeUtils.c), the conversion returns what the unit     *)
(* test roughtimeToEpoc expects for its fixture: 1625585148.               *)
(***************************************************************************)
THEOREM UnitTestFixture ==
    ASSUME Word = 18446744073709551616,
           DayUnit = 1099511627776,
           JulianDaysUntilEpoch = 40587,
           SecondsInADay = 86400,
           MicrosecondsInSecond = 1000000
    PROVE  RoughtimeToEpoc(65312145749359830, 1000000) = 1625585148
BY DEF RoughtimeToEpoc
=============================================================================
