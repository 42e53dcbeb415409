--------------------------- MODULE CraggyTimeUtils ---------------------------
(***************************************************************************)
(* craggy_roughtimeToEpoc of src/library/CraggyTimeUtils.c: a Roughtime    *)
(* MIDP (Modified Julian Day in the top bits, microseconds since midnight  *)
(* in the low DayShift bits) plus a round-trip time, to seconds since the  *)
(* Unix epoch.  All arithmetic is uint64_t: Word is 2^64 and DayUnit is    *)
(* 2^40 in the code, so time >> 40 is time \div DayUnit and                 *)
(* (time << 24) >> 24 is time % DayUnit.  TLC runs a narrower word.        *)
(*                                                                         *)
(* The call is one step of a caller that hands it a timestamp and a round  *)
(* trip, with outTime zero-initialised as in the unit test.               *)
(***************************************************************************)
EXTENDS Integers

CONSTANTS
    Word,                       \* 2^64: the modulus of uint64_t
    DayUnit,                    \* 2^40: where the MJD starts in the timestamp
    JulianDaysUntilEpoch,       \* NUMBER_OF_JULIAN_DAYS_UNTIL_EPOCH (40587)
    SecondsInADay,              \* NUMBER_OF_SECONDS_IN_A_DAY (86400)
    MicrosecondsInSecond,       \* NUMBER_OF_MICROSECONDS_IN_SECOND (1000000)
    RoundTrips                  \* the serverRoundTripUs values to try

Uint == 0..(Word - 1)

\* With these bounds no intermediate of the conversion of a timestamp at or
\* after the epoch leaves a uint64_t (true of the code's constants).
NoOverflowBound ==
    /\ 2 * DayUnit <= Word
    /\ (Word \div DayUnit - 1 - JulianDaysUntilEpoch) * SecondsInADay
         + (DayUnit - 1 + (Word - 1) \div 2) \div MicrosecondsInSecond < Word

ASSUME ConstantsAssumption ==
    /\ Word \in Nat \ {0}
    /\ DayUnit \in 1..Word
    /\ Word % DayUnit = 0
    /\ JulianDaysUntilEpoch \in Nat
    /\ JulianDaysUntilEpoch < Word \div DayUnit
    /\ SecondsInADay \in Nat \ {0}
    /\ MicrosecondsInSecond \in Nat \ {0}
    /\ RoundTrips \subseteq Uint
    /\ NoOverflowBound

(***************************************************************************)
(* The conversion the spec (4.5) and the unit test state, over the        *)
(* integers: whole days since the epoch in seconds, plus the microseconds *)
(* of the day and half the round trip, in whole seconds.                   *)
(***************************************************************************)
EpochSeconds(time, rtt) ==
    (time \div DayUnit - JulianDaysUntilEpoch) * SecondsInADay
      + ((time % DayUnit) + rtt \div 2) \div MicrosecondsInSecond

\* Mutant: the day count taken in a signed type, so days before the epoch
\* give a negative time instead of wrapping.
RoughtimeToEpocSigned(time, rtt) ==
    (time \div DayUnit - JulianDaysUntilEpoch) * SecondsInADay
      + (((time % DayUnit) + rtt \div 2) % Word) \div MicrosecondsInSecond

\* Mutant: the round trip added in full instead of halved.
RoughtimeToEpocFullTrip(time, rtt) ==
    LET days == (time \div DayUnit - JulianDaysUntilEpoch) % Word
        first == (days * SecondsInADay) % Word
    IN (first + (((time % DayUnit) + rtt) % Word) \div MicrosecondsInSecond) % Word

\* craggy_roughtimeToEpoc, every operation modulo 2^64 as uint64_t does.
RoughtimeToEpoc(time, rtt) ==
    LET days == (time \div DayUnit - JulianDaysUntilEpoch) % Word
        first == (days * SecondsInADay) % Word
    IN (first + (((time % DayUnit) + rtt \div 2) % Word) \div MicrosecondsInSecond) % Word

VARIABLES time, rtt, outTime, result
vars == <<time, rtt, outTime, result>>

Init ==
    /\ time \in Uint
    /\ rtt \in RoundTrips
    /\ outTime = 0
    /\ result = "pending"

\* The call: it writes *outTime and returns CraggyResultSuccess.
Convert ==
    /\ result = "pending"
    /\ outTime' = RoughtimeToEpoc(time, rtt)
    /\ result' = "success"
    /\ UNCHANGED <<time, rtt>>

\* The call has returned.
Returned ==
    /\ result = "success"
    /\ UNCHANGED vars

Next == Convert \/ Returned

Spec == Init /\ [][Next]_vars

TypeOK ==
    /\ time \in Uint
    /\ rtt \in RoundTrips
    /\ outTime \in Uint
    /\ result \in {"pending", "success"}

(***************************************************************************)
(* For a server timestamp at or after 1 January 1970, whatever the round   *)
(* trip, the uint64_t arithmetic of craggy_roughtimeToEpoc computes exactly *)
(* the integer conversion of spec 4.5: no intermediate wraps.              *)
(***************************************************************************)
MatchesReferenceAfterEpoch ==
    (result = "success" /\ time \div DayUnit >= JulianDaysUntilEpoch)
        => outTime = EpochSeconds(time, rtt)

(***************************************************************************)
(* A conversion that reports success gives the exact epoch time; one that *)
(* cannot (spec 7: overflow is prevented or reported as a decode error)    *)
(* does not return CraggyResultSuccess.                                    *)
(***************************************************************************)
ConversionExactOrRejected ==
    result = "success" => outTime = EpochSeconds(time, rtt)
=============================================================================
