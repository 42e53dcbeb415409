------------------------- MODULE MCCraggyTimeUtils -------------------------
(* craggy_roughtimeToEpoc on a 10-bit word: 5 bits of day, 5 of        *)
(* microseconds, the epoch at day 20, so that days before the epoch     *)
(* exist and their day count wraps as it does on 64 bits.               *)
EXTENDS CraggyTimeUtils

\* Round trips at both ends of the word and the small ones a LAN gives:
\* the large ones put the final sum next to the edge of the word.
MCRoundTrips == {0, 1, 2, 3, 511, 512, 1022, 1023}
=============================================================================
