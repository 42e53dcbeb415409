-------------------------- MODULE UbxParse_proofs --------------------------
(***************************************************************************)
(* Proofs about the UBX driver for every MAXCHANNELS and every set of     *)
(* frames that satisfies ConstantsAssumption: not only the frames of the   *)
(* TLC instance, but any payload lengths, counts, svIds and flag bits.     *)
(***************************************************************************)
EXTENDS UbxParse, TLAPS

\* The arrays have at least one entry.
LEMMA CapacityPositive == MAXCHANNELS \in Nat \ {0}
BY ConstantsAssumption

-----------------------------------------------------------------------------
(* Frames.                                                                 *)

\* What a well-typed frame gives every handler.
LEMMA FrameFields ==
    ASSUME NEW f \in Frames
    PROVE  /\ f.id \in MsgIds /\ f.dataLen \in Nat /\ f.count \in 0..255
           /\ f.flags \subseteq Bits
BY ConstantsAssumption DEF Frame

-----------------------------------------------------------------------------
(* satellites_visible and the capacity of skyview[].                      *)

\* Only NAV-SAT and TIM-TP write satellites_visible.  Whatever frame comes
\* next, a step keeps it within 0..MAXCHANNELS: NAV-SAT stores nchan only
\* on the branch after its `nchan > MAXCHANNELS` refusal (part_001:990),
\* and TIM-TP zeroes it.
LEMMA SatCountStep ==
    ASSUME satVisible \in 0..MAXCHANNELS, [Next]_vars
    PROVE  satVisible' \in 0..MAXCHANNELS
<1> USE CapacityPositive
<1>1. CASE UNCHANGED vars
  BY <1>1 DEF vars
<1>2. ASSUME NEW f \in Frames, Parse(f)
      PROVE  satVisible' \in 0..MAXCHANNELS
  <2>0. f.dataLen \in Nat /\ f.count \in 0..255
    BY FrameFields
  <2>1. CASE NavSat(f)
    <3>1. CASE f.dataLen < 8
      BY <2>1, <3>1 DEF NavSat, Rejects
    <3>2. CASE f.dataLen >= 8 /\ "b0" \notin f.flags
      BY <2>1, <3>2 DEF NavSat, Rejects
    <3>3. CASE f.dataLen >= 8 /\ "b0" \in f.flags /\ f.count > MAXCHANNELS
      BY <2>1, <3>3 DEF NavSat, Rejects
    <3>4. CASE f.dataLen >= 8 /\ "b0" \in f.flags /\ f.count <= MAXCHANNELS
      <4>1. ~(f.dataLen < 8) /\ ~("b0" \notin f.flags) /\ ~(f.count > MAXCHANNELS)
        BY <2>0, <3>4
      <4>2. satVisible' = f.count
        BY <2>1, <4>1 DEF NavSat
      <4>3. QED
        BY <2>0, <3>4, <4>2
    <3>5. QED
      BY <2>0, <3>1, <3>2, <3>3, <3>4
  <2>2. CASE TimTp(f)
    BY <2>2 DEF TimTp
  <2>3. CASE ParseRunt(f) \/ ParseNoHandler(f) \/ ParseUnknown(f)
             \/ NavPvt(f) \/ NavTimeGps(f)
             \/ NavTimeUtc(f) \/ RxmSfrb(f) \/ RxmSfrbx(f)
    BY <2>3 DEF ParseRunt, ParseNoHandler, ParseUnknown, NavPvt, NavTimeGps,
                NavTimeUtc,
                RxmSfrb, RxmSfrbx, Rejects
  <2>4. CASE MeasX(f) \/ RawX(f)
    BY <2>4 DEF MeasX, RawX, Rejects
  <2>5. QED
    BY <1>2, <2>1, <2>2, <2>3, <2>4 DEF Parse
<1>3. QED
  BY <1>1, <1>2 DEF Next

\* satellites_visible never exceeds the MAXCHANNELS entries of skyview[],
\* in any sequence of frames the serial thread hands to ubx_parse.
THEOREM SatCountBounded == Spec => []SatCountWithinCapacity
<1>1. Init => satVisible \in 0..MAXCHANNELS
  BY CapacityPositive DEF Init
<1>2. satVisible \in 0..MAXCHANNELS /\ [Next]_vars
        => (satVisible \in 0..MAXCHANNELS)'
  BY SatCountStep
<1>3. satVisible \in 0..MAXCHANNELS => SatCountWithinCapacity
  BY DEF SatCountWithinCapacity
<1>4. QED
  BY <1>1, <1>2, <1>3, PTL DEF Spec

-----------------------------------------------------------------------------
(* Refusals are all-or-nothing.                                            *)

\* A step whose handler reports nothing but ONLINE writes no skyview[] or
\* raw.meas[] slot but the start of skyview[0] and raw: every handler
\* checks its lengths, version and counts (part_001:965-1555) before the
\* first slot write, and TIM-TP's memsets (1610-1611) touch only those.
LEMMA RejectStep ==
    ASSUME [Next]_vars
    PROVE  mask' \subseteq {"ONLINE"} =>
              skyview' \subseteq skyview \cup {0} /\ meas' \subseteq meas \cup {0}
<1>1. CASE UNCHANGED vars
  BY <1>1 DEF vars
<1>2. ASSUME NEW f \in Frames, Parse(f)
      PROVE  mask' \subseteq {"ONLINE"} =>
                skyview' \subseteq skyview \cup {0} /\ meas' \subseteq meas \cup {0}
  <2>1. CASE NavSat(f)
    BY <2>1 DEF NavSat, Rejects, Returns
  <2>2. CASE MeasX(f)
    BY <2>2 DEF MeasX, Rejects, Returns
  <2>3. CASE RawX(f)
    <3>1. CASE f.dataLen < 16 \/ f.count > MAXCHANNELS
      BY <2>3, <3>1 DEF RawX, Rejects, Returns
    <3>2. CASE ~(f.dataLen < 16 \/ f.count > MAXCHANNELS)
      <4>1. "RAW" \in mask'
        BY <2>3, <3>2 DEF RawX, Returns
      <4>2. QED
        BY <4>1
    <3>3. QED
      BY <3>1, <3>2
  <2>4. CASE TimTp(f)
    <3>1. skyview' = skyview \cup {0}
      BY <2>4 DEF TimTp
    <3>2. meas' = meas \/ meas' = meas \cup {0}
      BY <2>4 DEF TimTp, ClearRawHead
    <3>3. QED
      BY <3>1, <3>2
  <2>5. CASE ParseRunt(f) \/ ParseNoHandler(f) \/ ParseUnknown(f)
    BY <2>5 DEF ParseRunt, ParseNoHandler, ParseUnknown
  <2>6. CASE NavPvt(f) \/ NavTimeGps(f) \/ NavTimeUtc(f) \/ RxmSfrb(f)
             \/ RxmSfrbx(f)
    BY <2>6 DEF NavPvt, NavTimeGps, NavTimeUtc, RxmSfrb, RxmSfrbx, Rejects
  <2>7. QED
    BY <1>2, <2>1, <2>2, <2>3, <2>4, <2>5, <2>6 DEF Parse
<1>3. QED
  BY <1>1, <1>2 DEF Next

\* No refused frame leaves a half-applied satellite or measurement list, in
\* any sequence of frames: a refusal writes at most the start of skyview[0]
\* and raw that TIM-TP's memsets clear.
THEOREM RejectsAreAtomic == Spec => RejectLeavesSlots
<1>1. [Next]_vars =>
        [mask' \subseteq {"ONLINE"} =>
            skyview' \subseteq skyview \cup {0} /\ meas' \subseteq meas \cup {0}]_vars
  BY RejectStep
<1>2. QED
  BY <1>1, PTL DEF Spec, RejectLeavesSlots
=============================================================================
