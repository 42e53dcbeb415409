------------------------- MODULE GnssTester_proofs -------------------------
(***************************************************************************)
(* Proofs about the GNSS tester's two threads, for every buffer size,      *)
(* size_t width, stack garbage, timeout kinds and repeat counts that       *)
(* satisfy ConstantsAssumption.                                            *)
(***************************************************************************)
EXTENDS GnssTester, TLAPS

-----------------------------------------------------------------------------
(* The types FragInv carries.                                              *)

\* One step of either thread keeps every variable in its type; in
\* particular the size_t counters of part_002:175-179, computed modulo
\* 2^w, stay in 0..SizeWord-1 whatever the garbage `ret` is.
LEMMA TypeStep == TypeOK /\ [Next]_vars => TypeOK'
<1> USE ConstantsAssumption
<1> SUFFICES ASSUME TypeOK, [Next]_vars PROVE TypeOK'
  OBVIOUS
<1>1. CASE Main
  <2>1. CASE CheckUsage \/ Spawn \/ TimedWait \/ WaitReturn
    BY <2>1 DEF CheckUsage, Spawn, TimedWait, WaitReturn, TypeOK, MainPCs,
                ThreadPCs, threadVars
  <2>2. CASE DecodeKey \/ SetupNonce
    BY <2>2 DEF DecodeKey, SetupNonce, Fail, TypeOK, MainPCs, threadVars
  <2>3. CASE Spin
    BY <2>3 DEF Spin, vars, mainVars, threadVars, TypeOK
  <2>5. CASE LoopDone
    BY <2>5 DEF LoopDone, TypeOK, MainPCs, threadVars
  <2>7. CASE SetThreadExit
    BY <2>7 DEF SetThreadExit, TypeOK, MainPCs, threadVars
  <2>6. CASE Return
    BY <2>6 DEF Return, TypeOK, MainPCs, threadVars, NoExit
  <2>4. QED
    BY <1>1, <2>1, <2>2, <2>3, <2>5, <2>6, <2>7 DEF Main
<1>10. CASE SpuriousWakeup
  BY <1>10 DEF SpuriousWakeup, TypeOK, MainPCs, threadVars
<1>2. CASE ThreadStart
  BY <1>2 DEF ThreadStart, TypeOK, ThreadPCs, mainVars
<1>3. CASE Announce
  BY <1>3 DEF Announce, Signal, TypeOK, ThreadPCs
<1>4. CASE PollIdle
  BY <1>4 DEF PollIdle, TypeOK, ThreadPCs, mainVars
<1>5. CASE PollFragment
  <2> DEFINE off == (offset + ret) % SizeWord
             len == (packetLen + ret) % SizeWord
  <2>1. ret \in Int
    BY DEF TypeOK
  <2>2. off \in 0..(SizeWord - 1) /\ len \in 0..(SizeWord - 1)
    BY <2>1 DEF TypeOK
  <2>3. /\ offset' \in {0, off} /\ packetLen' \in {0, len}
        /\ tpc' \in {"overrun", "check"} /\ gpsUpdated' \in BOOLEAN
        /\ UNCHANGED <<mainVars, running, ret, threadExit>>
    BY <1>5 DEF PollFragment, TypeOK
  <2>4. QED
    BY <2>2, <2>3 DEF TypeOK, ThreadPCs, mainVars
<1>6. CASE CheckExit
  BY <1>6 DEF CheckExit, TypeOK, ThreadPCs, mainVars
<1>7. CASE Close
  BY <1>7 DEF Close, Signal, TypeOK, ThreadPCs
<1>8. CASE Terminated \/ UNCHANGED vars
  BY <1>8 DEF Terminated, TypeOK, vars, mainVars, threadVars
<1>9. QED
  BY <1>1, <1>2, <1>3, <1>4, <1>5, <1>6, <1>7, <1>8, <1>10 DEF Next, Thread

\* The zero-initialised globals and main()'s first state are well typed.
LEMMA InitTypeOK == Init => TypeOK
<1> SUFFICES ASSUME Init PROVE TypeOK
  OBVIOUS
<1>1. repeats \in 0..255
  BY ConstantsAssumption DEF Init, Args
<1>2. offset \in 0..(SizeWord - 1) /\ packetLen \in 0..(SizeWord - 1)
  BY ConstantsAssumption DEF Init
<1>3. QED
  BY <1>1, <1>2, Zenon
  DEF Init, TypeOK, MainPCs, ThreadPCs, NoTimeout, NoExit

-----------------------------------------------------------------------------
(* A fitting `ret` never overruns msg_buf.                                 *)

(***************************************************************************)
(* FittingFragmentsNeverOverrun is not inductive: a step is safe only when *)
(* the counters it adds ret to are where a fitting ret leaves them.        *)
(* FragInv adds that multi_fragment_offset and packet_len agree (the dead  *)
(* sync branch is the only place that sets them apart), that packet_len    *)
(* is a multiple of ret below the frame length, and that the thread has    *)
(* not overrun.  Then offset + 2 * ret stays within two frame lengths,     *)
(* which fit msg_buf, and no size_t arithmetic wraps.                      *)
(***************************************************************************)
FragInv ==
    /\ TypeOK
    /\ ret \in FittingRet =>
          /\ offset = packetLen
          /\ packetLen < ExpectedLen + FrameOverhead
          /\ ret = 0 => packetLen = 0
          /\ ret # 0 => packetLen % ret = 0
          /\ tpc # "overrun"

\* The fitting values of ret, for the frame length of the code (8 bytes).
LEMMA FittingRetIs == FittingRet = {0, 1, 2, 4, 8}
<1>1. \A d \in 1..8 : (8 % d = 0) <=> d \in {1, 2, 4, 8}
  OBVIOUS
<1>2. QED
  BY <1>1 DEF FittingRet, ExpectedLen, FrameOverhead

\* One fragment of a fitting ret, from counters where a fitting ret leaves
\* them: the memcpy stays in msg_buf and the counters stay aligned.
LEMMA FittingFragment ==
    ASSUME NEW p \in Nat, NEW r \in {0, 1, 2, 4, 8},
           p < 8, r = 0 => p = 0, r # 0 => p % r = 0
    PROVE  /\ p + 2 * r <= 16
           /\ p + r <= 8
           /\ p + r # 8 => /\ r = 0 => p + r = 0
                           /\ r # 0 => (p + r) % r = 0
<1>1. CASE r = 0
  BY <1>1
<1>2. CASE r = 1
  BY <1>2
<1>3. CASE r = 2
  BY <1>3
<1>4. CASE r = 4
  BY <1>4
<1>5. CASE r = 8
  BY <1>5
<1>6. QED
  BY <1>1, <1>2, <1>3, <1>4, <1>5

\* Every step keeps FragInv.
LEMMA FragStep == FragInv /\ [Next]_vars => FragInv'
<1> SUFFICES ASSUME FragInv, [Next]_vars PROVE FragInv'
  OBVIOUS
<1>0. TypeOK'
  BY TypeStep DEF FragInv
<1>1. CASE Main
  <2>1. UNCHANGED <<ret, offset, packetLen>> /\ tpc' \in {tpc, "init"}
    BY <1>1 DEF Main, CheckUsage, Spawn, TimedWait, WaitReturn, DecodeKey,
                SetupNonce, Fail, Spin, LoopDone, SetThreadExit, Return,
                vars, threadVars
  <2>2. QED
    BY <1>0, <2>1 DEF FragInv
<1>7. CASE SpuriousWakeup
  BY <1>0, <1>7 DEF SpuriousWakeup, FragInv, threadVars
<1>2. CASE ThreadStart
  BY <1>0, <1>2, FittingRetIs DEF ThreadStart, FragInv, ExpectedLen,
                                         FrameOverhead
<1>3. CASE Announce \/ PollIdle \/ CheckExit \/ Close
  <2>1. /\ UNCHANGED <<ret, offset, packetLen>>
        /\ tpc' \in {"poll", "check", "closing", "loop", "done"}
    BY <1>3 DEF Announce, PollIdle, CheckExit, Close, mainVars
  <2>2. QED
    BY <1>0, <2>1 DEF FragInv
<1>4. CASE PollFragment
  <2>1. SUFFICES ASSUME ret \in FittingRet
                 PROVE  /\ offset' = packetLen'
                        /\ packetLen' < ExpectedLen + FrameOverhead
                        /\ ret' = 0 => packetLen' = 0
                        /\ ret' # 0 => packetLen' % ret' = 0
                        /\ tpc' # "overrun"
    BY <1>0, <1>4 DEF FragInv, PollFragment
  <2>2. /\ ret \in {0, 1, 2, 4, 8}
        /\ offset = packetLen /\ packetLen \in Nat /\ packetLen < 8
        /\ ret = 0 => packetLen = 0
        /\ ret # 0 => packetLen % ret = 0
    BY <2>1, FittingRetIs DEF FragInv, TypeOK, ExpectedLen, FrameOverhead
  <2>3. /\ packetLen + 2 * ret <= 16 /\ packetLen + ret <= 8
        /\ packetLen + ret # 8 =>
              /\ ret = 0 => packetLen + ret = 0
              /\ ret # 0 => (packetLen + ret) % ret = 0
    BY <2>2, FittingFragment
  <2>4. /\ (offset + ret) % SizeWord = packetLen + ret
        /\ (packetLen + ret) % SizeWord = packetLen + ret
        /\ ret % SizeWord = ret
        /\ packetLen + 2 * ret <= BufSize
    BY <2>2, <2>3, ConstantsAssumption DEF ExpectedLen, FrameOverhead
  <2> DEFINE off == (offset + ret) % SizeWord
             len == (packetLen + ret) % SizeWord
             n   == ret % SizeWord
  <2>5. ~(off + n > BufSize) /\ off = packetLen + ret /\ len = packetLen + ret
    BY <2>2, <2>4, ConstantsAssumption DEF off, len, n
  <2>6. /\ tpc' = "check" /\ ret' = ret
        /\ IF len = ExpectedLen + FrameOverhead
             THEN offset' = 0 /\ packetLen' = 0
             ELSE offset' = off /\ packetLen' = len
    BY <1>4, <2>5 DEF PollFragment
  <2>7. QED
    BY <2>2, <2>3, <2>5, <2>6 DEF ExpectedLen, FrameOverhead
<1>5. CASE Terminated \/ UNCHANGED vars
  BY <1>0, <1>5 DEF Terminated, FragInv, vars, mainVars, threadVars
<1>6. QED
  BY <1>1, <1>2, <1>3, <1>4, <1>5, <1>7 DEF Next, Thread

\* Whenever the stack garbage in `ret` fits the frame, the serial thread's
\* memcpy (part_002:179) never writes past msg_buf, for every buffer of at
\* least two frames and every size_t width.
THEOREM FittingNeverOverruns == Spec => []FittingFragmentsNeverOverrun
<1>1. Init => FragInv
  BY InitTypeOK DEF Init, FragInv, ExpectedLen, FrameOverhead
<1>2. FragInv => FittingFragmentsNeverOverrun
  BY DEF FragInv, FittingFragmentsNeverOverrun
<1>3. QED
  BY <1>1, <1>2, FragStep, PTL DEF Spec
=============================================================================
