----------------------------- MODULE GnssTester -----------------------------
(***************************************************************************)
(* The GNSS tester: main() of src/unnamed/part_003 and the serial thread  *)
(* gps_serial_thread_ep of src/unnamed/part_002, which share the global   *)
(* simulator_t.                                                            *)
(*                                                                         *)
(* The main thread checks its options, spawns the serial thread, waits on  *)
(* the condition variable gps_serial_init_done with a timespec it never    *)
(* initialised, decodes the key and the nonce, and then loops while        *)
(* repeats > 0 on simulator.tp_lock, a flag that nothing in the program    *)
(* sets: the exchange it guards (lines 238-281) is dead code, and the loop *)
(* busy-waits.  On the way out it sets gps_serial_thread_exit and returns  *)
(* 0, which ends the process and with it the serial thread.                *)
(*                                                                         *)
(* The serial thread announces itself once (running := TRUE, then a        *)
(* signal sent without the mutex), then polls the port.  It never calls    *)
(* read(): rx_buf stays zero, so the UBX sync test of line 164 never       *)
(* holds, expected_len stays 0, and every poll that finds bytes available  *)
(* adds the thread's local `ret` to the fragment offset and the packet     *)
(* length.  That `ret` (line 129) is never assigned: it is whatever the    *)
(* stack holds, fixed for the thread's life, and is chosen from RetGarbage. *)
(* The offsets are size_t and wrap modulo SizeWord.                        *)
(***************************************************************************)
EXTENDS Integers

CONSTANTS
    BufSize,        \* sizeof msg_buf and rx_buf (1024 in the code)
    SizeWord,       \* 2^w for size_t arithmetic
    RetGarbage,     \* values the uninitialised `int ret` can hold
    TimeoutKinds,   \* what the uninitialised `timeout` can be (see TimedWait)
    RepeatValues    \* uint8_t values `-r` can leave in repeats

\* The frame is complete when packet_len = expected_len + 8 (line 182);
\* expected_len is only set in the dead sync branch, so it stays 0.
ExpectedLen == 0
FrameOverhead == 8

ASSUME ConstantsAssumption ==
    /\ BufSize \in Nat \ {0}
    /\ BufSize >= 2 * (ExpectedLen + FrameOverhead)
    /\ SizeWord \in Nat /\ SizeWord > 2 * BufSize
    /\ RetGarbage \subseteq Int
    /\ TimeoutKinds \subseteq {"past", "invalid", "never"}
    /\ TimeoutKinds # {}
    /\ RepeatValues \subseteq 0..255

\* Outcomes of the inputs main() reads: whether -h, -k and -p were all
\* given, whether the key decodes to 32 bytes, and whether the nonce
\* decodes or is generated.
Args == [complete : BOOLEAN, keyOk : BOOLEAN, nonceOk : BOOLEAN,
         repeats : RepeatValues]

MainPCs == {"start", "spawn", "lock", "wait", "key", "nonce", "loop",
            "exit", "returning", "returned"}
ThreadPCs == {"none", "init", "loop", "poll", "check", "closing", "done",
              "overrun"}

VARIABLES
    args,        \* what the options and the decoders give main()
    mpc,         \* where main() is
    repeats,     \* uint8_t repeats of main()
    tmo,         \* the kind of deadline the garbage timeout is
    woken,       \* main was woken by pthread_cond_signal while waiting
    waitRet,     \* what pthread_cond_timedwait returned
    outcome,     \* "ok", "error" or "usage": which path main() took
    exitCode,    \* main()'s return value
    tpc,         \* where the serial thread is
    running,     \* simulator.gps_serial_thread_running
    threadExit,  \* simulator.gps_serial_thread_exit
    ret,         \* the serial thread's uninitialised local `ret`
    offset,      \* multi_fragment_offset (size_t)
    packetLen,   \* packet_len (size_t)
    gpsUpdated   \* simulator->gpsdata has been overwritten (line 197)

mainVars == <<args, mpc, repeats, tmo, woken, waitRet, outcome, exitCode>>
threadVars == <<tpc, running, ret, offset, packetLen, gpsUpdated>>
vars == <<mainVars, threadVars, threadExit>>

\* The fields of simulator_t that the control of both threads reads and
\* writes: the serial thread's running and exit flags, and whether gpsdata
\* was overwritten.  gps_serial_lock and gps_serial_init_done carry the
\* start handshake (mpc, woken, waitRet); the other fields are data no step
\* here reads.
simulator == [gps_serial_thread_running |-> running,
              gps_serial_thread_exit |-> threadExit,
              gpsdata |-> gpsUpdated]

NoTimeout == "none"
NoExit == -1

\* The globals are zero-initialised: simulator_init() is never called.
Init ==
    /\ args \in Args
    /\ mpc = "start"
    /\ repeats = args.repeats
    /\ tmo = NoTimeout
    /\ woken = FALSE
    /\ waitRet = NoTimeout
    /\ outcome = NoTimeout
    /\ exitCode = NoExit
    /\ tpc = "none"
    /\ running = FALSE
    /\ threadExit = FALSE
    /\ ret = 0
    /\ offset = 0
    /\ packetLen = 0
    /\ gpsUpdated = FALSE

-----------------------------------------------------------------------------
(* The main thread.                                                        *)

\* Lines 177-181: the usage check.
CheckUsage ==
    /\ mpc = "start"
    /\ IF args.complete
         THEN mpc' = "spawn" /\ UNCHANGED <<outcome, exitCode>>
         ELSE mpc' = "returned" /\ outcome' = "usage" /\ exitCode' = 1
    /\ UNCHANGED <<args, repeats, tmo, woken, waitRet, threadVars, threadExit>>

\* Line 184: pthread_create.
Spawn ==
    /\ mpc = "spawn"
    /\ mpc' = "lock"
    /\ tpc' = "init"
    /\ UNCHANGED <<args, repeats, tmo, woken, waitRet, outcome, exitCode,
                   running, ret, offset, packetLen, gpsUpdated, threadExit>>

\* Lines 185-186: lock the mutex (the serial thread never takes it) and
\* call pthread_cond_timedwait with the uninitialised `timeout`: a deadline
\* already past (zeroed stack), an invalid one (tv_nsec out of range), or
\* one so far ahead that only a signal ends the wait.
TimedWait ==
    /\ mpc = "lock"
    /\ \E k \in TimeoutKinds : tmo' = k
    /\ mpc' = "wait"
    /\ UNCHANGED <<args, repeats, woken, waitRet, outcome, exitCode,
                   threadVars, threadExit>>

\* The memcpy past msg_buf is undefined behaviour; the model stops there.
Crashed == tpc = "overrun"

\* Lines 186-195: the wait returns ETIMEDOUT, EINVAL or 0 (when signalled),
\* and main unlocks, logs and goes on whatever it returned.
WaitReturn ==
    /\ mpc = "wait"
    /\ \/ tmo = "past" /\ waitRet' = "timedout"
       \/ tmo = "invalid" /\ waitRet' = "einval"
       \/ tmo = "never" /\ woken /\ waitRet' = "ok"
    /\ mpc' = "key"
    /\ UNCHANGED <<args, repeats, tmo, woken, outcome, exitCode,
                   threadVars, threadExit>>

\* pthread_cond_timedwait may also return 0 with no pthread_cond_signal:
\* POSIX allows spurious wakeups, and a signal delivered to main (the SIGINT
\* handler of line 89) can end the wait.  Line 186 has no predicate loop
\* around the wait, so main logs "Started External GPS thread" and goes on
\* whether or not gps_serial_thread_running was set.  Nothing makes this
\* happen, so it is no part of main's fair steps.
SpuriousWakeup ==
    /\ ~Crashed
    /\ mpc = "wait"
    /\ waitRet' = "ok"
    /\ mpc' = "key"
    /\ UNCHANGED <<args, repeats, tmo, woken, outcome, exitCode,
                   threadVars, threadExit>>

\* `goto error` falls through to `exit:` (lines 287-293).
Fail ==
    /\ mpc' = "exit"
    /\ outcome' = "error"

\* Lines 197-207.
DecodeKey ==
    /\ mpc = "key"
    /\ IF args.keyOk THEN mpc' = "nonce" /\ UNCHANGED outcome ELSE Fail
    /\ UNCHANGED <<args, repeats, tmo, woken, waitRet, exitCode,
                   threadVars, threadExit>>

\* Lines 209-234: decode -n or call craggy_generateNonce.
SetupNonce ==
    /\ mpc = "nonce"
    /\ IF args.nonceOk THEN mpc' = "loop" /\ UNCHANGED outcome ELSE Fail
    /\ UNCHANGED <<args, repeats, tmo, woken, waitRet, exitCode,
                   threadVars, threadExit>>

\* Lines 236-238 with repeats > 0: simulator.tp_lock is never set, so the
\* body is skipped and the loop spins without changing any state.
Spin ==
    /\ mpc = "loop"
    /\ repeats > 0
    /\ UNCHANGED vars

\* Lines 236 and 284-286: the loop ends when repeats = 0.
LoopDone ==
    /\ mpc = "loop"
    /\ repeats = 0
    /\ mpc' = "exit"
    /\ outcome' = "ok"
    /\ UNCHANGED <<args, repeats, tmo, woken, waitRet, exitCode,
                   threadVars, threadExit>>

\* Lines 290-293: free the buffers and ask the serial thread to stop.
SetThreadExit ==
    /\ mpc = "exit"
    /\ threadExit' = TRUE
    /\ mpc' = "returning"
    /\ UNCHANGED <<args, repeats, tmo, woken, waitRet, outcome, exitCode,
                   threadVars>>

\* Line 294: return 0 ends the process, whatever the serial thread is doing.
Return ==
    /\ mpc = "returning"
    /\ mpc' = "returned"
    /\ exitCode' = 0
    /\ UNCHANGED <<args, repeats, tmo, woken, waitRet, outcome,
                   threadVars, threadExit>>

Main ==
    /\ ~Crashed
    /\ \/ CheckUsage \/ Spawn \/ TimedWait \/ WaitReturn \/ DecodeKey
       \/ SetupNonce \/ Spin \/ LoopDone \/ SetThreadExit \/ Return

-----------------------------------------------------------------------------
(* The serial thread.  Every step needs the process alive: once main()    *)
(* has returned, the thread is gone.                                       *)

Alive == mpc # "returned" /\ ~Crashed

\* pthread_cond_signal(&gps_serial_init_done) without the mutex: it wakes
\* main only if main is already blocked in the wait, and is lost otherwise.
Signal == woken' = (woken \/ mpc = "wait")

\* Lines 88-151: open the port (results ignored), zero the offsets.  The
\* local `ret` of line 129 holds whatever was on the stack.
ThreadStart ==
    /\ Alive
    /\ tpc = "init"
    /\ \E r \in RetGarbage : ret' = r
    /\ offset' = 0
    /\ packetLen' = 0
    /\ tpc' = "loop"
    /\ UNCHANGED <<mainVars, running, gpsUpdated, threadExit>>

\* Lines 155-159: the first iteration sets the running flag and signals.
Announce ==
    /\ Alive
    /\ tpc = "loop"
    /\ ~running
    /\ running' = TRUE
    /\ Signal
    /\ tpc' = "poll"
    /\ UNCHANGED <<args, mpc, repeats, tmo, waitRet, outcome, exitCode,
                   ret, offset, packetLen, gpsUpdated, threadExit>>

\* Where the thread polls the port: after the announcement, or at the top
\* of a later iteration.
AtPoll == tpc = "poll" \/ (tpc = "loop" /\ running)

\* Lines 161-162: FIONREAD reports no bytes; the iteration ends.
PollIdle ==
    /\ Alive
    /\ AtPoll
    /\ tpc' = "check"
    /\ UNCHANGED <<mainVars, running, ret, offset, packetLen, gpsUpdated,
                   threadExit>>

\* Mutant: a completed frame resets packet_len but not the fragment offset.
PollFragmentKeepOffset ==
    /\ Alive
    /\ AtPoll
    /\ LET off == (offset + ret) % SizeWord
           len == (packetLen + ret) % SizeWord
           n   == ret % SizeWord
       IN  IF off + n > BufSize
             THEN /\ tpc' = "overrun"
                  /\ offset' = off /\ packetLen' = len
                  /\ UNCHANGED gpsUpdated
             ELSE /\ tpc' = "check"
                  /\ IF len = ExpectedLen + FrameOverhead
                       THEN offset' = off /\ packetLen' = 0 /\ gpsUpdated' = TRUE
                       ELSE offset' = off /\ packetLen' = len
                            /\ UNCHANGED gpsUpdated
    /\ UNCHANGED <<mainVars, running, ret, threadExit>>

\* Lines 161-198 with bytes available.  rx_buf is all zero, so the else
\* branch (175) is taken: offset and packet_len grow by `ret` in size_t.
\* The memcpy of line 179 writes (size_t)ret bytes at msg_buf[offset]; past
\* the end of msg_buf it is undefined behaviour, which ends the model's
\* thread in "overrun".  A frame of expected_len + 8 bytes is handed to
\* ubx_parse and copied into simulator->gpsdata without the lock (186-197),
\* and the offsets are reset.
PollFragment ==
    /\ Alive
    /\ AtPoll
    /\ LET off == (offset + ret) % SizeWord
           len == (packetLen + ret) % SizeWord
           n   == ret % SizeWord
       IN  IF off + n > BufSize
             THEN /\ tpc' = "overrun"
                  /\ offset' = off /\ packetLen' = len
                  /\ UNCHANGED gpsUpdated
             ELSE /\ tpc' = "check"
                  /\ IF len = ExpectedLen + FrameOverhead
                       THEN offset' = 0 /\ packetLen' = 0 /\ gpsUpdated' = TRUE
                       ELSE offset' = off /\ packetLen' = len
                            /\ UNCHANGED gpsUpdated
    /\ UNCHANGED <<mainVars, running, ret, threadExit>>

\* Line 200: loop again unless main asked the thread to stop.
CheckExit ==
    /\ Alive
    /\ tpc = "check"
    /\ tpc' = IF threadExit THEN "closing" ELSE "loop"
    /\ UNCHANGED <<mainVars, running, ret, offset, packetLen, gpsUpdated,
                   threadExit>>

\* Lines 202-207: close the port, set the exit flag, signal, pthread_exit.
Close ==
    /\ Alive
    /\ tpc = "closing"
    /\ threadExit' = TRUE
    /\ Signal
    /\ tpc' = "done"
    /\ UNCHANGED <<args, mpc, repeats, tmo, waitRet, outcome, exitCode,
                   running, ret, offset, packetLen, gpsUpdated>>

Thread == ThreadStart \/ Announce \/ PollIdle \/ PollFragment \/ CheckExit
          \/ Close

\* After main() has returned, or after the undefined write, the run is over.
Terminated ==
    /\ mpc = "returned" \/ Crashed
    /\ UNCHANGED vars

Next == Main \/ SpuriousWakeup \/ Thread \/ Terminated

Spec == Init /\ [][Next]_vars

\* Both threads are scheduled whenever they can run.
FairSpec == Spec /\ WF_vars(Main) /\ WF_vars(Thread)

-----------------------------------------------------------------------------
(* Properties.                                                             *)

\* The types of the state, which the proofs of GnssTester_proofs carry.
TypeOK ==
    /\ args \in Args
    /\ mpc \in MainPCs
    /\ repeats \in 0..255
    /\ tmo \in TimeoutKinds \cup {NoTimeout}
    /\ woken \in BOOLEAN
    /\ waitRet \in {"timedout", "einval", "ok", NoTimeout}
    /\ outcome \in {"ok", "error", "usage", NoTimeout}
    /\ exitCode \in {0, 1, NoExit}
    /\ tpc \in ThreadPCs
    /\ running \in BOOLEAN
    /\ threadExit \in BOOLEAN
    /\ ret \in RetGarbage \cup {0}
    /\ offset \in 0..(SizeWord - 1)
    /\ packetLen \in 0..(SizeWord - 1)
    /\ gpsUpdated \in BOOLEAN

\* Stack garbage that fits a frame: 0, or a ret that divides the
\* expected_len + 8 bytes after which the frame is complete (line 182).
FittingRet ==
    LET n == ExpectedLen + FrameOverhead
    IN  {0} \cup {d \in 1..n : n % d = 0}

\* When the garbage `ret` fits the frame, packet_len reaches exactly
\* expected_len + 8, ubx_parse runs and both counters are reset (lines
\* 182-195) before multi_fragment_offset can grow: the memcpy of
\* part_002:179 then never passes msg_buf, however long the thread runs.
\* The overrun of the finding needs a ret that steps over the frame end.
FittingFragmentsNeverOverrun == ret \in FittingRet => tpc # "overrun"

\* msg_buf is never written past its end by the memcpy of part_002:179.
NoBufferOverrun == tpc # "overrun"

\* A main() that waits for the serial thread's start signal is eventually
\* woken or times out (part_003:186).
WaitEnds == (mpc = "wait") ~> (mpc # "wait")

\* main() polls `repeats` times and terminates ("Will poll for %d times",
\* "Terminating....").
MainReturns == <>(mpc = "returned")

=============================================================================
