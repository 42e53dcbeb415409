# Formal models of craggy

TLA+ models of craggy (`src/`): the Roughtime client, its timestamp converter, the GNSS tester with its serial thread, and the UBX message driver. They are checked with TLC on
small instances. The most important properties are also proved with TLAPS for
every value of the constants.

## The system and its parts

| Part | Source | Modelled by |
|---|---|---|
| Session driver: the CLI `main()` (options, usage check, key and nonce set-up, repeat loop) | `src/cli/main.c` | `RoughtimeClient`, refining `SessionDriver` (spec 4.6) |
| Timestamp converter `craggy_roughtimeToEpoc` | `src/library/CraggyTimeUtils.c`; its header and an older draft in `src/unnamed/part_000`; its gtest in `src/unnamed/part_005` | `CraggyTimeUtils` |
| Nonce source, request builder, transport, response validator (the craggy library) | not under `src/` | `RoughtimeClient`, from spec 4.2–4.4 |
| GNSS tester `main()` with a serial thread | `src/unnamed/part_003`, `src/unnamed/part_002` | `GnssTester` |
| `simulator_t`, shared by the tester's threads | `src/roughtime-tester/gps-sim.h` | `GnssTester` (`simulator`) |
| Variant mains | `src/craggy-serial/roughtest/CMakeLists.txt`, `src/roughtime-tester/gps-sim.h` 97–395 | not modelled (neither compiles) |
| UBX message driver `ubx_parse` and its handlers | `src/unnamed/part_001`, `serial_api/driver_ubx.h` | `UbxParse` |
| Build files, unused session structs | `src/unnamed/part_004`, `roughtest/session.h` | no behaviour |

How the parts interact:
- The CLI parses its options.
- It decodes the root key.
- It obtains a nonce once, either decoded from `-n` or from `craggy_generateNonce`.
- Then, `repeats` times, it:
  - builds a request;
  - sends it with `craggy_makeRequest`, which waits for the answer or a timeout;
  - verifies the response with `craggy_processResponse` against the nonce and the root key;
  - adds half the round trip to the midpoint;
  - compares the result with the realtime clock.

The GNSS tester does the same, but it gates each exchange on a flag meant to be set on GNSS updates. It also runs a serial thread that reassembles UBX frames and parses them with the UBX driver into a shared `simulator_t`.

## Modules

### `RoughtimeClient` (`src/cli/main.c`)

State:
- `pc`: where `main()` is.
- `argv` and `argi`: what `getopt_long` returns next.
- `heap`: the strings in the `malloc`'d buffers.
- `hostname`, `nonce`, `publicKey`: pointers, as indexes into `heap`; `NULL` is 0.
- `repeats`: a `uint8_t`.
- `nonceBytes`, `start` (`start_us`) and `dest` (where the last request went).
- `outcome` and `exitCode`.
- Two history variables:
  - `firstSent`: when the nonce was first sent;
  - `last`: the last accepted exchange, with its midpoint, start, end and estimate.
- The environment:
  - `now`: the clock;
  - `pending`: requests the server has not answered yet;
  - `signed`: the SREPs the server has signed;
  - `net`: responses in flight to the client.

Client actions:
- `ParseOption` is one `getopt_long` turn. It has one disjunct per `case`:
  - `-h` and `-k` append a buffer;
  - `-n` writes the nonce text into the *hostname* buffer (line 101) and points `nonce` at it, or faults when `hostname` is `NULL`;
  - `-r` truncates to `uint8_t`;
  - `-i` has no effect the model can see.
- `CheckUsage` is lines 128–134.
- `DecodeKey` is lines 136–146.
- `SetupNonce` is lines 148–173.
- `MonotonicUs` and `RealtimeUs` are `TimeUs` on the two clocks (lines 29–47): the monotonic clock reads `now`, the realtime clock `now + Skew`. `clock_gettime` fails only for a clock id `main()` never passes, so its `abort()` is not a path.
- `SendRequest` is `createRequest`, `start_us` and the send half of `makeRequest` (lines 175–190).
- `ReceiveResponse(r)` takes one response the client can receive and models lines 190–215 and 225–226:
  - verification;
  - `timestamp += (end-start)/2`;
  - the ten-minute offset check;
  - on success, `CountDown`.
- `RequestTimeout` is the `makeRequest` failure branch (lines 216–221).
- `LoopExit` is the loop's end and `return result` (lines 227–237).
- `Fail` is `goto error` (lines 229–237).

Environment actions:
- `ServerRespond` signs one SREP for a non-empty batch of pending requests at the current time, and sends the client its response if the batch holds the client's nonce.
- `OtherRequest` is a request from another client.
- `DropResponse` is a lost response.
- `Tick` is time passing.

An on-path attacker (when `Attacker` is TRUE) can also deliver any member of `Forgeries`:
- a replay of any SREP the server ever signed;
- anything it can sign with its own key `AttKey`;
- the root key's one real certificate, or a certificate it signed itself.

The library functions are not in this repository. They are modelled from the spec:
- `Verify` is `craggy_processResponse`, with ideal signatures and hashes. A response verifies for nonce `n` exactly when:
  - the root key signed the certificate;
  - the delegated key it names signed the SREP;
  - `n` is a leaf of the SREP's Merkle tree.
- `Genuine` is the server's response.

Data are abstracted: strings are model values, and the response is a record of who signed what. Time is in scaled units.

### `SessionDriver` (spec 4.6)

The abstract Session Driver: what a client promises, with no pointers, options or transport. Its `state` is `"config"`, `"idle"`, `"awaiting"`, `"failed"` or `"done"`.
- `Configure` fixes the session nonce for good.
- `Request` hands it to the transport and records when it was first sent.
- `Verify` returns to idle with the midpoint of an SREP the server signed over a tree that holds the nonce, no earlier than the first send.
- `Fail` ends the session from configuration or from waiting, with no retry.
- `Finish` ends it when the repeats are used up.
- `Sign` and `Tick` are the server and the clock.

Spec 4.6's Requesting is folded into `Request`, and Verified is the step back to idle.

`RoughtimeClient` refines it (`ImplementsSession == Session!Spec`), with the mapping:
- `SessionState` maps `pc`: the option, key and nonce steps are `"config"`, the loop head is `"idle"`, waiting is `"awaiting"`, a return with outcome `"ok"` is `"done"`, and any other end is `"failed"`;
- `nonce` is `nonceBytes`;
- `sentAt` is `firstSent`;
- `verified` is `last.midp`;
- `signed` and `now` are themselves.

The option steps and the environment's requests, drops and forgeries are stutters of the abstract spec.

### `CraggyTimeUtils` (`src/library/CraggyTimeUtils.c`)

`RoughtimeToEpoc` is lines 40–41, with every operation reduced modulo `Word` (`uint64_t`):
- `>> 40` is `\div DayUnit`;
- `(t << 24) >> 24` is `% DayUnit`.

`Convert` is the call: it writes `*outTime` and returns success. `EpochSeconds` is the integer conversion that spec 4.5 and the unit test state. TLC runs with `Word = 1024` and `DayUnit = 32`. TLAPS proves the results for every admissible word, 2^64 included.

### `GnssTester` (`src/unnamed/part_003`, `src/unnamed/part_002`)

Two threads share the global `simulator_t` (`gps-sim.h` 57–91). `simulator` is the record of the fields their control uses: `gps_serial_thread_running`, `gps_serial_thread_exit` and whether `gpsdata` was overwritten. The lock and the condition variable are the start handshake of `mpc`, `woken` and `waitRet`; the other fields are data no modelled step reads.

Main thread (`main()` of `part_003`):
- `mpc`: where `main()` is.
- `args`: what the options and decoders give it (all of `-h -k -p` present, key decodes, nonce decodes).
- `repeats`: a `uint8_t`.
- `tmo`, `woken`, `waitRet`: the `pthread_cond_timedwait` of line 186.
  - Its `timespec` is never initialised, so `TimedWait` chooses its kind: a deadline in the past, an invalid one, or one that never comes.
  - A signal sent while `main()` is not waiting is lost.
  - The wait may also return 0 with no signal: POSIX allows spurious wakeups, and a signal delivered to `main()` (the SIGINT handler of line 89) can end it. Line 186 has no predicate loop, so `main()` then logs that the thread started whether or not `running` is set. `SpuriousWakeup` is this return. Nothing makes it happen, so it is outside `main()`'s fair steps.
- `outcome`, `exitCode`.

Main actions, in code order:
- `CheckUsage`, `Spawn`, `TimedWait`, `WaitReturn` (timed out, `EINVAL`, or woken), `SpuriousWakeup`.
- `DecodeKey` and `SetupNonce`.
- `Spin`: the `while (repeats > 0)` loop whose body only runs when `simulator.tp_lock` is set. Nothing sets it, so the body (lines 238–281) is dead code, and `Spin` changes nothing.
- `LoopDone`, `Fail` (`goto error`), `SetThreadExit`, `Return` (`return 0` on every path, success and error alike).

Serial thread (`gps_serial_thread_ep` of `part_002`):
- `tpc`: where the thread is.
- `running`: `gps_serial_thread_running`.
- `ret`: the thread's `int ret`. It is never assigned, so `ThreadStart` chooses it from `RetGarbage`, and it is fixed for the thread's life.
- `offset`, `packetLen`: `multi_fragment_offset` and `packet_len`, `size_t` values taken modulo `SizeWord`.
- `gpsUpdated`: a frame was completed and copied into `simulator->gpsdata`.

Thread actions:
- `ThreadStart`.
- `Announce`: sets `running`, then signals without the mutex (`Signal`).
- `PollIdle`.
- `PollFragment`: the thread never calls `read()`, so `rx_buf` stays zero, the sync branch never runs and `expected_len` stays 0. Each poll adds `ret` to both counters.
  - If the `memcpy` would pass `msg_buf` (undefined behaviour), the thread goes to `"overrun"` and the model stops there.
  - If `packet_len` reaches 8, the frame is "complete", is parsed, and the counters reset.
- `CheckExit` and `Close`.

`FairSpec` adds `WF_vars(Main) /\ WF_vars(Thread)`; `SpuriousWakeup` has no fairness. Both are real threads that the scheduler runs whenever they can run.

### `UbxParse` (`src/unnamed/part_001`, `driver_ubx.h`)

`ubx_parse` and every handler it calls, applied to one frame at a time.

The message id is the 16-bit `msgid` that `ubx_parse` builds from bytes 2 and 3. `UBX_CLASS` and `UBX_MSGID` are the class enum and the macro of `driver_ubx.h`. `AckIds`, `NavIds`, `RxmIds` and `TimIds` are the ids of `ubx_message_t` that the switch names. `SwitchIds` is every case label, and `HandledIds` the nine cases that still call a handler.

Frame data are abstracted to what the handlers test: id, length, declared payload length, a count byte, the svIds and gnssIds of its blocks, and three flag bits (version or validity bits).

State:
- `dataLen`: the last frame's `data_len`.
- `mask`: the mask `ubx_parse` returned.
- `reads`: the payload offsets the handler read.
- `skyview`, `meas`: the `skyview[]` and `raw.meas[]` slots ever written.
- `avbMeas`, `satVisible`: `raw.avb_meas` and `satellites_visible`.
- `fixTimeFrom`: which message last wrote `fix.time`.

Actions: one per handler.
- `NavPvt`, `NavTimeGps`, `NavTimeUtc`, `NavSat`, `MeasX`, `RawX`, `RxmSfrb`, `RxmSfrbx`, `TimTp`.
- `ParseRunt` (shorter than the header).
- `ParseNoHandler`: a case of the switch whose handler call is commented out (ACK, NAV-CLOCK falling through to NAV-DOP, and the rest).
- `ParseUnknown`: the `default` branch, for an id the switch does not name. The MC instance sends MON-VER for it.

Each action carries the handler's length and version checks in code order, including these orderings:
- `avb_meas` is stored before the `MAXCHANNELS` check.
- TIM-TP's "reliable cycle" runs before its length check: its two `memset`s clear a pointer's worth of bytes (`sizeof(&...)`) at the start of `skyview[0]` and of `raw`, and it zeroes `satellites_visible`. `struct raw_t` is gpsd's, outside the repository, so `ClearRawHead` lets the cleared bytes be a leading field, `avb_meas`, or the start of `raw.meas[0]`.
- RAWX's `svId -= 100` is keyed on `gnssId == 1` (the SBAS case of the `gnssId` switch, 1316–1337), whatever the svId, and it happens after `gnssid`/`sigid` are stored at the old index.
- SFRBX reads header bytes 0, 1, 2, 4, 5 and 6 (`SfrbxHeader`); byte 3 is reserved and never read.

## Runs

| Run | Checks | Result | What it shows |
|---|---|---|---|
| `client_safety` | `TypeOK`, `AcceptedIsAuthentic`, `FreshEstimateWithinRoundTrip`, `ImplementsSession`, `Terminates` | pass, 106k states | With replay and forgery by an attacker, the client accepts only a midpoint the server signed over its nonce, no earlier than that nonce was first sent. When that midpoint was signed during the exchange that accepts it, the estimate is within half a round trip; only the replay of `client_replay` breaks the bound. The pointers always name allocated buffers. `main()` implements the Session Driver of spec 4.6. Under `WF(Client)`, `main()` always returns. |
| `client_replay` | `EstimateWithinRoundTrip` | violation | Finding 1: the nonce is reused across repeats. Exchange 1's response, replayed into exchange 2, verifies, and the estimate is off by the time between the two. |
| `client_host` | `ContactsConfiguredHost` | violation | Finding 2: `-n` after `-h` sends the request to the nonce text. |
| `timeutils_ref` | `MatchesReferenceAfterEpoch` | pass, 16k states | Every timestamp of the word, and every round trip up to the word's edge, converts exactly when the day is at or after the epoch. |
| `timeutils_wrap` | `ConversionExactOrRejected` | violation | Finding 3: a pre-epoch timestamp wraps to a huge positive time and is still reported as success. |
| `gnss_safety` | `FittingFragmentsNeverOverrun` | pass, 385k states | In every interleaving of the two threads, spurious wakeups included: when the garbage `ret` is 0 or divides the 8-byte frame, the completion reset keeps every `memcpy` inside `msg_buf`; the overrun of `gnss_overrun` needs a `ret` that steps over the frame end. |
| `gnss_lostwakeup` | `WaitEnds` | violation | Finding 4: if the thread signals before `main()` waits (the signal is sent without the mutex), and the garbage deadline never comes, `main()` waits forever. |
| `gnss_spin` | `MainReturns` | violation | Finding 5: with `repeats > 0`, `main()` spins forever on a `tp_lock` nobody sets. |
| `gnss_overrun` | `NoBufferOverrun` | violation | Finding 6: the uninitialised `ret` moves `multi_fragment_offset` until the `memcpy` passes `msg_buf`, or wraps it at once when negative. |
| `ubx_safety` | `SatCountWithinCapacity`, `RejectLeavesSlots` | pass, 91k states | Over well-formed and malformed frames, `satellites_visible` never exceeds `MAXCHANNELS`. A refused frame writes no `skyview[]`/`raw.meas[]` slot except the start of `skyview[0]` and `raw`, which TIM-TP's memsets clear before its length check. |
| `ubx_overread` | `ReadsWithinPayload` | violation | Finding 7: NAV-SAT reads `flags` at `off+16`, past its 12-byte block, and so past the payload in the last block. |
| `ubx_index` | `IndicesInBounds` | violation | Finding 8: NAV-SAT, MEASX and RAWX index `skyview[]`/`raw.meas[]` by `svId` (up to 255) in arrays of `MAXCHANNELS` slots. |

Each property of a passing run has a mutant in `PROJECT.json`, and TLC finds that mutant:
- dropping the Merkle check breaks `AcceptedIsAuthentic`;
- not truncating `-r` breaks `TypeOK`;
- not counting down breaks `Terminates`;
- retrying a timed-out exchange instead of failing breaks `ImplementsSession`;
- adding the full round trip to the midpoint breaks `FreshEstimateWithinRoundTrip`;
- adding the full round trip breaks `MatchesReferenceAfterEpoch`;
- keeping `multi_fragment_offset` when a frame completes breaks `FittingFragmentsNeverOverrun`;
- storing `satellites_visible` before the `MAXCHANNELS` check breaks `SatCountWithinCapacity`;
- checking the NAV-SAT version after the blocks are stored breaks `RejectLeavesSlots`.

Known defects that no run checks (their hazards in `PROJECT.json` say so):
- The CLI's `main()` returns 1 after success: `result` starts at 1 and is never cleared (`main.c:237`).
- The tester's `main()` returns 0 on every path, so an error is invisible in its exit status (`part_003:294`).
- The tester's wait has no predicate loop: a spurious return of 0 makes it log "Started External GPS thread" with `running` unset (`part_003:186`). `SpuriousWakeup` models that return. No run is left to check it as a violation.
- `part_003` reads and writes `simulator.tp_lock`, which the `simulator_t` of `gps-sim.h` does not declare. The tester does not compile against that header as it stands. The model follows the code as written.
- A refused RAWX/MEASX frame leaves `avb_meas` above `MAXCHANNELS` (`part_001:1263`).
- TIM-TP's `memset`s clear `sizeof` a pointer, so `skyview[]` keeps old satellites after `satellites_visible` is zeroed (`part_001:1610`).
- An SBAS RAWX block is split over `raw.meas[svId]` and `raw.meas[svId-100]` (`part_001:1337`).

### Bounds

The argument vectors of `MCRoughtimeClient` cover:
- the normal run with `-r 2 -i 3`;
- `-n` between two `-h`, after `-h`, and before `-h`;
- a bad nonce, a bad key, and a missing `-h`;
- `-r 256` and `-r 258`.

Other bounds:
- `MaxTime = 2` gives room for two exchanges, a replay across them, and an offset at `OffsetLimit = 2`. `client_replay` uses its own cfg.
- Two repeats are the fewest that make replay across exchanges possible.
- Three nonces are the client's fixed nonce, its random nonce, and another client's nonce, which lets a batch hold a foreign nonce.

The tester runs with the real 1024-byte buffers and a 16-bit `size_t`. Twice the buffer fits, so an overrun is visible before a wrap. `RetGarbage = {0, 3, 4, 8, -1}` covers these cases:
- never moving (0);
- completing a frame in one fragment (8) or in two (4);
- creeping past the buffer (3);
- wrapping at once (-1).

The liveness runs use `{0, 4, 8}`, so that a crash is not what stops `main()`. `repeats` is 0 or 1, since one repeat is enough to enter the loop.

The driver runs with `MAXCHANNELS = 140`. The svIds are 3, 133 and 152:
- 133 is SBAS and in range;
- 152 is SBAS, and out of range before the `-100`;
- 152 is also the value that exposes indexing by svId.
- Well-formed blocks carry gnssId 1 for the SBAS svIds and 0 for the GPS one. One malformed RAWX block has gnssId 1 with svId 3, so the `-100` gives a negative slot.

Each handler gets well-formed frames with 0–2 blocks, and malformed ones:
- a runt;
- a 4-byte payload;
- a count of `MAXCHANNELS + 1`;
- an SFRBX word-count mismatch.

The converter's `RoundTrips` are the small values plus the values at `Word/2` and `Word`, which put the final sum next to the edge of the word. `us + rtt/2` itself never wraps: `us` is below `DayUnit` (2^40 in the code).

### Fairness

`RoughtimeClient`'s `FairSpec` assumes `WF_vars(Client)`. `GnssTester`'s assumes weak fairness of each thread, for the same reason. `main()` is a single thread that runs whenever it can. Every wait in `makeRequest` ends by an answer or by the transport's timeout, which the model has as `RequestTimeout`, always enabled while waiting. No fairness is assumed for the server, the network or the attacker.

## Proofs (TLAPS)

### `CraggyTimeUtils_proofs`

- `ExactAfterEpoch`: `Spec => []MatchesReferenceAfterEpoch`.
  - It holds for every `Word`, `DayUnit` and set of day constants that satisfy `ConstantsAssumption`.
  - `ConstantsAssumption` includes `NoOverflowBound`: `2*DayUnit <= Word`, and the largest post-epoch day in seconds plus the largest microsecond term stays below `Word`. The code's constants satisfy it.
  - The inductive invariant is `TypeOK /\ MatchesReferenceAfterEpoch`.
  - The argument is lemma `ConvertExact`. It bounds each intermediate in turn: the day count, its product with 86400, `us + rtt/2`, and the final sum. It then shows that no reduction modulo the word changes any of them.
  - `DivBelowMultiple` supplies the quotient bound.
- `UnitTestFixture`: with `Word = 2^64`, `DayUnit = 2^40` and the code's defines, `RoughtimeToEpoc(65312145749359830, 1000000) = 1625585148`. This is the gtest of `part_005`.

### `RoughtimeClient_proofs`

- `TypeCorrect`: `Spec => []TypeOK`.
  - `TypeOK` alone is not inductive. The strengthening `TypeInv` adds three facts:
    - `pc = "await"` implies `repeats > 0`, so the count-down stays in `0..255`;
    - after the usage check, `hostname` and `publicKey` are not `NULL`, so `heap[hostname]` is defined;
    - in the loop, the nonce is a real nonce.
- `AcceptedAuthentic`: `Spec => []AcceptedIsAuthentic`. It holds for every argument vector, clock bound, skew, offset limit, and with or without the attacker. The inductive invariant `IInv` is `TypeInv` plus:
  - `NetGenuine`: every response in flight is the server's.
  - `BeforeFirstSend`: until the nonce is sent, no pending request or signed SREP holds it, and nothing has been accepted.
  - `NonceFixed`: the nonce is fixed before the loop and is never the other client's nonce; `firstSent` is not later than `now`.
  - `SignedAfterSend`: every SREP over the nonce was signed at or after `firstSent`.
  - The property itself.
- `VerifiedIsSigned` carries the security argument. A response that passes `Verify` has the root key as certificate signer. The only certificate the root key made names `DeleKey`, so the SREP's signer is `DeleKey`, and the attacker cannot sign with it. The SREP is therefore one the server signed.

TLC checked `IInv` as an invariant of the `client_safety` instance before it was proved. `InvAlways` (`Spec => []IInv`) is stated once and used by both theorems that need it.

- `SessionRefinement`: `Spec => ImplementsSession`. `main()` refines the Session Driver for every constant that satisfies `ConstantsAssumption`. The argument has three parts:
  - `SessionInit`: `Init` maps to the abstract `Init`.
  - `SessionStep`: under `IInv`, each step is either an abstract step or a stutter, with one case per client action.
    - The option steps and the environment's requests and drops are stutters (`SessionStutter`).
    - Every `goto error` is `Fail` (`SessionFail`).
    - `SendRequest` is `Request`.
    - `ServerRespond` is `Sign`.
    - An accepted `ReceiveResponse` is `Verify`. Its witness is the SREP that `VerifiedIsSigned` shows the server signed, and `SignedAfterSend` dates it at or after `firstSent`.
  - The temporal step combines these with `InvAlways`.

- `FreshEstimate`: `Spec => []FreshEstimateWithinRoundTrip`, for every constant that satisfies `ConstantsAssumption`, any `Skew` and with or without the attacker.
  - The inductive invariant is `IInv /\ ClockInv`. `ClockInv` adds three facts:
    - every signed midpoint is at or before `now`, since the server signs at its clock;
    - while `main()` waits, `start` is at or before `now`;
    - an accepted exchange has `start <= end` and `midp <= end`, and its `ts` is `midp + (end - start) \div 2`.
  - `ClockStep` has one case per action. An accepted `ReceiveResponse` needs `VerifiedIsSigned` again: the accepted midpoint is a signed one, so it is at or before `now`.
  - `FreshFromClock` is the arithmetic: with `start <= midp <= end`, the estimate is within `d - d \div 2` of `end`, where `d = end - start`.
  - TLC checked `IInv /\ ClockInv` on the `client_safety` instance before it was proved.

The assumptions the proofs rest on are the named `ConstantsAssumption` of each module:
- the nonces and keys are distinct;
- the `NoNonce` sentinel is not a nonce;
- the converter's overflow bound.

The client's `Init` also has `signed = {}`: no SREP over this run's nonce exists before the run. For a `-n` nonce given on the command line this is an assumption about the environment, not something the code ensures; the freshness conjunct of `AcceptedIsAuthentic` rests on it.

### `GnssTester_proofs`

- `FittingNeverOverruns`: `Spec => []FittingFragmentsNeverOverrun`. It holds, spurious wakeups included, for every `SizeWord`, `RetGarbage` and `BufSize` of at least two frames (`ConstantsAssumption`; the code's `msg_buf` is 1024 bytes).
  - Lemma `FittingRetIs`: the values that fit the 8-byte frame are `{0, 1, 2, 4, 8}`.
  - `TypeStep` shows `TypeOK` is inductive; the one arithmetic fact is that a value taken `% SizeWord` lies in `0..SizeWord-1`.
  - The inductive invariant `FragInv` adds, for a fitting `ret`: `multi_fragment_offset = packet_len`, `packet_len` below the frame length, `packet_len = 0` when `ret = 0`, and `packet_len` a multiple of `ret` otherwise.
  - Lemma `FittingFragment` does the arithmetic, one case per fitting `ret`: the next fragment ends at or before the frame end, so either the frame is still short of complete or it completes exactly and both counters reset. The `memcpy` therefore writes at most two frames into `msg_buf`.
  - TLC checked `FragInv` on the `gnss_safety` instance, with `ret` values both fitting and not, before it was proved.

### `UbxParse_proofs`

- `SatCountBounded`: `Spec => []SatCountWithinCapacity`, for any `MAXCHANNELS > 0` and any set of typed frames.
  - `satVisible \in 0..MAXCHANNELS` is inductive.
  - NAV-SAT stores `nchan` only on the arm after its `MAXCHANNELS` refusal. The proof splits on the guards of that `CASE`.
- `RejectsAreAtomic`: `Spec => RejectLeavesSlots`. Every step satisfies it, with no invariant needed.
  - Most handlers check before they write. TIM-TP does not: it clears `skyview[0]` and the head of `raw` (lines 1610–1611) before its length check, so a refused TIM-TP frame may still touch slot 0.
  - The proof has one case per handler; the TIM-TP case shows that its writes lie in `skyview \cup {0}` and `meas \cup {0}`, and the RAWX case that every write happens on the arm that sets `RAW`.

### Model-checked only

`Terminates` is a liveness property, and TLAPS does not prove liveness under fairness here. It is checked only by TLC, as are `WaitEnds` and `MainReturns`, and the violated invariants of the finding runs. The type invariants of the converter, tester and UBX modules are not checked as properties; the tester's `TypeOK` remains as a lemma of its proofs.

## Not modelled, and why

- The wire codec and the cryptography are outside `src/`. The spec gives them only as contracts, which are modelled abstractly.
- The tester's `tp_lock` body (Roughtime exchange, `uint32_t` round trip) is dead code, because nothing sets `tp_lock`; `simulator_t` in `gps-sim.h` does not even declare that field, so the file as written does not compile. It is not modelled beyond `Spin`.
- SIGINT's handler writes `run`, which nothing reads. It is not modelled.
- The gpsd subframe decoder called by SFRB/SFRBX is outside the repository. Its result is abstracted to the `SUBFRAME` mask.
- The variant `main()` of `roughtest/CMakeLists.txt` is C text pasted into a CMake script. CMake cannot process the file, so this `main()` is never built. Its session half repeats the CLI's.
- The variant `main()` of `gps-sim.h` (lines 97–395) does not compile. `int ret` is declared twice in one scope (lines 218 and 290). Had it been built, its `-p` case copies the port name but never sets `gpsPort`, so the usage check at line 281 would end every run. Only its `simulator_t` is modelled.
- `session.h` holds structs nobody uses and no behaviour.
- `createRequest` is assumed to succeed. Its failure path in `main.c:178` skips the exchange and counts down, and the spec gives it no failure for a 32-byte nonce.
- Logging, `printf` and the value of `intervals` (only a `sleep`) are left out.
