--------------------------- MODULE RoughtimeClient ---------------------------
(***************************************************************************)
(* The command-line Roughtime client of src/cli/main.c: option parsing,    *)
(* configuration checks, nonce set-up and the repeat loop that sends a     *)
(* request, waits for a response, verifies it and checks the clock        *)
(* offset.  The library calls the loop makes (craggy_generateNonce,        *)
(* craggy_createRequest, craggy_makeRequest, craggy_processResponse) are   *)
(* not under src/ and are modelled from the spec (sections 4.2-4.4).       *)
(*                                                                         *)
(* The environment is a Roughtime server that batches the requests it has  *)
(* received into one signed SREP per batch, a network that may drop or     *)
(* redeliver the responses sent to the client, and (when Attacker) an      *)
(* on-path adversary who can replay any response the server ever signed    *)
(* and forge anything that needs no secret key.                            *)
(***************************************************************************)
EXTENDS Integers, Sequences, FiniteSets

CONSTANTS
    HostArg,        \* the text of the -h argument ("host:port")
    NonceB64,       \* a -n argument that base64-decodes to 32 bytes
    KeyB64,         \* a -k argument that base64-decodes to 32 bytes
    BadB64,         \* an argument that decodes to some other length
    Garbage,        \* the contents of a malloc'd buffer nobody wrote
    Argvs,          \* the argument vectors (as getopt returns them) to try
    FixedNonce,     \* the nonce NonceB64 decodes to
    RandNonce,      \* the nonce craggy_generateNonce produces
    OtherNonce,     \* the nonce of another client of the same server
    RootKey,        \* the server's long-term key (the -k key)
    DeleKey,        \* the server's delegated online key
    AttKey,         \* a key of the adversary
    MaxTime,        \* bound on the real-time clock (microseconds, scaled)
    Skew,           \* how far the client's realtime clock is off
    OffsetLimit,    \* kTenMinutes, scaled
    Attacker        \* whether an on-path adversary is present

Strings == {HostArg, NonceB64, KeyB64, BadB64, Garbage}
Nonces == {FixedNonce, RandNonce, OtherNonce}
Keys == {RootKey, DeleKey, AttKey}
Times == 0..MaxTime
Options == [opt : {"h", "n", "k"}, arg : Strings] \cup [opt : {"r", "i"}, arg : Nat]

NULL == 0                 \* the null pointer; heap buffers are 1..Len(heap)
NoNonce == "none"
NoTime == -1
NoHost == "nohost"
NoExit == -1
NoExchange == [midp |-> NoTime, start |-> NoTime, end |-> NoTime, ts |-> NoTime]
Final == {"exited", "crashed"}

ASSUME ConstantsAssumption ==
    /\ Cardinality(Strings) = 5
    /\ OtherNonce \notin {FixedNonce, RandNonce}
    /\ NoNonce \notin Nonces
    /\ RootKey # DeleKey /\ AttKey \notin {RootKey, DeleKey}
    /\ Argvs \subseteq Seq(Options)
    /\ MaxTime \in Nat
    /\ Skew \in Int
    /\ OffsetLimit \in Nat
    /\ Attacker \in BOOLEAN

VARIABLES
    pc,          \* where main() is
    argv,        \* the options getopt_long returns, in order
    argi,        \* index of the next option getopt_long returns
    heap,        \* malloc'd string buffers: heap[p] is the string at p
    hostname,    \* char *hostname
    nonce,       \* char *nonce
    publicKey,   \* char *publicKey
    repeats,     \* uint8_t repeats
    nonceBytes,  \* the 32-byte nonce every request of the loop carries
    start,       \* start_us of the current exchange
    dest,        \* the host the last request was sent to
    firstSent,   \* when nonceBytes was first sent (history)
    last,        \* the last exchange that passed every check (history)
    outcome,     \* how main() left: "ok", "usage" or "error"
    exitCode,    \* the value main() returns
    now,         \* real time; the monotonic clock reads now
    pending,     \* nonces of requests the server has received, not answered
    signed,      \* the SREPs the server has signed: [leaves, midp]
    net          \* responses on their way to the client

clientVars == <<pc, argv, argi, heap, hostname, nonce, publicKey, repeats,
                nonceBytes, start, dest, firstSent, last, outcome, exitCode>>
envVars == <<now, pending, signed, net>>
vars == <<clientVars, envVars>>

-----------------------------------------------------------------------------
(***************************************************************************)
(* Responses and their verification (spec 4.4).  A response is abstracted  *)
(* to who signed CERT.DELE, the delegated key DELE names, who signed SREP, *)
(* the leaves of the Merkle tree SREP.ROOT commits to (with ideal hashes   *)
(* the PATH/INDX walk reaches ROOT exactly when the nonce's leaf is one of *)
(* them) and SREP.MIDP.                                                    *)
(***************************************************************************)
Response == [certSigner : Keys, dele : Keys, srepSigner : Keys,
             leaves : SUBSET Nonces, midp : Times]
Srep == [leaves : SUBSET Nonces, midp : Times]

\* The response the server sends for a nonce of the batch srep covers.
Genuine(s) == [certSigner |-> RootKey, dele |-> DeleKey, srepSigner |-> DeleKey,
               leaves |-> s.leaves, midp |-> s.midp]

\* What the adversary can build: the root key only ever certified DeleKey,
\* and only SREPs the server signed carry DeleKey's signature.
CertParts == {[s |-> RootKey, d |-> DeleKey]} \cup [s : {AttKey}, d : {DeleKey, AttKey}]
SrepParts == {[signer |-> DeleKey, leaves |-> s.leaves, midp |-> s.midp] : s \in signed}
             \cup [signer : {AttKey}, leaves : SUBSET Nonces, midp : Times]
Forgeries == {[certSigner |-> c.s, dele |-> c.d, srepSigner |-> p.signer,
               leaves |-> p.leaves, midp |-> p.midp] : c \in CertParts, p \in SrepParts}

\* A response the client can receive while it waits.
Deliverable == net \cup (IF Attacker THEN Forgeries ELSE {})

\* Mutant: the Merkle inclusion check left out.
VerifyNoMerkle(r, n) == r.certSigner = RootKey /\ r.srepSigner = r.dele

\* craggy_processResponse: CERT.SIG by the root key over DELE, SIG by the
\* delegated key over SREP, and the nonce's leaf included under ROOT.
Verify(r, n) ==
    /\ r.certSigner = RootKey
    /\ r.srepSigner = r.dele
    /\ n \in r.leaves

-----------------------------------------------------------------------------
Init ==
    /\ pc = "parse"
    /\ argv \in Argvs
    /\ argi = 1
    /\ heap = <<>>
    /\ hostname = NULL /\ nonce = NULL /\ publicKey = NULL
    /\ repeats = 1
    /\ nonceBytes = NoNonce
    /\ start = NoTime
    /\ dest = NoHost
    /\ firstSent = NoTime
    /\ last = NoExchange
    /\ outcome = "none"
    /\ exitCode = NoExit
    /\ now = 0
    /\ pending = {OtherNonce}
    /\ signed = {}
    /\ net = {}

\* goto error; ... return result;  (result is 1 on every path)
Fail ==
    /\ pc' = "exited"
    /\ outcome' = "error"
    /\ exitCode' = 1

\* Mutant: repeats = atoi(optarg) without the uint8_t truncation.
ParseRepeatsWide(o) == repeats' = o.arg

\* case 'r': repeats = atoi(optarg), stored in a uint8_t.
ParseRepeats(o) == repeats' = o.arg % 256

\* One turn of the getopt_long loop.  case 'n' copies the nonce text into
\* the hostname buffer (a NULL hostname makes strcpy fault) and points
\* nonce at that buffer; the buffer malloc'd for the nonce is never written.
ParseOption ==
    /\ pc = "parse"
    /\ argi <= Len(argv)
    /\ argi' = argi + 1
    /\ LET o == argv[argi] IN
       \/ /\ o.opt = "h"
          /\ heap' = Append(heap, o.arg)
          /\ hostname' = Len(heap) + 1
          /\ UNCHANGED <<pc, nonce, publicKey, repeats>>
       \/ /\ o.opt = "n"
          /\ hostname = NULL
          /\ pc' = "crashed"
          /\ heap' = Append(heap, Garbage)
          /\ UNCHANGED <<nonce, hostname, publicKey, repeats>>
       \/ /\ o.opt = "n"
          /\ hostname # NULL
          /\ heap' = [Append(heap, Garbage) EXCEPT ![hostname] = o.arg]
          /\ nonce' = hostname
          /\ UNCHANGED <<pc, hostname, publicKey, repeats>>
       \/ /\ o.opt = "k"
          /\ heap' = Append(heap, o.arg)
          /\ publicKey' = Len(heap) + 1
          /\ UNCHANGED <<pc, nonce, hostname, repeats>>
       \/ /\ o.opt = "r"
          /\ ParseRepeats(o)
          /\ UNCHANGED <<pc, heap, nonce, hostname, publicKey>>
       \/ /\ o.opt = "i"
          /\ UNCHANGED <<pc, heap, nonce, hostname, publicKey, repeats>>
    /\ UNCHANGED <<argv, nonceBytes, start, dest, firstSent, last, outcome, exitCode>>
    /\ UNCHANGED envVars

\* The usage check after the options: a missing -k or -h, or no repeat.
CheckUsage ==
    /\ pc = "parse"
    /\ argi > Len(argv)
    /\ IF publicKey = NULL \/ hostname = NULL \/ repeats < 1
       THEN /\ pc' = "exited" /\ outcome' = "usage" /\ exitCode' = 1
       ELSE /\ pc' = "key" /\ UNCHANGED <<outcome, exitCode>>
    /\ UNCHANGED <<argv, argi, heap, hostname, nonce, publicKey, repeats,
                   nonceBytes, start, dest, firstSent, last>>
    /\ UNCHANGED envVars

\* base64-decode the root public key; anything but 32 bytes is an error.
DecodeKey ==
    /\ pc = "key"
    /\ IF heap[publicKey] = KeyB64
       THEN pc' = "nonce" /\ UNCHANGED <<outcome, exitCode>>
       ELSE Fail
    /\ UNCHANGED <<argv, argi, heap, hostname, nonce, publicKey, repeats,
                   nonceBytes, start, dest, firstSent, last>>
    /\ UNCHANGED envVars

\* The nonce of every exchange: the decoded -n text, or one call of
\* craggy_generateNonce, which may fail (spec 4.2: RandomUnavailable).
SetupNonce ==
    /\ pc = "nonce"
    /\ \/ /\ nonce # NULL
          /\ IF heap[nonce] = NonceB64
             THEN pc' = "loop" /\ nonceBytes' = FixedNonce /\ UNCHANGED <<outcome, exitCode>>
             ELSE Fail /\ UNCHANGED nonceBytes
       \/ /\ nonce = NULL
          /\ pc' = "loop" /\ nonceBytes' = RandNonce /\ UNCHANGED <<outcome, exitCode>>
       \/ /\ nonce = NULL
          /\ Fail /\ UNCHANGED nonceBytes
    /\ UNCHANGED <<argv, argi, heap, hostname, nonce, publicKey, repeats,
                   start, dest, firstSent, last>>
    /\ UNCHANGED envVars

\* TimeUs reads a clock in microseconds; clock_gettime fails (abort) only
\* for a clock id main() never passes.  The monotonic clock reads the
\* model's time, the realtime clock is off from it by Skew.
MonotonicUs == now

RealtimeUs == now + Skew

\* Loop head with repeats > 0: craggy_createRequest, start_us, and the send
\* half of craggy_makeRequest to the host named by the hostname buffer.
SendRequest ==
    /\ pc = "loop"
    /\ repeats > 0
    /\ start' = MonotonicUs
    /\ dest' = heap[hostname]
    /\ pending' = IF heap[hostname] = HostArg THEN pending \cup {nonceBytes} ELSE pending
    /\ firstSent' = IF firstSent = NoTime THEN now ELSE firstSent
    /\ pc' = "await"
    /\ UNCHANGED <<argv, argi, heap, hostname, nonce, publicKey, repeats,
                   nonceBytes, last, outcome, exitCode>>
    /\ UNCHANGED <<now, signed, net>>

\* Mutant: the loop forgets to count the exchange.
CountDownSkipped == repeats' = repeats

\* sleep(intervals); repeats = repeats - 1;  (the sleep is time passing)
CountDown == repeats' = repeats - 1

\* Mutant: the whole round trip is added to the midpoint, not half of it.
ReceiveResponseFullRtt(r) ==
    /\ pc = "await"
    /\ LET ts  == r.midp + (MonotonicUs - start)
           off == ts - RealtimeUs
       IN IF ~Verify(r, nonceBytes) \/ off > OffsetLimit \/ -off > OffsetLimit
          THEN Fail /\ UNCHANGED <<last, repeats>>
          ELSE /\ last' = [midp |-> r.midp, start |-> start, end |-> MonotonicUs, ts |-> ts]
               /\ CountDown
               /\ pc' = "loop"
               /\ UNCHANGED <<outcome, exitCode>>
    /\ UNCHANGED <<argv, argi, heap, hostname, nonce, publicKey, nonceBytes,
                   start, dest, firstSent>>
    /\ UNCHANGED envVars

\* craggy_makeRequest returns a response r; craggy_processResponse checks
\* it; the timestamp gets half the round trip added and is compared with
\* the realtime clock; then sleep(intervals) and repeats - 1.
ReceiveResponse(r) ==
    /\ pc = "await"
    /\ LET ts  == r.midp + (MonotonicUs - start) \div 2
           off == ts - RealtimeUs
       IN IF ~Verify(r, nonceBytes) \/ off > OffsetLimit \/ -off > OffsetLimit
          THEN Fail /\ UNCHANGED <<last, repeats>>
          ELSE /\ last' = [midp |-> r.midp, start |-> start, end |-> MonotonicUs, ts |-> ts]
               /\ CountDown
               /\ pc' = "loop"
               /\ UNCHANGED <<outcome, exitCode>>
    /\ UNCHANGED <<argv, argi, heap, hostname, nonce, publicKey, nonceBytes,
                   start, dest, firstSent>>
    /\ UNCHANGED envVars

\* Mutant: a timed-out exchange is retried instead of ending the session.
RequestTimeoutRetry ==
    /\ pc = "await"
    /\ pc' = "loop"
    /\ UNCHANGED <<argv, argi, heap, hostname, nonce, publicKey, repeats,
                   nonceBytes, start, dest, firstSent, last, outcome, exitCode>>
    /\ UNCHANGED envVars

\* craggy_makeRequest fails (no answer before the transport's timeout).
RequestTimeout ==
    /\ pc = "await"
    /\ Fail
    /\ UNCHANGED <<argv, argi, heap, hostname, nonce, publicKey, repeats,
                   nonceBytes, start, dest, firstSent, last>>
    /\ UNCHANGED envVars

\* repeats reached 0: goto exit; return result.
LoopExit ==
    /\ pc = "loop"
    /\ repeats = 0
    /\ pc' = "exited"
    /\ outcome' = "ok"
    /\ exitCode' = 1
    /\ UNCHANGED <<argv, argi, heap, hostname, nonce, publicKey, repeats,
                   nonceBytes, start, dest, firstSent, last>>
    /\ UNCHANGED envVars

-----------------------------------------------------------------------------
(* The environment. *)

\* The server signs one SREP for a batch of pending requests, at its clock.
ServerRespond ==
    /\ \E B \in (SUBSET pending) \ {{}} :
         LET s == [leaves |-> B, midp |-> now] IN
         /\ signed' = signed \cup {s}
         /\ net' = IF nonceBytes \in B THEN net \cup {Genuine(s)} ELSE net
         /\ pending' = pending \ B
    /\ UNCHANGED <<clientVars, now>>

\* Another client asks the same server.
OtherRequest ==
    /\ OtherNonce \notin pending
    /\ pending' = pending \cup {OtherNonce}
    /\ UNCHANGED <<clientVars, now, signed, net>>

\* The network loses a response.
DropResponse ==
    /\ \E r \in net : net' = net \ {r}
    /\ UNCHANGED <<clientVars, now, pending, signed>>

Tick ==
    /\ now < MaxTime
    /\ now' = now + 1
    /\ UNCHANGED <<clientVars, pending, signed, net>>

\* main() has returned or faulted.
Terminated ==
    /\ pc \in Final
    /\ UNCHANGED vars

Client ==
    \/ ParseOption \/ CheckUsage \/ DecodeKey \/ SetupNonce
    \/ SendRequest \/ \E r \in Deliverable : ReceiveResponse(r)
    \/ RequestTimeout \/ LoopExit

Next == Client \/ ServerRespond \/ OtherRequest \/ DropResponse \/ Tick \/ Terminated

Spec == Init /\ [][Next]_vars

\* main() is one thread that runs whenever it can; the transport's timeout
\* bounds every wait for a response.
FairSpec == Spec /\ WF_vars(Client)

-----------------------------------------------------------------------------
TypeOK ==
    /\ pc \in {"parse", "key", "nonce", "loop", "await"} \cup Final
    /\ argv \in Argvs
    /\ argi \in 1..(Len(argv) + 1)
    /\ heap \in Seq(Strings)
    /\ {hostname, nonce, publicKey} \subseteq 0..Len(heap)
    /\ repeats \in 0..255
    /\ nonceBytes \in Nonces \cup {NoNonce}
    /\ start \in Times \cup {NoTime}
    /\ dest \in Strings \cup {NoHost}
    /\ firstSent \in Times \cup {NoTime}
    /\ outcome \in {"none", "ok", "usage", "error"}
    /\ exitCode \in {NoExit, 0, 1}
    /\ now \in Times
    /\ pending \subseteq Nonces
    /\ signed \subseteq Srep
    /\ net \subseteq Response

(***************************************************************************)
(* The timestamp the client accepted was signed by the server, for a batch *)
(* holding the client's nonce, no earlier than that nonce was first sent:  *)
(* the chained signatures and the Merkle check of craggy_processResponse   *)
(* bind a response to nonceBytes, so neither a forgery nor a response to   *)
(* another client's request, nor one older than the nonce, gets accepted.  *)
(***************************************************************************)
AcceptedIsAuthentic ==
    last # NoExchange =>
        /\ \E s \in signed : s.midp = last.midp /\ nonceBytes \in s.leaves
        /\ firstSent # NoTime /\ last.midp >= firstSent

(***************************************************************************)
(* The estimate the client accepts is within half a round trip of the     *)
(* true time at which it is made (the symmetric-path assumption of the    *)
(* comment at main.c:202 and of spec 4.6), i.e. the response it accepted  *)
(* was produced during the exchange that accepted it.                      *)
(***************************************************************************)
EstimateWithinRoundTrip ==
    last # NoExchange =>
        LET d == last.end - last.start IN
        /\ last.ts - last.end <= d - d \div 2
        /\ last.end - last.ts <= d - d \div 2

(***************************************************************************)
(* The replay of client_replay is the only way to break the bound above:  *)
(* when the midpoint the client accepts was signed no earlier than the    *)
(* exchange started (start_us of main.c:190), adding half the round trip  *)
(* at main.c:202 puts the estimate within half a round trip of the time   *)
(* the response arrived, for any clock skew, offset limit and attacker.   *)
(***************************************************************************)
FreshEstimateWithinRoundTrip ==
    last.midp >= last.start => EstimateWithinRoundTrip

(***************************************************************************)
(* Every request goes to the server named by -h.                           *)
(***************************************************************************)
ContactsConfiguredHost == dest \in {NoHost, HostArg}

(***************************************************************************)
(* The refinement mapping onto the Session Driver of spec 4.6: the option, *)
(* key and nonce steps are its configuration, the loop head is idle, the   *)
(* wait for craggy_makeRequest is awaiting, and main()'s exits are done   *)
(* (repeats used up) or failed (usage, error or fault).                    *)
(***************************************************************************)
SessionState ==
    IF pc \in {"parse", "key", "nonce"} THEN "config"
    ELSE IF pc = "loop" THEN "idle"
    ELSE IF pc = "await" THEN "awaiting"
    ELSE IF pc = "exited" /\ outcome = "ok" THEN "done"
    ELSE "failed"

Session == INSTANCE SessionDriver
    WITH ClientNonces <- {FixedNonce, RandNonce},
         state <- SessionState, nonce <- nonceBytes, sentAt <- firstSent,
         verified <- last.midp

(***************************************************************************)
(* main() implements the Session Driver: it is configured once, fails for *)
(* good on any error (craggy_makeRequest and craggy_processResponse        *)
(* failures are never retried), and each repeat accepts only a timestamp   *)
(* the server signed for the session nonce after that nonce was sent.      *)
(***************************************************************************)
ImplementsSession == Session!Spec

(***************************************************************************)
(* main() always returns: every exchange ends, by an answer or by the     *)
(* transport's timeout, and each completed one counts repeats down.        *)
(***************************************************************************)
Terminates == <>(pc \in Final)
=============================================================================
