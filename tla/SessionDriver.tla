---------------------------- MODULE SessionDriver ----------------------------
(***************************************************************************)
(* The Session Driver of spec 4.6, as a state machine over what a client   *)
(* promises and nothing else: it is configured once (options, root key,    *)
(* nonce), then alternates between handing a request to the transport and *)
(* accepting a verified response, until it stops (done) or any error ends  *)
(* the session for good (failed: no retry).                                *)
(*                                                                         *)
(* Spec 4.6 names the states Idle, Requesting, AwaitingResponse, Verified  *)
(* and Failed.  Requesting (building the request and handing it to the     *)
(* transport) is one step here, and Verified is the step that returns to   *)
(* idle for the next repeat.                                               *)
(*                                                                         *)
(* The server is part of the environment: it signs SREPs, each over a      *)
(* batch of nonces and its clock at signing time.  A verified response is  *)
(* one of those SREPs whose tree holds the session nonce (spec 4.4 step 5) *)
(* and that was signed no earlier than the nonce was first sent.           *)
(***************************************************************************)
EXTENDS Integers

CONSTANTS
    Nonces,         \* the nonces the server can be asked to sign
    ClientNonces,   \* the nonces a client can choose for its session
    MaxTime,        \* bound on the server's clock
    NoNonce,        \* the session nonce before configuration
    NoTime          \* a time that has not happened

VARIABLES
    state,      \* "config", "idle", "awaiting", "failed" or "done"
    nonce,      \* the session nonce
    sentAt,     \* when the session nonce was first handed to the transport
    verified,   \* SREP.MIDP of the last verified response
    signed,     \* the SREPs the server has signed: [leaves, midp]
    now         \* the clock

vars == <<state, nonce, sentAt, verified, signed, now>>

Init ==
    /\ state = "config"
    /\ nonce = NoNonce
    /\ sentAt = NoTime
    /\ verified = NoTime
    /\ signed = {}
    /\ now = 0

\* Options, root key and nonce are accepted; the nonce is fixed for good.
Configure ==
    /\ state = "config"
    /\ state' = "idle"
    /\ nonce' \in ClientNonces
    /\ UNCHANGED <<sentAt, verified, signed, now>>

\* A configuration, transport, decoding or verification error.
Fail ==
    /\ state \in {"config", "awaiting"}
    /\ state' = "failed"
    /\ UNCHANGED <<nonce, sentAt, verified, signed, now>>

\* The request for the session nonce is handed to the transport.
Request ==
    /\ state = "idle"
    /\ state' = "awaiting"
    /\ sentAt' = IF sentAt = NoTime THEN now ELSE sentAt
    /\ UNCHANGED <<nonce, verified, signed, now>>

\* A response verifies: its SREP was signed by the server over a tree that
\* holds the session nonce, after that nonce was first sent.
Verify ==
    /\ state = "awaiting"
    /\ \E s \in signed :
          /\ nonce \in s.leaves
          /\ s.midp >= sentAt
          /\ verified' = s.midp
    /\ state' = "idle"
    /\ UNCHANGED <<nonce, sentAt, signed, now>>

\* The repeats are used up.
Finish ==
    /\ state = "idle"
    /\ state' = "done"
    /\ UNCHANGED <<nonce, sentAt, verified, signed, now>>

\* The server signs one SREP over a batch of nonces at its clock.
Sign ==
    /\ \E B \in (SUBSET Nonces) \ {{}} :
          signed' = signed \cup {[leaves |-> B, midp |-> now]}
    /\ UNCHANGED <<state, nonce, sentAt, verified, now>>

Tick ==
    /\ now < MaxTime
    /\ now' = now + 1
    /\ UNCHANGED <<state, nonce, sentAt, verified, signed>>

Next ==
    \/ Configure \/ Fail \/ Request \/ Verify \/ Finish
    \/ Sign \/ Tick

Spec == Init /\ [][Next]_vars
=============================================================================
