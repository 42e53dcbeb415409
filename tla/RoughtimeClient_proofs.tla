------------------------ MODULE RoughtimeClient_proofs ------------------------
(***************************************************************************)
(* Proofs about the client of src/cli/main.c for every argument vector,    *)
(* clock bound and offset limit: its state stays well typed, the          *)
(* timestamp it accepts was signed by the server for its own nonce, a      *)
(* fresh one gives an estimate within half a round trip, and main()        *)
(* implements the Session Driver.                                          *)
(***************************************************************************)
EXTENDS RoughtimeClient, TLAPS

(***************************************************************************)
(* What TypeOK needs to be inductive: the loop only waits with a repeat   *)
(* left to count down, and after the usage check both -h and -k buffers   *)
(* exist.                                                                  *)
(***************************************************************************)
TypeInv ==
    /\ TypeOK
    /\ pc = "await" => repeats > 0
    /\ pc \in {"key", "nonce", "loop", "await"} =>
           hostname # NULL /\ publicKey # NULL
    /\ pc \in {"loop", "await"} => nonceBytes \in Nonces

(***************************************************************************)
(* Why the client only accepts the server's signature over its own nonce. *)
(***************************************************************************)
\* Every response on the wire is the server's, for an SREP it signed.
NetGenuine ==
    \A r \in net :
        /\ r.certSigner = RootKey /\ r.dele = DeleKey /\ r.srepSigner = DeleKey
        /\ [leaves |-> r.leaves, midp |-> r.midp] \in signed

\* Until the nonce is first sent, no request or SREP holds it, and nothing
\* has been accepted.
BeforeFirstSend ==
    firstSent = NoTime =>
        /\ last = NoExchange
        /\ pending \subseteq {OtherNonce}
        /\ \A s \in signed : s.leaves \subseteq {OtherNonce}

\* The nonce is fixed before the loop and sent at a time already passed.
NonceFixed ==
    /\ nonceBytes # OtherNonce
    /\ pc \in {"parse", "key", "nonce"} => firstSent = NoTime /\ nonceBytes = NoNonce
    /\ pc \in {"loop", "await"} => nonceBytes # NoNonce
    /\ pc = "await" => firstSent # NoTime
    /\ firstSent # NoTime => firstSent <= now /\ nonceBytes # NoNonce

\* Every SREP covering the nonce was signed after it was first sent.
SignedAfterSend ==
    \A s \in signed :
        nonceBytes \in s.leaves => firstSent # NoTime /\ s.midp >= firstSent

AuthInv ==
    /\ NetGenuine
    /\ BeforeFirstSend
    /\ NonceFixed
    /\ SignedAfterSend
    /\ AcceptedIsAuthentic

IInv == TypeInv /\ AuthInv

-----------------------------------------------------------------------------
\* The option getopt_long returns next is one of Options.
LEMMA OptionType ==
    ASSUME TypeOK, argi <= Len(argv)
    PROVE  /\ argv[argi] \in Options
           /\ argv[argi].opt \in {"h", "n", "k"} => argv[argi].arg \in Strings
           /\ argv[argi].opt \in {"r", "i"} => argv[argi].arg \in Nat
<1>1. argv \in Seq(Options) /\ argi \in 1..Len(argv)
  BY ConstantsAssumption DEF TypeOK
<1>2. argv[argi] \in Options
  BY <1>1
<1>3. QED
  BY <1>2 DEF Options

LEMMA ParseOptionType ==
    TypeInv /\ ParseOption => TypeInv'
<1> SUFFICES ASSUME TypeInv, ParseOption PROVE TypeInv'
  OBVIOUS
<1> DEFINE o == argv[argi]
<1>1. argi <= Len(argv) /\ argi' = argi + 1 /\ pc = "parse"
  BY DEF ParseOption
<1>2. o \in Options /\ (o.opt \in {"h", "n", "k"} => o.arg \in Strings)
                    /\ (o.opt \in {"r", "i"} => o.arg \in Nat)
  BY <1>1, OptionType DEF TypeInv
<1>3. UNCHANGED <<argv, nonceBytes, start, dest, firstSent, last, outcome,
                  exitCode, now, pending, signed, net>>
  BY DEF ParseOption, envVars
<1>4. argi' \in 1..(Len(argv') + 1)
  BY <1>1, <1>3 DEF TypeInv, TypeOK
<1>5. CASE o.opt = "h"
  <2>1. heap' = Append(heap, o.arg) /\ hostname' = Len(heap) + 1
        /\ UNCHANGED <<pc, nonce, publicKey, repeats>>
    BY <1>5 DEF ParseOption
  <2>2. o.arg \in Strings /\ heap \in Seq(Strings)
    BY <1>2, <1>5 DEF TypeInv, TypeOK
  <2>3. heap' \in Seq(Strings) /\ Len(heap') = Len(heap) + 1
    BY <2>1, <2>2
  <2>4. {hostname', nonce', publicKey'} \subseteq 0..Len(heap')
    BY <2>1, <2>3 DEF TypeInv, TypeOK
  <2>5. QED
    BY <1>1, <1>3, <1>4, <2>1, <2>3, <2>4 DEF TypeInv, TypeOK
<1>6. CASE o.opt = "n" /\ hostname = NULL
  <2>1. heap' = Append(heap, Garbage) /\ pc' = "crashed"
        /\ UNCHANGED <<nonce, hostname, publicKey, repeats>>
    BY <1>6 DEF ParseOption
  <2>2. QED
    BY <1>3, <1>4, <2>1 DEF TypeInv, TypeOK, Strings, Final
<1>7. CASE o.opt = "n" /\ hostname # NULL
  <2>1. heap' = [Append(heap, Garbage) EXCEPT ![hostname] = o.arg]
        /\ nonce' = hostname
        /\ UNCHANGED <<pc, hostname, publicKey, repeats>>
    BY <1>7 DEF ParseOption
  <2>2. hostname \in 1..Len(heap) /\ heap \in Seq(Strings)
    BY <1>7 DEF TypeInv, TypeOK, NULL
  <2>3. heap' \in Seq(Strings) /\ Len(heap') = Len(heap) + 1
    BY <1>2, <1>7, <2>1, <2>2 DEF Strings
  <2>4. QED
    BY <1>3, <1>4, <2>1, <2>3 DEF TypeInv, TypeOK
<1>8. CASE o.opt = "k"
  <2>1. heap' = Append(heap, o.arg) /\ publicKey' = Len(heap) + 1
        /\ UNCHANGED <<pc, nonce, hostname, repeats>>
    BY <1>8 DEF ParseOption
  <2>2. o.arg \in Strings /\ heap \in Seq(Strings)
    BY <1>2, <1>8 DEF TypeInv, TypeOK
  <2>3. heap' \in Seq(Strings) /\ Len(heap') = Len(heap) + 1
    BY <2>1, <2>2
  <2>4. {hostname', nonce', publicKey'} \subseteq 0..Len(heap')
    BY <2>1, <2>3 DEF TypeInv, TypeOK
  <2>5. QED
    BY <1>1, <1>3, <1>4, <2>1, <2>3, <2>4 DEF TypeInv, TypeOK
<1>9. CASE o.opt = "r"
  <2>1. repeats' = o.arg % 256 /\ UNCHANGED <<pc, heap, nonce, hostname, publicKey>>
    BY <1>9 DEF ParseOption, ParseRepeats
  <2>2. repeats' \in 0..255
    BY <1>2, <1>9, <2>1
  <2>3. QED
    BY <1>1, <1>3, <1>4, <2>1, <2>2 DEF TypeInv, TypeOK
<1>10. CASE o.opt = "i"
  <2>1. UNCHANGED <<pc, heap, nonce, hostname, publicKey, repeats>>
    BY <1>10 DEF ParseOption
  <2>2. QED
    BY <1>3, <1>4, <2>1 DEF TypeInv, TypeOK
<1>11. QED
  BY <1>2, <1>5, <1>6, <1>7, <1>8, <1>9, <1>10 DEF Options

\* A response the client can receive has the shape of a Response.
LEMMA DeliverableType ==
    ASSUME TypeOK PROVE Deliverable \subseteq Response
<1>1. Forgeries \subseteq Response
  <2> SUFFICES ASSUME NEW c \in CertParts, NEW p \in SrepParts
               PROVE  [certSigner |-> c.s, dele |-> c.d, srepSigner |-> p.signer,
                       leaves |-> p.leaves, midp |-> p.midp] \in Response
    BY DEF Forgeries
  <2>1. c.s \in Keys /\ c.d \in Keys
    BY DEF CertParts, Keys
  <2>2. p.signer \in Keys /\ p.leaves \in SUBSET Nonces /\ p.midp \in Times
    BY DEF SrepParts, TypeOK, Srep, Keys
  <2>3. QED
    BY <2>1, <2>2 DEF Response
<1>2. QED
  BY <1>1 DEF Deliverable, TypeOK

\* Every step of main() and of its environment keeps TypeInv.
LEMMA TypeStep == TypeInv /\ [Next]_vars => TypeInv'
<1> SUFFICES ASSUME TypeInv, [Next]_vars PROVE TypeInv'
  OBVIOUS
<1> USE DEF TypeInv, TypeOK
<1>1. CASE ParseOption
  BY <1>1, ParseOptionType
<1>2. CASE CheckUsage
  BY <1>2 DEF CheckUsage, envVars, Final
<1>3. CASE DecodeKey
  BY <1>3 DEF DecodeKey, Fail, envVars, Final
<1>4. CASE SetupNonce
  BY <1>4 DEF SetupNonce, Fail, envVars, Final, Nonces
<1>5. CASE SendRequest
  <2>1. hostname \in 1..Len(heap)
    BY <1>5 DEF SendRequest, MonotonicUs, RealtimeUs, NULL
  <2>2. heap[hostname] \in Strings
    BY <2>1
  <2>3. nonceBytes \in Nonces \cup {NoNonce} /\ pending \subseteq Nonces
    OBVIOUS
  <2>4. pending' \subseteq Nonces \cup {nonceBytes}
    BY <1>5 DEF SendRequest, MonotonicUs, RealtimeUs
  <2>5. pc = "loop" /\ pc' = "await" /\ repeats > 0 /\ nonceBytes \in Nonces
         /\ UNCHANGED <<argv, argi, heap, hostname, nonce, publicKey, repeats,
                        nonceBytes, last, outcome, exitCode, now, signed, net>>
    BY <1>5 DEF SendRequest, MonotonicUs, RealtimeUs
  <2>6. start' \in Times /\ firstSent' \in Times \cup {NoTime} /\ dest' \in Strings
    BY <1>5, <2>2 DEF SendRequest, MonotonicUs, RealtimeUs
  <2>7. pc' \in {"parse", "key", "nonce", "loop", "await"} \cup Final
    BY <2>5
  <2>8. pending' \subseteq Nonces
    BY <2>3, <2>4, <2>5
  <2>9. argv' \in Argvs /\ argi' \in 1..(Len(argv') + 1) /\ heap' \in Seq(Strings)
        /\ {hostname', nonce', publicKey'} \subseteq 0..Len(heap')
    BY <2>5
  <2>10. repeats' \in 0..255 /\ nonceBytes' \in Nonces \cup {NoNonce}
         /\ outcome' \in {"none", "ok", "usage", "error"} /\ exitCode' \in {NoExit, 0, 1}
    BY <2>5
  <2>11. now' \in Times /\ signed' \subseteq Srep /\ net' \subseteq Response
    BY <2>5
  <2>12. QED
    BY <2>5, <2>6, <2>7, <2>8, <2>9, <2>10, <2>11
<1>6. ASSUME NEW r \in Deliverable, ReceiveResponse(r) PROVE TypeInv'
  <2>1. r \in Response
    BY DeliverableType
  <2>2. UNCHANGED <<argv, argi, heap, hostname, nonce, publicKey, nonceBytes,
                    start, dest, firstSent, now, pending, signed, net>>
         /\ pc = "await"
    BY <1>6 DEF ReceiveResponse, MonotonicUs, RealtimeUs, envVars
  <2>3. \/ pc' = "exited" /\ outcome' = "error" /\ exitCode' = 1 /\ UNCHANGED repeats
        \/ pc' = "loop" /\ repeats' = repeats - 1 /\ UNCHANGED <<outcome, exitCode>>
    BY <1>6 DEF ReceiveResponse, MonotonicUs, RealtimeUs, CountDown, Fail
  <2>4. nonceBytes \in Nonces /\ repeats > 0 /\ hostname # NULL /\ publicKey # NULL
    BY <2>2
  <2>5. CASE pc' = "exited" /\ outcome' = "error" /\ exitCode' = 1 /\ UNCHANGED repeats
    BY <2>2, <2>5 DEF Final
  <2>6. CASE pc' = "loop" /\ repeats' = repeats - 1 /\ UNCHANGED <<outcome, exitCode>>
    <3>1. repeats' \in 0..255
      BY <2>4, <2>6
    <3>2. QED
      BY <2>2, <2>4, <2>6, <3>1 DEF Final
  <2>7. QED
    BY <2>3, <2>5, <2>6
<1>7. CASE RequestTimeout
  BY <1>7 DEF RequestTimeout, Fail, envVars, Final
<1>8. CASE LoopExit
  BY <1>8 DEF LoopExit, envVars, Final
<1>9. CASE ServerRespond
  <2>1. PICK B \in (SUBSET pending) \ {{}} :
          LET s == [leaves |-> B, midp |-> now] IN
          /\ signed' = signed \cup {s}
          /\ net' = IF nonceBytes \in B THEN net \cup {Genuine(s)} ELSE net
          /\ pending' = pending \ B
    BY <1>9 DEF ServerRespond
  <2>2. [leaves |-> B, midp |-> now] \in Srep
    BY <2>1 DEF Srep
  <2>3. Genuine([leaves |-> B, midp |-> now]) \in Response
    BY <2>1 DEF Genuine, Response, Keys
  <2>4. QED
    BY <1>9, <2>1, <2>2, <2>3 DEF ServerRespond, clientVars
<1>10. CASE OtherRequest
  BY <1>10 DEF OtherRequest, clientVars, Nonces
<1>11. CASE DropResponse
  BY <1>11 DEF DropResponse, clientVars
<1>12. CASE Tick
  BY <1>12, ConstantsAssumption DEF Tick, clientVars, Times
<1>13. CASE Terminated \/ UNCHANGED vars
  <2>1. UNCHANGED vars
    BY <1>13 DEF Terminated
  <2>2. UNCHANGED <<pc, argv, argi, heap, hostname, nonce, publicKey, repeats,
                    nonceBytes, start, dest, firstSent, last, outcome, exitCode,
                    now, pending, signed, net>>
    BY <2>1 DEF vars, clientVars, envVars
  <2>3. QED
    BY <2>2
<1>14. QED
  BY <1>1, <1>2, <1>3, <1>4, <1>5, <1>6, <1>7, <1>8, <1>9, <1>10, <1>11,
     <1>12, <1>13 DEF Next, Client

\* The initial states are well typed.
LEMMA TypeCorrectInit == Init => TypeInv
BY ConstantsAssumption DEF Init, TypeInv, TypeOK, Times, Nonces, Strings,
                              NULL, NoNonce, NoTime, NoHost, NoExit

(***************************************************************************)
(* main() never reads a buffer it has not allocated and keeps repeats a    *)
(* uint8_t, whatever the arguments and however long the run.              *)
(***************************************************************************)
THEOREM TypeCorrect == Spec => []TypeOK
BY TypeCorrectInit, TypeStep, PTL DEF Spec, TypeInv

-----------------------------------------------------------------------------
(***************************************************************************)
(* A response that passes craggy_processResponse's checks for nonce n      *)
(* carries the MIDP of an SREP the server signed over a batch holding n:   *)
(* the root key only certified DeleKey, and only the server signs with it. *)
(***************************************************************************)
LEMMA VerifiedIsSigned ==
    ASSUME NetGenuine, NEW n, NEW r \in Deliverable, Verify(r, n)
    PROVE  \E s \in signed : s.midp = r.midp /\ n \in s.leaves
<1>1. r.certSigner = RootKey /\ r.srepSigner = r.dele /\ n \in r.leaves
  BY DEF Verify
<1>2. CASE r \in net
  <2>1. [leaves |-> r.leaves, midp |-> r.midp] \in signed
    BY <1>2 DEF NetGenuine
  <2>2. QED
    BY <1>1, <2>1
<1>3. CASE r \in Forgeries
  <2>1. PICK c \in CertParts, p \in SrepParts :
          r = [certSigner |-> c.s, dele |-> c.d, srepSigner |-> p.signer,
               leaves |-> p.leaves, midp |-> p.midp]
    BY <1>3 DEF Forgeries
  <2>2. c = [s |-> RootKey, d |-> DeleKey]
    BY <1>1, <2>1, ConstantsAssumption DEF CertParts
  <2>3. p.signer = DeleKey
    BY <1>1, <2>1, <2>2
  <2>4. PICK s \in signed : p = [signer |-> DeleKey, leaves |-> s.leaves, midp |-> s.midp]
    BY <2>3, ConstantsAssumption DEF SrepParts
  <2>5. QED
    BY <1>1, <2>1, <2>4
<1>4. QED
  BY <1>2, <1>3 DEF Deliverable

\* The variables AuthInv is about.
authVars == <<net, signed, pending, firstSent, last, nonceBytes, now>>

\* A step of main() that touches none of them and either leaves it before
\* the loop or ends it keeps AuthInv.
LEMMA QuietStep ==
    ASSUME AuthInv, UNCHANGED authVars,
           \/ pc' \in Final
           \/ pc \in {"parse", "key", "nonce"} /\ pc' \in {"parse", "key", "nonce"}
    PROVE  AuthInv'
BY DEF AuthInv, authVars, NetGenuine, BeforeFirstSend, NonceFixed,
       SignedAfterSend, AcceptedIsAuthentic, Final

\* Every step keeps AuthInv, given the types.
LEMMA AuthStep == TypeInv /\ AuthInv /\ [Next]_vars => AuthInv'
<1> SUFFICES ASSUME TypeInv, AuthInv, [Next]_vars PROVE AuthInv'
  OBVIOUS
<1>1. CASE ParseOption
  <2>1. UNCHANGED authVars
    BY <1>1 DEF ParseOption, authVars, envVars
  <2>2. \/ pc' \in Final
        \/ pc \in {"parse", "key", "nonce"} /\ pc' \in {"parse", "key", "nonce"}
    BY <1>1 DEF ParseOption, Final
  <2>3. QED
    BY <2>1, <2>2, QuietStep
<1>2. CASE CheckUsage
  <2>1. UNCHANGED authVars
    BY <1>2 DEF CheckUsage, authVars, envVars
  <2>2. \/ pc' \in Final
        \/ pc \in {"parse", "key", "nonce"} /\ pc' \in {"parse", "key", "nonce"}
    BY <1>2 DEF CheckUsage, Final
  <2>3. QED
    BY <2>1, <2>2, QuietStep
<1>3. CASE DecodeKey
  <2>1. UNCHANGED authVars
    BY <1>3 DEF DecodeKey, Fail, authVars, envVars
  <2>2. \/ pc' \in Final
        \/ pc \in {"parse", "key", "nonce"} /\ pc' \in {"parse", "key", "nonce"}
    BY <1>3 DEF DecodeKey, Fail, Final
  <2>3. QED
    BY <2>1, <2>2, QuietStep
<1>4. CASE RequestTimeout
  <2>1. UNCHANGED authVars
    BY <1>4 DEF RequestTimeout, Fail, authVars, envVars
  <2>2. \/ pc' \in Final
        \/ pc \in {"parse", "key", "nonce"} /\ pc' \in {"parse", "key", "nonce"}
    BY <1>4 DEF RequestTimeout, Fail, Final
  <2>3. QED
    BY <2>1, <2>2, QuietStep
<1>5. CASE LoopExit
  <2>1. UNCHANGED authVars
    BY <1>5 DEF LoopExit, authVars, envVars
  <2>2. \/ pc' \in Final
        \/ pc \in {"parse", "key", "nonce"} /\ pc' \in {"parse", "key", "nonce"}
    BY <1>5 DEF LoopExit, Final
  <2>3. QED
    BY <2>1, <2>2, QuietStep
<1>6. CASE Terminated \/ UNCHANGED vars
  <2>1. UNCHANGED <<pc, authVars>>
    BY <1>6 DEF Terminated, vars, clientVars, envVars, authVars
  <2>2. QED
    BY <2>1 DEF AuthInv, authVars, NetGenuine, BeforeFirstSend, NonceFixed,
                SignedAfterSend, AcceptedIsAuthentic
<1>7. CASE SetupNonce
  <2>1. pc = "nonce" /\ UNCHANGED <<net, signed, pending, firstSent, last, now>>
    BY <1>7 DEF SetupNonce, envVars
  <2>2. firstSent = NoTime /\ last = NoExchange
        /\ \A s \in signed : s.leaves \subseteq {OtherNonce}
    BY <2>1 DEF AuthInv, NonceFixed, BeforeFirstSend
  <2>3. \/ pc' = "loop" /\ nonceBytes' \in {FixedNonce, RandNonce}
        \/ pc' = "exited" /\ UNCHANGED nonceBytes
    BY <1>7 DEF SetupNonce, Fail
  <2>4. nonceBytes' # OtherNonce
    BY <2>3, ConstantsAssumption DEF AuthInv, NonceFixed
  <2>5. nonceBytes' # NoNonce \/ pc' = "exited"
    BY <2>3, ConstantsAssumption DEF Nonces
  <2>6. QED
    BY <2>1, <2>2, <2>3, <2>4, <2>5 DEF AuthInv, NetGenuine, BeforeFirstSend,
       NonceFixed, SignedAfterSend, AcceptedIsAuthentic, NoTime
<1>8. CASE SendRequest
  <2>1. /\ pc = "loop" /\ pc' = "await" /\ now \in Times
        /\ UNCHANGED <<net, signed, last, nonceBytes, now>>
    BY <1>8 DEF SendRequest, MonotonicUs, RealtimeUs, TypeInv, TypeOK
  <2>2. pending' \subseteq pending \cup {nonceBytes}
    BY <1>8 DEF SendRequest, MonotonicUs, RealtimeUs
  <2>3. nonceBytes # NoNonce /\ nonceBytes # OtherNonce
    BY <2>1 DEF AuthInv, NonceFixed
  <2>4. CASE firstSent = NoTime
    <3>1. firstSent' = now
      BY <1>8, <2>4 DEF SendRequest, MonotonicUs, RealtimeUs
    <3>2. firstSent' # NoTime /\ firstSent' <= now'
      BY <2>1, <3>1 DEF Times, NoTime
    <3>3. last = NoExchange /\ \A s \in signed : s.leaves \subseteq {OtherNonce}
      BY <2>4 DEF AuthInv, BeforeFirstSend
    <3>4. SignedAfterSend'
      BY <2>1, <2>3, <3>3 DEF SignedAfterSend
    <3>5. AcceptedIsAuthentic'
      BY <2>1, <3>3 DEF AcceptedIsAuthentic
    <3>6. QED
      BY <2>1, <2>3, <3>2, <3>4, <3>5 DEF AuthInv, NetGenuine, BeforeFirstSend,
         NonceFixed
  <2>5. CASE firstSent # NoTime
    <3>1. firstSent' = firstSent
      BY <1>8, <2>5 DEF SendRequest, MonotonicUs, RealtimeUs
    <3>2. UNCHANGED <<net, signed, last, nonceBytes, now, firstSent>>
      BY <2>1, <3>1
    <3>3. firstSent <= now
      BY <2>5 DEF AuthInv, NonceFixed
    <3>4. QED
      BY <2>1, <2>3, <2>5, <3>2, <3>3 DEF AuthInv, NetGenuine, BeforeFirstSend,
         NonceFixed, SignedAfterSend, AcceptedIsAuthentic
  <2>6. QED
    BY <2>4, <2>5
<1>9. ASSUME NEW r \in Deliverable, ReceiveResponse(r) PROVE AuthInv'
  <2>1. pc = "await" /\ UNCHANGED <<net, signed, pending, firstSent, nonceBytes, now>>
    BY <1>9 DEF ReceiveResponse, MonotonicUs, RealtimeUs, envVars
  <2>2. \/ pc' = "exited" /\ UNCHANGED last
        \/ /\ pc' = "loop" /\ Verify(r, nonceBytes)
           /\ last' = [midp |-> r.midp, start |-> start, end |-> now,
                       ts |-> r.midp + (now - start) \div 2]
    BY <1>9 DEF ReceiveResponse, MonotonicUs, RealtimeUs, Fail
  <2>3. firstSent # NoTime /\ nonceBytes # NoNonce
    BY <2>1 DEF AuthInv, NonceFixed
  <2>4. CASE pc' = "exited" /\ UNCHANGED last
    BY <2>1, <2>4 DEF AuthInv, NetGenuine, BeforeFirstSend, NonceFixed,
       SignedAfterSend, AcceptedIsAuthentic
  <2>5. CASE pc' = "loop" /\ Verify(r, nonceBytes)
             /\ last' = [midp |-> r.midp, start |-> start, end |-> now,
                         ts |-> r.midp + (now - start) \div 2]
    <3>1. PICK s \in signed : s.midp = r.midp /\ nonceBytes \in s.leaves
      BY <2>5, VerifiedIsSigned DEF AuthInv
    <3>2. r.midp >= firstSent
      BY <3>1 DEF AuthInv, SignedAfterSend
    <3>3. last' # NoExchange /\ last'.midp = r.midp
      <4>1. r.midp \in Times
        BY DeliverableType DEF TypeInv, Response
      <4>2. QED
        BY <2>5, <4>1 DEF NoExchange, NoTime, Times
    <3>4. AcceptedIsAuthentic'
      <4>1. s \in signed' /\ s.midp = last'.midp /\ nonceBytes' \in s.leaves
        BY <2>1, <3>1, <3>3
      <4>2. firstSent' # NoTime /\ last'.midp >= firstSent'
        BY <2>1, <2>3, <3>2, <3>3
      <4>3. QED
        BY <4>1, <4>2 DEF AcceptedIsAuthentic
    <3>5. QED
      BY <2>1, <2>3, <2>5, <3>4 DEF AuthInv, NetGenuine, BeforeFirstSend,
         NonceFixed, SignedAfterSend
  <2>6. QED
    BY <2>2, <2>4, <2>5
<1>10. CASE ServerRespond
  <2>1. PICK B \in (SUBSET pending) \ {{}} :
          LET s == [leaves |-> B, midp |-> now] IN
          /\ signed' = signed \cup {s}
          /\ net' = IF nonceBytes \in B THEN net \cup {Genuine(s)} ELSE net
          /\ pending' = pending \ B
    BY <1>10 DEF ServerRespond
  <2>2. UNCHANGED <<pc, firstSent, last, nonceBytes, now>>
    BY <1>10 DEF ServerRespond, clientVars
  <2>3. NetGenuine'
    <3>1. SUFFICES ASSUME NEW r \in net'
                   PROVE  /\ r.certSigner = RootKey /\ r.dele = DeleKey
                          /\ r.srepSigner = DeleKey
                          /\ [leaves |-> r.leaves, midp |-> r.midp] \in signed'
      BY DEF NetGenuine
    <3>2. CASE r \in net
      BY <2>1, <3>2 DEF AuthInv, NetGenuine
    <3>3. CASE r = Genuine([leaves |-> B, midp |-> now])
      BY <2>1, <3>3 DEF Genuine
    <3>4. QED
      BY <2>1, <3>2, <3>3
  <2>4. BeforeFirstSend'
    BY <2>1, <2>2 DEF AuthInv, BeforeFirstSend
  <2>5. SignedAfterSend'
    <3>1. nonceBytes \in B => firstSent # NoTime /\ firstSent <= now
      BY <2>1 DEF AuthInv, BeforeFirstSend, NonceFixed
    <3>2. QED
      BY <2>1, <2>2, <3>1 DEF AuthInv, SignedAfterSend
  <2>6. AcceptedIsAuthentic'
    BY <2>1, <2>2 DEF AuthInv, AcceptedIsAuthentic
  <2>7. QED
    BY <2>2, <2>3, <2>4, <2>5, <2>6 DEF AuthInv, NonceFixed
<1>11. CASE OtherRequest
  BY <1>11 DEF OtherRequest, clientVars, AuthInv, NetGenuine, BeforeFirstSend,
     NonceFixed, SignedAfterSend, AcceptedIsAuthentic
<1>12. CASE DropResponse
  BY <1>12 DEF DropResponse, clientVars, AuthInv, NetGenuine, BeforeFirstSend,
     NonceFixed, SignedAfterSend, AcceptedIsAuthentic
<1>13. CASE Tick
  <2>1. now' = now + 1 /\ UNCHANGED <<pc, net, signed, pending, firstSent, last, nonceBytes>>
    BY <1>13 DEF Tick, clientVars
  <2>2. QED
    BY <2>1 DEF AuthInv, NetGenuine, BeforeFirstSend, NonceFixed,
       SignedAfterSend, AcceptedIsAuthentic, TypeInv, TypeOK, Times, NoTime
<1>14. QED
  BY <1>1, <1>2, <1>3, <1>4, <1>5, <1>6, <1>7, <1>8, <1>9, <1>10, <1>11,
     <1>12, <1>13 DEF Next, Client

\* The initial states satisfy the inductive invariant.
LEMMA InitInv == Init => IInv
BY TypeCorrectInit, ConstantsAssumption DEF Init, IInv, AuthInv, NetGenuine, BeforeFirstSend,
   NonceFixed, SignedAfterSend, AcceptedIsAuthentic, NoTime, NoNonce, NoExchange, Nonces

\* IInv holds in every state of every behaviour.
LEMMA InvAlways == Spec => []IInv
<1>1. IInv /\ [Next]_vars => IInv'
  BY TypeStep, AuthStep DEF IInv
<1>2. QED
  BY InitInv, <1>1, PTL DEF Spec

(***************************************************************************)
(* For every argument vector and bound, main() only ever accepts a        *)
(* timestamp the server signed, for a batch holding the nonce its requests *)
(* carry, at or after the time that nonce was first sent; an on-path      *)
(* adversary can replay the server's responses but not forge one.          *)
(***************************************************************************)
THEOREM AcceptedAuthentic == Spec => []AcceptedIsAuthentic
BY InvAlways, PTL DEF IInv, AuthInv
-----------------------------------------------------------------------------
(* main() implements the Session Driver of spec 4.6.                      *)

\* main() starts where the Session Driver starts.
LEMMA SessionInit == Init => Session!Init
BY DEF Init, Session!Init, SessionState, NoExchange

\* A step that moves none of the mapped variables stutters the Session
\* Driver.
LEMMA SessionStutter ==
    ASSUME UNCHANGED <<pc, outcome, nonceBytes, firstSent, last, signed, now>>
    PROVE  UNCHANGED Session!vars
BY DEF Session!vars, SessionState

\* A step of main() to an error exit, from its configuration or from the
\* wait for a response, is the Session Driver's Fail.
LEMMA SessionFail ==
    ASSUME pc \in {"parse", "key", "nonce", "await"},
           \/ pc' = "crashed"
           \/ pc' = "exited" /\ outcome' \in {"usage", "error"},
           UNCHANGED <<nonceBytes, firstSent, last, signed, now>>
    PROVE  Session!Fail
BY DEF Session!Fail, SessionState

\* Every step of the system is a step of the Session Driver or leaves the
\* mapped state alone.
LEMMA SessionStep == IInv /\ [Next]_vars => [Session!Next]_Session!vars
<1> SUFFICES ASSUME IInv, [Next]_vars PROVE [Session!Next]_Session!vars
  OBVIOUS
<1>1. CASE ParseOption
  <2>1. UNCHANGED <<outcome, nonceBytes, firstSent, last, signed, now>>
    BY <1>1 DEF ParseOption, envVars
  <2>2. pc = "parse" /\ pc' \in {"parse", "crashed"}
    BY <1>1 DEF ParseOption
  <2>3. CASE pc' = "parse"
    BY <2>1, <2>2, <2>3, SessionStutter
  <2>4. CASE pc' = "crashed"
    BY <2>1, <2>2, <2>4, SessionFail DEF Session!Next
  <2>5. QED
    BY <2>2, <2>3, <2>4
<1>2. CASE CheckUsage \/ DecodeKey
  <2>1. UNCHANGED <<nonceBytes, firstSent, last, signed, now>>
    BY <1>2 DEF CheckUsage, DecodeKey, envVars
  <2>2. pc \in {"parse", "key"}
    BY <1>2 DEF CheckUsage, DecodeKey
  <2>3. CASE pc' = "exited"
    <3>1. outcome' \in {"usage", "error"}
      BY <1>2, <2>3 DEF CheckUsage, DecodeKey, Fail
    <3>2. QED
      BY <2>1, <2>2, <2>3, <3>1, SessionFail DEF Session!Next
  <2>4. CASE pc' # "exited"
    <3>1. pc' \in {"key", "nonce"} /\ UNCHANGED outcome
      BY <1>2, <2>4 DEF CheckUsage, DecodeKey, Fail
    <3>2. QED
      BY <2>1, <2>2, <3>1 DEF Session!vars, SessionState
  <2>5. QED
    BY <2>3, <2>4
<1>3. CASE SetupNonce
  <2>1. UNCHANGED <<firstSent, last, signed, now>> /\ pc = "nonce"
    BY <1>3 DEF SetupNonce, envVars
  <2>2. CASE pc' = "loop"
    <3>1. nonceBytes' \in {FixedNonce, RandNonce} /\ UNCHANGED outcome
      BY <1>3, <2>2 DEF SetupNonce, Fail
    <3>2. QED
      BY <2>1, <2>2, <3>1 DEF Session!Next, Session!Configure, SessionState
  <2>3. CASE pc' # "loop"
    <3>1. pc' = "exited" /\ outcome' = "error" /\ UNCHANGED nonceBytes
      BY <1>3, <2>3 DEF SetupNonce, Fail
    <3>2. QED
      BY <2>1, <3>1, SessionFail DEF Session!Next
  <2>4. QED
    BY <2>2, <2>3
<1>4. CASE SendRequest
  BY <1>4 DEF SendRequest, MonotonicUs, RealtimeUs, Session!Next, Session!Request, SessionState
<1>5. CASE \E r \in Deliverable : ReceiveResponse(r)
  <2>1. PICK r \in Deliverable : ReceiveResponse(r)
    BY <1>5
  <2> DEFINE ts  == r.midp + (now - start) \div 2
             off == ts - (now + Skew)
  <2>2. pc = "await" /\ UNCHANGED <<nonceBytes, firstSent, signed, now>>
    BY <2>1 DEF ReceiveResponse, MonotonicUs, RealtimeUs, envVars
  <2>3. CASE ~Verify(r, nonceBytes) \/ off > OffsetLimit \/ -off > OffsetLimit
    <3>1. pc' = "exited" /\ outcome' = "error" /\ UNCHANGED last
      BY <2>1, <2>3 DEF ReceiveResponse, MonotonicUs, RealtimeUs, Fail
    <3>2. QED
      BY <2>2, <3>1, SessionFail DEF Session!Next
  <2>4. CASE ~(~Verify(r, nonceBytes) \/ off > OffsetLimit \/ -off > OffsetLimit)
    <3>1. pc' = "loop" /\ last'.midp = r.midp
      BY <2>1, <2>4 DEF ReceiveResponse, MonotonicUs, RealtimeUs
    <3>2. PICK s \in signed : s.midp = r.midp /\ nonceBytes \in s.leaves
      BY <2>4, VerifiedIsSigned DEF IInv, AuthInv
    <3>3. s.midp >= firstSent
      BY <3>2 DEF IInv, AuthInv, SignedAfterSend
    <3>4. QED
      BY <2>2, <3>1, <3>2, <3>3 DEF Session!Next, Session!Verify, SessionState
  <2>5. QED
    BY <2>3, <2>4
<1>6. CASE RequestTimeout
  BY <1>6, SessionFail DEF RequestTimeout, Fail, envVars, Session!Next
<1>7. CASE LoopExit
  BY <1>7 DEF LoopExit, envVars, Session!Next, Session!Finish, SessionState
<1>8. CASE ServerRespond
  <2>1. PICK B \in (SUBSET pending) \ {{}} :
          /\ signed' = signed \cup {[leaves |-> B, midp |-> now]}
          /\ UNCHANGED <<clientVars, now>>
    BY <1>8 DEF ServerRespond
  <2>2. B \in (SUBSET Nonces) \ {{}}
    BY DEF IInv, TypeInv, TypeOK
  <2>3. QED
    BY <2>1, <2>2 DEF Session!Next, Session!Sign, SessionState, clientVars
<1>9. CASE OtherRequest \/ DropResponse \/ Terminated \/ UNCHANGED vars
  BY <1>9, SessionStutter DEF OtherRequest, DropResponse, Terminated, vars,
                              clientVars, envVars
<1>10. CASE Tick
  BY <1>10 DEF Tick, clientVars, Session!Next, Session!Tick, SessionState
<1>11. QED
  BY <1>1, <1>2, <1>3, <1>4, <1>5, <1>6, <1>7, <1>8, <1>9, <1>10 DEF Next, Client

(***************************************************************************)
(* For every argument vector and bound, main() implements the Session     *)
(* Driver: one configuration, no retry after any error, and every repeat  *)
(* accepts only a timestamp the server signed for the session nonce after  *)
(* that nonce was first sent.                                               *)
(***************************************************************************)
THEOREM SessionRefinement == Spec => ImplementsSession
<1>1. Spec => []IInv /\ [][Next]_vars
  BY InvAlways DEF Spec
<1>2. []IInv /\ [][Next]_vars => [][Session!Next]_Session!vars
  BY SessionStep, PTL
<1>3. QED
  BY <1>1, <1>2, SessionInit, PTL DEF Spec, ImplementsSession, Session!Spec

-----------------------------------------------------------------------------
(***************************************************************************)
(* Why a fresh midpoint gives an estimate within half a round trip.       *)
(***************************************************************************)
\* The server signs at its clock, start_us is read before the wait, and an
\* accepted exchange ends after its midpoint was signed and after it began,
\* with the estimate midp + rtt/2 of main.c:202.
ClockInv ==
    /\ \A s \in signed : s.midp <= now
    /\ pc = "await" => start \in Times /\ start <= now
    /\ last # NoExchange =>
          /\ last \in [midp : Times, start : Times, end : Times, ts : Int]
          /\ last.start <= last.end /\ last.midp <= last.end
          /\ last.ts = last.midp + (last.end - last.start) \div 2


\* The variables ClockInv is about.
clockVars == <<signed, now, start, last>>

\* A step that leaves them alone and enters no wait keeps ClockInv.
LEMMA ClockQuiet ==
    ASSUME ClockInv, UNCHANGED clockVars, pc' = "await" => pc = "await"
    PROVE  ClockInv'
BY DEF ClockInv, clockVars

\* Every step keeps ClockInv, given the types and the authenticity argument.
LEMMA ClockStep == TypeInv /\ AuthInv /\ ClockInv /\ [Next]_vars => ClockInv'
<1> SUFFICES ASSUME TypeInv, AuthInv, ClockInv, [Next]_vars PROVE ClockInv'
  OBVIOUS
<1>1. CASE ParseOption
  BY <1>1, ClockQuiet DEF ParseOption, clockVars, envVars
<1>2. CASE CheckUsage
  BY <1>2, ClockQuiet DEF CheckUsage, clockVars, envVars
<1>3. CASE DecodeKey
  BY <1>3, ClockQuiet DEF DecodeKey, Fail, clockVars, envVars
<1>4. CASE SetupNonce
  BY <1>4, ClockQuiet DEF SetupNonce, Fail, clockVars, envVars
<1>5. CASE SendRequest
  <2>1. start' = now /\ UNCHANGED <<signed, now, last>>
    BY <1>5 DEF SendRequest, MonotonicUs
  <2>2. now \in Times
    BY DEF TypeInv, TypeOK
  <2>3. QED
    BY <2>1, <2>2 DEF ClockInv, Times
<1>6. CASE \E r \in Deliverable : ReceiveResponse(r)
  <2>1. PICK r \in Deliverable : ReceiveResponse(r)
    BY <1>6
  <2>2. pc = "await" /\ UNCHANGED <<signed, now, start>>
    BY <2>1 DEF ReceiveResponse, envVars
  <2>3. \/ pc' = "exited" /\ UNCHANGED last
        \/ /\ Verify(r, nonceBytes)
           /\ last' = [midp |-> r.midp, start |-> start, end |-> now,
                       ts |-> r.midp + (now - start) \div 2]
    BY <2>1 DEF ReceiveResponse, MonotonicUs, RealtimeUs, Fail
  <2>4. CASE pc' = "exited" /\ UNCHANGED last
    BY <2>2, <2>4 DEF ClockInv
  <2>5. CASE /\ Verify(r, nonceBytes)
             /\ last' = [midp |-> r.midp, start |-> start, end |-> now,
                         ts |-> r.midp + (now - start) \div 2]
    <3>1. PICK s \in signed : s.midp = r.midp /\ nonceBytes \in s.leaves
      BY <2>5, VerifiedIsSigned DEF AuthInv
    <3>2. r.midp <= now
      BY <3>1 DEF ClockInv
    <3>3. r.midp \in Times /\ start \in Times /\ start <= now /\ now \in Times
      BY <2>2, DeliverableType DEF TypeInv, TypeOK, Response, ClockInv
    <3>4. last' \in [midp : Times, start : Times, end : Times, ts : Int]
      BY <2>5, <3>3 DEF Times
    <3>5. QED
      BY <2>2, <2>5, <3>2, <3>3, <3>4 DEF ClockInv, Times
  <2>6. QED
    BY <2>3, <2>4, <2>5
<1>7. CASE RequestTimeout
  BY <1>7, ClockQuiet DEF RequestTimeout, Fail, clockVars, envVars
<1>8. CASE LoopExit
  BY <1>8, ClockQuiet DEF LoopExit, clockVars, envVars
<1>9. CASE ServerRespond
  <2>1. PICK B \in (SUBSET pending) \ {{}} :
          signed' = signed \cup {[leaves |-> B, midp |-> now]}
    BY <1>9 DEF ServerRespond
  <2>2. UNCHANGED <<pc, now, start, last>>
    BY <1>9 DEF ServerRespond, clientVars
  <2>3. now \in Times
    BY DEF TypeInv, TypeOK
  <2>4. QED
    BY <2>1, <2>2, <2>3 DEF ClockInv, Times
<1>10. CASE OtherRequest
  BY <1>10, ClockQuiet DEF OtherRequest, clockVars, clientVars
<1>11. CASE DropResponse
  BY <1>11, ClockQuiet DEF DropResponse, clockVars, clientVars
<1>12. CASE Tick
  <2>1. now' = now + 1 /\ UNCHANGED <<pc, signed, start, last>>
    BY <1>12 DEF Tick, clientVars
  <2>2. now \in Times /\ \A s \in signed : s.midp \in Times
    BY DEF TypeInv, TypeOK, Srep
  <2>3. QED
    BY <2>1, <2>2 DEF ClockInv, Times
<1>13. CASE Terminated \/ UNCHANGED vars
  BY <1>13, ClockQuiet DEF Terminated, vars, clockVars, clientVars, envVars
<1>14. QED
  BY <1>1, <1>2, <1>3, <1>4, <1>5, <1>6, <1>7, <1>8, <1>9, <1>10, <1>11,
     <1>12, <1>13 DEF Next, Client


\* In a state of ClockInv, a fresh midpoint plus half the round trip lies
\* within half a round trip of the end of the exchange.
LEMMA FreshFromClock == ClockInv => FreshEstimateWithinRoundTrip
<1> SUFFICES ASSUME ClockInv, last.midp >= last.start, last # NoExchange
             PROVE  EstimateWithinRoundTrip
  BY DEF FreshEstimateWithinRoundTrip, EstimateWithinRoundTrip
<1>1. /\ last \in [midp : Times, start : Times, end : Times, ts : Int]
      /\ last.start <= last.end /\ last.midp <= last.end
      /\ last.ts = last.midp + (last.end - last.start) \div 2
  BY DEF ClockInv
<1> DEFINE d == last.end - last.start
           h == d \div 2
<1>2. d \in Nat
  BY <1>1 DEF Times
<1>3. h \in Int /\ 0 <= h /\ 2 * h <= d
  BY <1>2
<1>4. last.ts - last.end <= d - h
  BY <1>1, <1>3 DEF Times
<1>5. last.end - last.ts <= d - h
  BY <1>1, <1>3 DEF Times
<1>6. QED
  BY <1>4, <1>5 DEF EstimateWithinRoundTrip

(***************************************************************************)
(* For every argument vector, clock bound, skew, offset limit and with or  *)
(* without the attacker: when the midpoint main() accepts was signed no    *)
(* earlier than start_us of its exchange, the estimate of main.c:202 is    *)
(* within half a round trip of the time the response arrived.  Only a     *)
(* stale midpoint (the replay of client_replay) can break the bound.      *)
(***************************************************************************)
THEOREM FreshEstimate == Spec => []FreshEstimateWithinRoundTrip
<1>1. Init => IInv /\ ClockInv
  BY InitInv DEF Init, ClockInv
<1>2. IInv /\ ClockInv /\ [Next]_vars => IInv' /\ ClockInv'
  BY TypeStep, AuthStep, ClockStep DEF IInv
<1>3. IInv /\ ClockInv => FreshEstimateWithinRoundTrip
  BY FreshFromClock
<1>4. QED
  BY <1>1, <1>2, <1>3, PTL DEF Spec

=============================================================================
