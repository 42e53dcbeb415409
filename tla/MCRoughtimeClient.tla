------------------------- MODULE MCRoughtimeClient -------------------------
(* Small instances of RoughtimeClient for TLC. *)
EXTENDS RoughtimeClient

H(a) == [opt |-> "h", arg |-> a]
N(a) == [opt |-> "n", arg |-> a]
K(a) == [opt |-> "k", arg |-> a]
R(a) == [opt |-> "r", arg |-> a]
I(a) == [opt |-> "i", arg |-> a]

\* Argument vectors: the usual invocations, a fixed nonce given after and
\* before -h, a bad key, a bad nonce, and repeat counts at the uint8_t edge.
MCArgvs ==
    { <<H(HostArg), K(KeyB64), R(2), I(3)>>,
      <<H(HostArg), N(NonceB64), H(HostArg), K(KeyB64), R(2)>>,
      <<H(HostArg), N(NonceB64), K(KeyB64)>>,
      <<N(NonceB64), H(HostArg), K(KeyB64)>>,
      <<H(HostArg), N(BadB64), H(HostArg), K(KeyB64)>>,
      <<H(HostArg), K(BadB64)>>,
      <<K(KeyB64), R(1)>>,
      <<H(HostArg), K(KeyB64), R(256)>>,
      <<H(HostArg), K(KeyB64), R(258)>> }

\* Argument vectors whose -h text reaches the hostname buffer intact.
MCArgvsHostIntact ==
    { <<H(HostArg), K(KeyB64), R(2), I(3)>>,
      <<H(HostArg), N(NonceB64), H(HostArg), K(KeyB64), R(2)>> }
=============================================================================
