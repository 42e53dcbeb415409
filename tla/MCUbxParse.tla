----------------------------- MODULE MCUbxParse -----------------------------
(* Frames for UbxParse.  WellFormed holds, for each message, the frames a  *)
(* receiver sends: data_len is the message's real layout, len adds the     *)
(* 8 bytes of header and checksum, and the count byte matches the blocks.  *)
(* The svIds are a GPS satellite (3) and two SBAS satellites (133, 152);   *)
(* MAXCHANNELS is gpsd's 140.  Malformed adds a runt, payloads shorter     *)
(* than the handler needs, a count byte above MAXCHANNELS, and a RAWX     *)
(* block with gnssId 1 (SBAS) but an svId below 100.                       *)
EXTENDS UbxParse

MCMaxChannels == 140

SvLists == {<< >>, <<3>>, <<152>>, <<3, 133>>}
FlagSets == {{}, {"b0", "b1"}, {"b2"}}

\* The payload layout of each message with n repeated blocks.
Layout(id, n) ==
    CASE id = UBX_NAV("PVT")     -> 92
      [] id = UBX_NAV("TIMEGPS") -> 16
      [] id = UBX_NAV("TIMEUTC") -> 20
      [] id = UBX_NAV("SAT")     -> 8 + 12 * n
      [] id = UBX_RXM("MEASX")   -> 44 + 24 * n
      [] id = UBX_RXM("RAWX")    -> 16 + 32 * n
      [] id = UBX_RXM("SFRB")    -> 42
      [] id = UBX_RXM("SFRBX")   -> 8 + 4 * n
      [] id = UBX_TIM("TP")      -> 16
      [] OTHER              -> 4

\* The ids sent: those with a handler, NAV-CLOCK (a case whose call is
\* commented out) and MON-VER (no case: the default).
MCIds == HandledIds \cup {UBX_NAV("CLOCK"), UBX_MSGID(UBX_CLASS.MON, \h04)}

\* A receiver reports SBAS satellites (svIds 120-158) with gnssId 1 and
\* the GPS ones with gnssId 0.
GnssOf(sv) == IF sv >= 120 THEN 1 ELSE 0

MkFrame(id, n, count, sv, flags) ==
    [id |-> id, len |-> n + 8, dataLen |-> n, count |-> count,
     sv |-> sv, gnss |-> [i \in 1..Len(sv) |-> GnssOf(sv[i])], flags |-> flags]

Blocked == {UBX_NAV("SAT"), UBX_RXM("MEASX"), UBX_RXM("RAWX")}

WellFormed ==
    {MkFrame(id, Layout(id, Len(sv)), Len(sv), sv, fl) :
        id \in Blocked, sv \in SvLists, fl \in FlagSets}
    \cup {MkFrame(id, Layout(id, 0), 0, << >>, fl) :
        id \in MCIds \ (Blocked \cup {UBX_RXM("SFRBX")}), fl \in FlagSets}
    \cup {MkFrame(UBX_RXM("SFRBX"), Layout(UBX_RXM("SFRBX"), n), n, << >>, fl) :
        n \in {0, 10}, fl \in FlagSets}
    \cup {MkFrame(UBX_NAV("PVT"), 84, 0, << >>, fl) : fl \in FlagSets}

Malformed ==
    {[MkFrame(UBX_MSGID(UBX_CLASS.MON, \h04), 0, 0, << >>, {}) EXCEPT !.len = 4]}
    \cup {MkFrame(id, 4, 0, << >>, {"b0", "b1", "b2"}) : id \in MCIds}
    \cup {MkFrame(id, 16, MCMaxChannels + 1, << >>, {"b0"}) : id \in Blocked}
    \cup {MkFrame(UBX_RXM("SFRBX"), 12, 10, << >>, {"b0"})}
    \cup {[MkFrame(UBX_RXM("RAWX"), Layout(UBX_RXM("RAWX"), 1), 1, <<3>>, {})
            EXCEPT !.gnss = <<1>>]}

MCFrames == WellFormed \cup Malformed
=============================================================================
