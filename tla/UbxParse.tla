------------------------------ MODULE UbxParse ------------------------------
(***************************************************************************)
(* The UBX message driver of src/unnamed/part_001: ubx_parse and the       *)
(* handlers it dispatches to, applied one frame after another to the same  *)
(* struct gps_device_t, as the serial thread does with its msg_buf.        *)
(*                                                                         *)
(* A frame is abstracted to what the handlers branch on and index with:    *)
(*   id      the message (class and id bytes 2-3)                          *)
(*   len     the byte count handed to ubx_parse                            *)
(*   dataLen the payload length of the header (bytes 4-5)                  *)
(*   count   the count byte (nchan, numMeas, numWords)                     *)
(*   sv      the svId of each repeated block, in order                     *)
(*   gnss    the gnssId of each repeated block, in order                   *)
(*   flags   which of the validity, version or status bits the handler     *)
(*           tests are set (see each handler)                              *)
(* The state keeps what the properties compare: which payload offsets the  *)
(* last handler read, which skyview[] and raw.meas[] slots have been       *)
(* written, the counts stored in the session, and which frame last wrote   *)
(* gpsdata.fix.time.  Numeric payload values are left out.                 *)
(***************************************************************************)
EXTENDS Integers, Sequences, FiniteSets

CONSTANTS
    MAXCHANNELS,    \* entries of gpsdata.skyview[] and gpsdata.raw.meas[]
    Frames          \* the frames the serial thread can hand to ubx_parse

\* UBX_PREFIX_LEN (line 70).
UBX_PREFIX_LEN == 6

\* ubx_classes_t (driver_ubx.h 11-29).
UBX_CLASS == [NAV |-> \h01, RXM |-> \h02, INF |-> \h04, ACK |-> \h05,
              CFG |-> \h06, UPD |-> \h09, MON |-> \h0a, AID |-> \h0b,
              TIM |-> \h0d, ESF |-> \h10, MGA |-> \h13, LOG |-> \h21,
              SEC |-> \h27, HNR |-> \h28, NMEA |-> \hf0, RTCM3 |-> \hf5]

\* UBX_MSGID (driver_ubx.h 31): the class byte above the id byte, as
\* ubx_parse reads them from buf[2] and buf[3] (line 1670).
UBX_MSGID(cls, id) == cls * 256 + id

\* The ids of ubx_message_t that the switch of ubx_parse names, by class.
AckIds == [ACK |-> \h01, NAK |-> \h00]
NavIds == [CLOCK |-> \h22, DOP |-> \h04, PVT |-> \h07, RELPOSNED |-> \h3c,
           RESETODO |-> \h10, SAT |-> \h35, SBAS |-> \h32, SIG |-> \h43,
           SOL |-> \h06, STATUS |-> \h03, SVIN |-> \h3b, SVINFO |-> \h30,
           TIMEBDS |-> \h24, TIMEGAL |-> \h25, TIMEGLO |-> \h23,
           TIMEGPS |-> \h20, TIMELS |-> \h26, TIMEQZSS |-> \h27,
           TIMEUTC |-> \h21]
RxmIds == [ALM |-> \h30, EPH |-> \h31, MEASX |-> \h14, RAWX |-> \h15,
           SFRB |-> \h11, SFRBX |-> \h13]
TimIds == [DOSC |-> \h11, SMEAS |-> \h13, TM |-> \h02, TP |-> \h01,
           TOS |-> \h12]

UBX_NAV(x) == UBX_MSGID(UBX_CLASS.NAV, NavIds[x])
UBX_RXM(x) == UBX_MSGID(UBX_CLASS.RXM, RxmIds[x])
UBX_TIM(x) == UBX_MSGID(UBX_CLASS.TIM, TimIds[x])

\* The case labels of the switch of ubx_parse (1675-1795).
SwitchIds ==
    LET ids(cls, r) == {UBX_MSGID(cls, r[x]) : x \in DOMAIN r}
    IN  ids(UBX_CLASS.ACK, AckIds) \cup ids(UBX_CLASS.NAV, NavIds)
        \cup ids(UBX_CLASS.RXM, RxmIds) \cup ids(UBX_CLASS.TIM, TimIds)

\* The cases that call a handler; the other cases have their call
\* commented out.
HandledIds == {UBX_NAV("PVT"), UBX_NAV("SAT"), UBX_NAV("TIMEGPS"),
               UBX_NAV("TIMEUTC"), UBX_RXM("MEASX"), UBX_RXM("RAWX"),
               UBX_RXM("SFRB"), UBX_RXM("SFRBX"), UBX_TIM("TP")}

\* msgid is an unsigned short (line 1657).
MsgIds == 0..65535
Bits == {"b0", "b1", "b2"}
Frame == [id : MsgIds, len : Nat, dataLen : Nat, count : 0..255,
          sv : Seq(0..255), gnss : Seq(0..255), flags : SUBSET Bits]

ASSUME ConstantsAssumption ==
    /\ MAXCHANNELS \in Nat \ {0}
    /\ Frames \subseteq Frame
    /\ \A f \in Frames :
          f.id \in {UBX_NAV("SAT"), UBX_RXM("MEASX"), UBX_RXM("RAWX")}
          /\ f.count <= MAXCHANNELS
             => Len(f.sv) = f.count
    /\ \A f \in Frames : Len(f.gnss) = Len(f.sv)

\* The offsets first..first+n-1 read by one getter.
Bytes(first, n) == first..(first + n - 1)

NoMsg == -1

VARIABLES
    dataLen,     \* data_len of the last frame parsed
    mask,        \* the gps_mask_t ubx_parse returned for it
    reads,       \* payload offsets the handler read for it
    skyview,     \* skyview[] slots ever written
    meas,        \* raw.meas[] slots ever written
    avbMeas,     \* gpsdata.raw.avb_meas
    satVisible,  \* gpsdata.satellites_visible
    fixTimeFrom  \* the message that last wrote gpsdata.fix.time

vars == <<dataLen, mask, reads, skyview, meas, avbMeas, satVisible,
          fixTimeFrom>>

\* The device struct starts zeroed (part_002:131-133).
Init ==
    /\ dataLen = 0
    /\ mask = {}
    /\ reads = {}
    /\ skyview = {}
    /\ meas = {}
    /\ avbMeas = 0
    /\ satVisible = 0
    /\ fixTimeFrom = NoMsg

\* ubx_parse (1653-1673, 1800): a frame shorter than the prefix returns 0
\* before anything is touched; otherwise the handler for f.id runs and
\* ONLINE_SET is added to its mask.
Dispatch(f, id) ==
    /\ f.len >= UBX_PREFIX_LEN
    /\ f.id = id
    /\ dataLen' = f.dataLen

\* The handler returned handlerMask after reading offsets r.
Returns(handlerMask, r) ==
    /\ mask' = handlerMask \cup {"ONLINE"}
    /\ reads' = r

-----------------------------------------------------------------------------
(* ubx_parse itself.                                                       *)

\* Lines 1661-1664: too short for a header.
ParseRunt(f) ==
    /\ f.len < UBX_PREFIX_LEN
    /\ dataLen' = f.dataLen
    /\ mask' = {}
    /\ reads' = {}
    /\ UNCHANGED <<skyview, meas, avbMeas, satVisible,
                   fixTimeFrom>>

\* A case of the switch whose handler call is commented out (ACK, NAV-CLOCK
\* falling through to NAV-DOP, and the other ids it names): nothing but
\* ONLINE_SET is returned.
ParseNoHandler(f) ==
    /\ f.id \in SwitchIds \ HandledIds
    /\ Dispatch(f, f.id)
    /\ Returns({}, {})
    /\ UNCHANGED <<skyview, meas, avbMeas, satVisible, fixTimeFrom>>

\* The default of the switch (1796-1798): an id it does not name.
ParseUnknown(f) ==
    /\ f.id \notin SwitchIds
    /\ Dispatch(f, f.id)
    /\ Returns({}, {})
    /\ UNCHANGED <<skyview, meas, avbMeas, satVisible, fixTimeFrom>>

-----------------------------------------------------------------------------
(* The handlers, each with the dispatch of ubx_parse that reaches it.      *)

\* The handler returned 0 after reading r and writing nothing it tracks.
Rejects(r) ==
    /\ Returns({}, r)
    /\ UNCHANGED <<skyview, meas, avbMeas, satVisible, fixTimeFrom>>

\* ubx_msg_nav_pvt (462-553).  fix.time is written when the DATE and TIME
\* bits (b0, b1) of `valid` are set; the magnetic fields at 88-91 are read
\* when the payload has 92 bytes and VALID_MAG (b2) is set.
NavPvt(f) ==
    /\ Dispatch(f, UBX_NAV("PVT"))
    /\ IF f.dataLen < 84
         THEN Rejects({})
         ELSE LET dateTime == {"b0", "b1"} \subseteq f.flags
                  mag == f.dataLen >= 92 /\ "b2" \in f.flags
              IN  /\ Returns((IF dateTime THEN {"TIME"} ELSE {}) \cup {"FIX"},
                             Bytes(0, 4) \cup {11, 20, 21}
                             \cup (IF dateTime THEN Bytes(4, 7) \cup Bytes(16, 4)
                                               ELSE {})
                             \cup Bytes(24, 24) \cup Bytes(60, 12)
                             \cup (IF mag THEN Bytes(88, 4) ELSE {}))
                  /\ fixTimeFrom' = IF dateTime THEN f.id ELSE fixTimeFrom
                  /\ UNCHANGED <<skyview, meas, avbMeas, satVisible>>

\* ubx_msg_nav_timegps (859-906): with the TOW and WEEK bits (b0, b1) it
\* fills gps_time_* and reports TIME_SET; fix.time itself is not written.
NavTimeGps(f) ==
    /\ Dispatch(f, UBX_NAV("TIMEGPS"))
    /\ IF f.dataLen < 16
         THEN Rejects({})
         ELSE LET ok == {"b0", "b1"} \subseteq f.flags
              IN  /\ Returns(IF ok THEN {"GPSTIME", "TIME"} ELSE {},
                             Bytes(0, 4) \cup {11}
                             \cup (IF ok THEN Bytes(4, 12) ELSE {}))
                  /\ UNCHANGED <<skyview, meas, avbMeas, satVisible,
                                 fixTimeFrom>>

\* ubx_msg_nav_timeutc (922-958): with VALIDUTC (b2) it writes fix.time.
NavTimeUtc(f) ==
    /\ Dispatch(f, UBX_NAV("TIMEUTC"))
    /\ IF f.dataLen < 20
         THEN Rejects({})
         ELSE LET ok == "b2" \in f.flags
              IN  /\ Returns(IF ok THEN {"TIME"} ELSE {},
                             Bytes(0, 4) \cup {19}
                             \cup (IF ok THEN Bytes(4, 15) ELSE {}))
                  /\ fixTimeFrom' = IF ok THEN f.id ELSE fixTimeFrom
                  /\ UNCHANGED <<skyview, meas, avbMeas, satVisible>>

\* The offsets ubx_msg_nav_sat reads for block i (994-1016): gnssId, svId,
\* cno, elev and azim at off..off+5, and `flags` from off+16..off+19.
NavSatBlockReads(i) ==
    LET off == 8 + 12 * i IN Bytes(off, 6) \cup Bytes(off + 16, 4)

\* Mutant: satellites_visible stored before the MAXCHANNELS check, as the
\* RAWX and MEASX handlers do with avb_meas.
NavSatStoreFirst(f) ==
    /\ Dispatch(f, UBX_NAV("SAT"))
    /\ IF f.dataLen < 8 THEN Rejects({})
       ELSE IF "b0" \notin f.flags THEN Rejects(Bytes(0, 5))
       ELSE IF f.count > MAXCHANNELS
         THEN /\ Returns({}, Bytes(0, 6))
              /\ satVisible' = f.count
              /\ UNCHANGED <<skyview, meas, avbMeas, fixTimeFrom>>
         ELSE LET blocks == 0..(f.count - 1)
            IN  /\ Returns({"SATELLITE", "USED"},
                           Bytes(0, 6) \cup UNION {NavSatBlockReads(i) : i \in blocks})
                /\ skyview' = skyview \cup {f.sv[i + 1] : i \in blocks}
                /\ satVisible' = f.count
                /\ UNCHANGED <<meas, avbMeas, fixTimeFrom>>

\* Mutant: the version byte checked only after the blocks are stored.
NavSatVersionLate(f) ==
    /\ Dispatch(f, UBX_NAV("SAT"))
    /\ IF f.dataLen < 8 THEN Rejects({})
       ELSE IF f.count > MAXCHANNELS THEN Rejects(Bytes(0, 6))
       ELSE LET blocks == 0..(f.count - 1)
            IN  /\ Returns(IF "b0" \in f.flags THEN {"SATELLITE", "USED"} ELSE {},
                           Bytes(0, 6) \cup UNION {NavSatBlockReads(i) : i \in blocks})
                /\ skyview' = skyview \cup {f.sv[i + 1] : i \in blocks}
                /\ satVisible' = f.count
                /\ UNCHANGED <<meas, avbMeas, fixTimeFrom>>

\* ubx_msg_nav_sat (965-1035).  The version byte is 1 when b0 is set.  The
\* `used` bit comes from the four bytes at off+16, which are not this
\* block's flags: any set of blocks can look used.
NavSat(f) ==
    /\ Dispatch(f, UBX_NAV("SAT"))
    /\ IF f.dataLen < 8 THEN Rejects({})
       ELSE IF "b0" \notin f.flags THEN Rejects(Bytes(0, 5))
       ELSE IF f.count > MAXCHANNELS THEN Rejects(Bytes(0, 6))
       ELSE LET blocks == 0..(f.count - 1)
            IN  /\ Returns({"SATELLITE", "USED"},
                           Bytes(0, 6) \cup UNION {NavSatBlockReads(i) : i \in blocks})
                /\ skyview' = skyview \cup {f.sv[i + 1] : i \in blocks}
                /\ satVisible' = f.count
                /\ UNCHANGED <<meas, avbMeas, fixTimeFrom>>

\* ubx_msg_rxm_measx (1188-1229): numMeas is read from byte 34 and stored
\* in raw.avb_meas before it is checked against MAXCHANNELS; block i is
\* read at 24i+45.. and written to raw.meas[svId] and skyview[svId].
MeasX(f) ==
    /\ Dispatch(f, UBX_RXM("MEASX"))
    /\ IF f.dataLen < 16
         THEN Rejects({})
         ELSE /\ avbMeas' = f.count
              /\ IF f.count > MAXCHANNELS
                   THEN /\ Returns({}, {34} \cup Bytes(4, 4))
                        /\ UNCHANGED <<skyview, meas>>
                   ELSE LET blocks == 0..(f.count - 1)
                            off(i) == 24 * i
                        IN  /\ Returns({"MEASX"},
                                       {34} \cup Bytes(4, 4)
                                       \cup UNION {{off(i) + 45} \cup Bytes(off(i) + 52, 4)
                                                   \cup Bytes(off(i) + 58, 6) : i \in blocks})
                            /\ meas' = meas \cup {f.sv[i + 1] : i \in blocks}
                            /\ skyview' = skyview \cup {f.sv[i + 1] : i \in blocks}
              /\ UNCHANGED <<satVisible, fixTimeFrom>>

\* The raw.meas[] slot RAWX writes after the gnssId switch: case 1 (SBAS)
\* does `svId -= 100` (1334-1337) whatever the svId, so an svId below 100
\* gives a negative index; the gnssid and sigid of 1311-1312 go to the slot
\* before it.
RinexSlot(g, sv) == IF g = 1 THEN sv - 100 ELSE sv

\* ubx_msg_rxm_rawx (1237-1463): numMeas (byte 11) is stored in avb_meas
\* before the MAXCHANNELS check.  Block i is read at 32i+16..32i+45;
\* gnssid/sigid go to raw.meas[svId], obs_code to raw.meas[i] (1423), and
\* the rest to raw.meas and skyview at the RINEX slot.
RawX(f) ==
    /\ Dispatch(f, UBX_RXM("RAWX"))
    /\ IF f.dataLen < 16
         THEN Rejects({})
         ELSE /\ avbMeas' = f.count
              /\ IF f.count > MAXCHANNELS
                   THEN /\ Returns({}, Bytes(0, 13))
                        /\ UNCHANGED <<skyview, meas>>
                   ELSE LET blocks == 0..(f.count - 1)
                            sv(i) == f.sv[i + 1]
                            slot(i) == RinexSlot(f.gnss[i + 1], sv(i))
                            w == UNION {{sv(i), i, slot(i)} : i \in blocks}
                        IN  /\ Returns({"RAW"},
                                       Bytes(0, 13) \cup UNION {Bytes(32 * i + 16, 30) : i \in blocks})
                            /\ meas' = meas \cup w
                            /\ skyview' = skyview \cup {slot(i) : i \in blocks}
              /\ UNCHANGED <<satVisible, fixTimeFrom>>

\* ubx_msg_rxm_sfrb (1470-1495): ten words at 2..41, handed to gpsd's
\* subframe decoder (outside this repository), whose result is returned.
RxmSfrb(f) ==
    /\ Dispatch(f, UBX_RXM("SFRB"))
    /\ IF f.dataLen < 42
         THEN Rejects({})
         ELSE /\ Returns({"SUBFRAME"}, Bytes(0, 42))
              /\ UNCHANGED <<skyview, meas, avbMeas, satVisible,
                             fixTimeFrom>>

\* The header bytes SFRBX reads after the length check: gnssId, svId,
\* freqId, numWords, chn and version (1517, 1524-1528); byte 3 is reserved.
SfrbxHeader == {0, 1, 2, 4, 5, 6}

\* ubx_msg_rxm_sfrbx (1503-1555): numWords (byte 4) must match the payload
\* length and be at most 16; version (byte 6) 0, i.e. b0 clear, is refused.
RxmSfrbx(f) ==
    /\ Dispatch(f, UBX_RXM("SFRBX"))
    /\ IF f.dataLen < 8 THEN Rejects({})
       ELSE IF f.dataLen # 8 + 4 * f.count \/ f.count > 16 THEN Rejects({4})
       ELSE IF "b0" \notin f.flags THEN Rejects(SfrbxHeader)
       ELSE /\ Returns({"SUBFRAME"}, SfrbxHeader \cup Bytes(8, 4 * f.count))
            /\ UNCHANGED <<skyview, meas, avbMeas, satVisible, fixTimeFrom>>

\* memset(&session->gpsdata.raw, 0, sizeof(&...)) (1611) clears a pointer's
\* worth of bytes at the start of struct raw_t, whose layout is gpsd's
\* (outside this repository): a leading field that no property reads, the
\* avb_meas count, or the start of raw.meas[0].
ClearRawHead ==
    \/ UNCHANGED <<meas, avbMeas>>
    \/ avbMeas' = 0 /\ UNCHANGED meas
    \/ meas' = meas \cup {0} /\ UNCHANGED avbMeas

\* ubx_msg_tim_tp (1592-1651): "reliable cycle - empty all data".  The two
\* memsets clear sizeof(&...) bytes, the size of a pointer: the start of
\* skyview[0] (1610) and the start of raw (1611), so the other slots keep
\* their satellites; satellites_visible is zeroed.  All of this happens
\* before the length check.  UTC with towSubMS = 0 (b0, b1) sets tpTime,
\* which no property reads.
TimTp(f) ==
    /\ Dispatch(f, UBX_TIM("TP"))
    /\ skyview' = skyview \cup {0}
    /\ ClearRawHead
    /\ satVisible' = 0
    /\ IF f.dataLen < 16
         THEN Returns({}, {})
         ELSE Returns({"ONLINE"}, Bytes(0, 16))
    /\ UNCHANGED fixTimeFrom

\* ubx_parse on one frame from msg_buf (part_002:186).
Parse(f) ==
    \/ ParseRunt(f) \/ ParseNoHandler(f) \/ ParseUnknown(f) \/ NavPvt(f) \/ NavTimeGps(f)
    \/ NavTimeUtc(f) \/ NavSat(f) \/ MeasX(f) \/ RawX(f) \/ RxmSfrb(f)
    \/ RxmSfrbx(f) \/ TimTp(f)

Next == \E f \in Frames : Parse(f)

Spec == Init /\ [][Next]_vars

-----------------------------------------------------------------------------
(* Properties.                                                             *)

\* Every handler reads only bytes of the payload the header declares: no
\* getter of part_001 reaches past data_len into the checksum or stale
\* bytes of msg_buf.
ReadsWithinPayload == reads \subseteq 0..(dataLen - 1)

\* Every skyview[] and raw.meas[] slot the handlers write is inside the
\* MAXCHANNELS-entry arrays (nav_sat, measx and rawx index them by svId).
IndicesInBounds == skyview \cup meas \subseteq 0..(MAXCHANNELS - 1)

\* satellites_visible never exceeds the capacity of skyview[].
SatCountWithinCapacity == satVisible <= MAXCHANNELS

\* A frame the handler refuses (mask 0, only ONLINE_SET added) writes no
\* skyview[] or raw.meas[] slot, so there are no half-applied satellite
\* lists: the one write a refusal makes is TIM-TP's "reliable cycle"
\* memset of the start of skyview[0] and raw, which comes before its
\* length check (part_001:1610-1614).
RejectLeavesSlots ==
    [][mask' \subseteq {"ONLINE"} =>
          skyview' \subseteq skyview \cup {0} /\ meas' \subseteq meas \cup {0}]_vars

=============================================================================
