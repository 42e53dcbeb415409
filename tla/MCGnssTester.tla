---------------------------- MODULE MCGnssTester ----------------------------
(* A small instance of GnssTester for TLC: the real 1024-byte buffers, a   *)
(* 16-bit size_t (twice the buffer fits), and stack garbage for `ret` that *)
(* completes a frame in one fragment (8) or two (4), never moves (0),      *)
(* overruns slowly (3) or wraps at once (-1).                               *)
EXTENDS GnssTester

MCBufSize == 1024
MCSizeWord == 65536
MCRetGarbage == {0, 3, 4, 8, -1}
\* Stack garbage that keeps every fragment inside msg_buf, for the runs
\* about main(): a crash would end those behaviours for another reason.
MCRetInBounds == {0, 4, 8}
MCRepeatValues == 0..1
=============================================================================
