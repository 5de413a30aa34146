----------------------------- MODULE MCCANFrame -----------------------------
(***************************************************************************)
(* Model-checking instance of CANFrame: bytes of two bits, a payload of    *)
(* five bytes, and IDs on both sides of the five-bit limit.                *)
(***************************************************************************)
EXTENDS CANFrame

\* 4 and 5, the IDs of the examples, 31, and 32 and 63 beyond the limit.
MCIDs == {{2}, {0, 2}, 0..4, {5}, 0..5}

\* 0x8C, the serial number request, and 0xFF.
MCCmds == {{2, 3, 7}, 0..7}

\* Values that differ in every byte and in the order of their bytes.
MCValues == {{}, {0, 3, 4}, {1, 5, 6, 7}}

MCGarbage == {{}, {0}}
=============================================================================
