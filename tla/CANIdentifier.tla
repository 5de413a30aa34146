--------------------------- MODULE CANIdentifier ---------------------------
(***************************************************************************)
(* The extended identifier of a frame on the CAN bus, as CANFrame packs    *)
(* and unpacks it (CANRR.cpp).                                             *)
(*                                                                         *)
(* An unsigned integer is the set of its bits that are 1: masking is       *)
(* intersection, shifting moves the elements, or-ing is union.             *)
(***************************************************************************)
EXTENDS Naturals

\* (value & mask) >> n and (value & mask) << n
ShiftRight(value, n) == {b - n : b \in value}
ShiftLeft(value, n)  == {b + n : b \in value}

(* The 29-bit identifier.  sendFrame and readFrame place the low five bits  *)
(* of an ID alike, and the others differently.                              *)

WireID(src, tgt, cmd) ==
  {31}                                        \* CAN_EFF_FLAG
    \cup ShiftLeft(src \cap 0..4, 24)
    \cup ShiftLeft(src \cap {5}, 12)          \* ((src & 0x20) >> 4) << 16
    \cup ShiftLeft(tgt \cap 0..4, 19)
    \cup ShiftLeft(tgt \cap {5}, 18)          \* ((tgt & 0x20) << 4) << 14
    \cup (cmd \cap 0..7)

(* An operator named Wrong... is a slip one could make in the definition    *)
(* that follows it.                                                         *)
WrongTgtOfShiftsTooFar(id) == ShiftRight(id \cap 20..24, 20) \cup ShiftRight(id \cap 14..15, 9)

SrcOf(id) == ShiftRight(id \cap 24..28, 24) \cup ShiftRight(id \cap 16..17, 11)
TgtOf(id) == ShiftRight(id \cap 19..23, 19) \cup ShiftRight(id \cap 14..15, 9)
CmdOf(id) == id \cap 0..7
=============================================================================
