------------------------------ MODULE CANFrame ------------------------------
(***************************************************************************)
(* class CANFrame (CANRR.cpp): a request is addressed, filled, written to  *)
(* the CAN socket, and read back at the other end of the bus as a response *)
(* would be; the reader takes values out of it in order.                   *)
(*                                                                         *)
(* Unsigned integers are bit sets, see CANIdentifier.  A byte has ByteBits *)
(* bits, 8 in the code.                                                    *)
(***************************************************************************)
EXTENDS Naturals, Sequences, CANIdentifier

CONSTANTS
  ByteBits,   \* bits of a byte
  MaxData,    \* sizeof(m_data)
  IDs,        \* the IDs given to setTgtID and setSrcID, as bit sets
  Cmds,       \* the codes given to setCmd, as bit sets
  Values,     \* what is appended, as bit sets
  Garbage,    \* what an uninitialized variable may hold, as bit sets
  MaxAppends  \* bound: number of appends that succeed

ASSUME CANFrameAssumption ==
  /\ ByteBits \in Nat \ {0}
  /\ MaxData \in Nat
  /\ \A v \in IDs \cup Cmds \cup Values \cup Garbage : v \subseteq Nat
  /\ MaxAppends \in Nat

VARIABLES
  out,    \* the frame being built
  wire,   \* the struct can_frame written to the socket, or NotSent
  inp,    \* the frame readFrame filled
  writes, \* history: <<width, value>> appended to out
  reads   \* history: <<width, value>> successfully read from inp

vars == <<out, wire, inp, writes, reads>>

-----------------------------------------------------------------------------
(* Integers as bit sets.                                                    *)

Widths  == {1, 2, 4}             \* bytes of append8/16/32 and read8/16/32
Bits(w) == 0..(w * ByteBits - 1)

(* Operators named Wrong... are slips one could make in the definition that *)
(* follows them; no definition uses them.  With one of them in its place    *)
(* the properties must fail.                                                *)
WrongToBytesBigEndian(value, w) ==
  [k \in 1..w |-> ShiftRight(value \cap ((w - k) * ByteBits)..((w - k + 1) * ByteBits - 1),
                             (w - k) * ByteBits)]

\* The bytes append8/16/32 store, least significant first.
ToBytes(value, w) ==
  [k \in 1..w |-> ShiftRight(value \cap ((k - 1) * ByteBits)..(k * ByteBits - 1),
                             (k - 1) * ByteBits)]

\* What read16 and read32 make of consecutive bytes.
FromBytes(bytes) ==
  UNION {ShiftLeft(bytes[k], (k - 1) * ByteBits) : k \in DOMAIN bytes}

-----------------------------------------------------------------------------
NewFrame == [tgtID |-> {}, srcID |-> {}, cmd |-> {}, data |-> <<>>, readIndex |-> 0]

NotSent == [id |-> {}, data |-> <<>>]

Frames == [tgtID: SUBSET Nat, srcID: SUBSET Nat, cmd: SUBSET Nat,
           data: Seq(SUBSET Bits(1)), readIndex: Nat]

TypeOK ==
  /\ out \in Frames
  /\ inp \in Frames
  /\ wire \in [id: SUBSET (0..31), data: Seq(SUBSET Bits(1))]
  /\ writes \in Seq(Widths \X SUBSET Nat)
  /\ reads \in Seq(Widths \X SUBSET Nat)
  /\ Len(out.data) <= MaxData
  /\ Len(inp.data) <= MaxData
  /\ inp.readIndex <= Len(inp.data)

Init ==
  /\ out = NewFrame
  /\ wire = NotSent
  /\ inp = NewFrame
  /\ writes = <<>>
  /\ reads = <<>>

(* setSrcID, setTgtID and setCmd.                                           *)
Address(src, tgt, cmd) ==
  /\ wire = NotSent
  /\ out' = [out EXCEPT !.srcID = src, !.tgtID = tgt, !.cmd = cmd]
  /\ UNCHANGED <<wire, inp, writes, reads>>

WrongFitsOneOver(w) == Len(out.data) + w <= MaxData + 1

\* The bound check of append8, append16 and append32.
Fits(w) == Len(out.data) + w <= MaxData

(* append8, append16, append32: the value is cut to the width, and refused  *)
(* as a whole when its bytes do not all fit.                                *)
AppendValue(w, value) ==
  /\ wire = NotSent
  /\ Len(writes) < MaxAppends
  /\ Fits(w)
  /\ out' = [out EXCEPT !.data = @ \o ToBytes(value, w)]
  /\ writes' = Append(writes, <<w, value \cap Bits(w)>>)
  /\ UNCHANGED <<wire, inp, reads>>

SendFrame ==
  /\ wire = NotSent
  /\ wire' = [id |-> WireID(out.srcID, out.tgtID, out.cmd), data |-> out.data]
  /\ UNCHANGED <<out, inp, writes, reads>>

(* receiveFrame: a new CANFrame filled by readFrame.                        *)
ReceiveFrame ==
  /\ wire # NotSent
  /\ inp = NewFrame
  /\ inp' = [NewFrame EXCEPT !.srcID = SrcOf(wire.id),
                             !.tgtID = TgtOf(wire.id),
                             !.cmd   = CmdOf(wire.id),
                             !.data  = wire.data]
  /\ UNCHANGED <<out, wire, writes, reads>>

(* read8, read16, read32 into a variable that holds garbage.  read16 and    *)
(* read32 assign it; read8 ors the byte into it.  A read past the end fails *)
(* and leaves frame and variable alone.                                     *)
ReadValue(w, garbage) ==
  /\ inp.readIndex + w <= Len(inp.data)
  /\ LET bytes == SubSeq(inp.data, inp.readIndex + 1, inp.readIndex + w)
         value == FromBytes(bytes) \cup (IF w = 1 THEN garbage \cap Bits(1) ELSE {})
     IN  reads' = Append(reads, <<w, value>>)
  /\ inp' = [inp EXCEPT !.readIndex = @ + w]
  /\ UNCHANGED <<out, wire, writes>>

Next ==
  \/ \E src \in IDs, tgt \in IDs, cmd \in Cmds : Address(src, tgt, cmd)
  \/ \E w \in Widths, value \in Values : AppendValue(w, value)
  \/ SendFrame
  \/ ReceiveFrame
  \/ \E w \in Widths, garbage \in Garbage : ReadValue(w, garbage)

Spec == Init /\ [][Next]_vars

-----------------------------------------------------------------------------
(* Properties.                                                              *)

(* IDs below 32 and any command code arrive as they were sent: what         *)
(* sendFrame packs, readFrame unpacks.                                      *)
AddressDelivered ==
  (inp # NewFrame /\ out.srcID \subseteq 0..4 /\ out.tgtID \subseteq 0..4) =>
    /\ inp.srcID = out.srcID
    /\ inp.tgtID = out.tgtID
    /\ inp.cmd = out.cmd \cap 0..7

\* The reader has used the widths the writer used, as far as it has come.
SameWidths ==
  /\ Len(reads) <= Len(writes)
  /\ \A i \in DOMAIN reads : reads[i][1] = writes[i][1]

(* A reader that asks for the widths that were written gets the values that *)
(* were written, but for bytes, which come with whatever bits the           *)
(* variable held before.                                                    *)
ReadBack ==
  SameWidths =>
    \A i \in DOMAIN reads :
      IF reads[i][1] = 1
        THEN writes[i][2] \subseteq reads[i][2]
        ELSE writes[i][2] = reads[i][2]
=============================================================================
