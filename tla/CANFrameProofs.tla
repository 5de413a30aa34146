--------------------------- MODULE CANFrameProofs ---------------------------
(***************************************************************************)
(* Theorems about CANFrame: the identifier sendFrame composes and          *)
(* readFrame takes apart, for every five-bit address and every command;    *)
(* the types of a frame; and that values come out as they went in.         *)
(***************************************************************************)
EXTENDS CANFrame, TLAPS

(* Shifting left and back gives the bits again.                             *)
LEMMA ShiftBack ==
  ASSUME NEW value \in SUBSET Nat, NEW n \in Nat
  PROVE  ShiftRight(ShiftLeft(value, n), n) = value
<1>1. ASSUME NEW b \in value PROVE b \in ShiftRight(ShiftLeft(value, n), n)
  <2>1. b + n \in ShiftLeft(value, n) /\ (b + n) - n = b
    BY DEF ShiftLeft
  <2> QED
    BY <2>1 DEF ShiftRight
<1>2. ASSUME NEW b \in ShiftRight(ShiftLeft(value, n), n) PROVE b \in value
  <2>1. PICK c \in ShiftLeft(value, n) : b = c - n
    BY DEF ShiftRight
  <2>2. PICK d \in value : c = d + n
    BY DEF ShiftLeft
  <2>3. b = d
    BY <2>1, <2>2
  <2> QED
    BY <2>3
<1> QED
  BY <1>1, <1>2

(* Each field of the identifier can be cut out of it again, because the     *)
(* fields of five-bit addresses do not overlap.                             *)
LEMMA FieldsRecovered ==
  ASSUME NEW src \in SUBSET (0..4), NEW tgt \in SUBSET (0..4), NEW cmd \in SUBSET Nat
  PROVE  /\ SrcOf(WireID(src, tgt, cmd)) = src
         /\ TgtOf(WireID(src, tgt, cmd)) = tgt
         /\ CmdOf(WireID(src, tgt, cmd)) = cmd \cap 0..7
<1> DEFINE id == WireID(src, tgt, cmd)
<1>1. /\ src \cap 0..4 = src /\ src \cap {5} = {}
      /\ tgt \cap 0..4 = tgt /\ tgt \cap {5} = {}
  <2>1. 5 \notin 0..4
    OBVIOUS
  <2>2. ASSUME NEW s \in SUBSET (0..4) PROVE s \cap 0..4 = s /\ s \cap {5} = {}
    BY <2>1
  <2> QED
    BY <2>2
<1>2. id = {31} \cup ShiftLeft(src, 24) \cup ShiftLeft(tgt, 19) \cup (cmd \cap 0..7)
  BY <1>1 DEF WireID, ShiftLeft
<1>3. ShiftLeft(src, 24) \subseteq 24..28 /\ ShiftLeft(tgt, 19) \subseteq 19..23
  BY DEF ShiftLeft
<1>4. id \cap 24..28 = ShiftLeft(src, 24) /\ id \cap 16..17 = {}
  BY <1>2, <1>3
<1>5. id \cap 19..23 = ShiftLeft(tgt, 19) /\ id \cap 14..15 = {}
  BY <1>2, <1>3
<1>6. id \cap 0..7 = cmd \cap 0..7
  BY <1>2, <1>3
<1>7. ShiftRight({}, 11) = {} /\ ShiftRight({}, 9) = {}
  BY DEF ShiftRight
<1>8. SrcOf(id) = src
  <2>1. ShiftRight(ShiftLeft(src, 24), 24) = src
    BY ShiftBack
  <2> QED
    BY <1>4, <1>7, <2>1 DEF SrcOf
<1>9. TgtOf(id) = tgt
  <2>1. ShiftRight(ShiftLeft(tgt, 19), 19) = tgt
    BY ShiftBack
  <2> QED
    BY <1>5, <1>7, <2>1 DEF TgtOf
<1> QED
  BY <1>6, <1>8, <1>9 DEF CmdOf

-----------------------------------------------------------------------------
(* The frame that was sent carries the address of the frame being built,    *)
(* which no longer changes, and the frame received was cut out of it.       *)
AddressInv ==
  /\ out.cmd \subseteq Nat
  /\ wire # NotSent => wire.id = WireID(out.srcID, out.tgtID, out.cmd)
  /\ inp # NewFrame =>
       /\ wire # NotSent
       /\ inp.srcID = SrcOf(wire.id)
       /\ inp.tgtID = TgtOf(wire.id)
       /\ inp.cmd = CmdOf(wire.id)

\* The fields of a frame as the record updates of the actions need them.
IsFrame(frame) ==
  frame = [tgtID |-> frame.tgtID, srcID |-> frame.srcID, cmd |-> frame.cmd,
           data |-> frame.data, readIndex |-> frame.readIndex]

FrameInv == IsFrame(out) /\ IsFrame(inp) /\ AddressInv

(* The invariant of the frame holds for a new frame.                        *)
LEMMA InitFrame == Init => FrameInv
<1> SUFFICES ASSUME Init PROVE FrameInv
  OBVIOUS
<1>1. IsFrame(NewFrame) /\ NewFrame.cmd = {}
  BY DEF IsFrame, NewFrame
<1> QED
  BY <1>1 DEF Init, FrameInv, AddressInv

(* Every setter keeps it.                                                   *)
LEMMA NextFrame == FrameInv /\ [Next]_vars => FrameInv'
<1> SUFFICES ASSUME FrameInv, [Next]_vars PROVE FrameInv'
  OBVIOUS
<1>a. IsFrame(out) /\ IsFrame(inp) /\ AddressInv
  BY DEF FrameInv
<1>1. ASSUME NEW src \in IDs, NEW tgt \in IDs, NEW cmd \in Cmds, Address(src, tgt, cmd)
      PROVE  FrameInv'
  <2>1. out'.cmd = cmd /\ IsFrame(out')
    BY <1>1, <1>a DEF Address, IsFrame
  <2>2. cmd \subseteq Nat
    BY CANFrameAssumption
  <2> QED
    BY <1>1, <1>a, <2>1, <2>2 DEF Address, FrameInv, AddressInv
<1>2. ASSUME NEW w \in Widths, NEW value \in Values, AppendValue(w, value) PROVE FrameInv'
  <2>1. /\ out'.cmd = out.cmd /\ out'.srcID = out.srcID /\ out'.tgtID = out.tgtID
        /\ IsFrame(out')
    BY <1>2, <1>a DEF AppendValue, IsFrame
  <2> QED
    BY <1>2, <1>a, <2>1 DEF AppendValue, FrameInv, AddressInv
<1>3. CASE SendFrame
  <2>1. wire'.id = WireID(out.srcID, out.tgtID, out.cmd)
    BY <1>3 DEF SendFrame
  <2> QED
    BY <1>3, <1>a, <2>1 DEF SendFrame, FrameInv, AddressInv
<1>4. CASE ReceiveFrame
  <2>1. /\ inp'.srcID = SrcOf(wire.id) /\ inp'.tgtID = TgtOf(wire.id)
        /\ inp'.cmd = CmdOf(wire.id) /\ IsFrame(inp')
    BY <1>4 DEF ReceiveFrame, NewFrame, IsFrame
  <2> QED
    BY <1>4, <1>a, <2>1 DEF ReceiveFrame, FrameInv, AddressInv
<1>5. ASSUME NEW w \in Widths, NEW garbage \in Garbage, ReadValue(w, garbage) PROVE FrameInv'
  <2>1. /\ inp'.srcID = inp.srcID /\ inp'.tgtID = inp.tgtID /\ inp'.cmd = inp.cmd
        /\ IsFrame(inp')
    BY <1>5, <1>a DEF ReadValue, IsFrame
  <2>2. inp # NewFrame
    <3>1. CASE inp = NewFrame
      <4>1. inp.readIndex = 0 /\ inp.data = <<>> /\ Len(inp.data) = 0
        BY <3>1 DEF NewFrame
      <4>2. w > 0 /\ w \in Nat
        BY DEF Widths
      <4> QED
        BY <1>5, <4>1, <4>2 DEF ReadValue
    <3> QED
      BY <3>1
  <2> QED
    BY <1>5, <1>a, <2>1, <2>2 DEF ReadValue, FrameInv, AddressInv
<1>6. CASE UNCHANGED vars
  BY <1>6, <1>a DEF vars, FrameInv, AddressInv
<1> QED
  BY <1>1, <1>2, <1>3, <1>4, <1>5, <1>6 DEF Next

(* Any address below 32 and any command code survive the trip over the bus. *)
THEOREM AddressAlwaysDelivered == Spec => []AddressDelivered
<1>1. Init => FrameInv
  BY InitFrame
<1>2. FrameInv /\ [Next]_vars => FrameInv'
  BY NextFrame
<1>3. FrameInv => AddressDelivered
  <2> SUFFICES ASSUME FrameInv, inp # NewFrame,
                      out.srcID \subseteq 0..4, out.tgtID \subseteq 0..4
               PROVE  /\ inp.srcID = out.srcID
                      /\ inp.tgtID = out.tgtID
                      /\ inp.cmd = out.cmd \cap 0..7
    BY DEF AddressDelivered
  <2>1. out.cmd \in SUBSET Nat /\ out.srcID \in SUBSET (0..4) /\ out.tgtID \in SUBSET (0..4)
    BY DEF FrameInv, AddressInv
  <2>2. /\ inp.srcID = SrcOf(WireID(out.srcID, out.tgtID, out.cmd))
        /\ inp.tgtID = TgtOf(WireID(out.srcID, out.tgtID, out.cmd))
        /\ inp.cmd = CmdOf(WireID(out.srcID, out.tgtID, out.cmd))
    BY DEF FrameInv, AddressInv
  <2>3. /\ SrcOf(WireID(out.srcID, out.tgtID, out.cmd)) = out.srcID
        /\ TgtOf(WireID(out.srcID, out.tgtID, out.cmd)) = out.tgtID
        /\ CmdOf(WireID(out.srcID, out.tgtID, out.cmd)) = out.cmd \cap 0..7
    BY <2>1, FieldsRecovered, Zenon
  <2> QED
    BY <2>2, <2>3, Zenon
<1> QED
  BY <1>1, <1>2, <1>3, PTL DEF Spec

-----------------------------------------------------------------------------
(* Where the bytes of a value are among its bits.                           *)
LEMMA BytePlace ==
  ASSUME NEW w \in Widths, NEW k \in 1..w
  PROVE  /\ (k - 1) * ByteBits \in Nat
         /\ k * ByteBits = (k - 1) * ByteBits + ByteBits
         /\ k * ByteBits <= w * ByteBits
<1>1. ByteBits \in Nat
  BY CANFrameAssumption
<1>2. k \in {1, 2, 3, 4} /\ w \in {1, 2, 4} /\ k <= w
  BY DEF Widths
<1>3. k = 1 \/ k = 2 \/ k = 3 \/ k = 4
  BY <1>2
<1>4. w = 1 \/ w = 2 \/ w = 4
  BY <1>2
<1> QED
  BY <1>1, <1>2, <1>3, <1>4

(* append makes as many bytes as it is wide.                                *)
LEMMA ByteSeq ==
  ASSUME NEW w \in Widths, NEW value \in SUBSET Nat
  PROVE  /\ ToBytes(value, w) \in Seq(SUBSET Bits(1))
         /\ Len(ToBytes(value, w)) = w
         /\ DOMAIN ToBytes(value, w) = 1..w
<1>1. w \in Nat
  BY DEF Widths
<1>2. ASSUME NEW k \in 1..w
      PROVE  ShiftRight(value \cap ((k - 1) * ByteBits)..(k * ByteBits - 1), (k - 1) * ByteBits)
               \in SUBSET Bits(1)
  <2> DEFINE n == (k - 1) * ByteBits
             m == k * ByteBits
  <2>1. n \in Nat /\ m = n + ByteBits /\ ByteBits \in Nat /\ 1 * ByteBits = ByteBits
    BY BytePlace, CANFrameAssumption
  <2> HIDE DEF n, m
  <2>2. ShiftRight(value \cap n..(m - 1), n) \subseteq 0..(ByteBits - 1)
    BY <2>1 DEF ShiftRight
  <2> QED
    BY <2>1, <2>2 DEF n, m, Bits
<1> QED
  BY <1>1, <1>2 DEF ToBytes

(* Bits beyond the width make no difference.                                *)
LEMMA ByteCut ==
  ASSUME NEW w \in Widths, NEW value \in SUBSET Nat
  PROVE  ToBytes(value \cap Bits(w), w) = ToBytes(value, w)
<1>1. ASSUME NEW k \in 1..w
      PROVE  (value \cap Bits(w)) \cap ((k - 1) * ByteBits)..(k * ByteBits - 1)
               = value \cap ((k - 1) * ByteBits)..(k * ByteBits - 1)
  <2> DEFINE n == (k - 1) * ByteBits
             m == k * ByteBits
             e == w * ByteBits
  <2>1. n \in Nat /\ m = n + ByteBits /\ m <= e /\ ByteBits \in Nat /\ e \in Nat
    BY BytePlace, CANFrameAssumption DEF Widths
  <2>2. Bits(w) = 0..(e - 1)
    BY DEF Bits
  <2> HIDE DEF n, m, e
  <2>3. n..(m - 1) \subseteq 0..(e - 1)
    BY <2>1
  <2> QED
    BY <2>2, <2>3 DEF n, m
<1> QED
  BY <1>1 DEF ToBytes

(* What the bytes of a value are put together to.                           *)
LEMMA ByteBack ==
  ASSUME NEW w \in Widths, NEW value \in SUBSET Bits(w)
  PROVE  FromBytes(ToBytes(value, w)) = value
<1>0. value \in SUBSET Nat /\ ByteBits \in Nat \ {0} /\ w \in Nat
  BY CANFrameAssumption DEF Bits, Widths
<1>1. DOMAIN ToBytes(value, w) = 1..w
  BY <1>0, ByteSeq
<1>2. ASSUME NEW b \in FromBytes(ToBytes(value, w)) PROVE b \in value
  <2>1. PICK k \in 1..w : b \in ShiftLeft(ToBytes(value, w)[k], (k - 1) * ByteBits)
    BY <1>1 DEF FromBytes
  <2> DEFINE n == (k - 1) * ByteBits
             part == value \cap n..(k * ByteBits - 1)
  <2>2. n \in Nat /\ ToBytes(value, w)[k] = ShiftRight(part, n)
    BY BytePlace DEF ToBytes
  <2>3. part \subseteq value
    OBVIOUS
  <2> HIDE DEF n, part
  <2>4. b \in ShiftLeft(ShiftRight(part, n), n)
    BY <2>1, <2>2 DEF n
  <2>5. PICK d \in part : b = (d - n) + n
    BY <2>4 DEF ShiftLeft, ShiftRight
  <2> QED
    BY <1>0, <2>2, <2>3, <2>5
<1>3. ASSUME NEW b \in value PROVE b \in FromBytes(ToBytes(value, w))
  <2>1. b \in Nat /\ b <= w * ByteBits - 1
    BY <1>0 DEF Bits
  <2>2. PICK k \in 1..w : (k - 1) * ByteBits <= b /\ b <= k * ByteBits - 1
    <3>1. CASE w = 1
      BY <3>1, <2>1, <1>0
    <3>2. CASE w = 2
      <4>1. b <= 1 * ByteBits - 1 \/ (1 * ByteBits <= b /\ b <= 2 * ByteBits - 1)
        BY <3>2, <2>1, <1>0
      <4>2. (1 - 1) * ByteBits = 0 /\ 2 - 1 = 1 /\ 1 \in 1..w /\ 2 \in 1..w
        BY <3>2, <1>0
      <4> QED
        BY <4>1, <4>2, <2>1, <1>0
    <3>3. CASE w = 4
      <4>1. \/ b <= 1 * ByteBits - 1
            \/ 1 * ByteBits <= b /\ b <= 2 * ByteBits - 1
            \/ 2 * ByteBits <= b /\ b <= 3 * ByteBits - 1
            \/ 3 * ByteBits <= b /\ b <= 4 * ByteBits - 1
        BY <3>3, <2>1, <1>0
      <4>2. /\ (1 - 1) * ByteBits = 0 /\ 2 - 1 = 1 /\ 3 - 1 = 2 /\ 4 - 1 = 3
            /\ 1 \in 1..w /\ 2 \in 1..w /\ 3 \in 1..w /\ 4 \in 1..w
        BY <3>3, <1>0
      <4> QED
        BY <4>1, <4>2, <2>1, <1>0
    <3> QED
      BY <3>1, <3>2, <3>3 DEF Widths
  <2> DEFINE n == (k - 1) * ByteBits
             part == value \cap n..(k * ByteBits - 1)
  <2>3. n \in Nat /\ k * ByteBits \in Nat /\ ToBytes(value, w)[k] = ShiftRight(part, n)
    BY <1>0, BytePlace DEF ToBytes
  <2>4. b \in part
    BY <2>1, <2>2, <2>3
  <2> HIDE DEF n, part
  <2>5. b - n \in ShiftRight(part, n) /\ (b - n) + n = b
    BY <2>1, <2>3, <2>4 DEF ShiftRight
  <2>6. b \in ShiftLeft(ToBytes(value, w)[k], n)
    BY <2>3, <2>5 DEF ShiftLeft
  <2> QED
    BY <1>1, <2>6 DEF FromBytes, n
<1> QED
  BY <1>2, <1>3

(* What bytes are put together to is a number.                              *)
LEMMA FromBytesType ==
  ASSUME NEW bytes \in Seq(SUBSET Bits(1))
  PROVE  FromBytes(bytes) \in SUBSET Nat
<1>1. ASSUME NEW k \in DOMAIN bytes PROVE ShiftLeft(bytes[k], (k - 1) * ByteBits) \subseteq Nat
  <2> DEFINE n == (k - 1) * ByteBits
  <2>1. n \in Nat /\ bytes[k] \subseteq Nat
    BY CANFrameAssumption DEF Bits
  <2> HIDE DEF n
  <2>2. ShiftLeft(bytes[k], n) \subseteq Nat
    BY <2>1 DEF ShiftLeft
  <2> QED
    BY <2>2 DEF n
<1> QED
  BY <1>1 DEF FromBytes

(* The identifier has 32 bits, one of which is always set.                  *)
LEMMA IdentifierType ==
  ASSUME NEW src \in SUBSET Nat, NEW tgt \in SUBSET Nat, NEW cmd \in SUBSET Nat
  PROVE  WireID(src, tgt, cmd) \in SUBSET (0..31) /\ WireID(src, tgt, cmd) # {}
<1>1. /\ ShiftLeft(src \cap 0..4, 24) \subseteq 0..31 /\ ShiftLeft(src \cap {5}, 12) \subseteq 0..31
      /\ ShiftLeft(tgt \cap 0..4, 19) \subseteq 0..31 /\ ShiftLeft(tgt \cap {5}, 18) \subseteq 0..31
  BY DEF ShiftLeft
<1>2. 31 \in 0..31 /\ cmd \cap 0..7 \subseteq 0..31
  OBVIOUS
<1> QED
  BY <1>1, <1>2, ZenonT(40) DEF WireID

(* The fields cut out of it are numbers.                                    *)
LEMMA FieldTypes ==
  ASSUME NEW id \in SUBSET (0..31)
  PROVE  SrcOf(id) \in SUBSET Nat /\ TgtOf(id) \in SUBSET Nat /\ CmdOf(id) \in SUBSET Nat
<1>1. /\ ShiftRight(id \cap 24..28, 24) \subseteq Nat /\ ShiftRight(id \cap 16..17, 11) \subseteq Nat
      /\ ShiftRight(id \cap 19..23, 19) \subseteq Nat /\ ShiftRight(id \cap 14..15, 9) \subseteq Nat
  BY DEF ShiftRight
<1> QED
  BY <1>1 DEF SrcOf, TgtOf, CmdOf

-----------------------------------------------------------------------------
(* Types.                                                                   *)

TypeInv == TypeOK /\ Len(wire.data) <= MaxData

(* A new frame has the types of a frame.                                    *)
LEMMA NewFrameType == NewFrame \in Frames /\ NotSent \in [id: SUBSET (0..31), data: Seq(SUBSET Bits(1))]
<1>1. {} \in SUBSET Nat /\ {} \in SUBSET (0..31) /\ <<>> \in Seq(SUBSET Bits(1)) /\ 0 \in Nat
  OBVIOUS
<1> QED
  BY <1>1 DEF NewFrame, NotSent, Frames

(* Nothing is written at first.                                             *)
LEMMA InitTypes == Init => TypeInv
<1> SUFFICES ASSUME Init PROVE TypeInv
  OBVIOUS
<1>1. /\ NewFrame.data = <<>> /\ NewFrame.readIndex = 0 /\ NotSent.data = <<>>
      /\ Len(<<>>) = 0 /\ MaxData \in Nat
  BY CANFrameAssumption DEF NewFrame, NotSent
<1>2. <<>> \in Seq(Widths \X SUBSET Nat)
  OBVIOUS
<1> QED
  BY <1>1, <1>2, NewFrameType DEF Init, TypeInv, TypeOK

(* Every action keeps the types and the length of a frame.                  *)
LEMMA NextTypes == TypeInv /\ [Next]_vars => TypeInv'
<1> SUFFICES ASSUME TypeInv, [Next]_vars PROVE TypeInv'
  OBVIOUS
<1>a. /\ out \in Frames /\ inp \in Frames
      /\ wire \in [id: SUBSET (0..31), data: Seq(SUBSET Bits(1))]
      /\ writes \in Seq(Widths \X SUBSET Nat) /\ reads \in Seq(Widths \X SUBSET Nat)
      /\ Len(out.data) <= MaxData /\ Len(inp.data) <= MaxData /\ Len(wire.data) <= MaxData
      /\ inp.readIndex <= Len(inp.data)
  BY DEF TypeInv, TypeOK
<1>1. ASSUME NEW src \in IDs, NEW tgt \in IDs, NEW cmd \in Cmds, Address(src, tgt, cmd)
      PROVE  TypeInv'
  <2>1. src \in SUBSET Nat /\ tgt \in SUBSET Nat /\ cmd \in SUBSET Nat
    BY CANFrameAssumption
  <2>2. out' \in Frames /\ out'.data = out.data
    BY <1>1, <1>a, <2>1 DEF Address, Frames
  <2> QED
    BY <1>1, <1>a, <2>2 DEF Address, TypeInv, TypeOK
<1>2. ASSUME NEW w \in Widths, NEW value \in Values, AppendValue(w, value) PROVE TypeInv'
  <2>1. value \in SUBSET Nat /\ value \cap Bits(w) \in SUBSET Nat
    BY CANFrameAssumption
  <2>2. out.data \in Seq(SUBSET Bits(1)) /\ ToBytes(value, w) \in Seq(SUBSET Bits(1))
        /\ Len(ToBytes(value, w)) = w
    BY <1>a, <2>1, ByteSeq DEF Frames
  <2>3. out.data \o ToBytes(value, w) \in Seq(SUBSET Bits(1))
        /\ Len(out.data \o ToBytes(value, w)) = Len(out.data) + w
    BY <2>2
  <2>4. out' \in Frames /\ out'.data = out.data \o ToBytes(value, w)
    BY <1>2, <1>a, <2>3 DEF AppendValue, Frames
  <2>5. writes' \in Seq(Widths \X SUBSET Nat)
    BY <1>2, <1>a, <2>1 DEF AppendValue
  <2>6. Len(out'.data) <= MaxData
    BY <1>2, <2>3, <2>4 DEF AppendValue, Fits
  <2> QED
    BY <1>2, <1>a, <2>4, <2>5, <2>6 DEF AppendValue, TypeInv, TypeOK
<1>3. CASE SendFrame
  <2>1. out.srcID \in SUBSET Nat /\ out.tgtID \in SUBSET Nat /\ out.cmd \in SUBSET Nat
        /\ out.data \in Seq(SUBSET Bits(1))
    BY <1>a DEF Frames
  <2>2. WireID(out.srcID, out.tgtID, out.cmd) \in SUBSET (0..31)
    BY <2>1, IdentifierType
  <2>3. wire' \in [id: SUBSET (0..31), data: Seq(SUBSET Bits(1))] /\ wire'.data = out.data
    BY <1>3, <2>1, <2>2 DEF SendFrame
  <2> QED
    BY <1>3, <1>a, <2>3 DEF SendFrame, TypeInv, TypeOK
<1>4. CASE ReceiveFrame
  <2>1. /\ SrcOf(wire.id) \in SUBSET Nat /\ TgtOf(wire.id) \in SUBSET Nat
        /\ CmdOf(wire.id) \in SUBSET Nat /\ wire.data \in Seq(SUBSET Bits(1))
    <3>1. wire.id \in SUBSET (0..31) /\ wire.data \in Seq(SUBSET Bits(1))
      BY <1>a
    <3> QED
      BY <3>1, FieldTypes
  <2>2. inp' = [tgtID |-> TgtOf(wire.id), srcID |-> SrcOf(wire.id), cmd |-> CmdOf(wire.id),
                data |-> wire.data, readIndex |-> 0]
    BY <1>4 DEF ReceiveFrame, NewFrame
  <2>3. inp' \in Frames /\ inp'.data = wire.data /\ inp'.readIndex = 0
    BY <2>1, <2>2 DEF Frames
  <2>4. Len(wire.data) \in Nat
    BY <2>1
  <2> QED
    BY <1>4, <1>a, <2>3, <2>4 DEF ReceiveFrame, TypeInv, TypeOK
<1>5. ASSUME NEW w \in Widths, NEW garbage \in Garbage, ReadValue(w, garbage) PROVE TypeInv'
  <2> DEFINE bytes == SubSeq(inp.data, inp.readIndex + 1, inp.readIndex + w)
             value == FromBytes(bytes) \cup (IF w = 1 THEN garbage \cap Bits(1) ELSE {})
  <2>1. inp.data \in Seq(SUBSET Bits(1)) /\ inp.readIndex \in Nat /\ w \in Nat
        /\ inp.readIndex + w <= Len(inp.data)
    BY <1>5, <1>a DEF ReadValue, Frames, Widths
  <2>2. bytes \in Seq(SUBSET Bits(1))
    BY <2>1
  <2>3. value \in SUBSET Nat
    <3>1. FromBytes(bytes) \in SUBSET Nat
      BY <2>2, FromBytesType
    <3>2. Bits(1) \subseteq Nat
      BY CANFrameAssumption DEF Bits
    <3> QED
      BY <3>1, <3>2
  <2>4. reads' = Append(reads, <<w, value>>)
    BY <1>5 DEF ReadValue
  <2>5. inp' \in Frames /\ inp'.data = inp.data /\ inp'.readIndex = inp.readIndex + w
    <3>1. inp' = [inp EXCEPT !.readIndex = inp.readIndex + w]
      BY <1>5 DEF ReadValue
    <3>2. inp.readIndex + w \in Nat
      BY <2>1
    <3> QED
      BY <1>a, <3>1, <3>2 DEF Frames
  <2>6. reads' \in Seq(Widths \X SUBSET Nat)
    <3> HIDE DEF value
    <3>1. <<w, value>> \in Widths \X SUBSET Nat
      BY <2>3
    <3> QED
      BY <1>a, <2>4, <3>1
  <2> HIDE DEF value, bytes
  <2> QED
    BY <1>5, <1>a, <2>1, <2>5, <2>6 DEF ReadValue, TypeInv, TypeOK
<1>6. CASE UNCHANGED vars
  BY <1>6, <1>a DEF vars, TypeInv, TypeOK
<1> QED
  BY <1>1, <1>2, <1>3, <1>4, <1>5, <1>6 DEF Next

(* A frame never holds more than m_data does, nothing is read beyond its    *)
(* end, and its bytes are bytes, for any widths in any order.               *)
THEOREM TypeCorrect == Spec => []TypeOK
<1>1. Init => TypeInv
  BY InitTypes
<1>2. TypeInv /\ [Next]_vars => TypeInv'
  BY NextTypes
<1>3. TypeInv => TypeOK
  BY DEF TypeInv
<1> QED
  BY <1>1, <1>2, <1>3, PTL DEF Spec

-----------------------------------------------------------------------------
(* Where a value lies in a frame.                                           *)

\* off[i] bytes come before the value appended after the i-th.
Offsets(ws) ==
  {off \in [0..Len(ws) -> Nat] :
     off[0] = 0 /\ \A i \in 1..Len(ws) : off[i] = off[i - 1] + ws[i][1]}

\* The values of ws, and nothing else, are in data.
Laid(off, ws, data) ==
  /\ off[Len(ws)] = Len(data)
  /\ \A i \in 0..Len(ws) : off[i] <= Len(data)
  /\ \A i \in 1..Len(ws) : \A k \in 1..ws[i][1] :
       data[off[i - 1] + k] = ToBytes(ws[i][2], ws[i][1])[k]

(* One more value is laid behind the others.                                *)
LEMMA LaidBehind ==
  ASSUME NEW ws \in Seq(Widths \X SUBSET Nat), NEW data \in Seq(SUBSET Bits(1)),
         NEW off \in Offsets(ws), Laid(off, ws, data),
         NEW w \in Widths, NEW v \in SUBSET Nat
  PROVE  \E nxt \in Offsets(Append(ws, <<w, v>>)) :
           /\ Laid(nxt, Append(ws, <<w, v>>), data \o ToBytes(v, w))
           /\ nxt[0] = off[0]
<1> DEFINE n   == Len(ws)
           all == Append(ws, <<w, v>>)
           big == data \o ToBytes(v, w)
           nxt == [i \in 0..(n + 1) |-> IF i <= n THEN off[i] ELSE off[n] + w]
<1>1. /\ n \in Nat /\ w \in Nat \ {0} /\ off \in [0..n -> Nat] /\ off[0] = 0
      /\ \A i \in 1..n : off[i] = off[i - 1] + ws[i][1]
      /\ off[n] = Len(data) /\ Len(data) \in Nat
      /\ \A i \in 0..n : off[i] \in Nat /\ off[i] <= Len(data)
  <2>1. n \in Nat /\ Len(data) \in Nat /\ w \in Nat \ {0}
    BY DEF Widths
  <2>2. /\ off \in [0..n -> Nat] /\ off[0] = 0
        /\ \A i \in 1..n : off[i] = off[i - 1] + ws[i][1]
    BY DEF Offsets
  <2>3. off[n] = Len(data) /\ \A i \in 0..n : off[i] <= Len(data)
    BY DEF Laid
  <2> HIDE DEF n
  <2> QED
    BY <2>1, <2>2, <2>3
<1>2. /\ Len(all) = n + 1 /\ all[n + 1] = <<w, v>>
      /\ \A i \in 1..n : all[i] = ws[i]
      /\ \A i \in 1..n : ws[i] \in Widths \X SUBSET Nat
  OBVIOUS
<1>3. /\ nxt \in [0..(n + 1) -> Nat] /\ nxt[0] = off[0] /\ nxt[n + 1] = off[n] + w
      /\ \A i \in 0..n : nxt[i] = off[i]
  BY <1>1
<1>4. /\ ToBytes(v, w) \in Seq(SUBSET Bits(1)) /\ Len(ToBytes(v, w)) = w
  BY ByteSeq
<1>5. /\ Len(big) = Len(data) + w
      /\ \A j \in 1..Len(data) : big[j] = data[j]
      /\ \A k \in 1..w : big[Len(data) + k] = ToBytes(v, w)[k]
  <2> DEFINE t == ToBytes(v, w)
             B == SUBSET Bits(1)
  <2>1. t \in Seq(B) /\ Len(t) = w /\ data \in Seq(B)
    BY <1>4
  <2> HIDE DEF t, B, n, all, nxt
  <2>2. /\ Len(data \o t) = Len(data) + Len(t)
        /\ \A j \in 1..Len(data) : (data \o t)[j] = data[j]
        /\ \A k \in 1..Len(t) : (data \o t)[Len(data) + k] = t[k]
    <3>1. Len(data) \in Nat /\ Len(t) \in Nat
      BY <2>1
    <3>2. \A a, b \in Seq(B) :
            /\ Len(a \o b) = Len(a) + Len(b)
            /\ \A j \in 1..Len(a) : (a \o b)[j] = a[j]
            /\ \A k \in 1..Len(b) : (a \o b)[Len(a) + k] = b[k]
      OBVIOUS
    <3> QED
      BY <2>1, <3>2, Zenon
  <2> QED
    BY <2>1, <2>2 DEF t
<1> HIDE DEF all, big, nxt, n
<1>6. ASSUME NEW i \in 1..(n + 1)
      PROVE  /\ nxt[i] = nxt[i - 1] + all[i][1]
             /\ \A k \in 1..all[i][1] : big[nxt[i - 1] + k] = ToBytes(all[i][2], all[i][1])[k]
  <2>1. CASE i \in 1..n
    <3>1. /\ nxt[i] = off[i] /\ nxt[i - 1] = off[i - 1] /\ all[i] = ws[i]
          /\ off[i] = off[i - 1] + ws[i][1] /\ off[i] <= Len(data)
          /\ off[i - 1] \in Nat /\ off[i] \in Nat
      BY <2>1, <1>1, <1>2, <1>3, SMTT(30)
    <3>2. \A k \in 1..ws[i][1] : data[off[i - 1] + k] = ToBytes(ws[i][2], ws[i][1])[k]
      BY <2>1 DEF Laid, n
    <3>3. ws[i][1] \in Nat
      BY <2>1, <1>2 DEF Widths
    <3>4. ASSUME NEW k \in 1..ws[i][1]
          PROVE  big[off[i - 1] + k] = data[off[i - 1] + k]
      <4>1. /\ off[i - 1] \in Nat /\ k \in Nat /\ k >= 1 /\ Len(data) \in Nat
            /\ off[i - 1] + k <= off[i - 1] + ws[i][1]
        <5>1. k \in Nat /\ k >= 1 /\ k <= ws[i][1]
          BY <3>3
        <5>2. off[i - 1] \in Nat /\ Len(data) \in Nat
          BY <3>1, <1>1
        <5> QED
          BY <5>1, <5>2, <3>3
      <4>2. off[i - 1] + ws[i][1] <= Len(data)
        BY <3>1
      <4>3. off[i - 1] + k \in 1..Len(data)
        BY <4>1, <4>2, <3>3
      <4> QED
        BY <4>3, <1>5
    <3> QED
      BY <3>1, <3>2, <3>4
  <2>2. CASE i = n + 1
    <3>1. nxt[i] = off[n] + w /\ nxt[i - 1] = off[n] /\ all[i] = <<w, v>>
      <4>1. i - 1 = n /\ n \in 0..n
        BY <2>2, <1>1
      <4> QED
        BY <4>1, <2>2, <1>2, <1>3
    <3> QED
      BY <3>1, <1>1, <1>5
  <2> QED
    BY <2>1, <2>2, <1>1
<1>7. nxt[n + 1] = Len(big) /\ \A i \in 0..(n + 1) : nxt[i] <= Len(big)
  <2>1. ASSUME NEW i \in 0..(n + 1) PROVE nxt[i] <= Len(big)
    <3>1. CASE i \in 0..n
      BY <3>1, <1>1, <1>3, <1>5
    <3>2. CASE i = n + 1
      BY <3>2, <1>1, <1>3, <1>5
    <3> QED
      BY <3>1, <3>2, <1>1
  <2> QED
    BY <2>1, <1>1, <1>3, <1>5
<1>8. nxt \in Offsets(all)
  BY <1>1, <1>2, <1>3, <1>6 DEF Offsets
<1>9. Laid(nxt, all, big)
  BY <1>2, <1>6, <1>7 DEF Laid
<1> QED
  BY <1>3, <1>8, <1>9 DEF all, big

(* The same of data with values in them, wherever they are laid.            *)
Placed(ws, data) ==
  /\ ws \in Seq(Widths \X SUBSET Nat) /\ data \in Seq(SUBSET Bits(1))
  /\ \E off \in Offsets(ws) : Laid(off, ws, data)

LEMMA PlacedBehind ==
  ASSUME NEW ws, NEW data, Placed(ws, data), NEW w, NEW v, w \in Widths, v \in SUBSET Nat
  PROVE  \E nxt \in Offsets(Append(ws, <<w, v>>)) :
           Laid(nxt, Append(ws, <<w, v>>), data \o ToBytes(v, w))
<1>1. ws \in Seq(Widths \X SUBSET Nat) /\ data \in Seq(SUBSET Bits(1))
  BY DEF Placed
<1>2. PICK off \in Offsets(ws) : Laid(off, ws, data)
  BY DEF Placed
<1> QED
  BY <1>1, <1>2, LaidBehind

(* The bytes of a value are found where it was laid.                        *)
LEMMA FoundThere ==
  ASSUME NEW ws \in Seq(Widths \X SUBSET Nat), NEW data \in Seq(SUBSET Bits(1)),
         NEW off \in Offsets(ws), Laid(off, ws, data), NEW i \in 1..Len(ws)
  PROVE  /\ SubSeq(data, off[i - 1] + 1, off[i - 1] + ws[i][1]) = ToBytes(ws[i][2], ws[i][1])
         /\ off[i] = off[i - 1] + ws[i][1]
<1>1. /\ Len(ws) \in Nat /\ off \in [0..Len(ws) -> Nat]
      /\ off[i] = off[i - 1] + ws[i][1] /\ off[i] <= Len(data) /\ off[i - 1] \in Nat
      /\ ws[i][1] \in Widths /\ ws[i][2] \in SUBSET Nat
      /\ \A k \in 1..ws[i][1] : data[off[i - 1] + k] = ToBytes(ws[i][2], ws[i][1])[k]
  <2>1. Len(ws) \in Nat /\ ws[i] \in Widths \X SUBSET Nat
    OBVIOUS
  <2>2. off \in [0..Len(ws) -> Nat] /\ off[i] = off[i - 1] + ws[i][1]
    BY DEF Offsets
  <2>3. /\ i \in 0..Len(ws) /\ i - 1 \in 0..Len(ws)
    BY <2>1
  <2>4. /\ off[i] <= Len(data)
        /\ \A k \in 1..ws[i][1] : data[off[i - 1] + k] = ToBytes(ws[i][2], ws[i][1])[k]
    BY <2>3 DEF Laid
  <2> QED
    BY <2>1, <2>2, <2>3, <2>4
<1> DEFINE w == ws[i][1]
           b == ToBytes(ws[i][2], w)
           c == SubSeq(data, off[i - 1] + 1, off[i - 1] + w)
<1>2. w \in Nat /\ b = [k \in 1..w |-> b[k]]
  <2>1. w \in Nat
    BY <1>1 DEF Widths
  <2> QED
    BY <2>1 DEF ToBytes
<1>3. c = [k \in 1..w |-> data[off[i - 1] + k]]
  <2> DEFINE m == off[i - 1]
             B == SUBSET Bits(1)
  <2>1. w \in Nat /\ m \in Nat /\ m + w <= Len(data) /\ data \in Seq(B)
    BY <1>1, <1>2
  <2> HIDE DEF w, m, B
  <2>2. SubSeq(data, m + 1, m + w) = [k \in 1..w |-> data[m + k]]
    BY ONLY <2>1
  <2> QED
    BY <2>2 DEF m
<1>4. \A k \in 1..w : data[off[i - 1] + k] = b[k]
  BY <1>1
<1> HIDE DEF w, b, c
<1>5. c = b
  BY <1>2, <1>3, <1>4
<1> QED
  BY <1>1, <1>5 DEF w, b, c

-----------------------------------------------------------------------------
(* What is read.                                                            *)

\* Only what fits its width is taken down as written.
CutInv == \A i \in DOMAIN writes : writes[i][2] \subseteq Bits(writes[i][1])

\* The data arrive as they were sent, and nothing is read before.
CarriedInv ==
  /\ wire # NotSent => wire.data = out.data
  /\ inp # NewFrame => wire # NotSent /\ inp.data = out.data
  /\ reads # <<>> => inp # NewFrame

LayoutInv ==
  \E off \in Offsets(writes) :
    /\ Laid(off, writes, out.data)
    /\ SameWidths => inp.readIndex = off[Len(reads)]

ReadInv == TypeInv /\ CutInv /\ CarriedInv /\ LayoutInv /\ ReadBack

(* A new frame holds nothing.                                               *)
LEMMA InitRead == Init => ReadInv
<1> SUFFICES ASSUME Init PROVE ReadInv
  OBVIOUS
<1>1. /\ writes = <<>> /\ reads = <<>> /\ out = NewFrame /\ inp = NewFrame /\ wire = NotSent
      /\ out.data = <<>> /\ inp.readIndex = 0
      /\ Len(writes) = 0 /\ Len(reads) = 0 /\ Len(out.data) = 0
      /\ DOMAIN writes = {} /\ DOMAIN reads = {}
  BY DEF Init, NewFrame
<1>2. CutInv /\ CarriedInv /\ ReadBack
  BY <1>1 DEF CutInv, CarriedInv, ReadBack
<1>3. LayoutInv
  <2> DEFINE off == [i \in 0..0 |-> 0]
  <2>1. off \in [0..0 -> Nat] /\ off[0] = 0 /\ 1..0 = {}
    OBVIOUS
  <2> HIDE DEF off
  <2>2. off \in Offsets(writes)
    BY <1>1, <2>1 DEF Offsets
  <2>3. Laid(off, writes, out.data)
    <3>1. \A i \in 0..0 : i = 0
      OBVIOUS
    <3> QED
      BY <1>1, <2>1, <3>1 DEF Laid
  <2> QED
    BY <1>1, <2>1, <2>2, <2>3 DEF LayoutInv
<1> QED
  BY <1>2, <1>3, InitTypes DEF ReadInv

(* A value appended is laid behind the others.                              *)
LEMMA AppendRead ==
  ASSUME ReadInv, NEW w \in Widths, NEW value \in Values, AppendValue(w, value)
  PROVE  CutInv' /\ CarriedInv' /\ LayoutInv' /\ ReadBack'
<1>a. /\ wire = NotSent /\ inp = NewFrame /\ reads = <<>>
      /\ out'.data = out.data \o ToBytes(value, w)
      /\ writes' = Append(writes, <<w, value \cap Bits(w)>>)
      /\ UNCHANGED <<wire, inp, reads>>
      /\ writes \in Seq(Widths \X SUBSET Nat) /\ out.data \in Seq(SUBSET Bits(1))
      /\ value \in SUBSET Nat /\ inp.readIndex = 0
  <2>1. /\ wire = NotSent
        /\ out' = [out EXCEPT !.data = out.data \o ToBytes(value, w)]
        /\ writes' = Append(writes, <<w, value \cap Bits(w)>>)
        /\ UNCHANGED <<wire, inp, reads>>
    BY DEF AppendValue
  <2>2. inp = NewFrame /\ reads = <<>>
    BY <2>1 DEF ReadInv, CarriedInv
  <2>3. inp.readIndex = 0
    BY <2>2 DEF NewFrame
  <2>4. out \in Frames /\ writes \in Seq(Widths \X SUBSET Nat)
    BY DEF ReadInv, TypeInv, TypeOK
  <2>5. out.data \in Seq(SUBSET Bits(1)) /\ out'.data = out.data \o ToBytes(value, w)
    BY <2>1, <2>4 DEF Frames
  <2>6. value \in SUBSET Nat
    BY CANFrameAssumption
  <2> QED
    BY <2>1, <2>2, <2>3, <2>4, <2>5, <2>6
<1>1. CutInv'
  <2>1. /\ DOMAIN writes = 1..Len(writes) /\ Len(writes) \in Nat
        /\ DOMAIN writes' = 1..(Len(writes) + 1)
        /\ writes'[Len(writes) + 1] = <<w, value \cap Bits(w)>>
        /\ \A i \in 1..Len(writes) : writes'[i] = writes[i]
    BY <1>a
  <2>2. ASSUME NEW i \in 1..(Len(writes) + 1) PROVE writes'[i][2] \subseteq Bits(writes'[i][1])
    <3>1. i \in 1..Len(writes) \/ i = Len(writes) + 1
      BY <2>1
    <3> QED
      BY <2>1, <3>1 DEF ReadInv, CutInv
  <2> QED
    BY <2>1, <2>2 DEF CutInv
<1>2. CarriedInv' /\ ReadBack'
  <2>1. DOMAIN reads' = {}
    BY <1>a
  <2> QED
    BY <1>a, <2>1 DEF CarriedInv, ReadBack
<1>3. LayoutInv'
  <2>1. PICK off \in Offsets(writes) : Laid(off, writes, out.data)
    BY DEF ReadInv, LayoutInv
  <2>2. off[0] = 0 /\ value \cap Bits(w) \in SUBSET Nat
    BY <1>a DEF Offsets
  <2>3. PICK nxt \in Offsets(writes') :
          /\ Laid(nxt, writes', out.data \o ToBytes(value \cap Bits(w), w))
          /\ nxt[0] = 0
    <3> DEFINE cut  == value \cap Bits(w)
               data == out.data
    <3>1. cut \in SUBSET Nat
      BY <2>2
    <3>2. Placed(writes, data)
      BY <1>a, <2>1 DEF Placed
    <3> HIDE DEF cut, data
    <3>3. \E nxt \in Offsets(Append(writes, <<w, cut>>)) :
            Laid(nxt, Append(writes, <<w, cut>>), data \o ToBytes(cut, w))
      BY <3>1, <3>2, PlacedBehind, Zenon
    <3> QED
      BY <3>3, <1>a DEF cut, data, Offsets
  <2>4. Laid(nxt, writes', out'.data)
    BY <1>a, <2>3, ByteCut
  <2>5. inp'.readIndex = nxt[Len(reads')]
    BY <1>a, <2>3
  <2> QED
    BY <2>3, <2>4, <2>5 DEF LayoutInv
<1> QED
  BY <1>1, <1>2, <1>3

(* A value read with the width it was written with is the next one in the   *)
(* frame.                                                                   *)
LEMMA ReadNextValue ==
  ASSUME ReadInv, NEW w \in Widths, NEW garbage \in Garbage, ReadValue(w, garbage)
  PROVE  CutInv' /\ CarriedInv' /\ LayoutInv' /\ ReadBack'
<1> DEFINE n     == Len(reads)
           bytes == SubSeq(inp.data, inp.readIndex + 1, inp.readIndex + w)
           value == FromBytes(bytes) \cup (IF w = 1 THEN garbage \cap Bits(1) ELSE {})
<1>a. /\ reads' = Append(reads, <<w, value>>)
      /\ inp' = [inp EXCEPT !.readIndex = inp.readIndex + w]
      /\ inp.readIndex + w <= Len(inp.data)
      /\ UNCHANGED <<out, wire, writes>>
  BY DEF ReadValue
<1>b. /\ inp \in Frames /\ inp.readIndex \in Nat /\ w \in Nat \ {0}
      /\ inp.data \in Seq(SUBSET Bits(1)) /\ Len(inp.data) \in Nat
      /\ writes \in Seq(Widths \X SUBSET Nat) /\ reads \in Seq(Widths \X SUBSET Nat)
      /\ n \in Nat
  BY DEF ReadInv, TypeInv, TypeOK, Frames, Widths
<1> HIDE DEF value, bytes, n
<1>c. /\ reads \in Seq(Widths \X SUBSET Nat) /\ Len(reads') = n + 1
      /\ DOMAIN reads' = 1..(n + 1) /\ DOMAIN reads = 1..n
      /\ reads'[n + 1] = <<w, value>>
      /\ \A i \in 1..n : reads'[i] = reads[i]
  BY <1>a, <1>b DEF n
<1>1. inp # NewFrame /\ inp.data = out.data /\ wire # NotSent
  <2>1. CASE inp = NewFrame
    <3>1. inp.readIndex = 0 /\ Len(inp.data) = 0
      BY <2>1 DEF NewFrame
    <3> QED
      BY <3>1, <1>a, <1>b
  <2> QED
    BY <2>1 DEF ReadInv, CarriedInv
<1>2. /\ inp'.readIndex = inp.readIndex + w /\ inp'.data = inp.data /\ inp' # NewFrame
  BY <1>a, <1>b DEF Frames, NewFrame
<1>3. CutInv' /\ CarriedInv'
  BY <1>a, <1>1, <1>2 DEF ReadInv, CutInv, CarriedInv
<1>4. PICK off \in Offsets(writes) :
        /\ Laid(off, writes, out.data)
        /\ SameWidths => inp.readIndex = off[Len(reads)]
  BY DEF ReadInv, LayoutInv
<1>5. CASE ~SameWidths'
  <2>1. ReadBack'
    BY <1>5 DEF ReadBack
  <2>2. LayoutInv'
    BY <1>5, <1>4, <1>a DEF LayoutInv
  <2> QED
    BY <1>3, <2>1, <2>2
<1>6. CASE SameWidths'
  <2>1. n + 1 <= Len(writes) /\ \A i \in 1..(n + 1) : reads'[i][1] = writes[i][1]
    BY <1>6, <1>a, <1>c DEF SameWidths
  <2>2. SameWidths
    BY <2>1, <1>b, <1>c DEF SameWidths, n
  <2>3. /\ n + 1 \in 1..Len(writes) /\ (n + 1) - 1 = n /\ writes[n + 1][1] = w
        /\ writes[n + 1][2] \in SUBSET Nat /\ writes[n + 1][2] \subseteq Bits(w)
        /\ inp.readIndex = off[n]
    <3>1. n + 1 \in 1..Len(writes) /\ (n + 1) - 1 = n
      BY <2>1, <1>b
    <3>2. writes[n + 1][1] = w
      BY <2>1, <1>b, <1>c
    <3>3. writes[n + 1] \in Widths \X SUBSET Nat /\ n + 1 \in DOMAIN writes
      BY <1>b, <3>1
    <3> QED
      BY <3>1, <3>2, <3>3, <2>2, <1>4 DEF ReadInv, CutInv, n
  <2>4. bytes = ToBytes(writes[n + 1][2], w) /\ off[n + 1] = off[n] + w
    <3> DEFINE i == n + 1
    <3>1. i \in 1..Len(writes) /\ i - 1 = n /\ writes[i][1] = w
      BY <2>3
    <3> HIDE DEF i
    <3>2. out.data \in Seq(SUBSET Bits(1))
      BY <1>1, <1>b
    <3>3. /\ SubSeq(out.data, off[i - 1] + 1, off[i - 1] + writes[i][1])
               = ToBytes(writes[i][2], writes[i][1])
          /\ off[i] = off[i - 1] + writes[i][1]
      BY <1>4, <1>b, <3>1, <3>2, FoundThere
    <3> QED
      BY <1>1, <2>3, <3>1, <3>3 DEF bytes, i
  <2>5. FromBytes(bytes) = writes[n + 1][2]
    BY <2>3, <2>4, ByteBack
  <2>6. LayoutInv'
    <3>1. inp'.readIndex = off[Len(reads')]
      BY <2>3, <2>4, <1>2, <1>c
    <3> QED
      BY <3>1, <1>4, <1>a DEF LayoutInv
  <2>7. ReadBack'
    <3>1. ASSUME NEW i \in 1..(n + 1)
          PROVE  IF reads'[i][1] = 1 THEN writes[i][2] \subseteq reads'[i][2]
                                     ELSE writes[i][2] = reads'[i][2]
      <4>1. CASE i \in 1..n
        BY <4>1, <2>2, <1>c DEF ReadInv, ReadBack
      <4>2. CASE i = n + 1
        BY <4>2, <2>5, <1>c DEF value
      <4> QED
        BY <4>1, <4>2, <1>b
    <3> QED
      BY <3>1, <1>a, <1>c DEF ReadBack
  <2> QED
    BY <1>3, <2>6, <2>7
<1> QED
  BY <1>3, <1>5, <1>6

(* Every action keeps the invariant.                                        *)
LEMMA NextRead == ReadInv /\ [Next]_vars => ReadInv'
<1> SUFFICES ASSUME ReadInv, [Next]_vars PROVE ReadInv'
  OBVIOUS
<1>0. TypeInv'
  BY NextTypes DEF ReadInv
<1>a. /\ out \in Frames
      /\ CutInv /\ CarriedInv /\ LayoutInv /\ ReadBack
  BY DEF ReadInv, TypeInv, TypeOK
<1>1. ASSUME NEW src \in IDs, NEW tgt \in IDs, NEW cmd \in Cmds, Address(src, tgt, cmd)
      PROVE  ReadInv'
  <2>1. out'.data = out.data /\ wire = NotSent /\ UNCHANGED <<wire, inp, writes, reads>>
    BY <1>1, <1>a DEF Address, Frames
  <2>2. CutInv' /\ CarriedInv' /\ ReadBack'
    BY <1>a, <2>1 DEF CutInv, CarriedInv, ReadBack, SameWidths
  <2>3. LayoutInv'
    BY <1>a, <2>1 DEF LayoutInv, SameWidths
  <2> QED
    BY <1>0, <2>2, <2>3 DEF ReadInv
<1>2. ASSUME NEW w \in Widths, NEW value \in Values, AppendValue(w, value) PROVE ReadInv'
  BY <1>0, <1>2, AppendRead DEF ReadInv
<1>3. CASE SendFrame
  <2>1. wire'.data = out.data /\ inp = NewFrame /\ reads = <<>>
        /\ UNCHANGED <<out, inp, writes, reads>>
    BY <1>3, <1>a DEF SendFrame, CarriedInv
  <2>2. CutInv' /\ CarriedInv' /\ ReadBack'
    BY <1>a, <2>1 DEF CutInv, CarriedInv, ReadBack, SameWidths
  <2>3. LayoutInv'
    BY <1>a, <2>1 DEF LayoutInv, SameWidths
  <2> QED
    BY <1>0, <2>2, <2>3 DEF ReadInv
<1>4. CASE ReceiveFrame
  <2>1. /\ wire # NotSent /\ wire.data = out.data /\ inp = NewFrame /\ reads = <<>>
        /\ inp'.data = wire.data /\ inp'.readIndex = 0 /\ inp.readIndex = 0
        /\ UNCHANGED <<out, wire, writes, reads>>
    BY <1>4, <1>a DEF ReceiveFrame, CarriedInv, NewFrame
  <2>2. CutInv' /\ CarriedInv' /\ ReadBack'
    BY <1>a, <2>1 DEF CutInv, CarriedInv, ReadBack, SameWidths
  <2>3. LayoutInv'
    BY <1>a, <2>1 DEF LayoutInv, SameWidths
  <2> QED
    BY <1>0, <2>2, <2>3 DEF ReadInv
<1>5. ASSUME NEW w \in Widths, NEW garbage \in Garbage, ReadValue(w, garbage) PROVE ReadInv'
  BY <1>0, <1>5, ReadNextValue DEF ReadInv
<1>6. CASE UNCHANGED vars
  <2>1. CutInv' /\ CarriedInv' /\ ReadBack'
    BY <1>6, <1>a DEF vars, CutInv, CarriedInv, ReadBack, SameWidths
  <2>2. LayoutInv'
    BY <1>6, <1>a DEF vars, LayoutInv, SameWidths
  <2> QED
    BY <1>0, <2>1, <2>2 DEF ReadInv
<1> QED
  BY <1>1, <1>2, <1>3, <1>4, <1>5, <1>6 DEF Next

(* Whoever reads with the widths that were written gets what was written,   *)
(* for any values and any mix of widths: append8, append16 and append32 and *)
(* read8, read16 and read32 are inverse to each other, but for the bits     *)
(* read8 leaves in its variable.                                            *)
THEOREM ValuesReadBack == Spec => []ReadBack
<1>1. Init => ReadInv
  BY InitRead
<1>2. ReadInv /\ [Next]_vars => ReadInv'
  BY NextRead
<1>3. ReadInv => ReadBack
  BY DEF ReadInv
<1> QED
  BY <1>1, <1>2, <1>3, PTL DEF Spec
=============================================================================
