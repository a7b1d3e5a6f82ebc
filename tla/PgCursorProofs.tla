--------------------------- MODULE PgCursorProofs ---------------------------
(***************************************************************************)
(* Proofs about the strict matcher's cursor (PgCursor): for every payload  *)
(* and every sequence of reads, the offsets stay indexes into the buffer   *)
(* (TypeOK), and the terminator test of line 261 is exact                  *)
(* (TerminatorDetection).                                                  *)
(***************************************************************************)
EXTENDS PgCursor, PgMessageProofs

(* TypeOK: for every payload and every sequence of ReadUint32 and          *)
(* ReadString calls, the cursor's offsets stay indexes into its buffer,    *)
(* the bound the strict matcher's slicing relies on.                       *)
THEOREM CursorTypeOK == Spec => []TypeOK
  <1>1. Init => TypeOK
    <2> SUFFICES ASSUME Init PROVE TypeOK
      OBVIOUS
    <2>1. PICK d \in Payloads : msg = NewMessageFromBytes(d)
      BY DEF Init
    <2>2. d \in Seq(Byte)
      BY PayloadsAssumption
    <2>3. msg = [data |-> d, offset |-> 0, err |-> FALSE, lastReadStringStartOffset |-> 0]
      BY <2>1 DEF NewMessageFromBytes
    <2>4. msg \in MessageType /\ msg.offset <= Len(msg.data)
          /\ msg.lastReadStringStartOffset <= msg.offset
      BY <2>2, <2>3 DEF MessageType
    <2>5. QED
      BY <2>4, EmptySeq DEF Init, TypeOK
  <1>2. TypeOK /\ [Next]_vars => TypeOK'
    <2> SUFFICES ASSUME TypeOK, [Next]_vars PROVE TypeOK'
      OBVIOUS
    <2>1. CursorOK(msg)
      BY DEF TypeOK, CursorOK
    <2>2. CASE CallReadUint32
      BY <2>1, <2>2, ReadUint32Preserves DEF CallReadUint32, TypeOK, CursorOK
    <2>3. CASE CallReadString
      <3>1. CursorOK(ReadString(msg).msg) /\ ReadString(msg).r \in Seq(Byte)
        BY ReadStringPreserves DEF TypeOK
      <3>2. QED
        BY <2>3, <3>1 DEF CallReadString, TypeOK, CursorOK
    <2>4. CASE UNCHANGED vars
      BY <2>4 DEF vars, TypeOK
    <2>5. QED
      BY <2>2, <2>3, <2>4 DEF Next
  <1>3. QED
    BY <1>1, <1>2, PTL DEF Spec

(* Slices of a byte string: the one from start + 1 to stop is empty       *)
(* exactly when stop is start, for stop from start to the length.          *)
LEMMA SliceEmpty ==
  ASSUME NEW d \in Seq(Byte), NEW start \in Nat, NEW stop \in start .. Len(d)
  PROVE  SubSeq(d, start + 1, stop) = <<>> <=> stop = start
  <1>1. CASE stop = start
    BY <1>1, SubSeqEmpty
  <1>2. CASE stop # start
    <2>1. Len(SubSeq(d, start + 1, stop)) = stop - start
      <3>1. \A i \in (start + 1) .. stop : d[i] \in Byte
        BY LenProperties
      <3>2. QED
        BY <1>2, <3>1, SubSeqProperties
    <2>2. stop - start # 0
      BY <1>2
    <2>3. QED
      BY <1>2, <2>1, <2>2, EmptySeq
  <1>3. QED
    BY <1>1, <1>2

(* TerminatorDetection: for every payload and every sequence of reads, a   *)
(* ReadString that starts inside the buffer and succeeds returns the empty *)
(* string exactly when IsTerminatorRead (line 261) holds after it.         *)
THEOREM CursorTerminatorDetection == Spec => TerminatorDetection
  <1> DEFINE Exact == (lastOp' = "string" /\ ~msg.err /\ msg.offset < Len(msg.data)
                       /\ ~msg'.err)
                      => (lastString' = <<>> <=> IsTerminatorRead(msg'))
  <1>1. TypeOK /\ [Next]_vars => [Exact]_vars
    <2> SUFFICES ASSUME TypeOK, [Next]_vars PROVE [Exact]_vars
      OBVIOUS
    <2>1. CASE CallReadUint32
      BY <2>1 DEF CallReadUint32
    <2>2. CASE UNCHANGED vars
      BY <2>2
    <2>3. CASE CallReadString
      <3> SUFFICES ASSUME ~msg.err, msg.offset < Len(msg.data), ~msg'.err
                   PROVE  lastString' = <<>> <=> IsTerminatorRead(msg')
        OBVIOUS
      <3> DEFINE e == NullScan(msg)
                 s == msg.offset
      <3>1. /\ msg \in MessageType /\ msg.data \in Seq(Byte) /\ s \in Nat
        BY DEF TypeOK, MessageType
      <3>2. /\ e \in s .. Len(msg.data)
            /\ e = Len(msg.data) => ReadString(msg).msg.err
            /\ e < Len(msg.data) =>
                 /\ ReadString(msg).msg.offset = e + 1
                 /\ msg.data[e + 1] = 0
                 /\ ReadString(msg).r = SubSeq(msg.data, s + 1, e)
            /\ ReadString(msg).msg.data = msg.data
            /\ ReadString(msg).msg.lastReadStringStartOffset = s
        BY <3>1, ReadStringScan
      <3> HIDE DEF e, s
      <3>3. e < Len(msg.data)
        BY <2>3, <3>2 DEF CallReadString
      <3>4. /\ lastString' = SubSeq(msg.data, s + 1, e)
            /\ msg'.offset = e + 1 /\ msg'.data = msg.data
            /\ msg'.lastReadStringStartOffset = s /\ msg.data[e + 1] = 0
        BY <2>3, <3>2, <3>3 DEF CallReadString
      <3>5. lastString' = <<>> <=> e = s
        BY <3>1, <3>2, <3>4, SliceEmpty
      <3>6. IsTerminatorRead(msg') <=> e = s
        BY <3>1, <3>2, <3>4 DEF IsTerminatorRead
      <3>7. QED
        BY <3>5, <3>6
    <2>4. QED
      BY <2>1, <2>2, <2>3 DEF Next
  <1>2. QED
    BY <1>1, CursorTypeOK, PTL DEF Spec, TerminatorDetection

=============================================================================
