-------------------------- MODULE PgMessageProofs --------------------------
(***************************************************************************)
(* Lemmas about the cursor operators of PgMessage (part_000, lines 47-123) *)
(* used by the proofs about the cursor (PgCursorProofs) and about Match    *)
(* (PgMatchProofs): each read keeps the cursor's offsets inside its buffer *)
(* and returns a byte string.                                              *)
(***************************************************************************)
EXTENDS PgMessage, WellFoundedInduction, SequenceTheorems, TLAPS

(* The scan of ReadString stops inside the buffer, at its end or at the    *)
(* first null, never before the offset it started from.                    *)
LEMMA NullScanBounds ==
  ASSUME NEW b, b.data \in Seq(Byte), b.offset \in Nat, b.offset <= Len(b.data)
  PROVE  /\ NullScan(b) \in b.offset .. Len(b.data)
         /\ NullScan(b) < Len(b.data) => b.data[NullScan(b) + 1] = 0
         /\ \A j \in b.offset .. (NullScan(b) - 1) : b.data[j + 1] # 0
  <1> DEFINE Stops == {e \in b.offset .. Len(b.data) : e = Len(b.data) \/ b.data[e + 1] = 0}
  <1>1. Stops \subseteq Nat /\ Stops # {}
    BY Len(b.data) \in Stops
  <1>2. PICK m \in Stops : \A y \in Stops : ~(<<y, m>> \in OpToRel(<, Nat))
    BY <1>1, WFMin, NatLessThanWellFounded
  <1>3. \A y \in Stops : ~(y < m)
    BY <1>1, <1>2 DEF OpToRel
  <1>4. \A j \in b.offset .. (m - 1) : b.data[j + 1] # 0
    BY <1>3
  <1>5. /\ m \in b.offset .. Len(b.data)
        /\ m = Len(b.data) \/ b.data[m + 1] = 0
        /\ \A j \in b.offset .. (m - 1) : b.data[j + 1] # 0
    BY <1>4
  <1> DEFINE IsScanEnd(e) == /\ e = Len(b.data) \/ b.data[e + 1] = 0
                             /\ \A j \in b.offset .. (e - 1) : b.data[j + 1] # 0
  <1>6. \E e \in b.offset .. Len(b.data) : IsScanEnd(e)
    BY <1>5
  <1>7. NullScan(b) = CHOOSE e \in b.offset .. Len(b.data) : IsScanEnd(e)
    BY DEF NullScan
  <1>8. NullScan(b) \in b.offset .. Len(b.data) /\ IsScanEnd(NullScan(b))
    BY <1>6, <1>7, Zenon
  <1>9. QED
    BY <1>8

(* A message whose offsets index its buffer.                               *)
CursorOK(b) ==
  /\ b \in MessageType
  /\ b.offset <= Len(b.data)
  /\ b.lastReadStringStartOffset <= b.offset

LEMMA ByteNat ==
  ASSUME NEW x \in Byte
  PROVE  x \in Nat
  BY DEF Byte

(* Four digits in base 256 make a natural number.                          *)
LEMMA ByteWordNat ==
  ASSUME NEW a \in Nat, NEW b \in Nat, NEW c \in Nat, NEW d \in Nat
  PROVE  ((a * 256 + b) * 256 + c) * 256 + d \in Nat
  OBVIOUS

(* binary.BigEndian.Uint32 of four bytes is a natural number.              *)
LEMMA BigEndianNat ==
  ASSUME NEW s \in Seq(Byte), Len(s) >= 4
  PROVE  BigEndianUint32(s) \in Nat
  <1>1. s[1] \in Byte /\ s[2] \in Byte /\ s[3] \in Byte /\ s[4] \in Byte
    BY ElementOfSeq
  <1>3. s[1] \in Nat /\ s[2] \in Nat /\ s[3] \in Nat /\ s[4] \in Nat
    BY <1>1, ByteNat
  <1>4. QED
    BY <1>3, ByteWordNat, SMTT(20) DEF BigEndianUint32

(* A new message over a byte string has offsets that index it.             *)
LEMMA NewMessageOK ==
  ASSUME NEW d \in Seq(Byte)
  PROVE  CursorOK(NewMessageFromBytes(d))
  BY DEF CursorOK, NewMessageFromBytes, MessageType

(* A call whose message keeps the buffer and has offsets that index it.   *)
LEMMA MessageOK ==
  ASSUME NEW b, NEW res, NEW n,
         res.msg = n, n \in MessageType, n.data = b.data,
         n.offset <= Len(n.data), n.lastReadStringStartOffset <= n.offset
  PROVE  CursorOK(res.msg) /\ res.msg.data = b.data
  <1>1. res.msg \in MessageType
    OBVIOUS
  <1>2. res.msg.offset <= Len(res.msg.data)
    OBVIOUS
  <1>3. res.msg.lastReadStringStartOffset <= res.msg.offset
    OBVIOUS
  <1>4. QED
    BY <1>1, <1>2, <1>3 DEF CursorOK

LEMMA ReadUint32Preserves ==
  ASSUME NEW b \in MessageType, b.offset <= Len(b.data),
         b.lastReadStringStartOffset <= b.offset
  PROVE  /\ CursorOK(ReadUint32(b).msg)
         /\ ReadUint32(b).msg.data = b.data
         /\ ReadUint32(b).r \in Nat
  <1>0. b.err \in BOOLEAN /\ b.offset \in Nat /\ Len(b.data) \in Nat
    BY DEF MessageType
  <1>1. CASE b.err
    <2>1. ReadUint32(b).msg = b /\ ReadUint32(b).r = 0
      BY <1>1 DEF ReadUint32
    <2>2. 0 \in Nat
      OBVIOUS
    <2>3. QED
      BY <2>1, <2>2, MessageOK, Zenon DEF MessageType
  <1>2. CASE ~b.err /\ b.offset + 4 > Len(b.data)
    <2> DEFINE n == [b EXCEPT !.err = TRUE]
    <2>1. ReadUint32(b).msg = n /\ ReadUint32(b).r = 0
      BY <1>2 DEF ReadUint32
    <2>2. /\ n \in MessageType /\ n.data = b.data
          /\ n.offset = b.offset /\ n.lastReadStringStartOffset = b.lastReadStringStartOffset
      BY DEF MessageType
    <2> HIDE DEF n
    <2>3. n.offset <= Len(n.data) /\ n.lastReadStringStartOffset <= n.offset
      BY <2>2
    <2>4. 0 \in Nat
      OBVIOUS
    <2>5. QED
      BY <2>1, <2>2, <2>3, <2>4, MessageOK, Zenon
  <1>3. CASE ~b.err /\ b.offset + 4 <= Len(b.data)
    <2> DEFINE w == SubSeq(b.data, b.offset + 1, b.offset + 4)
    <2> DEFINE n == [b EXCEPT !.offset = b.offset + 4]
    <2>0. ~(b.offset + 4 > Len(b.data))
      BY <1>3 DEF MessageType
    <2>1. ReadUint32(b).msg = n /\ ReadUint32(b).r = BigEndianUint32(w)
      BY <1>3, <2>0, Zenon DEF ReadUint32
    <2>2. w \in Seq(Byte) /\ Len(w) >= 4
      BY <1>3, SubSeqProperties DEF MessageType
    <2> HIDE DEF w
    <2>3. BigEndianUint32(w) \in Nat
      BY <2>2, BigEndianNat, Zenon
    <2>4. /\ n \in MessageType /\ n.data = b.data
          /\ n.offset = b.offset + 4 /\ n.lastReadStringStartOffset = b.lastReadStringStartOffset
      BY DEF MessageType
    <2> HIDE DEF n
    <2>5. n.offset <= Len(n.data) /\ n.lastReadStringStartOffset <= n.offset
      BY <1>3, <2>4 DEF MessageType
    <2>6. QED
      BY <2>1, <2>3, <2>4, <2>5, MessageOK, Zenon
  <1>4. QED
    BY <1>0, <1>1, <1>2, <1>3

(* A call result whose message keeps the buffer and whose offsets index it. *)
LEMMA ResultOK ==
  ASSUME NEW b, NEW res, NEW n, NEW s,
         res.msg = n, res.r = s, s \in Seq(Byte),
         n \in MessageType, n.data = b.data,
         n.offset <= Len(n.data), n.lastReadStringStartOffset <= n.offset
  PROVE  /\ CursorOK(res.msg)
         /\ res.msg.data = b.data
         /\ res.r \in Seq(Byte)
  <1>1. res.msg \in MessageType
    OBVIOUS
  <1>2. res.msg.offset <= Len(res.msg.data)
    OBVIOUS
  <1>3. res.msg.lastReadStringStartOffset <= res.msg.offset
    OBVIOUS
  <1>4. QED
    BY <1>1, <1>2, <1>3 DEF CursorOK

LEMMA ReadStringPreserves ==
  ASSUME NEW b \in MessageType, b.offset <= Len(b.data),
         b.lastReadStringStartOffset <= b.offset
  PROVE  /\ CursorOK(ReadString(b).msg)
         /\ ReadString(b).msg.data = b.data
         /\ ReadString(b).r \in Seq(Byte)
  <1> DEFINE rec == [b EXCEPT !.lastReadStringStartOffset = b.offset]
  <1>0. /\ rec \in MessageType /\ rec.data = b.data
        /\ rec.offset = b.offset /\ rec.lastReadStringStartOffset = b.offset
    BY DEF MessageType
  <1>1. CASE b.err
    <2>1. ReadString(b).msg = b /\ ReadString(b).r = <<>>
      BY <1>1 DEF ReadString
    <2>2. QED
      BY <2>1, EmptySeq, ResultOK, Zenon
  <1>2. CASE ~b.err /\ b.offset = Len(b.data)
    <2> DEFINE n == [rec EXCEPT !.err = FALSE]
    <2>1. ReadString(b).msg = n /\ ReadString(b).r = <<>>
      BY <1>2, Zenon DEF ReadString
    <2>2. /\ n \in MessageType /\ n.data = b.data
          /\ n.offset = b.offset /\ n.lastReadStringStartOffset = b.offset
      BY DEF MessageType
    <2> HIDE DEF n
    <2>3. n.offset <= Len(n.data) /\ n.lastReadStringStartOffset <= n.offset
      BY <1>2, <2>2
    <2>4. QED
      BY <2>1, <2>2, <2>3, EmptySeq, ResultOK, Zenon
  <1>3. CASE ~b.err /\ b.offset < Len(b.data)
    <2>0. b.offset # Len(b.data) /\ ~(b.offset > Len(b.data))
      BY <1>3 DEF MessageType
    <2>1. NullScan(b) \in b.offset .. Len(b.data)
      BY NullScanBounds DEF MessageType
    <2>2. /\ SubSeq(b.data, b.offset + 1, Len(b.data)) \in Seq(Byte)
          /\ SubSeq(b.data, b.offset + 1, NullScan(b)) \in Seq(Byte)
      BY <2>1, SubSeqProperties DEF MessageType
    <2>3. CASE NullScan(b) = Len(b.data)
      <3> HIDE DEF rec
      <3> DEFINE n == [rec EXCEPT !.err = TRUE, !.offset = Len(b.data)]
      <3>1. /\ ReadString(b).msg = n
            /\ ReadString(b).r = SubSeq(b.data, b.offset + 1, Len(b.data))
        BY <1>3, <2>0, <2>3, Zenon DEF ReadString, rec
      <3>2. /\ n \in MessageType /\ n.data = b.data
            /\ n.offset = Len(b.data) /\ n.lastReadStringStartOffset = b.offset
        BY <1>0, Len(b.data) \in Nat DEF MessageType
      <3> HIDE DEF n
      <3>3. n.offset <= Len(n.data) /\ n.lastReadStringStartOffset <= n.offset
        BY <1>3, <3>2 DEF MessageType
      <3>4. QED
        BY <2>2, <3>1, <3>2, <3>3, ResultOK, Zenon
    <2>4. CASE NullScan(b) < Len(b.data)
      <3> HIDE DEF rec
      <3> DEFINE n == [rec EXCEPT !.offset = NullScan(b) + 1]
      <3>0. NullScan(b) # Len(b.data)
        BY <2>1, <2>4
      <3>1. /\ ReadString(b).msg = n
            /\ ReadString(b).r = SubSeq(b.data, b.offset + 1, NullScan(b))
        BY <1>3, <2>0, <3>0, Zenon DEF ReadString, rec
      <3>2. /\ n \in MessageType /\ n.data = b.data
            /\ n.offset = NullScan(b) + 1 /\ n.lastReadStringStartOffset = b.offset
        BY <1>0, <2>1 DEF MessageType
      <3> HIDE DEF n
      <3>3. n.offset <= Len(n.data) /\ n.lastReadStringStartOffset <= n.offset
        BY <2>1, <2>4, <3>2 DEF MessageType
      <3>4. QED
        BY <2>2, <3>1, <3>2, <3>3, ResultOK, Zenon
    <2>5. QED
      BY <2>1, <2>3, <2>4
  <1>4. QED
    BY <1>1, <1>2, <1>3 DEF MessageType

(* ReadString (lines 74-118) from a cursor with no error, before the end:  *)
(* the scan stops at the first null or the end; without a null it records *)
(* an error, with one it moves past it and returns the bytes before it.   *)
(* Either way it records the start.                                       *)
LEMMA ReadStringScan ==
  ASSUME NEW b \in MessageType, ~b.err, b.offset < Len(b.data)
  PROVE  /\ NullScan(b) \in b.offset .. Len(b.data)
         /\ \A j \in b.offset .. (NullScan(b) - 1) : b.data[j + 1] # 0
         /\ ReadString(b).msg.data = b.data
         /\ ReadString(b).msg.lastReadStringStartOffset = b.offset
         /\ NullScan(b) = Len(b.data) => ReadString(b).msg.err
         /\ NullScan(b) < Len(b.data) =>
              /\ ~ReadString(b).msg.err
              /\ ReadString(b).msg.offset = NullScan(b) + 1
              /\ b.data[NullScan(b) + 1] = 0
              /\ ReadString(b).r = SubSeq(b.data, b.offset + 1, NullScan(b))
  <1>1. /\ NullScan(b) \in b.offset .. Len(b.data)
        /\ NullScan(b) < Len(b.data) => b.data[NullScan(b) + 1] = 0
        /\ \A j \in b.offset .. (NullScan(b) - 1) : b.data[j + 1] # 0
    BY NullScanBounds DEF MessageType
  <1>2. b.offset # Len(b.data) /\ ~(b.offset > Len(b.data))
    BY DEF MessageType
  <1> DEFINE rec == [b EXCEPT !.lastReadStringStartOffset = b.offset]
  <1>3. rec.data = b.data /\ rec.lastReadStringStartOffset = b.offset
    BY DEF MessageType
  <1> HIDE DEF rec
  <1>4. NullScan(b) = Len(b.data) =>
          ReadString(b).msg = [rec EXCEPT !.err = TRUE, !.offset = Len(b.data)]
    BY <1>2, Zenon DEF ReadString, rec
  <1>5. NullScan(b) < Len(b.data) =>
          /\ ReadString(b).msg = [rec EXCEPT !.offset = NullScan(b) + 1]
          /\ ReadString(b).r = SubSeq(b.data, b.offset + 1, NullScan(b))
    <2> SUFFICES ASSUME NullScan(b) < Len(b.data)
                 PROVE  NullScan(b) # Len(b.data)
      BY <1>2, Zenon DEF ReadString, rec
    <2> QED
      BY <1>1
  <1>6. CASE NullScan(b) = Len(b.data)
    <2>1. ReadString(b).msg = [rec EXCEPT !.err = TRUE, !.offset = Len(b.data)]
      BY <1>4, <1>6
    <2>2. /\ ReadString(b).msg.data = b.data /\ ReadString(b).msg.err
          /\ ReadString(b).msg.lastReadStringStartOffset = b.offset
      BY <2>1, <1>3 DEF rec, MessageType
    <2>3. QED
      BY <1>1, <1>6, <2>2
  <1>7. CASE NullScan(b) < Len(b.data)
    <2>1. /\ ReadString(b).msg = [rec EXCEPT !.offset = NullScan(b) + 1]
          /\ ReadString(b).r = SubSeq(b.data, b.offset + 1, NullScan(b))
      BY <1>5, <1>7
    <2>2. /\ ReadString(b).msg.data = b.data /\ ~ReadString(b).msg.err
          /\ ReadString(b).msg.lastReadStringStartOffset = b.offset
          /\ ReadString(b).msg.offset = NullScan(b) + 1
      BY <2>1, <1>3 DEF rec, MessageType
    <2>3. QED
      BY <1>1, <1>7, <2>1, <2>2
  <1>8. QED
    BY <1>1, <1>6, <1>7

(* What io.ReadFull returns: a count within the request and the stream, a *)
(* byte string, and on success exactly the requested bytes.               *)
LEMMA ReadFullFacts ==
  ASSUME NEW s, s.bytes \in Seq(Byte), NEW p \in Nat, p <= Len(s.bytes), NEW size \in Nat
  PROVE  /\ ReadFull(s, p, size).n \in 0 .. size
         /\ p + ReadFull(s, p, size).n <= Len(s.bytes)
         /\ ReadFull(s, p, size).data \in Seq(Byte)
         /\ Len(ReadFull(s, p, size).data) = ReadFull(s, p, size).n
         /\ ReadFull(s, p, size).err = "nil" =>
              /\ ReadFull(s, p, size).n = size
              /\ ReadFull(s, p, size).data = SubSeq(s.bytes, p + 1, p + size)
  <1> DEFINE avail == Len(s.bytes) - p
  <1>1. CASE avail >= size
    <2>1. ReadFull(s, p, size) = [n |-> size, data |-> SubSeq(s.bytes, p + 1, p + size), err |-> "nil"]
      BY <1>1 DEF ReadFull
    <2>2. /\ SubSeq(s.bytes, p + 1, p + size) \in Seq(Byte)
          /\ Len(SubSeq(s.bytes, p + 1, p + size)) = size
      BY <1>1, SubSeqProperties
    <2>3. QED
      BY <1>1, <2>1, <2>2
  <1>2. CASE avail < size
    <2> DEFINE e == IF s.fin = "ERR" THEN "ERR" ELSE IF avail = 0 THEN "EOF" ELSE "UnexpectedEOF"
    <2>1. ReadFull(s, p, size) = [n |-> avail, data |-> SubSeq(s.bytes, p + 1, Len(s.bytes)), err |-> e]
      BY <1>2 DEF ReadFull
    <2>2. /\ SubSeq(s.bytes, p + 1, Len(s.bytes)) \in Seq(Byte)
          /\ Len(SubSeq(s.bytes, p + 1, Len(s.bytes))) = avail
      BY SubSeqProperties
    <2>3. e # "nil"
      OBVIOUS
    <2> HIDE DEF e
    <2>4. QED
      BY <1>2, <2>1, <2>2, <2>3
  <1>3. QED
    BY <1>1, <1>2

(* The header read: io.ReadFull of 4 bytes at the start of a stream.      *)
LEMMA HeaderReadFacts ==
  ASSUME NEW s, s.bytes \in Seq(Byte)
  PROVE  /\ ReadFull(s, 0, 4).n \in 0 .. 4
         /\ ReadFull(s, 0, 4).n <= Len(s.bytes)
         /\ ReadFull(s, 0, 4).data \in Seq(Byte)
         /\ Len(ReadFull(s, 0, 4).data) = ReadFull(s, 0, 4).n
         /\ ReadFull(s, 0, 4).err = "nil" =>
              /\ ReadFull(s, 0, 4).n = 4
              /\ ReadFull(s, 0, 4).data = SubSeq(s.bytes, 1, 4)
  <1>1. 0 \in Nat /\ 4 \in Nat /\ 0 <= Len(s.bytes)
    OBVIOUS
  <1>2. /\ ReadFull(s, 0, 4).n \in 0 .. 4
        /\ 0 + ReadFull(s, 0, 4).n <= Len(s.bytes)
        /\ ReadFull(s, 0, 4).data \in Seq(Byte)
        /\ Len(ReadFull(s, 0, 4).data) = ReadFull(s, 0, 4).n
        /\ ReadFull(s, 0, 4).err = "nil" =>
             /\ ReadFull(s, 0, 4).n = 4
             /\ ReadFull(s, 0, 4).data = SubSeq(s.bytes, 0 + 1, 0 + 4)
    BY <1>1, ReadFullFacts
  <1>3. QED
    BY <1>2

=============================================================================
