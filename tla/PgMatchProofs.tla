---------------------------- MODULE PgMatchProofs ----------------------------
(***************************************************************************)
(* Proofs about the strict Match (PgMatch) for every set of client         *)
(* streams: the type invariant, and that Match never consumes a byte       *)
(* beyond the frame its client declared (ReadsWithinFrame).                *)
(***************************************************************************)
EXTENDS PgMatch, PgMessageProofs

(* The length the client's header declares.                                *)
HeaderLen == BigEndianUint32(SubSeq(stream.bytes, 1, 4))

(* The blocks Match reaches only after accepting the declared length.      *)
Framed == {"readPayload", "readCode", "loop", "readKey", "readValue"}

(***************************************************************************)
(* The inductive invariant.  ReadsWithinFrame is not inductive alone: the  *)
(* step of ReadPayload bounds pos by 4 + payloadLen, so the invariant must *)
(* say that pos is exactly 4 before that read and that payloadLen is the   *)
(* declared length minus the length field, which in turn needs head to be *)
(* the first 4 bytes of the stream while ParseLength is pending.          *)
(***************************************************************************)
IInv ==
  /\ MatchTypeOK
  /\ CursorOK(msg)
  /\ pc = "readHeader" => pos = 0
  /\ pc = "parseLength" => pos = InitMessageSizeLength /\ head = SubSeq(stream.bytes, 1, 4)
  /\ pc \in Framed => /\ Len(stream.bytes) >= InitMessageSizeLength
                      /\ payloadLen + InitMessageSizeLength = HeaderLen
  /\ pc = "readPayload" => pos = InitMessageSizeLength
  /\ pos > InitMessageSizeLength => pos <= HeaderLen


(* A cursor within its bounds is a message.                               *)
LEMMA CursorOKType ==
  ASSUME NEW b, CursorOK(b) PROVE b \in MessageType
  BY DEF CursorOK

Results == {"none", "match", "nomatch", "error"}

(* The blocks from ReadCode to the end of the parameter loop touch only    *)
(* the cursor, the code word and the result: they keep IInv whenever the   *)
(* cursor they leave satisfies its bounds.                                 *)
LEMMA LoopStep ==
  ASSUME IInv,
         pc \in {"readCode", "loop", "readKey", "readValue"},
         pc' \in {"loop", "readKey", "readValue", "done"},
         UNCHANGED <<stream, pos, head, messageLen, payloadLen>>,
         CursorOK(msg'), code' \in Nat, result' \in Results
  PROVE  IInv'
  <1>1. msg' \in MessageType
    BY CursorOKType
  <1>2. HeaderLen' = HeaderLen
    BY DEF HeaderLen
  <1>3. QED
    BY <1>1, <1>2 DEF IInv, MatchTypeOK, Framed, Blocks, Results

(* Match starts in a state of IInv.                                          *)
LEMMA IInvInit == MatchInit => IInv
  <1> SUFFICES ASSUME MatchInit PROVE IInv
    OBVIOUS
  <1>1. stream \in StreamType
    BY StreamsAssumption DEF MatchInit, StreamType
  <1>2. Len(stream.bytes) \in Nat
    BY <1>1 DEF StreamType
  <1>3. CursorOK(msg)
    BY EmptySeq, NewMessageOK DEF MatchInit
  <1>4. QED
    BY <1>1, <1>2, <1>3, EmptySeq, CursorOKType
    DEF MatchInit, IInv, MatchTypeOK, Blocks, Framed, InitMessageSizeLength
(* Every step of Match keeps IInv.                                         *)
LEMMA IInvStep == IInv /\ [MatchNext]_matchVars => IInv'
  <1> SUFFICES ASSUME IInv, [MatchNext]_matchVars PROVE IInv'
    OBVIOUS
  <1>0. /\ stream \in StreamType
        /\ stream.bytes \in Seq(Byte)
        /\ pos \in 0 .. Len(stream.bytes)
        /\ CursorOK(msg)
        /\ payloadLen \in Nat
        /\ result \in Results
    BY DEF IInv, MatchTypeOK, StreamType, Results
  <1>1. CASE ReadHeader
    <2> DEFINE rf == ReadFull(stream, pos, InitMessageSizeLength)
    <2>1. pos = 0
      BY <1>1 DEF ReadHeader, IInv
    <2>2. /\ rf.n \in 0 .. 4
          /\ rf.n <= Len(stream.bytes)
          /\ rf.data \in Seq(Byte)
          /\ rf.err = "nil" => rf.n = 4 /\ rf.data = SubSeq(stream.bytes, 1, 4)
      BY <1>0, <2>1, HeaderReadFacts DEF InitMessageSizeLength
    <2>3. /\ pos' = rf.n /\ head' = rf.data
          /\ pc' \in {"parseLength", "done"} /\ result' \in Results
          /\ pc' = "parseLength" => rf.err = "nil"
          /\ UNCHANGED <<stream, messageLen, payloadLen, msg, code>>
      BY <1>0, <1>1, <2>1, <2>2 DEF ReadHeader, Return, Results
    <2> HIDE DEF rf
    <2>5. CursorOK(msg')
      BY <1>0, <2>3
    <2>6. MatchTypeOK'
      <3>1. msg \in MessageType /\ code \in Nat /\ messageLen \in Nat
        BY DEF IInv, MatchTypeOK
      <3>2. QED
        BY <1>0, <2>2, <2>3, <3>1 DEF MatchTypeOK, Blocks, Results
    <2>7. /\ pc' = "parseLength" => pos' = InitMessageSizeLength /\ head' = SubSeq(stream'.bytes, 1, 4)
          /\ pc' \notin Framed /\ pc' # "readHeader" /\ pos' <= InitMessageSizeLength
      BY <2>2, <2>3 DEF Framed, InitMessageSizeLength
    <2>4. QED
      BY <2>2, <2>3, <2>5, <2>6, <2>7 DEF IInv, Framed, InitMessageSizeLength
  <1>2. CASE ParseLength
    <2>1. /\ pos = 4 /\ head = SubSeq(stream.bytes, 1, 4)
          /\ 4 <= Len(stream.bytes)
      BY <1>0, <1>1, <1>2 DEF ParseLength, IInv, InitMessageSizeLength
    <2>2. head \in Seq(Byte) /\ Len(head) = 4
      BY <1>0, <2>1, SubSeqProperties
    <2>3. messageLen' = HeaderLen /\ HeaderLen \in Nat
      <3>1. BigEndianUint32(head) \in Nat
        <4>1. Len(head) >= 4
          BY <2>2
        <4>2. QED
          BY <2>2, <4>1, BigEndianNat, Zenon
      <3>2. messageLen' = BigEndianUint32(head)
        BY <1>2 DEF ParseLength
      <3>3. QED
        BY <2>1, <3>1, <3>2 DEF HeaderLen
    <2>4. /\ pc' \in {"readPayload", "done"} /\ result' \in Results
          /\ payloadLen' \in Nat
          /\ pc' = "readPayload" => payloadLen' + InitMessageSizeLength = HeaderLen
          /\ UNCHANGED <<stream, pos, head, msg, code>>
      BY <1>0, <1>2, <2>3 DEF ParseLength, Return, Results, MinMessageLength,
         InitMessageSizeLength
    <2>6. CursorOK(msg')
      BY <1>0, <2>4
    <2>7. MatchTypeOK'
      <3>1. msg \in MessageType /\ code \in Nat /\ head \in Seq(Byte)
        BY DEF IInv, MatchTypeOK
      <3>2. QED
        BY <1>0, <2>3, <2>4, <3>1 DEF MatchTypeOK, Blocks, Results
    <2>8. HeaderLen' = HeaderLen
      BY <2>4 DEF HeaderLen
    <2>5. QED
      BY <2>1, <2>4, <2>6, <2>7, <2>8 DEF IInv, Framed, InitMessageSizeLength
  <1>3. CASE ReadPayload
    <2> DEFINE rf == ReadFull(stream, pos, payloadLen)
    <2>1. /\ pos = 4 /\ payloadLen + 4 = HeaderLen
          /\ 4 <= Len(stream.bytes)
      BY <1>0, <1>3 DEF ReadPayload, IInv, Framed, InitMessageSizeLength
    <2>2. /\ rf.n \in 0 .. payloadLen
          /\ pos + rf.n <= Len(stream.bytes)
          /\ rf.data \in Seq(Byte)
      BY <1>0, <2>1, ReadFullFacts
    <2>3. CursorOK(NewMessageFromBytes(rf.data))
      BY <2>2, NewMessageOK
    <2>4. /\ pos' = pos + rf.n
          /\ pc' \in {"readCode", "done"} /\ result' \in Results
          /\ CursorOK(msg')
          /\ UNCHANGED <<stream, head, messageLen, payloadLen, code>>
      BY <1>0, <1>3, <2>3 DEF ReadPayload, Return, Results
    <2> HIDE DEF rf
    <2>6. MatchTypeOK'
      <3>1. /\ msg' \in MessageType /\ code \in Nat /\ head \in Seq(Byte)
            /\ messageLen \in Nat
        BY <2>4, CursorOKType DEF IInv, MatchTypeOK
      <3>2. QED
        BY <1>0, <2>2, <2>4, <3>1 DEF MatchTypeOK, Blocks, Results
    <2>7. HeaderLen' = HeaderLen
      BY <2>4 DEF HeaderLen
    <2>5. QED
      <3>1. pos' <= HeaderLen'
        BY <1>0, <2>1, <2>2, <2>4, <2>7
      <3>2. QED
        BY <2>1, <2>4, <2>6, <2>7, <3>1 DEF IInv, Framed, InitMessageSizeLength
  <1>4. CASE ReadCode
    <2>1. CursorOK(ReadUint32(msg).msg) /\ ReadUint32(msg).r \in Nat
      BY <1>0, ReadUint32Preserves DEF CursorOK
    <2>2. pc' \in {"loop", "done"} /\ result' \in Results
      BY <1>0, <1>4 DEF ReadCode, Return, Results
    <2>3. QED
      BY <1>4, <2>1, <2>2, LoopStep DEF ReadCode
  <1>5. CASE LoopHead
    BY <1>0, <1>5, LoopStep DEF LoopHead, Return, Results, IInv, MatchTypeOK
  <1>6. CASE ReadKey
    <2>1. CursorOK(ReadString(msg).msg)
      BY <1>0, ReadStringPreserves DEF CursorOK
    <2>2. pc' \in {"readValue", "done"} /\ result' \in Results
      BY <1>0, <1>6 DEF ReadKey, Return, Results
    <2>3. QED
      BY <1>0, <1>6, <2>1, <2>2, LoopStep DEF ReadKey, IInv, MatchTypeOK
  <1>7. CASE ReadValue
    <2>1. CursorOK(ReadString(msg).msg)
      BY <1>0, ReadStringPreserves DEF CursorOK
    <2>2. pc' \in {"loop", "done"} /\ result' \in Results /\ CursorOK(msg')
      BY <1>0, <1>7, <2>1 DEF ReadValue, Return, Results
    <2>3. QED
      BY <1>0, <1>7, <2>2, LoopStep DEF ReadValue, IInv, MatchTypeOK
  <1>8. CASE Returned \/ UNCHANGED matchVars
    BY <1>8 DEF Returned, matchVars, IInv, MatchTypeOK, HeaderLen
  <1>9. QED
    BY <1>1, <1>2, <1>3, <1>4, <1>5, <1>6, <1>7, <1>8 DEF MatchNext
(* IInv holds in every state of every run of Match, whatever the client    *)
(* sends and however the connection ends.                                  *)
THEOREM MatchInvariant == MatchSpec => []IInv
  BY IInvInit, IInvStep, PTL DEF MatchSpec

(* MatchTypeOK: in every run of Match, pos indexes the client's bytes and  *)
(* the cursor, the decoded lengths and the result keep their types.        *)
THEOREM MatchTypeCorrect == MatchSpec => []MatchTypeOK
  <1>1. IInv => MatchTypeOK
    BY DEF IInv
  <1>2. QED
    BY <1>1, MatchInvariant, PTL

(* ReadsWithinFrame: for every input, Match never consumes a byte beyond   *)
(* the frame the client's length header declared.                          *)
THEOREM MatchReadsWithinFrame == MatchSpec => []ReadsWithinFrame
  <1>1. IInv => ReadsWithinFrame
    BY DEF IInv, ReadsWithinFrame, HeaderLen
  <1>2. QED
    BY <1>1, MatchInvariant, PTL

=============================================================================
