------------------------- MODULE PgMatchLegacyProofs -------------------------
(***************************************************************************)
(* Proofs about the matcher of matcher.go (PgMatchLegacy) for any number   *)
(* of connections and header buffers: the shared headerPool never hands a  *)
(* buffer to two goroutines (BufferExclusive), and each Match decodes the  *)
(* header its own client sent (HeaderFromOwnRead).                         *)
(***************************************************************************)
EXTENDS PgMatchLegacy, PgMessageProofs, FiniteSetTheorems

(* The steps during which Match holds a buffer from headerPool: from Get   *)
(* (line 68) to the Put of line 71 or line 75.                             *)
Holding == {"readHeader", "decode"}

(* The steps after the length was decoded.                                 *)
Decoded == {"readPayload", "readCode", "readKey", "readValue"}

(* The typing part of the invariant: LegacyTypeOK, header buffers of 4    *)
(* bytes, reads within the stream, and a buffer held exactly at a Holding  *)
(* step.                                                                   *)
TypeA ==
  /\ LegacyTypeOK
  /\ \A b \in Buffers : Len(content[b]) = InitMessageSizeLength
  /\ \A c \in Conns : pos[c] <= Len(stream[c].bytes)
  /\ \A c \in Conns : (buf[c] # NoBuf) <=> (pc[c] \in Holding)

(* BufferExclusive in first-order form: a buffer sits in the pool at most  *)
(* once, is held by at most one goroutine, and is never held while it is   *)
(* pooled.                                                                 *)
ExclB ==
  \A b \in Buffers :
    /\ pool[b] <= 1
    /\ \A x, y \in Conns : buf[x] = b /\ buf[y] = b => x = y
    /\ \A x \in Conns : pool[b] > 0 => buf[x] # b

(* The header part: until its header is read a goroutine has consumed      *)
(* nothing, and at the decode step its buffer holds the first 4 bytes its  *)
(* client sent.                                                            *)
HInv ==
  /\ \A c \in Conns : pc[c] \in {"get", "readHeader"} => pos[c] = 0
  /\ \A c \in Conns : pc[c] = "decode" => content[buf[c]] = SubSeq(stream[c].bytes, 1, 4)
  /\ HeaderFromOwnRead

(***************************************************************************)
(* The inductive invariant.  BufferExclusive needs to know that a          *)
(* goroutine holds a buffer exactly while it is at a Holding step (so the  *)
(* Put of lines 71 and 75 returns a buffer it holds, which is then not in  *)
(* the pool).  HeaderFromOwnRead needs, at the decode step, the held       *)
(* buffer to carry the client's first 4 bytes, which the other goroutines  *)
(* cannot overwrite because, by ExclB, they hold other buffers.            *)
(***************************************************************************)
LIInv == TypeA /\ ExclB /\ HInv

(* The 4 zero bytes of a new buffer.                                      *)
LEMMA ZeroHeader ==
  <<0, 0, 0, 0>> \in Seq(Byte) /\ Len(<<0, 0, 0, 0>>) = InitMessageSizeLength
  BY DEF Byte, InitMessageSizeLength

(* Every initial state satisfies TypeA.                                    *)
LEMMA InitTypeA == LegacyInit => TypeA
  <1> SUFFICES ASSUME LegacyInit PROVE TypeA
    OBVIOUS
  <1>1. stream \in [Conns -> StreamType]
    BY StreamsAssumption DEF LegacyInit, StreamType
  <1>2. [data |-> <<>>, offset |-> 0] \in LegacyMessageType
    BY EmptySeq DEF LegacyMessageType
  <1>3. \A c \in Conns : Len(stream[c].bytes) \in Nat
    BY <1>1 DEF StreamType
  <1>4. QED
    BY <1>1, <1>2, <1>3, ZeroHeader
    DEF LegacyInit, TypeA, LegacyTypeOK, Steps, Outcomes, Holding

(* GetHeader keeps TypeA: the goroutine, which held no buffer, takes one.  *)
LEMMA GetHeaderTypeA ==
  ASSUME TypeA, NEW c \in Conns, GetHeader(c)
  PROVE  TypeA'
  <1>1. PICK b \in Buffers :
          /\ \/ pool[b] > 0 /\ pool' = [pool EXCEPT ![b] = @ - 1] /\ UNCHANGED content
             \/ /\ pool[b] = 0 /\ Holders(b) = {}
                /\ content' = [content EXCEPT ![b] = <<0, 0, 0, 0>>]
                /\ UNCHANGED pool
          /\ buf' = [buf EXCEPT ![c] = b]
    BY DEF GetHeader
  <1>2. /\ pc' = [pc EXCEPT ![c] = "readHeader"]
        /\ UNCHANGED <<stream, pos, messageLength, lmsg, hasParam, result>>
    BY DEF GetHeader, Goto
  <1>0. /\ pool \in [Buffers -> Nat]
        /\ content \in [Buffers -> Seq(Byte)]
        /\ \A x \in Buffers : Len(content[x]) = InitMessageSizeLength
        /\ buf \in [Conns -> Buffers \cup {NoBuf}]
        /\ pc \in [Conns -> Steps]
    BY DEF TypeA, LegacyTypeOK
  <1>3. pool' \in [Buffers -> Nat]
    <2>1. CASE pool[b] > 0 /\ pool' = [pool EXCEPT ![b] = @ - 1]
      BY <1>0, <2>1
    <2>2. CASE UNCHANGED pool
      BY <1>0, <2>2
    <2>3. QED
      BY <1>1, <2>1, <2>2
  <1>4. /\ content' \in [Buffers -> Seq(Byte)]
        /\ \A x \in Buffers : Len(content'[x]) = InitMessageSizeLength
    BY <1>0, <1>1, ZeroHeader
  <1>5. /\ buf' \in [Conns -> Buffers \cup {NoBuf}]
        /\ pc' \in [Conns -> Steps]
        /\ \A x \in Conns : (buf'[x] # NoBuf) <=> (pc'[x] \in Holding)
    <2>1. NoBuf \notin Buffers
      BY LegacyAssumption
    <2>2. buf[c] = NoBuf
      BY <1>0 DEF GetHeader, TypeA, Holding
    <2>3. QED
      BY <1>0, <1>1, <1>2, <2>1 DEF TypeA, Steps, Holding
  <1>6. QED
    BY <1>2, <1>3, <1>4, <1>5 DEF TypeA, LegacyTypeOK

(* Dropping a pooled buffer keeps TypeA.                                   *)
LEMMA PoolDropTypeA ==
  ASSUME TypeA, PoolDrop
  PROVE  TypeA'
  <1>1. pool' \in [Buffers -> Nat]
    BY DEF PoolDrop, TypeA, LegacyTypeOK
  <1>2. QED
    BY <1>1 DEF PoolDrop, TypeA, LegacyTypeOK

(* The facts of TypeA about one connection c that the step lemmas use.    *)
LEMMA ConnFacts ==
  ASSUME TypeA, NEW c \in Conns
  PROVE  /\ stream[c].bytes \in Seq(Byte)
         /\ pos[c] \in Nat /\ pos[c] <= Len(stream[c].bytes)
         /\ pc[c] \in Holding => buf[c] \in Buffers
         /\ pc[c] \notin Holding => buf[c] = NoBuf
  BY DEF TypeA, LegacyTypeOK, StreamType

(* The bytes a partial or full header read leaves in a 4-byte buffer.      *)
LEMMA OverwriteFacts ==
  ASSUME NEW b \in Buffers, content[b] \in Seq(Byte), Len(content[b]) = 4,
         NEW rf, rf.n \in 0 .. 4, rf.data \in Seq(Byte), Len(rf.data) = rf.n
  PROVE  Overwrite(b, rf) \in Seq(Byte) /\ Len(Overwrite(b, rf)) = 4
  <1>1. SubSeq(content[b], rf.n + 1, 4) \in Seq(Byte)
        /\ Len(SubSeq(content[b], rf.n + 1, 4)) = 4 - rf.n
    BY SubSeqProperties, SMTT(20)
  <1>2. QED
    BY <1>1, ConcatProperties DEF Overwrite

(* ReadHeader keeps TypeA: the held buffer stays 4 bytes long, and the     *)
(* error path puts it back as the goroutine returns.                       *)
LEMMA ReadHeaderTypeA ==
  ASSUME TypeA, NEW c \in Conns, ReadHeader(c)
  PROVE  TypeA'
  <1> DEFINE b == buf[c]
             rf == ReadFull(stream[c], pos[c], InitMessageSizeLength)
  <1>0. /\ pool \in [Buffers -> Nat]
        /\ content \in [Buffers -> Seq(Byte)]
        /\ \A x \in Buffers : Len(content[x]) = InitMessageSizeLength
        /\ buf \in [Conns -> Buffers \cup {NoBuf}]
        /\ pc \in [Conns -> Steps]
        /\ pos \in [Conns -> Nat]
        /\ result \in [Conns -> Outcomes]
        /\ \A x \in Conns : pos[x] <= Len(stream[x].bytes)
        /\ \A x \in Conns : (buf[x] # NoBuf) <=> (pc[x] \in Holding)
    BY DEF TypeA, LegacyTypeOK
  <1>1. b \in Buffers /\ NoBuf \notin Buffers
    BY ConnFacts, LegacyAssumption DEF ReadHeader, Holding
  <1>2. /\ rf.n \in 0 .. 4
        /\ pos[c] + rf.n <= Len(stream[c].bytes)
        /\ rf.data \in Seq(Byte) /\ Len(rf.data) = rf.n
    BY ConnFacts, ReadFullFacts, SMTT(20) DEF InitMessageSizeLength
  <1>3. Overwrite(b, rf) \in Seq(Byte) /\ Len(Overwrite(b, rf)) = 4
    BY <1>0, <1>1, <1>2, OverwriteFacts DEF InitMessageSizeLength
  <1>4. /\ pos' = [pos EXCEPT ![c] = @ + rf.n]
        /\ content' = [content EXCEPT ![b] = Overwrite(b, rf)]
        /\ \/ /\ pc' = [pc EXCEPT ![c] = "decode"]
              /\ UNCHANGED <<buf, pool, result>>
           \/ /\ pool' = [pool EXCEPT ![b] = @ + 1]
              /\ buf' = [buf EXCEPT ![c] = NoBuf]
              /\ pc' = [pc EXCEPT ![c] = "done"]
              /\ result' = [result EXCEPT ![c] = "error"]
        /\ UNCHANGED <<stream, messageLength, lmsg, hasParam>>
    BY DEF ReadHeader, Goto, Finish
  <1> HIDE DEF b, rf
  <1>5. /\ pos' \in [Conns -> Nat]
        /\ \A x \in Conns : pos'[x] <= Len(stream'[x].bytes)
    BY <1>0, <1>2, <1>4
  <1>6. /\ content' \in [Buffers -> Seq(Byte)]
        /\ \A x \in Buffers : Len(content'[x]) = InitMessageSizeLength
    BY <1>0, <1>3, <1>4 DEF InitMessageSizeLength
  <1>7. /\ pool' \in [Buffers -> Nat]
        /\ buf' \in [Conns -> Buffers \cup {NoBuf}]
        /\ pc' \in [Conns -> Steps]
        /\ result' \in [Conns -> Outcomes]
        /\ \A x \in Conns : (buf'[x] # NoBuf) <=> (pc'[x] \in Holding)
    <2>1. CASE /\ pc' = [pc EXCEPT ![c] = "decode"]
               /\ UNCHANGED <<buf, pool, result>>
      BY <1>0, <1>1, <2>1 DEF Steps, Holding, b
    <2>2. CASE /\ pool' = [pool EXCEPT ![b] = @ + 1]
               /\ buf' = [buf EXCEPT ![c] = NoBuf]
               /\ pc' = [pc EXCEPT ![c] = "done"]
               /\ result' = [result EXCEPT ![c] = "error"]
      BY <1>0, <1>1, <2>2 DEF Steps, Outcomes, Holding, b
    <2>3. QED
      BY <1>4, <2>1, <2>2
  <1>8. QED
    BY <1>4, <1>5, <1>6, <1>7 DEF TypeA, LegacyTypeOK

(* DecodeHeader keeps TypeA: a 4-byte buffer decodes to a number, and the *)
(* buffer goes back to the pool.                                           *)
LEMMA DecodeHeaderTypeA ==
  ASSUME TypeA, NEW c \in Conns, DecodeHeader(c)
  PROVE  TypeA'
  <1> DEFINE b == buf[c]
  <1>0. /\ pool \in [Buffers -> Nat]
        /\ content \in [Buffers -> Seq(Byte)]
        /\ \A x \in Buffers : Len(content[x]) = InitMessageSizeLength
        /\ buf \in [Conns -> Buffers \cup {NoBuf}]
        /\ pc \in [Conns -> Steps]
        /\ messageLength \in [Conns -> Int]
        /\ \A x \in Conns : (buf[x] # NoBuf) <=> (pc[x] \in Holding)
    BY DEF TypeA, LegacyTypeOK
  <1>1. b \in Buffers /\ NoBuf \notin Buffers
    BY ConnFacts, LegacyAssumption DEF DecodeHeader, Holding
  <1>2. BigEndianUint32(content[b]) \in Nat
    <2>1. content[b] \in Seq(Byte) /\ Len(content[b]) >= 4
      <3>1. content[b] \in Seq(Byte) /\ Len(content[b]) = InitMessageSizeLength
        BY <1>0, <1>1
      <3>2. QED
        BY <3>1 DEF InitMessageSizeLength
    <2>2. QED
      BY <2>1, BigEndianNat
  <1>3. /\ messageLength' = [messageLength EXCEPT ![c] =
                              BigEndianUint32(content[b]) - InitMessageSizeLength]
        /\ pool' = [pool EXCEPT ![b] = @ + 1]
        /\ buf' = [buf EXCEPT ![c] = NoBuf]
        /\ pc' = [pc EXCEPT ![c] = "readPayload"]
        /\ UNCHANGED <<stream, pos, content, lmsg, hasParam, result>>
    BY DEF DecodeHeader, Goto
  <1> HIDE DEF b
  <1>4. /\ messageLength' \in [Conns -> Int]
        /\ pool' \in [Buffers -> Nat]
        /\ buf' \in [Conns -> Buffers \cup {NoBuf}]
        /\ pc' \in [Conns -> Steps]
        /\ \A x \in Conns : (buf'[x] # NoBuf) <=> (pc'[x] \in Holding)
    BY <1>0, <1>1, <1>2, <1>3 DEF Steps, Holding, InitMessageSizeLength
  <1>5. QED
    BY <1>3, <1>4 DEF TypeA, LegacyTypeOK

(* A step of a connection that holds no buffer keeps TypeA when it moves  *)
(* to another such step and leaves the pool, the buffers and the decoded   *)
(* length alone: the four steps after DecodeHeader.                       *)
LEMMA UnheldStepTypeA ==
  ASSUME TypeA, NEW c \in Conns, pc[c] \notin Holding,
         NEW st \in Steps \ Holding, pc' = [pc EXCEPT ![c] = st],
         result' \in [Conns -> Outcomes],
         pos' \in [Conns -> Nat],
         \A x \in Conns : pos'[x] <= Len(stream[x].bytes),
         lmsg' \in [Conns -> LegacyMessageType],
         hasParam' \in [Conns -> BOOLEAN],
         UNCHANGED <<stream, buf, pool, content, messageLength>>
  PROVE  TypeA'
  <1>1. pc' \in [Conns -> Steps]
    BY DEF TypeA, LegacyTypeOK
  <1>2. \A x \in Conns : (buf'[x] # NoBuf) <=> (pc'[x] \in Holding)
    BY DEF TypeA
  <1>3. QED
    BY <1>1, <1>2 DEF TypeA, LegacyTypeOK

(* Finish(c, res) with res an outcome leaves result typed.                 *)
LEMMA FinishResult ==
  ASSUME TypeA, NEW c \in Conns, NEW res \in Outcomes,
         result' = [result EXCEPT ![c] = res]
  PROVE  result' \in [Conns -> Outcomes]
  BY DEF TypeA, LegacyTypeOK

(* The size ReadPayload reads is a natural number.                         *)
LEMMA ReadSizeNat ==
  ASSUME NEW d \in Int
  PROVE  ReadSize(d) \in Nat
  BY DEF ReadSize

(* ReadPayload keeps TypeA: the payload read is a byte string and the     *)
(* stream position stays within the stream.                                *)
LEMMA ReadPayloadTypeA ==
  ASSUME TypeA, NEW c \in Conns, ReadPayload(c)
  PROVE  TypeA'
  <1> DEFINE d == messageLength[c]
             rf == ReadFull(stream[c], pos[c], ReadSize(d))
  <1>0. /\ pc[c] = "readPayload" /\ pc[c] \notin Holding
        /\ pos \in [Conns -> Nat] /\ lmsg \in [Conns -> LegacyMessageType]
        /\ result \in [Conns -> Outcomes]
        /\ \A x \in Conns : pos[x] <= Len(stream[x].bytes)
    BY DEF ReadPayload, TypeA, LegacyTypeOK, Holding
  <1>1. ReadSize(d) \in Nat
    BY ReadSizeNat DEF TypeA, LegacyTypeOK
  <1>2. /\ rf.n \in Nat
        /\ pos[c] + rf.n <= Len(stream[c].bytes)
        /\ rf.data \in Seq(Byte)
    BY <1>1, ConnFacts, ReadFullFacts
  <1>3. [data |-> rf.data, offset |-> 0] \in LegacyMessageType
    BY <1>2 DEF LegacyMessageType
  <1> HIDE DEF d, rf
  <1>4. CASE /\ Finish(c, "oom")
             /\ UNCHANGED <<pos, lmsg>>
             /\ UNCHANGED <<stream, buf, pool, content, messageLength, hasParam>>
    <2>1. result' \in [Conns -> Outcomes]
      BY <1>4, FinishResult DEF Finish, Outcomes
    <2>2. QED
      BY <1>0, <1>4, <2>1, UnheldStepTypeA DEF Finish, Steps, Holding, TypeA, LegacyTypeOK
  <1>5. CASE /\ pos' = [pos EXCEPT ![c] = @ + rf.n]
             /\ UNCHANGED <<stream, buf, pool, content, messageLength, hasParam>>
             /\ \/ /\ lmsg' = [lmsg EXCEPT ![c] = [data |-> rf.data, offset |-> 0]]
                   /\ Goto(c, "readCode")
                \/ /\ Finish(c, "error")
                   /\ UNCHANGED lmsg
    <2>1. /\ pos' \in [Conns -> Nat]
          /\ \A x \in Conns : pos'[x] <= Len(stream'[x].bytes)
      BY <1>0, <1>2, <1>5
    <2>2. CASE lmsg' = [lmsg EXCEPT ![c] = [data |-> rf.data, offset |-> 0]]
               /\ Goto(c, "readCode")
      BY <1>0, <1>3, <1>5, <2>1, <2>2, UnheldStepTypeA, SMTT(20) DEF Goto, Steps, Holding, TypeA, LegacyTypeOK
    <2>3. CASE Finish(c, "error") /\ UNCHANGED lmsg
      <3>1. result' \in [Conns -> Outcomes]
        BY <2>3, FinishResult DEF Finish, Outcomes
      <3>2. QED
        BY <1>0, <1>5, <2>1, <2>3, <3>1, UnheldStepTypeA, SMTT(20) DEF Finish, Steps, Holding, TypeA, LegacyTypeOK
    <2>4. QED
      BY <1>5, <2>2, <2>3
  <1>6. QED
    BY <1>4, <1>5 DEF ReadPayload, d, rf

(* message.ReadUint32 and message.ReadString keep a message typed; the    *)
(* scan of ReadString needs an offset within the data (its panic guard).   *)
LEMMA LegacyReadUint32Type ==
  ASSUME NEW m \in LegacyMessageType
  PROVE  LegacyReadUint32(m).msg \in LegacyMessageType
  BY DEF LegacyReadUint32, LegacyMessageType

LEMMA LegacyReadStringType ==
  ASSUME NEW m \in LegacyMessageType, ~LegacyStringPanics(m)
  PROVE  LegacyReadString(m).msg \in LegacyMessageType
  <1>1. m.data \in Seq(Byte) /\ m.offset \in Nat /\ m.offset <= Len(m.data)
    BY DEF LegacyMessageType, LegacyStringPanics
  <1>2. NullScan(m) \in Nat
    BY <1>1, NullScanBounds
  <1>3. QED
    BY <1>2 DEF LegacyReadString, LegacyStringEnd, LegacyMessageType

(* The facts of TypeA a decode step starts from.                            *)
LEMMA DecodeStepFacts ==
  ASSUME TypeA, NEW c \in Conns, pc[c] \in Decoded
  PROVE  /\ pc[c] \notin Holding
         /\ pos \in [Conns -> Nat] /\ lmsg \in [Conns -> LegacyMessageType]
         /\ hasParam \in [Conns -> BOOLEAN]
         /\ lmsg[c] \in LegacyMessageType
         /\ \A x \in Conns : pos[x] <= Len(stream[x].bytes)
  BY DEF TypeA, LegacyTypeOK, Holding, Decoded

(* ReadCode keeps TypeA.                                                   *)
LEMMA ReadCodeTypeA ==
  ASSUME TypeA, NEW c \in Conns, ReadCode(c)
  PROVE  TypeA'
  <1>0. /\ pc[c] \notin Holding
        /\ pos \in [Conns -> Nat] /\ lmsg \in [Conns -> LegacyMessageType]
        /\ hasParam \in [Conns -> BOOLEAN]
        /\ lmsg[c] \in LegacyMessageType
        /\ \A x \in Conns : pos[x] <= Len(stream[x].bytes)
    BY DecodeStepFacts DEF ReadCode, Decoded
  <1>1. [lmsg EXCEPT ![c] = LegacyReadUint32(lmsg[c]).msg] \in [Conns -> LegacyMessageType]
    BY <1>0, LegacyReadUint32Type
  <1>2. \A res \in Outcomes : [result EXCEPT ![c] = res] \in [Conns -> Outcomes]
    BY DEF TypeA, LegacyTypeOK
  <1> DEFINE m == lmsg[c]
             code == LegacyReadUint32(m).r
  <1>3. UNCHANGED <<stream, pos, buf, pool, content, messageLength, hasParam>>
    BY DEF ReadCode
  <1>4. \A st \in Steps \ Holding, res \in Outcomes :
          pc' = [pc EXCEPT ![c] = st] /\ result' = [result EXCEPT ![c] = res]
          /\ lmsg' \in [Conns -> LegacyMessageType] => TypeA'
    <2>1. SUFFICES ASSUME NEW st \in Steps \ Holding, NEW res \in Outcomes,
                          pc' = [pc EXCEPT ![c] = st],
                          result' = [result EXCEPT ![c] = res],
                          lmsg' \in [Conns -> LegacyMessageType]
                   PROVE  TypeA'
      OBVIOUS
    <2>2. result' \in [Conns -> Outcomes]
      BY <2>1, FinishResult
    <2>3. QED
      BY <1>0, <1>3, <2>1, <2>2, UnheldStepTypeA
  <1>5. \A st \in Steps \ Holding :
          pc' = [pc EXCEPT ![c] = st] /\ UNCHANGED result
          /\ lmsg' \in [Conns -> LegacyMessageType] => TypeA'
    BY <1>0, <1>3, UnheldStepTypeA DEF TypeA, LegacyTypeOK
  <1> HIDE DEF m, code
  <1>6. CASE Finish(c, "panic") /\ UNCHANGED lmsg
    BY <1>0, <1>4, <1>6 DEF Finish, Steps, Holding, Outcomes
  <1>7. CASE /\ lmsg' = [lmsg EXCEPT ![c] = LegacyReadUint32(m).msg]
             /\ \/ Finish(c, "match") \/ Finish(c, "error")
                \/ Goto(c, "readKey")
    <2>1. lmsg' \in [Conns -> LegacyMessageType]
      BY <1>1, <1>7 DEF m
    <2>2. CASE Finish(c, "match")
      BY <1>4, <2>1, <2>2 DEF Finish, Steps, Holding, Outcomes
    <2>3. CASE Finish(c, "error")
      BY <1>4, <2>1, <2>3 DEF Finish, Steps, Holding, Outcomes
    <2>4. CASE Goto(c, "readKey")
      BY <1>5, <2>1, <2>4 DEF Goto, Steps, Holding
    <2>5. QED
      BY <1>7, <2>2, <2>3, <2>4
  <1>8. QED
    BY <1>6, <1>7 DEF ReadCode, m, code
(* A decode step that returns, or moves to the next decode step, keeps     *)
(* TypeA when the message and the parameter flag stay typed.               *)
LEMMA UnheldFinishTypeA ==
  ASSUME TypeA, NEW c \in Conns, pc[c] \notin Holding, NEW res \in Outcomes,
         Finish(c, res),
         lmsg' \in [Conns -> LegacyMessageType], hasParam' \in [Conns -> BOOLEAN],
         UNCHANGED <<stream, pos, buf, pool, content, messageLength>>
  PROVE  TypeA'
  <1>1. result' \in [Conns -> Outcomes]
    BY FinishResult DEF Finish
  <1>2. pos' \in [Conns -> Nat] /\ \A x \in Conns : pos'[x] <= Len(stream[x].bytes)
    BY DEF TypeA, LegacyTypeOK
  <1>3. QED
    BY <1>1, <1>2, UnheldStepTypeA DEF Finish, Steps, Holding

LEMMA UnheldGotoTypeA ==
  ASSUME TypeA, NEW c \in Conns, pc[c] \notin Holding, NEW st \in Steps \ Holding,
         Goto(c, st),
         lmsg' \in [Conns -> LegacyMessageType], hasParam' \in [Conns -> BOOLEAN],
         UNCHANGED <<stream, pos, buf, pool, content, messageLength>>
  PROVE  TypeA'
  <1>1. result' \in [Conns -> Outcomes] /\ pos' \in [Conns -> Nat]
        /\ \A x \in Conns : pos'[x] <= Len(stream[x].bytes)
    BY DEF Goto, TypeA, LegacyTypeOK
  <1>2. QED
    BY <1>1, UnheldStepTypeA DEF Goto

(* ReadKey keeps TypeA: the key is read only from an offset within the     *)
(* payload.                                                                *)
LEMMA ReadKeyTypeA ==
  ASSUME TypeA, NEW c \in Conns, ReadKey(c)
  PROVE  TypeA'
  <1>0. /\ pc[c] \notin Holding
        /\ lmsg \in [Conns -> LegacyMessageType]
        /\ hasParam \in [Conns -> BOOLEAN]
        /\ lmsg[c] \in LegacyMessageType
    BY DecodeStepFacts DEF ReadKey, Decoded
  <1>1. UNCHANGED <<stream, pos, buf, pool, content, messageLength, hasParam>>
    BY DEF ReadKey
  <1>2. CASE Finish(c, "panic") /\ UNCHANGED lmsg
    BY <1>0, <1>1, <1>2, UnheldFinishTypeA, SMTT(20) DEF Outcomes
  <1>3. CASE /\ ~LegacyStringPanics(lmsg[c])
             /\ lmsg' = [lmsg EXCEPT ![c] = LegacyReadString(lmsg[c]).msg]
             /\ \/ Finish(c, IF hasParam[c] THEN "match" ELSE "nomatch")
                \/ Goto(c, "readValue")
    <2>1. lmsg' \in [Conns -> LegacyMessageType]
      BY <1>0, <1>3, LegacyReadStringType
    <2>2. (IF hasParam[c] THEN "match" ELSE "nomatch") \in Outcomes
      BY DEF Outcomes
    <2>3. "readValue" \in Steps \ Holding
      BY DEF Steps, Holding
    <2>4. QED
      BY <1>0, <1>1, <1>3, <2>1, <2>2, <2>3, UnheldFinishTypeA, UnheldGotoTypeA, SMTT(20)
  <1>4. QED
    BY <1>2, <1>3 DEF ReadKey

(* ReadValue keeps TypeA.                                                  *)
LEMMA ReadValueTypeA ==
  ASSUME TypeA, NEW c \in Conns, ReadValue(c)
  PROVE  TypeA'
  <1>0. /\ pc[c] \notin Holding
        /\ lmsg \in [Conns -> LegacyMessageType]
        /\ hasParam \in [Conns -> BOOLEAN]
        /\ lmsg[c] \in LegacyMessageType
    BY DecodeStepFacts DEF ReadValue, Decoded
  <1>1. UNCHANGED <<stream, pos, buf, pool, content, messageLength>>
    BY DEF ReadValue
  <1>2. CASE Finish(c, "panic") /\ UNCHANGED <<lmsg, hasParam>>
    BY <1>0, <1>1, <1>2, UnheldFinishTypeA, SMTT(20) DEF Outcomes
  <1>3. CASE /\ ~LegacyStringPanics(lmsg[c])
             /\ lmsg' = [lmsg EXCEPT ![c] = LegacyReadString(lmsg[c]).msg]
             /\ hasParam' = [hasParam EXCEPT ![c] = TRUE]
             /\ Goto(c, "readKey")
    <2>1. lmsg' \in [Conns -> LegacyMessageType] /\ hasParam' \in [Conns -> BOOLEAN]
      BY <1>0, <1>3, LegacyReadStringType
    <2>2. "readKey" \in Steps \ Holding
      BY DEF Steps, Holding
    <2>3. QED
      BY <1>0, <1>1, <1>3, <2>1, <2>2, UnheldGotoTypeA, SMTT(20)
  <1>4. QED
    BY <1>2, <1>3 DEF ReadValue

(* Every step of the matchers, and a stutter, keeps TypeA.                 *)
LEMMA TypeAStep == TypeA /\ [LegacyNext]_legacyVars => TypeA'
  <1> SUFFICES ASSUME TypeA, [LegacyNext]_legacyVars PROVE TypeA'
    OBVIOUS
  <1>1. ASSUME NEW c \in Conns, GetHeader(c) PROVE TypeA'
    BY <1>1, GetHeaderTypeA
  <1>2. ASSUME NEW c \in Conns, ReadHeader(c) PROVE TypeA'
    BY <1>2, ReadHeaderTypeA, SMTT(20)
  <1>3. ASSUME NEW c \in Conns, DecodeHeader(c) PROVE TypeA'
    BY <1>3, DecodeHeaderTypeA
  <1>4. ASSUME NEW c \in Conns, ReadPayload(c) PROVE TypeA'
    BY <1>4, ReadPayloadTypeA
  <1>5. ASSUME NEW c \in Conns, ReadCode(c) PROVE TypeA'
    BY <1>5, ReadCodeTypeA
  <1>6. ASSUME NEW c \in Conns, ReadKey(c) PROVE TypeA'
    BY <1>6, ReadKeyTypeA
  <1>7. ASSUME NEW c \in Conns, ReadValue(c) PROVE TypeA'
    BY <1>7, ReadValueTypeA
  <1>8. CASE PoolDrop
    BY <1>8, PoolDropTypeA
  <1>9. CASE AllReturned \/ UNCHANGED legacyVars
    BY <1>9 DEF AllReturned, legacyVars, TypeA, LegacyTypeOK, Holders
  <1>10. QED
    BY <1>1, <1>2, <1>3, <1>4, <1>5, <1>6, <1>7, <1>8, <1>9, SMTT(20) DEF LegacyNext

(* The facts of ExclB and HInv one step lemma needs, as formulas.         *)
LEMMA ExclFacts ==
  ASSUME ExclB, NEW b \in Buffers
  PROVE  /\ pool[b] <= 1
         /\ \A x, y \in Conns : buf[x] = b /\ buf[y] = b => x = y
         /\ \A x \in Conns : pool[b] > 0 => buf[x] # b
  BY DEF ExclB

(* GetHeader keeps ExclB and HInv: the buffer taken from the pool was held *)
(* by nobody, and a new buffer's identity was held by nobody either, so    *)
(* zeroing it disturbs no goroutine's header.                              *)
LEMMA GetHeaderInv ==
  ASSUME LIInv, NEW c \in Conns, GetHeader(c)
  PROVE  ExclB' /\ HInv'
  <1>0. /\ pool \in [Buffers -> Nat]
        /\ buf \in [Conns -> Buffers \cup {NoBuf}]
        /\ pc \in [Conns -> Steps]
        /\ pc[c] = "get" /\ buf[c] = NoBuf /\ NoBuf \notin Buffers
        /\ \A x \in Conns : pc[x] = "decode" => buf[x] \in Buffers
    BY LegacyAssumption DEF GetHeader, LIInv, TypeA, LegacyTypeOK, Holding
  <1>1. PICK b \in Buffers :
          /\ \/ pool[b] > 0 /\ pool' = [pool EXCEPT ![b] = @ - 1] /\ UNCHANGED content
             \/ /\ pool[b] = 0 /\ Holders(b) = {}
                /\ content' = [content EXCEPT ![b] = <<0, 0, 0, 0>>]
                /\ UNCHANGED pool
          /\ buf' = [buf EXCEPT ![c] = b]
    BY DEF GetHeader
  <1>2. /\ pc' = [pc EXCEPT ![c] = "readHeader"]
        /\ UNCHANGED <<stream, pos, messageLength, lmsg, hasParam, result>>
    BY DEF GetHeader, Goto
  <1>3. /\ \A x \in Conns : buf[x] # b
        /\ pool'[b] = 0
        /\ \A b2 \in Buffers \ {b} : pool'[b2] = pool[b2]
        /\ \A b2 \in Buffers : pool'[b2] <= pool[b2]
        /\ \A b2 \in Buffers \ {b} : content'[b2] = content[b2]
    <2>1. CASE pool[b] > 0 /\ pool' = [pool EXCEPT ![b] = @ - 1] /\ UNCHANGED content
      <3>1. pool[b] = 1
        BY <1>0, <2>1, ExclFacts, SMTT(20) DEF LIInv
      <3>2. QED
        BY <1>0, <2>1, <3>1, ExclFacts DEF LIInv
    <2>2. CASE /\ pool[b] = 0 /\ Holders(b) = {}
               /\ content' = [content EXCEPT ![b] = <<0, 0, 0, 0>>]
               /\ UNCHANGED pool
      <3>1. \A x \in Conns : buf[x] # b
        BY <2>2 DEF Holders
      <3>2. QED
        BY <1>0, <2>2, <3>1, SMTT(20) DEF LIInv, TypeA, LegacyTypeOK
    <2>3. QED
      BY <1>1, <2>1, <2>2
  <1>4. ExclB'
    <2> SUFFICES ASSUME NEW b2 \in Buffers
                 PROVE  /\ pool'[b2] <= 1
                        /\ \A x, y \in Conns : buf'[x] = b2 /\ buf'[y] = b2 => x = y
                        /\ \A x \in Conns : pool'[b2] > 0 => buf'[x] # b2
      BY DEF ExclB
    <2>1. /\ pool[b2] <= 1
          /\ \A x, y \in Conns : buf[x] = b2 /\ buf[y] = b2 => x = y
          /\ \A x \in Conns : pool[b2] > 0 => buf[x] # b2
      BY ExclFacts DEF LIInv
    <2>2. QED
      BY <1>0, <1>1, <1>3, <2>1, SMTT(20)
  <1>5. HInv'
    <2>1. \A x \in Conns : pc'[x] \in {"get", "readHeader"} => pos'[x] = 0
      BY <1>0, <1>2, SMTT(20) DEF LIInv, HInv
    <2>2. \A x \in Conns : pc'[x] = "decode" =>
            content'[buf'[x]] = SubSeq(stream'[x].bytes, 1, 4)
      BY <1>0, <1>1, <1>2, <1>3, SMTT(20) DEF LIInv, HInv
    <2>3. HeaderFromOwnRead'
      BY <1>0, <1>2 DEF LIInv, HInv, HeaderFromOwnRead
    <2>4. QED
      BY <2>1, <2>2, <2>3 DEF HInv
  <1>6. QED
    BY <1>4, <1>5

(* A complete read of the header fills the whole 4-byte buffer.           *)
LEMMA OverwriteFull ==
  ASSUME NEW b \in Buffers, content[b] \in Seq(Byte), Len(content[b]) = 4,
         NEW rf, rf.n = 4, rf.data \in Seq(Byte)
  PROVE  Overwrite(b, rf) = rf.data
  <1>1. SubSeq(content[b], 5, 4) = << >>
    BY SubSeqEmpty, SMTT(20)
  <1>2. QED
    BY <1>1 DEF Overwrite

(* ReadHeader keeps ExclB and HInv: the other goroutines hold other        *)
(* buffers, so the read lands in c's buffer only; a complete read leaves   *)
(* there the client's first 4 bytes; on the error path the Put of line 71  *)
(* returns a buffer nobody else holds and that is not in the pool.         *)
LEMMA ReadHeaderInv ==
  ASSUME LIInv, TypeA', NEW c \in Conns, ReadHeader(c)
  PROVE  ExclB' /\ HInv'
  <1> DEFINE b == buf[c]
             rf == ReadFull(stream[c], pos[c], InitMessageSizeLength)
  <1>0. /\ pool \in [Buffers -> Nat]
        /\ buf \in [Conns -> Buffers \cup {NoBuf}]
        /\ pc \in [Conns -> Steps]
        /\ content \in [Buffers -> Seq(Byte)]
        /\ pc[c] = "readHeader" /\ b \in Buffers /\ NoBuf \notin Buffers
        /\ pos[c] = 0 /\ stream[c].bytes \in Seq(Byte) /\ pos \in [Conns -> Nat]
        /\ \A x \in Conns : pc[x] = "decode" => buf[x] \in Buffers
        /\ Len(content[b]) = 4
    BY LegacyAssumption, ConnFacts
       DEF ReadHeader, LIInv, TypeA, LegacyTypeOK, Holding, HInv, InitMessageSizeLength
  <1>1. /\ pool[b] = 0
        /\ \A x \in Conns \ {c} : buf[x] # b
    BY <1>0, ExclFacts DEF LIInv
  <1>2. rf.err = "nil" => rf.data = SubSeq(stream[c].bytes, 1, 4) /\ rf.n = 4
        /\ rf.data \in Seq(Byte)
    <2>1. /\ ReadFull(stream[c], 0, 4).data \in Seq(Byte)
          /\ ReadFull(stream[c], 0, 4).err = "nil" =>
               /\ ReadFull(stream[c], 0, 4).n = 4
               /\ ReadFull(stream[c], 0, 4).data = SubSeq(stream[c].bytes, 1, 4)
      BY <1>0, HeaderReadFacts, SMTT(20)
    <2>2. QED
      BY <1>0, <2>1, SMTT(20) DEF InitMessageSizeLength
  <1>3. /\ content' = [content EXCEPT ![b] = Overwrite(b, rf)]
        /\ pos' = [pos EXCEPT ![c] = @ + rf.n]
        /\ UNCHANGED <<stream, messageLength>>
    BY DEF ReadHeader
  <1>4. CASE /\ rf.err = "nil"
             /\ pc' = [pc EXCEPT ![c] = "decode"]
             /\ UNCHANGED <<buf, pool>>
    <2>1. content'[b] = SubSeq(stream[c].bytes, 1, 4)
      <3>1. rf.n = 4 /\ rf.data \in Seq(Byte) /\ rf.data = SubSeq(stream[c].bytes, 1, 4)
        BY <1>2, <1>4, SMTT(20)
      <3> HIDE DEF rf
      <3>2. Overwrite(b, rf) = rf.data
        BY <1>0, <3>1, OverwriteFull
      <3>3. QED
        BY <1>0, <1>3, <3>1, <3>2, SMTT(20)
    <2>2. ExclB'
      BY <1>4 DEF LIInv, ExclB
    <2>3. \A x \in Conns : pc'[x] \in {"get", "readHeader"} => pos'[x] = 0
      BY <1>0, <1>3, <1>4 DEF LIInv, HInv
    <2>4. \A x \in Conns : pc'[x] = "decode" =>
            content'[buf'[x]] = SubSeq(stream'[x].bytes, 1, 4)
      BY <1>0, <1>1, <1>3, <1>4, <2>1, SMTT(20) DEF LIInv, HInv
    <2>5. HeaderFromOwnRead'
      BY <1>0, <1>3, <1>4, SMTT(20) DEF LIInv, HInv, HeaderFromOwnRead
    <2>6. QED
      BY <2>2, <2>3, <2>4, <2>5, SMTT(20) DEF HInv
  <1>5. CASE /\ pool' = [pool EXCEPT ![b] = @ + 1]
             /\ buf' = [buf EXCEPT ![c] = NoBuf]
             /\ pc' = [pc EXCEPT ![c] = "done"]
    <2>1. ExclB'
      <3> SUFFICES ASSUME NEW b2 \in Buffers
                   PROVE  /\ pool'[b2] <= 1
                          /\ \A x, y \in Conns : buf'[x] = b2 /\ buf'[y] = b2 => x = y
                          /\ \A x \in Conns : pool'[b2] > 0 => buf'[x] # b2
        BY DEF ExclB
      <3>1. /\ pool[b2] <= 1
            /\ \A x, y \in Conns : buf[x] = b2 /\ buf[y] = b2 => x = y
            /\ \A x \in Conns : pool[b2] > 0 => buf[x] # b2
        BY ExclFacts, SMTT(20) DEF LIInv
      <3>2. QED
        BY <1>0, <1>1, <1>5, <3>1, SMTT(20)
    <2>2. \A x \in Conns : pc'[x] \in {"get", "readHeader"} => pos'[x] = 0
      BY <1>0, <1>3, <1>5, SMTT(20) DEF LIInv, HInv
    <2>3. \A x \in Conns : pc'[x] = "decode" =>
            content'[buf'[x]] = SubSeq(stream'[x].bytes, 1, 4)
      BY <1>0, <1>1, <1>3, <1>5, SMTT(20) DEF LIInv, HInv
    <2>4. HeaderFromOwnRead'
      BY <1>0, <1>3, <1>5, SMTT(20) DEF LIInv, HInv, HeaderFromOwnRead
    <2>5. QED
      BY <2>1, <2>2, <2>3, <2>4 DEF HInv
  <1>6. QED
    BY <1>4, <1>5, SMTT(20) DEF ReadHeader, Goto, Finish

(* DecodeHeader keeps ExclB and HInv: the length decoded at line 74 is    *)
(* read from the held buffer, which carries the client's first 4 bytes,   *)
(* and the Put of line 75 returns a buffer only c held and the pool did    *)
(* not contain.                                                            *)
LEMMA DecodeHeaderInv ==
  ASSUME LIInv, NEW c \in Conns, DecodeHeader(c)
  PROVE  ExclB' /\ HInv'
  <1> DEFINE b == buf[c]
  <1>0. /\ pool \in [Buffers -> Nat]
        /\ buf \in [Conns -> Buffers \cup {NoBuf}]
        /\ pc \in [Conns -> Steps]
        /\ messageLength \in [Conns -> Int]
        /\ pc[c] = "decode" /\ b \in Buffers /\ NoBuf \notin Buffers
        /\ content[b] = SubSeq(stream[c].bytes, 1, 4)
    BY LegacyAssumption, ConnFacts
       DEF DecodeHeader, LIInv, TypeA, LegacyTypeOK, Holding, HInv
  <1>1. /\ pool[b] = 0
        /\ \A x \in Conns \ {c} : buf[x] # b
    BY <1>0, ExclFacts DEF LIInv
  <1>2. /\ messageLength' = [messageLength EXCEPT ![c] =
                              BigEndianUint32(content[b]) - InitMessageSizeLength]
        /\ pool' = [pool EXCEPT ![b] = @ + 1]
        /\ buf' = [buf EXCEPT ![c] = NoBuf]
        /\ pc' = [pc EXCEPT ![c] = "readPayload"]
        /\ UNCHANGED <<stream, pos, content>>
    BY DEF DecodeHeader, Goto
  <1> HIDE DEF b
  <1>3. ExclB'
    <2> SUFFICES ASSUME NEW b2 \in Buffers
                 PROVE  /\ pool'[b2] <= 1
                        /\ \A x, y \in Conns : buf'[x] = b2 /\ buf'[y] = b2 => x = y
                        /\ \A x \in Conns : pool'[b2] > 0 => buf'[x] # b2
      BY DEF ExclB
    <2>1. /\ pool[b2] <= 1
          /\ \A x, y \in Conns : buf[x] = b2 /\ buf[y] = b2 => x = y
          /\ \A x \in Conns : pool[b2] > 0 => buf[x] # b2
      BY ExclFacts DEF LIInv
    <2>2. QED
      BY <1>0, <1>1, <1>2, <2>1
  <1>4. \A x \in Conns : pc'[x] \in {"get", "readHeader"} => pos'[x] = 0
    BY <1>0, <1>2, SMTT(20) DEF LIInv, HInv
  <1>5. \A x \in Conns : pc'[x] = "decode" =>
          content'[buf'[x]] = SubSeq(stream'[x].bytes, 1, 4)
    BY <1>0, <1>2 DEF LIInv, HInv
  <1>6. HeaderFromOwnRead'
    BY <1>0, <1>2, SMTT(20) DEF LIInv, HInv, HeaderFromOwnRead
  <1>7. QED
    BY <1>3, <1>4, <1>5, <1>6, SMTT(20) DEF HInv

(* A decode step (ReadPayload to ReadValue) keeps ExclB and HInv: it       *)
(* touches no buffer and no decoded length, and moves c only among the     *)
(* decode steps and "done".                                                *)
LEMMA DecodeStepInv ==
  ASSUME LIInv, NEW c \in Conns, pc[c] \in Decoded,
         NEW st \in Decoded \cup {"done"}, pc' = [pc EXCEPT ![c] = st],
         \A x \in Conns \ {c} : pos'[x] = pos[x],
         UNCHANGED <<stream, buf, pool, content, messageLength>>
  PROVE  ExclB' /\ HInv'
  <1>0. pc \in [Conns -> Steps]
    BY DEF LIInv, TypeA, LegacyTypeOK
  <1>1. ExclB'
    BY DEF LIInv, ExclB
  <1>2. \A x \in Conns : pc'[x] \in {"get", "readHeader"} => pos'[x] = 0
    BY <1>0 DEF LIInv, HInv, Decoded
  <1>3. \A x \in Conns : pc'[x] = "decode" =>
          content'[buf'[x]] = SubSeq(stream'[x].bytes, 1, 4)
    BY <1>0 DEF LIInv, HInv, Decoded
  <1>4. HeaderFromOwnRead'
    BY <1>0 DEF LIInv, HInv, HeaderFromOwnRead, Decoded
  <1>5. QED
    BY <1>1, <1>2, <1>3, <1>4, SMTT(20) DEF HInv

(* The garbage collector dropping a pooled buffer keeps ExclB and HInv.    *)
LEMMA PoolDropInv ==
  ASSUME LIInv, PoolDrop
  PROVE  ExclB' /\ HInv'
  <1>1. PICK b \in Buffers : pool[b] > 0 /\ pool' = [pool EXCEPT ![b] = @ - 1]
    BY DEF PoolDrop
  <1>2. UNCHANGED <<stream, pos, pc, buf, content, messageLength>>
    BY DEF PoolDrop
  <1>3. ExclB'
    <2> SUFFICES ASSUME NEW b2 \in Buffers
                 PROVE  /\ pool'[b2] <= 1
                        /\ \A x, y \in Conns : buf'[x] = b2 /\ buf'[y] = b2 => x = y
                        /\ \A x \in Conns : pool'[b2] > 0 => buf'[x] # b2
      BY DEF ExclB
    <2>1. /\ pool[b2] <= 1
          /\ \A x, y \in Conns : buf[x] = b2 /\ buf[y] = b2 => x = y
          /\ \A x \in Conns : pool[b2] > 0 => buf[x] # b2
      BY ExclFacts DEF LIInv
    <2>2. pool \in [Buffers -> Nat]
      BY DEF LIInv, TypeA, LegacyTypeOK
    <2>3. QED
      BY <1>1, <1>2, <2>1, <2>2
  <1>4. HInv'
    BY <1>2 DEF LIInv, HInv, HeaderFromOwnRead
  <1>5. QED
    BY <1>3, <1>4

(* Every initial state satisfies the inductive invariant: no buffer is    *)
(* pooled or held, and nothing has been read.                             *)
LEMMA InitLIInv == LegacyInit => LIInv
  <1> SUFFICES ASSUME LegacyInit PROVE LIInv
    OBVIOUS
  <1>1. TypeA
    BY InitTypeA
  <1>2. ExclB
    BY LegacyAssumption DEF LegacyInit, ExclB
  <1>3. HInv
    BY DEF LegacyInit, HInv, HeaderFromOwnRead
  <1>4. QED
    BY <1>1, <1>2, <1>3 DEF LIInv

(* Every step of the matchers, and a stutter, keeps the inductive          *)
(* invariant.                                                              *)
LEMMA LIInvStep == LIInv /\ [LegacyNext]_legacyVars => LIInv'
  <1> SUFFICES ASSUME LIInv, [LegacyNext]_legacyVars PROVE LIInv'
    OBVIOUS
  <1>0. TypeA'
    BY TypeAStep DEF LIInv
  <1> SUFFICES ExclB' /\ HInv'
    BY <1>0 DEF LIInv
  <1>1. ASSUME NEW c \in Conns, GetHeader(c) PROVE ExclB' /\ HInv'
    BY <1>1, GetHeaderInv
  <1>2. ASSUME NEW c \in Conns, ReadHeader(c) PROVE ExclB' /\ HInv'
    BY <1>0, <1>2, ReadHeaderInv, SMTT(20)
  <1>3. ASSUME NEW c \in Conns, DecodeHeader(c) PROVE ExclB' /\ HInv'
    BY <1>3, DecodeHeaderInv
  <1>4. ASSUME NEW c \in Conns, ReadPayload(c) PROVE ExclB' /\ HInv'
    <2>1. /\ pc[c] \in Decoded
          /\ \A x \in Conns \ {c} : pos'[x] = pos[x]
          /\ UNCHANGED <<stream, buf, pool, content, messageLength>>
      BY <1>4 DEF ReadPayload, LIInv, TypeA, LegacyTypeOK, Decoded
    <2>2. \E st \in Decoded \cup {"done"} : pc' = [pc EXCEPT ![c] = st]
      BY <1>4 DEF ReadPayload, Finish, Goto, Decoded
    <2>3. QED
      BY <2>1, <2>2, DecodeStepInv
  <1>5. ASSUME NEW c \in Conns, ReadCode(c) PROVE ExclB' /\ HInv'
    <2>1. /\ pc[c] \in Decoded
          /\ \A x \in Conns \ {c} : pos'[x] = pos[x]
          /\ UNCHANGED <<stream, buf, pool, content, messageLength>>
      BY <1>5 DEF ReadCode, Decoded
    <2>2. \E st \in Decoded \cup {"done"} : pc' = [pc EXCEPT ![c] = st]
      BY <1>5, SMTT(20) DEF ReadCode, Finish, Goto, Decoded
    <2>3. QED
      BY <2>1, <2>2, DecodeStepInv
  <1>6. ASSUME NEW c \in Conns, ReadKey(c) PROVE ExclB' /\ HInv'
    <2>1. /\ pc[c] \in Decoded
          /\ \A x \in Conns \ {c} : pos'[x] = pos[x]
          /\ UNCHANGED <<stream, buf, pool, content, messageLength>>
      BY <1>6, SMTT(20) DEF ReadKey, Decoded
    <2>2. \E st \in Decoded \cup {"done"} : pc' = [pc EXCEPT ![c] = st]
      BY <1>6, SMTT(20) DEF ReadKey, Finish, Goto, Decoded
    <2>3. QED
      BY <2>1, <2>2, DecodeStepInv
  <1>7. ASSUME NEW c \in Conns, ReadValue(c) PROVE ExclB' /\ HInv'
    <2>1. /\ pc[c] \in Decoded
          /\ \A x \in Conns \ {c} : pos'[x] = pos[x]
          /\ UNCHANGED <<stream, buf, pool, content, messageLength>>
      BY <1>7 DEF ReadValue, Decoded
    <2>2. \E st \in Decoded \cup {"done"} : pc' = [pc EXCEPT ![c] = st]
      BY <1>7 DEF ReadValue, Finish, Goto, Decoded
    <2>3. QED
      BY <2>1, <2>2, DecodeStepInv
  <1>8. CASE PoolDrop
    BY <1>8, PoolDropInv, SMTT(20)
  <1>9. CASE AllReturned \/ UNCHANGED legacyVars
    BY <1>9 DEF AllReturned, legacyVars, LIInv, ExclB, HInv, HeaderFromOwnRead
  <1>10. QED
    BY <1>1, <1>2, <1>3, <1>4, <1>5, <1>6, <1>7, <1>8, <1>9, SMTT(20) DEF LegacyNext

(* The inductive invariant holds in every state the matchers of           *)
(* matcher.go reach, for any number of connections and buffers.            *)
THEOREM LegacyInvariant == LegacySpec => []LIInv
  BY InitLIInv, LIInvStep, PTL DEF LegacySpec

(* ExclB gives BufferExclusive: at most one holder, and no holder when the *)
(* buffer is pooled.                                                       *)
LEMMA ExclBExclusive ==
  ASSUME TypeA, ExclB
  PROVE  BufferExclusive
  <1> SUFFICES ASSUME NEW b \in Buffers
               PROVE  pool[b] + Cardinality(Holders(b)) <= 1
    BY DEF BufferExclusive
  <1>0. /\ pool[b] \in Nat /\ pool[b] <= 1
        /\ \A x, y \in Conns : buf[x] = b /\ buf[y] = b => x = y
        /\ \A x \in Conns : pool[b] > 0 => buf[x] # b
    BY ExclFacts DEF TypeA, LegacyTypeOK
  <1>1. IsFiniteSet(Holders(b)) /\ Holders(b) \subseteq Conns
    BY LegacyAssumption, FS_Subset DEF Holders
  <1>2. CASE Holders(b) = {}
    BY <1>0, <1>2, FS_EmptySet
  <1>3. CASE Holders(b) # {}
    <2>1. PICK h \in Holders(b) : TRUE
      BY <1>3
    <2>2. Holders(b) = {h}
      BY <1>0, <2>1 DEF Holders
    <2>3. pool[b] = 0
      BY <1>0, <2>1 DEF Holders
    <2>4. Cardinality(Holders(b)) = 1
      BY <2>2, FS_Singleton
    <2>5. QED
      BY <2>3, <2>4
  <1>4. QED
    BY <1>2, <1>3

(* BufferExclusive (run legacy_pool): headerPool never hands a buffer to   *)
(* two goroutines of Match, nor keeps one in the pool that a goroutine     *)
(* holds, for any number of connections and buffers.                       *)
THEOREM LegacyBufferExclusive == LegacySpec => []BufferExclusive
  <1>1. LIInv => BufferExclusive
    BY ExclBExclusive DEF LIInv
  <1>2. QED
    BY <1>1, LegacyInvariant, PTL

(* HeaderFromOwnRead (run legacy_pool): the length each Match decodes at   *)
(* line 74 is the one its own client sent, however the goroutines          *)
(* interleave on the shared pool.                                          *)
THEOREM LegacyHeaderFromOwnRead == LegacySpec => []HeaderFromOwnRead
  <1>1. LIInv => HeaderFromOwnRead
    BY DEF LIInv, HInv
  <1>2. QED
    BY <1>1, LegacyInvariant, PTL

(* LegacyTypeOK (run legacy_pool) holds in every reachable state.          *)
THEOREM LegacyTypeCorrect == LegacySpec => []LegacyTypeOK
  <1>1. LIInv => LegacyTypeOK
    BY DEF LIInv, TypeA
  <1>2. QED
    BY <1>1, LegacyInvariant, PTL

-----------------------------------------------------------------------------
(***************************************************************************)
(* The matcher implements the lease of PgHeaderLease under the mapping of  *)
(* HeaderLease: the lease is buf and the pool is the set of buffers that   *)
(* pool counts.  GetHeader is a Take, the Puts of lines 71 and 75 are a    *)
(* GiveBack, a collection is a Drop, and every other step leaves buf and   *)
(* pool alone.  The mapping needs ExclB: pool counts a buffer at most once *)
(* (so one Get or one drop empties it) and never counts a held one.        *)
(***************************************************************************)

(* The pool of the lease, as the mapping of HeaderLease reads it.          *)
PoolSet == {b \in Buffers : pool[b] > 0}

(* A Get takes a buffer nobody holds and removes it from the pool.         *)
LEMMA GetHeaderLease ==
  ASSUME LIInv, NEW c \in Conns, GetHeader(c)
  PROVE  \E b \in Buffers : HeaderLease!Take(c, b)
  <1>0. /\ pool \in [Buffers -> Nat]
        /\ pc[c] = "get" /\ buf[c] = NoBuf
    BY DEF GetHeader, LIInv, TypeA, LegacyTypeOK, Holding
  <1>1. PICK b \in Buffers :
          /\ \/ pool[b] > 0 /\ pool' = [pool EXCEPT ![b] = @ - 1]
             \/ pool[b] = 0 /\ Holders(b) = {} /\ UNCHANGED pool
          /\ buf' = [buf EXCEPT ![c] = b]
    BY DEF GetHeader
  <1>2. pool[b] <= 1 /\ \A x \in Conns : pool[b] > 0 => buf[x] # b
    BY ExclFacts DEF LIInv
  <1>3. \A x \in Conns : buf[x] # b
    BY <1>1, <1>2 DEF Holders
  <1>4. b \notin {buf[x] : x \in Conns} \ {NoBuf}
    BY <1>3
  <1>5. PoolSet' = PoolSet \ {b}
    BY <1>0, <1>1, <1>2, SMTT(20) DEF PoolSet
  <1>6. QED
    BY <1>0, <1>1, <1>4, <1>5 DEF HeaderLease!Take, HeaderLease!Leased, PoolSet

(* The Put of lines 71 and 75 gives back the caller's own buffer.          *)
LEMMA PutLease ==
  ASSUME LIInv, NEW c \in Conns, pc[c] \in Holding,
         pool' = [pool EXCEPT ![buf[c]] = @ + 1],
         buf' = [buf EXCEPT ![c] = NoBuf]
  PROVE  HeaderLease!GiveBack(c)
  <1>0. /\ pool \in [Buffers -> Nat]
        /\ buf[c] \in Buffers /\ NoBuf \notin Buffers
    BY LegacyAssumption DEF LIInv, TypeA, LegacyTypeOK
  <1>1. PoolSet' = PoolSet \cup {buf[c]}
    BY <1>0, SMTT(20) DEF PoolSet
  <1>2. QED
    BY <1>0, <1>1 DEF HeaderLease!GiveBack, PoolSet

(* A step that touches neither buf nor pool is a stutter of the lease.     *)
LEMMA LeaseStutter ==
  ASSUME UNCHANGED <<buf, pool>>
  PROVE  UNCHANGED HeaderLease!leaseVars
  BY DEF HeaderLease!leaseVars

(* Every step of the matchers is a step of the lease or a stutter of it.   *)
LEMMA LeaseStep ==
  LIInv /\ [LegacyNext]_legacyVars => [HeaderLease!LeaseNext]_HeaderLease!leaseVars
  <1> SUFFICES ASSUME LIInv, [LegacyNext]_legacyVars
               PROVE  [HeaderLease!LeaseNext]_HeaderLease!leaseVars
    OBVIOUS
  <1>1. ASSUME NEW c \in Conns, GetHeader(c)
        PROVE  HeaderLease!LeaseNext
    BY <1>1, GetHeaderLease DEF HeaderLease!LeaseNext
  <1>2. ASSUME NEW c \in Conns, ReadHeader(c)
        PROVE  [HeaderLease!LeaseNext]_HeaderLease!leaseVars
    <2>1. /\ pc[c] = "readHeader"
          /\ \/ UNCHANGED <<buf, pool>>
             \/ /\ pool' = [pool EXCEPT ![buf[c]] = @ + 1]
                /\ buf' = [buf EXCEPT ![c] = NoBuf]
      BY <1>2 DEF ReadHeader
    <2>2. QED
      BY <2>1, PutLease, LeaseStutter DEF Holding, HeaderLease!LeaseNext
  <1>3. ASSUME NEW c \in Conns, DecodeHeader(c)
        PROVE  HeaderLease!LeaseNext
    <2>1. /\ pc[c] = "decode"
          /\ pool' = [pool EXCEPT ![buf[c]] = @ + 1]
          /\ buf' = [buf EXCEPT ![c] = NoBuf]
      BY <1>3 DEF DecodeHeader
    <2>2. QED
      BY <2>1, PutLease DEF Holding, HeaderLease!LeaseNext
  <1>4. ASSUME NEW c \in Conns,
               ReadPayload(c) \/ ReadCode(c) \/ ReadKey(c) \/ ReadValue(c)
        PROVE  UNCHANGED HeaderLease!leaseVars
    BY <1>4, LeaseStutter DEF ReadPayload, ReadCode, ReadKey, ReadValue
  <1>5. CASE PoolDrop
    <2>1. PICK b \in Buffers : pool[b] > 0 /\ pool' = [pool EXCEPT ![b] = @ - 1]
      BY <1>5 DEF PoolDrop
    <2>2. pool[b] <= 1 /\ pool \in [Buffers -> Nat] /\ UNCHANGED buf
      BY <1>5, ExclFacts DEF LIInv, TypeA, LegacyTypeOK, PoolDrop
    <2>3. b \in PoolSet /\ PoolSet' = PoolSet \ {b}
      BY <2>1, <2>2, SMTT(20) DEF PoolSet
    <2>4. HeaderLease!Drop(b)
      BY <2>2, <2>3 DEF HeaderLease!Drop, PoolSet
    <2>5. QED
      BY <2>4 DEF HeaderLease!LeaseNext
  <1>6. CASE AllReturned \/ UNCHANGED legacyVars
    BY <1>6, LeaseStutter DEF AllReturned, legacyVars
  <1>7. QED
    BY <1>1, <1>2, <1>3, <1>4, <1>5, <1>6 DEF LegacyNext

(* The matcher implements the lease, for any number of connections and    *)
(* buffers: every Get of headerPool takes a buffer no other goroutine      *)
(* holds, and every Put gives back the caller's own buffer, on the success *)
(* and the error paths (ImplementsHeaderLease).                            *)
THEOREM LegacyImplementsHeaderLease == LegacySpec => ImplementsHeaderLease
  <1>1. LegacyInit => HeaderLease!LeaseInit
    BY DEF LegacyInit, HeaderLease!LeaseInit
  <1>2. QED
    BY <1>1, LeaseStep, LegacyInvariant, PTL
    DEF LegacySpec, ImplementsHeaderLease, HeaderLease!LeaseSpec

=============================================================================
