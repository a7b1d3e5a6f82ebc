------------------------- MODULE PgMatchContractProofs -------------------------
(***************************************************************************)
(* The safety half of ImplementsContract, proved for every set of client   *)
(* streams: the strict Match (PgMatch) starts in an initial state of its   *)
(* contract PgMatchSpec, and each of its steps either leaves the stream    *)
(* and the result alone or is the contract's Decide, i.e. it sets the      *)
(* result, once, to Expected(stream).  That Match does return (the WF part *)
(* of the contract) is checked by TLC only.                                *)
(***************************************************************************)
EXTENDS PgMatchProofs, PgStartup, FiniteSetTheorems

(* The payload Expected looks at, and the parameter list after the version. *)
Pay == SubSeq(stream.bytes, 5, HeaderLen)

Params == SubSeq(Pay, 5, Len(Pay))

(* The decision on a frame whose code word is a version of 3.0 or more.    *)
Verdict == IF IsParameterList(Params) THEN "match" ELSE "nomatch"

(* No key that starts within the first n bytes of list t is empty.          *)
KeysNonEmpty(t, n) == \A i \in 1 .. n : KeyStart(t, i) => t[i] # 0

(* The blocks of the parameter loop (lines 237-290).                       *)
Walk == {"loop", "readKey", "readValue"}

-----------------------------------------------------------------------------
(***************************************************************************)
(* How NullsBefore counts: the nulls before position i of a byte string    *)
(* form a finite set, none before the first byte; a stretch without nulls  *)
(* leaves the count alone and one null raises it by one.                   *)
(***************************************************************************)
LEMMA NullsFinite ==
  ASSUME NEW t \in Seq(Byte), NEW i \in Int
  PROVE  IsFiniteSet({j \in 1 .. (i - 1) : t[j] = 0})
  <1>1. IsFiniteSet(1 .. (i - 1))
    BY FS_Interval
  <1>2. {j \in 1 .. (i - 1) : t[j] = 0} \in SUBSET (1 .. (i - 1))
    OBVIOUS
  <1>3. QED
    BY <1>1, <1>2, FS_Subset

LEMMA NullsBeforeNat ==
  ASSUME NEW t \in Seq(Byte), NEW i \in Int
  PROVE  /\ NullsBefore(t, i) \in Nat
         /\ i <= 1 => NullsBefore(t, i) = 0
  <1> DEFINE S == {j \in 1 .. (i - 1) : t[j] = 0}
  <1>1. IsFiniteSet(S)
    BY NullsFinite
  <1>2. i <= 1 => S = {}
    OBVIOUS
  <1> HIDE DEF S
  <1>3. Cardinality(S) \in Nat
    BY <1>1, FS_CardinalityType
  <1>4. i <= 1 => Cardinality(S) = 0
    BY <1>2, FS_EmptySet
  <1>5. QED
    BY <1>3, <1>4 DEF NullsBefore, S

(* A stretch i .. m - 1 of non-null bytes adds no null to the count.      *)
LEMMA NullsBeforeSame ==
  ASSUME NEW t \in Seq(Byte), NEW i \in Int, NEW m \in Int, 1 <= i, i <= m,
         \A j \in i .. (m - 1) : t[j] # 0
  PROVE  NullsBefore(t, m) = NullsBefore(t, i)
  <1>1. {j \in 1 .. (m - 1) : t[j] = 0} = {j \in 1 .. (i - 1) : t[j] = 0}
    OBVIOUS
  <1>2. QED
    BY <1>1 DEF NullsBefore

(* A null at position i adds one to the count.                             *)
LEMMA NullsBeforeStep ==
  ASSUME NEW t \in Seq(Byte), NEW i \in Int, 1 <= i, t[i] = 0
  PROVE  NullsBefore(t, i + 1) = NullsBefore(t, i) + 1
  <1> DEFINE S == {j \in 1 .. (i - 1) : t[j] = 0}
  <1>1. /\ NullsBefore(t, i + 1) = Cardinality(S \cup {i})
        /\ NullsBefore(t, i) = Cardinality(S)
    <2>1. {j \in 1 .. (i + 1 - 1) : t[j] = 0} = S \cup {i}
      OBVIOUS
    <2>2. NullsBefore(t, i + 1) = Cardinality({j \in 1 .. (i + 1 - 1) : t[j] = 0})
      BY DEF NullsBefore
    <2>3. NullsBefore(t, i) = Cardinality(S)
      BY DEF NullsBefore
    <2>4. QED
      BY <2>1, <2>2, <2>3, Zenon
  <1>2. IsFiniteSet(S) /\ i \notin S
    BY NullsFinite
  <1> HIDE DEF S
  <1>3. Cardinality(S \cup {i}) = Cardinality(S) + 1
    BY <1>2, FS_AddElement
  <1>4. QED
    BY <1>1, <1>3

(* A key starts only after an even number of nulls.                        *)
LEMMA KeyStartEven ==
  ASSUME NEW t \in Seq(Byte), NEW i \in Int, 1 <= i, KeyStart(t, i)
  PROVE  NullsBefore(t, i) % 2 = 0
  <1>1. CASE i = 1
    <2>1. NullsBefore(t, 1) = 0
      <3>1. {j \in 1 .. (1 - 1) : t[j] = 0} = {}
        OBVIOUS
      <3>2. QED
        BY <3>1, FS_EmptySet DEF NullsBefore
    <2>2. QED
      BY <1>1, <2>1
  <1>2. CASE i # 1
    BY <1>2 DEF KeyStart
  <1>3. QED
    BY <1>1, <1>2

(***************************************************************************)
(* What a scan of the parameter list decides.  The lemmas relate the       *)
(* positions where the loop of Match stands to IsParameterList, for any    *)
(* byte string t.                                                          *)
(***************************************************************************)

(* A list whose last byte is not a null is not a parameter list: the key  *)
(* or value read last has no terminator (lines 104-110).                   *)
LEMMA UnterminatedNotList ==
  ASSUME NEW t \in Seq(Byte), Len(t) >= 1, t[Len(t)] # 0
  PROVE  ~IsParameterList(t)
  BY DEF IsParameterList

(* A list that ends just after a key's null, i.e. with the value missing  *)
(* (line 274), is not a parameter list.                                    *)
LEMMA MissingValueNotList ==
  ASSUME NEW t \in Seq(Byte), Len(t) >= 2, t[Len(t) - 1] # 0
  PROVE  ~IsParameterList(t)
  BY DEF IsParameterList, KeyStart

(* A list that ends where a key would start, i.e. with no empty key to     *)
(* end it (line 238), is not a parameter list.                             *)
LEMMA NoTerminatorNotList ==
  ASSUME NEW t \in Seq(Byte), KeyStart(t, Len(t) + 1)
  PROVE  ~IsParameterList(t)
  <1> SUFFICES ASSUME IsParameterList(t) PROVE FALSE
    OBVIOUS
  <1> DEFINE n == Len(t)
  <1>1. n \in Nat /\ n >= 1 /\ t[n] = 0 /\ KeyStart(t, n)
    BY DEF IsParameterList
  <1>2. NullsBefore(t, n + 1) % 2 = 0
    BY <1>1 DEF KeyStart
  <1>3. NullsBefore(t, n) % 2 = 0
    BY <1>1, KeyStartEven
  <1>4. NullsBefore(t, n + 1) = NullsBefore(t, n) + 1
    BY <1>1, NullsBeforeStep
  <1>5. NullsBefore(t, n) \in Nat
    BY <1>1, NullsBeforeNat
  <1>6. QED
    BY <1>2, <1>3, <1>4, <1>5

(* An empty key at x, after complete pairs, ends a parameter list exactly  *)
(* when it is the last byte (lines 261-268).                               *)
LEMMA EmptyKeyDecides ==
  ASSUME NEW t \in Seq(Byte), NEW x \in 1 .. Len(t), t[x] = 0, KeyStart(t, x),
         \A i \in 1 .. (x - 1) : KeyStart(t, i) => t[i] # 0
  PROVE  IsParameterList(t) <=> x = Len(t)
  BY DEF IsParameterList

(* One key/value pair: a key starting at x, ended by the null at y, and a  *)
(* value ended by the null at z.  After it a key starts at z + 1, and no   *)
(* key up to z is empty (the body of the loop, lines 250-288).            *)
LEMMA PairStep ==
  ASSUME NEW t \in Seq(Byte), NEW x \in Int, NEW y \in Int, NEW z \in Int,
         1 <= x, x < y, y < z, z <= Len(t),
         KeyStart(t, x),
         \A i \in 1 .. (x - 1) : KeyStart(t, i) => t[i] # 0,
         \A j \in x .. (y - 1) : t[j] # 0,
         t[y] = 0,
         \A j \in (y + 1) .. (z - 1) : t[j] # 0,
         t[z] = 0
  PROVE  /\ KeyStart(t, z + 1)
         /\ \A i \in 1 .. z : KeyStart(t, i) => t[i] # 0
  <1>1. NullsBefore(t, x) \in Nat /\ NullsBefore(t, x) % 2 = 0
    BY KeyStartEven, NullsBeforeNat
  <1>2. NullsBefore(t, y) = NullsBefore(t, x)
    BY NullsBeforeSame
  <1>3. NullsBefore(t, y + 1) = NullsBefore(t, x) + 1
    BY <1>2, NullsBeforeStep
  <1>4. NullsBefore(t, z) = NullsBefore(t, y + 1)
    BY NullsBeforeSame
  <1>5. NullsBefore(t, z + 1) = NullsBefore(t, x) + 2
    <2>1. NullsBefore(t, z + 1) = NullsBefore(t, z) + 1
      <3>1. 1 <= z
        OBVIOUS
      <3>2. QED
        BY <3>1, NullsBeforeStep
    <2>2. QED
      BY <1>1, <1>3, <1>4, <2>1
  <1>6. KeyStart(t, z + 1)
    BY <1>1, <1>5 DEF KeyStart
  <1>7. ASSUME NEW w \in 1 .. z, KeyStart(t, w) PROVE t[w] # 0
    <2>1. CASE w < x
      BY <1>7, <2>1
    <2>2. CASE w = x
      BY <2>2
    <2>3. CASE w \in (x + 1) .. y \/ w \in (y + 2) .. z
      BY <1>7, <2>3 DEF KeyStart
    <2>4. CASE w = y + 1
      <3>1. NullsBefore(t, y + 1) % 2 = 0
        BY <1>7, <2>4 DEF KeyStart
      <3>2. QED
        BY <1>1, <1>3, <3>1, SMTT(30)
    <2>5. QED
      BY <2>1, <2>2, <2>3, <2>4
  <1>8. QED
    BY <1>6, <1>7

(***************************************************************************)
(* The invariant that carries the contract.  Before the loop it records    *)
(* what each check has established about the frame; in the loop, cursor    *)
(* offset o stands for byte o - 3 of the parameter list, where a key must  *)
(* start: the bytes before it are complete key/value pairs with non-empty  *)
(* keys.  At readValue the key just read starts at lastReadStringStartOffset *)
(* and is non-empty, and the null that ends it is just before the offset.  *)
(***************************************************************************)
(* Match has returned exactly when a result is set, and it is the         *)
(* contract's.                                                             *)
Decided ==
  /\ (pc = "done") = (result # "none")
  /\ result # "none" => result = Expected(stream)

(* What the checks before the loop established about the frame.          *)
FrameOK ==
  /\ pc \in Framed => AcceptedLength(HeaderLen)
  /\ pc \in {"readCode"} \cup Walk => msg.data = Pay /\ Len(stream.bytes) >= HeaderLen
  /\ pc = "readCode" => msg.offset = 0 /\ ~msg.err
  /\ pc \in Walk => ~msg.err /\ Len(Pay) >= MinStartupPayloadLength /\ Expected(stream) = Verdict

(* At the top of the loop and before a key, a key starts at the cursor.   *)
AtKey ==
  /\ pc \in {"loop", "readKey"} =>
       /\ msg.offset \in 4 .. Len(Pay)
       /\ KeyStart(Params, msg.offset - 3)
       /\ KeysNonEmpty(Params, msg.offset - 4)
  /\ pc = "readKey" => msg.offset < Len(Pay)

(* Before a value, a non-empty key was read from lastReadStringStartOffset *)
(* up to the null just before the cursor.                                  *)
AtValue ==
  pc = "readValue" =>
    LET k == msg.lastReadStringStartOffset
        o == msg.offset
    IN  /\ 4 <= k /\ k + 2 <= o /\ o <= Len(Pay)
        /\ KeyStart(Params, k - 3)
        /\ KeysNonEmpty(Params, k - 4)
        /\ \A j \in (k + 1) .. (o - 1) : Pay[j] # 0
        /\ Pay[o] = 0

CInv == IInv /\ Decided /\ FrameOK /\ AtKey /\ AtValue

-----------------------------------------------------------------------------
(* The length SubSeq gives the bytes after the version, at least 4 bytes in. *)
LEMMA TailLength ==
  ASSUME NEW a, NEW n \in Nat, n >= 4, a = IF 5 <= n THEN n - 5 + 1 ELSE 0
  PROVE  a = n - 4
  OBVIOUS

(* The bytes after the protocol version, indexed from 1.                   *)
LEMMA TailFacts ==
  ASSUME NEW p \in Seq(Byte), Len(p) >= 4
  PROVE  /\ SubSeq(p, 5, Len(p)) \in Seq(Byte)
         /\ Len(SubSeq(p, 5, Len(p))) = Len(p) - 4
         /\ \A i \in 1 .. (Len(p) - 4) : SubSeq(p, 5, Len(p))[i] = p[i + 4]
  <1>1. \A i \in 5 .. Len(p) : p[i] \in Byte
    OBVIOUS
  <1>2. /\ SubSeq(p, 5, Len(p)) \in Seq(Byte)
        /\ Len(SubSeq(p, 5, Len(p))) = IF 5 <= Len(p) THEN Len(p) - 5 + 1 ELSE 0
        /\ \A i \in 1 .. Len(p) - 5 + 1 : SubSeq(p, 5, Len(p))[i] = p[5 + i - 1]
    <2>1. 5 \in Int /\ Len(p) \in Int
      OBVIOUS
    <2>2. QED
      BY <1>1, <2>1, SubSeqProperties
  <1>3. Len(SubSeq(p, 5, Len(p))) = Len(p) - 4
    <2> DEFINE q == SubSeq(p, 5, Len(p))
    <2>1. Len(p) \in Nat /\ Len(p) >= 4
      OBVIOUS
    <2>2. Len(q) = IF 5 <= Len(p) THEN Len(p) - 5 + 1 ELSE 0
      BY <1>2
    <2> HIDE DEF q
    <2>3. Len(q) = Len(p) - 4
      BY <2>1, <2>2, TailLength, Zenon
    <2>4. QED
      BY <2>3, Zenon DEF q
  <1>4. \A i \in 1 .. (Len(p) - 4) : SubSeq(p, 5, Len(p))[i] = p[i + 4]
    <2> SUFFICES ASSUME NEW i \in 1 .. (Len(p) - 4) PROVE SubSeq(p, 5, Len(p))[i] = p[i + 4]
      OBVIOUS
    <2>1. i \in 1 .. Len(p) - 5 + 1 /\ 5 + i - 1 = i + 4
      OBVIOUS
    <2>2. QED
      BY <1>2, <2>1
  <1>5. QED
    BY <1>2, <1>3, <1>4

(* In the loop the cursor runs over the payload Expected looks at, with no *)
(* error, and the decision left is whether the bytes form a parameter list. *)
LEMMA WalkFacts ==
  ASSUME CInv, pc \in Walk
  PROVE  /\ msg \in MessageType /\ msg.offset <= Len(msg.data)
         /\ msg.lastReadStringStartOffset <= msg.offset
         /\ msg.data = Pay /\ Pay \in Seq(Byte) /\ Len(Pay) >= 5 /\ ~msg.err
         /\ Params \in Seq(Byte) /\ Len(Params) = Len(Pay) - 4
         /\ \A i \in 1 .. Len(Params) : Params[i] = Pay[i + 4]
         /\ Expected(stream) = Verdict
  <1>1. /\ msg \in MessageType /\ msg.offset <= Len(msg.data)
        /\ msg.lastReadStringStartOffset <= msg.offset
    BY DEF CInv, IInv, CursorOK
  <1>2. msg.data = Pay /\ Len(Pay) >= 5 /\ ~msg.err /\ Expected(stream) = Verdict
    BY DEF CInv, FrameOK, Walk, MinStartupPayloadLength
  <1>3. Pay \in Seq(Byte)
    BY <1>1, <1>2 DEF MessageType
  <1> HIDE DEF Pay
  <1>4. QED
    BY <1>1, <1>2, <1>3, TailFacts DEF Params

(* A step that keeps the stream keeps everything Expected looks at.       *)
LEMMA StreamFixed ==
  ASSUME stream' = stream
  PROVE  /\ Pay' = Pay /\ Params' = Params /\ Verdict' = Verdict
         /\ Expected(stream') = Expected(stream)
  BY DEF Pay, Params, Verdict, HeaderLen

(* A step that returns what the contract decides ends in a state of CInv.  *)
LEMMA ReturnExpected ==
  ASSUME IInv', pc' = "done", result' = Expected(stream'), result' # "none"
  PROVE  CInv'
  BY DEF CInv, Decided, FrameOK, AtKey, AtValue, Framed, Walk

(* Lines 237-249: the loop returns "nomatch" at the end of the payload,    *)
(* which holds no parameter list then, or goes on to read a key.          *)
LEMMA LoopHeadContract ==
  ASSUME CInv, LoopHead
  PROVE  CInv'
  <1>0. /\ pc = "loop" /\ result = "none"
        /\ UNCHANGED <<stream, pos, head, messageLen, payloadLen, msg, code>>
    BY DEF LoopHead, CInv, Decided
  <1>1. IInv'
    BY IInvStep DEF CInv, MatchNext
  <1>2. /\ msg.data = Pay /\ Pay \in Seq(Byte) /\ ~msg.err
        /\ Params \in Seq(Byte) /\ Len(Params) = Len(Pay) - 4
        /\ Expected(stream) = Verdict
    BY <1>0, WalkFacts DEF Walk
  <1>3. /\ msg.offset \in 4 .. Len(Pay)
        /\ KeyStart(Params, msg.offset - 3)
        /\ KeysNonEmpty(Params, msg.offset - 4)
    BY <1>0 DEF CInv, AtKey
  <1>4. CASE msg.offset = Len(Pay)
    <2>1. ~IsParameterList(Params)
      BY <1>2, <1>3, <1>4, NoTerminatorNotList
    <2>2. pc' = "done" /\ result' = "nomatch"
      BY <1>0, <1>2, <1>4 DEF LoopHead, Return
    <2>3. QED
      BY <1>0, <1>1, <1>2, <2>1, <2>2, ReturnExpected, SMTT(20) DEF Verdict
  <1>5. CASE msg.offset # Len(Pay)
    <2>1. pc' = "readKey" /\ result' = "none"
      BY <1>0, <1>2, <1>5 DEF LoopHead, Return
    <2>2. /\ Pay' = Pay /\ Params' = Params /\ Verdict' = Verdict
          /\ Expected(stream') = Expected(stream)
          /\ HeaderLen' = HeaderLen
      BY <1>0, <1>3, StreamFixed DEF HeaderLen
    <2>3. Decided'
      BY <2>1 DEF Decided
    <2>4. FrameOK'
      BY <1>0, <2>1, <2>2 DEF CInv, FrameOK, Walk, Framed
    <2>5. AtKey'
      BY <1>0, <1>3, <1>5, <2>1, <2>2 DEF AtKey
    <2>6. AtValue'
      BY <2>1 DEF AtValue
    <2>7. QED
      BY <1>1, <2>3, <2>4, <2>5, <2>6 DEF CInv
  <1>6. QED
    BY <1>4, <1>5

(* Lines 251-271: the key read is the list terminator exactly when the     *)
(* parameter list ends at it; a key without a null is no list; a non-empty *)
(* key leads to its value.                                                 *)
LEMMA ReadKeyContract ==
  ASSUME CInv, ReadKey
  PROVE  CInv'
  <1>0. /\ pc = "readKey" /\ result = "none"
        /\ msg' = ReadString(msg).msg
        /\ UNCHANGED <<stream, pos, head, messageLen, payloadLen, code>>
    BY DEF ReadKey, CInv, Decided
  <1>1. IInv'
    BY IInvStep DEF CInv, MatchNext
  <1>2. /\ msg \in MessageType
        /\ msg.data = Pay /\ Pay \in Seq(Byte) /\ ~msg.err
        /\ Params \in Seq(Byte) /\ Len(Params) = Len(Pay) - 4
        /\ \A i \in 1 .. Len(Params) : Params[i] = Pay[i + 4]
        /\ Expected(stream) = Verdict
    BY <1>0, WalkFacts DEF Walk
  <1>3. /\ msg.offset \in 4 .. Len(Pay) /\ msg.offset < Len(Pay)
        /\ KeyStart(Params, msg.offset - 3)
        /\ KeysNonEmpty(Params, msg.offset - 4)
    BY <1>0 DEF CInv, AtKey
  <1> DEFINE o == msg.offset
             e == NullScan(msg)
             b == ReadString(msg).msg
  <1>4. /\ e \in o .. Len(Pay)
        /\ \A j \in o .. (e - 1) : Pay[j + 1] # 0
        /\ b.data = Pay /\ b.lastReadStringStartOffset = o
        /\ e = Len(Pay) => b.err
        /\ e < Len(Pay) => ~b.err /\ b.offset = e + 1 /\ Pay[e + 1] = 0
    BY <1>2, <1>3, ReadStringScan
  <1>5. /\ Pay' = Pay /\ Params' = Params /\ Verdict' = Verdict
        /\ Expected(stream') = Expected(stream)
        /\ HeaderLen' = HeaderLen
    BY <1>0, <1>3, StreamFixed DEF HeaderLen
  <1> HIDE DEF e, b
  <1>6. CASE e = Len(Pay)
    <2>1. Params[Len(Params)] # 0 /\ Len(Params) >= 1
      <3>1. Len(Pay) - 1 \in o .. (e - 1)
        BY <1>3, <1>6
      <3>2. Pay[Len(Pay)] # 0
        BY <1>4, <3>1
      <3>3. QED
        BY <1>2, <1>3, <3>2
    <2>2. ~IsParameterList(Params)
      BY <1>2, <2>1, UnterminatedNotList
    <2>3. pc' = "done" /\ result' = "nomatch"
      BY <1>4, <1>6 DEF ReadKey, Return, b
    <2>4. QED
      BY <1>1, <1>2, <1>5, <2>2, <2>3, ReturnExpected DEF Verdict
  <1>7. CASE e = o /\ e < Len(Pay)
    <2>1. IsTerminatorRead(b)
      BY <1>3, <1>4, <1>7, SMTT(20) DEF IsTerminatorRead
    <2>2. pc' = "done" /\ result' = IF o + 1 = Len(Pay) THEN "match" ELSE "nomatch"
      BY <1>4, <1>7, <2>1 DEF ReadKey, Return, b
    <2>3. IsParameterList(Params) <=> o - 3 = Len(Params)
      <3>1. /\ o - 3 \in 1 .. Len(Params)
            /\ Params[o - 3] = 0
            /\ \A i \in 1 .. (o - 3 - 1) : KeyStart(Params, i) => Params[i] # 0
        BY <1>2, <1>3, <1>4, <1>7, SMTT(20) DEF KeysNonEmpty
      <3>2. QED
        BY <1>2, <1>3, <3>1, EmptyKeyDecides
    <2>4. result' = Expected(stream')
      <3>1. (o + 1 = Len(Pay)) = (o - 3 = Len(Params))
        BY <1>2, <1>3
      <3>2. CASE IsParameterList(Params)
        BY <1>2, <1>5, <2>2, <2>3, <3>1, <3>2, SMTT(20) DEF Verdict
      <3>3. CASE ~IsParameterList(Params)
        BY <1>2, <1>5, <2>2, <2>3, <3>1, <3>3, SMTT(20) DEF Verdict
      <3>4. QED
        BY <3>2, <3>3
    <2>5. QED
      BY <1>1, <2>2, <2>4, ReturnExpected, SMTT(20)
  <1>8. CASE e > o /\ e < Len(Pay)
    <2>1. ~IsTerminatorRead(b)
      BY <1>3, <1>4, <1>8, SMTT(20) DEF IsTerminatorRead
    <2>2. pc' = "readValue" /\ result' = "none" /\ msg' = b
      BY <1>0, <1>4, <1>8, <2>1, SMTT(20) DEF ReadKey, Return, b
    <2>3. Decided'
      BY <2>2 DEF Decided
    <2>4. FrameOK'
      BY <1>0, <1>2, <1>4, <1>5, <1>8, <2>2, SMTT(20) DEF CInv, FrameOK, Walk, Framed
    <2>5. AtKey'
      BY <2>2 DEF AtKey
    <2>6. AtValue'
      <3>1. \A j \in (o + 1) .. (e + 1 - 1) : Pay[j] # 0
        <4> SUFFICES ASSUME NEW j \in (o + 1) .. (e + 1 - 1) PROVE Pay[j] # 0
          OBVIOUS
        <4>1. j - 1 \in o .. (e - 1) /\ j - 1 + 1 = j
          BY <1>3, <1>4
        <4>2. QED
          BY <1>4, <4>1
      <3>2. QED
        BY <1>3, <1>4, <1>5, <1>8, <2>2, <3>1, SMTT(30) DEF AtValue
    <2>7. QED
      BY <1>1, <2>3, <2>4, <2>5, <2>6 DEF CInv
  <1>9. QED
    BY <1>3, <1>4, <1>6, <1>7, <1>8

(* Lines 273-288: a key with no value after it, or a value with no null,   *)
(* is no list; a complete pair brings the loop back to a key start.       *)
LEMMA ReadValueContract ==
  ASSUME CInv, ReadValue
  PROVE  CInv'
  <1>0. /\ pc = "readValue" /\ result = "none"
        /\ UNCHANGED <<stream, pos, head, messageLen, payloadLen, code>>
    BY DEF ReadValue, CInv, Decided
  <1>1. IInv'
    BY IInvStep DEF CInv, MatchNext
  <1>2. /\ msg \in MessageType
        /\ msg.data = Pay /\ Pay \in Seq(Byte) /\ ~msg.err
        /\ Params \in Seq(Byte) /\ Len(Params) = Len(Pay) - 4
        /\ \A i \in 1 .. Len(Params) : Params[i] = Pay[i + 4]
        /\ Expected(stream) = Verdict
    BY <1>0, WalkFacts DEF Walk
  <1> DEFINE k == msg.lastReadStringStartOffset
             o == msg.offset
  <1>3. /\ KeyStart(Params, k - 3)
        /\ KeysNonEmpty(Params, k - 4)
        /\ \A j \in (k + 1) .. (o - 1) : Pay[j] # 0
        /\ Pay[o] = 0
    BY <1>0 DEF CInv, AtValue
  <1>4. /\ k \in Int /\ o \in Int /\ Len(Pay) \in Nat /\ Len(Params) = Len(Pay) - 4
        /\ 4 <= k /\ k + 2 <= o /\ o <= Len(Pay)
    BY <1>0, <1>2 DEF CInv, AtValue, MessageType
  <1>5. /\ Pay' = Pay /\ Params' = Params /\ Verdict' = Verdict
        /\ Expected(stream') = Expected(stream)
        /\ HeaderLen' = HeaderLen
    BY <1>0, StreamFixed, SMTT(20) DEF HeaderLen
  <1>6. CASE o >= Len(Pay)
    <2>1. /\ Len(Params) >= 2
          /\ Len(Params) - 1 \in 1 .. Len(Params)
          /\ Len(Params) - 1 + 4 = o - 1
          /\ o - 1 \in (k + 1) .. (o - 1)
      BY <1>4, <1>6
    <2>2. Params[Len(Params) - 1] # 0
      BY <1>2, <1>3, <2>1
    <2>3. ~IsParameterList(Params)
      BY <1>2, <2>1, <2>2, MissingValueNotList
    <2>4. pc' = "done" /\ result' = "nomatch"
      BY <1>2, <1>4, <1>6 DEF ReadValue, Return
    <2>5. QED
      BY <1>1, <1>2, <1>5, <2>3, <2>4, ReturnExpected DEF Verdict
  <1> DEFINE f == NullScan(msg)
             b == ReadString(msg).msg
  <1>7. CASE o < Len(Pay)
    <2>0. ~msg.err /\ msg.offset < Len(msg.data)
      BY <1>2, <1>7
    <2>1. /\ f \in o .. Len(Pay)
          /\ \A j \in o .. (f - 1) : Pay[j + 1] # 0
          /\ b.data = Pay
          /\ f = Len(Pay) => b.err
          /\ f < Len(Pay) => ~b.err /\ b.offset = f + 1 /\ Pay[f + 1] = 0
      BY <1>2, <2>0, ReadStringScan
    <2>2. msg' = b
      BY <1>2, <1>4, <2>0, SMTT(20) DEF ReadValue
    <2> HIDE DEF f, b
    <2>3. CASE f = Len(Pay)
      <3>1. /\ Len(Params) >= 1 /\ Len(Params) + 4 = Len(Pay)
            /\ Len(Pay) - 1 \in o .. (f - 1)
        BY <1>4, <1>7, <2>1, <2>3
      <3>2. Params[Len(Params)] # 0
        BY <1>2, <2>1, <3>1
      <3>3. ~IsParameterList(Params)
        BY <1>2, <3>1, <3>2, UnterminatedNotList
      <3>4. pc' = "done" /\ result' = "nomatch"
        BY <2>0, <2>1, <2>3, SMTT(20) DEF ReadValue, Return, b
      <3>5. QED
        BY <1>1, <1>2, <1>5, <3>3, <3>4, ReturnExpected DEF Verdict
    <2>4. CASE f < Len(Pay)
      <3>0. ~b.err /\ b.offset = f + 1 /\ Pay[f + 1] = 0 /\ f \in o .. Len(Pay)
        BY <2>1, <2>4
      <3>1. pc' = "loop" /\ result' = "none"
        BY <1>0, <1>2, <1>4, <2>0, <3>0, SMTT(20) DEF ReadValue, Return, b
      <3> DEFINE x == k - 3
                 y == o - 4
                 z == f - 3
      <3>2. /\ KeyStart(Params, z + 1)
            /\ \A i \in 1 .. z : KeyStart(Params, i) => Params[i] # 0
        <4>1. /\ x \in Int /\ y \in Int /\ z \in Int
              /\ 1 <= x /\ x < y /\ y < z /\ z <= Len(Params)
          <5>1. f \in Int /\ o <= f /\ f < Len(Pay)
            BY <2>4, <3>0
          <5>2. QED
            BY <1>4, <5>1, SMTT(20)
        <4>2. /\ KeyStart(Params, x)
              /\ \A i \in 1 .. (x - 1) : KeyStart(Params, i) => Params[i] # 0
          BY <1>3, <1>4 DEF KeysNonEmpty
        <4>3. \A j \in x .. (y - 1) : Params[j] # 0
          <5> SUFFICES ASSUME NEW j \in x .. (y - 1) PROVE Params[j] # 0
            OBVIOUS
          <5>1. j \in 1 .. Len(Params) /\ j + 4 \in (k + 1) .. (o - 1)
            BY <1>4, <4>1, SMTT(60)
          <5>2. QED
            BY <1>2, <1>3, <5>1
        <4>4. Params[y] = 0
          <5>1. y \in 1 .. Len(Params) /\ y + 4 = o
            BY <1>4, <4>1, SMTT(20)
          <5>2. QED
            BY <1>2, <1>3, <5>1
        <4>5. \A j \in (y + 1) .. (z - 1) : Params[j] # 0
          <5> SUFFICES ASSUME NEW j \in (y + 1) .. (z - 1) PROVE Params[j] # 0
            OBVIOUS
          <5>1. j \in 1 .. Len(Params) /\ j + 3 \in o .. (f - 1) /\ j + 3 + 1 = j + 4
            BY <1>4, <3>0, <4>1, SMTT(60)
          <5>2. QED
            BY <1>2, <2>1, <5>1
        <4>6. Params[z] = 0
          <5>1. z \in 1 .. Len(Params) /\ z + 4 = f + 1
            BY <1>4, <3>0, <4>1, SMTT(20)
          <5>2. QED
            BY <1>2, <3>0, <5>1
        <4>7. Params \in Seq(Byte)
          BY <1>2
        <4> HIDE DEF x, y, z
        <4>8. QED
          BY <4>1, <4>2, <4>3, <4>4, <4>5, <4>6, <4>7, PairStep, SMTT(20)
      <3>3. Decided'
        BY <3>1 DEF Decided
      <3>4. FrameOK'
        <4>1. /\ ~msg'.err /\ msg'.data = Pay
              /\ Len(stream.bytes) >= HeaderLen /\ AcceptedLength(HeaderLen)
              /\ Len(Pay) >= MinStartupPayloadLength
          BY <1>0, <2>1, <2>2, <3>0 DEF CInv, FrameOK, Walk, Framed
        <4>2. QED
          BY <1>0, <1>2, <1>5, <3>1, <4>1 DEF FrameOK, Walk, Framed
      <3>5. AtKey'
        <4>1. /\ b.offset \in 4 .. Len(Pay)
              /\ b.offset - 3 = z + 1 /\ b.offset - 4 = z
          BY <1>4, <2>4, <3>0
        <4>2. QED
          BY <1>5, <2>2, <3>1, <3>2, <4>1, SMTT(20) DEF AtKey, KeysNonEmpty
      <3>6. AtValue'
        BY <3>1 DEF AtValue
      <3>7. QED
        BY <1>1, <3>3, <3>4, <3>5, <3>6 DEF CInv
    <2>5. QED
      BY <2>1, <2>3, <2>4
  <1>8. QED
    BY <1>4, <1>6, <1>7, SMTT(20)

-----------------------------------------------------------------------------
(* What Expected decides for a stream that ends before the frame does.     *)
Cut == IF stream.fin = "ERR" THEN "error" ELSE "nomatch"

(* io.ReadFull short of size bytes fails with the transport error exactly  *)
(* when the connection ended with one, and with io.EOF or                  *)
(* io.ErrUnexpectedEOF otherwise.                                          *)
LEMMA ShortRead ==
  ASSUME NEW s, s.bytes \in Seq(Byte), NEW p \in Nat, NEW size \in Nat,
         Len(s.bytes) - p < size
  PROVE  /\ ReadFull(s, p, size).err # "nil"
         /\ ReadFull(s, p, size).err = "ERR" <=> s.fin = "ERR"
         /\ ReadFull(s, p, size).err \in EOFErrors <=> s.fin # "ERR"
  BY DEF ReadFull, EOFErrors

(* The parts of CInv about a state before the loop hold vacuously in       *)
(* the blocks that precede the frame checks.                               *)
LEMMA Unframed ==
  ASSUME IInv', pc' \in {"parseLength", "readPayload"}, result' = "none",
         pc' = "readPayload" => AcceptedLength(HeaderLen')
  PROVE  CInv'
  BY DEF CInv, Decided, FrameOK, AtKey, AtValue, Framed, Walk

(* Lines 140-158: a stream too short for the header is a non-match, or     *)
(* the transport's error; otherwise Match goes on to the length.           *)
LEMMA ReadHeaderContract ==
  ASSUME CInv, ReadHeader
  PROVE  CInv'
  <1> DEFINE rf == ReadFull(stream, pos, InitMessageSizeLength)
  <1>0. /\ pc = "readHeader" /\ pos = 0 /\ result = "none"
        /\ stream' = stream
        /\ stream.bytes \in Seq(Byte) /\ Len(stream.bytes) \in Nat
    BY DEF ReadHeader, CInv, Decided, IInv, MatchTypeOK, StreamType
  <1>1. IInv'
    BY IInvStep DEF CInv, MatchNext
  <1>2. CASE Len(stream.bytes) >= 4
    <2>1. rf.err = "nil"
      BY <1>0, <1>2 DEF ReadFull, InitMessageSizeLength
    <2>2. pc' = "parseLength" /\ result' = "none"
      BY <1>0, <2>1 DEF ReadHeader, Return, EOFErrors
    <2>3. QED
      BY <1>1, <2>2, Unframed, SMTT(20)
  <1>3. CASE Len(stream.bytes) < 4
    <2>1. /\ rf.err # "nil"
          /\ rf.err = "ERR" <=> stream.fin = "ERR"
          /\ rf.err \in EOFErrors <=> stream.fin # "ERR"
      BY <1>0, <1>3, ShortRead DEF InitMessageSizeLength
    <2>2. pc' = "done" /\ result' = Cut
      BY <1>0, <2>1 DEF ReadHeader, Return, Cut
    <2>3. Expected(stream) = Cut
      BY <1>3 DEF Expected, Cut, InitMessageSizeLength
    <2>4. QED
      BY <1>0, <1>1, <2>2, <2>3, ReturnExpected, SMTT(20) DEF Cut
  <1>4. QED
    BY <1>0, <1>2, <1>3

(* Lines 160-183: a declared length outside the accepted bounds is a       *)
(* non-match; otherwise Match reads the payload.                           *)
LEMMA ParseLengthContract ==
  ASSUME CInv, ParseLength
  PROVE  CInv'
  <1> USE DEF InitMessageSizeLength, MinMessageLength
  <1>m. MaxStartupPayloadSize \in Nat
    BY DEF MaxStartupPayloadSize
  <1>0. /\ pc = "parseLength" /\ result = "none"
        /\ stream' = stream
        /\ messageLen' = HeaderLen /\ HeaderLen \in Nat
        /\ Len(stream.bytes) >= InitMessageSizeLength
    <2>1. /\ pc = "parseLength" /\ result = "none" /\ stream' = stream
          /\ pos = InitMessageSizeLength /\ head = SubSeq(stream.bytes, 1, 4)
          /\ stream.bytes \in Seq(Byte) /\ pos \in 0 .. Len(stream.bytes)
      BY DEF ParseLength, CInv, Decided, IInv, MatchTypeOK, StreamType
    <2>2. head \in Seq(Byte) /\ Len(head) = 4
      BY <2>1, SubSeqProperties DEF InitMessageSizeLength
    <2>3. BigEndianUint32(head) \in Nat
      <3>1. Len(head) >= 4
        BY <2>2
      <3>2. QED
        BY <2>2, <3>1, BigEndianNat, Zenon
    <2>4. QED
      BY <2>1, <2>3 DEF ParseLength, HeaderLen
  <1>1. IInv'
    BY IInvStep DEF CInv, MatchNext
  <1>2. HeaderLen' = HeaderLen
    BY <1>0 DEF HeaderLen
  <1>3. CASE AcceptedLength(HeaderLen)
    <2>1. pc' = "readPayload" /\ result' = "none"
      BY <1>m, <1>0, <1>3 DEF ParseLength, Return, AcceptedLength
    <2>2. QED
      BY <1>1, <1>2, <1>3, <2>1, Unframed, SMTT(20)
  <1>4. CASE ~AcceptedLength(HeaderLen)
    <2>1. pc' = "done" /\ result' = "nomatch"
      <3>1. CASE HeaderLen < MinMessageLength
        BY <1>0, <3>1 DEF ParseLength, Return
      <3>2. CASE HeaderLen >= MinMessageLength
        <4>1. HeaderLen - InitMessageSizeLength > MaxStartupPayloadSize
          BY <1>m, <1>0, <1>4, <3>2 DEF AcceptedLength
        <4>2. payloadLen' = HeaderLen - InitMessageSizeLength
          BY <1>0, <3>2 DEF ParseLength
        <4>3. payloadLen' \in Int /\ payloadLen' > MaxStartupPayloadSize
          <5>1. HeaderLen \in Nat
            BY <1>0
          <5>2. QED
            BY <4>1, <4>2, <5>1
        <4>5. ~(payloadLen' \in 1 .. MaxStartupPayloadSize)
          BY <1>m, <4>3
        <4>4. QED
          BY <1>0, <3>2, <4>3, <4>5, SMTT(20) DEF ParseLength, Return
      <3>3. QED
        BY <3>1, <3>2, <1>0 DEF MinMessageLength
    <2>2. Expected(stream) = "nomatch"
      BY <1>0, <1>4 DEF Expected, HeaderLen, InitMessageSizeLength
    <2>3. QED
      BY <1>0, <1>1, <2>1, <2>2, ReturnExpected, SMTT(20)
  <1>5. QED
    BY <1>3, <1>4

(* Lines 184-201: a stream that ends inside the declared frame is cut      *)
(* short, as Expected says; a complete frame becomes the cursor over the   *)
(* payload Expected looks at.                                              *)
LEMMA ReadPayloadContract ==
  ASSUME CInv, ReadPayload
  PROVE  CInv'
  <1> DEFINE rf == ReadFull(stream, pos, payloadLen)
  <1>0. /\ pc = "readPayload" /\ result = "none" /\ stream' = stream
        /\ pos = 4 /\ payloadLen \in Nat /\ payloadLen + 4 = HeaderLen
        /\ AcceptedLength(HeaderLen)
        /\ stream.bytes \in Seq(Byte) /\ Len(stream.bytes) >= 4
    BY DEF ReadPayload, CInv, Decided, FrameOK, IInv, MatchTypeOK, StreamType,
       Framed, InitMessageSizeLength
  <1>1. IInv'
    BY IInvStep DEF CInv, MatchNext
  <1>2. HeaderLen' = HeaderLen /\ Pay' = Pay
    BY <1>0 DEF HeaderLen, Pay
  <1>3. CASE Len(stream.bytes) - 4 >= payloadLen
    <2>1. rf.err = "nil" /\ rf.data = Pay
      BY <1>0, <1>3 DEF ReadFull, Pay
    <2>2. /\ pc' = "readCode" /\ result' = "none"
          /\ msg' = NewMessageFromBytes(rf.data)
      BY <1>0, <2>1 DEF ReadPayload, Return, EOFErrors
    <2>3. /\ msg'.data = Pay /\ msg'.offset = 0 /\ ~msg'.err
          /\ Len(stream.bytes) >= HeaderLen
      BY <1>0, <1>3, <2>1, <2>2, SMTT(20) DEF NewMessageFromBytes
    <2>4. Decided'
      BY <2>2 DEF Decided
    <2>5. FrameOK'
      BY <1>0, <1>2, <2>2, <2>3, SMTT(20) DEF FrameOK, Framed, Walk
    <2>6. AtKey' /\ AtValue'
      BY <2>2 DEF AtKey, AtValue
    <2>7. QED
      BY <1>1, <2>4, <2>5, <2>6, SMTT(20) DEF CInv
  <1>4. CASE Len(stream.bytes) - 4 < payloadLen
    <2>1. /\ rf.err # "nil"
          /\ rf.err = "ERR" <=> stream.fin = "ERR"
          /\ rf.err \in EOFErrors <=> stream.fin # "ERR"
      BY <1>0, <1>4, ShortRead, SMTT(20)
    <2>2. pc' = "done" /\ result' = Cut
      BY <1>0, <2>1 DEF ReadPayload, Return, Cut
    <2>3. Expected(stream) = Cut
      BY <1>0, <1>4 DEF Expected, Cut, HeaderLen, InitMessageSizeLength
    <2>4. QED
      BY <1>0, <1>1, <2>2, <2>3, ReturnExpected, SMTT(20) DEF Cut
  <1>5. QED
    BY <1>0, <1>3, <1>4, SMTT(20)

(* The code word read from the first four bytes of a payload.             *)
LEMMA CodeWord ==
  ASSUME NEW p \in Seq(Byte), Len(p) >= 4
  PROVE  BigEndianUint32(SubSeq(p, 1, 4)) = BigEndianUint32(p)
  BY DEF BigEndianUint32

(* An empty list of bytes is no parameter list.                            *)
LEMMA EmptyNotList ==
  ASSUME NEW t \in Seq(Byte), Len(t) = 0
  PROVE  ~IsParameterList(t)
  BY DEF IsParameterList

(* Lines 203-235: the code word decides an SSLRequest, an old protocol     *)
(* version or a payload too short for a parameter list as Expected does;   *)
(* a v3+ code word leaves the decision to the parameter list, at byte 1.   *)
LEMMA ReadCodeContract ==
  ASSUME CInv, ReadCode
  PROVE  CInv'
  <1> DEFINE rd == ReadUint32(msg)
             w  == BigEndianUint32(SubSeq(Pay, 1, 4))
  <1>0. /\ pc = "readCode" /\ result = "none" /\ stream' = stream
        /\ msg \in MessageType /\ msg.data = Pay /\ msg.offset = 0 /\ ~msg.err
        /\ stream.bytes \in Seq(Byte) /\ Len(stream.bytes) >= HeaderLen
        /\ Len(stream.bytes) >= 4
        /\ AcceptedLength(HeaderLen) /\ payloadLen + 4 = HeaderLen
        /\ payloadLen \in Nat
    BY DEF ReadCode, CInv, Decided, FrameOK, IInv, MatchTypeOK, StreamType,
       Framed, InitMessageSizeLength
  <1>m. MaxStartupPayloadSize \in Nat
    BY DEF MaxStartupPayloadSize
  <1>1. IInv'
    BY IInvStep DEF CInv, MatchNext
  <1>2. /\ Pay \in Seq(Byte) /\ Len(Pay) = payloadLen /\ payloadLen >= 4
    BY <1>0, <1>m, SMTT(30) DEF Pay, AcceptedLength, MinMessageLength, InitMessageSizeLength
  <1>3. /\ ~rd.msg.err /\ rd.r = w
        /\ rd.msg = [msg EXCEPT !.offset = 4]
    BY <1>0, <1>2 DEF ReadUint32
  <1>4. Expected(stream) = IF IsSSLRequest(Pay) \/ IsStartupMessage(Pay)
                           THEN "match" ELSE "nomatch"
    BY <1>0 DEF Expected, Pay, HeaderLen, InitMessageSizeLength
  <1>5. IsSSLRequest(Pay) <=> (w = SSLRequestCode /\ payloadLen = 4)
    BY <1>2, CodeWord DEF IsSSLRequest
  <1>6. IsStartupMessage(Pay) <=> (w \div 2^16 >= 3 /\ IsParameterList(Params))
    BY <1>2 DEF IsStartupMessage, Params
  <1>7. /\ Params \in Seq(Byte) /\ Len(Params) = payloadLen - 4
    BY <1>2, TailFacts DEF Params
  <1>8. /\ Pay' = Pay /\ Params' = Params /\ Verdict' = Verdict
        /\ Expected(stream') = Expected(stream)
        /\ HeaderLen' = HeaderLen
    BY <1>0, StreamFixed DEF HeaderLen
  <1>w. w \in Nat /\ w \div 2^16 \in Int
    <2>1. w = BigEndianUint32(Pay)
      BY <1>2, CodeWord
    <2>3. BigEndianUint32(Pay) \in Nat
      BY <1>0, <1>2, BigEndianNat
    <2> HIDE DEF w
    <2>4. w \in Nat
      BY <2>1, <2>3
    <2>5. QED
      BY <2>4
  <1>a. /\ msg' = rd.msg
        /\ \/ /\ ~rd.msg.err /\ rd.r = SSLRequestCode /\ payloadLen = 4
              /\ Return("match")
           \/ /\ rd.msg.err \/ (~(rd.r = SSLRequestCode /\ payloadLen = 4)
                              /\ (rd.r \div 2^16 < 3 \/ payloadLen < MinStartupPayloadLength))
              /\ Return("nomatch")
           \/ /\ ~rd.msg.err /\ ~(rd.r = SSLRequestCode /\ payloadLen = 4)
              /\ rd.r \div 2^16 >= 3 /\ payloadLen >= MinStartupPayloadLength
              /\ pc' = "loop"
              /\ UNCHANGED result
    BY Zenon DEF ReadCode, rd
  <1> HIDE DEF rd, w
  <1>9. CASE w = SSLRequestCode /\ payloadLen = 4
    <2>1. pc' = "done" /\ result' = "match"
      BY <1>3, <1>a, <1>w, <1>9 DEF Return, MinStartupPayloadLength
    <2>2. Expected(stream) = "match"
      BY <1>4, <1>5, <1>9
    <2>3. QED
      BY <1>1, <1>8, <2>1, <2>2, ReturnExpected, SMTT(20)
  <1>10. CASE ~(w = SSLRequestCode /\ payloadLen = 4)
              /\ (w \div 2^16 < 3 \/ payloadLen < MinStartupPayloadLength)
    <2>1. pc' = "done" /\ result' = "nomatch"
      <3>1. ~(w \div 2^16 >= 3 /\ payloadLen >= MinStartupPayloadLength)
        BY <1>0, <1>w, <1>10 DEF MinStartupPayloadLength
      <3>2. QED
        BY <1>3, <1>a, <1>10, <3>1, Zenon DEF Return
    <2>2. ~IsStartupMessage(Pay)
      <3>1. CASE w \div 2^16 < 3
        BY <1>6, <1>w, <3>1
      <3>2. CASE payloadLen < MinStartupPayloadLength
        <4>1. Len(Params) = 0
          BY <1>2, <1>7, <3>2 DEF MinStartupPayloadLength
        <4>2. QED
          BY <1>6, <1>7, <4>1, EmptyNotList
      <3>3. QED
        BY <1>10, <3>1, <3>2
    <2>3. Expected(stream) = "nomatch"
      BY <1>4, <1>5, <1>10, <2>2
    <2>4. QED
      BY <1>1, <1>8, <2>1, <2>3, ReturnExpected
  <1>11. CASE ~(w = SSLRequestCode /\ payloadLen = 4)
              /\ w \div 2^16 >= 3 /\ payloadLen >= MinStartupPayloadLength
    <2>1. /\ pc' = "loop" /\ result' = "none"
          /\ msg' = [msg EXCEPT !.offset = 4]
      <3>1. ~(w \div 2^16 < 3 \/ payloadLen < MinStartupPayloadLength)
        BY <1>0, <1>w, <1>11 DEF MinStartupPayloadLength
      <3>2. QED
        BY <1>0, <1>3, <1>a, <1>11, <3>1, Zenon DEF Return
    <2>2. Expected(stream) = Verdict
      <3>1. CASE IsParameterList(Params)
        BY <1>4, <1>5, <1>6, <1>11, <3>1, SMTT(20) DEF Verdict
      <3>2. CASE ~IsParameterList(Params)
        BY <1>4, <1>5, <1>6, <1>11, <3>2, SMTT(20) DEF Verdict
      <3>3. QED
        BY <3>1, <3>2
    <2>3. Decided'
      BY <2>1 DEF Decided
    <2>4. FrameOK'
      BY <1>0, <1>2, <1>8, <1>11, <2>1, <2>2, SMTT(20) DEF FrameOK, Walk, Framed
    <2>5. AtKey'
      <3>1. KeyStart(Params, 1) /\ KeysNonEmpty(Params, 0)
        BY DEF KeyStart, KeysNonEmpty
      <3>2. 4 \in 4 .. Len(Pay)
        BY <1>2, <1>11 DEF MinStartupPayloadLength
      <3>3. QED
        BY <1>8, <2>1, <3>1, <3>2, SMTT(20) DEF AtKey
    <2>6. AtValue'
      BY <2>1 DEF AtValue
    <2>7. QED
      BY <1>1, <2>3, <2>4, <2>5, <2>6 DEF CInv
  <1>12. \/ w = SSLRequestCode /\ payloadLen = 4
         \/ ~(w = SSLRequestCode /\ payloadLen = 4)
            /\ (w \div 2^16 < 3 \/ payloadLen < MinStartupPayloadLength)
         \/ ~(w = SSLRequestCode /\ payloadLen = 4)
            /\ w \div 2^16 >= 3 /\ payloadLen >= MinStartupPayloadLength
    BY <1>0, <1>w DEF MinStartupPayloadLength
  <1>13. QED
    BY <1>9, <1>10, <1>11, <1>12, SMTT(20)

(* Once it has returned Match takes no further step, and no step of it     *)
(* touches the client's bytes.                                             *)
LEMMA StepShape ==
  ASSUME [MatchNext]_matchVars
  PROVE  /\ stream' = stream
         /\ pc = "done" => UNCHANGED matchVars
  <1>1. CASE ReadHeader \/ ParseLength \/ ReadPayload \/ ReadCode
    BY <1>1, SMTT(20) DEF ReadHeader, ParseLength, ReadPayload, ReadCode
  <1>2. CASE LoopHead \/ ReadKey \/ ReadValue
    BY <1>2 DEF LoopHead, ReadKey, ReadValue
  <1>3. CASE Returned \/ UNCHANGED matchVars
    BY <1>3 DEF Returned, matchVars
  <1>4. QED
    BY <1>1, <1>2, <1>3, SMTT(20) DEF MatchNext

(* The contract's invariant holds in the initial state.                    *)
LEMMA ContractInit == MatchInit => CInv
  <1> SUFFICES ASSUME MatchInit PROVE CInv
    OBVIOUS
  <1>1. IInv
    BY IInvInit
  <1>2. pc = "readHeader" /\ result = "none"
    BY DEF MatchInit
  <1>3. QED
    BY <1>1, <1>2 DEF CInv, Decided, FrameOK, AtKey, AtValue, Framed, Walk

(* Every step of Match keeps the contract's invariant.                     *)
LEMMA ContractStep == CInv /\ [MatchNext]_matchVars => CInv'
  <1> SUFFICES ASSUME CInv, [MatchNext]_matchVars PROVE CInv'
    OBVIOUS
  <1>1. CASE ReadHeader
    BY <1>1, ReadHeaderContract
  <1>2. CASE ParseLength
    BY <1>2, ParseLengthContract, SMTT(20)
  <1>3. CASE ReadPayload
    BY <1>3, ReadPayloadContract
  <1>4. CASE ReadCode
    BY <1>4, ReadCodeContract
  <1>5. CASE LoopHead
    BY <1>5, LoopHeadContract
  <1>6. CASE ReadKey
    BY <1>6, ReadKeyContract
  <1>7. CASE ReadValue
    BY <1>7, ReadValueContract
  <1>8. CASE Returned \/ UNCHANGED matchVars
    <2>1. UNCHANGED matchVars
      BY <1>8 DEF Returned
    <2>2. IInv'
      BY IInvStep DEF CInv
    <2>3. /\ UNCHANGED <<stream, pc, msg, result>>
          /\ Pay' = Pay /\ Params' = Params /\ Verdict' = Verdict
          /\ Expected(stream') = Expected(stream) /\ HeaderLen' = HeaderLen
      BY <2>1, StreamFixed, SMTT(20) DEF matchVars, HeaderLen
    <2>4. Decided' /\ FrameOK' /\ AtKey' /\ AtValue'
      BY <2>3 DEF CInv, Decided, FrameOK, AtKey, AtValue
    <2>5. QED
      BY <2>2, <2>4 DEF CInv
  <1>9. QED
    BY <1>1, <1>2, <1>3, <1>4, <1>5, <1>6, <1>7, <1>8, SMTT(20) DEF MatchNext

(* In every reachable state of Match, a result is set exactly when it has  *)
(* returned, and it is Expected(stream), the contract's decision.          *)
THEOREM ContractInvariant == MatchSpec => []CInv
  BY ContractInit, ContractStep, PTL DEF MatchSpec

(* The contract, instantiated in PgMatch, decides with the same Expected.  *)
LEMMA ContractExpected ==
  ASSUME NEW s
  PROVE  Contract!Expected(s) = Expected(s)
  <1>1. \A t, i : Contract!NullsBefore(t, i) = NullsBefore(t, i)
    BY DEF Contract!NullsBefore, NullsBefore, Contract!Cardinality, Cardinality
  <1>2. \A t, i : Contract!KeyStart(t, i) = KeyStart(t, i)
    BY <1>1 DEF Contract!KeyStart, KeyStart
  <1>3. \A t : Contract!IsParameterList(t) = IsParameterList(t)
    BY <1>2 DEF Contract!IsParameterList, IsParameterList
  <1>4. \A t : Contract!BigEndianUint32(t) = BigEndianUint32(t)
    BY DEF Contract!BigEndianUint32, BigEndianUint32
  <1>5. /\ \A t : Contract!IsSSLRequest(t) = IsSSLRequest(t)
        /\ \A t : Contract!IsStartupMessage(t) = IsStartupMessage(t)
        /\ \A l : Contract!AcceptedLength(l) = AcceptedLength(l)
    BY <1>3, <1>4 DEF Contract!IsSSLRequest, IsSSLRequest,
       Contract!IsStartupMessage, IsStartupMessage, Contract!AcceptedLength,
       AcceptedLength, Contract!SSLRequestCode, SSLRequestCode,
       Contract!MinMessageLength, MinMessageLength,
       Contract!InitMessageSizeLength, InitMessageSizeLength,
       Contract!MaxStartupPayloadSize, MaxStartupPayloadSize
  <1>6. QED
    BY <1>4, <1>5 DEF Contract!Expected, Expected,
       Contract!InitMessageSizeLength, InitMessageSizeLength

(* A step of Match seen through the contract: it leaves the stream and the *)
(* result alone, or it sets the result, once, to Expected(stream).         *)
LEMMA DecideStep ==
  ASSUME CInv, CInv', [MatchNext]_matchVars
  PROVE  [Contract!Decide]_Contract!absVars
  <1>1. stream' = stream /\ (pc = "done" => UNCHANGED matchVars)
    BY StepShape
  <1>2. CASE result = "none" /\ result' = "none"
    BY <1>1, <1>2 DEF Contract!absVars
  <1>3. CASE result = "none" /\ result' # "none"
    <2>1. result' = Expected(stream)
      BY <1>1, <1>3 DEF CInv, Decided
    <2>2. QED
      BY <1>1, <1>3, <2>1, ContractExpected, SMTT(20) DEF Contract!Decide
  <1>4. CASE result # "none"
    <2>1. pc = "done"
      BY <1>4 DEF CInv, Decided
    <2>2. QED
      BY <1>1, <2>1 DEF matchVars, Contract!absVars
  <1>5. QED
    BY <1>2, <1>3, <1>4, SMTT(20)

(* Match implements the safety part of its contract PgMatchSpec: it       *)
(* starts undecided on a client stream of Streams, and every step it takes *)
(* is a step of the contract or leaves the contract's state unchanged, so  *)
(* whatever Match returns, at most once, is Expected on the client's bytes. *)
THEOREM MatchRefinesContractSafety == MatchSpec => ContractSafety
  <1>1. MatchInit => Contract!Init
    BY DEF MatchInit, Contract!Init
  <1>2. CInv /\ CInv' /\ [MatchNext]_matchVars => [Contract!Decide]_Contract!absVars
    BY DecideStep
  <1>3. QED
    BY <1>1, <1>2, ContractInvariant, PTL DEF MatchSpec, ContractSafety

=============================================================================
