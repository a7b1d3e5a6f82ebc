---------------------------- MODULE PgMatchLegacy ----------------------------
(***************************************************************************)
(* MatchPostgres.Match of src/modules/l4postgres/matcher.go (lines 23-108) *)
(* for a set of connections matched concurrently, each on its own          *)
(* goroutine, sharing the sync.Pool headerPool of 4-byte header buffers.   *)
(*                                                                         *)
(* sync.Pool: Get returns a pooled buffer or, at any time, a new one from  *)
(* New (zeroed); Put returns a buffer; the runtime may drop pooled buffers *)
(* at any garbage collection.  pool[b] counts how often b sits in the      *)
(* pool; a buffer neither pooled nor held is garbage, and its identity may *)
(* be reused by a later New.                                               *)
(*                                                                         *)
(* This matcher has no bounds checks: a slice or index expression out of   *)
(* range panics (result "panic"), and make() of a huge length may abort    *)
(* the process with an out-of-memory error (result "oom").                 *)
(*                                                                         *)
(* uint32 values: messageLength (line 74) is kept as the integer value of  *)
(* the subtraction; a negative d stands for d + 2^32 (TLC's integers stop  *)
(* below 2^31).  It is only compared with small bounds and used as the     *)
(* size of a read, and every size beyond the stream's length has the same  *)
(* outcome.                                                                *)
(***************************************************************************)
EXTENDS PgMessage, PgStartup

CONSTANTS
  Conns,    \* the connections being matched
  Buffers,  \* identities of header buffers
  NoBuf     \* a connection holding no buffer

ASSUME LegacyAssumption ==
  /\ Conns # {} /\ Buffers # {}
  /\ IsFiniteSet(Conns)
  /\ NoBuf \notin Buffers
  /\ Cardinality(Buffers) >= Cardinality(Conns)

VARIABLES
  stream,         \* stream[c]: what the client of c sent
  pos,            \* pos[c]: bytes consumed from c
  pc,             \* pc[c]: the step of Match c is about to run
  buf,            \* buf[c]: the header buffer c holds (headerPtr), or NoBuf
  pool,           \* pool[b]: how many times b is in headerPool
  content,        \* content[b]: the 4 bytes of buffer b
  messageLength,  \* messageLength[c]: line 74
  lmsg,           \* lmsg[c]: the message b of line 83, [data, offset]
  hasParam,       \* hasParam[c]: len(startup.Parameters) > 0
  result          \* result[c]: "none" until Match returns

legacyVars == <<stream, pos, pc, buf, pool, content, messageLength, lmsg, hasParam, result>>

Outcomes == {"none", "match", "nomatch", "error", "panic", "oom"}

Steps == {"get", "readHeader", "decode", "readPayload", "readCode",
          "readKey", "readValue", "done"}

(* Sizes make() may fail to allocate: 1 GiB and up, wrapped values included. *)
LargeAllocation(d) == d < 0 \/ d >= 2^30

(* The size of a read of d bytes, as a value TLC can hold.                  *)
ReadSize(d) == IF d >= 0 THEN d ELSE 2147483647

Holders(b) == {c \in Conns : buf[c] = b}

LegacyInit ==
  /\ stream \in [Conns -> Streams]
  /\ pos = [c \in Conns |-> 0]
  /\ pc = [c \in Conns |-> "get"]
  /\ buf = [c \in Conns |-> NoBuf]
  /\ pool = [b \in Buffers |-> 0]
  /\ content = [b \in Buffers |-> <<0, 0, 0, 0>>]
  /\ messageLength = [c \in Conns |-> 0]
  /\ lmsg = [c \in Conns |-> [data |-> <<>>, offset |-> 0]]
  /\ hasParam = [c \in Conns |-> FALSE]
  /\ result = [c \in Conns |-> "none"]

Finish(c, res) ==
  /\ pc' = [pc EXCEPT ![c] = "done"]
  /\ result' = [result EXCEPT ![c] = res]

Goto(c, step) ==
  /\ pc' = [pc EXCEPT ![c] = step]
  /\ UNCHANGED result

(* Mutant of GetHeader: a pooled buffer taken without checking the pool    *)
(* holds it.                                                               *)
GetHeaderUnchecked(c) ==
  /\ pc[c] = "get"
  /\ \E b \in Buffers :
       /\ \/ pool' = [pool EXCEPT ![b] = @ - 1] /\ UNCHANGED content
          \/ /\ pool[b] = 0 /\ Holders(b) = {}
             /\ content' = [content EXCEPT ![b] = <<0, 0, 0, 0>>]
             /\ UNCHANGED pool
       /\ buf' = [buf EXCEPT ![c] = b]
  /\ Goto(c, "readHeader")
  /\ UNCHANGED <<stream, pos, messageLength, lmsg, hasParam>>

(* Lines 67-69: headerPool.Get(): a pooled buffer, or a new zeroed one.    *)
GetHeader(c) ==
  /\ pc[c] = "get"
  /\ \E b \in Buffers :
       /\ \/ pool[b] > 0 /\ pool' = [pool EXCEPT ![b] = @ - 1] /\ UNCHANGED content
          \/ /\ pool[b] = 0 /\ Holders(b) = {}
             /\ content' = [content EXCEPT ![b] = <<0, 0, 0, 0>>]
             /\ UNCHANGED pool
       /\ buf' = [buf EXCEPT ![c] = b]
  /\ Goto(c, "readHeader")
  /\ UNCHANGED <<stream, pos, messageLength, lmsg, hasParam>>

(* The bytes of buffer b after io.ReadFull stored rf.data at its start.    *)
Overwrite(b, rf) == rf.data \o SubSeq(content[b], rf.n + 1, 4)

(* Mutant of ReadHeader: the return after the error path's Put is missing, *)
(* so the goroutine goes on with the buffer it gave back.                  *)
ReadHeaderNoReturn(c) ==
  /\ pc[c] = "readHeader"
  /\ LET b == buf[c]
         rf == ReadFull(stream[c], pos[c], InitMessageSizeLength)
     IN  /\ pos' = [pos EXCEPT ![c] = @ + rf.n]
         /\ content' = [content EXCEPT ![b] = Overwrite(b, rf)]
         /\ \/ rf.err = "nil" /\ UNCHANGED pool
            \/ rf.err # "nil" /\ pool' = [pool EXCEPT ![b] = @ + 1]
         /\ Goto(c, "decode")
  /\ UNCHANGED <<stream, buf, messageLength, lmsg, hasParam>>

(* Mutant of ReadHeader: the buffer is put back as soon as it is filled,   *)
(* before line 74 decodes it.                                              *)
ReadHeaderPutEarly(c) ==
  /\ pc[c] = "readHeader"
  /\ LET b == buf[c]
         rf == ReadFull(stream[c], pos[c], InitMessageSizeLength)
     IN  /\ pos' = [pos EXCEPT ![c] = @ + rf.n]
         /\ content' = [content EXCEPT ![b] = Overwrite(b, rf)]
         /\ pool' = [pool EXCEPT ![b] = @ + 1]
         /\ \/ /\ rf.err = "nil"
               /\ Goto(c, "decode")
               /\ UNCHANGED buf
            \/ /\ rf.err # "nil"
               /\ buf' = [buf EXCEPT ![c] = NoBuf]
               /\ Finish(c, "error")
  /\ UNCHANGED <<stream, messageLength, lmsg, hasParam>>

(* Lines 70-73: fill the header buffer; on any error, io.EOF included, put *)
(* it back and return the error.                                           *)
ReadHeader(c) ==
  /\ pc[c] = "readHeader"
  /\ LET b == buf[c]
         rf == ReadFull(stream[c], pos[c], InitMessageSizeLength)
     IN  /\ pos' = [pos EXCEPT ![c] = @ + rf.n]
         /\ content' = [content EXCEPT ![b] = Overwrite(b, rf)]
         /\ \/ /\ rf.err = "nil"
               /\ Goto(c, "decode")
               /\ UNCHANGED <<buf, pool>>
            \/ /\ rf.err # "nil"
               /\ pool' = [pool EXCEPT ![b] = @ + 1]
               /\ buf' = [buf EXCEPT ![c] = NoBuf]
               /\ Finish(c, "error")
  /\ UNCHANGED <<stream, messageLength, lmsg, hasParam>>

(* Lines 74-75: decode the length, subtract 4 in uint32, put the buffer    *)
(* back.                                                                   *)
DecodeHeader(c) ==
  /\ pc[c] = "decode"
  /\ LET b == buf[c]
     IN  /\ messageLength' = [messageLength EXCEPT ![c] =
                                BigEndianUint32(content[b]) - InitMessageSizeLength]
         /\ pool' = [pool EXCEPT ![b] = @ + 1]
         /\ buf' = [buf EXCEPT ![c] = NoBuf]
  /\ Goto(c, "readPayload")
  /\ UNCHANGED <<stream, pos, content, lmsg, hasParam>>

(* Lines 77-83: allocate messageLength bytes and fill them; any read error *)
(* is returned.                                                            *)
ReadPayload(c) ==
  /\ pc[c] = "readPayload"
  /\ LET d == messageLength[c]
         rf == ReadFull(stream[c], pos[c], ReadSize(d))
     IN  \/ /\ LargeAllocation(d)
            /\ Finish(c, "oom")
            /\ UNCHANGED <<pos, lmsg>>
         \/ /\ pos' = [pos EXCEPT ![c] = @ + rf.n]
            /\ \/ /\ rf.err = "nil"
                  /\ lmsg' = [lmsg EXCEPT ![c] = [data |-> rf.data, offset |-> 0]]
                  /\ Goto(c, "readCode")
               \/ /\ rf.err # "nil"
                  /\ Finish(c, "error")
                  /\ UNCHANGED lmsg
  /\ UNCHANGED <<stream, buf, pool, content, messageLength, hasParam>>

(* Lines 31-34: message of matcher.go: the payload and a uint32 offset,    *)
(* with no error state.                                                    *)
LegacyMessageType == [data : Seq(Byte), offset : Nat]

(***************************************************************************)
(* message.ReadUint32 of matcher.go (lines 36-40) on m: decode             *)
(* data[offset:offset+4] and advance offset by 4; the slice panics when    *)
(* fewer than 4 bytes are left.                                            *)
(***************************************************************************)
LegacyUint32Panics(m) == m.offset + 4 > Len(m.data)

LegacyReadUint32(m) ==
  [msg |-> [m EXCEPT !.offset = @ + 4],
   r   |-> BigEndianUint32(SubSeq(m.data, m.offset + 1, m.offset + 4))]

(* Lines 85-97: b.ReadUint32() slices data[0:4], which panics on a         *)
(* shorter payload; the SSLRequest code matches whatever follows it, a     *)
(* protocol below 3.0 is returned as an error.                             *)
ReadCode(c) ==
  /\ pc[c] = "readCode"
  /\ LET m == lmsg[c]
         code == LegacyReadUint32(m).r
     IN  \/ LegacyUint32Panics(m) /\ Finish(c, "panic") /\ UNCHANGED lmsg
         \/ /\ ~LegacyUint32Panics(m)
            /\ lmsg' = [lmsg EXCEPT ![c] = LegacyReadUint32(m).msg]
            /\ \/ code = SSLRequestCode /\ Finish(c, "match")
               \/ code # SSLRequestCode /\ code \div 2^16 < 3 /\ Finish(c, "error")
               \/ code # SSLRequestCode /\ code \div 2^16 >= 3 /\ Goto(c, "readKey")
  /\ UNCHANGED <<stream, pos, buf, pool, content, messageLength, hasParam>>

(***************************************************************************)
(* message.ReadString of matcher.go (lines 42-50) on m: scan from offset   *)
(* to a null or the end, return data[offset:end], set offset to end + 1.   *)
(* With offset past the end the scan indexes data[offset] and panics.      *)
(***************************************************************************)
LegacyStringPanics(m) == m.offset > Len(m.data)

LegacyStringEnd(m) == NullScan(m)

LegacyReadString(m) ==
  [msg |-> [m EXCEPT !.offset = LegacyStringEnd(m) + 1],
   r   |-> SubSeq(m.data, m.offset + 1, LegacyStringEnd(m))]

(* Lines 99-103 and 107: read a key; the empty key ends the loop, and      *)
(* Match reports a match when at least one parameter was stored.           *)
ReadKey(c) ==
  /\ pc[c] = "readKey"
  /\ \/ LegacyStringPanics(lmsg[c]) /\ Finish(c, "panic") /\ UNCHANGED lmsg
     \/ /\ ~LegacyStringPanics(lmsg[c])
        /\ LET rs == LegacyReadString(lmsg[c])
           IN  /\ lmsg' = [lmsg EXCEPT ![c] = rs.msg]
               /\ \/ rs.r = <<>> /\ Finish(c, IF hasParam[c] THEN "match" ELSE "nomatch")
                  \/ rs.r # <<>> /\ Goto(c, "readValue")
  /\ UNCHANGED <<stream, pos, buf, pool, content, messageLength, hasParam>>

(* Line 104: read the value and store the parameter.                       *)
ReadValue(c) ==
  /\ pc[c] = "readValue"
  /\ \/ /\ LegacyStringPanics(lmsg[c])
        /\ Finish(c, "panic")
        /\ UNCHANGED <<lmsg, hasParam>>
     \/ /\ ~LegacyStringPanics(lmsg[c])
        /\ lmsg' = [lmsg EXCEPT ![c] = LegacyReadString(lmsg[c]).msg]
        /\ hasParam' = [hasParam EXCEPT ![c] = TRUE]
        /\ Goto(c, "readKey")
  /\ UNCHANGED <<stream, pos, buf, pool, content, messageLength>>

(* The garbage collector drops a pooled buffer.                            *)
PoolDrop ==
  /\ \E b \in Buffers :
       /\ pool[b] > 0
       /\ pool' = [pool EXCEPT ![b] = @ - 1]
  /\ UNCHANGED <<stream, pos, pc, buf, content, messageLength, lmsg, hasParam, result>>

(* Every Match has returned.                                               *)
AllReturned ==
  /\ \A c \in Conns : pc[c] = "done"
  /\ UNCHANGED legacyVars

LegacyNext ==
  \/ \E c \in Conns :
       \/ GetHeader(c) \/ ReadHeader(c) \/ DecodeHeader(c) \/ ReadPayload(c)
       \/ ReadCode(c) \/ ReadKey(c) \/ ReadValue(c)
  \/ PoolDrop
  \/ AllReturned

LegacySpec == LegacyInit /\ [][LegacyNext]_legacyVars

-----------------------------------------------------------------------------
LegacyTypeOK ==
  /\ stream \in [Conns -> StreamType]
  /\ pos \in [Conns -> Nat]
  /\ pc \in [Conns -> Steps]
  /\ buf \in [Conns -> Buffers \cup {NoBuf}]
  /\ pool \in [Buffers -> Nat]
  /\ content \in [Buffers -> Seq(Byte)]
  /\ messageLength \in [Conns -> Int]
  /\ lmsg \in [Conns -> LegacyMessageType]
  /\ hasParam \in [Conns -> BOOLEAN]
  /\ result \in [Conns -> Outcomes]

(* headerPool hands a buffer to one goroutine at a time: a buffer is       *)
(* either in the pool (once) or held by one Match between Get and Put,     *)
(* never both, on every path of Match, the error path of line 71          *)
(* included.                                                               *)
BufferExclusive ==
  \A b \in Buffers : pool[b] + Cardinality(Holders(b)) <= 1

(* The length each Match decodes at line 74 comes from the 4 header bytes  *)
(* its own client sent, however the connections interleave on the shared   *)
(* pool.                                                                   *)
HeaderFromOwnRead ==
  \A c \in Conns :
    pc[c] \in {"readPayload", "readCode", "readKey", "readValue"} =>
      messageLength[c] = BigEndianUint32(SubSeq(stream[c].bytes, 1, 4)) - InitMessageSizeLength

(* A remote client cannot crash the process: Match never panics (the       *)
(* strict matcher's bounds checks, spec section 7).                       *)
NoPanic == \A c \in Conns : result[c] # "panic"

(* Match only matches what the spec's frames are (tests "Missing Final     *)
(* Null" and "Missing Key Null"; the strict matcher's comment at lines     *)
(* 215-216 of part_000 for the SSLRequest code).                           *)
NoFalseMatch ==
  \A c \in Conns : result[c] = "match" => Expected(stream[c]) = "match"

(* A stream that ends early is a non-match, not an error (tests "Too Short *)
(* (EOF reading length)", "Too Short (EOF reading payload)").              *)
PrematureEndNotError ==
  \A c \in Conns : result[c] = "error" => stream[c].fin = "ERR"

(* Match never allocates a payload buffer larger than the payload bound    *)
(* (spec 4.2, step 3: the bound prevents an attacker-declared size from    *)
(* causing an unbounded allocation).                                       *)
BoundedAllocation ==
  \A c \in Conns :
    pc[c] \notin {"get", "readHeader", "decode", "readPayload"} =>
      messageLength[c] \in 0 .. MaxStartupPayloadSize

(* The lease headerPool gives Match (PgHeaderLease), seen through this     *)
(* model: the buffer a goroutine holds is its lease, and a buffer is in    *)
(* the pool when pool counts it.                                           *)
HeaderLease == INSTANCE PgHeaderLease
                 WITH lease <- buf, inPool <- {b \in Buffers : pool[b] > 0}

(* The matcher uses headerPool as a lease, on every path of Match: each    *)
(* Get (lines 67-69) takes a buffer no other goroutine holds and each Put  *)
(* (lines 71 and 75) gives back the buffer of the goroutine that makes it. *)
ImplementsHeaderLease == HeaderLease!LeaseSpec

=============================================================================
