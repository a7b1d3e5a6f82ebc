------------------------------- MODULE PgMatch -------------------------------
(***************************************************************************)
(* MatchPostgres.Match of the strict matcher (part_000, lines 139-291),    *)
(* one connection, step by step.  pc names the block of Match about to     *)
(* run; each action is one block, from one check of the code to the next,  *)
(* with every early return of the block as a disjunct that sets result and *)
(* pc = "done".  The client's bytes are fixed in the initial state; pos    *)
(* counts the bytes Match has consumed from the connection.                *)
(***************************************************************************)
EXTENDS PgMessage

VARIABLES
  stream,      \* what the client sent and how the connection ends
  pos,         \* bytes consumed from the connection
  pc,          \* the block of Match about to run
  head,        \* the length header as read (line 141)
  messageLen,  \* line 161
  payloadLen,  \* line 169
  msg,         \* the cursor b over the payload (line 201)
  code,        \* the first word of the payload (line 202)
  result       \* "none" until Match returns

matchVars == <<stream, pos, pc, head, messageLen, payloadLen, msg, code, result>>

Blocks == {"readHeader", "parseLength", "readPayload", "readCode",
           "loop", "readKey", "readValue", "done"}

Return(res) == pc' = "done" /\ result' = res

MatchInit ==
  /\ stream \in Streams
  /\ pos = 0
  /\ pc = "readHeader"
  /\ head = <<>>
  /\ messageLen = 0
  /\ payloadLen = 0
  /\ msg = NewMessageFromBytes(<<>>)
  /\ code = 0
  /\ result = "none"

(* Mutant of ReadHeader: every read error returned, io.EOF and            *)
(* io.ErrUnexpectedEOF included.                                           *)
ReadHeaderEOFError ==
  /\ pc = "readHeader"
  /\ LET rf == ReadFull(stream, pos, InitMessageSizeLength)
     IN  /\ pos' = pos + rf.n
         /\ head' = rf.data
         /\ \/ rf.err = "nil" /\ pc' = "parseLength" /\ UNCHANGED result
            \/ rf.err # "nil" /\ Return("error")
  /\ UNCHANGED <<stream, messageLen, payloadLen, msg, code>>

(* Lines 140-158: read the 4-byte length header; a short stream is a       *)
(* non-match, any other read error is returned.                            *)
ReadHeader ==
  /\ pc = "readHeader"
  /\ LET rf == ReadFull(stream, pos, InitMessageSizeLength)
     IN  /\ pos' = pos + rf.n
         /\ head' = rf.data
         /\ \/ rf.err = "nil" /\ pc' = "parseLength" /\ UNCHANGED result
            \/ rf.err \in EOFErrors /\ Return("nomatch")
            \/ rf.err = "ERR" /\ Return("error")
  /\ UNCHANGED <<stream, messageLen, payloadLen, msg, code>>

(* Lines 160-183: decode and bound the declared length.  payloadLen is     *)
(* computed only once messageLen >= 8, so the uint32 subtraction cannot    *)
(* wrap; the payloadLen = 0 test (line 179) can then never succeed.        *)
ParseLength ==
  /\ pc = "parseLength"
  /\ messageLen' = BigEndianUint32(head)
  /\ \/ /\ messageLen' < MinMessageLength
        /\ Return("nomatch")
        /\ UNCHANGED payloadLen
     \/ /\ messageLen' >= MinMessageLength
        /\ payloadLen' = messageLen' - InitMessageSizeLength
        /\ \/ /\ payloadLen' > MaxStartupPayloadSize \/ payloadLen' = 0
              /\ Return("nomatch")
           \/ /\ payloadLen' \in 1 .. MaxStartupPayloadSize
              /\ pc' = "readPayload"
              /\ UNCHANGED result
  /\ UNCHANGED <<stream, pos, head, msg, code>>

(* Mutant of ReadPayload: the payload buffer sized by messageLen, the      *)
(* length field not subtracted.                                            *)
ReadPayloadWholeMessage ==
  /\ pc = "readPayload"
  /\ LET rf == ReadFull(stream, pos, messageLen)
     IN  /\ pos' = pos + rf.n
         /\ \/ /\ rf.err = "nil"
               /\ msg' = NewMessageFromBytes(rf.data)
               /\ pc' = "readCode"
               /\ UNCHANGED result
            \/ rf.err \in EOFErrors /\ Return("nomatch") /\ UNCHANGED msg
            \/ rf.err = "ERR" /\ Return("error") /\ UNCHANGED msg
  /\ UNCHANGED <<stream, head, messageLen, payloadLen, code>>

(* Lines 184-201: read exactly payloadLen bytes and wrap them in a cursor; *)
(* a stream that ends early is a non-match, a transport error is returned. *)
ReadPayload ==
  /\ pc = "readPayload"
  /\ LET rf == ReadFull(stream, pos, payloadLen)
     IN  /\ pos' = pos + rf.n
         /\ \/ /\ rf.err = "nil"
               /\ msg' = NewMessageFromBytes(rf.data)
               /\ pc' = "readCode"
               /\ UNCHANGED result
            \/ rf.err \in EOFErrors /\ Return("nomatch") /\ UNCHANGED msg
            \/ rf.err = "ERR" /\ Return("error") /\ UNCHANGED msg
  /\ UNCHANGED <<stream, head, messageLen, payloadLen, code>>

(* Lines 202-231: read the code word; an exact SSLRequest matches, a       *)
(* protocol below 3.0 or a payload too short for a version and the list    *)
(* terminator does not, anything else goes on to the parameter list.      *)
ReadCode ==
  /\ pc = "readCode"
  /\ LET rd == ReadUint32(msg)
         sslRequest == rd.r = SSLRequestCode /\ payloadLen = 4
         majorVersion == rd.r \div 2^16
     IN  /\ msg' = rd.msg
         /\ code' = rd.r
         /\ \/ /\ ~rd.msg.err /\ sslRequest
               /\ Return("match")
            \/ /\ rd.msg.err \/ (~sslRequest /\ (majorVersion < 3 \/ payloadLen < MinStartupPayloadLength))
               /\ Return("nomatch")
            \/ /\ ~rd.msg.err /\ ~sslRequest
               /\ majorVersion >= 3 /\ payloadLen >= MinStartupPayloadLength
               /\ pc' = "loop"
               /\ UNCHANGED result
  /\ UNCHANGED <<stream, pos, head, messageLen, payloadLen>>

(* Lines 237-249: top of the parameter loop.                               *)
LoopHead ==
  /\ pc = "loop"
  /\ \/ /\ msg.err \/ msg.offset = Len(msg.data)
        /\ Return("nomatch")
     \/ /\ ~msg.err /\ msg.offset # Len(msg.data)
        /\ pc' = "readKey"
        /\ UNCHANGED result
  /\ UNCHANGED <<stream, pos, head, messageLen, payloadLen, msg, code>>

(* Mutant of ReadKey: the terminator accepted without checking that it is *)
(* the last byte (line 264 dropped).                                       *)
ReadKeyIgnoreTrailing ==
  /\ pc = "readKey"
  /\ LET b == ReadString(msg).msg
     IN  /\ msg' = b
         /\ \/ b.err /\ Return("nomatch")
            \/ ~b.err /\ IsTerminatorRead(b) /\ Return("match")
            \/ /\ ~b.err /\ ~IsTerminatorRead(b)
               /\ pc' = "readValue"
               /\ UNCHANGED result
  /\ UNCHANGED <<stream, pos, head, messageLen, payloadLen, code>>

(* Lines 251-271: read a key; the empty key is the list terminator, which  *)
(* must be the last byte of the payload.                                   *)
ReadKey ==
  /\ pc = "readKey"
  /\ LET b == ReadString(msg).msg
     IN  /\ msg' = b
         /\ \/ b.err /\ Return("nomatch")
            \/ /\ ~b.err /\ IsTerminatorRead(b)
               /\ Return(IF b.offset = Len(b.data) THEN "match" ELSE "nomatch")
            \/ /\ ~b.err /\ ~IsTerminatorRead(b)
               /\ pc' = "readValue"
               /\ UNCHANGED result
  /\ UNCHANGED <<stream, pos, head, messageLen, payloadLen, code>>

(* Lines 273-288: a key must be followed by a value string.                *)
ReadValue ==
  /\ pc = "readValue"
  /\ \/ /\ msg.err \/ msg.offset >= Len(msg.data)
        /\ Return("nomatch")
        /\ UNCHANGED msg
     \/ /\ ~msg.err /\ msg.offset < Len(msg.data)
        /\ LET b == ReadString(msg).msg
           IN  /\ msg' = b
               /\ \/ b.err /\ Return("nomatch")
                  \/ ~b.err /\ pc' = "loop" /\ UNCHANGED result
  /\ UNCHANGED <<stream, pos, head, messageLen, payloadLen, code>>

(* Match has returned; the connection is left to the routing layer.        *)
Returned == pc = "done" /\ UNCHANGED matchVars

MatchNext ==
  \/ ReadHeader \/ ParseLength \/ ReadPayload \/ ReadCode
  \/ LoopHead \/ ReadKey \/ ReadValue \/ Returned

(* Match runs on the connection's goroutine and every read it makes ends,  *)
(* with data, io.EOF or an error, so each enabled block eventually runs.   *)
MatchSpec == MatchInit /\ [][MatchNext]_matchVars /\ WF_matchVars(MatchNext)

-----------------------------------------------------------------------------
MatchTypeOK ==
  /\ stream \in StreamType
  /\ pos \in 0 .. Len(stream.bytes)
  /\ pc \in Blocks
  /\ head \in Seq(Byte)
  /\ messageLen \in Nat
  /\ payloadLen \in Nat
  /\ msg \in MessageType
  /\ code \in Nat
  /\ result \in {"none", "match", "nomatch", "error"}

(* Match refines its contract PgMatchSpec: it eventually returns, and what *)
(* it returns is the decision of the contract for the client's bytes.      *)
Contract == INSTANCE PgMatchSpec

ImplementsContract == Contract!Spec

(* The safety half of the contract: Match starts undecided and each of its *)
(* steps either leaves the stream and the result alone or sets the result, *)
(* once, to Expected on the client's bytes; an answer is never revised.     *)
ContractSafety == Contract!Init /\ [][Contract!Decide]_Contract!absVars

(* Match never consumes a byte beyond the frame the client declared: the   *)
(* bytes it read can be replayed to the next matcher without having        *)
(* swallowed the start of the client's next message.                       *)
ReadsWithinFrame ==
  pos > InitMessageSizeLength =>
    pos <= BigEndianUint32(SubSeq(stream.bytes, 1, 4))

(* The spec (4.3, step 2) promises that the SSLRequest code is only ever   *)
(* accepted as an exact 4-byte SSLRequest payload.                         *)
SSLCodeOnlyAsProbe ==
  (result = "match" /\ code = SSLRequestCode) => payloadLen = 4

=============================================================================
