------------------------------ MODULE PgCursor ------------------------------
(***************************************************************************)
(* The cursor of the strict matcher on its own: a message built over any   *)
(* payload of Payloads, on which ReadUint32 and ReadString may be called   *)
(* in any order and any number of times.  Match calls them in one order    *)
(* only; checking every order shows the properties of the cursor are its   *)
(* own and not an accident of that order.                                  *)
(***************************************************************************)
EXTENDS PgMessage

CONSTANT Payloads   \* the buffers a cursor may be built over

ASSUME PayloadsAssumption == Payloads \subseteq Seq(Byte)

VARIABLES
  msg,         \* the message struct: data, offset, err (err # nil) and lastReadStringStartOffset
  lastString,  \* the string the last ReadString returned, as its bytes
  lastOp       \* which primitive was called last: "none", "uint32" or "string"

vars == <<msg, lastString, lastOp>>

Init ==
  /\ msg \in {NewMessageFromBytes(d) : d \in Payloads}
  /\ lastString = <<>>
  /\ lastOp = "none"

CallReadUint32 ==
  /\ msg' = ReadUint32(msg).msg
  /\ lastOp' = "uint32"
  /\ UNCHANGED lastString

CallReadString ==
  /\ msg' = ReadString(msg).msg
  /\ lastString' = ReadString(msg).r
  /\ lastOp' = "string"

Next == CallReadUint32 \/ CallReadString

Spec == Init /\ [][Next]_vars

-----------------------------------------------------------------------------
(* The type of the cursor, with its offsets read as what they are in Go:  *)
(* indexes into data.  No read leaves the cursor past the end of its      *)
(* buffer (the not-found branch of ReadString, line 110, stops at         *)
(* len(data)), and the recorded start of the last string is never ahead   *)
(* of the cursor, so the slices data[offset:] and data[offset-1] that the *)
(* matcher takes stay in range for every payload.                         *)
TypeOK ==
  /\ msg \in MessageType
  /\ msg.offset <= Len(msg.data)
  /\ msg.lastReadStringStartOffset <= msg.offset
  /\ lastString \in Seq(Byte)
  /\ lastOp \in {"none", "uint32", "string"}

(* The terminator test of line 261 is exact: a ReadString that starts      *)
(* inside the buffer and succeeds returned the empty string if and only if *)
(* IsTerminatorRead holds afterwards.  Match relies on this to tell the    *)
(* list terminator from a key.                                             *)
TerminatorDetection ==
  [][ (lastOp' = "string" /\ ~msg.err /\ msg.offset < Len(msg.data) /\ ~msg'.err)
        => (lastString' = <<>> <=> IsTerminatorRead(msg')) ]_vars

=============================================================================
