------------------------------- MODULE PgWire -------------------------------
(***************************************************************************)
(* Vocabulary shared by the models of the l4postgres matcher: the bytes a  *)
(* client sends on a fresh connection, the matcher's constants, the        *)
(* big-endian decoding it applies and the io.ReadFull calls it makes.      *)
(*                                                                         *)
(* Offsets are 0-based as in Go; the Go expression data[i] is data[i + 1]  *)
(* on a TLA+ sequence.                                                     *)
(***************************************************************************)
EXTENDS Integers, Sequences, FiniteSets

CONSTANT Streams   \* the client inputs considered: bytes sent, then how the connection ends

Byte == 0 .. 255

(* After its last byte a connection reports io.EOF, or a transport error.  *)
Fins == {"EOF", "ERR"}

StreamType == [bytes : Seq(Byte), fin : Fins]

ASSUME StreamsAssumption ==
  /\ Streams # {}
  /\ \A s \in Streams : /\ s = [bytes |-> s.bytes, fin |-> s.fin]
                        /\ s.bytes \in Seq(Byte)
                        /\ s.fin \in Fins

(* The constants of the matcher (part_000, lines 34-45).                   *)
SSLRequestCode == 80877103
InitMessageSizeLength == 4
MinMessageLength == 8
MinStartupPayloadLength == 5
MaxStartupPayloadSize == 16 * 1024

(* binary.BigEndian.Uint32 of a 4-byte slice.                              *)
BigEndianUint32(s) == ((s[1] * 256 + s[2]) * 256 + s[3]) * 256 + s[4]

(* The errors io.ReadFull reports when the stream ends cleanly too early.  *)
EOFErrors == {"EOF", "UnexpectedEOF"}

(***************************************************************************)
(* io.ReadFull(cx, buf) with len(buf) = size, after pos bytes of the       *)
(* stream were consumed: it succeeds when size bytes are there; otherwise  *)
(* it consumes what is left and reports io.EOF (nothing read),             *)
(* io.ErrUnexpectedEOF (some read) or the transport error.                 *)
(***************************************************************************)
ReadFull(s, pos, size) ==
  LET avail == Len(s.bytes) - pos
  IN  IF avail >= size
        THEN [n |-> size, data |-> SubSeq(s.bytes, pos + 1, pos + size), err |-> "nil"]
        ELSE [n |-> avail, data |-> SubSeq(s.bytes, pos + 1, Len(s.bytes)),
              err |-> IF s.fin = "ERR" THEN "ERR"
                      ELSE IF avail = 0 THEN "EOF" ELSE "UnexpectedEOF"]

=============================================================================
