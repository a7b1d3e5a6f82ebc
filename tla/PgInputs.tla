------------------------------ MODULE PgInputs ------------------------------
(***************************************************************************)
(* Small sets of client inputs for the model-checking runs.  A payload     *)
(* byte is abstracted to what the matcher tells apart: the protocol code   *)
(* word is one of a few 4-byte words, and the bytes after it are either a  *)
(* null (0) or a non-null character ('x' = 120).  The length header is the *)
(* big-endian encoding of a declared length chosen around every bound the  *)
(* code tests.                                                             *)
(***************************************************************************)
EXTENDS Integers, Sequences
LOCAL INSTANCE SequencesExt

(* binary.BigEndian.PutUint32 of a value below 2^32.                       *)
EncodeUint32(v) ==
  << (v \div 2^24) % 256, (v \div 2^16) % 256, (v \div 2^8) % 256, v % 256 >>

SSLRequestWord == EncodeUint32(80877103)   \* <<4, 210, 22, 47>>
Version3Word   == EncodeUint32(196608)     \* protocol 3.0
Version2Word   == EncodeUint32(131072)     \* protocol 2.0

(* The bytes of a parameter list: a null or a non-null character.          *)
TailBytes == {0, 120}

(* The byte strings over S of length at most n.                            *)
Strings(S, n) == BoundedSeq(S, n)

Tails(n) == Strings(TailBytes, n)

(* Every client input made of a header declaring one of HeaderLens, a code *)
(* word of Codes and a tail of at most MaxTail bytes, ending in either way, *)
(* plus the inputs too short to hold a header.                             *)
FramedStreams(HeaderLens, Codes, MaxTail) ==
  { [bytes |-> EncodeUint32(l) \o c \o t, fin |-> f] :
      l \in HeaderLens, c \in Codes, t \in Tails(MaxTail), f \in {"EOF", "ERR"} }

ShortStreams ==
  { [bytes |-> b, fin |-> f] : b \in BoundedSeq({0}, 3), f \in {"EOF", "ERR"} }

=============================================================================
