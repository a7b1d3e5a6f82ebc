------------------------------ MODULE PgStartup ------------------------------
(***************************************************************************)
(* The startup frames a Postgres matcher is to recognise, and the decision *)
(* MatchPostgres.Match promises on a client's bytes (doc comment of        *)
(* part_000, lines 136-138): "match" for a complete SSLRequest or v3+      *)
(* StartupMessage frame, "error" only when the transport failed while      *)
(* bytes of a frame it would accept were still expected, and "nomatch"     *)
(* otherwise.  Stated over the bytes, without the parse the code does.     *)
(***************************************************************************)
EXTENDS PgWire

(***************************************************************************)
(* The parameter list of a StartupMessage, as a grammar over the bytes t   *)
(* after the protocol version: (key \0 value \0)* \0 with non-empty keys.  *)
(* Stated by positions rather than by a parse: the null bytes split t into *)
(* strings, the strings at even places are keys, and the list ends with    *)
(* the first empty key, which must be the last byte.                       *)
(***************************************************************************)
NullsBefore(t, i) == Cardinality({j \in 1 .. (i - 1) : t[j] = 0})

KeyStart(t, i) == i = 1 \/ (t[i - 1] = 0 /\ NullsBefore(t, i) % 2 = 0)

IsParameterList(t) ==
  /\ Len(t) >= 1
  /\ t[Len(t)] = 0
  /\ KeyStart(t, Len(t))
  /\ \A i \in 1 .. (Len(t) - 1) : KeyStart(t, i) => t[i] # 0

(* An SSLRequest payload: exactly the 4-byte request code.                 *)
IsSSLRequest(p) == Len(p) = 4 /\ BigEndianUint32(p) = SSLRequestCode

(* A StartupMessage payload: major version at least 3, then a parameter    *)
(* list.                                                                   *)
IsStartupMessage(p) ==
  /\ Len(p) >= 4
  /\ BigEndianUint32(SubSeq(p, 1, 4)) \div 2^16 >= 3
  /\ IsParameterList(SubSeq(p, 5, Len(p)))

(* The frame lengths the matcher accepts: at least a length field and a    *)
(* code, and at most the payload bound.                                    *)
AcceptedLength(l) ==
  l >= MinMessageLength /\ l - InitMessageSizeLength <= MaxStartupPayloadSize

(* The decision on stream s.                                               *)
Expected(s) ==
  LET b == s.bytes
      l == BigEndianUint32(SubSeq(b, 1, 4))
      p == SubSeq(b, 5, l)
      cut == IF s.fin = "ERR" THEN "error" ELSE "nomatch"
  IN  IF Len(b) < InitMessageSizeLength THEN cut
      ELSE IF ~AcceptedLength(l) THEN "nomatch"
      ELSE IF Len(b) < l THEN cut
      ELSE IF IsSSLRequest(p) \/ IsStartupMessage(p) THEN "match"
      ELSE "nomatch"

=============================================================================
