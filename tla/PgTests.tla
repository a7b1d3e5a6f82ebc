------------------------------- MODULE PgTests -------------------------------
(***************************************************************************)
(* The unit tests appended to src/modules/l4postgres/matcher.go           *)
(* (l4postgres_test.go, lines 129-386): the builders of test inputs, the   *)
(* table of TestMatchPostgres, the mock connection the inputs are read     *)
(* through, and what the test loop accepts as a pass.                      *)
(*                                                                         *)
(* Data abstraction: a key, a value or a line of another protocol is a     *)
(* string of its length of the non-null character 'x' (120), as in the     *)
(* other models; only the nulls and the lengths reach the matcher.  The    *)
(* first 4 bytes of the other-protocol inputs are kept, since the matcher  *)
(* reads them as a length.  A Go map ranges in a random order, so a        *)
(* builder given a map returns the set of inputs over every order.         *)
(***************************************************************************)
EXTENDS PgWire, PgInputs
LOCAL INSTANCE SequencesExt

(* A string of n non-null characters.                                      *)
Text(n) == [i \in 1 .. n |-> 120]

(* The params map of a builder: a set of <<key, value>> pairs.              *)
Param(k, v) == <<Text(k), Text(v)>>

(* Lines 143-171: buildStartupMessage(version, params): the version word,  *)
(* key\0value\0 for each parameter in the map's range order, the final     *)
(* null, prefixed by the big-endian total length.                          *)
BuildStartupMessage(version, params) ==
  { LET pairs == [i \in DOMAIN order |-> order[i][1] \o <<0>> \o order[i][2] \o <<0>>]
        payload == EncodeUint32(version) \o FlattenSeq(pairs) \o <<0>>
    IN  EncodeUint32(Len(payload) + InitMessageSizeLength) \o payload
  : order \in SetToSeqs(params) }

(* Lines 173-182: buildSSLRequest(): length 8, then the SSLRequest code.    *)
BuildSSLRequest == EncodeUint32(8) \o EncodeUint32(SSLRequestCode)

(* A frame built by hand: the big-endian length of the payload plus 4,     *)
(* then the payload (lines 288-291, 306-309, 336-339).                     *)
HandFramed(payload) == EncodeUint32(Len(payload) + InitMessageSizeLength) \o payload

Case(name, inputs, wantMatch, wantErr) ==
  [name |-> name, inputs |-> inputs, wantMatch |-> wantMatch, wantErr |-> wantErr]

Version3 == 196608   \* 0x00030000
Version2 == 131072   \* 0x00020000

(* Lines 185-219: the cases that must match.                               *)
MatchingCases ==
  << Case("Valid SSLRequest", {BuildSSLRequest}, TRUE, FALSE),
     Case("Valid StartupMessage V3 (No Params)", BuildStartupMessage(Version3, {}), TRUE, FALSE),
     Case("Valid StartupMessage V3 (With Params)",
          BuildStartupMessage(Version3, {Param(4, 8), Param(8, 6)}), TRUE, FALSE),
     Case("Valid StartupMessage V3 (One Param)",
          BuildStartupMessage(Version3, {Param(15, 4)}), TRUE, FALSE) >>

(* Lines 221-267: short, mis-sized and unsupported frames.                 *)
FrameCases ==
  << Case("Too Short (EOF reading length)", {<<0, 0>>}, FALSE, FALSE),
     Case("Invalid Message Length (Too Small)", {<<0, 0, 0, 7>>}, FALSE, FALSE),
     Case("Zero Payload Length (Invalid)", {<<0, 0, 0, 4>>}, FALSE, FALSE),
     Case("Too Short (EOF reading payload)",
          { <<0, 0, 0, 10>> \o SubSeq(m, 5, 8) : m \in BuildStartupMessage(Version3, {}) },
          FALSE, FALSE),
     Case("Unsupported Protocol Version (V2)",
          BuildStartupMessage(Version2, {Param(4, 4)}), FALSE, FALSE),
     Case("SSLRequest Code but Wrong Length",
          {SubSeq(BuildSSLRequest, 1, 4) \o <<1, 2, 3, 4, 5>>}, FALSE, FALSE),
     Case("StartupMessage Payload Too Short", {<<0, 0, 0, 8, 0, 3, 0, 0>>}, FALSE, FALSE) >>

(* Lines 269-313: startup messages with a null missing.                    *)
MalformedCases ==
  << Case("Malformed Startup (Missing Final Null)",
          { SubSeq(m, 1, Len(m) - 1) : m \in BuildStartupMessage(Version3, {Param(4, 4)}) },
          FALSE, FALSE),
     Case("Malformed Startup (Missing Value Null)",
          {HandFramed(EncodeUint32(Version3) \o Text(4) \o <<0>> \o Text(4) \o <<0>>)},
          FALSE, FALSE),
     Case("Malformed Startup (Missing Key Null)",
          {HandFramed(EncodeUint32(Version3) \o Text(4) \o Text(4) \o <<0>> \o <<0>>)},
          FALSE, FALSE) >>

(* Lines 315-344: other protocols, and a length over the payload bound.    *)
OtherProtocolCases ==
  << Case("Other Protocol (HTTP GET)", {<<71, 69, 84, 32>> \o Text(33)}, FALSE, FALSE),
     Case("Other Protocol (SSH)", {<<83, 83, 72, 45>> \o Text(37)}, FALSE, FALSE),
     Case("Other Protocol (Random Bytes)",
          {<<222, 173, 190, 239, 202, 254, 186, 190>>}, FALSE, FALSE),
     Case("Declared Payload Too Large",
          {EncodeUint32(MaxStartupPayloadSize + 1 + InitMessageSizeLength)}, FALSE, FALSE) >>

TestCases == MatchingCases \o FrameCases \o MalformedCases \o OtherProtocolCases

(* Lines 373-377 and 348-351: the connection reads from a bytes.Reader     *)
(* over the input, which reports io.EOF at its end and never fails.        *)
TestStream(input) == [bytes |-> input, fin |-> "EOF"]

(* Lines 346-370: a case passes when Match returned an error exactly when  *)
(* one was wanted, and matched exactly when a match was wanted.            *)
TestPasses(tc, match, err) ==
  /\ err = tc.wantErr
  /\ match = tc.wantMatch

(* The inputs TLC can decode: its integers are signed 32-bit, so a length  *)
(* header of 2^31 or more (the "Random Bytes" case, 0xDEADBEEF) is left    *)
(* out; "HTTP GET", "SSH" and "Declared Payload Too Large" exercise the    *)
(* same branch, a length beyond the payload bound.                         *)
Decodable(input) == Len(input) < 4 \/ input[1] < 128

(* Each case of the table with an input it is run on.                      *)
TestRuns ==
  UNION { { <<TestCases[i], x>> : x \in {y \in TestCases[i].inputs : Decodable(y)} }
          : i \in DOMAIN TestCases }

=============================================================================
