--------------------------- MODULE MCPgMatchLegacy ---------------------------
(***************************************************************************)
(* Instances of the matcher of matcher.go.  MCPoolStreams: a few inputs,   *)
(* one for each way Match can end (match with parameters, exact SSLRequest *)
(* code, no parameters, protocol 2.0, truncated header, declared length 0  *)
(* that wraps, a 1-byte payload, a key with no null), for two connections  *)
(* racing on two pooled buffers.  MCLegacyStreams: the inputs of MCPgMatch *)
(* plus the lengths below 8 that the strict matcher rejects early.         *)
(***************************************************************************)
EXTENDS PgMatchLegacy, PgInputs, PgTests


Frame(l, body) == [bytes |-> EncodeUint32(l) \o body, fin |-> "EOF"]

MCPoolStreams ==
  { Frame(13, Version3Word \o <<120, 0, 120, 0, 0>>),
    Frame(8, SSLRequestWord),
    Frame(9, Version3Word \o <<0>>),
    Frame(10, Version2Word \o <<120, 0>>),
    Frame(5, <<0>>),
    Frame(0, <<>>),
    Frame(9, Version3Word \o <<120>>),
    [bytes |-> <<0, 0>>, fin |-> "EOF"] }

MCLegacyHeaderLens == {0, 3, 4, 5, 7, 8, 9, 10, 11, 12, 13, 16389, 1195725856}

MCLegacyStreams ==
  FramedStreams(MCLegacyHeaderLens, {SSLRequestWord, Version3Word, Version2Word}, 4)
    \cup ShortStreams

(* The inputs of the unit-test table, read through the test's connection. *)
MCLegacyTestStreams == { TestStream(r[2]) : r \in TestRuns }

(* TestMatchPostgres, which sits in the same file, passes on this Match:   *)
(* whenever Match returns on a test input, without a panic or an abort, it *)
(* reports an error exactly when the case wants one and a match exactly    *)
(* when the case wants one (the check of lines 355-367).                   *)
LegacyPassesTests ==
  \A c \in Conns :
    pc[c] = "done" =>
      \A r \in TestRuns :
        TestStream(r[2]) = stream[c] =>
          /\ result[c] \in {"match", "nomatch", "error"}
          /\ TestPasses(r[1], result[c] = "match", result[c] = "error")
=============================================================================
