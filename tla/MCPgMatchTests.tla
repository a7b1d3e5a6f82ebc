---------------------------- MODULE MCPgMatchTests ----------------------------
(***************************************************************************)
(* The strict matcher run on every input of the unit-test table of        *)
(* matcher.go (every order of a map's parameters), each read through the   *)
(* test's bytes.Reader connection.                                          *)
(***************************************************************************)
EXTENDS PgMatch, PgTests

MCTestStreams == { TestStream(r[2]) : r \in TestRuns }

(* TestMatchPostgres passes on the strict Match: whenever Match returns on *)
(* a test input, it reports an error exactly when the case wants one and a *)
(* match exactly when the case wants one (the check of lines 355-367).     *)
StrictPassesTests ==
  pc = "done" =>
    \A r \in TestRuns :
      TestStream(r[2]) = stream => TestPasses(r[1], result = "match", result = "error")

=============================================================================
