----------------------------- MODULE PgMatchSpec -----------------------------
(***************************************************************************)
(* What MatchPostgres.Match promises (doc comment of part_000, lines       *)
(* 136-138, and the wire format it accepts): in one step it decides, from  *)
(* the bytes the client sent, whether the connection starts with a         *)
(* Postgres SSLRequest or a v3+ StartupMessage.  It answers "match"        *)
(* (true, nil), "nomatch" (false, nil) or "error" (false, err), the last   *)
(* only when the transport failed while bytes of a frame it would accept   *)
(* were still expected.  The detailed models PgMatch and PgMatchLegacy are *)
(* checked against this specification.                                     *)
(***************************************************************************)
EXTENDS PgStartup

VARIABLES stream, result

absVars == <<stream, result>>

Results == {"none", "match", "nomatch", "error"}

Init == stream \in Streams /\ result = "none"

Decide ==
  /\ result = "none"
  /\ result' = Expected(stream)
  /\ UNCHANGED stream

Spec == Init /\ [][Decide]_absVars /\ WF_absVars(Decide)

=============================================================================
