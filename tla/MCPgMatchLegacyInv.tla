------------------------- MODULE MCPgMatchLegacyInv -------------------------
(***************************************************************************)
(* The instance of run legacy_pool: three connections on three header     *)
(* buffers, so that a new buffer, a pooled one and a collected one can    *)
(* all be in play at once, with the inductive invariant LIInv of the      *)
(* proofs about the matcher of matcher.go.  Connections are               *)
(* interchangeable (each gets any stream of the set) and so are buffers    *)
(* (their identities are only compared), so permuting either is a         *)
(* symmetry of LegacySpec and of the invariants checked.                   *)
(***************************************************************************)
EXTENDS MCPgMatchLegacy, PgMatchLegacyProofs, TLC

MCSymmetry == Permutations(Conns) \cup Permutations(Buffers)

=============================================================================
