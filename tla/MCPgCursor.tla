----------------------------- MODULE MCPgCursor -----------------------------
(* Model of the cursor over every payload of at most six bytes drawn from  *)
(* a null, a non-null character and a protocol-version byte.            *)
EXTENDS PgCursor, PgInputs

MCStreams == {[bytes |-> <<>>, fin |-> "EOF"]}

MCPayloads == Strings({0, 3, 120}, 6)

=============================================================================
