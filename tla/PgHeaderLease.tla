---------------------------- MODULE PgHeaderLease ----------------------------
(***************************************************************************)
(* What the header buffers of matcher.go (headerPool, lines 23-28, used by *)
(* Match at lines 67-75) must give the goroutines of Match: a lease.  A    *)
(* goroutine that holds no buffer takes one that nobody holds, from the    *)
(* pool or fresh, and gives it back to the pool; the runtime may drop a    *)
(* pooled buffer at any time.  Whatever a goroutine writes into its buffer *)
(* between taking and giving it back is then its own, which is what the    *)
(* decode of line 74 relies on.  PgMatchLegacy is shown to implement this  *)
(* specification, with the pool read as the set of buffers it holds.       *)
(***************************************************************************)
CONSTANTS
  Conns,    \* the goroutines of Match
  Buffers,  \* identities of header buffers
  NoBuf     \* holding no buffer

VARIABLES
  lease,    \* lease[c]: the buffer goroutine c holds, or NoBuf
  inPool    \* the buffers the pool can hand out again

leaseVars == <<lease, inPool>>

(* The buffers some goroutine holds.                                       *)
Leased == {lease[c] : c \in Conns} \ {NoBuf}

LeaseInit ==
  /\ lease = [c \in Conns |-> NoBuf]
  /\ inPool = {}

(* headerPool.Get: a goroutine with no buffer takes a buffer nobody holds; *)
(* it is no longer in the pool.                                            *)
Take(c, b) ==
  /\ lease[c] = NoBuf
  /\ b \notin Leased
  /\ lease' = [lease EXCEPT ![c] = b]
  /\ inPool' = inPool \ {b}

(* headerPool.Put: the goroutine gives its buffer back to the pool.        *)
GiveBack(c) ==
  /\ lease[c] # NoBuf
  /\ lease' = [lease EXCEPT ![c] = NoBuf]
  /\ inPool' = inPool \cup {lease[c]}

(* The runtime drops a pooled buffer.                                      *)
Drop(b) ==
  /\ b \in inPool
  /\ inPool' = inPool \ {b}
  /\ UNCHANGED lease

LeaseNext ==
  \/ \E c \in Conns : GiveBack(c) \/ \E b \in Buffers : Take(c, b)
  \/ \E b \in Buffers : Drop(b)

LeaseSpec == LeaseInit /\ [][LeaseNext]_leaseVars

=============================================================================
