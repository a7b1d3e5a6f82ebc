# TLA+ models of the l4postgres matcher

This directory holds the formal models of the Postgres connection matcher of
caddy-l4. The matcher looks at the first bytes a client sends on a new
connection and decides whether they are the start of a Postgres session. The
layer4 router uses that decision to pick a handler.

The repository has two versions of `MatchPostgres.Match`:

* `src/unnamed/part_000` is the **strict matcher** (upstream caddy-l4). It has
  a length-checked cursor, bounds on the declared length, and a walk over the
  parameter list that never reads out of range.
* `src/modules/l4postgres/matcher.go` (lines 1-128) is the **legacy matcher**
  of this fork. It borrows its 4-byte header buffer from a `sync.Pool` and has
  unchecked cursor reads. Lines 129-386 of the same file are the unit tests
  (`l4postgres_test.go`), which target the strict matcher's behaviour.

## 1. The system

| Part | Code | What it does |
|---|---|---|
| Cursor | part_000 47-123 | `message`: `data`, `offset`, sticky `err`, `lastReadStringStartOffset`. `ReadUint32` reads a big-endian word. `ReadString` reads up to a null. Both are no-ops once `err` is set. |
| FrameReader | part_000 140-201 | Reads the 4-byte length and checks `8 <= length` and `length - 4 <= 16384`. It then reads exactly that payload with `io.ReadFull`. A premature EOF is a non-match; a transport error is returned. |
| StartupClassifier | part_000 202-290 | An exact 4-byte SSLRequest matches. A version below 3.0 or a payload shorter than 5 does not. Otherwise it walks `key\0value\0 ... \0`, and the final empty key must be the last byte. |
| Matcher façade | part_000 139 | Returns `(true, nil)`, `(false, nil)` or `(false, err)`. |
| Legacy matcher | matcher.go 23-108 | The same flow with these differences: the header buffer comes from the shared `headerPool`; there are no length checks; any read error is returned; the SSL code matches at any length; at least one parameter is required. |
| Unit tests | matcher.go 129-386 | `buildStartupMessage`, `buildSSLRequest`, the 18-case table of `TestMatchPostgres`, and `mockConn` over a `bytes.Reader`. The test loop passes when `err != nil` iff `wantErr` and `match == wantMatch`. |
| Registration, `CaddyModule`, `UnmarshalCaddyfile` | both files | Configuration glue with no state: `UnmarshalCaddyfile` only rejects arguments and blocks after the matcher name. **Not modelled.** |

How the parts interact:

* Each connection's `Match` runs on its own goroutine.
* In the strict matcher, nothing is shared between goroutines.
* In the legacy matcher, every goroutine shares `headerPool`. A buffer goes
  through Get (line 68), is filled by `io.ReadFull` (line 70), is put back on
  error (line 71) or after decoding (line 75), and may be dropped by the GC at
  any time.
* The client's bytes are the only input. The stream ends either in `io.EOF` or
  in a transport error.

## 2. Modules

| Module | Models | State / actions |
|---|---|---|
| `PgWire` | constants (part_000 34-45), `binary.BigEndian.Uint32`, `io.ReadFull` | Operators only. `ReadFull(s, pos, size)` returns `[n, data, err]` with `err` ∈ {nil, EOF, UnexpectedEOF, ERR}. |
| `PgMessage` | cursor (part_000 47-123) | `ReadUint32(b)` and `ReadString(b)` return `[msg, r]`: the message after the call and the result. Every early return of the Go code is one IF branch. `NullScan` is the loop of lines 99-102. |
| `PgCursor` | the cursor on its own | VARIABLES `msg`, `lastString`, `lastOp`. Actions `CallReadUint32` and `CallReadString`, in any order. |
| `PgStartup` | the frame grammar | `Expected(s)`: the decision the strict matcher promises on stream `s`, stated over byte positions without a parse. |
| `PgMatchSpec` | abstract matcher | VARIABLES `stream`, `result`. One action `Decide`, under weak fairness. |
| `PgMatch` | strict `Match` (part_000 139-291) | VARIABLES `stream, pos, pc, head, messageLen, payloadLen, msg, code, result`. One action per block between two checks of the code: `ReadHeader`, `ParseLength`, `ReadPayload`, `ReadCode`, `LoopHead`, `ReadKey`, `ReadValue`. Each early return is a disjunct that sets `result`. |
| `PgHeaderLease` | what Match needs from `headerPool` (matcher.go 23-28, 67-75) | VARIABLES `lease` (the buffer each goroutine holds) and `inPool`. Actions `Take(c, b)` (a Get takes a buffer nobody holds), `GiveBack(c)` (a Put returns the caller's buffer) and `Drop(b)` (the GC drops a pooled buffer). |
| `PgMatchLegacy` | legacy `Match` + `headerPool` | Per-connection functions `pos, pc, buf, messageLength, lmsg, hasParam, result`, plus the shared `pool` (multiplicity per buffer) and `content` (the bytes of each buffer). Actions: `GetHeader`, `ReadHeader`, `DecodeHeader`, `ReadPayload`, `ReadCode`, `ReadKey`, `ReadValue` per connection, and `PoolDrop` for the GC. Out-of-range accesses end in `"panic"`; a make() of 1 GiB or more may end in `"oom"`. |
| `PgTests` | the unit tests (matcher.go 143-386) | Operators only. `BuildStartupMessage(version, params)` is the **set** of messages over every order of `params`, because a Go map ranges in a random order. `TestCases` is the table. `TestStream` is the mock connection: the input, then `io.EOF`. `TestPasses` is the check of lines 356-368. |
| `PgInputs` | — | Sets of client inputs for the runs. |
| `MCPgCursor`, `MCPgMatch`, `MCPgMatchLegacy`, `MCPgMatchTests`, `MCPgMatchLegacyInv` | — | Model-checking instances. `MCPgMatchTests` runs the strict Match on the test inputs. `MCPgMatchLegacy` also runs the legacy Match on them. `MCPgMatchLegacyInv` adds the inductive invariant of `PgMatchLegacyProofs` and a symmetry set for `legacy_pool`. |
| `PgMessageProofs` | — | TLAPS lemmas about the cursor operators of `PgMessage`, shared by the two proof modules below. |
| `PgCursorProofs` | — | TLAPS proofs about `PgCursor`. |
| `PgMatchProofs` | — | TLAPS proofs about `PgMatch`: its inductive invariant, its type invariant `MatchTypeOK` and `ReadsWithinFrame`. |
| `PgMatchContractProofs` | — | TLAPS proof that `PgMatch` implements the safety half of `PgMatchSpec` (`ContractSafety`, the run `match_contract` checks the whole of `ImplementsContract`), through the inductive invariant `CInv` and lemmas about the parameter-list grammar of `PgStartup`. |
| `PgMatchLegacyProofs` | — | TLAPS proofs about `PgMatchLegacy`: its inductive invariant `LIInv`, `LegacyTypeOK`, `BufferExclusive`, `HeaderFromOwnRead`, and the refinement of `PgHeaderLease`, for any number of connections and buffers. |

### Data abstraction

* A payload byte after the code word is either `0` or `120` (`'x'`), since
  the matcher only tests for null.
* The code word is the SSLRequest code, protocol 3.0 or protocol 2.0.
* The declared length is taken from a set around every bound the code tests.
* TLC's integers are 32-bit, so:
  * the inputs keep every decoded word below 2^31;
  * in the legacy model the wrapped uint32 `messageLength` is kept as its
    negative value d (standing for d + 2^32);
  * `ReadSize` uses 2^31-1 for "more than the stream has", which reads the
    same as 2^32-4.

## 3. Runs

| Run | cfg | Expect | Checks |
|---|---|---|---|
| cursor | MCPgCursor.cfg | pass | `TypeOK` (offsets index the buffer), `TerminatorDetection` (the line-261 test is true exactly when ReadString returned ""), over every payload of at most 6 bytes from {0, 3, 120} and every call order. |
| match_contract | MCPgMatch.cfg | pass | `ImplementsContract`: PgMatch refines PgMatchSpec, so Match always returns, and what it returns is `Expected` of the input. Its safety half, `ContractSafety`, is proved (section 5); the run is what covers the liveness half. |
| match_frame | MCPgMatchFrame.cfg | pass | `ReadsWithinFrame`: Match never consumes past the declared frame. |
| ssl_probe | MCPgMatchSSL.cfg | violation | `SSLCodeOnlyAsProbe` fails: `00 00 00 09 04 D2 16 2F 00` is matched. The SSL code is read as protocol 1234.5679 ≥ 3, followed by an empty parameter list. |
| legacy_pool | MCPgMatchLegacyPool.cfg | pass | `LegacyTypeOK`, `BufferExclusive`, and `LIInv` (the inductive invariant of the legacy proofs), on three connections and three buffers with pool reuse and GC drops. A buffer is never both pooled and held, or held twice. Also `ImplementsHeaderLease`: under the mapping `HeaderLease` (`lease <- buf`, `inPool <- {b : pool[b] > 0}`) every step is a step of `PgHeaderLease` or a stutter. |
| legacy_header | MCPgMatchLegacyHeader.cfg | pass | `HeaderFromOwnRead`: each connection decodes its own client's header. |
| legacy_no_panic | …NoPanic.cfg | violation | `00 00 00 04 …` panics at line 37. |
| legacy_no_false_match | …NoFalseMatch.cfg | violation | The SSL code followed by more bytes is matched (line 86). |
| legacy_premature_end | …PrematureEndNotError.cfg | violation | An empty stream ending in EOF returns an error (line 72). |
| legacy_bounded_alloc | …BoundedAllocation.cfg | violation | A header of 0 wraps to 2^32-4 (line 74) and is allocated (line 78). |
| strict_tests | MCPgMatchTests.cfg | pass | `StrictPassesTests`: the strict Match passes every case of `TestMatchPostgres`, on every map order of the builder. |
| legacy_tests | MCPgMatchLegacyTests.cfg | violation | `LegacyPassesTests` fails: the legacy Match returns an error on "Too Short (EOF reading length)", and fails 12 of the 17 cases in all. |

### Bounds

* **Strict runs.** The header lengths {0, 4, 7, 8, 9, 10, 11, 12, 13, 16388,
  16389, 1195725856} cover the cases the code tests:
  * below the minimum (0, 4, 7);
  * each exact frame length that the 4-byte code plus a tail of 0..5 bytes
    can complete or fall short of (8..13);
  * the largest accepted payload, at the 16 KiB bound (16388), and one byte
    over it (16389);
  * a text protocol read as a length ("GET ").

  Tails of up to 5 bytes from {0, 'x'} give every placement of nulls in one
  key/value pair plus the terminator, including trailing bytes and missing
  nulls. Inputs too short for a header (0-3 bytes) are added. Every input ends
  both in EOF and in a transport error.
* **Legacy pool runs.** There are 8 inputs, one per way Match ends.
  `legacy_header` uses 2 connections and 2 buffers. That is the smallest
  instance where one goroutine can take a buffer
  another has put back. `legacy_pool` uses 3 connections and 3 buffers, so that a
  new buffer, a pooled one and a collected one can all be in play while
  three goroutines interleave. Connections are interchangeable: each gets any
  stream of the set. The violation runs (`legacy_no_panic`, `legacy_no_false_match`,
  `legacy_premature_end`, `legacy_bounded_alloc`, `legacy_tests`) use 1
  connection and 1 buffer: what they find happens to a single Match. Buffers are interchangeable too: their identities are
  only compared. So the run uses symmetry over both sets (181,972 distinct
  states, against 5.1 million without it).
* **Test runs.** These use exactly the inputs of the test table, one
  connection per input. The "Other Protocol (Random Bytes)" case is left
  out: its header `DE AD BE EF` decodes above 2^31, beyond TLC's integers.
  "HTTP GET", "SSH" and "Declared Payload Too Large" take the same branch,
  a length over the bound. Keys, values and protocol lines are strings of
  `'x'` of the same lengths as in the tests.

### Fairness

* `PgMatch` is `WF_matchVars(MatchNext)`. Match runs on its connection's
  goroutine, and every `io.ReadFull` returns, with data, EOF or an error,
  because the input is finite.
* Deadlines and a client that never sends are outside the model (the routing
  layer owns them).
* `PgMatchLegacy` and `PgCursor` check safety only and assume no fairness.

### Mutants

Each property of a passing run is broken by a plausible bug in the definition
it is about. The mutants are defined in the modules, just before the
definition they replace:

* ReadString whose offset runs past the end (`ReadStringPastEnd`) or stays
  on the null (`ReadStringStayOnNull`);
* ReadKey that ignores trailing bytes (`ReadKeyIgnoreTrailing`);
* ReadPayload that reads the whole declared length
  (`ReadPayloadWholeMessage`);
* GetHeader that takes an unpooled buffer (`GetHeaderUnchecked`);
* ReadHeader that is missing the return (`ReadHeaderNoReturn`) or puts the
  buffer back early (`ReadHeaderPutEarly`);
* the strict ReadHeader returning EOF as an error (`ReadHeaderEOFError`),
  which fails the "Too Short" tests;
* `GetHeaderUnchecked` again for `LIInv` and for `ImplementsHeaderLease`:
  it hands a held buffer to a second goroutine, which is no `Take`.

## 4. Findings

* **Strict matcher.** The SSLRequest code with a longer payload is not
  rejected (comment at lines 215-216). It is classified as a StartupMessage of
  major version 1234, so `04 D2 16 2F 00` after a length of 9 matches. This is
  what `Expected` also says, since the code word is a version ≥ 3. The
  divergence is with the comment's intent, not with the parameter grammar.
* **Legacy matcher:**
  * it panics on short payloads and on strings with no null (lines 37, 45, 48);
  * it matches the SSL code at any length and with anything after it
    (`00 00 00 09 04 D2 16 2F 78`, which no test sends);
  * it returns EOF as an error;
  * it allocates up to 4 GiB for an attacker-chosen length, including the
    wrapped value of a length below 4.

  The pool itself is used correctly: `BufferExclusive` and
  `HeaderFromOwnRead` hold, and are proved for any number of connections.
* **Legacy matcher against its own tests.** The Match of matcher.go fails 12
  of the 17 decodable cases of the test table in the same file. It passes
  only the SSLRequest, the two parameter cases, "SSLRequest Code but Wrong
  Length" and "StartupMessage Payload Too Short". The failures go unseen
  because the test file imports `github.com/mholt/caddy-l4/layer4` (line
  140), while this Match takes a `github.com/divyam234/caddy-l4/layer4`
  connection (lines 11, 66). So the test does not compile against this
  package.
* **Test gap.** "SSLRequest Code but Wrong Length" (line 257) takes
  `buildSSLRequest()[:4]`. That is the length word, not the code, so its
  payload starts with `01 02 03 04`. No test sends the SSL code in a longer
  frame, which is the input of the `ssl_probe` finding.

## 5. Proofs (TLAPS)

The proofs hold for every value of the constants. They assume only:

* `PayloadsAssumption: Payloads ⊆ Seq(Byte)` for `PgCursor`;
* `StreamsAssumption` for `PgMatch` and `PgMatchLegacy`: each stream is a
  record of a byte sequence and an ending in `Fins`;
* `LegacyAssumption` for `PgMatchLegacy`: the sets of connections and
  buffers are non-empty, the set of connections is finite, `NoBuf` is
  not a buffer, and there are at least as many buffers as connections
  (each goroutine may hold one at once, and `New` allocates without bound).

**Lemmas about the cursor (`PgMessageProofs`).**

* `NullScanBounds`: the scan of lines 99-102 stops in `offset..Len(data)`, at
  the first null. Its proof picks the least stopping index with `WFMin` over
  `<` on `Nat` (WellFoundedInduction), so the CHOOSE of `NullScan` is defined.
* `ReadUint32Preserves` and `ReadStringPreserves`: each call maps a message
  within its bounds (`CursorOK`: `offset <= Len(data)` and
  `lastReadStringStartOffset <= offset`) to one that is also within bounds. It
  keeps the buffer and returns a number or a byte string.
* `BigEndianNat`: four bytes decode to a natural number.
* `NewMessageOK`: a fresh cursor is within bounds.
* `ReadStringScan`: a ReadString from an unfailed cursor before the end of
  its buffer records its start. Without a null it fails. With one, it moves
  just past the null and returns the bytes between the start and the null.
  The cursor proofs and the contract proofs both use it.

**The cursor (`PgCursorProofs`).**

* `CursorTypeOK: Spec => []TypeOK`. `TypeOK` is inductive as it stands,
  because it already carries the two offset bounds. Each step case cites one of
  the two preservation lemmas.
* `CursorTerminatorDetection: Spec => TerminatorDetection`, an action
  property. A ReadString that starts inside the buffer and succeeds stopped
  at a null `e`, so it returned `data[start+1..e]` and left the offset at
  `e + 1`. The string is empty exactly when `e = start` (lemma
  `SliceEmpty`, from `SubSeqEmpty` and `SubSeqProperties`). The test of
  line 261 holds exactly when `e = start`, because `data[e+1]` is the null.
  The step needs `TypeOK`, so the theorem cites `CursorTypeOK`.

**The strict Match (`PgMatchProofs`).**

* `MatchInvariant: MatchSpec => []IInv`. `ReadsWithinFrame` alone is not
  inductive: a state with `pc = "readPayload"`, `pos = 4` and an arbitrary
  `payloadLen` satisfies it, and the next read then overruns the frame. `IInv`
  adds what the code's order of blocks guarantees:
  * `pos = 0` before the header read;
  * `pos = 4` and `head` = the stream's first 4 bytes while `ParseLength` is
    pending;
  * once the length is accepted, `payloadLen + 4` = the declared length and
    the stream holds at least 4 bytes;
  * `pos = 4` before the payload read;
  * the cursor is within its bounds.

  The proof has one step per block:
  * `ReadFullFacts` bounds what `io.ReadFull` returns and gives the bytes on
    success. It covers the header and payload reads.
  * `BigEndianNat` covers `ParseLength`.
  * `LoopStep` covers the blocks from `ReadCode` to the end of the parameter
    loop, which change only the cursor, the code and the result. It rests on
    the cursor lemmas.
  * `IInv` was first model-checked as an invariant of the `match_contract`
    instance.
* `MatchTypeCorrect: MatchSpec => []MatchTypeOK` and
  `MatchReadsWithinFrame: MatchSpec => []ReadsWithinFrame` follow from
  `MatchInvariant`.

**The strict Match against its contract (`PgMatchContractProofs`).**

* `MatchRefinesContractSafety: MatchSpec => ContractSafety`, where
  `ContractSafety == Contract!Init /\ [][Contract!Decide]_Contract!absVars`
  (`PgMatch`). It is refinement step by step. The initial state of Match is
  an initial state of the contract. Each step of Match either leaves
  `stream` and `result` unchanged or is `Decide`, which sets the result once
  to `Expected(stream)`. The refinement mapping is the identity on `stream`
  and `result`. `ContractExpected` shows that the contract's `Expected`, seen
  through `INSTANCE`, is `PgStartup`'s.
* `ContractInvariant: MatchSpec => []CInv`. `CInv` is `IInv` plus four parts:
  * `Decided`: a result is set exactly at `pc = "done"`, and it equals
    `Expected(stream)`;
  * `FrameOK`: after each check, what that check established about the frame:
    * the declared length is accepted;
    * the cursor's data is `Pay`, the payload `Expected` looks at;
    * the stream holds the whole frame;
    * in the loop, `Expected(stream)` reduces to `Verdict`, i.e. to
      `IsParameterList(Params)` on the bytes after the version;
  * `AtKey`: at the loop head and before a key, cursor offset `o` stands at
    byte `o - 3` of the parameter list. A key starts there (`KeyStart`), and
    every key starting before it is non-empty (`KeysNonEmpty`);
  * `AtValue`: before a value, the key just read started at
    `lastReadStringStartOffset`, is non-empty, and ends at the null just
    before the cursor.

  `Decided` alone is not inductive. Whether the loop's answer equals
  `IsParameterList` depends on where the cursor stands in the grammar, and
  `IsParameterList` is stated by positions: the nulls split the bytes, and
  a key starts after an even number of them (`NullsBefore`). `AtKey` and
  `AtValue` carry that parity through the loop.

  The proof has one lemma per block (`ReadHeaderContract` ...
  `ReadValueContract`) plus `ContractStep` for `Returned` and stuttering.
  The grammar lemmas it rests on are:
  * `NullsBeforeStep` and `NullsBeforeSame`: how the null count moves;
  * `PairStep`: a key, its null, a value and its null lead to the next key
    start;
  * `EmptyKeyDecides`: an empty key at a key start is a parameter list
    exactly when it is the last byte;
  * `UnterminatedNotList`, `MissingValueNotList`, `NoTerminatorNotList` and
    `EmptyNotList`: the early returns of the loop.

  `CInv` was model-checked first, as an invariant of the `match_contract`
  instance (19,216 states).

**The legacy Match and its shared pool (`PgMatchLegacyProofs`).**

* `LegacyInvariant: LegacySpec => []LIInv`. The two properties of the pool
  are not inductive alone. `BufferExclusive` says nothing about which
  goroutine will call Put. `HeaderFromOwnRead` says nothing about the buffer
  before the decode. `LIInv` is the conjunction of three parts:
  * `TypeA`: the types; buffers of 4 bytes; positions within the streams;
    and a goroutine holds a buffer exactly at `readHeader` and `decode`,
    between the Get of line 68 and the Put of line 71 or line 75;
  * `ExclB`, the first-order form of exclusivity: a buffer is pooled at most
    once, held by at most one goroutine, and never held while pooled;
  * `HInv`: nothing has been read before the header read, and at the decode
    step the held buffer contains the client's first 4 bytes.

  The proof of the header part uses `ExclB`: another goroutine's
  `io.ReadFull` writes into its own buffer, which by `ExclB` is not this
  one. A new buffer from `New` has an identity nobody holds, so zeroing it
  disturbs no header. A Put returns a buffer only its caller held, and that
  buffer was not in the pool. There is one lemma per action for `TypeA`
  (`GetHeaderTypeA` ... `ReadValueTypeA`) and one per action for
  `ExclB /\ HInv` (`GetHeaderInv`, `ReadHeaderInv`, `DecodeHeaderInv`,
  `PoolDropInv`). The four decode steps share `DecodeStepInv`, since they
  touch no buffer. `LIInv` was model-checked first (run `legacy_pool`).
* `LegacyBufferExclusive`, `LegacyHeaderFromOwnRead` and `LegacyTypeCorrect`
  follow from it. `ExclBExclusive` turns `ExclB` into the cardinality form of
  `BufferExclusive`: the set of holders is empty or a singleton
  (FiniteSetTheorems).
* `LegacyImplementsHeaderLease: LegacySpec => ImplementsHeaderLease`, the
  refinement of `PgHeaderLease` under
  `HeaderLease == INSTANCE PgHeaderLease WITH lease <- buf,
  inPool <- {b \in Buffers : pool[b] > 0}`. The initial states map to
  `LeaseInit`. `LeaseStep` shows that each step under `LIInv` maps to a lease
  step or a stutter:
  * `GetHeader` is a `Take` (`GetHeaderLease`). The buffer is nobody's, from
    `ExclB` for a pooled one and from the guard of the `New` branch for a
    fresh one. Taking a pooled buffer empties its count, because `ExclB`
    bounds it by 1.
  * The Puts of lines 71 and 75 are a `GiveBack` (`PutLease`).
  * `PoolDrop` is a `Drop`.
  * Every other step keeps `buf` and `pool`, so it is a stutter
    (`LeaseStutter`).

  `LIInv` is what makes the mapping work. Without it, a pool count of 2
  would survive a Get, and `Take` would remove the buffer from the pool
  while the matcher still counts it.

What is only model-checked:

* Termination, i.e. the liveness half of `ImplementsContract`: the
  contract's `WF_absVars(Decide)` and Match's own `WF`. Liveness and
  ENABLED are beyond TLAPS here. The safety half is proved (above).
* Nothing here needs induction over data, which the installed provers
  cannot do, since the library's induction theorems take an operator
  parameter. The project has no recursive operator. The grammar of
  `IsParameterList` is stated by positions (a null count), not by a
  recursive parse. So the agreement of the loop with `Expected` is proved by
  the loop invariant of `CInv`, one step at a time.
* The test-table run (`StrictPassesTests`). It evaluates the repository's
  concrete test cases, so it is a computation on fixed inputs rather than a
  claim for every value of the constants.

## 6. Plan for further work

1. Prove `SSLCodeOnlyAsProbe`-style consequences of `CInv` as theorems.
2. Refine `PgMatchLegacy` per connection against a "legacy contract" that
   records its own decisions. This would make the differences from
   `Expected` explicit.
