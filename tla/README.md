# Vicarl in TLA+

A model of the vicarl library (`src/`, C): its hash chain of segments, the two
storage backends, the ledger on top of them, the peer-to-peer replication and the
programs that run it over TCP, down to the bytes.
TLC checks the modules on small instances; TLAPS proves the safety properties of
the stores, the ledger, the merkle tree and the replication for every instance.
The bytes and the TCP programs are only model-checked.

## The system

| part | code | what it does | model |
|---|---|---|---|
| hash | `core/hash.c` | SHA-256 | `Merkle` (injective function) |
| codec | `core/codec.c` | write buffer, bounded reader, LEB128 numbers | `Codec` |
| merkle | `model/merkle.c` | root over encoded records, inclusion proofs | `Merkle`, `MerkleBuild` |
| record | `model/record.c` | encoded record, id, signature field | `Layout` (bytes), `Segment` (decodes? signed?) |
| segment | `model/segment.c` | number, previous hash, records, root; verify | `Layout` (bytes), `Segment` |
| log store | `store/store_log.c` | one file per segment, published by rename | `LogStore` |
| SQLite store | `store/store_sqlite.c` | table of segments, optional record index | `SqliteStore` |
| query | `store/store_sqlite.c` | reading, iteration, filter over the index | `SqliteQuery` |
| ledger | `ledger/ledger.c` | buffer, automatic flush, chain verification | `Ledger` |
| sync | `p2p/sync.c` | announce tip, request, answer, apply | `P2PSync`, `P2PLoopback` |
| wire | `p2p/wire.c` | frames of the replication protocol | `Wire` |
| TCP programs | `examples/ex_p2p_tcp_*.c`, `p2p_tcp_common.h` | framing over a socket, two programs that replicate | `TcpStream`, `TcpSession` |
| ffi, alloc, error, crypto header, peer | `ffi/`, `core/`, `p2p/peer.c` | wrappers, thin layers, an empty file | no state of their own |

A record is appended to the ledger's buffer; a full buffer, or `flush`, becomes
one segment on the store's tip. The store hands out its tip and keeps the
segments. A sync engine serves one connection of a node: it reads and appends to
the same store behind the ledger's back, and caches the store's tip. So the tip
is remembered in up to three places (store handle, engine, peer), and most of
what can go wrong is one of these copies being stale when it is used.

## Modules

`Merkle`, `Segment` - pure operators. A digest is the one-element sequence that
holds the hashed value, so digests are equal exactly when the values are
(collision freedom is assumed), and the zero digest `<<>>` is no digest of
anything. The loops of `merkle.c` that halve a level, reduce a tree and climb a
proof are recursive functions. A record is a model value of which two facts matter: does it decode,
is it signed. A segment is a record of header fields and record sequence;
`whole = FALSE` stands for any strict prefix of its bytes, which never decodes
(`TruncatedNeverDecodes` is the check of that at the level of bytes). The
timestamp is left out because nothing reads it back.

`HashChain` - the abstract store: a sequence that only grows, one segment at a
time, each numbered and linked to its predecessor. `LogStore`, `SqliteStore`,
`Ledger` and every node of `P2PSync` are checked to implement it.

`MerkleBuild` - the loop of `merkle_proof_build`, one level per step, against a
tree defined from the root down.

`LogStore` - `open`, `close` and `append` of the log backend, with one step for
each system call of an append: open the temporary file, write, fsync, close,
rename, remember the tip. `files` and `tmp` are the directory, `tip` what each
handle remembers. Faults: an error of any call, the death of the process, loss
of power, and a failing `fclose`. The file system is external: renames become
durable in order, data without fsync may come back short. `fsync` is the option
`fsync_on_commit`, both values are covered. Calls of several handles are
serialised, as `src/README.md:231` asks of the caller. An append checks the magic
and the number of what it is given (`Check`) and nothing else: that a segment
decodes and is linked to the tip the handle reports is up to the callers, the
ledger's flush and the sync engine, and `Offer` is what they give it.

`SqliteStore` - `append` as check, `BEGIN IMMEDIATE`, insert, index, commit,
remember. `segments` and `records` are the committed tables, `work` the image
of the one write transaction, `writer` its owner. Handles are processes: they
interleave freely, and may die anywhere. A locked database ends in an error
after the busy timeout; any statement may fail and is rolled back. The history
variable `committer` says which handle's commit added a row, and so whether the
row came with index rows.

`SqliteQuery` - the reading calls on top of it: `read_segment`, `iter_segments`
and `query_records` with its optional conditions, order, limit and a callback
that may stop it. They change nothing, so they are operators of the committed
tables: a SELECT sees one committed state. Times are compared as signed numbers,
as SQLite does with what the code binds.

`Ledger` - `open`, `close`, `append_record` with its automatic flush, `flush`,
`verify`, over an abstract store whose append succeeds or fails without effect.
`ForeignAppend` is another user of the same store object (`vicarl_ledger_store`),
such as a sync engine; `OtherProcessAppend` is a commit by another process, of
which this handle's tip learns nothing. `StoreAccepts` is what a backend refuses:
a number that is taken and, with the record index, a record that is in `index`
already. The other process may have the index on or off, so `index` is not
determined by the stored segments. `failing` is a history variable: the last
append or flush tried to flush and failed.
`opt` holds the options: on opening, SQLite reads the tip's hash from its column,
the log hashes the bytes it finds. `Damage` shortens a stored segment or alters
a record in it.

`P2PSync` - each engine's `send_hello`, `send_tip` and `on_message` (one handler
per frame type), over inboxes that may lose, repeat, reorder and damage frames.
`send` and the store's append may fail; engines restart. The node's ledger
appends at any time, so the cached `localTip` goes stale. `setup` names the
surroundings: ordered or not, which faults, what each node writes.

`P2PLoopback` - the same handlers over a transport that delivers inside `send`,
as `tests/test_p2p_sync.c` does: a stack of calls, interrupted at each send.
One honest chain, so a segment is its number.

`Codec`, `Layout`, `Wire` - the bytes. A layout is a sequence of field kinds
(number, length-delimited bytes, fixed bytes); writing concatenates the fields,
reading takes them off the front. A parser returns the set of its results: one,
or none for a FORMAT error. Widths are parameters.

`TcpStream` - one direction of a connection: `send_frame` and `recv_frame` with
their loops over `send` and `recv`, which move any number of bytes. Either end
may go away at any byte. It implements `FrameQueue`, the ordered delivery of
whole messages that `P2PSync` assumes of an ordered link and `TcpSession` uses.

`TcpSession` - the client and the server program from connection to exit,
extending `P2PSync`: its engines and handlers, started, fed and ended as the two
`main` functions do. `net` is split into what is in the socket and what the
sender is still blocked on. Processes are killed, appends fail, and a second
session follows the first.

`*Proofs` and `ChainTheorems` hold the theorems, see Proofs.

`MC*` modules and `.cfg` files give the constants small values. In the modules,
an operator introduced as "a variant of X" is X with a plausible mistake. None
is used by a specification. Each property is tested for sensitivity by putting a variant in the place of its original: TLC
must then report a violation (`mutants` in `PROJECT.json`).

## Runs

| run | bounds | distinct states | shows |
|---|---|---|---|
| `merkle_build` | up to 6 records of 2 kinds, every index | 2,458 | the proof built verifies; levels are the tree's; the root fixes the records of a given count |
| `log_crash` | 1 handle, 3 segments, all faults but fclose | 18,128 | given callers that link to the tip they are told, the directory is a chain of whole segments (across outages only with fsync); acknowledged segments stay until power is lost; remembered tips are right; iteration meets no hole |
| `sqlite_race` | 2 handles, one indexed, 2 segments, 4 batches, 7 filters | 298,862 | the table is one chain whatever the interleaving; tips are on it; the index is sound; a query finds what a scan of the segments committed with the index finds; no call leaves the lock held |
| `ledger` | 4 records, 3 accepted, 3 segments, 4 settings of the options, 1 damaged | 223,320 | accepted records are stored or buffered exactly once, in order; own segments verify; a buffer is full only if the last append or flush tried to flush it and failed; verify fails on an undamaged store only through others' unsigned records, and notices damage whose hash is remembered; a blocked SQLite ledger stays blocked until closed |
| `p2p_sync` | stream: lead up to 3, one request covers it, 4 calls; datagrams: 2 writers, 2 segments, 2 calls, any 1 fault, reordering | 109,146 | stream: no call fails and everything announced arrives; datagrams: with one writer the other node is a prefix, forks never mix, cached tips are on the chain, each store is a chain |
| `loopback_sync` | tips up to 5, request sizes up to 4, 3 rounds | 3,680 | the first round reaches the announced tip; recursion is at most twice the lead |
| `tcp_stream` | 2 of 8 messages of all 5 types, 3 bits per group, 7-bit numbers, a socket of 3 bytes | 28,289 | decoded messages are the sent ones, in order, however bytes are split and wherever the connection breaks; no other frame is ever seen; cut-off segments and records never decode; what is sent arrives |
| `tcp_session` | 2 sessions, 3 segments, requests of 2, 1 kill, 1 failing append, sockets of 2 frames | 127,234 | a session ends if one request covers the lead; an undisturbed one leaves the client with all the server had, whatever happened in the one before; the server's store does not change while it serves |
| `log_overwrite`, `log_fclose`, `p2p_stall`, `loopback_status` | | | violations, see Findings |

Why the bounds are enough to meet the cases: an overwritten or raced segment
needs two handles and one number; a chain with a stale point needs two segments;
a hole needs three. Six leaves give odd levels at the bottom (3, 5) and higher
up (6). A batch with a repeated and one with an undecodable record make index
insertion fail at the first and the second record. In the datagram setup,
reordering is free and not counted as a fault; the one fault falls anywhere.
With 3 bits per group and 7-bit numbers a number takes up to three bytes and the
third has two spare bits, as 64 bits in groups of 7 take ten bytes and leave six.
Overlong forms with leading zero groups occur; forms that set the spare bits do
not, because nothing writes them (see Findings).
Two messages let an error in one be seen in the next. A socket that holds two
frames is the smallest in which the programs' greetings (HELLO and TIP from both,
before either receives) fit; a greeting and an answer of two segments do not.
With three segments and requests of two a lead can be one larger than a request.

Deadlock is not checked where the system really stops: the proof loop ends, the
bounds on calls let the network drain, and programs end.

Fairness: weak fairness of `Deliver` for each engine (`p2p_sync`, `p2p_stall`):
the examples read from their connection in a loop until there is nothing more
(`examples/ex_p2p_loopback.c:164`, and the TCP server and client), so a frame
that has arrived is handed over in the end. Weak fairness of `Write` and `Read`
(`tcp_stream`): `write_all` and `read_all` loop until done, and TCP moves bytes
while both ends live. Weak fairness of each program's own steps `Run(e)`
(`tcp_session`): a sequential program that is not blocked goes on. Nothing is
assumed of the callers of `send_tip` and `flush`, of kills, or of new sessions.

## Proofs

TLAPS checks 30 theorems in eight modules. Each states a property that a run
checks on a small instance, for every value of the constants that satisfies the
named assumption of its module (`SqliteStoreAssumption` and so on: batches are
sequences of records, bounds are natural numbers, engines have a host and a
peer). Each rests on an invariant that is preserved by every action; the modules
state it as `IInv` unless another name is given.

`ChainTheorems` - what the others share: induction, sequences of any elements,
the tip of a chain and its links, two linked chains that agree at one point,
segments before and after truncation. The induction theorems of the library take
a predicate as parameter, which the provers here cannot instantiate; induction is
therefore stated about a set of numbers and used with `{n \in Nat : P(n)}`.

`SqliteStoreProofs` - any handles, with and without the index.
`TypeCorrect`: the write lock is held exactly by the handle inside its
transaction. `ChainIntact`, `TipsValid`: the table is a gapless hash chain,
remembered tips are on it. `RowsPermanent`: no step changes a committed row.
`CommitsRefineChain`: each commit is one append of `HashChain`. `IndexRight`:
index rows name a committed segment and the right place in it.
`TableIsChain` is not inductive: the append is checked before the transaction
begins, against a tip that may be old by then. `IInv` adds, per handle, what
stays true in between (`CallInv`): the segment follows the handle's remembered
tip, the remembered tip is a committed row, and committed rows do not change.
Inside the transaction, `work` is the committed table, or that table plus the new
row under a free number, and the lock keeps the committed table as it is. So if
another process took the number, the primary key stops the insert, and if not,
the new row follows the row it was checked against. `IndexInv` says the same of
the index rows in `work`, halfway through a batch.

`LogStoreProofs` - two layers. `GapFree` holds for any number of handles and all
faults, and gives `IterationComplete`. `ChainInv` is about contents and gives
`DirectorySafe`, `AcknowledgedKept`, `RememberedTipFresh` and
`DirectoryRefinesChain`. It has two hypotheses, and each is there because the code
needs it: `[]OneOpen` (a handle is open only while no other is; `log_overwrite`
shows what happens otherwise) and `FlushKept` (`fclose` does not fail;
`log_fclose`). `ChainInv` follows the temporary file through the calls of an
append: what is in it, whether it is whole, and what it is renamed onto. The links
of the chain rest on `Offer`, the contract of the callers, because the backend does
not check them.

`MerkleProofs` - records of any number. `ProofInvariant` is the loop invariant of
`merkle_proof_build`; `ProofsAccepted`: the verifier accepts what the builder
made, at every index, with the length it computes for itself; `RootIdentifies`:
among sequences of one length the root determines the records. The loops of the
code are recursive functions in the model; for each it is shown that the function
exists and is unique, after which its equation can be used. `RootIdentifies` goes
down the levels: equal parents have equal children, because a digest determines
what was hashed and all digests of a level have one length.

`LedgerProofs` - any records, policies, targets, both backends, other users of the
store, damage and reopening. `RecordsKeptOnce`, `OwnSegmentsSound`,
`TargetsRespected`, `UndamagedAccepted`, `DamageFound`, `BlockedStays`,
`AppendsRefineChain`, and `TypesCorrect` for the place of the tip. `IInv` says
that every appended segment verifies alone, that the buffer obeys the policy, and
where the tip is. The links need `Trusted`: as long as the stored bytes are the
written ones, or the hash comes from SQLite's column, a new segment is linked to
what was written; after damage to the last file of a log it is linked to the
damaged bytes, which is why `AppendsRefineChain` promises numbers always and links
only until then. `FlushedRecords` is a fold; the first lemmas show what appending
a segment does to it.

`P2PSyncProofs` - any nodes, engines and connections between them (so also several
engines on one node), with every fault. `TypesCorrect`, `CacheNeverWrong`,
`OneWriterPrefixes`, `AgreementReachesBack`, `StoresRefineChain`. `IInv`: each
store is a linked chain of segments that some ledger wrote; each segment a ledger
wrote is still at its place there; a cached tip is a segment of the chain, if
perhaps not the last; a segment in a frame was written, or is damaged. What
`apply_segment` accepts then continues the real chain although it is compared with
the cached tip, because the backend refuses every number but the next one.

`P2PReliableProofs` - `ReliableNeverRejects`: over an ordered connection without
faults no call fails while at most one side writes, for any
`max_segments_per_request`. It builds on `P2PSyncProofs`. Hypotheses: `TwoParties` (two nodes, one connection;
with a third party a segment may come over the other connection first and be
refused) and `BatchesDecode` (ledgers flush records that decode, which
`append_record` makes sure of). The protocol does not number its requests and has
only the flag `awaiting_segments`. The invariant `Conversation` says why this is
enough: at most one request is on its way, and none while answers are; the answers
on their way are the next segments in order; announcements arrive in growing
order; and if the reader has stopped waiting while answers are still coming, they
come before any announcement that could make it ask again. It was model-checked
for request sizes of 1 to 3 and a lead of 4 before it was proved.

`P2PLoopbackProofs` - any chain length, request size and number of rounds.
`FirstRoundComplete` and `RecursionBounded`. `DepthInv` relates the depth of the
stack to what has been fetched since `send_tip`; `FirstInv` says what each call on
the stack of the first round will find when control comes back to it.

The proofs trust the models of what is not in the repository: SQLite with one
writer, atomic commits and rollback on death; a file system that orders renames;
SHA-256 without collisions.

Only model-checked:

* liveness under fairness (`CatchesUp`, `Arrives`, `SessionEnds`), which the prover
  does not support;
* `UndisturbedSyncs` and `ServerOnlyServes` of `TcpSession`. Neither is inductive:
  an inductive invariant has to describe all the frames between the two programs
  at every step of both, for the handlers of `P2PSync` and the blocking sends
  together, and its proof is too large for the prover to check in a sensible time.
  `ReliableNeverRejects` covers the exchange of the engines without the programs
  around it;
* `LevelOfTree`: the reference tree has nodes at distance 2^k, and powers with a
  variable exponent are beyond the arithmetic of the provers;
* `QueryMatchesScan`: both sides are sorted, filtered sequences built with
  operators of the community modules;
* `TcpStream` and the codecs below it (`NothingMalformed`, `TruncatedNeverDecodes`,
  `ImplementsFrameQueue`): that decoding inverts encoding is an induction over
  the digits of a number in base 2^GroupBits, again a symbolic power.

## Findings

* `log_overwrite`: two handles on one directory, calls never overlapping. The
  second checks the number against its own old tip and `rename` replaces the
  published segment. `src/README.md:9` promises an append-only ledger.
* `log_fclose`: without `fsync_on_commit` the bytes are written out by `fclose`,
  whose result is ignored; a failure publishes a short file and returns OK.
* `p2p_stall`: `awaiting_segments` is cleared only at the peer's tip, so a lead
  larger than `max_segments_per_request` stops after the first answer, also
  when the tip is announced again. The TCP client then waits for more segments
  and the server for more requests, for as long as the connection lasts; with the
  default of 128 this takes a lead of more than 128. `SessionEnds` is therefore
  stated for sessions with `OneRequestCovers`.
* `loopback_status`: the flag is set after `send` returns. With a transport that
  delivers inside `send`, requests nest; the outer answer loop then sends a
  segment already stored and `send_tip` returns its rejection, where
  `tests/test_p2p_sync.c:116` asserts OK. This is what the model shows from the
  code; the test itself has not been run as part of this work.

Read in the code, and not given a run:

* No error path clears `awaiting_segments`, although `p2p_internal.h:28` says
  "until we catch up or error"; over the nested transport the flag also stays set
  after catching up. A new engine starts with the flag clear, which is why
  `UndisturbedSyncs` holds for a session after a broken one.
* The overflow test of `vicarl_rbuf_get_varu64` (`core/codec.c:227`) looks for
  shifts of 64 and more, which ten groups never reach: bits beyond the width are
  dropped without an error (`Overflows` is never true). Overlong forms are
  accepted too, so one value has several encodings; comments call the encodings
  canonical. Nothing here depends on it, because hashes are taken of the bytes
  and values are not encoded again.
* A query with `time_to_ms` of 2^63 or more matches no record with an ordinary
  time, and such a `time_from_ms` excludes none, because the bound becomes
  negative; `QueryMatchesScan` is stated for smaller times. A segment appended by
  a handle without the index is never found by a query.
* The TCP client takes "as many segments as announced" for "sync complete"
  (`ex_p2p_tcp_client.c:159`); it does not compare hashes, so a fork of at least
  that length counts as complete. And it leaves before it answers the server's
  request, so that a server that is behind stays behind (`ServerOnlyServes`).
* `src/README.md:124` speaks of an index file for the tip; the log backend scans
  the directory.

## Not modelled

* Memory exhaustion, except where it ends a call like any other error; the
  growth of write buffers.
* SQLite under power loss; its journal modes and synchronous levels.
* A callback of `query_records` or `iter_segments` that appends to the store it
  is reading from: what the running SELECT then sees is SQLite's choice.
* Threads on one handle: the library excludes them (`src/README.md:231`).
* The compression function of SHA-256; signatures, for which there is no backend.
* FFI (NULL checks and forwarding), allocator, error strings, and the examples
  that call the library in a straight line. `ex_p2p_loopback.c` pumps two queues
  in turn, which is the ordered link without faults of `P2PSync`.
* Errors while a socket is set up, before a program has a peer.

## Plan

1. Proofs: the refinement of `FrameQueue` with the codec's inversion as an
   assumption.
2. `P2PSync` with two engines on one node (two connections, three nodes) under
   TLC, and with `SqliteStore`'s stale handles below.
3. Power loss for SQLite by synchronous level.
