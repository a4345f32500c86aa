# A formal model of the kaspa-stratum-bridge

The bridge stands between miners, which speak the stratum protocol over TCP,
and a chain node: a kaspad it talks to by RPC, or, on aleo, a pool whose client
it is. It fetches work, sends it to every miner, receives shares, checks
them, hands blocks to the node and keeps the statistics. Everything runs in
goroutines that share a few structs, with locks around some of the fields.

This directory holds TLA+ modules translated from the source, TLC
configurations, and proofs checked by TLAPS. `PROJECT.json` has the index: the
source lines of every definition (`map`), the runs, the hazards and which
property watches each, the mutated forms that show that a property can fail,
the findings and the theorems. Paths below are relative to `src/src/`.

To repeat a run: `tlc -workers 2 -config Jobs.cfg MCMiningJobs` (module and
configuration are in the table of runs); to repeat the proofs:
`tlapm WorkerConnProofs.tla`.

## Inventory

| Part | State | Operations | Module |
|---|---|---|---|
| Stratum listener, `gostratum/stratum_listener.go` | the channel `disconnectChannel`, `workerGroup`, the context | `tcpListener`, `newClient`, `disconnectListener`, `HandleEvent`, shutdown of `Listen` | `WorkerConn`, promise in `WorkerLifecycle` |
| Reader of a connection, `gostratum/stratum_client.go` | the buffer | `spawnClientListener`, `readFromConnection` | `WorkerConn` |
| Worker context, `gostratum/worker_context.go` | `disconnecting`, `writeLock`, name, wallet | `Reply`, `Send`, `write`, `writeWithBackoff`, `Disconnect` | `WorkerConn` |
| Handlers, `gostratum/worker_handle.go`, `default_client.go` | fields of the context | subscribe, authorize, submit | `WorkerConn`, `ShareStats` |
| Registry, `poolstratum/workers_listener.go` | `clients`, `clientCounter`, `nextExtranonce` | `OnConnect`, `OnDisconnect`, `NewBlockAvailable` | `WorkersListener`, `WorkerConn` |
| Jobs of a client, `prom/mining_state.go`, `chainnode/node.go` | `Jobs`, `JobCounter`, `Initialized`, `UseBigJob`, `StratumDiff` | `AddJob`, `GetJob`, `GetNotifyParams` | `MiningJobs`, promise of the ring in `JobWindow` |
| Share accounting, `poolstratum/share_handler.go` | `stats`, `overall` | `getCreateStats`, `HandleSubmit`, `submit` | `ShareStats` |
| Aleo upstream, `chainnode/aleo` | the connection, `LastWork` | `Start`, `Subscribe`, `Authorize`, `Listen`, the aleo part of `GetNotifyParams` | `AleoUpstream` |
| Block feed, `poolstratum/api.go` | the RPC client, a ticker, a channel | `Start`, `startBlockTemplateListener`, `waitForSync`, `reconnect`, `startStatsThread` | `BlockFeed` |
| Message queue, `mq/mqqt.go` | the channel `instance`, `mqlock` | `GetChannel`, `Insertmqqt` | `MessageQueue` |
| Nonce of a share, part of `share_handler.go` | none | completing and parsing in `TempKaspHandleSubmit` | `MinerNonces` |
| Job layouts, part of `prom/hasher.go` | none | `GenerateJobHeader`, `GenerateLargeJobParams` | `JobLayout` |
| Difficulties, header hash, rest of `prom/hasher.go` | none | pure functions | not modelled |
| Metrics, messages, configuration | counters, types | | not modelled |

**How they interact.** The accept loop calls `OnConnect` of the registry and
starts a reader. The reader calls handlers, which write replies through the
context; a successful authorize calls `NewBlockAvailable`, at any time and for all
clients. So does the block feed (kaspa) or the goroutine of the aleo upstream. `NewBlockAvailable` starts one
goroutine per client; it obtains work (`GetNotifyParams`, which changes the
mining state of the client) and writes it through the same context as the
reader. A failed write starts `Disconnect` in yet another goroutine. `Disconnect`
publishes a record, closes the socket and hands the client to
`disconnectListener` over an unbuffered channel, which calls `OnDisconnect`.
Statistics are shared by the readers of all clients and by a goroutine that
`OnConnect` starts 5 seconds late.

**What is hard.** No lock covers `disconnecting`, `Initialized`, `UseBigJob`,
`StratumDiff`, `JobCounter`, `LastWork` or the fields authorize sets; `writeLock` is a hand-made spin lock with a bounded
number of attempts; `Disconnect` blocks on a channel whose reader ends at a
shutdown; the feed is driven by notifications that may be lost, a ticker and a
node that loses its sync; `Reconnect` does not connect; the broker is dialled under
a lock that every disconnect and every share needs; the late call for the statistics
reads a name that the reader may change between two reads, and clients behind one
address share a key of the table; the counter of extranonces wraps; one
share may get two replies; a TCP read may cut a line; and an end of file is not
always an error. The `hazards` list of `PROJECT.json` has each at its line.

**What makes the parts correct.**

- Registry: extranonces fit their bytes and are as far apart as possible.
- Connection: writes exclude each other; a client leaves the registry exactly
  when it is marked and closed, and does so eventually; no goroutine stays behind;
  a shutdown completes.
- Nonces: the bridge checks the nonce the miner found, however it was written, and
  clients with different extranonces are never credited for the same one.
- Jobs: a share for a recent job is checked against the block that was sent
  under that id; the bridge knows the difficulty of a client that has work; jobs come in the layout
  of the miner, and nothing of the header is lost in it.
- Block feed: the feed gives no work after a sync check that failed, every block is
  offered, the callback returns to the RPC client, and a cancellation ends the feed.
- Message queue: one channel, no record lost without a cause, no call that hangs.
- Statistics: no record is listed twice or under a stranger's name, none leaves the
  table but in known ways, nothing is counted twice, and it counts the right miner.
- Aleo upstream: no older work after newer, no listening before subscribing,
  work reaches the client, a broken connection is replaced.

## The modules

**`WorkersListener`** (registry). `OnConnect` and `OnDisconnect` run under
`clientLock`, so each is one action. An extranonce is its number; `ByteBase`
stands for the 256 values of a byte. The code caps the size at 3 bytes, and
`MaxExtranonce` does so too. In this module alone a client may be removed at any
time, also twice; `WorkerConn` says when it really happens.

**`WorkerLifecycle`** (abstract). A client is new, live, closing, gone, in that
order; a closing client is eventually removed while the server serves.

**`WorkerConn`** (listener, connection, context; extends `WorkersListener`).
The reader and the notifiers are threads with a program counter in the shared
sending code: the test of `disconnecting`, the compare-and-swap of `writeLock`
(up to `MaxWriteAttempts` times), the deadline, the write, the release. Calls of
`Disconnect` do nothing after it, so they are counted by the step they are at:
before the test, before the Logout record and the mark, before the close, before the
send on the channel. A send on the unbuffered channel and its receive are
one step. `NewBlockAvailable` may happen at any time and takes the clients
as they are in that step (the code holds the registry's lock meanwhile). Reply
before state change in subscribe, the ignored error of a rejected block, and the
write timeout that the reader mistakes for a read timeout are kept.

**`MinerNonces`** (nonce of a share; extends `WorkersListener`). A miner searches
the nonces that begin with its extranonce and submits one as a whole or
without the extranonce, with or without leading zeros; the bridge
completes what it gets by its length alone. A string of digits is its length and
value. A power `Pow[n]` of the base is the number of strings of `n` digits.
`meant` is what the miner found, `checked` what the bridge parsed.

**`MiningJobs`** (job ring and first pass; extends `JobLayout`). The unlocked read
and write of `JobCounter++` and the second read of `idx := ms.JobCounter` are
separate steps; since the latter is a data race, the compiler may also use the
value it just wrote, and both outcomes are there. The reader authorizes the
client meanwhile: it sets the wallet address, which lets notifiers in, and in
a later step the miner's name, by which the first pass chooses the layout. The
first pass tests and sets `Initialized`, matches the name, stores `UseBigJob`, stores the
difficulty and sends it, one step each. Templates are numbered; `overlapped`,
`nameless` and `early` are history variables. `SetStratumDiff` stores a
new difficulty whose value is filled in by the next statement; the model stores it at
once.

**`JobWindow`** (abstract). A job gets the next id, and the jobs of the last `Size`
ids are found. `MiningJobs` maps its ring and counter to it: while a goroutine
has incremented the counter and not yet written the ring, the newest job is the one
before the counter.

**`JobLayout`** (layouts). Bytes and digits are numbers to a base, a word has
`WordBytes` bytes. Byte orders, the formats `%x` and `%016x` and the way through
`big.Int` are modelled by what they do to the digits. `ReadJob` is the
miner's side (external): low byte first for the four numbers, digits as they come for
the string.

**`BlockFeed`** (PoolApi). The feed is a program counter through `Start`,
`waitForSync`, `reconnect` and the `select`; the notification callback, the
ticker's one-place channel and the statistics goroutine are beside it. So are the
goroutines of `NewBlockAvailable`, any number at a time: a set of kinds, where a
kind is the answer of `GetInfo` the feed had before it started them, or
`authorize` for those that `HandleEvent` starts after a `mining.authorize`
(`stratum_listener.go:119`), at any time after `Start` and without a sync
check. A goroutine that ends may or may not be the last of its kind. kaspad and its
RPC client are modelled from how `api.go` uses them: kaspad goes down and comes back,
gains and loses its sync, notifications get lost, any call may fail; `Close`
is for good and a second `Close` is an error. The deferred `cancel()` of
`ListenAndServe` may come at any time. `FeedChecksSync` is about the feed alone: what
it starts after a failed check fetches nothing, because the client is closed by
then. It does not say that miners get work only while kaspad is synced, which is not
so: an authorize asks nobody, and a check may be stale when its block comes.

**`MessageQueue`** (records). `Insertmqqt` by several goroutines, statement by
statement: `mqlock`, the test of `instance`, dialling and opening a channel with
the lock held, the unlock, the read of `instance` without it, the publication. The
broker may refuse, and close a channel at any time. In `WorkerConn` a publication
is one step that always ends, which `CallsReturn` justifies.

**`ShareStats`** (accounting). `statsLock` guards the table and not the name of the
client. The reader is the only one who renames its client, so the calls of
`getCreateStats` it makes see one name and are one action. The late call of
`OnConnect` runs beside the reader and is a step for each of its reads of
`ctx.DeviceName()`: `LateLock` (the comparison with the empty name), `LateByName`,
`LateByAddr` (which writes the name into the record) and `LateStore`. The name it looks
up, the name it writes and the key it files under can thus differ. A name is read as a
whole: torn reads of a Go string are not modelled. The adds to a
record and to `sh.overall` are separate, unlocked steps, for shares and for verdicts. A
record is a number, which stands for the pointer. Addresses are chosen in `Init`, own
or shared, since `newClient` trims the port. Device names are taken to differ from
addresses. Whether a share is a block and what the node answers is free. What the table
adds up to is the number of its lines when every share counted is a line of its own
(`Lines`).

A record does leave the table: from the empty key, where a client without a name (or
a late call before the authorize, behind a shared address also with a record of a
named client) has put it and the next such record takes its place; or when a late
call whose client was renamed since its look-up stores over the record of the
new name. `RecordsStayFiled` says that there is no third way, and `TableAddsUp` that
the sums are exact until it happens and never too large.

**`AleoUpstream`** (pool session). The lines of the pool are numbered; a read
returns some of them, and may cut the last one, of which neither half is work.
The answers to subscribe and authorize are whatever comes first. `LastWork`
is replaced by every line, and a notifier reads it three times. A client gets
notifiers once it has subscribed, for every line and for every authorize of any
client.

**`MC*`** modules only give symmetry sets and, for the jobs, headers and timestamps to TLC. The modules
`*Proofs` contain the theorems.

## Runs

| Run | Module and configuration | What it shows |
|---|---|---|
| `nonces` | `MinerNonces`, `Nonces.cfg` | extranonces and nonces stay in range; two clients share an extranonce only a full round apart; the nonce that was found is the one checked; no nonce is credited to two clients within a round |
| `conn_safety` | `MCWorkerConn`, `ConnSafety.cfg` | exclusive writes; mark, close, hand over, remove in this order in every race; every Logout record has its removal; the life cycle is followed |
| `conn_live` | `MCWorkerConn`, `ConnLive.cfg` | the life cycle with its liveness; no goroutine leak; a client that hung up is removed; a shutdown completes |
| `jobs` | `MCMiningJobs`, `Jobs.cfg` | recent ids find their blocks unless `AddJob` calls overlapped, and the ring implements `JobWindow` until then; who has work has a difficulty in `state.StratumDiff` or a goroutine about to set it (whether the miner was told is not said); the layout is the miner's once it was chosen; the miner reads the whole header from either layout |
| `shares` | `MCShareStats`, `Shares.cfg` | no record is listed twice; a line shows its key or another name of the same client; the lines add up to the totals until a record is dropped, and never to more; a record is dropped in two ways only; with own addresses, a named line counts only its own clients |
| `aleo` | `AleoUpstream`, `Aleo.cfg` | no older work; listening only after subscribing; work is offered; a reset connection is dialled again |
| `feed` | `BlockFeed`, `Feed.cfg` | what the feed starts after a failed sync check gives nobody work; every block is offered; the callback returns; the feed stops |
| `mq` | `MessageQueue`, `Queue.cfg` | one channel; no record lost without a cause; every call returns |
| `extranonce_reuse` | `WorkersListener`, `RegistryReuse.cfg` | violated, see findings |
| `feed_reconnect` | `BlockFeed`, `FeedReconnect.cfg` | violated |
| `one_reply` | `MCShareStats`, `SharesOneReply.cfg` | violated |
| `share_owner` | `MCShareStats`, `SharesOwner.cfg` | violated |

### Bounds

- `nonces`: five connections over four extranonces, so the counter wraps, with
  clients that left and clients that stay; nonces of four binary digits, two of
  them the extranonce, so that a string may be shorter than, as long as, and longer
  than what is completed. Sizes are general in the theorems.
- `conn_*`: one client. Clients share only the registry (whose own run has
  several) and `disconnectListener`, which the theorems treat for any number of
  clients. Two notifiers and the reader contend for the lock; two attempts
  (3 in the code) are the fewest with a retry; two overlapping calls of `Disconnect`
  are the fewest that race. A goroutine that would start another call waits
  until there is room. The liveness run has one notifier and the aleo protocol,
  which has fewer messages; contention for the lock between reader and
  notifier remains.
- `jobs`: a ring of two slots (32 in the code) and five templates, so that
  every slot is written more than once; two goroutines in `GetNotifyParams`.
  Words of two bytes of four values, with headers and timestamps that have
  zeros at either end of a word: bytes out of order or digits left out show.
- `shares`: two clients, two names and two addresses (all symmetric), so that the
  clients share an address or not; a client gives two names at most, one of which may
  be empty, two shares are submitted and three records created. That is enough for
  every race of a late call with a rename, for records stored over others, and for a
  client that takes over another's record; a call that would create a fourth record
  waits. The theorems are for any numbers.
- `aleo`: three lines, which allows work, something else and work again, two
  notifiers. When both are busy the upstream goroutine and an authorize wait; in the
  code they would start a third.
- `feed`: two blocks, one told and one lost, and a queue of two notifications. The
  goroutines that fetch templates have no bound.
- `mq`: three callers, one in the lock and two that wait for it; three dials, so that
  each can be the one that succeeds. With the dials used up, dialling fails.

The runs without deadlock check are those whose system stops when a bound on
inputs (connections, templates, shares, lines) is used up. In `WorkerConn`,
`BlockFeed` and `MessageQueue` deadlock is checked.

### Fairness

`WorkerConn`: a goroutine that can run does (weak fairness), which includes the
time-outs of writes (5 seconds) and of back-off. A read of a closed connection
fails. Strong fairness is assumed twice. `EndOfBuffer`: a buffer has 1024 bytes
and hence finitely many lines, so its end is reached. `DisconnectSend`: senders
blocked on a Go channel are served first in, first out. Nothing is assumed
of the miner, the chain node or the one who cancels.

`AleoUpstream`: the session goroutine and the notifiers run. Nothing is assumed
of the pool: it may stop to send, and dialling may fail for ever. `BlockCb` is strongly
fair, since authorizes could otherwise take all the modelled notifiers for ever; in the
code it waits for none.

`BlockFeed`: the goroutines run and the timers fire. The cases of the `select` are
strongly fair, since Go chooses at random among those that are ready. Of kaspad it
is assumed only that, while it works, not every request for a template fails
for ever; its sync and its notifications are free.

`MessageQueue`: a call that has the lock goes on, and dialling ends at the latest
with its time-out. Taking the lock is strongly fair: a Go mutex is handed to
a goroutine that has waited for a millisecond. A publication ends: the socket of
the broker is assumed to take what is written to it or to fail. Otherwise nothing is
assumed of the broker.

## Proofs

TLC examines the instances above; the theorems hold for every value of the
constants that satisfies the named assumptions of the modules (sizes are naturals,
the ring and the attempts are not empty, the reader is no notifier; for
`ShareStats`, names and addresses differ; for `MinerNonces`, the extranonce is shorter
than the nonce; for `MiningJobs`, a header has the bytes of its words and a timestamp
fits in a word). None of the invariants is inductive
as the runs state it; each proof module defines a stronger one and proves that it holds
initially and is preserved by every action.

- `WorkersListenerProofs`: a client that was accepted less than a round of
  `MaxExtranonce + 1` connections ago has the value that lies that many steps
  behind `nextExtranonce`, counted in a circle (`LastRound`). Hence `RegistryTypes` and `ExtranonceWindow`.
- `MinerNoncesProofs`: `NonceInv` says that a checked nonce is the one that was
  meant and that it begins with its client's extranonce; strings of `m + n` digits
  are pairs of strings (a bijection), so `Pow[m + n]` is a product, and a number is determined by its leading and its trailing digits, so nonces with different
  extranonces differ, and a whole nonce short enough to be completed begins with
  the extranonce 0. With `ExtranonceWindow` this gives `NonceDisjointWork`.
- `BlockFeedProofs`: `FeedInv` adds that whoever is at or past the `select` was
  told `synced` or has closed the client (`SelectIsChecked`), that `waitForSync`
  returns with no other answer (`Answered`), and that a goroutine the feed started
  after an error finds the client closed (`NotifierIsChecked`).
- `MessageQueueProofs`: `QueueInv` ties the program counters to `mqlock`, so that
  one caller at most is between lock and unlock, says that whoever dials has
  found no channel, and that a caller who is past the unlock without a failure
  of its own leaves a channel behind.
- `WorkerConnProofs`: `ConnInv` adds to the types that clients not yet
  accepted are idle (`FreshIsIdle`), what the reader may be sending
  (`ReaderSends`), and `CloseOrder`: who is past the mark has marked the client,
  who is past the close has closed it. Without the last, neither
  `RemovedIsClosed` nor the refinement is inductive, since they speak of a client
  that several calls treat at once. `ConnFollowsLifecycle` proves, step by
  step, that the goroutines implement the safety part of `WorkerLifecycle`.
- `MiningJobsProofs`: `JobsInv` has what the program counters say of the local
  variables (`LocalsSet`), that without overlap at most one goroutine is in
  `AddJob` and its counter is the current one (`Serial`), that ids are
  distinct and a job that was filed is in its slot until `MaxJobs` newer ones came
  (`JobsFiled`), the order of the first pass (`FirstPassOrder`), and, for the
  layout, that the goroutines with a block that is not early find `UseBigJob` as the
  name demands (`LayoutChosen`) and never share a block (`OwnBlocks`).
  `JobsRingIsWindow` proves step by step, from `Serial`, that ring and counter
  implement `JobWindow`; two ids less than `MaxJobs` apart have different slots.
  `JobsAreComplete` is about the layouts: the number of a string of digits has those
  digits, a number has the value of its digits when they are enough for it, two digits
  make a byte, and a header is its four words.
- `ShareStatsProofs`: `StatsInv` adds that records not created yet are nowhere
  (`Fresh`), that a client whose share is handled has authorized and has a name it gave
  (`Known`), and what a late call knows between its steps (`Late`): the name it looked
  up in vain is still not in the table, since nobody else gets the lock, and the record
  in its hand shows a name of its client. `RecordsStayFiled` follows from it step by
  step. For `CreditedToOwner`, whoever was or will be credited in a record finds it
  under its address, under a name it gave or in the hand of its own late call
  (`Owned`); this is inductive when no two clients share an address, and the run
  `share_owner` shows that the condition is needed. For the sums, all records together,
  in the table or not, count the totals and what is being counted (`SumInv`); the table
  without duplicates is mapped into them one to one. No condition on addresses or names
  is needed for anything but `CreditedToOwner`.
- `AleoUpstreamProofs`: the requests of each point of the session
  (`SessionRequests`), the lines of the buffer are not older than `LastWork`
  (`LinesInOrder`), and no notifier is caused by a line newer than `LastWork`
  (`CausedByWork`).

The library's induction theorems take an operator as parameter, which the provers
cannot instantiate. `MiningJobsProofs` therefore proves induction and recursion
for sets and functions over `0 .. n` once (`InductionUpTo`, `RecursionUpTo`), from the
fact that a set of naturals has a least element, and `MinerNonces` and `ShareStats`
count with cardinalities instead of sums.

Only model-checked: everything under fairness (`ImplementsLifecycle`,
`NoGoroutineLeak`, `HungUpIsRemoved`, `ShutdownCompletes`, `WorkIsOffered`,
`ResetIsRedialled`, `NewBlockIsOffered`, `CallbackReturns`, `FeedStops`,
`CallsReturn`), since the prover has no support for it. Every invariant and every
action property of a passing run is a theorem.

## Findings

Each is a run that TLC refutes, with a comment or document it contradicts
(quoted in `PROJECT.json`):

1. `extranonce_reuse`: extranonces are handed out in a circle without regard to
   who holds them: a miner may get the number of one that is still connected, although
   there are enough for all and that of a miner that left is free.
2. `feed_reconnect`: `Reconnect` closes the RPC client and opens no other; after
   one failed `GetInfo` the bridge never talks to kaspad again.
3. `one_reply`: the verdict on a rejected block is dropped, so an error reply is
   followed by `Result: true` for the same id, and a share is counted.
4. `share_owner`: a client with a new name takes over the record of another
   client behind the same address.

Also visible in the models, without a run of their own: `disconnecting` is tested before
and set after the publication of the Logout record, so two calls that overlap
both remove the client and both are counted (`LogoutsAccounted` allows it);
`Initialized` is set before the difficulty is sent, so a second notifier sends
work before it, and a share for that work would dereference a nil `StratumDiff`
(`share_handler.go:248`; `DifficultyIsComing` bounds the window), or in the other layout
(`LayoutSettles` says for which jobs); when `mining.set_difficulty` could not be sent, the
miner is never told, although the bridge credits it with the difficulty; a first pass between the wallet address
and the name fixes the small layout for good (`nameless`); the aleo branch
checks the length of one `LastWork` and sends the parameters of another; an authorize has
all clients served whether or not kaspad is synced; a channel
that the broker closed is kept, and all later records are lost; a feed that
waits for a sync cannot be cancelled (`FeedStops` needs the sync); after a
cancellation, calls of `Disconnect` block for ever on a channel nobody reads
(`NoGoroutineLeak` excludes that case); `Listen` of the aleo node spins at an
orderly end of file instead of dialling again (`ResetIsRedialled` is about resets
only); records under the empty key are lost with their shares when the next one is
filed there, and a named client's record gets there by the late call of one behind the
same address that is not authorized yet; a late call during a rename files a record
that shows the old name under the new one, or over another record; `readResponse` may drop the first
work of a pool that sends it together with its answer.

## What is not modelled

JSON, logs, wording and metrics. The proof of work, the difficulties (floats)
and the hash rates, so whether a share is a block is a free choice;
`SerializeBlockHeader`, a blake2b hash, taken to succeed; `CalculateTarget`,
a shift of 256-bit numbers whose interesting cases are its real exponents, beyond
TLC's 32-bit integers. The balance check of `NewBlockAvailable`, which only feeds a
metric; `checkStales`, which nothing calls, and the aleo branch of
`startBlockTemplateListener`, which `Start` never reaches; parsing of the
configuration.

## Plan

Done, in this order: `WorkersListener`, `WorkerLifecycle` and `WorkerConn`,
`MiningJobs`, `ShareStats`, `AleoUpstream`, `BlockFeed`, `MinerNonces`,
`MessageQueue`, `JobLayout`, a proof module for each that has state, `JobWindow`
with its refinement, and in `ShareStats` nameless clients, shared addresses and the
steps of the late call. Next:

1. Proofs of the safety facts that the liveness properties rest on, such as who
   holds what the others wait for.
2. The order in which the notifiers of one client send their work.
