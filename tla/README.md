# TLA+ models of the hoprnet relay node

These modules model the parts of the repository under `src/` that keep state
and change it over time. The focus is the packet forward interaction: how a
relay receives, mixes, deduplicates, pays for and forwards a packet, and how
it acknowledges the packet. The payment-channel code around it, both the
`core-ethereum` channel factory and the legacy `paymentChannels` module, is
modelled too. Every action is translated from the source lines that `PROJECT.json`
`map` names. Parts whose code is not under `src/` (Mixer, acknowledgement
handler, PoR library) are modelled from `spec.md` and marked `spec_modelled`.

## 1. Inventory

| Component | Source | State | Operations |
|---|---|---|---|
| Packet forward interaction | `packages/core/src/interactions/packet/forward.ts` | the Mixer, running `handleMixedPacket` calls | `handlePacket`, `handleMixedPacket`, `interact` |
| Mixer (not in src) | spec 4.4 | queue of packets with release times | `push`, timer release |
| HoprDB stores (not in src) | spec 5, 6 | packet tags, unacknowledged tickets, acknowledged tickets | `checkPacketTag`, `storeUnacknowledgedTicket` |
| Acknowledgement protocol (not in src) | spec 4.5 | none of its own; it changes the ticket stores | `sendAcknowledgement`, the ack handler |
| PoR challenge builder (only the test is in src) | `packages/utils/src/crypto/por/index.spec.ts`, spec 4.1 | none (pure functions) | `createFirstChallenge`, `createPoRString`, `preVerify`, `validateAcknowledgement` (module `PoR`) |
| Channel factory | `packages/core-ethereum/src/channel/index.ts` | on-chain channel entry, off-chain `SignedChannel` record in the DB | `create`, `isOpen`, `increaseFunds`, `handleOpeningRequest`, `onceOpen`, `onceClosed`, `getOnChainState`, `createDummyChannelTicket`, `closeChannels` |
| Indexer utilities | `packages/core-ethereum/src/indexer/utils.ts` | latest block number, latest confirmed snapshot, channel entries | `snapshotComparator`, `isConfirmedBlock`, `updateChannelEntry`, getters |
| Legacy payment channel | `src/paymentChannels/index.js`, `eventListeners/close.js` | `TransactionRecord` per channel (state OPENING, OPEN, SETTLING, SETTLED, WITHDRAWABLE), challenges, the tx nonce | `setState`, `deleteState`, `registerEventListeners`, `handleClosedChannel`, `closeChannels`, `contractCall`, the ClosedChannel listener |
| Constants, hardhat config, React section | `constants.ts`, `hardhat.config.ts`, `TeamAndInvestors.js` | none | not modelled: no runtime behaviour |

### How the parts interact

A packet goes from the sender through relays to the receiver. At each node the
transport calls `handlePacket` with the bytes. `handlePacket` decodes the
bytes and pushes the packet into the Mixer. When the Mixer's timer fires it
calls `handleMixedPacket`. It does not wait for the call, so several calls run
interleaved at their `await`s. `handleMixedPacket` then:

1. checks and records the packet tag;
2. if the node is the receiver, emits the plaintext and **returns**;
3. otherwise stores the unacknowledged ticket, re-encodes the packet, and sends
   it to the next hop with `FORWARD_TIMEOUT`;
4. only when that send resolves, sends an acknowledgement to the previous hop
   without awaiting it.

The previous hop's acknowledgement handler then turns its stored ticket into a
redeemable one. The channel factory opens and funds the payment channels that
these tickets draw on. It uses on-chain transactions, the indexer's view of
chain events, and an off-chain record in the DB.

### What is hard

- **Interleaving.** The Mixer releases duplicated packets into concurrent
  `handleMixedPacket` calls. The tag check-and-record must act as one step.
- **Ordering.** The ack must follow a successful send. A reordering pays a
  relay that never relayed.
- **Timeouts.** A send can time out after its packet has already arrived.
- **Partial failure.** The tag is recorded before the ticket is stored. If the
  store then fails, the packet is lost and every retransmission looks like a
  replay.
- **Unreliable delivery.** Packet bytes and acks can be replayed or lost.
- **Crash and restart (channels).** A crash can fall between a confirmed
  on-chain open and the `db.put` of the off-chain record. On restart the legacy
  code re-registers its listeners from the persisted records.
- **Stale state (channels).** The indexer's view of the chain lags behind the
  chain, and `isOpen` compares that view with the DB.

### Properties that make each part correct

- **Forward interaction.**
  - At most one copy of a packet is processed per node.
  - A ticket becomes redeemable only after the next hop relayed the packet.
  - A ticket is redeemed at most once.
  - Every packet is eventually delivered.
  - Every relay is eventually acknowledged.
  - A packet that failed after validation is not treated as a replay.
- **PoR.** An acknowledgement solves a challenge iff it comes from the right
  secret (the test's assertions, over all small secrets).
- **Mixer.** Packets are released in non-decreasing release time, with FIFO on
  ties. Every packet is eventually released.
- **Channel factory.**
  - The on-chain and off-chain views never disagree in a way `isOpen` cannot
    resolve.
  - A channel the counterparty opened is eventually recorded off-chain.
- **Legacy payment channel.**
  - A close worse than the node's own last transaction is never accepted.
  - Startup reconciles settled channels.
  - Records are deleted only for withdrawn channels.
  - Nonces are neither reused nor skipped.
- **Indexer utilities.** Logs are applied in (block, tx, log) order. Stored
  entries survive every reorganisation within the confirmation depth.

## 2. Modules and runs so far

### `PacketForward` (with `MCPacketForward`)

**Nodes and path.** One path: sender `0`, relays `1..N-1`, receiver `N`. All
packets follow this path.

**State.** The state mirrors the code:

| Variable | Stands for |
|---|---|
| `mixer[n]` | the packets in node `n`'s Mixer |
| `handlers[n]` | the suspended `handleMixedPacket` calls, as records `[p, pc]`; `pc` is the await the call waits at |
| `tags[n]` | the recorded packet tags |
| `unack[n]` | the unacknowledged tickets |
| `redeemed[n][p]` | how many times an ack made `p`'s ticket redeemable |
| `wire`, `sent` | a bag of messages in flight, and every message ever sent (what can be replayed) |
| `unsent` | the packets the sender has not sent yet |
| `passed`, `dispatched`, `dropped` | history variables for the properties |

**Actions.** Each action resumes one call and runs it to its next await:

| Action | Code |
|---|---|
| `HandlePacket` | `handlePacket` |
| `MixerRelease` | the Mixer calls `handleMixedPacket` |
| `CheckPacketTag` | line 39, and the receiver branch at lines 41–43 |
| `StoreUnacknowledgedTicket` | lines 45–46; it may reject |
| `Interact` | lines 48 and 51; it may time out, with or without delivery |
| `HandleAcknowledgement` | the upstream ack handler, from the spec |
| `Lose`, `Replay` | the transport and the adversary |
| `Crash(n)` | node `n` restarts: its Mixer and its suspended calls are gone, and the DB stores (tags, tickets) stay |
| `Idle` | all work is done and the nodes wait |

**Faults.** Each fault kind has its own bound: `MaxReplays`, `MaxTimeouts`,
`MaxLosses`, `MaxStoreFailures` and `MaxCrashes`.

**Small operators.** The steps the properties depend on are named operators:
`Deserialize`, `SeenBefore` and `TagRecorded` (line 39), `AckAfterSend` and
`AckAfterTimeout` (lines 48–51), and `Acknowledged` (the ack handler). Each
has a mutant next to it: the same operator with a plausible bug, such as the
ack sent on a timeout, an inverted tag check, or the ticket kept after its
ack. `checkPacketTag` itself is outside `src/`, and spec sections 5 and 6 make
its lookup-and-insert atomic per key, so `CheckPacketTag` is one step. A
property "a replay gets past the check at most once" would follow from that
step alone, so none is checked; the racy variant is listed as a hazard.

| Run | cfg | Expect | Shows |
|---|---|---|---|
| `forward_safety` | `PacketForwardSafety.cfg` | pass | With 2 packets, 2 relays and one fault of each kind, including one crash (about 177k states): a ticket becomes redeemable only after the next hop relayed, and every behaviour implements `OnionPath!SafetySpec`. Packets are a symmetry set. |
| `forward_liveness` | `PacketForwardLiveness.cfg` | pass | Two packets over three relays, with one replay and no loss, timeout or crash (about 128k states, 95 s). Every behaviour implements `OnionPath!Spec`, fairness included, so every packet is emitted. Relays 1 and 2, each followed by a relay, are acknowledged. |
| `last_relay_paid` | `LastRelayPaid.cfg` | violation | Relay `N-1` is never acknowledged, because the receiver returns before `sendAcknowledgement` (forward.ts:43). |
| `replay_after_store_failure` | `ReplayAfterStoreFailure.cfg` | violation | The ticket store rejects after the tag was recorded. The replayed copy is then dropped as a replay, against spec 7. A timeout and a crash are also allowed; TLC finds the store failure, the shortest trace. |

**Why the bounds are enough.** The liveness run has 3 relays, so a middle
relay both receives an ack and sends one. The safety run has 2 relays, so there is both a
relay-to-relay hop and a relay-to-receiver hop. It has 2 packets, so calls for
different packets interleave. One replay is enough to create a duplicate: two
copies in the Mixer, and two concurrent calls. One timeout covers both
outcomes: the packet was delivered, or it was not. One loss, one store
failure and one crash reach the remaining error paths. A crash between the
tag check and the ticket store leaves a recorded tag with no ticket.

**Fairness.** Weak fairness applies to:

- resuming each kind of call at each node, because the event loop resumes
  every settled await;
- the Mixer release, because its timer always fires;
- delivery of what is on the wire, because the transport hands messages over.

Losses, replays and crashes are not fair. Liveness runs set the loss, timeout
and crash bounds to 0, since a lost packet is never retried.

**Abstractions.**

- A packet is its identity, and the tag of `p` at hop `n` is `(p, n)`.
- Decoding and PoR validation are not part of the forward model. They happen
  inside `Packet.deserialize`, outside `src/`, so honest nodes only handle
  valid packets. The PoR operators are checked on their own (`PoR`).
- The Mixer releases packets in any order. Random delays allow every order.
- `storeUnacknowledgedTicket` and `forwardTransform` are one step. No other
  step reads what `forwardTransform` changes.

### `OnionPath` (abstract specification, refined by `PacketForward`)

`OnionPath` states what forwarding promises, without the Mixer, tags, awaits
or wire:

- `reached[n]`: the packets sent to node `n`;
- `emitted[p]`: the receiver emitted `p`;
- `paid[n][p]`: relay `n`'s ticket for `p` became redeemable.

Its actions are `Inject`, `Forward(n, p)`, `Deliver(p)` and `Pay(n, p)`. `Pay`
requires that the next hop did its part: it relayed `p` on, or emitted it.
Each step may happen at most once per packet.

`PacketForward` defines `Path == INSTANCE OnionPath WITH ...`. In the mapping:

- `reached[n]` is the set of packets for which a `pkt` message to `n` was
  ever sent (the `sent` history);
- `emitted[p]` is `passed[Receiver][p]`: 1 once the receiver passed its tag
  check for `p` and emitted it;
- `paid[n][p]` is `redeemed[n][p]`.

`ImplementsOnionPathSafety` (`Path!SafetySpec`) is checked in
`forward_safety`, under every fault. `ImplementsOnionPath` (`Path!Spec`, with
weak fairness on `Forward` and `Deliver`) is checked in `forward_liveness`.
`Pay` has no fairness: `last_relay_paid` shows that the last relay is never
paid.

### `ChannelFactory` (checked directly, numeric constants)

**State.** There are three views of the one channel between initiator `A`,
which calls `create`, and counterparty `B`, which answers in
`handleOpeningRequest`:

| Variable | Stands for |
|---|---|
| `chain`, `deposit` | the contract's channel status (`UNINITIALISED`, `FUNDED`, `OPEN`) and `A`'s deposit |
| `balance` | `A`'s token balance that `increaseFunds` transfers from |
| `idx[n]` | the status node `n`'s indexer has processed; it lags behind `chain` |
| `rec[n]` | whether node `n`'s DB holds the `SignedChannel` record |
| `pc`, `calls` | the await `A`'s running `create` call is at, and how many calls were started |
| `request`, `subs` | the opening request sent to `B`, and `B`'s `onceOpen` log subscriptions (requested, established, fired) |

`getOnChainState` reads `idx[n]`. When the constant `InGanache` is TRUE it
reads `chain` instead, as the code does under ganache.

**Actions.**

| Action | Code |
|---|---|
| `CreateStart`, `CreateIsOpen`, `CreateFund`, `CreateSign`, `CreateOpen`, `CreatePut` | `create`, one action per await (lines 164–222) |
| `IsOpen(n)` | any other `isOpen` call; only its reconciliation (lines 91–98) changes state |
| `HandleOpeningRequest`, `Subscribe`, `OnceOpenSave` | `handleOpeningRequest`, and `onceOpen`'s subscription and its `.then(saveOffChainState)` |
| `Index(n)` | the indexer's `updateChannelEntry` catching up with the chain |
| `Crash(n)` | node `n` restarts. For `A`, the running `create` is lost. For `B`, its log subscriptions are lost. Chain and DB stay. |

`NeedsFunds` (line 189), `AmountToIncrease` (the top-up
`amountToFund.sub(amountFunded)`, line 194) and `IncreaseFundsRejects`
(`increaseFunds`'s zero-balance check, and the token transfer's revert, which
is the contract's and not code in `src/`) are separate operators. The first
two have a mutant next to them: topping up only an empty deposit, and sending
the whole `amountToFund` instead of the difference, which over-fills the
deposit and breaks `TypeOK`.

**Runs.**

| Run | cfg | Expect | Shows |
|---|---|---|---|
| `channel_ganache` | `ChannelGanache.cfg` | pass | Two `create` calls, one reverting `openChannel`, one crash of either node, and any earlier deposit and balance up to `Need = 2` (3,640 states). A record exists only for an opened channel, a channel never opens underfunded, and every `create` ends. |
| `channel_indexer_lag` | `ChannelIndexerLag.cfg` | violation | With a lagging indexer, `isOpen` deletes `A`'s record of a channel that was just opened (line 92). |
| `channel_missed_open_event` | `ChannelMissedOpenEvent.cfg` | violation | `B`'s log subscription is established after `A`'s `openChannel` is confirmed. `B` never sees the log and never records the channel (line 306). |

**Bounds.** `Need = 2` leaves room for a partial deposit plus a top-up. Two
`create` calls let a retry after a reverted transaction meet an earlier
deposit. The violations need only one amount and one call.

**Fairness.** Weak fairness on:

- `A`'s create steps, because each await settles;
- `B`'s handler, because libp2p delivers the request;
- subscription and log delivery, because web3 establishes subscriptions and
  pushes logs;
- indexing, because the indexer processes every block.

`IsOpen(n)` from other callers is not fair: nothing guarantees such calls.

### `TicketWinProb` (pure operators, checked from `ChannelFactory`)

`createDummyChannelTicket` (channel/index.ts:115) builds the threshold as
follows:

1. it fills `Hash.SIZE` bytes with `0xff`;
2. `new BN` reads them most significant byte first;
3. the value is divided by `WIN_PROB`;
4. `toArray('le', Hash.SIZE)` writes the result back least significant byte
   first.

Spec 4.2's win test reads the threshold as a little-endian integer, and a hash
wins iff it is below it. The operators `FromBytesBE`, `WinProb` and
`ToArrayLE` translate line 115. `FromBytesLE` and `IsWinning` are the spec's
win test. They are built on `FoldLeft` and `FoldRight` of `SequencesExt`.

Hashes are 2 bytes of 16 values each, so all 256 hashes are enumerated. At
that size the arithmetic is the same as at 32 bytes of 256 values. `WIN_PROB`
ranges over `1..6`. The code's value is 1.

`ChannelFactory` states `ASSUME WinProbMatchesTarget`: for every `WIN_PROB =
w`, the share of winning hashes is at most `1/w`, and short of it by less
than one hash. The fact depends on constants only, so TLC checks it before
every `ChannelFactory` run rather than as a run property. A big-endian
`toArray`, or a threshold built from `2^256` instead of `2^256 - 1`, makes it
false.

With `WIN_PROB = 1`, the code's threshold is `2^256 - 1`, so the all-`0xff`
hash loses. Spec 4.2's `floor(2^256 / p)` would let every ticket win, but that
value does not fit in 32 bytes.

### `PoR` (pure operators, checked from `MCPacketForward`)

The PoR library is not in the repository; only its test
(`packages/utils/src/crypto/por/index.spec.ts`) is. The operators follow spec
4.1 and the values the test asserts:

- `CreateFirstChallenge(s0, s1)`: the first ticket's challenge is the own
  key share of `s0` combined with the ack key share of `s1`;
- `CreatePoRString(sCur, sNext)`: the next ticket's challenge (the first 33
  bytes, as the test extracts them), then the point of `sCur`'s ack key share;
- `PreVerify` and `ValidateAcknowledgement`, which accept iff the combined
  point has the expected address.

secp256k1 becomes `Z_7` with generator 3. A public key is a scalar times the
generator, and combining keys is addition, so the homomorphism the scheme
rests on holds. The key derivations and the address are hashes; they are
modelled as fixed bijections, i.e. as collision-free.

`MCPacketForward` states `ASSUME PoRTestHolds`, which TLC checks before every
forward run. Over all 7^4 choices of four secrets:

- the test's whole chain of assertions holds over two relayers;
- spec 8's negative cases fail: an ack from any other secret, and any
  challenge address other than the committed one.

Two changes make it false: swapping the two secrets of `createPoRString`, or
a key derivation with collisions. The check shows that the operators agree
with the test and the spec; it says nothing about the curve library.

### `PaymentChannelRecord` (legacy `src/src/paymentChannels`)

**State.**

| Variable | Stands for |
|---|---|
| `rec[c]`, `cob[c]` | the `TransactionRecord` state of channel `c` in the DB, and its `currentOnchainBalance` |
| `local[c]` | `partyA`, `initialBalance` and `lastTransaction` `(index, value)`; fixed per channel |
| `chain[c]`, `closing[c]` | the contract state (0, 3, 4 as in lines 34–36), and the `(index, amountA)` it was closed with |
| `listener[c]`, `logPending[c]` | the in-memory `closingSubscriptions` entry, and a `ClosedChannel` log on its way to it |
| `up`, `startup`, `handling[c]` | the process is running; whether `registerEventListeners` is done or failed; the `autoWithdraw` argument of a pending `handleClosedChannel` |
| `crashes`, `streamErrors` | crashes so far, and `deleteState` streams that failed so far |

The node starts with every channel `OPEN` and its settlement listener
registered, the state after `open` (not in `src/`).

**Actions.**

| Action | Code |
|---|---|
| `ClosedListener(c)` | the listener in `close.js`: `getCurrentOnchainBalance` called on `channelId` (line 77), then `hasBetterTransaction` on `new BN(onchainIndex, 'hex')` (`ParseOnchainIndex`, line 80) chooses `SETTLING` or `SETTLED` |

`ParseOnchainIndex` is the conversion as bn.js 4 performs it. web3 decodes the
`bytes16` index as a `'0x'`-prefixed hex string, `new BN(s, 'hex')` keeps the
prefix and reads `x` as the digit 8, so the result is `8 * 16^32 + index`.
`IndexSpace`, the `16^32` values of a `bytes16`, is scaled down to the
`MaxIndex + 1` indexes of the model. The parsed index is never below the
node's last index, so `hasBetterTransaction` is never true.
| `RegisterEventListeners` | node start: OPEN records get a subscription, SETTLING/SETTLED ones go through `settledChannels.map(handleClosedChannel)` |
| `HandleClosedChannel(c)` | the contract state decides: delete the record, mark it `WITHDRAWABLE`, or throw |
| `Crash` | the process dies (`Halt`). Subscriptions and pending calls are lost, and the DB stays |
| `DeleteStateStreamError(c)` | `deleteState`'s key stream fails while `handleClosedChannel` deletes a withdrawn channel's record. The stream listens for `'err'`, not `'error'` (line 181), so Node throws the error as an uncaught exception and the process dies before the batch is written. Bounded by `MaxStreamErrors` |
| `Close(c, tx)`, `Withdraw(c)` | the contract's environment: someone closes with any transaction, and someone withdraws later |

### `ContractCallNonce` (legacy `contractCall`)

**State.**

| Variable | Stands for |
|---|---|
| `nonce` | `this.nonce` |
| `pc[i]`, `txNonce[i]` | where call `i` is, and the nonce it was handed |
| `sent`, `pool` | broadcast transactions as `<<call, nonce, incarnation>>`, and those not yet mined or dropped |
| `minedCount`, `mined` | the account's mined transaction count (`'latest'`), and the calls whose transaction was mined |

**Actions.**

| Action | Code |
|---|---|
| `ContractCall` | a call begins |
| `EstimateGas` | `estimateGas` resolves; the increment and `nonce - 1` happen in the same synchronous run (lines 497–512) |
| `EstimateGasFails` | `estimateGas` rejects before the nonce is touched |
| `SendTransaction` | `sendTransaction` broadcasts |
| `SendTransactionFails` | `sendTransaction` rejects, and the nonce stays consumed |
| `Mine` | the chain mines in strict nonce order and drops a transaction whose nonce is taken |
| `Crash`, `Restart` | `Restart` is `create`'s `getTransactionCount(..., 'latest')` |

### `LegacyPaymentChannel` (composition)

One `PaymentChannel` process holds both `PaymentChannelRecord` and
`ContractCallNonce`, each as an `INSTANCE` sharing `up`. Their own steps
interleave. `Crash` is both crashes at once. `Create` is `PaymentChannel.create`
(lines 88–112): it reads the nonce, then runs `registerEventListeners`.
`DeleteStateStreamError` kills the process too. The nonce half labels each
transaction with the process incarnation (`faults.crash`), so it is
instantiated with a budget of `MaxCrashes + MaxStreamErrors` deaths and counts
both kinds.

### `IndexerSnapshot` (with `MCIndexerSnapshot`)

The utilities are `snapshotComparator`, `isConfirmedBlock` and
`updateChannelEntry` with its `LATEST_CONFIRMED_SNAPSHOT` put. The indexer
that calls them is not in `src/`. It is modelled as the loop they are written
for:

- take the first log in comparator order, among the confirmed logs after the
  latest confirmed snapshot;
- write it with `updateChannelEntry`.

The chain grows block by block and may drop up to `MaxReorgDepth` of its last
blocks. Every block has a unique id, so a re-mined block at the same height is
a different block. `MCIndexerSnapshot` gives two logs of two channels, at
`(tx 0, log 1)` and `(tx 1, log 0)`, which tx-first and log-first order rank
differently.

### Legacy and indexer runs

| Run | cfg | Expect | Shows |
|---|---|---|---|
| `close_index_parse` | `CloseIndexParse.cfg` | violation | One channel, closed with a transaction older than the node's last one that pays it less: the listener marks the record `SETTLED` (close.js:80), because the parsed on-chain index is never below the node's. The trace is three states: `Init`, `Close`, `ClosedListener`. The run uses the composed `LegacyPaymentChannel` with one `contractCall`, so the close happens in a running process. |
| `startup_map_index` | `StartupMapIndex.cfg` | violation | Two settled channels at a restart. `map` hands index 1 to the second call as `autoWithdraw`. That call reads the undeclared `localState`, and `PaymentChannel.create` rejects (index.js:221, 243). |
| `nonce_gap` | `NonceGap.cfg` | violation | A send rejects after its nonce was taken. The next transaction is never mined (index.js:501). |
| `nonce_reuse_after_restart` | `NonceReuseAfterRestart.cfg` | violation | After a restart the nonce read with `'latest'` ignores a pending transaction, and the next call reuses its nonce (index.js:92). |
| `indexer_snapshot` | `IndexerSnapshot.cfg` | pass | Two confirmations, reorganisations up to that depth, and five blocks. A stored entry always comes from a block still on the chain, and no confirmed log before the latest confirmed snapshot is skipped. About 10k states in 2 s. |

**Bounds.**

- One channel shows the accepted worse close; `startup_map_index` needs two
  settled channels, the fewest for which `map` hands over a non-zero index.
- `Total = 1` and indexes `0..1`, over both parties, cover every outcome of
  `hasBetterTransaction`.
- Five blocks with two confirmations let a reorganisation of depth 2 reach
  just past the confirmation boundary.

**Fairness.** The runs in this section check invariants, plus `EveryTxMined`
in `nonce_gap`, which assumes that awaits settle and the chain mines every
valid transaction (`ContractCallNonce`'s `Fairness`). `PaymentChannelRecord`
states fairness for the listener, the startup handlers and the restart; the
violation runs do not depend on it.

Deadlock is not checked in these runs. The channels, calls and blocks are
finitely many, so the system stops once they are all done.

**Not followed by the model.** `getOnChainState` returns
`indexer.getChannelEntry(...)` without `await` (channel/index.ts:354). If the
getter is async, the `"all 0"` fallback never runs, and callers read
`.status` of a Promise. The indexer class is not in `src/`, so this is listed
as a hazard with no property.

**Checked only as hazards.** Two behaviours are in the models without a run of
their own:

- **A close log missed during downtime.** `registerSettlementListener` sees
  only new logs, so a channel closed while the node was down stays `OPEN`. The
  same pattern in `ChannelFactory` is `channel_missed_open_event`.
- **A wrong `currentOnchainBalance`.** It is computed from `channelId` instead
  of the record (close.js:77).

## 3. Plan

The plan runs in order of importance:

1. **`PacketForward`** (done, with `Crash` and the `OnionPath` refinement).
   Still to do: the bounded retry question for `interact`.
2. **`Mixer`** (spec-modelled).
   - The timed heap: `push` assigns `now + delay`, and the timer releases due
     entries in release-time order with FIFO on ties.
   - An optional capacity.
   - `AbstractMixer`, the bag `PacketForward` uses, and `Mixer` shown to refine
     it with `INSTANCE ... WITH`.
   - Runs: the release order property, and the refinement as a `PROPERTY`.
3. **`PoR`** (done, spec-modelled, pure operators).
   - The secp256k1 group is replaced by `Z_q` for a small prime `q`. Key
     shares are scalars, and public-key combination is addition.
   - `createFirstChallenge`, `createPoRString`, `preVerify` and
     `validateAcknowledgement` are operators.
   - The assertions of `index.spec.ts` are checked over all small secrets,
     including the negative case.
4. **`ChannelFactory`** (`channel/index.ts`, partly done). Still to do:
   `onceClosed` and `closeChannels`. The crash between the confirmed
   transaction and `db.put` is in. What was planned:
   - State: on-chain channel status, the indexer's lagging view, and the
     off-chain DB record on both parties.
   - Actions:
     - `create`, with the `isOpen` reconciliation, `increaseFunds`, the open
       transaction, then `db.put`;
     - `handleOpeningRequest`, `onceOpen` and `saveOffChainState`;
     - `onceClosed`;
     - crashes between the confirmed transaction and `db.put`.
   - Properties:
     - `isOpen` never throws on states the code can reach;
     - the counterparty eventually records an opened channel.
5. **`PaymentChannelRecord`, `ContractCallNonce`, `LegacyPaymentChannel`**
   (partly done). Still to do:
   - the DB key builders: `ChannelId` passes `PREFIX_LENGTH` as
     `Buffer.concat`'s total length (index.js:328), so every key is cut to
     `payments-`;
   - `closeChannels`.

   Done: `deleteState`'s `'err'` listener, as the process death it causes
   (`DeleteStateStreamError`), and the parse of the on-chain index
   (`ParseOnchainIndex`, `close_index_parse`).

   What was planned:
   - The `TransactionRecord` state machine, and restart through
     `registerEventListeners`.
   - `handleClosedChannel`, the ClosedChannel listener (`hasBetterTransaction`),
     and `contractCall` nonces across concurrent calls and failed sends.
6. **`IndexerSnapshot`** (done for the comparator, confirmation and
   `updateChannelEntry`). Still to do: `getChannelEntries`' party filter.
   What was planned:
   - `snapshotComparator` checked against lexicographic order on bounded
     triples.
   - `isConfirmedBlock`.
   - `updateChannelEntry` under out-of-order updates.
7. **`TicketWinProb`** (done as pure operators). The ticket's hash and
   signature are outside `src/`.

## 4. Not modelled, and why

- **Code outside `src/`.** This covers the Mixer's timed heap, the ticket
  store, the PoR library (modelled only as operators), `Packet.deserialize`, `initiateSettlement`, `transfer` and the
  indexer class. Where the spec describes one of them (Mixer, ack handler,
  tag and ticket stores), it is modelled only as far as `src/` code uses it:
  the Mixer as a bag, and the ack handler as `HandleAcknowledgement`.
- **The Mixer release order** (spec 4.4). It has no run of its own yet.
  `PacketForward` relies only on every order being possible, which holds for
  random delays.
- **The settlement the SETTLING branch starts.** `close.js:88` calls
  `submitSettlementTransaction`, which is defined nowhere in the repository.
  The model records the SETTLING state. There is nothing to model of the
  submission.
- **The listener's read before `setState`** (close.js:69, index.js:118-133).
  No other code under `src/` writes the record while the listener runs. A
  crash between the read and the put has the same effect as a crash before the
  log arrives. So the listener is one step.
- **`onceClosed`, `closeChannels` and `getAll`** (channel/index.ts:230-270,
  415-444). `closeChannels` hands each record to `initiateSettlement`, which
  is not in `src/`, and nothing under `src/` calls `onceClosed`. `onceClosed`
  subscribes to logs the same way `onceOpen` does, so it has the same race
  that `channel_missed_open_event` shows.
- **The legacy DB helpers** (`setState`, `state`, the key builders, the
  success path of `deleteState`, `getPreviousChallenges`, `getLatestTransactionFromCounterparty`).
  `PaymentChannelRecord` takes each record write as one step. Challenges and
  the settlement protocol have no callers the model includes.
- **bn.js 5.2 and later.** There `new BN('0x…', 'hex')` throws instead of
  misreading the prefix: the listener rejects before `setState`, and the
  record stays `OPEN`. `src/` pins no bn.js version; the model follows
  bn.js 4 and 5.0–5.1, which read the prefix as the digits 0 and 8.
- **In-process nonce uniqueness** (index.js:497). `ContractCallNonce` models
  the increment and the use of `this.nonce - 1` in one synchronous run after
  `estimateGas`, which keeps the nonces of one process distinct. No run checks
  this on its own: `nonce_reuse_after_restart` shows that uniqueness fails
  across a restart.
- **Pure I/O and configuration.** These are `getAll`'s stream plumbing, the
  hardhat config, the constants and the website section.
