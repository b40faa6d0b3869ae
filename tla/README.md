# Ambra: a TLA+ verification project

Ambra is a non-custodial wallet for Bitcoin and Sequentia: a Flutter
application (`app/lib/src`, Dart) over a Rust core (`ambra_core/src`). What is hard
in it is trading across chains and Lightning: a swap locks money of ours under a hash,
a process that may die at any await drives it, the counterparty is unknown, and the
only thing that brings the money back is a record on the phone. Under that lies the
Rust core: one wallet that every call shares, the transactions and scripts it builds,
and the messages it signs for relays, hosts and coordinators it does not trust. This
project models both, checks them with TLC and proves their safety with TLAPS.

1. [Inventory](#1-inventory)
2. [Modules and the code they stand for](#2-modules-and-the-code-they-stand-for)
3. [Runs](#3-runs)
4. [Bounds and abstractions](#4-bounds-and-abstractions)
5. [Fairness](#5-fairness)
6. [Proofs](#6-proofs)
7. [Findings](#7-findings)
8. [Not modelled](#8-not-modelled)
9. [Plan](#9-plan)

Run `tlc -workers 2 -config MCXrSwap.cfg XrSwap` for a run and
`tlapm SubmarineBuy_proofs.tla` for a proof; `PROJECT.json` lists the runs, the source
lines of each definition, the hazards and the theorems.

## 1. Inventory

`data/` below is `src/app/lib/src/data/`.

| Component | State it keeps | Operations | What makes it correct |
|---|---|---|---|
| Trade record store, `trade_slots.dart` | per kind of trade: a list in secure storage, a mirror file, the single slot of an older version | `readAll` (adopts the legacy record, falls back to the mirror), `upsert`, `removeWhere`, wipes | an acknowledged save survives crashes and keystore loss; a removed record stays removed; adoption happens once |
| Submarine buy, `subswap_service.dart` | `SubswapRecord` | live drive `runReverseBuy`, claim, resume at a cold start | we pay only for a leg that is ours for good, and can still claim after the latest reveal |
| Submarine sell, `subswap_service.dart`, `submarine_swap_screen.dart` | `SubswapRecord` with the broadcast intent and height | live drive, resume with a scan of the HTLC address, refund, abandon dialog | no funded record is dropped; the asset becomes bitcoin or comes back; an unfunded record is freed |
| Forward cross lift, `xchain_swap_service.dart`, `cross_lift_service.dart`, `xchain_swap_screen.dart` | ONE record slot | lift in the background, recovery screen with claim and refund | the secret goes out only for a leg the maker cannot take back; Bitcoin that is locked comes back |
| Reverse cross swap, `xr_swap_service.dart`, record sheet in `swap_screen.dart` | `XrSwapRecord` | live drive over a courier, settle, resume, refund, abandon | our asset is locked only behind a Bitcoin lock that outlives it; it is paid for or refunded |
| Trade slots, `trade_slots.dart` 450-482 | none; counts five stores | `refusalIfFull` | the cap on concurrent trades |
| SubswapStore, `subswap_service.dart` 531-860 | list of records, legacy record, in-flight flag | load, save, sweep of the legacy record | an orphaned record is neither driven twice nor lost |
| Covenant orders, `seqob_covenant_derive.rs`, `api/mod.rs` 384-1114 | the funded output, the listing | prepare, fund, finalise, post; plan, build and send a fill; reclaim | the maker is paid his rate over any sequence of fills; no dust; a planned fill passes the leaf |
| Placed orders, `placed_orders.dart`, `swap_screen.dart` 4241-4312, `my_orders_screen.dart` 59-126 | one stored list for the orders of the wallet and the peg, without a lock | put and remove, each a read and a write of the whole list | an order that was ever listed can be reclaimed until its output is spent |
| SBTC peg, `sbtc_peg_service.dart` | pending peg-ins (an unlocked list) | peg in, post, resume | each peg-in is posted once |
| Sub-asset buy and sell, `subasset_buy_service.dart`, `subasset_sell_service.dart` | one record per trade | fund, hold invoice, settle or refund; nonce-idempotent pay, claim | no locked asset without a record; a lost answer is not a second payment |
| LSP payer bridge, `lsp_bridge_service.dart` | `LspBridgeRecord` | mint P, job, hold paid by hash, verify leg, claim; resume | the hold is paid once; P goes out only inside the claim window |
| Pure-Lightning take, `ln_take_service.dart` | one record | save, request, poll | saved before the request that commits it |
| Planners, `swap_route.dart`, `market_walk.dart`, `cross_walk.dart`, `book_levels.dart`, `cross_terms.dart` | none | pure functions | totals, rounding in the right direction, no double use of an offer |
| CoinJoin, `coinjoin_protocol.dart`, `coinjoin_service.dart`, `api/mod.rs` 2960-3148 | the round, the addresses drawn | choose coins, register, verify, sign | a signed round costs the coordinator's fee and no more |
| Shared wallet, `lib.rs`, `api/mod.rs` 1720-1840 | one `Wollet` per descriptor behind one mutex, scan marks, a store on disk | `with_synced_wollet`, `scan_into`, `mark_scanned`, `clear_scan_marks`, rebuild | a call works on a view that is recent and has the wallet's own broadcasts; every call returns |
| Payments, `api/mod.rs` 1560-2052 | transactions under review, pending, confirmed | send, issue, reissue, burn, stake, bump, replace, child | a payment is made once |
| Pool delegation, `api/mod.rs` 2055-2433, `stake_screen.dart` | the live record on the chain, stored hints (20 at most) | find, delegate, move, leave | one live record, and it is found again |
| HTLC legs, `api/mod.rs` 1117-1518 | keys from the seed | scripts, reveal gate, claims, refunds | no leg is lost without the other |
| Rewards, `rewards.rs`, `reward_convert.dart` | a ledger in memory and in preferences | attribute, batch, decide, pass | a reward is sold once |
| Device signer, `signer.rs`, `seqln_signer.dart`, `lightning_service.dart` | handshake and transport, a serve loop | connect, serve, disconnect | the n-th reply answers the n-th request, to the host alone |
| Offers, `seqob_wire.rs`, `seqob_client.dart` | the maker's key, the relay's book | sign, post, verify, list, cancel | what the taker lists as verified is what the maker signed |
| Courier, `seqob_courier.rs`, `cross_courier.dart` | session keys | seal, open | see [Not modelled](#8-not-modelled) |
| OpenAMP, `openamp_service.dart`, `api/mod.rs` 2434-2800, `send_screen.dart` 937-958 | account id, the transfer under way | register, draft, recompute, review, sign | what is signed was decoded for review and confirmed |
| LSP client, wallet cache, registry | connections and caches | requests and parsing | see [Not modelled](#8-not-modelled) |

How they interact:

* Every swap service persists through `TradeListStore` (the forward lift alone has a
  slot of its own) and broadcasts through `tx_flow.dart`, whose `onAboutToBroadcast`
  hook runs after authorisation and before the irreversible call.
* A live drive runs as a Dart future that nobody cancels: it goes on when its screen
  is closed, and dies with the process. `shell.dart` resumes the stored records once
  the Lightning service has started; screens and sheets resume single records on demand.
* The maker speaks over a sealed relay (`cross_courier.dart`); a message may never come
  and what comes is the maker's word. Chains are read through indexers that lag.
* Dart calls the Rust core through the generated bridge, whose pool runs calls in
  parallel; all that read the wallet meet at one mutex. Bridge calls keep no other state,
  so what Dart holds between two calls (a built transaction, a draft, a round) may be
  stale at the second.

Behaviours that are hard, and that the modules are about: several drivers of one record
that each hold a copy of it; a crash between an irreversible act and the save that
records it; a call whose answer is lost; reads before an await used after it; two
chains with their own reorganisations and clocks; a refund racing a claim; storage that
fails half way. `PROJECT.json` lists each as a hazard with its line and the properties
that would catch it.

## 2. Modules and the code they stand for

| Module | Stands for |
|---|---|
| `SwapRecord` | the abstract specification: money leaves the wallet only under a record that can bring it back, and the record stays until the swap is resolved |
| `TradeListStore`, `MCTradeListStore` | the record store, await by await |
| `SubmarineBuy` | `runReverseBuy`, `_claimReverse`, buy branches of `resume` |
| `SubmarineSell` | `runSubmarineSell`, sell branches of `resume`, `abandonUnfundedSell` |
| `CrossLift` | the forward lift, its slot and the recovery screen |
| `XrSwap` | the reverse swap and its record sheet |
| `WalletScan` | the shared wallet: cache, mutex, scan, marks, store, rebuild; the pool of the bridge |
| `WalletTx` | what the wallet builds, reviews, sends, bumps and replaces |
| `CovenantOrder` | a resting order: derivation, the maker's flow, fills, reclaim |
| `PlacedOrders` | the stored list that keeps an order reclaimable, and the two screens that write it |
| `Delegation` | the delegation record of a staking pool and its lookup |
| `HtlcLegs` | the legs of a cross-chain swap, built and spent, under reorganisations |
| `RewardConvert` | attribution, batches, decision, pass and ledger of staking rewards |
| `DeviceLink` | keys of hosted nodes, Noise handshake, records, serve loop, service status |
| `SeqobWire` | the signed offer through the relay, and the three shelves of the taker |
| `OpenAmp` | account, drafts, digests and tagged signatures of restricted assets |
| `CoinJoin` | the wallet's part of a round |
| `MCRustCore` | one run over the ten modules from `WalletTx` to `CoinJoin` |
| `*_proofs` | theorems, see [Proofs](#6-proofs) |

The four swap modules refine `SwapRecord`: each instantiates it with its own notion of
recorded, committed and resolved, and has its specification as the property
`WriteAhead`. They are separate state spaces, since the services share no variable
but the store, and the store promises `Durable` to each of them: a save that returned is
read back. The swap modules take exactly that of it: one variable `saved` (or `slot`)
that a save replaces.

**TradeListStore.** `secure`, `mirror`, `legacy` are the three places on disk; a list is
a function from ids to contents, since order plays no part. An operation starts when
the per-store lock (`_locked`, 161-168) is free and then takes one step per await:
`ReadLegacy`, `AdoptName`, `ReadSecure`/`ReadCorrupt`/`ReadNothing`, `AdoptMirror`/`NoRescue`,
`WriteBack`, `SecureWrite`, `MirrorTruncate`, `MirrorFlush`, `SecureDelete`, `MirrorDelete`,
`LegacyDelete`, with the failing form of each that can fail. `Crash`, `KeystoreLoss` and
`Corruption` may come between any two. Four history variables say what a later read may
return (`possible`), where the mirror may be behind (`behind`), which ids a double fault
has hit (`exposed`) and under which ids the legacy record was adopted.

**SubmarineBuy.** `pc` walks the live drive: terms, verify, claim window, anchor burial,
payment gates and the save as `paying` (write-ahead, 1347), `connectNode`, payment, claim,
save. `Resume` goes on from the saved state as `_resumeInner` does; `ResumePays` is its
own payment (1746), which passes fewer gates than the live one. The maker chooses what
it announces (`Flaws`, `Cltvs`, `Locktimes`), when it settles a held payment and whether
it takes the asset back. `LegMoves` confirms, reorganises and buries the leg.

**SubmarineSell.** The live drive with the intent and the broadcast height saved in the
hook (1541-1560), the hold invoice, and resume with its scan of the HTLC address. The
indexer has its own tip `view`, may lag, and may or may not know the mempool (`MaySee`,
`MayMiss`). The abandon dialog is `OfferAbandon`, `ConfirmAbandon`, `RescanEmpty`,
`AbandonRefused`, with the height proof `ProvesEmpty` (1011-1019) and the driving guard
`_isDriving`.

**CrossLift.** Each lift and the screen hold their own copy `mem` of a record and write
the one `slot` with it. `BeginCheck` reads the slot's guard and `BeginSave` writes it
later, as the code does; `FundSave` precedes `Broadcast` (290, 291); `ClaimGates` reads
the tip and `ClaimSend` reveals the secret `Delay` later. `Polls` keeps what
`_arm` of the screen polls at each step.

**XrSwap.** The live drive and the sheet each hold a copy of one record, and nothing
keeps them apart. `BtcReorg` replaces the block of the maker's lock and takes the
Sequentia blocks anchored to it along; `MineFunding` may land on a branch with a lower
anchor than the drive saw. `Abort` is the end that any pre-fund step may take. `Confirm`,
`Learn`, `Claim` and `SaveClaimed` are shared by both drivers, as `settle` is. A `Save`
changes the copy and may then throw; after a throw in `Learn` (945-957) the live drive goes on, since
the code catches it there. Both copies end with a crash.

**WalletScan.** `pc` of a worker: `Call` (the dispatcher of `frb_generated.rs`), `Enter` (the
mutex, the cached or built wollet, the shared scan or a new one, 1784-1804), `Apply` or
`Rebuild` (1806-1834), `MarkScanned`, `Run`. `Broadcast` does not take the mutex, and
`ClearScanMarks` (1637) follows it only when its answer came. Time is counted from two
events: the last `mark_scanned`, and the moment what the wollet shows was current. `own`
and `floor` are history variables: the last own broadcast that returned with no scan
under way, and its value when each call began.

**WalletTx.** A built transaction waits in `review` beside others, `shown` is the view of the
last scan. The node's rules (valid inputs, replacement by fee, orphans) are external.
All bumps and replacements of a payment carry its `pay`.

**CovenantOrder.** The numbers are real: the rate is reduced by its gcd, prices are rounded as
`ceil_price` does, computed in 128 bits and returned in the 64 of a `u64`, and the leaf refuses what
overflows `Word`. `OthersFill` is any spend the leaf accepts. `FetchUtxo` reads the value of an output
whether or not it is spent, as `fetch_utxo` (1013-1052) does. `Served` are the terms a relay may hand a
taker: the maker's, wrong ones, a key that somebody knows, or some with a field lost; a taker refuses a
key that is not the unspendable one, another script, or another asset (`VerifyAgainstSpk`).

**PlacedOrders.** `put` and `remove` are two steps each, a read of the whole list and a write of it
(`ReadList`, `WriteList`), and nothing keeps writers apart: `rest` is the flow of `_executeRestPost`,
which puts its record three times, `reclaim` is the orders screen, and `another` stands for the other
orders, the peg's among them. A list that does not decode reads as empty (`Undecodable`). The history variables
`apart` and `decodes` say whether a list was ever written over a later one, or stopped decoding; `listed`
that the offer was ever posted, whatever became of it. `Unlist` comes before a reclaim or at any other
time, `PostRest` may be followed by an answer that is lost (`AbandonRest`), and a reclaim removes the
record only after the broadcast was answered.

**Delegation.** `Lookup` takes the history pass and settles which signers are asked about: the stored
hints, or none of them when they cannot be loaded, and the pools on the board. `Probe` asks about one,
`InForce` chooses among what was found. `Remembered` is the store of a hint: it may fail without
notice, and keeps the latest `HintCap`. `ChooseJoin` reads what the screen shows and `SendJoin` sends
after dialog and authorisation, whatever happened in between. `Leave` sends the spend of the record,
and `ConfirmLeave` is its block: until then the record stands in the chain (`LiveRecords`). `slips`
marks a pool joined before the screen had looked (`early`, the button at stake_screen.dart:660
allows it), one joined while a leave waited for its block (`loose`), and a lookup that asked nobody about
the record there is (`blind`).

**HtlcLegs.** Both directions of `api/mod.rs` 1117-1518. The maker funds any leg with any key
and locktime; a reorganisation replaces fewer blocks than the reveal gate asks for. It is
modelled forward only: in reverse the taker's waiting for anchors is what `XrSwap` is
about. A leg of his own that a reorganisation drops is included again.

**RewardConvert.** `Attribute` is called by the screen with the chain's maturity and by
`RewardConvert.attribute` with 100 (`OwnDepth`), and what it answers is in the callers' hands when a pass
begins, however old. A pass is `RunPass`, then per batch `Quoted`, `Commit` (the ledger is written),
`Execute`, `Settle` (written again); a dry one ends at the quotes. Several `Runners` may be in one at a
time. `LoadFor` and `Loaded` are the two halves of the load that the screen makes. `lapses` marks what the
ledger does not guard against: two real passes at a time, a load between a change of the ledger and its
write, a ledger that does not decode, an entry beyond the cap of 200, and a maturity that is not the
chain's.

**DeviceLink.** Requests are two units, length and body; the host puts any number of units into
a record, and header and body of a record arrive one by one. `ServeFails` is any end of the
loop. `NodeIdSeen` asks for the node's id before the state of the link, as `whenNodeId` does. The nodes are
the two hubs, the wallet's own Bitcoin node, which has the path of the Bitcoin hub
(lightning_service.dart 313-372), and one per asset; `AssetIndex` is any map of the assets to indexes, since the
31-bit fold of an id may collide (signer.rs 329-345). `SameKeys` says which nodes have their keys in common.

**SeqobWire.** One field per type of the encoder, a covenant's bytes among them: signed in hex, posted
in base64 (`ForPost`), read as hex (`AsBytes`). `Rendered` is what the relay makes of an offer; `Alters` changes a
value, the signature's text, the key, the caps, or signs anew. The taker's three `Shelves` keep different
offers (`Keeps`): `fetchBook` lists an offer whatever `verified` says, the other two only what verified.
`book` is the shelf listed last. `caps` are read beside the offer and are not part of what is signed.

**OpenAmp.** The enclave chooses the draft, each digest and the script it calls ours, the explorer the
owners of inputs; `LocalDigest` is what the wallet recomputes and signs. `Effects` is the review sheet:
an output that does not have the script the enclave told is shown as the recipient's, whomever it pays.
Documents are signed in a domain of their own (`Tagged`), under the same key. `Replace` opens another
wallet in the process.

**CoinJoin.** `Picked` is the greedy choice of coins, `Owed` what the round must pay, and `Offered`
what a coordinator may send: what is owed, at most one output less and one more, over the
wallet's coins or all but one of them. `base + fresh` is `_nextFreshIndex`; `RestartApp` resets `fresh`.
One round runs at a time, which the busy flag of one mix screen ensures, and a lane has a denomination of at least 1 and
a fee of at least 0, which the code does not check.

The modules of the Rust core share no state with one another, so `MCRustCore` chooses one of
them in its initial state (`part`) and lets it run; the others stay where they start. A
property of one part is checked in every behaviour of that part, and nothing is composed
that does not interact. Where they do depend on one another they do so by a promise: the
view that `WalletTx` works on is as old as `WalletScan` allows (in `WalletTx`, any age), and what
`CrossLift` and `XrSwap` take of a leg is what `HtlcLegs` shows of scripts and gates.

## 3. Runs

| Run | States | What it shows |
|---|---|---|
| `trade_list` | 1 011 304 | two callers, two records, every fault: `Durable`, `AdoptedOnce`, `CorruptPreserved` |
| `submarine_buy` | 64 901 | `PaidLegIsOurs`, `LiveRevealLeavesMargin`, refinement of `SwapRecord`, and `Recovered`: paid means claimed while the window is open |
| `submarine_sell` | 39 100 | `ClearedIsUnfunded`, refinement, `FundsReturn`, `Unwedged` |
| `cross_lift` | 128 584 | `RevealedIsOurs`, refinement for each lift, `LockedComesBack`, with lifts one after another |
| `xr_swap` | 54 722 | `AnnouncedIsCovered`, refinement, `Settles` |
| `wallet_scan` | 52 474 | `FreshView`; `CallsReturn` and `CatchesUp` under fairness |
| `rust_core` | 755 614 | per part: `PaidOnce`; `NoDust`, `MakerPaid`, `PlannedFillPasses`; `ReclaimKept`; `OneRecord`, `FindsLive`; `TakerWhole`; `SoldOnce`; `LinkFaithful`; `WireFaithful`; `OnlyReviewed`; `CostsTheFee` |
| `trade_list_clobber` | violated | `MirrorNeverClobbered` |
| `submarine_buy_reveal` | violated | `RevealLeavesMargin` |
| `submarine_buy_closed` | violated | `ClosedWindowIsNoLoss` |
| `cross_lift_overwrite` | violated | `NeverOverwritten` |
| `cross_lift_refund` | violated | `AlwaysRefundable` |

What some of them leave open, so that a pass is not read for more than it says:

* `Durable` excepts the ids that two storage faults, or a put-off adoption, have hit (`exposed`) and
  allows what an operation that never returned may have done (`possible`): a removed record that a failed
  mirror delete brings back, or a legacy record that returns after its read threw, pass it.
* `PaidLegIsOurs` says what is paid for, not when: a resume that cannot read the tip (1740) pays past T_seq.
* `WriteAhead` of `cross_lift` asks that the slot keeps the lift's record, not that its step never goes back.
* `Settles` of `xr_swap` accepts a refund that was merely sent.
* `TakerWhole` is checked with a gate of two blocks, below which reorganisations happen. The app asks for
  one (`kAnchorDepthD`, xchain_swap_service.dart:17), where the module knows no reorganisation that a gated
  anchor is meant to survive.
* `CostsTheFee` compares rounds of one process: after a restart addresses are drawn again.
* `OneRecord` and `SoldOnce` name in `slips` and `lapses`, and `ReclaimKept` in `apart` and `decodes`, each
  way in which the code does break them, and exclude every other.
* `WireFaithful` says nothing of an offer with a covenant's bytes that fails its check, nor of `caps`;
  `LinkFaithful` nothing between nodes that one path derives; `OnlyReviewed` nothing of whom an output pays.

Every property of a passing run has a mutant in its module, next to the definition it
mutates: a lock that is not taken, a save that is skipped, a guard on the wrong step, a
height compared without its margin. The run finds each of them.

## 4. Bounds and abstractions

* **Store**: two callers show every interleaving of a pair of operations, and the lock
  makes a third wait for both; two ids tell a record from its neighbour, two contents an
  old value from a new one. `SomeCovered` prunes states in which a double fault has hit
  every record, where no property says anything. Proved without bounds.
* **SubmarineBuy**: `MaxTip = 6`, T_seq of 3 (too short for every gate) or 6, an invoice
  whose hold lasts 0 or 2 Sequentia blocks, a margin of 1 (120 in the code), 1 block of
  delay before the payment. Each gate can pass and refuse, a hold can end before and
  after T_seq - margin.
* **SubmarineSell**: `MaxTip = 6`, T_seq of 3 or 5, `Depth = MaxLag + FundIn = 3`, the least
  depth its assumption allows.
* **CrossLift**: two lifts, T_seq = 2, T_btc = 3, a margin that its assumption makes no
  longer than the delay of a claim. One clock stands for both chains, because the code
  compares T_seq and T_btc only with the tip of their own chain; their order is an
  assumption, as 216 checks it.
* **XrSwap**: three Bitcoin blocks: the lock's, one anchored above it, and one more for
  the reorganisation, which replaces one block. `TSeq = 1`: before and after the refund
  opens. The windows of `fundWindowClosed` end the drive before it funds, so they are
  part of `Abort`; a swap in which they never close is among the behaviours.
* **WalletScan**: two workers meet at the mutex, TTL 2 against a scan of 1 tick, so a mark
  is there or has expired when the next call comes; two changes of what the server has,
  one of them of its tip, and one fault.
* **WalletTx**: two coins, three transactions, two fees: a payment, its replacement and a
  third that conflicts with either or spends its change.
* **CovenantOrder**: one offer with a price below one, which rounds, and one with a price
  above it, a least lot of half, a word of 18, so that products overflow and fit, and
  up to three outputs by partial fills.
* **PlacedOrders**: no bound; this order, the others as one, three writers.
* **Delegation**: two signers, two records, a memory for one hint, one failed request. **HtlcLegs**: six blocks,
  a gate of two, locktimes 4 and 5: before, between and after both. **RewardConvert**: a coinbase
  that matures, a payment from elsewhere, one of our own, one to another key and, a block later, one of
  another asset; two passes by two runners, a ledger of two, a maturity of one block against none of the
  attribution's own. A state with a lapse other than the
  depth has no successors that are followed (`Followed`, a constraint): `SoldOnce` promises no single
  sale there. **DeviceLink**: two requests of two units in records of any cut, two links, two assets that
  fold to one index. **SeqobWire**: two values per field. **OpenAmp**: two accounts, one
  transfer, one document. **CoinJoin**: three coins of two assets, up to two
  outputs of one denomination with a fee or none, four indexes, one restart.

Hashes, scripts, keys and fees are abstracted: a leg is the agreed one or has a flaw,
a secret is known or not. A transaction that a node accepts is mined in the end; one
that it evicts or replaces afterwards is outside the swap modules (`WalletTx` has replacement
and reorganisation).
A save is atomic in the swap modules, which `TradeListStore` justifies.

## 5. Fairness

Safety runs need none. The liveness properties assume, module by module:

* **time and blocks**: `WF` on ticks, on mining what has been accepted, on the indexer
  catching up;
* **calls end**: every HTTP call has a timeout, every poll loop a maximum, so `WF` (`SF`
  where the app may be closed meanwhile) on `Throws`;
* **the user comes back**: `WF` on `NoResume` and `SF` on `Resume`, `OpenSheet`, `Open`:
  resume runs at every cold start and the banner of a record in flight stays until it is
  opened. Nothing in the code retries on its own once a drive has ended;
* **a call made for ever succeeds in the end**: `SF` on the successful outcome of the
  calls that recovery needs, since each is retried without limit and can fail any
  number of times before.

`WalletScan` assumes that a wallet in use is called again, that a mutex that keeps becoming free
is obtained by each who waits (`SF` on `Enter`), that requests end (the client's 30 s), and that
calls following one another at once do not stop the clock. `CatchesUp` needs no rest of its own:
the bound on changes is one. The other modules of the core have no liveness: each of their
operations is one call, made by the user or by a counterparty that promises nothing.

No fairness is assumed of the maker, and none of the live drive: it may stop at every
step.

## 6. Proofs

Eight modules of proofs show type correctness and the safety properties of the runs for all
values of the constants that satisfy the assumption named in each module. The assumptions are
of three kinds: a bound is a number; a name that stands for "none" is not one of the things it
may be confused with (`NoRec \notin Ver`, `Screen \notin Lifts`, `NoRecord \notin Signers`); and the
relations the code checks or relies on (`TSeq < TBtc`, 216; `SeqLock < BtcLock`; a margin no shorter
than what it is for; `MaxLag + FundIn <= Depth`). `Wallet` of CoinJoin and `Outputs` of the rewards
are finite sets, as a wallet has.

| Module | About |
|---|---|
| `TradeListStore_proofs`, `SubmarineBuy_proofs`, `SubmarineSell_proofs`, `CrossLift_proofs`, `XrSwap_proofs` | the module of that name |
| `CovenantOrder_proofs` | `CovenantOrder` and `PlacedOrders` |
| `Wallet_proofs` | `WalletScan`, `WalletTx`, `HtlcLegs`, `OpenAmp`, `SeqobWire`, `DeviceLink` |
| `RustCore_proofs` | sums over finite sets, the balance of `CovenantOrder`, `CoinJoin`, `Delegation`, `RewardConvert`, and `MCRustCore`, the composition |

Each proof follows one argument: an invariant (`IInv`, or the prefix of the component and `Inv`) that
holds initially, is kept by each step (one lemma per action or per conjunct, one step per action
inside), and implies the property. All safety properties of the passing runs, action properties and
the four refinements included, are stated by a theorem.

* **Store**: `Durable` alone is not inductive, for a list that a caller is about to write
  is a copy too. `IInv` adds: one operation at a time (`Exclusive`), what each step of an
  operation implies for its buffer and the disk (`Shape`), that BOTH places hold a
  permitted value wherever they are not marked behind (`Copies`), what the waiting legacy
  record implies for list and mirror (`Adopting`), and that the buffers in flight are
  permitted (`InFlight`). From it: `DurableAlways`, `AdoptedOnceAlways`, `TypeCorrect`. The action
  property `CorruptAlwaysPreserved` rests on an invariant of its own, `Sheltered`: under a list that
  does not decode, an operation gets as far as a write only as the user's wipe or because its
  read threw; and a list is damaged only while no operation runs. `ClobberNeedsMirrorRead` is the other
  side of finding 1: with `MirrorInv` (whatever secure storage yields, and whatever an operation is
  about to write, has the live records of the mirror), `MirrorNeverClobbered` holds through every
  fault but a failing read of the mirror, which a run shows to break it.
* **Buy**: `StateInv` ties the drive's position to the saved state, `SoundInv` says which
  gates each position has passed and that a record at `paying` or later has passed all of
  them, which is what a resume relies on; `MarginInv` carries the hold's CLTV from the
  gate to the reveal. From it: `PaidLegIsOursAlways`, `LiveRevealAlways`, and `WriteAheadAlways`,
  that each step is a step of `SwapRecord` or a stutter.
* **Sell**: `MoneyInv` ties the leg to the saved intent (before the intent nothing has
  happened), `HeightInv` bounds the stamp and the funding block. The lemma `EmptyIsProof`
  is the heart of the abandon: an empty scan at a tip that is `Depth` past the stamp
  means that nothing was sent, provided `MaxLag + FundIn <= Depth`, which is the premise
  the comment at 1000-1010 states. From it: `ClearedIsUnfundedAlways`, `WriteAheadAlways`.
* **CrossLift**: for `RevealedIsOurs`, `GateInv` says that from the gates to the broadcast the leg is the
  agreed one and that no more than `Delay` of the margin has run, `SentInv` that a claim in the mempool
  is mined before T_seq, `EarlyInv` that before the maker's report no holder (slot, lift or screen)
  has a record with a leg. It needs no hypothesis on how many lifts run. That each lift implements
  `SwapRecord` does: with `OneAtATime`, `AloneInv` (all who work at the same time work for one lift, and
  no other has Bitcoin at stake), `HeldInv`, `SentOutInv` and `FundInv` (what the step of a record says of
  the money) keep `SlotInv`: Bitcoin at stake has its record in the slot. `OverwritingNeedsTwo` is the other
  side of finding 4: `NeverOverwritten`, which a run refutes, holds as soon as lifts do not meet.
* **XrSwap**: `BuriedInv` is why an announced leg stays covered: past the wait for an anchor
  the lock that was seen lies below the tip, so the block that a reorganisation replaces is not
  the lock's. Refinement needs that a copy cannot undo an intent: `CopyInv` (who works on a leg
  holds a record with the intent), `AbsentInv` and `IntentInv` (before the broadcast the live drive is
  alone), `EndInv` (a record that tells how the swap ended says the truth). From them `KeptInv`: an
  asset that is out has its record until the swap has ended, with two drivers, crashes and saves
  that throw.
* **The refinements** say what they are for: `NothingForgotten` of the submarine swaps and of XrSwap
  (`OverwritingNeedsTwo` of CrossLift) is the invariant of `SwapRecord`, money that is out and not on
  its way back has its record, carried over to the implementation.
* **WalletScan**: `ScanInv` adds to the types `ScanAgeInv`, which bounds the age of the view at each
  step of the owner and by the mark otherwise (a valid mark means that the view is no
  older than the mark and one scan, and no scan runs under one), and `ScanSeenInv`, which says that
  under a valid mark, and from each step of a scan on, the view has what `own` and `floor` name. The property itself is not
  inductive: a step that takes the mutex needs to know what the mark promises. From it: `FreshViewAlways`.
* **WalletTx**: `TxPayInv` carries `PaidOnce` back to everything built or shown, where equal
  payments spend equal coins, and no payment is without a coin; that no coin is spent twice
  does the rest.
* **CovenantOrder**: the arithmetic needs that both parts of the reduced rate are positive
  numbers, for which the proof shows that a greatest common divisor exists (every set of naturals
  has a least element, so a bounded one has a greatest) and that it divides. `CovInv` adds
  that a built fill is planned for its output (`FillsInv`). `MakerPaid` is kept because a sum of prices, each
  rounded up, is at least
  the price of the sum. `CovBooks` is the balance: what is locked, sold and reclaimed is what was funded.
* **PlacedOrders**: `PlacedInv` says that from the first put on, and once listed for ever, the record is stored
  until the output is spent, as long as no list was written over a later one and each decoded, and that the
  reclaim removes it only once its refund was taken. `WriteKeeps` is the step: a write drops this order only
  when it was told to, or is stale. From it: `ReclaimKeptAlways`.
* **HtlcLegs**: `LegForwardInv` says that a public secret means a claim as deep as the gate;
  `LegReverseInv` that from the taker's funding on the maker's leg is his to claim until its
  locktime. From them: `TakerWholeAlways`.
* **OpenAmp**: `OampReviewInv` ties the digests under review to ONE transaction, the one on the screen,
  `OampSignedInv` every signature of a spend to a transaction that was confirmed. The two domains of signatures
  are disjoint records, so no document is a spend. From them: `OnlyReviewedAlways`.
* **SeqobWire**: two offers have one encoding exactly when they say the same in every signed field
  (`WireCanonical`), and a relay's rendering of what the application wrote, bytes aside, says what it rendered
  (`WireRendering`). `WireInv` then keeps that what the relay serves unaltered is the maker's offer as posted
  (`WireRelayed`), and that all a shelf lists as verified under the maker's key says what he signed (`WireBooked`).
* **DeviceLink**: the k-th unit the host puts on the stream is known (`LinkUnit(k)`: length and body
  of request after request). `LinkStream` says that replies, decoded units, buffer, wire and what the
  host has not sent yet are consecutive stretches of that one stream, that headers and bodies of
  records alternate and that a pending header is that of the body in front. So the reader never
  takes a body for a length, however records cut the requests, and the n-th reply has the n-th
  request before it. `LinkKeys` ties the transport to the host's key and each pin to its node's path, which two
  nodes share only as `SameKeys` says.
* **CoinJoin**: `CjRound` says that the coins of a round are worth what it owes and the fee, to
  addresses below the next fresh index; `CjSigned` that what was signed pays addresses that the round
  under way does not use.
* **Delegation**: records are numbered (`DelNumbered`), each that is spent has a leave or a record to show for
  it (`DelSpent`), and a lookup in which no probe failed has each record of the wallet's funding, or of a
  signer it asks about, found or its signer still to ask (`DelLooked`), which gives `LookupFindsLive`. `DelAlone`
  adds, while no request failed and nothing slipped, that a screen that has looked and shows nothing is
  right, so that joining makes the only record, also of those that wait for a block.
* **RewardConvert**: what a pass holds and sells is a reward, mature if it was attributed so (`RwBatches`,
  `RwSales`). While nothing has lapsed (`Calm`), one real pass runs (`RwAlone`), an output is in the ledger
  when its batch is taken in hand and in the stored one before it is sold (`RwHand`), and what was sold
  stays in both and is in no batch still to come (`RwHeld`): so neither a restart, a load, nor a pass with
  rewards attributed before the sale sells it again.
* **Rust core**: `CoreTypeCorrect` and `CoreSafe` state what the run `rust_core` checks, of the composition it
  checks; they follow from the theorems about the components, since a step of one leaves the
  variables of the others alone.

Amounts of a round, of a reward batch and of a covenant are sums over sets, which `MapThenSumSet`
folds with a `CHOOSE`. Induction is out of reach here, but its content is not: `RustCore_proofs` takes
a smallest set for which the claim fails (`Smallest`), and shows so that a fold exists, that it is the only
one, that the sum is a number and that it is the value of any one element and the sum over the others.

Only model-checked:

* liveness: `Recovered`, `FundsReturn`, `Unwedged`, `LockedComesBack`, `Settles`, `CallsReturn` and `CatchesUp`
  (fairness and ENABLED are out of the prover's reach);
* the five runs that TLC refutes: a counterexample is their point (of two the complement is proved);
* that the mutants are caught.

## 7. Findings

Met while modelling; each is a run that TLC refutes, quoted in `PROJECT.json`:

1. `trade_slots.dart:331-333` promises that a mutation on a keystore-nulled store cannot
   clobber the mirror; a mirror read that fails looks like an empty mirror, and it does.
2. `subswap_service.dart:281-284` requires that the asset can be claimed after the latest
   reveal; the payment that resume makes (1746) is not gated.
3. `subswap_service.dart:1741` reports "no loss" when the payment has settled and the
   asset is still claimable.
4. `xchain_swap_service.dart:210-213` refuses a second lift so as never to overwrite the
   record of a first; the check is read before awaits and the write comes after.
5. `cross_lift_service.dart:47-50` says that the Bitcoin is always refundable; at
   `seqLocked` and `seqVerified` the screen never enables the refund.

Divergences seen while modelling, without a run:

* `swap_screen.dart:4282-4284` stores the reclaim material before the post, so that a failure "can never
  strand the funds without a local record": the list it goes to is read and written back without a lock
  (placed_orders.dart:131-143), and a list that does not decode is read as empty and replaced (123-125).
  `ReclaimKept` says that it is lost in no other way.
* `api/mod.rs:862-863` and 893-894 speak of reclaiming the remainder of a partially filled order; the
  placed record names the output that was funded, which a partial fill spends.
* `stake_screen.dart:447-450` and `mod.rs:2369-2372` move a pool in one transaction because two loose ones could be
  mined so as to leave two live records. Delegating after a leave that has no block yet, or before the screen
  has looked, are two loose ones.
* `rewards.rs:411-417` asks for a maturity of 1,000, "not Bitcoin's 100"; `RewardConvert.attribute`
  (reward_convert.dart:145) passes 100. It has no caller in the application.
* `mod.rs:655` is to verify a relay-served offer's signature. A covenant's bytes are signed in hex and posted in
  base64 (seqob_client.dart:420-425, 506-520), and checked as they are served (450), so an honest covenant offer
  may fail; `peggedBtcCovenants` (328-354) then drops it.
* `seqob_client.dart:279-286` takes `caps` for the maker's signed settlement caps; `canonical_offer_bytes`
  (seqob_wire.rs:271-303) leaves them out. Lines 270-272 drop what does not verify, "mirroring same-chain
  _parseOffer", which keeps it (184-209, 443-468).
* `mod.rs:2575-2577` says that the review shows what each output pays and to whom; the sheet labels every
  output that is not ours as the recipient's (send_screen.dart:949-956).
* `openamp_service.dart:133-137` refuses to go on under an account id that is not this wallet's; line 138
  returns the cached one first, and removing a wallet does not reset it.

## 8. Not modelled

* Same-chain swaps (`swap_service.dart`, `seqdex.rs`) are one atomic transaction and keep no record;
  `SwapService.execute` has no caller in the application.
* The peg, both sub-asset trades, the payer bridge and the pure-Lightning take. Their hazards,
  not in `PROJECT.json`: a covenant of the peg without its record when the indexer fails in between
  (sbtc_peg_service.dart:304), a peg-in credited by the growth of a balance (358), a buy that three empty scans fail for good
  (subasset_buy_service.dart:521), a sale's record removed on an unrecognised error
  (subasset_sell_service.dart:354), a bridge's record failed while its hold is held
  (lsp_bridge_service.dart:475), a record at `claiming` that is claimed again at every start
  (subswap_service.dart:1408), a lift's record that does not decode and is overwritten
  (xchain_swap_service.dart:166), a transaction evicted after `settled` or `refunded` was saved
  (subswap_service.dart:1905).
* The registry, the LSP client, receipts and the wallet cache are requests and views; planners are
  pure functions. Mnemonics, address derivation, message signing and the preparation of Bitcoin
  payments keep no state. Generated code but for its dispatcher.
* Linked libraries appear by what they answer: coin selection, the wallet kit's rules for
  rewards, the signer crate's policy, blind signatures.
* Courier letters: key agreement, sealing and opening are cryptography over no state of ours.
* What the code does and no property forbids, in the modules and visible there:
  - a reclaim after a partial fill is built on the output that was funded, which is spent
    (mod.rs:893; a hazard with a note);
  - the maker's credit is paid to m/86'/1'/0'/0/index (mod.rs:439), whose index starts at the
    clock modulo 100000 (swap_screen.dart:89); only the placed order's `makerIndex` names the key,
    and no descriptor of the wallet scans it;
  - the raw broadcast of a fill, a claim or a refund (mod.rs:1294) leaves the scan marks alone
    (`RawBroadcast`), so `FreshView` promises nothing of it: the next level of a market walk may be
    built on spent coins;
  - the account id of OpenAMP outlives its wallet in the process (openamp_service.dart:138), so a new
    wallet is shown the deposit address of the removed one;
  - two real passes over the rewards at a time, a load of the ledger between its change and its write, a
    ledger that does not decode and the cap of 200 can each sell a reward twice: `SoldOnce` excepts
    them (`lapses`);
  - joining a pool before the screen has looked, or after a leave without a block, makes a second live
    record, and so does a record whose signer is on no list: `OneRecord` excepts them (`slips`), and a
    failed probe, which reads as no record (`misses`);
  - an unverified offer is listed by `fetchBook`, and unsigned caps are acted on (`Keeps`, `AlterCaps`);
  - the wallet's own Bitcoin node has the keys of the Bitcoin hub, and two assets whose ids fold to one index
    those of one another (`SameKeys`);
  - after a restart CoinJoin draws addresses again that a failed round had registered:
    `CostsTheFee` speaks of one run of the application.
* Within modelled components: sealing and parsing of messages; dust and price checks
  before a swap's first save; a Sequentia reorganisation in SubmarineSell; two lifts at
  once in the passing CrossLift run (`OneAtATime`), which is finding 4; makers that
  claim the asset AND take their Bitcoin back in XrSwap, which the two locktimes and the
  anchor rule are there to exclude and which needs T_seq and T_btc as heights.
* In XrSwap the maker's claim may win against a refund that the record already calls
  `refunded`; resume then skips the record. `Settles` accepts a refund that was sent; the
  race is a hazard with a note.

## 9. Plan

Done so far: the store, both submarine swaps, both cross swaps and the core of the wallet, each
with the proofs of its safety properties. Next, each step with its run, its mutants and its proof:

1. **Proofs at the seams**: what the swap modules take of the store (a save that returned is read
   back) as a theorem about `TradeListStore` alone, and complements of findings 2 and 3, as
   `ClobberNeedsMirrorRead` and `OverwritingNeedsTwo` are of 1 and 4.
2. **SbtcPeg** over `PlacedOrders` and `CovenantOrder`: its own unlocked list, the writer that is `another`
   in `PlacedOrders`, the balance baseline. Abstract specification: `SwapRecord` per covenant.
3. **SubassetBuy**, **SubassetSell** and **LspBridge**: refinement of `SwapRecord`; liveness of refund
   and claim; P is revealed only inside the window.
4. **A chain module** with eviction and replacement, under SubmarineSell and XrSwap: what
   `settled` and `refunded` at broadcast cost; it would share its node with `WalletTx`.
5. **SubswapStore and TradeSlots**, composed, and the **planners** as operators against reference
   definitions over all small books.
