---------------------------- MODULE RewardConvert ----------------------------
(***************************************************************************)
(* The conversion of staking rewards (ambra_core/src/api/rewards.rs and    *)
(* the app's reward_convert.dart): which outputs of the wallet are         *)
(* rewards, which of them make a batch, what becomes of a batch, and the   *)
(* ledger that keeps a reward from being sold twice when the app is killed *)
(* or the screen loads the ledger in the middle of a pass.                 *)
(*                                                                         *)
(* A pass is given the rewards as its caller attributed them, at some      *)
(* earlier time, and nothing keeps two passes from running at once.  The   *)
(* only caller in the app makes dry runs; the executor of a real pass is   *)
(* whatever its caller gives.  The rules of attribution and decision live  *)
(* in the wallet kit; what they answer is taken from the facts the Rust    *)
(* core hands them.                                                        *)
(***************************************************************************)
EXTENDS Integers, Sequences, FiniteSets, FiniteSetsExt

CONSTANTS
    Outputs,    \* what the wallet owns: [asset, value, coinbase, script, fromMe, at]
    Target,     \* the asset converted into
    Excluded,   \* assets to keep
    Maturity,   \* SEQUENTIA_COINBASE_MATURITY (1,000)
    OwnDepth,   \* the depth RewardConvert.attribute asks for (100)
    MinReceive, \* what a batch must fetch
    MaxOffer,   \* the largest offer of the book
    LedgerCap,  \* conversions remembered (200)
    Runners,    \* who may run a pass
    RwMaxTip, MaxPasses     \* bounds on the chain and on the passes

\* What the app hands the attribution of an output and of the transaction that made it.
OutputFacts == [asset : STRING, value : Nat, coinbase : BOOLEAN, script : STRING, fromMe : BOOLEAN, at : Nat]

ASSUME RewardConstants ==
    /\ Outputs \subseteq OutputFacts /\ IsFiniteSet(Outputs)
    /\ {Maturity, OwnDepth, MinReceive, MaxOffer, LedgerCap, RwMaxTip, MaxPasses} \subseteq Nat

VARIABLES
    enabled,    \* the staker's switch
    rwTip,      \* the chain's height
    spentOuts,  \* outputs of the wallet that are spent
    rewards,    \* the mature, unspent rewards as last attributed, in the callers' hands
    ledger,     \* the conversions in memory, newest first
    stored,     \* and as persisted
    written,    \* a ledger has been persisted
    pass,       \* each runner's pass: its step, the batches left and the one in hand
    loading,    \* a load of the ledger waits for the preferences
    sales,      \* what was really sold
    passes,     \* passes begun
    lapses      \* what has happened that the ledger does not guard against

rewardVars == <<enabled, rwTip, spentOuts, rewards, ledger, stored, written, pass, loading, sales, passes, lapses>>

PassSteps == {"idle", "quote", "commit", "execute", "settle"}
Pass      == [step : PassSteps, dry : BOOLEAN, left : SUBSET SUBSET Outputs, inputs : SUBSET Outputs]
NoPass    == [step |-> "idle", dry |-> FALSE, left |-> {}, inputs |-> {}]
Entry     == [inputs : SUBSET Outputs, state : {"pending", "done", "failed"}]
SaleOf    == [inputs : SUBSET Outputs, atoms : Nat]
Worth(os) == MapThenSumSet(LAMBDA o : o.value, os)

\* A load replaced a ledger not written yet; the cap cost a conversion its record; the persisted ledger
\* did not decode; a pass began while another ran; rewards were attributed to another depth.
Lapses    == {"load", "cap", "decode", "passes", "depth"}
If(happened, lapse) == IF happened THEN {lapse} ELSE {}

\* wallet_tx_facts: what the wallet has seen.
Facts == {o \in Outputs : o.at <= rwTip}

\* staking_key_facts: the one script that pays the wallet's staking key.
StakingScript == "staking"

\* attribute_staking_rewards: a coinbase of ours, or a payment to a staking key that is not ours.
IsReward(o) == o.coinbase \/ (o.script = StakingScript /\ ~o.fromMe)

Mature(o, depth) == o.coinbase => rwTip - o.at >= depth

\* A bug: a pending conversion holds nothing.
ConvertedIfDone == UNION {ledger[i].inputs : i \in {j \in DOMAIN ledger : ledger[j].state = "done"}}

\* convertedOutpoints: a pending conversion holds its coins like one that is done.
Converted == UNION {ledger[i].inputs : i \in {j \in DOMAIN ledger : ledger[j].state # "failed"}}

\* SettingsDto, as the app sends it along with every plan and every decision; the cap on slippage is in
\* what makes a quote fair.
Settings == [enabled |-> enabled, target |-> Target, exclude |-> Excluded, min_receive |-> MinReceive]

\* Assets kept as they are.
Kept == {Settings.target} \cup Settings.exclude

\* plan_reward_batches, of the rewards the caller holds: one batch for each asset not kept.
PlanBatches ==
    LET free == rewards \ Converted
        own  == {o.asset : o \in free} \ Kept
    IN {{o \in free : o.asset = a} : a \in own}

\* decide_reward_conversion, for a quote of so many atoms, close to the reference or not.
NoQuote == [receives |-> -1, fair |-> FALSE]
Quotes  == [receives : 0..(MinReceive + 1), fair : BOOLEAN] \cup {NoQuote}
Decide(quote) ==
    IF ~Settings.enabled THEN "disabled"
    ELSE IF quote = NoQuote THEN "noMarket"
    ELSE IF quote.receives = 0 THEN "tooSmallToPrice"
    ELSE IF quote.receives < Settings.min_receive THEN "belowFloor"
    ELSE IF ~quote.fair THEN "slippageTooHigh"
    ELSE "convert"

\* reward_slice_for_whole_htlc: zero means no fill, never everything.
Slice(offer, batch) == IF offer = 0 \/ batch = 0 THEN 0 ELSE IF offer < batch THEN offer ELSE batch

(***************************************************************************)
(* A pass.                                                                 *)
(***************************************************************************)

\* attribute_staking_rewards, from the screen with the chain's maturity, from RewardConvert.attribute with its own.
Attribute(depth) ==
    /\ rewards' = {o \in Facts \ spentOuts : IsReward(o) /\ Mature(o, depth)}
    /\ lapses' = lapses \cup If(depth # Maturity, "depth")
    /\ UNCHANGED <<enabled, rwTip, spentOuts, ledger, stored, written, pass, loading, sales, passes>>

\* A dry run needs no consent; no pass looks whether another runs.
Real(p) == pass[p].step # "idle" /\ ~pass[p].dry
RunPass(p, dry) ==
    /\ enabled \/ dry
    /\ pass[p].step = "idle" /\ passes < MaxPasses /\ PlanBatches # {}
    /\ pass' = [pass EXCEPT ![p] = [step |-> "quote", dry |-> dry, left |-> PlanBatches, inputs |-> {}]]
    /\ passes' = passes + 1
    /\ lapses' = lapses \cup If(~dry /\ \E q \in Runners : Real(q), "passes")
    /\ UNCHANGED <<enabled, rwTip, spentOuts, rewards, ledger, stored, written, loading, sales>>

NextBatch(dry, left) ==
    IF left = {} THEN NoPass ELSE [step |-> "quote", dry |-> dry, left |-> left, inputs |-> {}]

\* The quote comes, or the book cannot be read, which is no quote; a batch that converts enters the ledger,
\* unless the run is dry.
Quoted(p, batch, quote) ==
    /\ pass[p].step = "quote" /\ batch \in pass[p].left
    /\ IF Decide(quote) = "convert" /\ ~pass[p].dry
       THEN /\ pass' = [pass EXCEPT ![p] = [step |-> "commit", dry |-> FALSE, left |-> pass[p].left \ {batch}, inputs |-> batch]]
            /\ ledger' = <<[inputs |-> batch, state |-> "pending"]>> \o ledger
       ELSE pass' = [pass EXCEPT ![p] = NextBatch(pass[p].dry, pass[p].left \ {batch})] /\ UNCHANGED ledger
    /\ UNCHANGED <<enabled, rwTip, spentOuts, rewards, stored, written, loading, sales, passes, lapses>>

\* _writeLedger, once the preferences are there: the ledger as it is then, cut to its cap.
Capped == IF Len(ledger) > LedgerCap THEN SubSeq(ledger, 1, LedgerCap) ELSE ledger
WriteLedger ==
    /\ ledger' = Capped /\ stored' = Capped /\ written' = TRUE
    /\ lapses' = lapses \cup If(Len(ledger) > LedgerCap, "cap")

\* Written before the coins are spent.
Commit(p) ==
    /\ pass[p].step = "commit" /\ WriteLedger
    /\ pass' = [pass EXCEPT ![p].step = "execute"]
    /\ UNCHANGED <<enabled, rwTip, spentOuts, rewards, loading, sales, passes>>

\* What the record says after the executor's answer: only a definite refusal releases the coins.
Outcome(answer) ==
    CASE answer = "txid" -> "done" [] answer = "null" -> "failed" [] answer = "throw" -> "pending"

\* The newest record of the batch, which its asset and inputs name, if the ledger has one.
InHand(p) == {i \in DOMAIN ledger : ledger[i].inputs = pass[p].inputs}
Recorded(p, state) == IF InHand(p) = {} THEN ledger ELSE [ledger EXCEPT ![Min(InHand(p))].state = state]

\* The sale spends whichever coins of the asset the wallet selects.
Sell(p, offer, coins) ==
    LET atoms == Slice(offer, Worth(pass[p].inputs)) IN
    /\ atoms > 0
    /\ sales' = Append(sales, [inputs |-> pass[p].inputs, atoms |-> atoms])
    /\ spentOuts' = spentOuts \cup coins

\* A txid means sold, null not sold; an executor that throws may have sold.
Execute(p, offer, coins, answer) ==
    /\ pass[p].step = "execute"
    /\ \/ answer # "null" /\ Sell(p, offer, coins)
       \/ answer # "txid" /\ UNCHANGED <<sales, spentOuts>>
    /\ ledger' = Recorded(p, Outcome(answer))
    /\ pass' = [pass EXCEPT ![p].step = "settle"]
    /\ UNCHANGED <<enabled, rwTip, rewards, stored, written, loading, passes, lapses>>

Settle(p) ==
    /\ pass[p].step = "settle" /\ WriteLedger
    /\ pass' = [pass EXCEPT ![p] = NextBatch(FALSE, pass[p].left)]
    /\ UNCHANGED <<enabled, rwTip, spentOuts, rewards, loading, sales, passes>>

(***************************************************************************)
(* The screen, the chain, the process.                                     *)
(***************************************************************************)

\* loadFor, which every load of the stake screen calls, waits for the preferences ...
LoadFor ==
    /\ ~loading
    /\ loading' = TRUE
    /\ UNCHANGED <<enabled, rwTip, spentOuts, rewards, ledger, stored, written, pass, sales, passes, lapses>>

\* ... and replaces the ledger by what is persisted, if something is: by nothing when it does not decode.
\* Settings that do not decode turn the conversion off.
Read(decodes) == IF decodes THEN stored ELSE <<>>
Loaded(decodes) ==
    /\ loading
    /\ loading' = FALSE
    /\ enabled' \in {enabled, FALSE}
    /\ ledger' = IF written THEN Read(decodes) ELSE ledger
    /\ lapses' = lapses \cup If(written /\ ~decodes, "decode")
                        \cup If(ledger' # ledger /\ \E p \in Runners : pass[p].step = "commit", "load")
    /\ UNCHANGED <<rwTip, spentOuts, rewards, stored, written, pass, sales, passes>>

\* Turned on or off, and persisted at once.
Toggle ==
    /\ enabled' = ~enabled
    /\ UNCHANGED <<rwTip, spentOuts, rewards, ledger, stored, written, pass, loading, sales, passes, lapses>>

RwBlock ==
    /\ rwTip < RwMaxTip
    /\ rwTip' = rwTip + 1
    /\ UNCHANGED <<enabled, spentOuts, rewards, ledger, stored, written, pass, loading, sales, passes, lapses>>

\* The app is killed; no pass runs before the ledger is loaded, since the switch is off until then.  A sale
\* under way that happens all the same is an execution that throws just before.
Killed(decodes) ==
    /\ ledger' = Read(decodes) /\ pass' = [p \in Runners |-> NoPass] /\ loading' = FALSE /\ rewards' = {}
    /\ lapses' = lapses \cup If(written /\ ~decodes, "decode")
    /\ UNCHANGED <<enabled, rwTip, spentOuts, stored, written, sales, passes>>

RewardInit ==
    /\ enabled = FALSE /\ rwTip = 0 /\ spentOuts = {} /\ rewards = {}
    /\ ledger = <<>> /\ stored = <<>> /\ written = FALSE
    /\ pass = [p \in Runners |-> NoPass] /\ loading = FALSE
    /\ sales = <<>> /\ passes = 0 /\ lapses = {}

\* The batch's own outputs, or other coins of the asset.
SaleCoins(p) == {pass[p].inputs, {}}

RewardNext ==
    \/ \E depth \in {Maturity, OwnDepth} : Attribute(depth)
    \/ \E p \in Runners :
        \/ \E dry \in BOOLEAN : RunPass(p, dry)
        \/ \E batch \in pass[p].left, quote \in Quotes : Quoted(p, batch, quote)
        \/ Commit(p) \/ Settle(p)
        \/ \E offer \in 0..MaxOffer, coins \in SaleCoins(p), answer \in {"txid", "null", "throw"} :
              Execute(p, offer, coins, answer)
    \/ LoadFor \/ Toggle \/ RwBlock
    \/ \E decodes \in BOOLEAN : Loaded(decodes) \/ Killed(decodes)

RewardSpec == RewardInit /\ [][RewardNext]_rewardVars

(***************************************************************************)
(* Properties.                                                             *)
(***************************************************************************)

RewardTypeOK ==
    /\ enabled \in BOOLEAN /\ rwTip \in 0..RwMaxTip /\ spentOuts \subseteq Outputs /\ rewards \subseteq Outputs
    /\ ledger \in Seq(Entry) /\ stored \in Seq(Entry) /\ written \in BOOLEAN
    /\ Len(stored) <= LedgerCap
    /\ pass \in [Runners -> Pass]
    /\ loading \in BOOLEAN /\ lapses \subseteq Lapses
    /\ sales \in Seq(SaleOf) /\ passes \in 0..MaxPasses

\* Whatever an executor answers, whenever the app is killed and however old the rewards a pass is given, no
\* reward is sold twice and none for more than its batch holds (already_converted, "the whole of the
\* idempotence that stops a restart selling the same reward twice"), nor before the chain's maturity when the
\* screen attributed it.  The once is broken by what the ledger does not guard against, and only by that: two
\* real passes at a time, the cap, an undecodable ledger, a load that replaces one not written yet.
SoldOnce ==
    /\ \A i \in DOMAIN sales : /\ sales[i].atoms \in 1..Worth(sales[i].inputs)
                               /\ \A o \in sales[i].inputs : IsReward(o) /\ ("depth" \notin lapses => Mature(o, Maturity))
    /\ lapses \subseteq {"depth"} =>
        \A i, j \in DOMAIN sales : i # j => sales[i].inputs \cap sales[j].inputs = {}
=============================================================================
