------------------------------ MODULE HtlcLegs ------------------------------
(***************************************************************************)
(* The two legs of a cross-chain swap as the Rust core builds and spends   *)
(* them (ambra_core/src/api/mod.rs 1117-1518): one HTLC on Bitcoin, one on *)
(* Sequentia, with the taker's keys from his seed, in both directions.     *)
(* Forward, the taker holds the secret and funds Bitcoin first; in         *)
(* reverse the maker does both.  How the app decides when to call what is  *)
(* in CrossLift and XrSwap; here is what the built scripts and spends are  *)
(* worth under reorganisations of Bitcoin, which take every Sequentia      *)
(* block anchored above them along.                                        *)
(*                                                                         *)
(* A hash, a key and an amount are names; heights of both legs are         *)
(* Bitcoin's, a Sequentia leg standing at the height of its anchor.        *)
(***************************************************************************)
EXTENDS Integers

CONSTANTS
    MaxLegTip,  \* bound on Bitcoin's chain
    MinDepth,   \* blocks the anchor of a leg must be deep for the reveal gate
    SeqLock,    \* the locktimes the taker agreed to
    BtcLock

ASSUME LegConstants == {MaxLegTip, MinDepth, SeqLock, BtcLock} \subseteq Nat /\ SeqLock < BtcLock

VARIABLES
    forward,    \* the direction of the swap
    btc, seq,   \* the legs
    tip,        \* Bitcoin's height
    secret      \* who knows the preimage: its "holder", or everyone, from the "chain"

legVars == <<forward, btc, seq, tip, secret>>

NoLeg  == [state |-> "none", claim |-> "", refund |-> "", lock |-> 0, at |-> 0]
States == {"none", "pending", "funded", "claimed", "refunded", "gone"}
Keys   == {"", "takerSeq", "takerBtcClaim", "takerBtcRefund", "maker"}
Leg    == [state : States, claim : Keys, refund : Keys, lock : Nat, at : 0..MaxLegTip]

\* The locktimes a leg may name, the agreed one and a shorter one.
Locks == {SeqLock, BtcLock}

LegTypeOK ==
    /\ forward \in BOOLEAN
    /\ btc \in Leg /\ seq \in Leg
    /\ tip \in 0..MaxLegTip /\ secret \in {"holder", "chain"}
    /\ btc.at <= tip /\ seq.at <= tip

LegInit ==
    /\ forward \in BOOLEAN
    /\ btc = NoLeg /\ seq = NoLeg
    /\ tip = 0 /\ secret = "holder"

(***************************************************************************)
(* Keys and scripts.                                                       *)
(***************************************************************************)

SeqClaimPubkey  == "takerSeq"
BtcRefundPubkey == "takerBtcRefund"
BtcClaimPubkey  == "takerBtcClaim"

Htlc(claim, refund, lock) == [state |-> "funded", claim |-> claim, refund |-> refund, lock |-> lock, at |-> tip]

\* xchain_btc_htlc, with whichever of the two keys is the taker's.
BtcHtlc == IF forward THEN Htlc("maker", BtcRefundPubkey, BtcLock) ELSE Htlc(BtcClaimPubkey, "maker", BtcLock)

\* xchain_seq_htlc_reverse: the taker's one Sequentia key is where the refund goes.
SeqHtlcReverse == Htlc("maker", SeqClaimPubkey, SeqLock)

\* xchain_seq_htlc_forward and xchain_seq_redeem_script: where the maker's leg must be.
SeqHtlcForward == Htlc(SeqClaimPubkey, "maker", SeqLock)

SameScript(a, b) == a.claim = b.claim /\ a.refund = b.refund /\ a.lock = b.lock

\* xchain_seq_refund and xchain_btc_refund sign with these.
RefundKey == IF forward THEN BtcRefundPubkey ELSE SeqClaimPubkey

(***************************************************************************)
(* The taker.                                                              *)
(***************************************************************************)

\* xchain_find_btc_funding: the maker's leg, by its script, confirmed.
BtcLegSeen == btc.state = "funded" /\ SameScript(btc, BtcHtlc)

\* Forward the taker goes first; in reverse he follows the maker's leg.
FundBtc ==
    /\ forward /\ btc.state = "none"
    /\ btc' = BtcHtlc
    /\ UNCHANGED <<forward, seq, tip, secret>>

FundSeq ==
    /\ ~forward /\ seq.state = "none" /\ BtcLegSeen
    /\ seq' = SeqHtlcReverse
    /\ UNCHANGED <<forward, btc, tip, secret>>

\* A bug: the depth of the anchor is left out.
SeqLegSafeShallow == seq.at >= btc.at

\* THE REVEAL GATE, xchain_verify_seq_leg_safe.
SeqLegSafe == seq.at >= btc.at /\ tip - seq.at + 1 >= MinDepth

\* xchain_seq_claim behind the gate, and its broadcast: the preimage is public.
ClaimSeq ==
    /\ forward /\ seq.state = "funded" /\ SameScript(seq, SeqHtlcForward) /\ SeqLegSafe
    /\ btc.state = "funded" /\ tip < seq.lock
    /\ seq' = [seq EXCEPT !.state = "claimed"]
    /\ secret' = "chain"
    /\ UNCHANGED <<forward, btc, tip>>

\* xchain_read_seq_preimage: the secret in the spend of the taker's own Sequentia leg.
ReadSeqPreimage == ~forward /\ seq.state = "claimed" /\ secret = "chain"

\* xchain_btc_claim, with what was read.
ClaimBtc ==
    /\ ReadSeqPreimage /\ btc.state = "funded" /\ btc.claim = BtcClaimPubkey
    /\ btc' = [btc EXCEPT !.state = "claimed"]
    /\ UNCHANGED <<forward, seq, tip, secret>>

\* xchain_btc_refund, xchain_seq_refund: the taker's own leg, from its locktime on.
Refundable(leg, key) == leg.state = "funded" /\ leg.refund = key /\ tip >= leg.lock

RefundBtc ==
    /\ forward /\ Refundable(btc, RefundKey)
    /\ btc' = [btc EXCEPT !.state = "refunded"]
    /\ UNCHANGED <<forward, seq, tip, secret>>

RefundSeq ==
    /\ ~forward /\ Refundable(seq, RefundKey)
    /\ seq' = [seq EXCEPT !.state = "refunded"]
    /\ UNCHANGED <<forward, btc, tip, secret>>

(***************************************************************************)
(* The maker, who may build any leg, and the chains.                       *)
(***************************************************************************)

MakerFunds(claim, lock) ==
    LET leg == [Htlc(claim, "maker", lock) EXCEPT !.state = "pending"] IN
    \/ forward /\ seq.state = "none" /\ seq' = leg /\ UNCHANGED btc
    \/ ~forward /\ btc.state = "none" /\ btc' = leg /\ UNCHANGED seq

MakerClaims ==
    \/ /\ forward /\ secret = "chain" /\ btc.state = "funded" /\ btc.claim = "maker"
       /\ btc' = [btc EXCEPT !.state = "claimed"] /\ UNCHANGED <<seq, secret>>
    \/ /\ ~forward /\ seq.state = "funded" /\ seq.claim = "maker"
       /\ seq' = [seq EXCEPT !.state = "claimed"] /\ secret' = "chain" /\ UNCHANGED btc

MakerRefunds ==
    \/ forward /\ Refundable(seq, "maker") /\ seq' = [seq EXCEPT !.state = "refunded"] /\ UNCHANGED btc
    \/ ~forward /\ Refundable(btc, "maker") /\ btc' = [btc EXCEPT !.state = "refunded"] /\ UNCHANGED seq

Maker ==
    \/ /\ \E claim \in {"takerSeq", "takerBtcClaim", "maker"}, lock \in Locks : MakerFunds(claim, lock)
       /\ UNCHANGED <<forward, tip, secret>>
    \/ MakerClaims /\ UNCHANGED <<forward, tip>>
    \/ MakerRefunds /\ UNCHANGED <<forward, tip, secret>>

\* A block takes the maker's leg in, unless it was spent elsewhere.
Settled(leg, in) ==
    IF leg.state # "pending" THEN leg
    ELSE [leg EXCEPT !.state = IF in THEN "funded" ELSE "gone", !.at = tip + 1]

LegBlock(in) ==
    /\ tip < MaxLegTip
    /\ tip' = tip + 1
    /\ btc' = Settled(btc, in) /\ seq' = Settled(seq, in)
    /\ UNCHANGED <<forward, secret>>

\* Bitcoin's blocks above h are replaced, as many as the taker waits for at most: the maker's leg there
\* is spent elsewhere instead, the taker's is included again.
After(leg, h, mine) ==
    IF leg.at <= h \/ leg.state \in {"none", "pending"} THEN leg
    ELSE IF mine THEN [leg EXCEPT !.at = tip]
    ELSE [leg EXCEPT !.state = "gone"]

Reorg(h) ==
    /\ forward /\ h < tip /\ tip - h < MinDepth
    /\ btc' = After(btc, h, TRUE)
    /\ seq' = After(seq, h, FALSE)
    /\ UNCHANGED <<forward, tip, secret>>

LegNext ==
    \/ FundBtc \/ FundSeq
    \/ ClaimSeq \/ ClaimBtc \/ RefundBtc \/ RefundSeq
    \/ Maker
    \/ \E in \in BOOLEAN : LegBlock(in)
    \/ \E h \in 0..MaxLegTip : Reorg(h)

LegSpec == LegInit /\ [][LegNext]_legVars

(***************************************************************************)
(* Properties.                                                             *)
(***************************************************************************)

\* Forward, the maker has the taker's Bitcoin only when the taker has the asset.
ForwardWhole == forward /\ btc.state = "claimed" => seq.state = "claimed"

\* In reverse, once the maker has the asset the Bitcoin is there for the taker's key until its locktime.
ReverseWhole ==
    ~forward /\ seq.state = "claimed" /\ tip < btc.lock
        => btc.state \in {"funded", "claimed"} /\ btc.claim = BtcClaimPubkey /\ secret = "chain"

\* What the taker funded he can take back with the key he signs refunds with.
TakerLeg == IF forward THEN btc ELSE seq
RefundsSigned == TakerLeg.state # "none" => TakerLeg.refund = RefundKey

\* Whatever the maker builds and however Bitcoin is reorganised less deeply than the taker waits for, the
\* taker does not lose his leg without the other (reveal gate, mod.rs:1235; verify before funding,
\* mod.rs:1342).
TakerWhole == ForwardWhole /\ ReverseWhole /\ RefundsSigned
=============================================================================
