------------------------------ MODULE WalletTx ------------------------------
(***************************************************************************)
(* What the wallet builds, signs and broadcasts (ambra_core/src/api/mod.rs *)
(* 1560-2052): payments and the other outputs, and the rescue of a pending *)
(* one by fee bump, replacement or child.  Every build works on the        *)
(* wallet's last scan, which WalletScan lets be old; a built transaction   *)
(* waits on a review screen, beside others, until it is sent or dropped.   *)
(*                                                                         *)
(* Amounts are abstracted: a transaction spends coins and leaves one coin  *)
(* of change, named by the transaction.  The node replaces transactions of *)
(* lower fee that a new one conflicts with.                                *)
(***************************************************************************)
EXTENDS Integers, FiniteSets

CONSTANTS
    Coins,      \* what the wallet holds at the start
    MaxTx,      \* bound on the transactions built
    MaxFee      \* the highest fee; 1 is the default rate

ASSUME TxConstants == MaxTx \in Nat /\ MaxFee \in Nat \ {0}

VARIABLES
    made,       \* transactions built so far
    review,     \* built, and not sent or dropped
    mempool,    \* accepted, not in a block
    confirmed,  \* in a block
    shown       \* mempool and confirmed as of the last scan

txVars == <<made, review, mempool, confirmed, shown>>

Ids   == 1..MaxTx
Coin  == Coins \cup Ids
Kinds == {"send", "issue", "reissue", "burn", "stake"}
Tx    == [id : Ids, pay : 0..MaxTx, ins : SUBSET Coin, fee : 1..MaxFee]
\* What a scan shows of the wallet's transactions: in a block or not.
Shown == [mempool : SUBSET Tx, confirmed : SUBSET Tx]

Request == [kind : Kinds, recipients : 0..1, amount : {"zero", "small", "stake"},
            network : {"sequentia", "foreign"}]

TxTypeOK ==
    /\ made \in 0..MaxTx
    /\ review \subseteq Tx /\ mempool \subseteq Tx /\ confirmed \subseteq Tx
    /\ shown \in Shown
    /\ \A t, u \in mempool \cup confirmed : t # u => t.ins \cap u.ins = {}

TxInit ==
    /\ made = 0
    /\ review = {} /\ mempool = {} /\ confirmed = {}
    /\ shown = [mempool |-> {}, confirmed |-> {}]

Exists(txs)  == Coins \cup {t.id : t \in txs}
Spent(txs)   == UNION {t.ins : t \in txs}
Unspent      == LET txs == shown.mempool \cup shown.confirmed IN Exists(txs) \ Spent(txs)

\* The fee is applied to every build, the default one when none is given, and the transaction is
\* returned for review.
Finish(pay, ins, fee) ==
    /\ made < MaxTx /\ fee \in 1..MaxFee
    /\ made' = made + 1
    /\ review' = review \cup {[id |-> made + 1, pay |-> pay, ins |-> ins, fee |-> fee]}
    /\ UNCHANGED <<mempool, confirmed, shown>>

\* The coins for a new output come from the wallet; the output is a new payment.
Select(fee) == \E c \in Unspent : Finish(made + 1, {c}, fee)

ValidAddress(r) == r.network = "sequentia"

BuildSend(r, fee) ==
    /\ r.kind = "send" /\ r.recipients > 0 /\ r.amount # "zero" /\ ValidAddress(r)
    /\ Select(fee)

BuildIssue(r, fee)   == r.kind = "issue" /\ Select(fee)
BuildReissue(r, fee) == r.kind = "reissue" /\ Select(fee)
BuildBurn(r, fee)    == r.kind = "burn" /\ Select(fee)

AtLeastMinStake(r) == r.amount = "stake"

BuildStake(r, fee) == r.kind = "stake" /\ AtLeastMinStake(r) /\ Select(fee)

\* The same payment again with a higher fee: still pending in the wallet's view.
BuildRbfBump(t, fee) ==
    /\ t \in shown.mempool /\ fee > t.fee
    /\ Finish(t.pay, t.ins, fee)

\* A bug: the corrected payment takes other coins.
BuildRbfReplaceOther(t, r, fee) ==
    /\ t \in shown.mempool
    /\ r.recipients > 0 /\ ValidAddress(r)
    /\ \E c \in Unspent : Finish(t.pay, {c}, fee)

\* The payment corrected: the same coins, other recipients.
BuildRbfReplace(t, r, fee) ==
    /\ t \in shown.mempool
    /\ r.recipients > 0 /\ ValidAddress(r)
    /\ Finish(t.pay, t.ins, fee)

\* A child that spends the pending payment's change.
BuildCpfp(t, fee) ==
    /\ t \in shown.mempool /\ t.id \in Unspent
    /\ Finish(0, {t.id}, fee)

Drop(t) == review' = review \ {t} /\ UNCHANGED <<made, mempool, confirmed, shown>>

\* sign_pset and finalize_and_broadcast: the node takes what spends existing coins and outbids every
\* pending transaction it conflicts with, and forgets those and what was built on them.
Conflicts(t) == {u \in mempool : u.ins \cap t.ins # {}}
Orphans(ts)  == {u \in mempool : \E t \in ts : t.id \in u.ins}
Valid(t)     == t.ins \subseteq Exists(mempool \cup confirmed) \ Spent(confirmed)
Outbids(t)   == \A u \in Conflicts(t) : u.fee < t.fee

SignAndBroadcast(t) ==
    /\ t \in review /\ Valid(t) /\ Outbids(t)
    /\ LET out == Conflicts(t) \cup Orphans(Conflicts(t)) IN
       mempool' = (mempool \ (out \cup Orphans(out))) \cup {t}
    /\ review' = review \ {t}
    /\ UNCHANGED <<made, confirmed, shown>>

\* A block includes a transaction whose coins are in blocks; a reorganisation puts one back.
Include(t) ==
    /\ t \in mempool /\ t.ins \subseteq Exists(confirmed)
    /\ mempool' = mempool \ {t} /\ confirmed' = confirmed \cup {t}
    /\ UNCHANGED <<made, review, shown>>

Unconfirm(t) ==
    /\ t \in confirmed /\ \A u \in confirmed : t.id \notin u.ins
    /\ confirmed' = confirmed \ {t} /\ mempool' = mempool \cup {t}
    /\ UNCHANGED <<made, review, shown>>

\* sync_wallet and wallet_transactions show the state of a scan.
Refresh ==
    /\ shown' = [mempool |-> mempool, confirmed |-> confirmed]
    /\ UNCHANGED <<made, review, mempool, confirmed>>

TxNext ==
    \/ \E r \in Request, fee \in 1..MaxFee :
        \/ BuildSend(r, fee) \/ BuildStake(r, fee)
        \/ BuildIssue(r, fee) \/ BuildReissue(r, fee) \/ BuildBurn(r, fee)
        \/ \E t \in shown.mempool : BuildRbfReplace(t, r, fee)
    \/ \E t \in shown.mempool, fee \in 1..MaxFee : BuildRbfBump(t, fee) \/ BuildCpfp(t, fee)
    \/ \E t \in review : Drop(t) \/ SignAndBroadcast(t)
    \/ \E t \in mempool : Include(t)
    \/ \E t \in confirmed : Unconfirm(t)
    \/ Refresh

TxSpec == TxInit /\ [][TxNext]_txVars

\* However old the wallet's view, whichever reviews stay open and whatever is reorganised: of a payment
\* and all its bumps and replacements at most one is on its way or made ("re-send the SAME payment",
\* "same inputs", mod.rs:1886, 1901).
PaidOnce ==
    \A t, u \in mempool \cup confirmed : t.pay # 0 /\ t.pay = u.pay => t = u
=============================================================================
