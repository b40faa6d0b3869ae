---------------------------- MODULE SubmarineSell ----------------------------
(***************************************************************************)
(* The normal submarine swap, taker's side (data/subswap_service.dart,     *)
(* runSubmarineSell, resume and abandonUnfundedSell): we lock an asset on  *)
(* Sequentia under a hash H, the maker pays our hold invoice for H, and    *)
(* settling it takes the bitcoin and reveals P, with which the maker       *)
(* claims the asset.  Unpaid, the asset is refunded after T_seq.           *)
(*                                                                         *)
(* Heights and outputs are read from one indexer, which may lag behind the *)
(* chain but only moves forward, and whose mempool is unreliable.  The app *)
(* may stop at every await, every call may fail, and the user may abandon  *)
(* a sale that looks unfunded while a resume drives its record.            *)
(***************************************************************************)
EXTENDS Integers

CONSTANTS
    MaxTip,     \* bound on the Sequentia tip
    Locktimes,  \* values of T_seq the maker may ask for
    Margin,     \* kSubClaimMargin: least refund window accepted
    Depth,      \* kAbandonMinConfDepth
    MaxLag,     \* blocks the indexer may lag when the broadcast height is stamped
    FundIn,     \* blocks after the stamp in which the funding is mined, if it is sent
    TipFails    \* whether the tip may be unreadable when it is stamped

\* The abandon proof's premise: "the best of these reads is within
\* kAbandonMinConfDepth of the true tip".
ASSUME SellConstants ==
    /\ MaxTip \in Nat \ {0} /\ Locktimes \subseteq Nat /\ Margin \in Nat
    /\ Depth \in Nat /\ MaxLag \in Nat /\ FundIn \in Nat \ {0}
    /\ MaxLag + FundIn <= Depth
    /\ TipFails \in BOOLEAN

VARIABLES
    tip,        \* the Sequentia tip
    view,       \* the tip of the indexer
    tseq,       \* T_seq, 0 before the terms
    leg,        \* our asset's HTLC
    minedAt,    \* the block of its funding, 0: none
    refundSent, \* our refund is in the mempool
    announced,  \* the maker knows the leg and the invoice
    hold,       \* the maker's payment of our hold invoice
    saved,      \* state of the record in the store, "none": no record
    attempted,  \* its broadcastAttempted
    stamp,      \* its broadcastSeqHeight
    fundTxid,   \* its seqFundTxid is set
    pc,         \* where the drive of the record stands; "off": app not running
    ui,         \* where the abandon dialog stands
    uiHeight,   \* the tip the re-scan read
    stampedAt,  \* (history) the real tip when the height was stamped
    cleared     \* (history) the user's abandon removed the record

chain == <<tip, view, tseq, leg, minedAt, refundSent>>
rail  == <<announced, hold>>
store == <<saved, attempted, stamp, fundTxid>>
app   == <<pc, ui, uiHeight>>
hist  == <<stampedAt, cleared>>
vars  == <<chain, rail, store, app, hist>>

SubStates  == {"none", "starting", "funding", "settling", "settled", "refunded"}
DriveSteps == {"terms", "mint", "auth", "broadcast", "saveTxid", "confirm", "announce",
               "hold", "saveSettled", "scan", "recheck", "refund", "saveRefunded"}
Locked     == {"mempool", "confirmed"}

Init ==
    /\ tip = 1 /\ view = 1 /\ tseq = 0
    /\ leg = "absent" /\ minedAt = 0 /\ refundSent = FALSE
    /\ announced = FALSE /\ hold = "none"
    /\ saved = "none" /\ attempted = FALSE /\ stamp = 0 /\ fundTxid = FALSE
    /\ pc = "up" /\ ui = "none" /\ uiHeight = 0
    /\ stampedAt = 0 /\ cleared = FALSE

\* _isDriving: a drive of this record, or the abandon gate, holds its guard.
Driving == pc \in DriveSteps \/ ui = "utxos"

\* What a read of the HTLC's address or transaction may return: the indexer knows the
\* blocks up to its tip, and may or may not know the mempool.
MaySee  == leg \in Locked
MayMiss == leg = "confirmed" => minedAt > view

-----------------------------------------------------------------------------
(* The live drive, runSubmarineSell. *)

Begin ==
    /\ pc = "up" /\ saved = "none" /\ tseq = 0
    /\ saved' = "starting" /\ pc' = "terms"
    /\ UNCHANGED <<chain, rail, attempted, stamp, fundTxid, ui, uiHeight, hist>>

\* 1-2. Terms that leave the refund window.
Terms ==
    /\ pc = "terms"
    /\ tseq' \in {t \in Locktimes : t > view /\ t - view >= Margin}
    /\ pc' = "mint"
    /\ UNCHANGED <<tip, view, leg, minedAt, refundSent, rail, store, ui, uiHeight, hist>>

\* Mutant of Mint: the intent is saved before the user has authorised anything.
MintFlagged ==
    /\ pc = "mint"
    /\ saved' = "funding" /\ attempted' = TRUE /\ pc' = "auth"
    /\ UNCHANGED <<chain, rail, stamp, fundTxid, ui, uiHeight, hist>>

\* 3-4. P and H, the hold invoice, the redeem; all of it saved.
Mint ==
    /\ pc = "mint"
    /\ saved' = "funding" /\ pc' = "auth"
    /\ UNCHANGED <<chain, rail, attempted, stamp, fundTxid, ui, uiHeight, hist>>

\* Bound: the tip can still grow by the depth an empty scan needs.
LeavesRoom == tip + Depth <= MaxTip

\* Mutant of AboutToBroadcast: the intent stays in memory.
AboutToBroadcastUnsaved ==
    /\ pc = "auth" /\ tip - view <= MaxLag /\ LeavesRoom
    /\ stampedAt' = tip /\ pc' = "broadcast"
    /\ UNCHANGED <<chain, rail, store, ui, uiHeight, cleared>>

\* Mutant of AboutToBroadcast: an unreadable tip is stamped as it was read.
AboutToBroadcastRaw ==
    /\ pc = "auth" /\ tip - view <= MaxLag /\ LeavesRoom
    /\ attempted' = TRUE
    /\ stamp' \in {view, -1}
    /\ stampedAt' = tip /\ pc' = "broadcast"
    /\ UNCHANGED <<chain, rail, saved, fundTxid, ui, uiHeight, cleared>>

\* 5. onAboutToBroadcast, after authorisation, build and signature: the intent and the
\* height of this moment are saved (0 when the tip cannot be read).
AboutToBroadcast ==
    /\ pc = "auth" /\ tip - view <= MaxLag /\ LeavesRoom
    /\ attempted' = TRUE
    /\ stamp' \in {view} \cup IF TipFails THEN {0} ELSE {}
    /\ stampedAt' = tip /\ pc' = "broadcast"
    /\ UNCHANGED <<chain, rail, saved, fundTxid, ui, uiHeight, cleared>>

Broadcast ==
    /\ pc = "broadcast"
    /\ leg' = "mempool" /\ pc' = "saveTxid"
    /\ UNCHANGED <<tip, view, tseq, minedAt, refundSent, rail, store, ui, uiHeight, hist>>

SaveTxid ==
    /\ pc = "saveTxid"
    /\ fundTxid' = TRUE /\ pc' = "confirm"
    /\ UNCHANGED <<chain, rail, saved, attempted, stamp, ui, uiHeight, hist>>

\* 5b. The funding is seen in a block.
Confirm ==
    /\ pc = "confirm" /\ leg = "confirmed" /\ minedAt <= view
    /\ saved' = "settling" /\ pc' = "announce"
    /\ UNCHANGED <<chain, rail, attempted, stamp, fundTxid, ui, uiHeight, hist>>

\* 6. asset_funded.
Announce ==
    /\ pc = "announce"
    /\ announced' = TRUE /\ pc' = "hold"
    /\ UNCHANGED <<chain, hold, store, ui, uiHeight, hist>>

\* 7. and (C): a held payment is settled with P, a settled one only noted.
SettleHold ==
    /\ pc \in {"hold", "recheck"} /\ hold \in {"held", "settled"}
    /\ hold' = "settled" /\ pc' = "saveSettled"
    /\ UNCHANGED <<chain, announced, store, ui, uiHeight, hist>>

SaveSettled ==
    /\ pc = "saveSettled"
    /\ saved' = "settled" /\ pc' = "up"
    /\ UNCHANGED <<chain, rail, attempted, stamp, fundTxid, ui, uiHeight, hist>>

\* The user cancels, a call or a save throws or times out, the two hours are over: the
\* drive ends and the record stays as it was last saved.
Throws ==
    /\ pc \in DriveSteps
    /\ pc' = "up"
    /\ UNCHANGED <<chain, rail, store, ui, uiHeight, hist>>

-----------------------------------------------------------------------------
(* resume, at a cold start or by the user. *)

Crash ==
    /\ pc # "off"
    /\ pc' = "off" /\ ui' = "none" /\ uiHeight' = 0
    /\ UNCHANGED <<chain, rail, store, hist>>

\* _resumeInner: (D0) a record that may be funded, (C) one that is; a terminal record
\* and one that committed nothing are dropped.
Resume ==
    /\ pc \in {"off", "up"} /\ ~Driving
    /\ pc' = IF saved = "funding" THEN "scan" ELSE IF saved = "settling" THEN "recheck" ELSE "up"
    /\ saved' = IF saved \in {"funding", "settling"} THEN saved ELSE "none"
    /\ UNCHANGED <<chain, rail, attempted, stamp, fundTxid, ui, uiHeight, hist>>

NoResume ==
    /\ pc = "off" /\ pc' = "up"
    /\ UNCHANGED <<chain, rail, store, ui, uiHeight, hist>>

\* Mutant of ScanFinds: only the saved transaction id is looked up.
ScanFindsByTxid ==
    /\ pc = "scan" /\ MaySee /\ fundTxid
    /\ saved' = "settling" /\ pc' = "recheck"
    /\ UNCHANGED <<chain, rail, attempted, stamp, fundTxid, ui, uiHeight, hist>>

\* (D0) by the saved transaction id, else by the HTLC's address.
ScanFinds ==
    /\ pc = "scan" /\ MaySee
    /\ saved' = "settling" /\ pc' = "recheck"
    /\ UNCHANGED <<chain, rail, attempted, stamp, fundTxid, ui, uiHeight, hist>>

\* (D0) nothing at the address and no broadcast ever attempted.
ScanDrops ==
    /\ pc = "scan" /\ MayMiss /\ ~fundTxid /\ ~attempted
    /\ saved' = "none" /\ pc' = "up"
    /\ UNCHANGED <<chain, rail, attempted, stamp, fundTxid, ui, uiHeight, hist>>

\* (C) not paid, or the invoice's status cannot be read.
RecheckUnpaid ==
    /\ pc = "recheck" /\ view >= tseq
    /\ pc' = "refund"
    /\ UNCHANGED <<chain, rail, store, ui, uiHeight, hist>>

Refund ==
    /\ pc = "refund" /\ leg \in Locked /\ ~refundSent
    /\ refundSent' = TRUE /\ pc' = "saveRefunded"
    /\ UNCHANGED <<tip, view, tseq, leg, minedAt, rail, store, ui, uiHeight, hist>>

SaveRefunded ==
    /\ pc = "saveRefunded"
    /\ saved' = "refunded" /\ pc' = "up"
    /\ UNCHANGED <<chain, rail, attempted, stamp, fundTxid, ui, uiHeight, hist>>

-----------------------------------------------------------------------------
(* The user abandons a sale that looks unfunded. *)

CanAbandonFunding == saved = "funding" /\ ~fundTxid

\* Mutant of ProvesEmpty: any tip past the broadcast.
ProvesEmptyShallow(height) == stamp > 0 /\ height >= stamp

\* tipHeightProvesEmptyScan
ProvesEmpty(height) == stamp > 0 /\ height >= stamp + Depth

\* The scan that offers the dialog.
OfferAbandon ==
    /\ pc # "off" /\ ui = "none"
    /\ CanAbandonFunding /\ ProvesEmpty(view) /\ MayMiss
    /\ ui' = "dialog"
    /\ UNCHANGED <<chain, rail, store, pc, uiHeight, hist>>

\* Nothing drives the record, and the one on disk still qualifies: the re-scan reads
\* the height first...
ConfirmAbandon ==
    /\ ui = "dialog" /\ ~Driving /\ CanAbandonFunding
    /\ uiHeight' = view /\ ui' = "utxos"
    /\ UNCHANGED <<chain, rail, store, pc, hist>>

\* ...then the outputs; still empty, the record is removed.
RescanEmpty ==
    /\ ui = "utxos" /\ ProvesEmpty(uiHeight) /\ MayMiss
    /\ saved' = "none" /\ cleared' = TRUE
    /\ ui' = "none" /\ uiHeight' = 0
    /\ UNCHANGED <<chain, rail, attempted, stamp, fundTxid, pc, stampedAt>>

AbandonRefused ==
    /\ ui # "none"
    /\ ui' = "none" /\ uiHeight' = 0
    /\ UNCHANGED <<chain, rail, store, pc, hist>>

-----------------------------------------------------------------------------
(* The maker, the chain and the indexer. *)

MakerPays ==
    /\ announced /\ hold = "none"
    /\ hold' = "held"
    /\ UNCHANGED <<chain, announced, store, app, hist>>

HoldFails ==
    /\ hold = "held"
    /\ hold' = "failed"
    /\ UNCHANGED <<chain, announced, store, app, hist>>

MakerClaims ==
    /\ hold = "settled" /\ leg = "confirmed"
    /\ leg' = "claimed"
    /\ UNCHANGED <<tip, view, tseq, minedAt, refundSent, rail, store, app, hist>>

MineRefund ==
    /\ refundSent /\ leg = "confirmed"
    /\ leg' = "refunded"
    /\ UNCHANGED <<tip, view, tseq, minedAt, refundSent, rail, store, app, hist>>

\* A block with the funding in it.
MineFunding ==
    /\ leg = "mempool" /\ tip < MaxTip
    /\ leg' = "confirmed" /\ tip' = tip + 1 /\ minedAt' = tip + 1
    /\ UNCHANGED <<view, tseq, refundSent, rail, store, app, hist>>

\* A block without it: the broadcast follows its stamp and is mined within FundIn blocks.
Tick ==
    /\ tip < MaxTip
    /\ pc = "broadcast" \/ leg = "mempool" => tip + 1 < stampedAt + FundIn
    /\ tip' = tip + 1
    /\ UNCHANGED <<view, tseq, leg, minedAt, refundSent, rail, store, app, hist>>

CatchUp ==
    /\ view' \in view + 1 .. tip
    /\ UNCHANGED <<tip, tseq, leg, minedAt, refundSent, rail, store, app, hist>>

Next ==
    \/ Begin \/ Terms \/ Mint \/ AboutToBroadcast \/ Broadcast \/ SaveTxid \/ Confirm
    \/ Announce \/ SettleHold \/ SaveSettled \/ Throws
    \/ Crash \/ Resume \/ NoResume \/ ScanFinds \/ ScanDrops
    \/ RecheckUnpaid \/ Refund \/ SaveRefunded
    \/ OfferAbandon \/ ConfirmAbandon \/ RescanEmpty \/ AbandonRefused
    \/ MakerPays \/ HoldFails \/ MakerClaims \/ MineRefund \/ MineFunding \/ Tick \/ CatchUp

Spec == Init /\ [][Next]_vars

\* Each of these happens once to a record.
Advances == ScanFinds \/ ScanDrops \/ Refund \/ RescanEmpty
Grows    == MineFunding \/ Tick \/ CatchUp

\* The record is resumed for ever, and the app at times left open until its calls have
\* answered or timed out; a call made for ever succeeds in the end; the chain goes on
\* and the indexer follows; the user does abandon.
Fairness ==
    /\ WF_vars(NoResume) /\ SF_vars(Throws) /\ SF_vars(Resume)
    /\ SF_vars(Advances) /\ SF_vars(SettleHold) /\ SF_vars(RecheckUnpaid)
    /\ SF_vars(~Driving /\ OfferAbandon) /\ SF_vars(ConfirmAbandon)
    /\ WF_vars(Grows)

FairSpec == Spec /\ Fairness

-----------------------------------------------------------------------------
(* What the swap promises. *)

TypeOK ==
    /\ tip \in 1 .. MaxTip /\ view \in 1 .. tip /\ tseq \in Locktimes \cup {0}
    /\ leg \in Locked \cup {"absent", "claimed", "refunded"} /\ minedAt \in 0 .. tip
    /\ refundSent \in BOOLEAN /\ announced \in BOOLEAN
    /\ hold \in {"none", "held", "settled", "failed"}
    /\ saved \in SubStates /\ attempted \in BOOLEAN /\ stamp \in 0 .. tip
    /\ fundTxid \in BOOLEAN
    /\ pc \in DriveSteps \cup {"off", "up"}
    /\ ui \in {"none", "dialog", "utxos"} /\ uiHeight \in 0 .. tip
    /\ stampedAt \in 0 .. tip /\ cleared \in BOOLEAN

\* The user's abandon never removes the record of an asset that was sent, however far
\* the indexer lags when it is asked and however long the dialog stays open.
ClearedIsUnfunded == cleared => leg = "absent"

\* The record is in the store before the asset is sent, and until the hold is settled
\* or the refund sent.
Record == INSTANCE SwapRecord WITH
    recorded  <- saved \in {"funding", "settling", "settled", "refunded"},
    committed <- leg # "absent",
    resolved  <- hold = "settled" \/ refundSent

WriteAhead == Record!Spec

\* An asset that was sent turns into the bitcoin or comes back.
FundsReturn == leg \in Locked ~> (hold = "settled" \/ refundSent)

\* A sale that was never funded does not occupy its slot for ever, except when the
\* height of its broadcast could not be stamped.
Unwedged ==
    saved = "funding" ~> (leg # "absent" \/ saved = "none" \/ (stampedAt # 0 /\ stamp = 0))
=============================================================================
