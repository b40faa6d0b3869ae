---------------------------- MODULE SubmarineBuy ----------------------------
(***************************************************************************)
(* The reverse submarine swap, taker's side (data/subswap_service.dart,    *)
(* runReverseBuy, _claimReverse and resume): the maker locks an asset on   *)
(* Sequentia to our key under a hash H; we pay a Lightning invoice for H,  *)
(* learn the preimage P from the payment and claim the asset with it.      *)
(*                                                                         *)
(* The maker is any counterparty: it may announce a flawed leg or invoice, *)
(* hold the payment as long as the invoice's CLTV lets it, and refund the  *)
(* asset once the tip reaches T_seq.  The app may stop at every await and  *)
(* resumes its record at a cold start or when the user asks for it; every  *)
(* call may fail.                                                          *)
(*                                                                         *)
(* Heights are Sequentia blocks.  A record is abstracted to its state: the *)
(* fields a state implies are saved with it.                               *)
(***************************************************************************)
EXTENDS Naturals

CONSTANTS
    MaxTip,     \* bound on the Sequentia tip
    Locktimes,  \* values of T_seq the maker may announce
    Cltvs,      \* values of the invoice's min_final_cltv, in Bitcoin blocks
    Margin,     \* kSubClaimMargin, in Sequentia blocks
    Ratio,      \* Sequentia blocks in one slow Bitcoin block
    PayDelay,   \* blocks connectNode may take between the gates and the payment
    TipFails    \* whether the tip may be unreadable

None == MaxTip + 1 + Margin + Ratio   \* no height

ASSUME BuyConstants ==
    /\ MaxTip \in Nat /\ Margin \in Nat /\ Ratio \in Nat /\ PayDelay \in Nat
    /\ Locktimes \subseteq Nat /\ Cltvs \subseteq Nat
    /\ TipFails \in BOOLEAN

Flaws     == {"redeem", "binding", "output", "hash", "amount", "cltv"}
SubStates == {"none", "starting", "verifying", "verified", "paying", "claiming", "settled"}
LiveSteps == {"terms", "verify", "window", "anchor", "gates", "connect", "payWait",
              "claim", "claimSave", "resume", "reconnect"}
Unspent   == {"mempool", "confirmed", "buried"}
Heights   == 0 .. None

VARIABLES
    tip,         \* the Sequentia tip
    terms,       \* what the maker announced: its flaws, min_final_cltv and T_seq
    leg,         \* the announced funding output on Sequentia
    claimBy,     \* our claim is in the mempool and mined before the tip passes this
    pay,         \* the Lightning payment of the invoice
    payDeadline, \* height by which a held payment settles or fails back
    saved,       \* state of the record in the store, "none": no record
    pc,          \* where the app stands; "off": not running, "up": drives nothing
    gateTip,     \* the tip at which the running drive was cleared to pay
    paidBy,      \* (history) who started the payment: "live" drive or "resume"
    revealedAt,  \* (history) tip at which the maker settled, and revealed P
    told         \* (history) resume told the user the window closed with no loss

chain   == <<tip, terms, leg, claimBy>>
rail    == <<pay, payDeadline, paidBy, revealedAt>>
app     == <<saved, pc, gateTip, told>>
vars    == <<chain, rail, app>>

NoTerms == [flaws |-> {}, cltv |-> 0, tseq |-> 0]

Init ==
    /\ tip = 0 /\ terms = NoTerms /\ leg = "absent" /\ claimBy = None
    /\ pay = "none" /\ payDeadline = None /\ paidBy = "nobody" /\ revealedAt = None
    /\ saved = "none" /\ pc = "up" /\ gateTip = None /\ told = FALSE

\* seqLocktime > tip + kSubClaimMargin
WindowOpen == terms.tseq > tip + Margin

\* Mutant of HoldSafe: a Bitcoin block taken for one Sequentia block.
HoldSafeUnscaled == tip + terms.cltv + Margin < terms.tseq

\* holdCltvSafeVsTseq: the latest block the maker can settle a held payment in
\* leaves the margin before T_seq.
HoldSafe == tip + terms.cltv * Ratio + Margin < terms.tseq

-----------------------------------------------------------------------------
(* The live drive, runReverseBuy: each step ends at the await that may fail. *)

\* The screen saves the new record and starts the drive.
Begin ==
    /\ pc = "up" /\ saved = "none" /\ terms = NoTerms
    /\ saved' = "starting" /\ pc' = "terms"
    /\ UNCHANGED <<chain, rail, gateTip, told>>

\* 1. asset_locked arrives: any announcement, its funding output anywhere.
AssetLocked ==
    /\ pc = "terms"
    /\ terms' \in [flaws : SUBSET Flaws, cltv : Cltvs, tseq : Locktimes]
    /\ leg' \in Unspent \cup {"absent"}
    /\ saved' = "verifying" /\ pc' = "verify"
    /\ UNCHANGED <<tip, claimBy, rail, gateTip, told>>

\* 2a-2c. The rebuilt redeem, the leg's binding to the offer, the output on chain.
VerifyLeg ==
    /\ pc = "verify"
    /\ terms.flaws \cap {"redeem", "binding", "output"} = {}
    /\ leg \in Unspent
    /\ saved' = "verified" /\ pc' = "window"
    /\ UNCHANGED <<chain, rail, gateTip, told>>

\* 3. The claim window.
ClaimWindow ==
    /\ pc = "window" /\ WindowOpen
    /\ pc' = "anchor"
    /\ UNCHANGED <<chain, rail, saved, gateTip, told>>

\* Mutant of AnchorBuried: a confirmed leg is enough.
AnchorConfirmed ==
    /\ pc = "anchor" /\ leg \in {"confirmed", "buried"}
    /\ pc' = "gates"
    /\ UNCHANGED <<chain, rail, saved, gateTip, told>>

\* 4. _waitAnchorBuried.
AnchorBuried ==
    /\ pc = "anchor" /\ leg = "buried"
    /\ pc' = "gates"
    /\ UNCHANGED <<chain, rail, saved, gateTip, told>>

\* Mutant of PaymentGates: the crash-gap record is not written before the payment.
PaymentGatesUnsaved ==
    /\ pc = "gates"
    /\ terms.flaws \cap {"hash", "amount", "cltv"} = {}
    /\ WindowOpen /\ HoldSafe
    /\ gateTip' = tip /\ pc' = "connect"
    /\ UNCHANGED <<chain, rail, saved, told>>

\* 5-8. Payment hash, amount, the window again, the hold's CLTV; then the record.
PaymentGates ==
    /\ pc = "gates"
    /\ terms.flaws \cap {"hash", "amount", "cltv"} = {}
    /\ WindowOpen /\ HoldSafe
    /\ gateTip' = tip
    /\ saved' = "paying" /\ pc' = "connect"
    /\ UNCHANGED <<chain, rail, told>>

\* 9. connectNode, then nodePay: idempotent by the invoice's hash, so a payment
\* that is held or has settled is joined and one that failed is attempted again.
StartPay ==
    /\ pc \in {"connect", "reconnect"}
    /\ IF pay \in {"none", "failed"}
       THEN /\ pay' = "held"
            /\ payDeadline' = tip + terms.cltv * Ratio
            /\ paidBy' = IF pc = "connect" THEN "live" ELSE "resume"
       ELSE UNCHANGED <<pay, payDeadline, paidBy>>
    /\ pc' = "payWait" /\ gateTip' = None
    /\ UNCHANGED <<chain, revealedAt, saved, told>>

\* nodePay returned a preimage of H.
PayReturns ==
    /\ pc = "payWait" /\ pay = "settled" /\ "hash" \notin terms.flaws
    /\ saved' = "claiming" /\ pc' = "claim"
    /\ UNCHANGED <<chain, rail, gateTip, told>>

\* 10. _claimReverse: fee, transaction, broadcast...
BroadcastClaim ==
    /\ pc = "claim"
    /\ leg \in Unspent /\ claimBy = None
    /\ claimBy' = tip + Margin /\ pc' = "claimSave"
    /\ UNCHANGED <<tip, terms, leg, rail, saved, gateTip, told>>

\* ...and the record is settled.
SaveSettled ==
    /\ pc = "claimSave"
    /\ saved' = "settled" /\ pc' = "up"
    /\ UNCHANGED <<chain, rail, gateTip, told>>

\* A check fails, a call or a save throws or times out: the drive ends and the
\* record stays as it was last saved.
Throws ==
    /\ pc \in LiveSteps
    /\ pc' = "up" /\ gateTip' = None
    /\ UNCHANGED <<chain, rail, saved, told>>

-----------------------------------------------------------------------------
(* resume, at a cold start or by the user. *)

Crash ==
    /\ pc # "off"
    /\ pc' = "off" /\ gateTip' = None
    /\ UNCHANGED <<chain, rail, saved, told>>

\* Mutant of ResumeAt: a record that holds P is not claimed again.
ResumeAtPaying(s) == IF s = "paying" THEN "resume" ELSE "up"

\* Mutant of ResumeAt: the state itself, for a record nothing resumes.
ResumeAtState(s) == IF s = "paying" THEN "resume" ELSE IF s = "claiming" THEN "claim" ELSE s

\* _resumeInner: (A) claim again, (B) ask the node again.
ResumeAt(s) == IF s = "claiming" THEN "claim" ELSE IF s = "paying" THEN "resume" ELSE "up"

\* The store is read and its record driven, unless a drive holds its guard: a terminal
\* one and one that committed nothing are dropped.
Resume ==
    /\ pc \in {"off", "up"}
    /\ pc' = ResumeAt(saved)
    /\ saved' = IF saved \in {"paying", "claiming"} THEN saved ELSE "none"
    /\ UNCHANGED <<chain, rail, gateTip, told>>

\* The shell never reaches resume, or the store cannot be read.
NoResume ==
    /\ pc = "off" /\ pc' = "up"
    /\ UNCHANGED <<chain, rail, saved, gateTip, told>>

\* (B) an unreadable tip does not stop the payment.
ResumePays ==
    /\ pc = "resume"
    /\ WindowOpen \/ TipFails
    /\ gateTip' = tip /\ pc' = "reconnect"
    /\ UNCHANGED <<chain, rail, saved, told>>

\* "The claim window has closed; not re-paying (no loss)."
ResumeRefuses ==
    /\ pc = "resume" /\ ~WindowOpen
    /\ told' = TRUE /\ pc' = "up"
    /\ UNCHANGED <<chain, rail, saved, gateTip>>

-----------------------------------------------------------------------------
(* The maker, the Lightning network and the chain. *)

Settle ==
    /\ pay = "held"
    /\ pay' = "settled" /\ revealedAt' = tip
    /\ UNCHANGED <<chain, app, payDeadline, paidBy>>

FailBack ==
    /\ pay = "held"
    /\ pay' = "failed"
    /\ UNCHANGED <<chain, app, payDeadline, paidBy, revealedAt>>

\* Up to its burial the funding block can be reorganised and its transaction replaced.
LegMoves ==
    /\ terms # NoTerms
    /\ \/ leg = "absent"    /\ leg' = "mempool"
       \/ leg = "mempool"   /\ leg' \in {"confirmed", "absent"}
       \/ leg = "confirmed" /\ leg' \in {"buried", "mempool"}
    /\ UNCHANGED <<tip, terms, claimBy, rail, app>>

MakerRefunds ==
    /\ leg \in {"confirmed", "buried"} /\ tip >= terms.tseq
    /\ leg' = "refunded"
    /\ UNCHANGED <<tip, terms, claimBy, rail, app>>

MineClaim ==
    /\ claimBy # None /\ leg \in Unspent
    /\ leg' = "claimed"
    /\ UNCHANGED <<tip, terms, claimBy, rail, app>>

\* A held payment ends by its deadline, a claim in the mempool is mined within the
\* margin, and connectNode takes PayDelay blocks at most.
Tick ==
    /\ tip < MaxTip
    /\ pay = "held" => tip < payDeadline
    /\ claimBy # None /\ leg \in Unspent => tip < claimBy
    /\ gateTip # None => tip < gateTip + PayDelay
    /\ tip' = tip + 1
    /\ UNCHANGED <<terms, leg, claimBy, rail, app>>

Next ==
    \/ Begin \/ AssetLocked \/ VerifyLeg \/ ClaimWindow \/ AnchorBuried \/ PaymentGates
    \/ StartPay \/ PayReturns \/ BroadcastClaim \/ SaveSettled \/ Throws
    \/ Crash \/ Resume \/ NoResume \/ ResumePays \/ ResumeRefuses
    \/ Settle \/ FailBack \/ LegMoves \/ MakerRefunds \/ MineClaim \/ Tick

Spec == Init /\ [][Next]_vars

\* The record is resumed for ever, every call answers or throws, and one that is made
\* for ever succeeds in the end; the chain mines what pays its fee.
Fairness ==
    /\ WF_vars(NoResume) /\ WF_vars(Throws) /\ WF_vars(SaveSettled) /\ WF_vars(MineClaim)
    /\ SF_vars(Resume) /\ SF_vars(ResumePays) /\ SF_vars(StartPay)
    /\ SF_vars(PayReturns) /\ SF_vars(BroadcastClaim)

FairSpec == Spec /\ Fairness

-----------------------------------------------------------------------------
(* What the swap promises. *)

TypeOK ==
    /\ tip \in 0 .. MaxTip
    /\ terms \in [flaws : SUBSET Flaws, cltv : Cltvs \cup {0}, tseq : Locktimes \cup {0}]
    /\ leg \in Unspent \cup {"absent", "claimed", "refunded"}
    /\ claimBy \in Nat
    /\ pay \in {"none", "held", "settled", "failed"} /\ payDeadline \in Nat
    /\ saved \in SubStates /\ pc \in LiveSteps \cup {"off", "up"}
    /\ gateTip \in Nat /\ told \in BOOLEAN
    /\ paidBy \in {"nobody", "live", "resume"} /\ revealedAt \in Nat

\* Nothing is paid before the maker's asset is locked to our key under the hash we
\* pay for, and is past every reorganisation; a restart does not change that.  It does
\* not say that the claim window is open: a resume that cannot read the tip (1740) pays
\* past it, and past T_seq.
PaidLegIsOurs ==
    pay # "none" => terms.flaws = {} /\ leg \notin {"absent", "mempool", "confirmed"}

\* A payment the live drive started reveals P while the claim margin is left, less
\* the blocks that pass between reading the tip and paying.
LiveRevealLeavesMargin ==
    paidBy = "live" /\ pay = "settled" => revealedAt + Margin < terms.tseq + PayDelay

\* Once the maker has our bitcoin we get the asset, if the claim window stays open.
Recovered == pay = "settled" ~> (leg = "claimed" \/ ~WindowOpen)

\* The record is in the store before the payment and until the claim is sent.
Record == INSTANCE SwapRecord WITH
    recorded  <- saved \in {"paying", "claiming", "settled"},
    committed <- pay \in {"held", "settled"},
    resolved  <- claimBy # None

WriteAhead == Record!Spec

\* "REQUIRE the taker can still claim after the latest possible reveal" (the comment
\* on the hold-CLTV gate), of every payment and not of the first attempt only.
RevealLeavesMargin == pay = "settled" => revealedAt + Margin < terms.tseq + PayDelay

\* "The claim window has closed; not re-paying (no loss)": told so, we have not paid
\* for an asset that is still there to be claimed.
ClosedWindowIsNoLoss == told => ~(pay = "settled" /\ leg \in Unspent /\ tip < terms.tseq)
=============================================================================
