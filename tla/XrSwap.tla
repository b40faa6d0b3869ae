------------------------------- MODULE XrSwap -------------------------------
(***************************************************************************)
(* The reverse cross-chain swap, taker's side (data/xr_swap_service.dart): *)
(* the maker locks Bitcoin under a hash first; behind that lock, and only  *)
(* once Sequentia is anchored above it, we lock the asset; the maker takes *)
(* it and so reveals the secret, with which we take the Bitcoin.  A maker  *)
(* that does nothing lets us refund the asset after T_seq.                 *)
(*                                                                         *)
(* Two drivers work on one stored record, each with its own copy of it:    *)
(* the live drive, and the record sheet with its Resume, Refund and Clear  *)
(* (the resume of a session does what the sheet's Resume does).  Nothing   *)
(* keeps them apart, and a save writes the whole copy.  Bitcoin may        *)
(* reorganise its last block, and Sequentia a block to one with a lower    *)
(* anchor.                                                                 *)
(***************************************************************************)
EXTENDS Integers

CONSTANTS
    MaxBtc,     \* bound on the Bitcoin tip
    TSeq        \* T_seq, the Sequentia height that opens our refund

ASSUME XrConstants == MaxBtc \in Nat /\ TSeq \in Nat

VARIABLES
    btcTip,     \* the Bitcoin tip
    lockAt,     \* the block of the maker's lock, 0: not in a block
    anchor,     \* the Bitcoin height the Sequentia tip is anchored to
    tip,        \* the Sequentia tip
    leg,        \* our asset's HTLC
    legAnchor,  \* the anchor of the block with its funding
    revealed,   \* the maker has sent its claim, and the secret with it
    announced,  \* the maker knows of the leg from us
    claimSent,  \* our claim of the Bitcoin has been accepted
    refundSent, \* our refund of the asset has been accepted
    saved,      \* the record in the store
    pc,         \* where each driver stands; "off": not running
    copy,       \* each driver's copy of the record
    seen        \* btcLegHeight, as the live drive read it

bitcoin  == <<btcTip, lockAt>>
sequence == <<anchor, tip, leg, legAnchor>>
wire     == <<revealed, announced, claimSent, refundSent>>
app      == <<saved, pc, copy, seen>>
vars     == <<bitcoin, sequence, wire, app>>

Record == INSTANCE SwapRecord WITH
    recorded <- saved.attempted, committed <- leg # "absent", resolved <- claimSent \/ refundSent

Driver    == {"live", "sheet"}
Steps     == {"none", "btcLocked", "btcConfirmed", "seqFunding", "seqFunded", "secretRevealed",
              "btcClaimed", "refunded", "failed"}
PreFund   == {"btcConf", "anchor", "reverify"}
TailSteps == {"confirm", "settle", "claim", "saveClaimed"}
LiveSteps == PreFund \cup TailSteps \cup {"auth", "broadcast", "saveTxid", "legAnchor", "hint",
                                          "reload"}
SheetSteps == TailSteps \cup {"sheet", "scan", "saveRefunded"}

Rec   == [step : Steps, attempted : BOOLEAN, txid : BOOLEAN, pre : BOOLEAN]
NoRec == [step |-> "none", attempted |-> FALSE, txid |-> FALSE, pre |-> FALSE]

Init ==
    /\ btcTip = 0 /\ lockAt = 0 /\ anchor = 0 /\ tip = 0 /\ leg = "absent" /\ legAnchor = 0
    /\ revealed = FALSE /\ announced = FALSE /\ claimSent = FALSE /\ refundSent = FALSE
    /\ saved = NoRec /\ seen = 0
    /\ pc = [d \in Driver |-> "off"] /\ copy = [d \in Driver |-> NoRec]

\* The leg is recorded with seqFunded and never forgotten by a later step.
HasLeg(r)   == r.step \in {"seqFunded", "secretRevealed", "btcClaimed", "refunded"}
Terminal(r) == r.step \in {"btcClaimed", "refunded"}

HoldsOrMightHoldAsset(r) == ~Terminal(r) /\ (HasLeg(r) \/ r.txid \/ r.attempted)

\* A driver that throws is gone; the sheet stays open, with the copy as it is.
Stopped(d) == IF d = "sheet" THEN "sheet" ELSE "off"

\* A driver that has ended holds no copy.
Move(d, r, step) ==
    /\ pc' = [pc EXCEPT ![d] = step]
    /\ copy' = [copy EXCEPT ![d] = IF step = "off" THEN NoRec ELSE r]

Goto(d, step) == Move(d, copy[d], step)

\* The copy is changed, then saved; the save may throw.
Save(d, r, step) ==
    \/ saved' = r /\ Move(d, r, step)
    \/ UNCHANGED saved /\ Move(d, r, Stopped(d))

At(d, step) == pc[d] = step

-----------------------------------------------------------------------------
(* The live drive, runWithCourier. *)

\* 1-2. The maker's lock is announced and binds the agreed terms.  One swap moves an asset.
Begin ==
    /\ At("live", "off") /\ saved = NoRec /\ leg = "absent"
    /\ Save("live", [NoRec EXCEPT !.step = "btcLocked"], "btcConf")
    /\ UNCHANGED <<bitcoin, sequence, wire, seen>>

\* 3. The lock is seen in a block.
BtcConf ==
    /\ At("live", "btcConf") /\ lockAt # 0
    /\ seen' = lockAt
    /\ Save("live", [copy["live"] EXCEPT !.step = "btcConfirmed"], "anchor")
    /\ UNCHANGED <<bitcoin, sequence, wire>>

\* Mutant of AnchorWait: the lock's own height is enough.
AnchorWaitLow ==
    /\ At("live", "anchor") /\ anchor >= seen
    /\ Goto("live", "reverify")
    /\ UNCHANGED <<bitcoin, sequence, wire, saved, seen>>

\* 4. Sequentia is anchored above the lock.
AnchorWait ==
    /\ At("live", "anchor") /\ anchor >= seen + 1
    /\ Goto("live", "reverify")
    /\ UNCHANGED <<bitcoin, sequence, wire, saved, seen>>

\* 4b. The lock is where it was; 5. the redeem is saved.
Reverify ==
    /\ At("live", "reverify") /\ lockAt = seen
    /\ Save("live", [copy["live"] EXCEPT !.step = "seqFunding"], "auth")
    /\ UNCHANGED <<bitcoin, sequence, wire, seen>>

\* _failAbort: the lock is short, gone or moved, or a timelock too near.
Abort ==
    /\ pc["live"] \in PreFund
    /\ Save("live", [copy["live"] EXCEPT !.step = "failed"], "off")
    /\ UNCHANGED <<bitcoin, sequence, wire, seen>>

\* Mutant of AboutToBroadcast: the intent stays in memory.
AboutToBroadcastUnsaved ==
    /\ At("live", "auth")
    /\ Move("live", [copy["live"] EXCEPT !.attempted = TRUE], "broadcast")
    /\ UNCHANGED <<bitcoin, sequence, wire, saved, seen>>

\* 5. onAboutToBroadcast, after authorisation and signature.
AboutToBroadcast ==
    /\ At("live", "auth")
    /\ Save("live", [copy["live"] EXCEPT !.attempted = TRUE], "broadcast")
    /\ UNCHANGED <<bitcoin, sequence, wire, seen>>

Broadcast ==
    /\ At("live", "broadcast")
    /\ leg' = "mempool" /\ Goto("live", "saveTxid")
    /\ UNCHANGED <<bitcoin, anchor, tip, legAnchor, wire, saved, seen>>

SaveTxid ==
    /\ At("live", "saveTxid")
    /\ Save("live", [copy["live"] EXCEPT !.txid = TRUE], "confirm")
    /\ UNCHANGED <<bitcoin, sequence, wire, seen>>

\* Mutant of Confirm: a resume announces the leg too.
ConfirmAnnounces(d) ==
    /\ At(d, "confirm") /\ leg \in {"mined", "claimed", "refunded"}
    /\ Save(d, [copy[d] EXCEPT !.step = "seqFunded"], "legAnchor")
    /\ UNCHANGED <<bitcoin, sequence, wire, seen>>

\* 5b and resumeSeqLeg: the funding is seen in a block, spent or not.
Confirm(d) ==
    /\ At(d, "confirm") /\ leg \in {"mined", "claimed", "refunded"}
    /\ Save(d, [copy[d] EXCEPT !.step = "seqFunded"], IF d = "live" THEN "legAnchor" ELSE "settle")
    /\ UNCHANGED <<bitcoin, sequence, wire, seen>>

\* seq_leg_funded, if the leg's block is anchored at or above the lock.
Announce ==
    /\ At("live", "legAnchor") /\ leg # "mempool" /\ legAnchor >= seen
    /\ announced' = TRUE /\ Goto("live", "hint")
    /\ UNCHANGED <<bitcoin, sequence, revealed, claimSent, refundSent, saved, seen>>

\* It is not, or its anchor cannot be read: the maker is not told.
Withhold ==
    /\ At("live", "legAnchor")
    /\ Save("live", copy["live"], "off")
    /\ UNCHANGED <<bitcoin, sequence, wire, seen>>

\* secret_revealed over the courier, or nothing in time, or a save that throws.
Hint ==
    /\ At("live", "hint") /\ Goto("live", "reload")
    /\ \/ revealed /\ saved' = [copy["live"] EXCEPT !.pre = TRUE]
       \/ UNCHANGED saved
    /\ UNCHANGED <<bitcoin, sequence, wire, seen>>

\* 6. The record is read again before it is settled.
Reload ==
    /\ At("live", "reload")
    /\ Move("live", saved, IF HasLeg(saved) /\ ~Terminal(saved) THEN "settle" ELSE "off")
    /\ UNCHANGED <<bitcoin, sequence, wire, saved, seen>>

-----------------------------------------------------------------------------
(* settle, by either driver. *)

\* The secret is in the record or read from the maker's claim.  The save of one just read
\* is inside the poll's try: when it throws, the drive goes on with what it holds.
Learn(d) ==
    LET r == [copy[d] EXCEPT !.pre = TRUE, !.step = "secretRevealed"] IN
    /\ At(d, "settle") /\ (copy[d].pre \/ revealed)
    /\ \/ Save(d, r, "claim")
       \/ ~copy[d].pre /\ Move(d, r, "claim") /\ UNCHANGED saved
    /\ UNCHANGED <<bitcoin, sequence, wire, seen>>

Claim(d) ==
    /\ At(d, "claim") /\ lockAt # 0 /\ ~claimSent
    /\ claimSent' = TRUE /\ Goto(d, "saveClaimed")
    /\ UNCHANGED <<bitcoin, sequence, revealed, announced, refundSent, saved, seen>>

SaveClaimed(d) ==
    /\ At(d, "saveClaimed")
    /\ Save(d, [copy[d] EXCEPT !.step = "btcClaimed"], "off")
    /\ UNCHANGED <<bitcoin, sequence, wire, seen>>

\* A call fails or its polls are used up.
Throws(d) ==
    /\ pc[d] \notin {"off", Stopped(d)}
    /\ Goto(d, Stopped(d))
    /\ UNCHANGED <<bitcoin, sequence, wire, saved, seen>>

-----------------------------------------------------------------------------
(* The record sheet, and the resume of a session. *)

\* The sheet is offered for a record in flight.
OpenSheet ==
    /\ At("sheet", "off") /\ HoldsOrMightHoldAsset(saved)
    /\ Move("sheet", saved, "sheet")
    /\ UNCHANGED <<bitcoin, sequence, wire, saved, seen>>

CloseSheet ==
    /\ At("sheet", "sheet") /\ Goto("sheet", "off")
    /\ UNCHANGED <<bitcoin, sequence, wire, saved, seen>>

\* Mutant of Resume: a record with the intent only is not resumed.
ResumeByTxid ==
    LET r == copy["sheet"] IN
    /\ At("sheet", "sheet") /\ ~Terminal(r)
    /\ Goto("sheet", IF HasLeg(r) THEN "settle" ELSE IF r.txid THEN "confirm" ELSE "off")
    /\ UNCHANGED <<bitcoin, sequence, wire, saved, seen>>

Resume ==
    LET r == copy["sheet"] IN
    /\ At("sheet", "sheet") /\ ~Terminal(r)
    /\ Goto("sheet", IF HasLeg(r) THEN "settle" ELSE IF r.txid THEN "confirm" ELSE "scan")
    /\ UNCHANGED <<bitcoin, sequence, wire, saved, seen>>

\* The strand recovery adopts the funding it finds at the HTLC address.
ScanFinds ==
    /\ At("sheet", "scan") /\ leg # "absent"
    /\ Save("sheet", [copy["sheet"] EXCEPT !.txid = TRUE], "confirm")
    /\ UNCHANGED <<bitcoin, sequence, wire, seen>>

\* refundSeqReady and refundSeq: judged on the sheet's copy; the chain takes the
\* refund of an output that it has not seen spent.
Refund ==
    LET r == copy["sheet"] IN
    /\ At("sheet", "sheet")
    /\ HasLeg(r) /\ ~Terminal(r) /\ r.step # "secretRevealed" /\ ~r.pre
    /\ tip >= TSeq /\ leg = "mined" /\ ~refundSent
    /\ refundSent' = TRUE /\ Goto("sheet", "saveRefunded")
    /\ UNCHANGED <<bitcoin, sequence, revealed, announced, claimSent, saved, seen>>

SaveRefunded ==
    /\ At("sheet", "saveRefunded")
    /\ Save("sheet", [copy["sheet"] EXCEPT !.step = "refunded"], "off")
    /\ UNCHANGED <<bitcoin, sequence, wire, seen>>

\* Clear, offered by the copy and judged again on the stored record.
Abandon ==
    /\ At("sheet", "sheet")
    /\ ~HoldsOrMightHoldAsset(copy["sheet"]) /\ ~HoldsOrMightHoldAsset(saved)
    /\ saved' = NoRec /\ Goto("sheet", "off")
    /\ UNCHANGED <<bitcoin, sequence, wire, seen>>

-----------------------------------------------------------------------------
(* The process, the maker and the chains. *)

Crash ==
    /\ \E d \in Driver : pc[d] # "off"
    /\ pc' = [d \in Driver |-> "off"] /\ copy' = [d \in Driver |-> NoRec]
    /\ UNCHANGED <<bitcoin, sequence, wire, saved, seen>>

BtcBlock ==
    /\ btcTip < MaxBtc /\ btcTip' = btcTip + 1
    /\ lockAt' \in IF lockAt = 0 THEN {0, btcTip + 1} ELSE {lockAt}
    /\ UNCHANGED <<sequence, wire, app>>

\* The block of the maker's lock is replaced by two others, with the lock in the second
\* or not; the Sequentia blocks anchored to what is gone go with it.
BtcReorg ==
    /\ lockAt # 0 /\ lockAt = btcTip /\ btcTip < MaxBtc /\ ~claimSent
    /\ btcTip' = btcTip + 1 /\ lockAt' \in {0, btcTip + 1}
    /\ anchor' = IF anchor >= lockAt THEN lockAt - 1 ELSE anchor
    /\ leg' = IF leg = "mined" /\ legAnchor >= lockAt THEN "mempool" ELSE leg
    /\ UNCHANGED <<tip, legAnchor, wire, app>>

Anchor ==
    /\ anchor < btcTip /\ anchor' = anchor + 1
    /\ UNCHANGED <<bitcoin, tip, leg, legAnchor, wire, app>>

Tick ==
    /\ tip < TSeq /\ tip' = tip + 1
    /\ UNCHANGED <<bitcoin, anchor, leg, legAnchor, wire, app>>

\* The funding may land on a branch of Sequentia with a lower anchor than the tip had.
MineFunding ==
    /\ leg = "mempool" /\ leg' = "mined"
    /\ legAnchor' \in 0 .. anchor
    /\ UNCHANGED <<bitcoin, anchor, tip, wire, app>>

\* The maker takes a leg it was told of, or found by itself, while its lock stands.
MakerClaims ==
    /\ leg = "mined" /\ lockAt # 0 /\ ~revealed
    /\ announced \/ legAnchor >= lockAt
    /\ revealed' = TRUE
    /\ UNCHANGED <<bitcoin, sequence, announced, claimSent, refundSent, app>>

MineClaim ==
    /\ revealed /\ leg = "mined" /\ leg' = "claimed"
    /\ UNCHANGED <<bitcoin, anchor, tip, legAnchor, wire, app>>

MineRefund ==
    /\ refundSent /\ leg = "mined" /\ leg' = "refunded"
    /\ UNCHANGED <<bitcoin, anchor, tip, legAnchor, wire, app>>

Next ==
    \/ Begin \/ BtcConf \/ AnchorWait \/ Reverify \/ Abort \/ AboutToBroadcast \/ Broadcast
    \/ SaveTxid \/ Announce \/ Withhold \/ Hint \/ Reload
    \/ \E d \in Driver : Confirm(d) \/ Learn(d) \/ Claim(d) \/ SaveClaimed(d) \/ Throws(d)
    \/ OpenSheet \/ CloseSheet \/ Resume \/ ScanFinds \/ Refund \/ SaveRefunded \/ Abandon
    \/ Crash \/ BtcBlock \/ BtcReorg \/ Anchor \/ Tick
    \/ MineFunding \/ MakerClaims \/ MineClaim \/ MineRefund

Spec == Init /\ [][Next]_vars

\* The sheet's save has not thrown.
Saved == pc'["sheet"] # "sheet"

\* Blocks come; the user opens the sheet again and again and presses what it offers, and
\* a call made for ever succeeds in the end.
Fairness ==
    /\ WF_vars(BtcBlock) /\ WF_vars(MineFunding) /\ WF_vars(Tick)
    /\ WF_vars(MineClaim) /\ WF_vars(MineRefund)
    /\ \A d \in Driver : WF_vars(Throws(d))
    /\ SF_vars(OpenSheet) /\ SF_vars(Resume) /\ SF_vars(ScanFinds /\ Saved)
    /\ SF_vars(Confirm("sheet") /\ Saved) /\ SF_vars(Learn("sheet") /\ Saved)
    /\ SF_vars(Claim("sheet")) /\ SF_vars(Refund)

FairSpec == Spec /\ Fairness

-----------------------------------------------------------------------------
(* What the swap promises. *)

TypeOK ==
    /\ btcTip \in 0 .. MaxBtc /\ lockAt \in 0 .. btcTip /\ anchor \in 0 .. btcTip
    /\ tip \in 0 .. TSeq /\ legAnchor \in 0 .. MaxBtc /\ seen \in 0 .. MaxBtc
    /\ leg \in {"absent", "mempool", "mined", "claimed", "refunded"}
    /\ {revealed, announced, claimSent, refundSent} \subseteq BOOLEAN
    /\ saved \in Rec /\ copy \in [Driver -> Rec]
    /\ pc["live"] \in LiveSteps \cup {"off"} /\ pc["sheet"] \in SheetSteps \cup {"off"}

\* A leg the maker is told of sits in a block that cannot outlive the maker's lock: while
\* it stands, the lock is on Bitcoin, at the block of its anchor or below it.
AnnouncedIsCovered == announced /\ leg = "mined" => lockAt # 0 /\ legAnchor >= lockAt

\* The asset leaves the wallet only under a saved intent, and the record keeps it until
\* the Bitcoin claim or the asset refund is sent, whichever drivers write the record.
WriteAhead == Record!Spec

\* An asset that is out is in the end paid for or taken back.
Settles == (leg \in {"mempool", "mined"}) ~> (claimSent \/ refundSent)
=============================================================================
