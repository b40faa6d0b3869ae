------------------------- MODULE SubmarineSell_proofs -------------------------
(***************************************************************************)
(* Proofs about SubmarineSell for every depth, indexer lag, locktime and   *)
(* bound with MaxLag + FundIn <= Depth: its type, that abandoning never    *)
(* removes the record of an asset that was sent, and that every step is a  *)
(* step of SwapRecord.                                                     *)
(***************************************************************************)
EXTENDS SubmarineSell, TLAPS

\* Before the intent is saved nothing has happened to our money.
Untouched ==
    /\ leg = "absent" /\ ~refundSent /\ hold = "none" /\ ~announced
    /\ stamp = 0 /\ ~fundTxid /\ stampedAt = 0
    /\ ui = "none" /\ ~cleared

\* The record's state at each step of a drive.
StateInv ==
    /\ pc = "terms" => saved = "starting" /\ tseq = 0
    /\ pc = "mint" => saved = "starting" /\ tseq # 0
    /\ pc \in {"auth", "broadcast", "saveTxid", "confirm", "scan"} => saved = "funding"
    /\ pc \in {"announce", "hold", "recheck", "refund", "saveSettled", "saveRefunded"} =>
          saved = "settling"
    /\ pc \in {"terms", "mint", "auth"} => ~attempted
    /\ pc = "broadcast" => attempted /\ leg = "absent"
    /\ pc \in {"saveTxid", "confirm"} => leg # "absent"
    /\ ui = "utxos" => saved = "funding" /\ pc \notin DriveSteps

\* What a state of the record says of the money.
MoneyInv ==
    /\ tseq = 0 => ~attempted /\ saved \in {"none", "starting"}
    /\ ~attempted => Untouched
    /\ saved \in {"settling", "settled", "refunded"} => leg # "absent"
    /\ saved \in {"starting", "funding"} => ~announced /\ ~refundSent
    /\ hold # "none" => announced
    /\ saved = "settled" \/ pc = "saveSettled" => hold = "settled"
    /\ saved = "refunded" \/ pc = "saveRefunded" => refundSent
    /\ leg = "claimed" => announced
    /\ leg = "refunded" => refundSent
    /\ cleared => leg = "absent" /\ saved = "none" /\ pc \in {"off", "up"}

\* The heights: a stamp is at most MaxLag behind, the funding is mined within FundIn
\* blocks of it, a dialog's height has been read from the indexer.
HeightInv ==
    /\ stamp > 0 => stampedAt <= stamp + MaxLag
    /\ pc = "broadcast" \/ leg = "mempool" => tip < stampedAt + FundIn
    /\ leg = "confirmed" => minedAt <= stampedAt + FundIn
    /\ uiHeight <= view

IInv == TypeOK /\ StateInv /\ MoneyInv /\ HeightInv

-----------------------------------------------------------------------------
(* Lemmas. *)

\* The premise of the abandon: an empty answer at a tip that proves it means that
\* nothing was sent, whatever the lag.
LEMMA EmptyIsProof ==
  ASSUME IInv, NEW h \in Nat, h <= view, ProvesEmpty(h), MayMiss, saved = "funding"
  PROVE  leg = "absent" /\ pc # "broadcast"
  <1>1. h >= stampedAt + FundIn /\ tip >= h
    BY SellConstants DEF IInv, TypeOK, HeightInv, ProvesEmpty
  <1>2. pc # "broadcast" /\ leg # "mempool"
    BY <1>1, SellConstants DEF IInv, TypeOK, HeightInv
  <1>3. leg # "confirmed"
    BY <1>1, SellConstants DEF IInv, TypeOK, HeightInv, MayMiss
  <1>4. leg \notin {"claimed", "refunded"}
    BY DEF IInv, MoneyInv
  <1>5. QED
    BY <1>2, <1>3, <1>4 DEF IInv, TypeOK, Locked

\* The invariant holds at the start.
LEMMA InitIInv == ASSUME Init PROVE IInv
  <1>1. TypeOK
    <2>1. /\ refundSent \in BOOLEAN /\ announced \in BOOLEAN /\ attempted \in BOOLEAN
          /\ fundTxid \in BOOLEAN /\ cleared \in BOOLEAN
      BY Zenon DEF Init
    <2>2. tip \in 1 .. MaxTip /\ view \in 1 .. tip /\ tseq \in Locktimes \cup {0}
      BY SellConstants DEF Init
    <2>3. QED
      BY <2>1, <2>2 DEF Init, TypeOK, Locked, SubStates, DriveSteps
  <1>2. StateInv
    BY DEF Init, StateInv
  <1>3. MoneyInv
    BY DEF Init, MoneyInv, Untouched
  <1>4. HeightInv
    BY SellConstants DEF Init, HeightInv
  <1>5. QED
    BY <1>1, <1>2, <1>3, <1>4 DEF IInv

\* Every step keeps the types.
LEMMA TypeStep == ASSUME TypeOK, [Next]_vars PROVE TypeOK'
  <1> USE SellConstants DEF TypeOK, Locked, SubStates, DriveSteps
  <1>1. CASE Begin
    BY <1>1 DEF Begin, chain, rail, hist
  <1>2. CASE Terms
    BY <1>2 DEF Terms, rail, store, hist
  <1>3. CASE Mint
    BY <1>3 DEF Mint, chain, rail, hist
  <1>4. CASE AboutToBroadcast
    BY <1>4 DEF AboutToBroadcast, chain, rail
  <1>5. CASE Broadcast
    BY <1>5 DEF Broadcast, rail, store, hist
  <1>6. CASE SaveTxid
    BY <1>6 DEF SaveTxid, chain, rail, hist
  <1>7. CASE Confirm
    BY <1>7 DEF Confirm, chain, rail, hist
  <1>8. CASE Announce
    BY <1>8 DEF Announce, chain, store, hist
  <1>9. CASE SettleHold
    BY <1>9 DEF SettleHold, chain, store, hist
  <1>10. CASE SaveSettled \/ SaveRefunded
    BY <1>10 DEF SaveSettled, SaveRefunded, chain, rail, hist
  <1>11. CASE Throws \/ NoResume \/ RecheckUnpaid
    BY <1>11 DEF Throws, NoResume, RecheckUnpaid, chain, rail, store, hist
  <1>12. CASE Crash
    BY <1>12 DEF Crash, chain, rail, store, hist
  <1>13. CASE Resume
    BY <1>13 DEF Resume, chain, rail, hist
  <1>14. CASE ScanFinds \/ ScanDrops
    BY <1>14 DEF ScanFinds, ScanDrops, chain, rail, hist
  <1>15. CASE Refund
    BY <1>15 DEF Refund, rail, store, hist
  <1>16. CASE OfferAbandon \/ ConfirmAbandon \/ AbandonRefused
    BY <1>16 DEF OfferAbandon, ConfirmAbandon, AbandonRefused, chain, rail, store, hist
  <1>17. CASE RescanEmpty
    BY <1>17 DEF RescanEmpty, chain, rail
  <1>18. CASE MakerPays \/ HoldFails
    BY <1>18 DEF MakerPays, HoldFails, chain, store, app, hist
  <1>19. CASE MakerClaims \/ MineRefund
    BY <1>19 DEF MakerClaims, MineRefund, rail, store, app, hist
  <1>20. CASE MineFunding
    BY <1>20 DEF MineFunding, rail, store, app, hist
  <1>21. CASE Tick
    BY <1>21 DEF Tick, rail, store, app, hist
  <1>22. CASE CatchUp
    BY <1>22 DEF CatchUp, rail, store, app, hist
  <1>23. CASE UNCHANGED vars
    BY <1>23 DEF vars, chain, rail, store, app, hist
  <1>24. QED
    BY <1>1, <1>2, <1>3, <1>4, <1>5, <1>6, <1>7, <1>8, <1>9, <1>10, <1>11, <1>12, <1>13,
       <1>14, <1>15, <1>16, <1>17, <1>18, <1>19, <1>20, <1>21, <1>22, <1>23
    DEF Next

\* Every step keeps what the position of the driver says of the saved record.
LEMMA StateStep == ASSUME IInv, [Next]_vars PROVE StateInv'
  <1> USE DEF IInv, StateInv, DriveSteps
  <1>1. CASE Begin
    BY <1>1 DEF Begin, chain, rail, hist, MoneyInv, Untouched
  <1>2. CASE Terms
    <2>1. tseq' # 0
      BY <1>2, SellConstants DEF Terms, TypeOK
    <2>2. QED
      BY <1>2, <2>1 DEF Terms, rail, store, hist
  <1>3. CASE Mint
    BY <1>3 DEF Mint, chain, rail, hist
  <1>4. CASE AboutToBroadcast
    BY <1>4 DEF AboutToBroadcast, chain, rail, MoneyInv, Untouched
  <1>5. CASE Broadcast
    BY <1>5 DEF Broadcast, rail, store, hist
  <1>6. CASE SaveTxid
    BY <1>6 DEF SaveTxid, chain, rail, hist
  <1>7. CASE Confirm
    BY <1>7 DEF Confirm, chain, rail, hist
  <1>8. CASE Announce
    BY <1>8 DEF Announce, chain, store, hist
  <1>9. CASE SettleHold
    BY <1>9 DEF SettleHold, chain, store, hist
  <1>10. CASE SaveSettled \/ SaveRefunded
    BY <1>10 DEF SaveSettled, SaveRefunded, chain, rail, hist
  <1>11. CASE Throws \/ NoResume \/ RecheckUnpaid
    BY <1>11 DEF Throws, NoResume, RecheckUnpaid, chain, rail, store, hist
  <1>12. CASE Crash
    BY <1>12 DEF Crash, chain, rail, store, hist
  <1>13. CASE Resume
    BY <1>13 DEF Resume, chain, rail, hist, Driving
  <1>14. CASE ScanFinds \/ ScanDrops
    BY <1>14 DEF ScanFinds, ScanDrops, chain, rail, hist
  <1>15. CASE Refund
    BY <1>15 DEF Refund, rail, store, hist
  <1>16. CASE OfferAbandon \/ ConfirmAbandon \/ AbandonRefused
    <2>1. ui' = "utxos" => saved' = "funding" /\ pc' \notin DriveSteps
      BY <1>16 DEF OfferAbandon, ConfirmAbandon, AbandonRefused, Driving, CanAbandonFunding, store
    <2>2. QED
      BY <1>16, <2>1 DEF OfferAbandon, ConfirmAbandon, AbandonRefused, chain, rail, store, hist
  <1>17. CASE RescanEmpty
    BY <1>17 DEF RescanEmpty, chain, rail, MoneyInv, Untouched
  <1>18. CASE MakerPays \/ HoldFails
    BY <1>18 DEF MakerPays, HoldFails, chain, store, app, hist
  <1>19. CASE MakerClaims \/ MineRefund
    BY <1>19 DEF MakerClaims, MineRefund, rail, store, app, hist
  <1>20. CASE MineFunding
    BY <1>20 DEF MineFunding, rail, store, app, hist
  <1>21. CASE Tick
    BY <1>21 DEF Tick, rail, store, app, hist
  <1>22. CASE CatchUp
    BY <1>22 DEF CatchUp, rail, store, app, hist
  <1>23. CASE UNCHANGED vars
    BY <1>23 DEF vars, chain, rail, store, app, hist
  <1>24. QED
    BY <1>1, <1>2, <1>3, <1>4, <1>5, <1>6, <1>7, <1>8, <1>9, <1>10, <1>11, <1>12, <1>13,
       <1>14, <1>15, <1>16, <1>17, <1>18, <1>19, <1>20, <1>21, <1>22, <1>23
    DEF Next

\* Every step keeps the bond between the asset that is out and the saved intent.
LEMMA MoneyStep == ASSUME IInv, [Next]_vars PROVE MoneyInv'
  <1> USE DEF IInv, StateInv, MoneyInv, Untouched
  <1>1. CASE Begin
    BY <1>1 DEF Begin, chain, rail, hist
  <1>2. CASE Terms
    <2>1. tseq' # 0
      BY <1>2, SellConstants DEF Terms, TypeOK
    <2>2. QED
      BY <1>2, <2>1 DEF Terms, rail, store, hist
  <1>3. CASE Mint
    BY <1>3 DEF Mint, chain, rail, hist
  <1>4. CASE AboutToBroadcast
    BY <1>4 DEF AboutToBroadcast, chain, rail
  <1>5. CASE Broadcast
    BY <1>5 DEF Broadcast, rail, store, hist
  <1>6. CASE SaveTxid
    BY <1>6 DEF SaveTxid, chain, rail, hist
  <1>7. CASE Confirm
    BY <1>7 DEF Confirm, chain, rail, hist
  <1>8. CASE Announce
    BY <1>8 DEF Announce, chain, store, hist
  <1>9. CASE SettleHold
    BY <1>9 DEF SettleHold, chain, store, hist
  <1>10. CASE SaveSettled \/ SaveRefunded
    BY <1>10 DEF SaveSettled, SaveRefunded, chain, rail, hist
  <1>11. CASE Throws \/ NoResume \/ RecheckUnpaid
    BY <1>11 DEF Throws, NoResume, RecheckUnpaid, chain, rail, store, hist
  <1>12. CASE Crash
    BY <1>12 DEF Crash, chain, rail, store, hist
  <1>13. CASE Resume
    BY <1>13 DEF Resume, chain, rail, hist
  <1>14. CASE ScanFinds \/ ScanDrops
    BY <1>14 DEF ScanFinds, ScanDrops, chain, rail, hist, MaySee, Locked
  <1>15. CASE Refund
    BY <1>15 DEF Refund, rail, store, hist
  <1>16. CASE OfferAbandon \/ ConfirmAbandon \/ AbandonRefused
    BY <1>16 DEF OfferAbandon, ConfirmAbandon, AbandonRefused, chain, rail, store, hist,
                ProvesEmpty
  <1>17. CASE RescanEmpty
    <2>1. leg = "absent" /\ pc \in {"off", "up"}
      <3>1. uiHeight \in Nat /\ uiHeight <= view
        BY DEF TypeOK, HeightInv
      <3>2. saved = "funding" /\ ProvesEmpty(uiHeight) /\ MayMiss
        BY <1>17 DEF RescanEmpty
      <3>3. QED
        BY <1>17, <3>1, <3>2, EmptyIsProof DEF RescanEmpty, TypeOK
    <2>2. attempted
      BY <1>17 DEF RescanEmpty
    <2>3. QED
      BY <1>17, <2>1, <2>2 DEF RescanEmpty, chain, rail
  <1>18. CASE MakerPays \/ HoldFails
    BY <1>18 DEF MakerPays, HoldFails, chain, store, app, hist
  <1>19. CASE MakerClaims \/ MineRefund
    BY <1>19 DEF MakerClaims, MineRefund, rail, store, app, hist
  <1>20. CASE MineFunding
    BY <1>20 DEF MineFunding, rail, store, app, hist
  <1>21. CASE Tick
    BY <1>21 DEF Tick, rail, store, app, hist
  <1>22. CASE CatchUp
    BY <1>22 DEF CatchUp, rail, store, app, hist
  <1>23. CASE UNCHANGED vars
    BY <1>23 DEF vars, chain, rail, store, app, hist
  <1>24. QED
    BY <1>1, <1>2, <1>3, <1>4, <1>5, <1>6, <1>7, <1>8, <1>9, <1>10, <1>11, <1>12, <1>13,
       <1>14, <1>15, <1>16, <1>17, <1>18, <1>19, <1>20, <1>21, <1>22, <1>23
    DEF Next

\* Every step keeps the bounds that make an empty scan a proof.
LEMMA HeightStep == ASSUME IInv, [Next]_vars PROVE HeightInv'
  <1> USE SellConstants DEF IInv, HeightInv
  <1>1. CASE Begin
    BY <1>1 DEF Begin, chain, rail, hist
  <1>2. CASE Terms
    BY <1>2 DEF Terms, rail, store, hist
  <1>3. CASE Mint
    BY <1>3 DEF Mint, chain, rail, hist
  <1>4. CASE AboutToBroadcast
    <2>1. stampedAt' = tip /\ tip' = tip /\ leg' = leg /\ pc' = "broadcast"
            /\ view' = view /\ uiHeight' = uiHeight
      BY <1>4 DEF AboutToBroadcast, chain
    <2>2. leg = "absent"
      BY <1>4 DEF AboutToBroadcast, StateInv, MoneyInv, Untouched
    <2>3. stamp' > 0 => tip <= stamp' + MaxLag
      <3>1. (stamp' = view \/ stamp' = 0) /\ tip - view <= MaxLag
        BY <1>4 DEF AboutToBroadcast
      <3>2. QED
        BY <3>1 DEF TypeOK
    <2>4. tip < tip + FundIn
      BY DEF TypeOK
    <2>5. QED
      BY <2>1, <2>2, <2>3, <2>4
  <1>5. CASE Broadcast
    BY <1>5 DEF Broadcast, rail, store, hist, TypeOK
  <1>6. CASE SaveTxid
    BY <1>6 DEF SaveTxid, chain, rail, hist
  <1>7. CASE Confirm
    BY <1>7 DEF Confirm, chain, rail, hist
  <1>8. CASE Announce
    BY <1>8 DEF Announce, chain, store, hist
  <1>9. CASE SettleHold
    BY <1>9 DEF SettleHold, chain, store, hist
  <1>10. CASE SaveSettled \/ SaveRefunded
    BY <1>10 DEF SaveSettled, SaveRefunded, chain, rail, hist
  <1>11. CASE Throws \/ NoResume \/ RecheckUnpaid
    BY <1>11 DEF Throws, NoResume, RecheckUnpaid, chain, rail, store, hist
  <1>12. CASE Crash
    BY <1>12 DEF Crash, chain, rail, store, hist, TypeOK
  <1>13. CASE Resume
    BY <1>13 DEF Resume, chain, rail, hist
  <1>14. CASE ScanFinds \/ ScanDrops
    BY <1>14 DEF ScanFinds, ScanDrops, chain, rail, hist
  <1>15. CASE Refund
    BY <1>15 DEF Refund, rail, store, hist
  <1>16. CASE OfferAbandon \/ ConfirmAbandon \/ AbandonRefused
    BY <1>16 DEF OfferAbandon, ConfirmAbandon, AbandonRefused, chain, rail, store, hist, TypeOK
  <1>17. CASE RescanEmpty
    BY <1>17 DEF RescanEmpty, chain, rail, TypeOK
  <1>18. CASE MakerPays \/ HoldFails
    BY <1>18 DEF MakerPays, HoldFails, chain, store, app, hist
  <1>19. CASE MakerClaims \/ MineRefund
    BY <1>19 DEF MakerClaims, MineRefund, rail, store, app, hist
  <1>20. CASE MineFunding
    BY <1>20 DEF MineFunding, rail, store, app, hist, TypeOK, StateInv
  <1>21. CASE Tick
    BY <1>21 DEF Tick, rail, store, app, hist, TypeOK
  <1>22. CASE CatchUp
    BY <1>22 DEF CatchUp, rail, store, app, hist, TypeOK
  <1>23. CASE UNCHANGED vars
    BY <1>23 DEF vars, chain, rail, store, app, hist
  <1>24. QED
    BY <1>1, <1>2, <1>3, <1>4, <1>5, <1>6, <1>7, <1>8, <1>9, <1>10, <1>11, <1>12, <1>13,
       <1>14, <1>15, <1>16, <1>17, <1>18, <1>19, <1>20, <1>21, <1>22, <1>23
    DEF Next

\* The strengthening of the safety properties is kept by every step of the swap.
THEOREM Inductive == Spec => []IInv
  <1>1. Init => IInv
    BY InitIInv
  <1>2. IInv /\ [Next]_vars => IInv'
    BY TypeStep, StateStep, MoneyStep, HeightStep DEF IInv
  <1>3. QED
    BY <1>1, <1>2, PTL DEF Spec

-----------------------------------------------------------------------------
(* The theorems. *)

\* Every variable of the swap keeps its type.
THEOREM TypeCorrect == Spec => []TypeOK
  <1>1. IInv => TypeOK
    BY DEF IInv
  <1>2. QED
    BY <1>1, Inductive, PTL

\* The user's abandon (abandonUnfundedSell) never removes the record of an asset that
\* was sent, for every lag the abandon depth covers.
THEOREM ClearedIsUnfundedAlways == Spec => []ClearedIsUnfunded
  <1>1. IInv => ClearedIsUnfunded
    BY DEF IInv, MoneyInv, ClearedIsUnfunded
  <1>2. QED
    BY <1>1, Inductive, PTL

\* Every step of the swap is a step of SwapRecord or leaves it alone: the record is in
\* the store before the asset is sent and until the hold is settled or the refund sent.
THEOREM WriteAheadAlways == Spec => WriteAhead
  <1> DEFINE Kept == [Record!Next]_(Record!vars)
  <1>1. Init => Record!Init
    BY DEF Init, Record!Init
  <1>2. ASSUME IInv, [Next]_vars PROVE Kept
    <2> USE DEF IInv, StateInv, MoneyInv, Record!Next, Record!vars, Record!Record, Record!Commit,
              Record!Release, Record!Resolve, Record!Forget
    <2>1. CASE Begin
      BY <1>2, <2>1 DEF Begin, chain, rail, hist
    <2>2. CASE Terms
      BY <1>2, <2>2 DEF Terms, rail, store, hist
    <2>3. CASE Mint
      BY <1>2, <2>3 DEF Mint, chain, rail, hist
    <2>4. CASE AboutToBroadcast
      BY <1>2, <2>4 DEF AboutToBroadcast, chain, rail
    <2>5. CASE Broadcast
      BY <1>2, <2>5 DEF Broadcast, rail, store, hist
    <2>6. CASE SaveTxid
      BY <1>2, <2>6 DEF SaveTxid, chain, rail, hist
    <2>7. CASE Confirm
      BY <1>2, <2>7 DEF Confirm, chain, rail, hist
    <2>8. CASE Announce
      BY <1>2, <2>8 DEF Announce, chain, store, hist
    <2>9. CASE SettleHold
      BY <1>2, <2>9 DEF SettleHold, chain, store, hist
    <2>10. CASE SaveSettled \/ SaveRefunded
      BY <1>2, <2>10 DEF SaveSettled, SaveRefunded, chain, rail, hist
    <2>11. CASE Throws \/ NoResume \/ RecheckUnpaid
      BY <1>2, <2>11 DEF Throws, NoResume, RecheckUnpaid, chain, rail, store, hist
    <2>12. CASE Crash
      BY <1>2, <2>12 DEF Crash, chain, rail, store, hist
    <2>13. CASE Resume
      BY <1>2, <2>13 DEF Resume, chain, rail, hist, TypeOK, SubStates
    <2>14. CASE ScanFinds \/ ScanDrops
      BY <1>2, <2>14 DEF ScanFinds, ScanDrops, chain, rail, hist, Untouched
    <2>15. CASE Refund
      BY <1>2, <2>15 DEF Refund, rail, store, hist, Locked
    <2>16. CASE OfferAbandon \/ ConfirmAbandon \/ AbandonRefused
      BY <1>2, <2>16 DEF OfferAbandon, ConfirmAbandon, AbandonRefused, chain, rail, store, hist
    <2>17. CASE RescanEmpty
      <3>a. leg = "absent"
        <4>1. uiHeight \in Nat /\ uiHeight <= view
          BY <1>2 DEF TypeOK, HeightInv
        <4>2. saved = "funding" /\ ProvesEmpty(uiHeight) /\ MayMiss
          BY <1>2, <2>17 DEF RescanEmpty
        <4>3. QED
          BY <1>2, <4>1, <4>2, EmptyIsProof
      <3>b. QED
        BY <1>2, <2>17, <3>a DEF RescanEmpty, chain, rail
    <2>18. CASE MakerPays \/ HoldFails
      BY <1>2, <2>18 DEF MakerPays, HoldFails, chain, store, app, hist
    <2>19. CASE MakerClaims \/ MineRefund
      BY <1>2, <2>19 DEF MakerClaims, MineRefund, rail, store, app, hist
    <2>20. CASE MineFunding
      BY <1>2, <2>20 DEF MineFunding, rail, store, app, hist
    <2>21. CASE Tick
      BY <1>2, <2>21 DEF Tick, rail, store, app, hist
    <2>22. CASE CatchUp
      BY <1>2, <2>22 DEF CatchUp, rail, store, app, hist
    <2>23. CASE UNCHANGED vars
      BY <1>2, <2>23 DEF vars, chain, rail, store, app, hist
    <2>24. QED
      BY <1>2, <2>1, <2>2, <2>3, <2>4, <2>5, <2>6, <2>7, <2>8, <2>9, <2>10, <2>11, <2>12, <2>13,
         <2>14, <2>15, <2>16, <2>17, <2>18, <2>19, <2>20, <2>21, <2>22, <2>23
      DEF Next
  <1>3. QED
    BY <1>1, <1>2, Inductive, PTL DEF WriteAhead, Record!Spec, Spec

\* An asset that is out always has its record in the store until the hold is settled or the
\* refund is sent: what the refinement is for.
THEOREM NothingForgotten == Spec => []Record!NeverForgotten
<1>1. Record!Init => Record!NeverForgotten
  BY DEF Record!Init, Record!NeverForgotten
<1>2. Record!NeverForgotten /\ [Record!Next]_(Record!vars) => Record!NeverForgotten'
  BY DEF Record!NeverForgotten, Record!Next, Record!Record, Record!Commit, Record!Release, Record!Resolve,
         Record!Forget, Record!vars
<1> QED
  BY <1>1, <1>2, WriteAheadAlways, PTL DEF WriteAhead, Record!Spec
=============================================================================
