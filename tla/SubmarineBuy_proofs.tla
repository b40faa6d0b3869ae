------------------------- MODULE SubmarineBuy_proofs -------------------------
(***************************************************************************)
(* Proofs about SubmarineBuy for every locktime, CLTV, margin and bound:   *)
(* its type, that nothing is paid before the leg is ours, that a payment   *)
(* of the live drive leaves the claim margin, and that every step is a     *)
(* step of SwapRecord.                                                     *)
(***************************************************************************)
EXTENDS SubmarineBuy, TLAPS

\* The leg cannot go back to a state in which it was not ours.
LegFinal == leg \in {"buried", "claimed", "refunded"}

\* What was checked before the payment still holds, and an announcement was made.
Sound == terms.flaws = {} /\ LegFinal /\ terms.tseq # 0

\* The record's state at each step of a drive, and what a state says of the money.
StateInv ==
    /\ pc = "verify" => saved = "verifying"
    /\ pc \in {"window", "anchor", "gates"} => saved = "verified"
    /\ pc \in {"connect", "payWait", "resume", "reconnect"} => saved = "paying"
    /\ pc \in {"claim", "claimSave"} => saved = "claiming"
    /\ saved \in {"claiming", "settled"} => pay = "settled"
    /\ claimBy # None => pay = "settled"
    /\ saved = "settled" \/ pc = "claimSave" => claimBy # None

\* What each step knows of the announcement.
SoundInv ==
    /\ pc = "terms" => terms = NoTerms
    /\ pc \in {"window", "anchor", "gates"} =>
          terms.flaws \cap {"redeem", "binding", "output"} = {}
    /\ pc \in {"anchor", "gates"} => terms.tseq # 0
    /\ pc = "gates" => LegFinal
    /\ saved \in {"paying", "claiming", "settled"} => Sound
    /\ pay # "none" => Sound

\* The hold's CLTV was checked at gateTip; what it promised is kept until P is out.
MarginInv ==
    /\ pc = "connect" =>
          /\ gateTip # None /\ tip <= gateTip + PayDelay
          /\ gateTip + terms.cltv * Ratio + Margin < terms.tseq
    /\ paidBy = "live" /\ pay = "held" =>
          /\ tip <= payDeadline
          /\ payDeadline + Margin < terms.tseq + PayDelay
    /\ paidBy = "live" /\ pay = "settled" => revealedAt + Margin < terms.tseq + PayDelay

IInv == TypeOK /\ StateInv /\ SoundInv /\ MarginInv

-----------------------------------------------------------------------------
(* Lemmas. *)

\* A hold window in Sequentia blocks is a natural number.
LEMMA HoldIsNat == ASSUME NEW c \in Nat PROVE c * Ratio \in Nat
  BY BuyConstants

\* None is a height beyond every other.
LEMMA NoneIsNat == None \in Nat /\ \A t \in 0 .. MaxTip : t + Margin # None /\ t # None
  BY BuyConstants DEF None

\* The heights of an announcement are heights.
LEMMA TermsTyped == ASSUME TypeOK PROVE terms.cltv \in Nat /\ terms.tseq \in Nat
  <1>1. terms \in [flaws : SUBSET Flaws, cltv : Cltvs \cup {0}, tseq : Locktimes \cup {0}]
    BY DEF TypeOK
  <1>2. terms.cltv \in Cltvs \cup {0} /\ terms.tseq \in Locktimes \cup {0}
    BY <1>1
  <1>3. Cltvs \subseteq Nat /\ Locktimes \subseteq Nat /\ 0 \in Nat
    BY BuyConstants
  <1>4. QED
    BY <1>2, <1>3

\* Where resume goes on from each state of the record.
LEMMA ResumeAtValues ==
  ASSUME NEW s \in SubStates
  PROVE  /\ ResumeAt(s) \in {"claim", "resume", "up"}
         /\ ResumeAt(s) = "claim" => s = "claiming"
         /\ ResumeAt(s) = "resume" => s = "paying"
  BY DEF ResumeAt, SubStates

\* The invariant holds at the start.
LEMMA InitIInv == ASSUME Init PROVE IInv
  <1> USE NoneIsNat, BuyConstants
  <1>1. TypeOK
    <2>1. told \in BOOLEAN
      BY Zenon DEF Init
    <2>2. QED
      BY <2>1 DEF Init, TypeOK, NoTerms, LiveSteps, SubStates, Unspent
  <1>2. StateInv
    BY DEF Init, StateInv
  <1>3. SoundInv
    BY DEF Init, SoundInv
  <1>4. MarginInv
    BY DEF Init, MarginInv
  <1>5. QED
    BY <1>1, <1>2, <1>3, <1>4 DEF IInv

\* Every step keeps the types.
LEMMA TypeStep == ASSUME TypeOK, [Next]_vars PROVE TypeOK'
  <1> USE BuyConstants, NoneIsNat DEF TypeOK, LiveSteps, SubStates, Unspent
  <1>1. CASE Begin
    BY <1>1 DEF Begin, chain, rail
  <1>2. CASE AssetLocked
    BY <1>2 DEF AssetLocked, rail
  <1>3. CASE VerifyLeg \/ ClaimWindow \/ AnchorBuried
    BY <1>3 DEF VerifyLeg, ClaimWindow, AnchorBuried, chain, rail
  <1>4. CASE PaymentGates
    BY <1>4 DEF PaymentGates, chain, rail
  <1>5. CASE StartPay
    <2>1. terms.cltv * Ratio \in Nat
      BY HoldIsNat, TermsTyped
    <2>2. tip + terms.cltv * Ratio \in Nat
      BY <2>1
    <2>3. pay' \in {"none", "held", "settled", "failed"} /\ payDeadline' \in Nat
             /\ paidBy' \in {"nobody", "live", "resume"}
      BY <1>5, <2>2 DEF StartPay
    <2>4. QED
      BY <1>5, <2>3 DEF StartPay, chain
  <1>6. CASE PayReturns \/ SaveSettled \/ Throws \/ Crash \/ NoResume
    BY <1>6 DEF PayReturns, SaveSettled, Throws, Crash, NoResume, chain, rail
  <1>7. CASE BroadcastClaim
    BY <1>7 DEF BroadcastClaim, rail
  <1>8. CASE Resume
    BY <1>8, ResumeAtValues DEF Resume, chain, rail
  <1>9. CASE ResumePays \/ ResumeRefuses
    <2>1. told' \in BOOLEAN
      BY <1>9, Zenon DEF ResumePays, ResumeRefuses
    <2>2. QED
      BY <1>9, <2>1 DEF ResumePays, ResumeRefuses, chain, rail
  <1>10. CASE Settle \/ FailBack
    BY <1>10 DEF Settle, FailBack, chain, app
  <1>11. CASE LegMoves \/ MakerRefunds \/ MineClaim
    BY <1>11 DEF LegMoves, MakerRefunds, MineClaim, rail, app
  <1>12. CASE Tick
    BY <1>12 DEF Tick, rail, app
  <1>13. CASE UNCHANGED vars
    BY <1>13 DEF vars, chain, rail, app
  <1>14. QED
    BY <1>1, <1>2, <1>3, <1>4, <1>5, <1>6, <1>7, <1>8, <1>9, <1>10, <1>11, <1>12, <1>13
    DEF Next

\* Every step keeps what the position of the driver says of the saved record.
LEMMA StateStep == ASSUME IInv, [Next]_vars PROVE StateInv'
  <1> USE NoneIsNat DEF IInv, StateInv
  <1>1. CASE Begin
    BY <1>1 DEF Begin, chain, rail, SoundInv, Sound, NoTerms
  <1>2. CASE AssetLocked
    BY <1>2 DEF AssetLocked, rail
  <1>3. CASE VerifyLeg \/ ClaimWindow \/ AnchorBuried
    BY <1>3 DEF VerifyLeg, ClaimWindow, AnchorBuried, chain, rail
  <1>4. CASE PaymentGates
    BY <1>4 DEF PaymentGates, chain, rail
  <1>5. CASE StartPay
    BY <1>5 DEF StartPay, chain
  <1>6. CASE PayReturns \/ SaveSettled \/ Throws \/ Crash \/ NoResume
    BY <1>6 DEF PayReturns, SaveSettled, Throws, Crash, NoResume, chain, rail
  <1>7. CASE BroadcastClaim
    BY <1>7 DEF BroadcastClaim, rail, TypeOK
  <1>8. CASE Resume
    BY <1>8, ResumeAtValues DEF Resume, chain, rail, TypeOK
  <1>9. CASE ResumePays \/ ResumeRefuses
    BY <1>9 DEF ResumePays, ResumeRefuses, chain, rail
  <1>10. CASE Settle \/ FailBack
    BY <1>10 DEF Settle, FailBack, chain, app
  <1>11. CASE LegMoves \/ MakerRefunds \/ MineClaim
    BY <1>11 DEF LegMoves, MakerRefunds, MineClaim, rail, app
  <1>12. CASE Tick
    BY <1>12 DEF Tick, rail, app
  <1>13. CASE UNCHANGED vars
    BY <1>13 DEF vars, chain, rail, app
  <1>14. QED
    BY <1>1, <1>2, <1>3, <1>4, <1>5, <1>6, <1>7, <1>8, <1>9, <1>10, <1>11, <1>12, <1>13
    DEF Next

\* Every step keeps what the gates have established of the leg.
LEMMA SoundStep == ASSUME IInv, [Next]_vars PROVE SoundInv'
  <1> USE DEF IInv, StateInv, SoundInv, Sound, LegFinal
  <1>1. CASE Begin
    BY <1>1 DEF Begin, chain, rail
  <1>2. CASE AssetLocked
    \* Nothing was announced before, so nothing is recorded as paid.
    <2>1. terms.tseq = 0
      BY <1>2 DEF AssetLocked, NoTerms
    <2>2. QED
      BY <1>2, <2>1 DEF AssetLocked, rail
  <1>3. CASE VerifyLeg
    BY <1>3 DEF VerifyLeg, chain, rail
  <1>4. CASE ClaimWindow
    <2>1. terms.tseq # 0
      BY <1>4, BuyConstants DEF ClaimWindow, WindowOpen, TypeOK
    <2>2. QED
      BY <1>4, <2>1 DEF ClaimWindow, chain, rail
  <1>5. CASE AnchorBuried
    BY <1>5 DEF AnchorBuried, chain, rail
  <1>6. CASE PaymentGates
    \* The two halves of the checks leave no flaw.
    <2>1. terms.flaws = {}
      BY <1>6 DEF PaymentGates, TypeOK, Flaws
    <2>2. QED
      BY <1>6, <2>1 DEF PaymentGates, chain, rail
  <1>7. CASE StartPay
    BY <1>7 DEF StartPay, chain
  <1>8. CASE PayReturns \/ SaveSettled \/ Throws \/ Crash \/ NoResume
    BY <1>8 DEF PayReturns, SaveSettled, Throws, Crash, NoResume, chain, rail
  <1>9. CASE BroadcastClaim
    BY <1>9 DEF BroadcastClaim, rail
  <1>10. CASE Resume
    BY <1>10, ResumeAtValues DEF Resume, chain, rail, TypeOK
  <1>11. CASE ResumePays \/ ResumeRefuses
    BY <1>11 DEF ResumePays, ResumeRefuses, chain, rail
  <1>12. CASE Settle \/ FailBack
    BY <1>12 DEF Settle, FailBack, chain, app
  <1>13. CASE LegMoves
    BY <1>13 DEF LegMoves, rail, app
  <1>14. CASE MakerRefunds
    BY <1>14 DEF MakerRefunds, rail, app
  <1>15. CASE MineClaim
    BY <1>15 DEF MineClaim, rail, app
  <1>16. CASE Tick
    BY <1>16 DEF Tick, rail, app
  <1>17. CASE UNCHANGED vars
    BY <1>17 DEF vars, chain, rail, app
  <1>18. QED
    BY <1>1, <1>2, <1>3, <1>4, <1>5, <1>6, <1>7, <1>8, <1>9, <1>10, <1>11, <1>12, <1>13,
       <1>14, <1>15, <1>16, <1>17
    DEF Next

\* Every step keeps the bounds on when the payment can be settled.
LEMMA MarginStep == ASSUME IInv, [Next]_vars PROVE MarginInv'
  <1> DEFINE hold == terms.cltv * Ratio
  <1>a. hold \in Nat /\ hold' = terms'.cltv * Ratio
    BY HoldIsNat, TermsTyped DEF IInv
  <1> USE DEF IInv, MarginInv
  <1>1. CASE Begin
    BY <1>1 DEF Begin, chain, rail
  <1>2. CASE AssetLocked
    <2>1. pay = "none"
      BY <1>2 DEF AssetLocked, NoTerms, SoundInv, Sound
    <2>2. QED
      BY <1>2, <2>1 DEF AssetLocked, rail
  <1>3. CASE VerifyLeg \/ ClaimWindow \/ AnchorBuried
    BY <1>3 DEF VerifyLeg, ClaimWindow, AnchorBuried, chain, rail
  <1>4. CASE PaymentGates
    <2>1. gateTip' = tip /\ tip' = tip /\ tip + hold + Margin < terms.tseq
      BY <1>4 DEF PaymentGates, HoldSafe, chain
    <2>2. gateTip' # None /\ tip' <= gateTip' + PayDelay
      BY <2>1, NoneIsNat, BuyConstants DEF TypeOK
    <2>3. QED
      BY <1>4, <2>1, <2>2 DEF PaymentGates, chain, rail
  <1>5. CASE StartPay
    <2>1. CASE pay \in {"none", "failed"} /\ pc = "connect"
      <3>1. payDeadline' = tip + hold /\ pay' = "held" /\ pc' = "payWait"
              /\ tip' = tip /\ terms' = terms
        BY <1>5, <2>1 DEF StartPay, chain
      <3>2. tip + hold <= gateTip + PayDelay + hold /\ tip <= tip + hold
        BY <1>a, <2>1, BuyConstants DEF TypeOK
      <3>3. tip + hold + Margin < terms.tseq + PayDelay
        <4> HIDE DEF hold
        <4>1. gateTip + hold + Margin < terms.tseq
          BY <2>1 DEF hold
        <4>2. terms.tseq \in Nat
          BY TermsTyped
        <4>3. QED
          BY <1>a, <3>2, <4>1, <4>2, BuyConstants DEF TypeOK
      <3>4. QED
        BY <3>1, <3>2, <3>3
    <2>2. CASE pay \in {"none", "failed"} /\ pc = "reconnect"
      BY <1>5, <2>2 DEF StartPay, chain
    <2>3. CASE pay \notin {"none", "failed"}
      BY <1>5, <2>3 DEF StartPay, chain
    <2>4. QED
      BY <1>5, <2>1, <2>2, <2>3 DEF StartPay
  <1>6. CASE PayReturns \/ SaveSettled \/ Throws \/ Crash \/ NoResume
    BY <1>6 DEF PayReturns, SaveSettled, Throws, Crash, NoResume, chain, rail
  <1>7. CASE BroadcastClaim
    BY <1>7 DEF BroadcastClaim, rail
  <1>8. CASE Resume
    BY <1>8, ResumeAtValues DEF Resume, chain, rail, TypeOK
  <1>9. CASE ResumePays \/ ResumeRefuses
    BY <1>9 DEF ResumePays, ResumeRefuses, chain, rail
  <1>10. CASE Settle
    <2>1. paidBy' = paidBy /\ revealedAt' = tip /\ pay = "held" /\ pay' = "settled"
            /\ UNCHANGED <<tip, terms, pc, gateTip>>
      BY <1>10 DEF Settle, chain, app
    <2>2. terms.tseq \in Nat
      BY TermsTyped
    <2>3. QED
      BY <2>1, <2>2, BuyConstants DEF TypeOK
  <1>11. CASE FailBack
    BY <1>11 DEF FailBack, chain, app
  <1>12. CASE LegMoves \/ MakerRefunds \/ MineClaim
    BY <1>12 DEF LegMoves, MakerRefunds, MineClaim, rail, app
  <1>13. CASE Tick
    <2>1. UNCHANGED <<terms, rail, app>> /\ tip' = tip + 1
      BY <1>13 DEF Tick
    <2>2. pc = "connect" => tip' <= gateTip + PayDelay
      BY <1>13, BuyConstants DEF Tick, TypeOK
    <2>3. pay = "held" => tip' <= payDeadline
      BY <1>13, BuyConstants DEF Tick, TypeOK
    <2>4. QED
      BY <2>1, <2>2, <2>3 DEF rail, app
  <1>14. CASE UNCHANGED vars
    BY <1>14 DEF vars, chain, rail, app
  <1>15. QED
    BY <1>1, <1>2, <1>3, <1>4, <1>5, <1>6, <1>7, <1>8, <1>9, <1>10, <1>11, <1>12, <1>13,
       <1>14
    DEF Next

\* The strengthening of the safety properties is kept by every step of the swap.
THEOREM Inductive == Spec => []IInv
  <1>1. Init => IInv
    BY InitIInv
  <1>2. IInv /\ [Next]_vars => IInv'
    BY TypeStep, StateStep, SoundStep, MarginStep DEF IInv
  <1>3. QED
    BY <1>1, <1>2, PTL DEF Spec

-----------------------------------------------------------------------------
(* The theorems. *)

\* Every variable of the swap keeps its type.
THEOREM TypeCorrect == Spec => []TypeOK
  <1>1. IInv => TypeOK
    BY DEF IInv
  <1>2. QED
    BY <1>1, Inductive, PTL

\* No payment is made before the maker's leg is verified, ours and past every
\* reorganisation, by the live drive or by a resume (runReverseBuy, _resumeInner);
\* that the maker may take the leg back by then is not excluded.
THEOREM PaidLegIsOursAlways == Spec => []PaidLegIsOurs
  <1>1. IInv => PaidLegIsOurs
    BY DEF IInv, SoundInv, Sound, LegFinal, PaidLegIsOurs
  <1>2. QED
    BY <1>1, Inductive, PTL

\* A payment of the live drive is settled with the claim margin left, less the blocks
\* connectNode took (holdCltvSafeVsTseq).
THEOREM LiveRevealAlways == Spec => []LiveRevealLeavesMargin
  <1>1. IInv => LiveRevealLeavesMargin
    BY DEF IInv, MarginInv, LiveRevealLeavesMargin
  <1>2. QED
    BY <1>1, Inductive, PTL

\* Every step of the swap is a step of SwapRecord or leaves it alone: the record is in
\* the store before the payment and until the claim is sent.
THEOREM WriteAheadAlways == Spec => WriteAhead
  <1> DEFINE Kept == [Record!Next]_(Record!vars)
  <1>1. Init => Record!Init
    BY DEF Init, Record!Init
  <1>2. ASSUME IInv, [Next]_vars PROVE Kept
    <2> USE NoneIsNat
        DEF IInv, StateInv, Record!Next, Record!vars, Record!Record, Record!Commit,
            Record!Release, Record!Resolve, Record!Forget
    <2>1. CASE Begin
      BY <1>2, <2>1 DEF Begin, chain, rail
    <2>2. CASE AssetLocked
      BY <1>2, <2>2 DEF AssetLocked, rail, SoundInv, Sound, NoTerms
    <2>3. CASE VerifyLeg \/ ClaimWindow \/ AnchorBuried
      BY <1>2, <2>3 DEF VerifyLeg, ClaimWindow, AnchorBuried, chain, rail
    <2>4. CASE PaymentGates
      BY <1>2, <2>4 DEF PaymentGates, chain, rail
    <2>5. CASE StartPay
      BY <1>2, <2>5 DEF StartPay, chain
    <2>6. CASE PayReturns \/ SaveSettled \/ Throws \/ Crash \/ NoResume
      BY <1>2, <2>6 DEF PayReturns, SaveSettled, Throws, Crash, NoResume, chain, rail
    <2>7. CASE BroadcastClaim
      BY <1>2, <2>7 DEF BroadcastClaim, rail, TypeOK
    <2>8. CASE Resume
      BY <1>2, <2>8 DEF Resume, chain, rail, TypeOK, SubStates
    <2>9. CASE ResumePays \/ ResumeRefuses
      BY <1>2, <2>9 DEF ResumePays, ResumeRefuses, chain, rail
    <2>10. CASE Settle \/ FailBack
      BY <1>2, <2>10 DEF Settle, FailBack, chain, app
    <2>11. CASE LegMoves \/ MakerRefunds \/ MineClaim \/ Tick
      BY <1>2, <2>11 DEF LegMoves, MakerRefunds, MineClaim, Tick, rail, app
    <2>12. CASE UNCHANGED vars
      BY <1>2, <2>12 DEF vars, chain, rail, app
    <2>13. QED
      BY <1>2, <2>1, <2>2, <2>3, <2>4, <2>5, <2>6, <2>7, <2>8, <2>9, <2>10, <2>11, <2>12
      DEF Next
  <1>3. QED
    BY <1>1, <1>2, Inductive, PTL DEF WriteAhead, Record!Spec, Spec

\* A payment that is out always has its record in the store until the claim is sent or the
\* payment has failed back: what the refinement is for.
THEOREM NothingForgotten == Spec => []Record!NeverForgotten
<1>1. Record!Init => Record!NeverForgotten
  BY DEF Record!Init, Record!NeverForgotten
<1>2. Record!NeverForgotten /\ [Record!Next]_(Record!vars) => Record!NeverForgotten'
  BY DEF Record!NeverForgotten, Record!Next, Record!Record, Record!Commit, Record!Release, Record!Resolve,
         Record!Forget, Record!vars
<1> QED
  BY <1>1, <1>2, WriteAheadAlways, PTL DEF WriteAhead, Record!Spec
=============================================================================
