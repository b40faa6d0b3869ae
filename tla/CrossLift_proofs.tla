-------------------------- MODULE CrossLift_proofs --------------------------
(***************************************************************************)
(* Proofs about CrossLift, for any lifts, locktimes, delays and margin     *)
(* that LiftConstants allows: its types; that the secret is only ever out  *)
(* for a leg that is ours, whatever the lifts, the screen and the crashes  *)
(* do; and, when lifts are started one at a time, that every lift          *)
(* implements SwapRecord over the one slot they share.                     *)
(***************************************************************************)
EXTENDS CrossLift, TLAPS

\* Up to the maker's report of its leg.
Early(l) == pc[l] \in {"idle", "begin", "fund", "broadcast", "poll", "recv"}

\* The records of a lift that has not reached the report, wherever they are held.
Holders == {slot} \cup {mem[a] : a \in Actors}
Late    == {"seqLocked", "seqVerified", "seqClaimed"}

\* Who can stand where, and whose record each lift holds.
PcInv ==
    /\ pc[Screen] \in {"idle", "open", "claim", "claimSend", "claimSave", "refundSave"}
    /\ pc[Screen] \in {"claim", "claimSend", "claimSave"} => mem[Screen].step = "seqVerified"
    /\ \A l \in Lifts :
          /\ pc[l] \notin {"open", "refundSave"}
          /\ pc[l] \in LiveSteps \ {"begin"} => mem[l] \in Records
          /\ mem[l] \in Records => mem[l].of = l /\ pc[l] \notin {"idle", "begin"}

\* Before the report nobody holds a record of the lift with a leg, and the secret is not out.
EarlyInv ==
    \A l \in Lifts : Early(l) =>
        /\ sentAt[l] = Never
        /\ \A r \in Holders : r.of = l => r.step \notin Late

\* Between the gates and the broadcast the leg is the agreed one and the margin is running.
GateInv ==
    \A a \in Actors :
        /\ gate[a] # Never => pc[a] = "claimSend"
        /\ pc[a] = "claimSend" =>
              /\ mem[a].of \in Lifts /\ mem[a].of \notin flawed
              /\ gate[a] <= now /\ now <= gate[a] + Delay
              /\ gate[a] + Margin < TSeq

\* A claim in the mempool is mined before the maker's locktime.
SentInv ==
    \A l \in Lifts : sentAt[l] # Never /\ leg[l] = "anchored" =>
        /\ sentAt[l] <= now /\ now <= sentAt[l] + MineIn
        /\ sentAt[l] + MineIn < TSeq

LiftInv == TypeOK /\ PcInv /\ EarlyInv /\ GateInv /\ SentInv /\ RevealedIsOurs

-----------------------------------------------------------------------------
(* The shared slot, when lifts are started one at a time. *)

Active(a) == pc[a] \notin {"idle", "ended"}

\* The lift an actor works for; one that has not saved its first record works for itself.
LiftOf(a) == IF a = Screen THEN mem[Screen].of ELSE a

Pending(l) == btc[l] # "none" /\ ~Resolved(l)

\* Those who work at the same time work for the same lift, no other lift has Bitcoin at
\* stake, and the slot shows the banner of no other lift.
AloneInv ==
    /\ \A a, b \in Actors : Active(a) /\ Active(b) => LiftOf(a) = LiftOf(b)
    /\ \A a \in Actors : Active(a) => \A l \in Lifts : l # LiftOf(a) => ~Pending(l)
    /\ \A l \in Lifts : Active(l) /\ InFlight(slot) => slot.of = l

\* What the step of a record says of the Bitcoin leg, and of the claim or the refund.
HeldInv ==
    \A r \in Holders : r # NoRecord =>
        /\ btc[r.of] = "none" => r.step \in {"secretReady", "btcFunding"}
        /\ r.step = "seqClaimed" => sentAt[r.of] # Never
        /\ r.step = "refunded" => r.of \in refunds
        /\ pc[r.of] \notin {"idle", "begin"}

\* What the steps after a broadcast, and of the screen, say of them.
SentOutInv ==
    /\ \A a \in Actors : pc[a] = "claimSave" => sentAt[mem[a].of] # Never
    /\ pc[Screen] # "idle" => mem[Screen].step # "secretReady"
    /\ pc[Screen] = "refundSave" => mem[Screen].step = "btcLocked" /\ mem[Screen].of \in refunds

\* A lift before its broadcast has no Bitcoin out, and the slot is ready for it; one after it has.
FundInv ==
    \A l \in Lifts :
        /\ pc[l] \in {"idle", "begin", "fund", "broadcast"} => btc[l] = "none"
        /\ pc[l] \in {"poll", "recv", "verify", "anchor", "claim", "claimSend", "claimSave"} => btc[l] # "none"
        /\ pc[l] = "broadcast" => slot = [of |-> l, step |-> "btcFunding"]

StepInv == HeldInv /\ SentOutInv /\ FundInv

\* Bitcoin at stake has its record in the slot.
SlotInv == \A l \in Lifts : Pending(l) => slot.of = l /\ slot.step # "secretReady"

OneInv == AloneInv /\ StepInv /\ SlotInv

-----------------------------------------------------------------------------
(* Types. *)

\* Never is a time the clock does not reach, with or without the delays.
LEMMA NeverIsFar == Never \in Nat /\ \A t \in 0 .. MaxTime : t # Never
  BY LiftConstants DEF Never

\* A save leaves the same record in the slot and in the actor's copy.
LEMMA SaveEffect ==
  ASSUME TypeOK, NEW a \in Actors, NEW s \in XSteps, mem[a] \in Records, Save(a, s)
  PROVE  /\ slot' = [of |-> mem[a].of, step |-> s]
         /\ slot' \in Records
         /\ mem' = [mem EXCEPT ![a] = slot']
  <1>1. mem[a] = [of |-> mem[a].of, step |-> mem[a].step] /\ mem[a].of \in Lifts
    BY DEF Records
  <1>2. slot' = [of |-> mem[a].of, step |-> s]
    BY <1>1 DEF Save
  <1>3. [mem EXCEPT ![a].step = s] = [mem EXCEPT ![a] = [mem[a] EXCEPT !.step = s]]
    BY DEF TypeOK
  <1>4. QED
    BY <1>1, <1>2, <1>3 DEF Save, Records

\* The same for the first save of a lift.
LEMMA BeginEffect ==
  ASSUME TypeOK, NEW l \in Lifts, BeginSave(l)
  PROVE  /\ slot' = [of |-> l, step |-> "secretReady"]
         /\ slot' \in Records
         /\ mem' = [mem EXCEPT ![l] = slot']
  BY DEF BeginSave, Records, XSteps, TypeOK

\* Who saves has a record.
LEMMA HasRecord ==
  ASSUME TypeOK, PcInv, NEW a \in Actors,
         pc[a] \in LiveSteps \ {"begin"} \/ (a = Screen /\ pc[a] # "idle")
  PROVE  mem[a] \in Records /\ mem[a].of \in Lifts /\ (a \in Lifts => mem[a].of = a)
  <1>1. mem[a] \in Records
    BY DEF TypeOK, PcInv, Actors, LiveSteps
  <1>2. QED
    BY <1>1 DEF PcInv, Records

\* The initial state satisfies the invariant.
LEMMA InitInv == Init => LiftInv /\ OneInv
  <1> SUFFICES ASSUME Init PROVE LiftInv /\ OneInv
    OBVIOUS
  <1> USE LiftConstants, NeverIsFar DEF Init, Actors
  <1>1. TypeOK
    BY DEF TypeOK, Records, NoRecord
  <1>2. NoRecord \notin Records /\ NoRecord.of = Screen /\ NoRecord.step = "none"
    BY DEF NoRecord, Records
  <1>3. PcInv
    BY <1>2 DEF PcInv, LiveSteps
  <1>4. EarlyInv
    BY <1>2 DEF EarlyInv, Holders, Late
  <1>5. GateInv /\ SentInv /\ RevealedIsOurs
    BY DEF GateInv, SentInv, RevealedIsOurs
  <1>6. AloneInv
    BY DEF AloneInv, Active
  <1>7. StepInv
    BY DEF StepInv, HeldInv, SentOutInv, FundInv, Holders
  <1>8. SlotInv
    BY DEF SlotInv, Pending
  <1>9. QED
    BY <1>1, <1>3, <1>4, <1>5, <1>6, <1>7, <1>8 DEF LiftInv, OneInv

\* Every step keeps the types.
LEMMA TypeStep == ASSUME TypeOK, PcInv, [Next]_vars PROVE TypeOK'
  <1> USE LiftConstants, NeverIsFar
  <1>1. ASSUME NEW l \in Lifts, BeginCheck(l) PROVE TypeOK'
    BY <1>1 DEF BeginCheck, Goto, chain, TypeOK, LiveSteps, Actors
  <1>2. ASSUME NEW l \in Lifts, BeginSave(l) PROVE TypeOK'
    BY <1>2, BeginEffect DEF BeginSave, Goto, chain, TypeOK, LiveSteps, Actors
  <1>3. ASSUME NEW l \in Lifts, FundSave(l) PROVE TypeOK'
    <2>1. "btcFunding" \in XSteps /\ pc[l] \in LiveSteps \ {"begin"} /\ l \in Actors
      BY <1>3 DEF FundSave, XSteps, InFlights, LiveSteps, Actors
    <2>2. QED
      BY <1>3, <2>1, HasRecord, SaveEffect DEF FundSave, Goto, chain, TypeOK, LiveSteps, Actors
  <1>4. ASSUME NEW l \in Lifts, Broadcast(l) PROVE TypeOK'
    BY <1>4 DEF Broadcast, Goto, TypeOK, LiveSteps, Actors
  <1>5. ASSUME NEW a \in Actors, PollLock(a) PROVE TypeOK'
    <2>1. "btcLocked" \in XSteps /\ (pc[a] \in LiveSteps \ {"begin"} \/ (a = Screen /\ pc[a] # "idle"))
      BY <1>5 DEF PollLock, Polls, XSteps, InFlights, LiveSteps
    <2>2. QED
      BY <1>5, <2>1, HasRecord, SaveEffect DEF PollLock, Goto, chain, TypeOK, LiveSteps, Actors
  <1>6. ASSUME NEW l \in Lifts, RecvLeg(l) PROVE TypeOK'
    <2>1. "seqLocked" \in XSteps /\ pc[l] \in LiveSteps \ {"begin"} /\ l \in Actors
      BY <1>6 DEF RecvLeg, XSteps, InFlights, LiveSteps, Actors
    <2>2. QED
      BY <1>6, <2>1, HasRecord, SaveEffect DEF RecvLeg, Goto, TypeOK, LiveSteps, Actors
  <1>7. ASSUME NEW a \in Actors, VerifyLeg(a) PROVE TypeOK'
    <2>1. "seqVerified" \in XSteps /\ (pc[a] \in LiveSteps \ {"begin"} \/ (a = Screen /\ pc[a] # "idle"))
      BY <1>7 DEF VerifyLeg, XSteps, InFlights, LiveSteps
    <2>2. QED
      BY <1>7, <2>1, HasRecord, SaveEffect DEF VerifyLeg, Goto, chain, TypeOK, LiveSteps, Actors
  <1>8. ASSUME NEW l \in Lifts, AnchorWait(l) PROVE TypeOK'
    BY <1>8 DEF AnchorWait, Goto, chain, TypeOK, LiveSteps, Actors
  <1>9. ASSUME NEW a \in Actors, ClaimGates(a) PROVE TypeOK'
    BY <1>9 DEF ClaimGates, Goto, chain, TypeOK, LiveSteps, PcInv, Actors
  <1>10. ASSUME NEW a \in Actors, ClaimSend(a) PROVE TypeOK'
    <2>1. mem[a].of \in Lifts
      BY <1>10, HasRecord DEF ClaimSend, LiveSteps
    <2>2. sentAt' \in [Lifts -> Nat] /\ gate' \in [Actors -> Nat]
      BY <1>10, <2>1 DEF ClaimSend, TypeOK
    <2>3. pc' \in [Actors -> LiveSteps \cup {"idle", "open", "ended"}]
      BY <1>10 DEF ClaimSend, Goto, LiveSteps, TypeOK
    <2>4. pc'[Screen] # "idle" => mem'[Screen] \in Records
      BY <1>10 DEF ClaimSend, Goto, TypeOK, Actors
    <2>5. QED
      BY <1>10, <2>2, <2>3, <2>4 DEF ClaimSend, TypeOK
  <1>11. ASSUME NEW a \in Actors, ClaimSave(a) PROVE TypeOK'
    <2>1. "seqClaimed" \in XSteps /\ pc[a] \in LiveSteps \ {"begin"}
      BY <1>11 DEF ClaimSave, XSteps, LiveSteps
    <2>2. QED
      BY <1>11, <2>1, HasRecord, SaveEffect DEF ClaimSave, Goto, chain, TypeOK, LiveSteps, Actors
  <1>12. ASSUME NEW a \in Actors, Throws(a) PROVE TypeOK'
    BY <1>12 DEF Throws, Goto, chain, TypeOK, LiveSteps, PcInv, Actors
  <1>13. CASE Open
    <2>1. slot \in Records
      BY <1>13 DEF Open, InFlight, InFlights, TypeOK, NoRecord
    <2>2. QED
      BY <1>13, <2>1 DEF Open, Goto, chain, TypeOK, LiveSteps, Actors
  <1>14. CASE Close
    BY <1>14 DEF Close, Goto, chain, TypeOK, LiveSteps, Actors
  <1>15. CASE RefundSend
    <2>1. mem[Screen].of \in Lifts
      BY <1>15, HasRecord DEF RefundSend, Actors
    <2>2. QED
      BY <1>15, <2>1 DEF RefundSend, Goto, TypeOK, LiveSteps, Actors
  <1>16. CASE RefundSave
    <2>1. "refunded" \in XSteps /\ Screen \in Actors /\ pc[Screen] # "idle"
      BY <1>16 DEF RefundSave, XSteps, Actors
    <2>2. QED
      BY <1>16, <2>1, HasRecord, SaveEffect DEF RefundSave, Goto, chain, TypeOK, LiveSteps, Actors
  <1>17. CASE Reset
    BY <1>17 DEF Reset, Goto, chain, TypeOK, LiveSteps, Actors
  <1>18. CASE Crash
    BY <1>18 DEF Crash, chain, TypeOK, LiveSteps, Actors
  <1>19. ASSUME NEW l \in Lifts,
                \/ MineFunding(l) \/ MakerLocks(l) \/ Anchor(l) \/ MakerRefunds(l)
                \/ MineClaim(l) \/ MakerSweeps(l) \/ MineRefund(l)
         PROVE  TypeOK'
    BY <1>19 DEF MineFunding, MakerLocks, Anchor, MakerRefunds, MineClaim, MakerSweeps, MineRefund,
                 app, TypeOK
  <1>20. CASE Tick
    BY <1>20 DEF Tick, app, chain, TypeOK
  <1>21. CASE UNCHANGED vars
    BY <1>21 DEF vars, app, chain, TypeOK
  <1>22. QED
    BY <1>1, <1>2, <1>3, <1>4, <1>5, <1>6, <1>7, <1>8, <1>9, <1>10, <1>11, <1>12, <1>13, <1>14,
       <1>15, <1>16, <1>17, <1>18, <1>19, <1>20, <1>21 DEF Next

\* Every step keeps each actor at its own steps, with a record of its own lift.
LEMMA PcStep == ASSUME TypeOK, PcInv, TypeOK', [Next]_vars PROVE PcInv'
  <1> USE LiftConstants DEF PcInv, LiveSteps, Actors
  <1>n. NoRecord \notin Records
    BY DEF NoRecord, Records
  <1>1. ASSUME NEW l \in Lifts, BeginCheck(l) PROVE PcInv'
    BY <1>1 DEF BeginCheck, Goto, TypeOK
  <1>2. ASSUME NEW l \in Lifts, BeginSave(l) PROVE PcInv'
    BY <1>2, BeginEffect DEF BeginSave, Goto, TypeOK
  <1>3. ASSUME NEW l \in Lifts, FundSave(l) PROVE PcInv'
    <2>1. "btcFunding" \in XSteps
      BY DEF XSteps, InFlights
    <2>2. QED
      BY <1>3, <2>1, HasRecord, SaveEffect DEF FundSave, Goto, TypeOK
  <1>4. ASSUME NEW l \in Lifts, Broadcast(l) PROVE PcInv'
    BY <1>4 DEF Broadcast, Goto, TypeOK
  <1>5. ASSUME NEW a \in Actors, PollLock(a) PROVE PcInv'
    <2>1. "btcLocked" \in XSteps
      BY DEF XSteps, InFlights
    <2>2. QED
      BY <1>5, <2>1, HasRecord, SaveEffect DEF PollLock, Polls, Goto, TypeOK
  <1>6. ASSUME NEW l \in Lifts, RecvLeg(l) PROVE PcInv'
    <2>1. "seqLocked" \in XSteps
      BY DEF XSteps, InFlights
    <2>2. QED
      BY <1>6, <2>1, HasRecord, SaveEffect DEF RecvLeg, Goto, TypeOK
  <1>7. ASSUME NEW a \in Actors, VerifyLeg(a) PROVE PcInv'
    <2>1. "seqVerified" \in XSteps
      BY DEF XSteps, InFlights
    <2>2. QED
      BY <1>7, <2>1, HasRecord, SaveEffect DEF VerifyLeg, Goto, TypeOK
  <1>8. ASSUME NEW l \in Lifts, AnchorWait(l) PROVE PcInv'
    BY <1>8 DEF AnchorWait, Goto, TypeOK
  <1>9. ASSUME NEW a \in Actors, ClaimGates(a) PROVE PcInv'
    BY <1>9 DEF ClaimGates, Goto, TypeOK
  <1>10. ASSUME NEW a \in Actors, ClaimSend(a) PROVE PcInv'
    BY <1>10 DEF ClaimSend, Goto, TypeOK
  <1>11. ASSUME NEW a \in Actors, ClaimSave(a) PROVE PcInv'
    <2>1. "seqClaimed" \in XSteps
      BY DEF XSteps
    <2>2. QED
      BY <1>11, <2>1, HasRecord, SaveEffect DEF ClaimSave, Goto, TypeOK
  <1>12. ASSUME NEW a \in Actors, Throws(a) PROVE PcInv'
    BY <1>12, <1>n DEF Throws, Goto, TypeOK
  <1>13. CASE Open \/ Close \/ RefundSend
    BY <1>13 DEF Open, Close, RefundSend, Goto, TypeOK
  <1>14. CASE RefundSave
    <2>1. "refunded" \in XSteps
      BY DEF XSteps
    <2>2. QED
      BY <1>14, <2>1, HasRecord, SaveEffect DEF RefundSave, Goto, TypeOK
  <1>15. CASE Reset
    BY <1>15 DEF Reset, Goto, TypeOK
  <1>16. CASE Crash
    BY <1>16, <1>n DEF Crash, TypeOK
  <1>17. CASE UNCHANGED app
    BY <1>17 DEF app
  <1>18. ASSUME NEW l \in Lifts,
                \/ MineFunding(l) \/ MakerLocks(l) \/ Anchor(l) \/ MakerRefunds(l)
                \/ MineClaim(l) \/ MakerSweeps(l) \/ MineRefund(l)
         PROVE  UNCHANGED app
    BY <1>18 DEF MineFunding, MakerLocks, Anchor, MakerRefunds, MineClaim, MakerSweeps, MineRefund
  <1>19. CASE Tick \/ UNCHANGED vars
    BY <1>17, <1>19 DEF Tick, vars
  <1>20. QED
    BY <1>1, <1>2, <1>3, <1>4, <1>5, <1>6, <1>7, <1>8, <1>9, <1>10, <1>11, <1>12, <1>13, <1>14,
       <1>15, <1>16, <1>17, <1>18, <1>19 DEF Next

-----------------------------------------------------------------------------
(* The secret is only out for our leg. *)

\* A lift whose maker has reported its leg is never again one that waits for the report.
LEMMA EarlyIsOver ==
  ASSUME TypeOK, PcInv, [Next]_vars, NEW k \in Lifts, Early(k)' PROVE Early(k)
  <1> USE LiftConstants DEF Early, Goto, TypeOK, PcInv, Actors
  <1>1. ASSUME NEW l \in Lifts,
               BeginCheck(l) \/ BeginSave(l) \/ FundSave(l) \/ Broadcast(l) \/ RecvLeg(l) \/ AnchorWait(l)
        PROVE  Early(k)
    BY <1>1 DEF BeginCheck, BeginSave, FundSave, Broadcast, RecvLeg, AnchorWait
  <1>2. ASSUME NEW a \in Actors,
               \/ PollLock(a) \/ VerifyLeg(a) \/ ClaimGates(a)
               \/ ClaimSend(a) \/ ClaimSave(a) \/ Throws(a)
        PROVE  Early(k)
    BY <1>2 DEF PollLock, Polls, VerifyLeg, ClaimGates, ClaimSend, ClaimSave, Throws
  <1>3. CASE Open \/ Close \/ RefundSend \/ RefundSave \/ Reset
    BY <1>3 DEF Open, Close, RefundSend, RefundSave, Reset
  <1>4. CASE Crash
    BY <1>4 DEF Crash
  <1>5. ASSUME NEW l \in Lifts,
               \/ MineFunding(l) \/ MakerLocks(l) \/ Anchor(l) \/ MakerRefunds(l)
               \/ MineClaim(l) \/ MakerSweeps(l) \/ MineRefund(l)
        PROVE  Early(k)
    BY <1>5 DEF MineFunding, MakerLocks, Anchor, MakerRefunds, MineClaim, MakerSweeps, MineRefund, app
  <1>6. CASE Tick \/ UNCHANGED vars
    BY <1>6 DEF Tick, vars, app
  <1>7. QED
    BY <1>1, <1>2, <1>3, <1>4, <1>5, <1>6 DEF Next

\* The record a save writes is the only one that is new.
LEMMA SavedHolders ==
  ASSUME TypeOK, NEW a \in Actors, NEW s \in XSteps, mem[a] \in Records, Save(a, s)
  PROVE  \A r \in Holders' : r \in Holders \/ r = [of |-> mem[a].of, step |-> s]
  <1>1. slot' = [of |-> mem[a].of, step |-> s] /\ mem' = [mem EXCEPT ![a] = slot']
    BY SaveEffect
  <1>2. \A b \in Actors : mem'[b] \in {mem[b], slot'}
    BY <1>1 DEF TypeOK
  <1>3. QED
    BY <1>1, <1>2 DEF Holders

\* Nothing new is held when every copy and the slot stay, or are erased or loaded from the slot.
LEMMA KeptHolders ==
  ASSUME slot' \in {slot, NoRecord},
         \A b \in Actors : mem'[b] \in {mem[b], NoRecord, slot}
  PROVE  \A r \in Holders' : r \in Holders \/ r = NoRecord
  BY DEF Holders

\* Every step keeps the lifts before their report without a leg and without a claim.
LEMMA EarlyStep == ASSUME TypeOK, PcInv, EarlyInv, TypeOK', [Next]_vars PROVE EarlyInv'
  <1> USE LiftConstants
  <1>n. NoRecord.of = Screen
    BY DEF NoRecord
  <1> DEFINE Kept == \A r \in Holders' : r \in Holders \/ r = NoRecord
  <1>k. ASSUME Kept, sentAt' = sentAt PROVE EarlyInv'
    BY <1>k, <1>n, EarlyIsOver DEF EarlyInv
  <1>s. ASSUME NEW a \in Actors, NEW s \in XSteps, mem[a] \in Records, Save(a, s), sentAt' = sentAt,
               s \in Late => \A k \in Lifts : k = mem[a].of => ~Early(k)'
        PROVE  EarlyInv'
    <2> SUFFICES ASSUME NEW m \in Lifts, Early(m)'
                 PROVE  sentAt[m] = Never /\ \A r \in Holders' : r.of = m => r.step \notin Late
      BY <1>s DEF EarlyInv
    <2>1. Early(m) /\ ~(m = mem[a].of /\ s \in Late)
      BY <1>s, EarlyIsOver
    <2>2. QED
      BY <1>s, <2>1, SavedHolders DEF EarlyInv
  <1>1. ASSUME NEW l \in Lifts, BeginCheck(l) \/ AnchorWait(l) \/ Broadcast(l) PROVE EarlyInv'
    BY <1>1, <1>k DEF BeginCheck, AnchorWait, Broadcast, Holders, chain
  <1>2. ASSUME NEW l \in Lifts, BeginSave(l) PROVE EarlyInv'
    <2>1. \A b \in Actors : mem'[b] \in {mem[b], slot'}
      BY <1>2, BeginEffect DEF TypeOK, Actors
    <2>2. \A r \in Holders' : r \in Holders \/ r.step \notin Late
      BY <1>2, <2>1, BeginEffect DEF Holders, Late
    <2>3. QED
      BY <1>2, <2>2, EarlyIsOver DEF EarlyInv, BeginSave, chain
  <1>3. ASSUME NEW l \in Lifts, FundSave(l) PROVE EarlyInv'
    <2>1. "btcFunding" \in XSteps \ Late /\ l \in Actors /\ mem[l] \in Records
      BY <1>3, HasRecord DEF FundSave, XSteps, InFlights, LiveSteps, Late, Actors
    <2>2. QED
      BY <1>3, <2>1, <1>s DEF FundSave, chain
  <1>4. ASSUME NEW a \in Actors, PollLock(a) PROVE EarlyInv'
    <2>1. "btcLocked" \in XSteps \ Late /\ mem[a] \in Records
      BY <1>4, HasRecord DEF PollLock, Polls, XSteps, InFlights, LiveSteps, Late
    <2>2. QED
      BY <1>4, <2>1, <1>s DEF PollLock, chain
  <1>5. ASSUME NEW l \in Lifts, RecvLeg(l) PROVE EarlyInv'
    <2>1. "seqLocked" \in XSteps /\ l \in Actors /\ mem[l] \in Records /\ mem[l].of = l
      BY <1>5, HasRecord DEF RecvLeg, XSteps, InFlights, LiveSteps, Actors
    <2>2. ~Early(l)'
      BY <1>5 DEF RecvLeg, Goto, Early, TypeOK, Actors
    <2>3. QED
      BY <1>5, <2>1, <2>2, <1>s DEF RecvLeg
  <1>6. ASSUME NEW a \in Actors, VerifyLeg(a) PROVE EarlyInv'
    <2>1. "seqVerified" \in XSteps /\ mem[a] \in Records /\ mem[a].of \in Lifts
          /\ (a \in Lifts => mem[a].of = a)
      BY <1>6, HasRecord DEF VerifyLeg, XSteps, InFlights, LiveSteps
    <2>2. ~Early(mem[a].of)
      BY <1>6, <2>1 DEF VerifyLeg, Early, EarlyInv, Holders, Late, Actors, PcInv
    <2>3. \A k \in Lifts : k = mem[a].of => ~Early(k)'
      BY <2>2, EarlyIsOver
    <2>4. QED
      BY <1>6, <2>1, <2>3, <1>s DEF VerifyLeg, chain
  <1>7. ASSUME NEW a \in Actors, ClaimGates(a) PROVE EarlyInv'
    BY <1>7, <1>k DEF ClaimGates, Holders, chain
  <1>8. ASSUME NEW a \in Actors, ClaimSend(a) PROVE EarlyInv'
    <2>1. mem[a].of \in Lifts /\ (a \in Lifts => mem[a].of = a)
      BY <1>8, HasRecord DEF ClaimSend, LiveSteps
    <2>2. ~Early(mem[a].of)
      BY <1>8, <2>1 DEF ClaimSend, Early, EarlyInv, Holders, Late, Actors, PcInv
    <2>3. \A k \in Lifts : k # mem[a].of => sentAt'[k] = sentAt[k]
      BY <1>8, <2>1 DEF ClaimSend, TypeOK
    <2>4. QED
      BY <1>8, <2>2, <2>3, EarlyIsOver DEF EarlyInv, ClaimSend, Holders
  <1>9. ASSUME NEW a \in Actors, ClaimSave(a) PROVE EarlyInv'
    <2>1. "seqClaimed" \in XSteps /\ mem[a] \in Records /\ mem[a].of \in Lifts
          /\ (a \in Lifts => mem[a].of = a)
      BY <1>9, HasRecord DEF ClaimSave, XSteps, LiveSteps
    <2>2. ~Early(mem[a].of)
      BY <1>9, <2>1 DEF ClaimSave, Early, EarlyInv, Holders, Late, Actors, PcInv
    <2>3. \A k \in Lifts : k = mem[a].of => ~Early(k)'
      BY <2>2, EarlyIsOver
    <2>4. QED
      BY <1>9, <2>1, <2>3, <1>s DEF ClaimSave, chain
  <1>10. ASSUME NEW a \in Actors, Throws(a) PROVE EarlyInv'
    <2>1. \A b \in Actors : mem'[b] \in {mem[b], NoRecord}
      BY <1>10 DEF Throws, TypeOK
    <2>2. QED
      BY <1>10, <2>1, <1>k, KeptHolders DEF Throws, chain
  <1>11. CASE Open \/ Close \/ Reset
    <2>1. \A b \in Actors : mem'[b] \in {mem[b], NoRecord, slot}
      BY <1>11 DEF Open, Close, Reset, TypeOK
    <2>2. QED
      BY <1>11, <2>1, <1>k, KeptHolders DEF Open, Close, Reset, chain
  <1>12. CASE RefundSend
    BY <1>12, <1>k DEF RefundSend, Holders
  <1>13. CASE RefundSave
    <2>1. "refunded" \in XSteps \ Late /\ Screen \in Actors /\ mem[Screen] \in Records
      BY <1>13, HasRecord DEF RefundSave, XSteps, Late, Actors, LiveSteps
    <2>2. QED
      BY <1>13, <2>1, <1>s DEF RefundSave, chain
  <1>14. CASE Crash
    BY <1>14, <1>k, KeptHolders DEF Crash, chain
  <1>15. ASSUME NEW l \in Lifts,
                \/ MineFunding(l) \/ MakerLocks(l) \/ Anchor(l) \/ MakerRefunds(l)
                \/ MineClaim(l) \/ MakerSweeps(l) \/ MineRefund(l)
         PROVE  EarlyInv'
    BY <1>15, <1>k DEF MineFunding, MakerLocks, Anchor, MakerRefunds, MineClaim, MakerSweeps,
                       MineRefund, app, Holders
  <1>16. CASE Tick \/ UNCHANGED vars
    BY <1>16, <1>k DEF Tick, vars, app, chain, Holders
  <1>17. QED
    BY <1>1, <1>2, <1>3, <1>4, <1>5, <1>6, <1>7, <1>8, <1>9, <1>10, <1>11, <1>12, <1>13, <1>14,
       <1>15, <1>16 DEF Next

\* Every step keeps the leg agreed and the margin running between gates and broadcast.
LEMMA GateStep == ASSUME TypeOK, PcInv, EarlyInv, GateInv, TypeOK', [Next]_vars PROVE GateInv'
  <1> USE LiftConstants, NeverIsFar DEF Actors
  <1>k. ASSUME NEW a \in Actors, pc[a] # "claimSend",
               \A b \in Actors : b # a => pc'[b] = pc[b] /\ mem'[b] = mem[b],
               pc'[a] # "claimSend", gate' = gate, flawed' = flawed, now' = now
        PROVE  GateInv'
    BY <1>k DEF GateInv
  <1>s. ASSUME NEW a \in Actors, NEW s, NEW p, Save(a, s), Goto(a, p), p # "claimSend",
               pc[a] # "claimSend", gate' = gate, flawed' = flawed, now' = now
        PROVE  GateInv'
    BY <1>s, <1>k DEF Save, Goto, TypeOK
  <1>1. ASSUME NEW l \in Lifts, BeginCheck(l) \/ BeginSave(l) \/ Broadcast(l) \/ AnchorWait(l)
        PROVE  GateInv'
    BY <1>1, <1>k DEF BeginCheck, BeginSave, Broadcast, AnchorWait, Goto, chain, TypeOK
  <1>2. ASSUME NEW l \in Lifts, FundSave(l) PROVE GateInv'
    BY <1>2, <1>s DEF FundSave, chain
  <1>3. ASSUME NEW a \in Actors, PollLock(a) \/ VerifyLeg(a) \/ ClaimSave(a) PROVE GateInv'
    BY <1>3, <1>s DEF PollLock, Polls, VerifyLeg, ClaimSave, chain
  <1>4. ASSUME NEW l \in Lifts, RecvLeg(l) PROVE GateInv'
    <2> SUFFICES ASSUME NEW a \in Actors
                 PROVE  /\ gate'[a] # Never => pc'[a] = "claimSend"
                        /\ pc'[a] = "claimSend" =>
                              /\ mem'[a].of \in Lifts /\ mem'[a].of \notin flawed'
                              /\ gate'[a] <= now' /\ now' <= gate'[a] + Delay
                              /\ gate'[a] + Margin < TSeq
      BY DEF GateInv
    <2>1. CASE a = l
      BY <1>4, <2>1 DEF RecvLeg, Goto, GateInv, TypeOK
    <2>2. CASE a # l
      <3>1. pc'[a] = pc[a] /\ mem'[a] = mem[a] /\ gate' = gate /\ now' = now /\ flawed' \subseteq flawed \cup {l}
        BY <1>4, <2>2 DEF RecvLeg, Goto, Save, TypeOK
      <3>2. pc[a] = "claimSend" => mem[a].of # l
        BY <1>4, <2>2, HasRecord DEF RecvLeg, PcInv, EarlyInv, Early, Holders, Late, LiveSteps
      <3>3. QED
        BY <3>1, <3>2 DEF GateInv
    <2>3. QED
      BY <2>1, <2>2
  <1>5. ASSUME NEW a \in Actors, ClaimGates(a) PROVE GateInv'
    <2>1. mem[a].of \in Lifts
      BY <1>5, HasRecord DEF ClaimGates, LiveSteps
    <2>2. /\ pc' = [pc EXCEPT ![a] = "claimSend"] /\ gate' = [gate EXCEPT ![a] = now]
          /\ mem' = mem /\ flawed' = flawed /\ now' = now /\ now \in Nat /\ now + Margin < TSeq
          /\ mem[a].of \notin flawed
      BY <1>5 DEF ClaimGates, Goto, RaceSafe, chain, TypeOK
    <2>3. QED
      BY <2>1, <2>2 DEF GateInv, TypeOK
  <1>6. ASSUME NEW a \in Actors, ClaimSend(a) \/ Throws(a) PROVE GateInv'
    <2>1. \A b \in Actors : b # a => pc'[b] = pc[b] /\ mem'[b] = mem[b] /\ gate'[b] = gate[b]
      BY <1>6 DEF ClaimSend, Throws, Goto, TypeOK
    <2>2. gate'[a] = Never /\ pc'[a] # "claimSend" /\ flawed' = flawed /\ now' = now
      BY <1>6 DEF ClaimSend, Throws, Goto, TypeOK, chain
    <2>3. QED
      BY <2>1, <2>2 DEF GateInv
  <1>7. CASE Open \/ Close \/ RefundSend \/ Reset
    BY <1>7, <1>k DEF Open, Close, RefundSend, Reset, Goto, chain, TypeOK
  <1>8. CASE RefundSave
    BY <1>8, <1>s DEF RefundSave, chain
  <1>9. CASE Crash
    BY <1>9 DEF Crash, GateInv, TypeOK
  <1>10. ASSUME NEW l \in Lifts,
                \/ MineFunding(l) \/ MakerLocks(l) \/ Anchor(l) \/ MakerRefunds(l)
                \/ MineClaim(l) \/ MakerSweeps(l) \/ MineRefund(l)
         PROVE  GateInv'
    BY <1>10 DEF MineFunding, MakerLocks, Anchor, MakerRefunds, MineClaim, MakerSweeps, MineRefund,
                 app, GateInv
  <1>11. CASE Tick
    BY <1>11 DEF Tick, app, chain, GateInv, TypeOK
  <1>12. CASE UNCHANGED vars
    BY <1>12 DEF vars, app, chain, GateInv
  <1>13. QED
    BY <1>1, <1>2, <1>3, <1>4, <1>5, <1>6, <1>7, <1>8, <1>9, <1>10, <1>11, <1>12 DEF Next

\* Every step keeps a revealed secret for a leg that is ours, and its claim ahead of the maker.
LEMMA RevealStep ==
  ASSUME LiftInv, TypeOK', [Next]_vars PROVE SentInv' /\ RevealedIsOurs'
  <1> USE LiftConstants, NeverIsFar DEF LiftInv
  <1>k. ASSUME UNCHANGED <<leg, sentAt, flawed, now>> PROVE SentInv' /\ RevealedIsOurs'
    BY <1>k DEF SentInv, RevealedIsOurs
  <1>1. ASSUME NEW l \in Lifts,
               \/ BeginCheck(l) \/ BeginSave(l) \/ FundSave(l) \/ Broadcast(l)
               \/ AnchorWait(l) \/ MineFunding(l) \/ MakerSweeps(l) \/ MineRefund(l)
        PROVE  SentInv' /\ RevealedIsOurs'
    BY <1>1, <1>k DEF BeginCheck, BeginSave, FundSave, Broadcast, AnchorWait, MineFunding,
                      MakerSweeps, MineRefund, chain
  <1>2. ASSUME NEW a \in Actors,
               PollLock(a) \/ VerifyLeg(a) \/ ClaimGates(a) \/ ClaimSave(a) \/ Throws(a)
        PROVE  SentInv' /\ RevealedIsOurs'
    BY <1>2, <1>k DEF PollLock, VerifyLeg, ClaimGates, ClaimSave, Throws, chain
  <1>3. ASSUME NEW l \in Lifts, RecvLeg(l) PROVE SentInv' /\ RevealedIsOurs'
    <2>1. sentAt[l] = Never
      BY <1>3 DEF RecvLeg, EarlyInv, Early
    <2>2. QED
      BY <1>3, <2>1 DEF RecvLeg, SentInv, RevealedIsOurs
  <1>4. ASSUME NEW a \in Actors, ClaimSend(a) PROVE SentInv' /\ RevealedIsOurs'
    <2>1. /\ mem[a].of \in Lifts /\ mem[a].of \notin flawed /\ leg[mem[a].of] = "anchored"
          /\ gate[a] <= now /\ now <= gate[a] + Delay /\ gate[a] + Margin < TSeq
          /\ gate[a] \in Nat /\ now \in Nat
      BY <1>4 DEF ClaimSend, GateInv, TypeOK
    <2>2. now + MineIn < TSeq
      BY <2>1
    <2>3. /\ \A k \in Lifts : k # mem[a].of => sentAt'[k] = sentAt[k]
          /\ sentAt'[mem[a].of] \in {now, sentAt[mem[a].of]}
          /\ sentAt[mem[a].of] # Never => sentAt'[mem[a].of] = sentAt[mem[a].of]
          /\ leg' = leg /\ flawed' = flawed /\ now' = now
      BY <1>4, <2>1 DEF ClaimSend, TypeOK
    <2>4. QED
      BY <2>1, <2>2, <2>3 DEF SentInv, RevealedIsOurs
  <1>5. ASSUME NEW l \in Lifts, MakerLocks(l) \/ Anchor(l) PROVE SentInv' /\ RevealedIsOurs'
    <2>1. leg[l] \in {"none", "unanchored"} /\ UNCHANGED <<flawed, sentAt, now>>
          /\ \A k \in Lifts : k # l => leg'[k] = leg[k]
      BY <1>5 DEF MakerLocks, Anchor, TypeOK
    <2>2. sentAt[l] = Never
      BY <2>1 DEF RevealedIsOurs
    <2>3. QED
      BY <2>1, <2>2 DEF SentInv, RevealedIsOurs
  <1>6. ASSUME NEW l \in Lifts, MakerRefunds(l) PROVE SentInv' /\ RevealedIsOurs'
    <2>1. sentAt[l] = Never
      BY <1>6 DEF MakerRefunds, RevealedIsOurs, SentInv, TypeOK
    <2>2. QED
      BY <1>6, <2>1 DEF MakerRefunds, SentInv, RevealedIsOurs, TypeOK
  <1>7. ASSUME NEW l \in Lifts, MineClaim(l) PROVE SentInv' /\ RevealedIsOurs'
    BY <1>7 DEF MineClaim, SentInv, RevealedIsOurs, TypeOK
  <1>8. CASE Open \/ Close \/ RefundSend \/ RefundSave \/ Reset \/ Crash \/ UNCHANGED vars
    BY <1>8, <1>k DEF Open, Close, RefundSend, RefundSave, Reset, Crash, vars, chain
  <1>9. CASE Tick
    BY <1>9 DEF Tick, chain, SentInv, RevealedIsOurs, TypeOK
  <1>10. QED
    BY <1>1, <1>2, <1>3, <1>4, <1>5, <1>6, <1>7, <1>8, <1>9 DEF Next

\* The invariant is inductive.
LEMMA LiftStep == ASSUME LiftInv, [Next]_vars PROVE LiftInv'
  BY TypeStep, PcStep, EarlyStep, GateStep, RevealStep DEF LiftInv

\* It holds in every reachable state.
LEMMA LiftAlways == Spec => []LiftInv
  <1>1. Init => LiftInv
    BY InitInv
  <1>2. LiftInv /\ [Next]_vars => LiftInv'
    BY LiftStep
  <1>3. QED
    BY <1>1, <1>2, PTL DEF Spec

\* The store, the records, the chains and the actors' positions keep their types.
THEOREM LiftTypes == Spec => []TypeOK
  BY LiftAlways, PTL DEF LiftInv

\* A revealed secret: whatever lifts, screen and crashes do, and however many lifts run at
\* once, the claim that reveals the secret goes out only for the agreed leg and is mined
\* before the maker may take it back.
THEOREM SecretIsForOurLeg == Spec => []RevealedIsOurs
  BY LiftAlways, PTL DEF LiftInv

-----------------------------------------------------------------------------
(* Every lift implements SwapRecord, when lifts are started one at a time. *)

\* A step that wakes nobody, puts no more Bitcoin at stake and shows no other lift's banner.
LEMMA AloneKept ==
  ASSUME AloneInv,
         \A a \in Actors : Active(a)' => Active(a) /\ LiftOf(a)' = LiftOf(a),
         \A l \in Lifts : Pending(l)' => Pending(l),
         \A l \in Lifts : Active(l) /\ InFlight(slot)' => slot'.of = l
  PROVE  AloneInv'
  BY DEF AloneInv, Actors

\* Saving a record shows the banner of the lift its actor works for, which is everybody's.
LEMMA AloneSave ==
  ASSUME TypeOK, PcInv, AloneInv, NEW a \in Actors, NEW s \in XSteps, NEW p, Save(a, s), Goto(a, p),
         pc[a] \in LiveSteps \ {"begin"} \/ (a = Screen /\ pc[a] # "idle"),
         UNCHANGED <<btc, sentAt, refunds>>
  PROVE  AloneInv'
  <1> USE LiftConstants
  <1>1. /\ slot' = [of |-> mem[a].of, step |-> s] /\ mem' = [mem EXCEPT ![a] = slot']
        /\ mem[a].of \in Lifts /\ (a \in Lifts => mem[a].of = a)
    BY HasRecord, SaveEffect
  <1>2. Active(a) /\ LiftOf(a) = mem[a].of /\ slot'.of = LiftOf(a)
    BY <1>1 DEF Active, LiftOf, LiveSteps, PcInv, Actors
  <1>3. \A b \in Actors : Active(b)' => Active(b)
    BY <1>2 DEF Active, Goto, TypeOK
  <1>4. \A b \in Actors : LiftOf(b)' = LiftOf(b)
    BY <1>1 DEF LiftOf, TypeOK, Actors
  <1>5. \A l \in Lifts : Active(l) => l = LiftOf(a)
    BY <1>2 DEF AloneInv, LiftOf, Actors
  <1>6. \A l \in Lifts : Pending(l)' => Pending(l)
    BY DEF Pending, Resolved
  <1>7. QED
    BY <1>2, <1>3, <1>4, <1>5, <1>6, AloneKept

\* Every step leaves all who work working for one lift.
LEMMA AloneStep ==
  ASSUME OneAtATime, LiftInv, OneInv, [Next]_vars PROVE AloneInv'
  <1> USE LiftConstants, NeverIsFar DEF LiftInv, OneInv
  <1>k. ASSUME \A a \in Actors : Active(a)' => Active(a) /\ mem'[a] = mem[a],
               slot' = slot, UNCHANGED <<btc, sentAt, refunds>>
        PROVE  AloneInv'
    <2>1. \A a \in Actors : Active(a)' => Active(a) /\ LiftOf(a)' = LiftOf(a)
      BY <1>k DEF LiftOf, Actors
    <2>2. QED
      BY <1>k, <2>1, AloneKept DEF Pending, Resolved, AloneInv, InFlight, Actors
  <1>c. ASSUME app' = app, \A l \in Lifts : Pending(l)' => Pending(l) PROVE AloneInv'
    BY <1>c, AloneKept DEF app, Active, LiftOf, AloneInv, InFlight, Actors
  <1>1. ASSUME NEW l \in Lifts, BeginCheck(l) PROVE AloneInv'
    <2>1. \A a \in Actors : Active(a)' => a = l
      BY <1>1 DEF BeginCheck, Goto, Active, TypeOK
    <2>2. \A k \in Lifts : ~Pending(k)
      <3>1. ~InFlight(slot)
        BY <1>1 DEF BeginCheck
      <3>2. SUFFICES ASSUME NEW k \in Lifts, Pending(k) PROVE FALSE
        OBVIOUS
      <3>3. slot.of = k /\ slot.step # "secretReady" /\ slot # NoRecord
        BY <3>2 DEF SlotInv, NoRecord
      <3>4. slot \in Records /\ slot.step \in {"seqClaimed", "refunded"}
        BY <3>1, <3>3 DEF TypeOK, Records, XSteps, InFlight
      <3>5. slot \in Holders
        BY DEF Holders
      <3>6. Resolved(k)
        BY <3>3, <3>4, <3>5 DEF StepInv, HeldInv, Resolved
      <3>7. QED
        BY <3>2, <3>6 DEF Pending
    <2>3. slot' = slot /\ \A k \in Lifts : ~Pending(k)'
      BY <1>1, <2>2 DEF BeginCheck, chain, Pending, Resolved
    <2>4. ~InFlight(slot)'
      BY <1>1 DEF BeginCheck, InFlight
    <2>5. QED
      BY <2>1, <2>3, <2>4 DEF AloneInv
  <1>2. ASSUME NEW l \in Lifts, BeginSave(l) PROVE AloneInv'
    <2>1. \A a \in Actors : Active(a)' => Active(a) /\ LiftOf(a)' = LiftOf(a)
      BY <1>2 DEF BeginSave, Goto, Active, LiftOf, TypeOK, Actors
    <2>2. slot' = [of |-> l, step |-> "secretReady"]
      BY <1>2 DEF BeginSave
    <2>3. ~InFlight(slot)'
      BY <2>2 DEF InFlight, InFlights
    <2>4. QED
      BY <1>2, <2>1, <2>3, AloneKept DEF BeginSave, chain, Pending, Resolved
  <1>3. ASSUME NEW l \in Lifts, FundSave(l) PROVE AloneInv'
    BY <1>3, AloneSave DEF FundSave, chain, XSteps, InFlights, LiveSteps, Actors
  <1>4. ASSUME NEW l \in Lifts, Broadcast(l) PROVE AloneInv'
    <2>1. Active(l) /\ LiftOf(l) = l /\ l \in Actors
      BY <1>4 DEF Broadcast, Active, LiftOf, Actors
    <2>2. \A a \in Actors : Active(a)' => Active(a) /\ LiftOf(a)' = LiftOf(a) /\ LiftOf(a) = l
      BY <1>4, <2>1 DEF Broadcast, Goto, Active, LiftOf, AloneInv, TypeOK
    <2>3. \A k \in Lifts : k # l => (Pending(k)' <=> Pending(k))
      BY <1>4 DEF Broadcast, Pending, Resolved, TypeOK
    <2>4. slot' = slot
      BY <1>4 DEF Broadcast
    <2>5. QED
      BY <2>1, <2>2, <2>3, <2>4 DEF AloneInv, InFlight, Actors
  <1>5. ASSUME NEW a \in Actors, PollLock(a) PROVE AloneInv'
    BY <1>5, AloneSave DEF PollLock, Polls, chain, XSteps, InFlights, LiveSteps
  <1>6. ASSUME NEW l \in Lifts, RecvLeg(l) PROVE AloneInv'
    BY <1>6, AloneSave DEF RecvLeg, XSteps, InFlights, LiveSteps, Actors
  <1>7. ASSUME NEW a \in Actors, VerifyLeg(a) PROVE AloneInv'
    BY <1>7, AloneSave DEF VerifyLeg, chain, XSteps, InFlights, LiveSteps
  <1>8. ASSUME NEW l \in Lifts, AnchorWait(l) PROVE AloneInv'
    BY <1>8, <1>k DEF AnchorWait, Goto, Active, chain, TypeOK
  <1>9. ASSUME NEW a \in Actors, ClaimGates(a) PROVE AloneInv'
    BY <1>9, <1>k DEF ClaimGates, Goto, Active, chain, TypeOK
  <1>10. ASSUME NEW a \in Actors, ClaimSend(a) PROVE AloneInv'
    <2>1. \A b \in Actors : Active(b)' => Active(b) /\ LiftOf(b)' = LiftOf(b)
      BY <1>10 DEF ClaimSend, Goto, Active, LiftOf, TypeOK
    <2>2. \A l \in Lifts : Pending(l)' => Pending(l)
      <3>1. mem[a].of \in Lifts
        BY <1>10, HasRecord DEF ClaimSend, LiveSteps
      <3>2. \A l \in Lifts : sentAt'[l] = Never => sentAt[l] = Never
        BY <1>10, <3>1 DEF ClaimSend, TypeOK
      <3>3. QED
        BY <1>10, <3>2 DEF ClaimSend, Pending, Resolved
    <2>3. slot' = slot
      BY <1>10 DEF ClaimSend
    <2>4. QED
      BY <2>1, <2>2, <2>3, AloneKept DEF AloneInv, InFlight, Actors
  <1>11. ASSUME NEW a \in Actors, ClaimSave(a) PROVE AloneInv'
    BY <1>11, AloneSave DEF ClaimSave, chain, XSteps, LiveSteps
  <1>12. ASSUME NEW a \in Actors, Throws(a) PROVE AloneInv'
    <2>1. \A b \in Actors : Active(b)' => Active(b) /\ mem'[b] = mem[b]
      BY <1>12 DEF Throws, Goto, Active, LiveSteps, TypeOK, Actors
    <2>2. QED
      BY <1>12, <2>1, <1>k DEF Throws, chain
  <1>13. CASE Open
    <2>1. InFlight(slot) /\ slot' = slot /\ slot.of \in Lifts
      BY <1>13 DEF Open, InFlight, InFlights, TypeOK, Records, NoRecord
    <2>2. \A l \in Lifts : Active(l)' <=> Active(l)
      BY <1>13 DEF Open, Goto, Active, TypeOK, Actors
    <2>3. LiftOf(Screen)' = slot.of
      BY <1>13 DEF Open, LiftOf, TypeOK, Actors
    <2>4. \A a \in Actors : Active(a)' => LiftOf(a)' = slot.of
      BY <2>1, <2>2, <2>3 DEF AloneInv, LiftOf, Actors
    <2>5. \A l \in Lifts : Pending(l)' => l = slot.of
      BY <1>13 DEF Open, chain, Pending, Resolved, SlotInv
    <2>6. QED
      BY <2>1, <2>2, <2>4, <2>5 DEF AloneInv, InFlight
  <1>14. CASE Close
    <2>1. \A a \in Actors : Active(a)' => Active(a) /\ mem'[a] = mem[a]
      BY <1>14 DEF Close, Goto, Active, TypeOK, Actors
    <2>2. QED
      BY <1>14, <2>1, <1>k DEF Close, chain
  <1>15. CASE RefundSend
    <2>1. \A a \in Actors : Active(a)' => Active(a) /\ LiftOf(a)' = LiftOf(a)
      BY <1>15 DEF RefundSend, Goto, Active, LiftOf, TypeOK
    <2>2. \A l \in Lifts : Pending(l)' => Pending(l)
      BY <1>15 DEF RefundSend, Pending, Resolved
    <2>3. slot' = slot
      BY <1>15 DEF RefundSend
    <2>4. QED
      BY <2>1, <2>2, <2>3, AloneKept DEF AloneInv, InFlight, Actors
  <1>16. CASE RefundSave
    BY <1>16, AloneSave DEF RefundSave, chain, XSteps, LiveSteps, Actors
  <1>17. CASE Reset
    <2>1. \A a \in Actors : Active(a)' => Active(a) /\ LiftOf(a)' = LiftOf(a)
      BY <1>17 DEF Reset, Goto, Active, LiftOf, TypeOK, Actors
    <2>2. ~InFlight(slot)'
      BY <1>17 DEF Reset, InFlight, InFlights, NoRecord
    <2>3. QED
      BY <1>17, <2>1, <2>2, AloneKept DEF Reset, chain, Pending, Resolved
  <1>18. CASE Crash
    <2>1. \A a \in Actors : ~Active(a)'
      BY <1>18 DEF Crash, Active
    <2>2. QED
      BY <2>1 DEF AloneInv, Actors
  <1>19. ASSUME NEW l \in Lifts,
                \/ MineFunding(l) \/ MakerLocks(l) \/ Anchor(l) \/ MakerRefunds(l)
                \/ MineClaim(l) \/ MakerSweeps(l) \/ MineRefund(l)
         PROVE  AloneInv'
    BY <1>19, <1>c DEF MineFunding, MakerLocks, Anchor, MakerRefunds, MineClaim, MakerSweeps,
                       MineRefund, Pending, Resolved, TypeOK
  <1>20. CASE Tick \/ UNCHANGED vars
    BY <1>20, <1>c DEF Tick, vars, chain, Pending, Resolved
  <1>21. QED
    BY <1>1, <1>2, <1>3, <1>4, <1>5, <1>6, <1>7, <1>8, <1>9, <1>10, <1>11, <1>12, <1>13, <1>14,
       <1>15, <1>16, <1>17, <1>18, <1>19, <1>20 DEF Next

\* What no step undoes: a lift that was started, Bitcoin that went out, a claim, a refund.
LEMMA Onward ==
  ASSUME TypeOK, PcInv, [Next]_vars, NEW k \in Lifts
  PROVE  /\ pc'[k] \in {"idle", "begin"} => pc[k] \in {"idle", "begin"}
         /\ btc'[k] = "none" => btc[k] = "none"
         /\ sentAt'[k] = Never => sentAt[k] = Never
         /\ k \in refunds => k \in refunds'
  <1> USE LiftConstants DEF Goto, TypeOK, PcInv, Actors
  <1> DEFINE Ahead == /\ pc'[k] \in {"idle", "begin"} => pc[k] \in {"idle", "begin"}
                      /\ btc'[k] = "none" => btc[k] = "none"
                      /\ sentAt'[k] = Never => sentAt[k] = Never
                      /\ k \in refunds => k \in refunds'
  <1>1. ASSUME NEW l \in Lifts,
               BeginCheck(l) \/ BeginSave(l) \/ FundSave(l) \/ Broadcast(l) \/ RecvLeg(l) \/ AnchorWait(l)
        PROVE  Ahead
    BY <1>1 DEF BeginCheck, BeginSave, FundSave, Broadcast, RecvLeg, AnchorWait, chain
  <1>2. ASSUME NEW a \in Actors,
               PollLock(a) \/ VerifyLeg(a) \/ ClaimGates(a) \/ ClaimSave(a) \/ Throws(a)
        PROVE  Ahead
    BY <1>2 DEF PollLock, Polls, VerifyLeg, ClaimGates, ClaimSave, Throws, chain
  <1>3. ASSUME NEW a \in Actors, ClaimSend(a) PROVE Ahead
    <2>1. mem[a].of \in Lifts
      BY <1>3, HasRecord DEF ClaimSend, LiveSteps
    <2>2. sentAt'[k] = Never => sentAt[k] = Never
      BY <1>3, <2>1 DEF ClaimSend
    <2>3. QED
      BY <1>3, <2>2 DEF ClaimSend
  <1>4. CASE Open \/ Close \/ RefundSend \/ RefundSave \/ Reset
    BY <1>4 DEF Open, Close, RefundSend, RefundSave, Reset, chain
  <1>5. CASE Crash
    BY <1>5 DEF Crash, chain
  <1>6. ASSUME NEW l \in Lifts,
               \/ MineFunding(l) \/ MakerLocks(l) \/ Anchor(l) \/ MakerRefunds(l)
               \/ MineClaim(l) \/ MakerSweeps(l) \/ MineRefund(l)
        PROVE  Ahead
    BY <1>6 DEF MineFunding, MakerLocks, Anchor, MakerRefunds, MineClaim, MakerSweeps, MineRefund, app
  <1>7. CASE Tick \/ UNCHANGED vars
    BY <1>7 DEF Tick, vars, app, chain
  <1>8. QED
    BY <1>1, <1>2, <1>3, <1>4, <1>5, <1>6, <1>7 DEF Next

\* The records that were held still say the truth after the step.
LEMMA HeldKept ==
  ASSUME TypeOK, PcInv, HeldInv, [Next]_vars, NEW r \in Holders, r # NoRecord
  PROVE  /\ btc'[r.of] = "none" => r.step \in {"secretReady", "btcFunding"}
         /\ r.step = "seqClaimed" => sentAt'[r.of] # Never
         /\ r.step = "refunded" => r.of \in refunds'
         /\ pc'[r.of] \notin {"idle", "begin"}
  <1>1. r.of \in Lifts
    BY DEF Holders, TypeOK, Records
  <1>2. QED
    BY <1>1, Onward DEF HeldInv

\* Who saves from a record of a late step, or after the funding, has Bitcoin out.
LEMMA BitcoinIsOut ==
  ASSUME TypeOK, PcInv, StepInv, NEW a \in Actors,
         \/ pc[a] \in {"recv", "verify", "anchor", "claim", "claimSend", "claimSave"}
         \/ a = Screen /\ pc[a] # "idle" /\ mem[a].step \notin {"secretReady", "btcFunding"}
  PROVE  btc[mem[a].of] # "none"
  <1>1. CASE a = Screen
    <2>1. mem[a] \in Holders /\ mem[a] # NoRecord
      BY <1>1 DEF Holders, TypeOK, Records, NoRecord, XSteps, InFlights
    <2>2. QED
      BY <1>1, <2>1 DEF StepInv, HeldInv, PcInv
  <1>2. CASE a \in Lifts
    BY <1>2, HasRecord, LiftConstants DEF StepInv, FundInv, LiveSteps
  <1>3. QED
    BY <1>1, <1>2 DEF Actors

\* Every step keeps the held records true.
LEMMA HeldStep ==
  ASSUME LiftInv, OneInv, LiftInv', [Next]_vars PROVE HeldInv'
  <1> USE LiftConstants, NeverIsFar DEF LiftInv, OneInv, StepInv
  <1>k. ASSUME \A r \in Holders' : r \in Holders \/ r = NoRecord PROVE HeldInv'
    BY <1>k, HeldKept DEF HeldInv
  <1>s. ASSUME NEW a \in Actors, NEW s \in XSteps, Save(a, s),
               pc[a] \in LiveSteps \ {"begin"} \/ (a = Screen /\ pc[a] # "idle"),
               UNCHANGED <<btc, sentAt, refunds>>,
               s \notin {"secretReady", "btcFunding"} => btc[mem[a].of] # "none",
               s = "seqClaimed" => sentAt[mem[a].of] # Never,
               s = "refunded" => mem[a].of \in refunds
        PROVE  HeldInv'
    <2>1. mem[a] \in Records /\ mem[a].of \in Lifts /\ (a \in Lifts => mem[a].of = a)
      BY <1>s, HasRecord
    <2>2. pc[mem[a].of] \notin {"idle", "begin"}
      <3>1. CASE a \in Lifts
        BY <1>s, <2>1, <3>1 DEF LiveSteps
      <3>2. CASE a = Screen
        BY <2>1, <3>2 DEF HeldInv, Holders, NoRecord, Records
      <3>3. QED
        BY <3>1, <3>2 DEF Actors
    <2>3. \A k \in Lifts : k = mem[a].of => pc'[k] \notin {"idle", "begin"}
      BY <2>2, Onward
    <2>4. \A r \in Holders' : r \in Holders \/ r = [of |-> mem[a].of, step |-> s]
      BY <1>s, <2>1, SavedHolders
    <2> SUFFICES ASSUME NEW r \in Holders', r # NoRecord
                 PROVE  /\ btc'[r.of] = "none" => r.step \in {"secretReady", "btcFunding"}
                        /\ r.step = "seqClaimed" => sentAt'[r.of] # Never
                        /\ r.step = "refunded" => r.of \in refunds'
                        /\ pc'[r.of] \notin {"idle", "begin"}
      BY DEF HeldInv
    <2>5. CASE r \in Holders
      BY <2>5, HeldKept
    <2>6. CASE r = [of |-> mem[a].of, step |-> s]
      BY <1>s, <2>1, <2>3, <2>6
    <2>7. QED
      BY <2>4, <2>5, <2>6
  <1>1. ASSUME NEW l \in Lifts, BeginCheck(l) \/ Broadcast(l) \/ AnchorWait(l) PROVE HeldInv'
    BY <1>1, <1>k DEF BeginCheck, Broadcast, AnchorWait, Holders
  <1>2. ASSUME NEW l \in Lifts, BeginSave(l) PROVE HeldInv'
    <2>1. \A b \in Actors : mem'[b] \in {mem[b], slot'}
      BY <1>2, BeginEffect DEF TypeOK
    <2>2. \A r \in Holders' : r \in Holders \/ r = slot'
      BY <2>1 DEF Holders
    <2>3. slot' = [of |-> l, step |-> "secretReady"] /\ pc'[l] = "fund"
      BY <1>2 DEF BeginSave, Goto, TypeOK, Actors
    <2>4. QED
      BY <2>2, <2>3, HeldKept DEF HeldInv
  <1>3. ASSUME NEW l \in Lifts, FundSave(l) PROVE HeldInv'
    BY <1>3, <1>s DEF FundSave, chain, XSteps, InFlights, LiveSteps, Actors
  <1>4. ASSUME NEW a \in Actors, PollLock(a) PROVE HeldInv'
    BY <1>4, <1>s DEF PollLock, Polls, chain, XSteps, InFlights, LiveSteps
  <1>5. ASSUME NEW l \in Lifts, RecvLeg(l) PROVE HeldInv'
    <2>1. btc[mem[l].of] # "none" /\ l \in Actors
      BY <1>5, BitcoinIsOut DEF RecvLeg, Actors
    <2>2. QED
      BY <1>5, <2>1, <1>s DEF RecvLeg, XSteps, InFlights, LiveSteps
  <1>6. ASSUME NEW a \in Actors, VerifyLeg(a) PROVE HeldInv'
    <2>1. btc[mem[a].of] # "none"
      BY <1>6, BitcoinIsOut DEF VerifyLeg
    <2>2. QED
      BY <1>6, <2>1, <1>s DEF VerifyLeg, chain, XSteps, InFlights, LiveSteps
  <1>7. ASSUME NEW a \in Actors, ClaimGates(a) \/ ClaimSend(a) PROVE HeldInv'
    BY <1>7, <1>k DEF ClaimGates, ClaimSend, Holders
  <1>8. ASSUME NEW a \in Actors, ClaimSave(a) PROVE HeldInv'
    <2>1. btc[mem[a].of] # "none" /\ sentAt[mem[a].of] # Never
      BY <1>8, BitcoinIsOut DEF ClaimSave, SentOutInv
    <2>2. QED
      BY <1>8, <2>1, <1>s DEF ClaimSave, chain, XSteps, LiveSteps
  <1>9. ASSUME NEW a \in Actors, Throws(a) PROVE HeldInv'
    <2>1. \A b \in Actors : mem'[b] \in {mem[b], NoRecord}
      BY <1>9 DEF Throws, TypeOK
    <2>2. QED
      BY <1>9, <2>1, <1>k, KeptHolders DEF Throws
  <1>10. CASE Open \/ Close \/ Reset
    <2>1. \A b \in Actors : mem'[b] \in {mem[b], NoRecord, slot}
      BY <1>10 DEF Open, Close, Reset, TypeOK
    <2>2. QED
      BY <1>10, <2>1, <1>k, KeptHolders DEF Open, Close, Reset
  <1>11. CASE RefundSave
    <2>1. btc[mem[Screen].of] # "none" /\ mem[Screen].of \in refunds
      BY <1>11, BitcoinIsOut DEF RefundSave, SentOutInv, Actors
    <2>2. QED
      BY <1>11, <2>1, <1>s DEF RefundSave, chain, XSteps, LiveSteps, Actors
  <1>12. CASE RefundSend
    BY <1>12, <1>k DEF RefundSend, Holders
  <1>13. CASE Crash
    BY <1>13, <1>k, KeptHolders DEF Crash
  <1>14. ASSUME NEW l \in Lifts,
                \/ MineFunding(l) \/ MakerLocks(l) \/ Anchor(l) \/ MakerRefunds(l)
                \/ MineClaim(l) \/ MakerSweeps(l) \/ MineRefund(l)
         PROVE  HeldInv'
    BY <1>14, <1>k DEF MineFunding, MakerLocks, Anchor, MakerRefunds, MineClaim, MakerSweeps,
                       MineRefund, app, Holders
  <1>15. CASE Tick \/ UNCHANGED vars
    BY <1>15, <1>k DEF Tick, vars, app, Holders
  <1>16. QED
    BY <1>1, <1>2, <1>3, <1>4, <1>5, <1>6, <1>7, <1>8, <1>9, <1>10, <1>11, <1>12, <1>13, <1>14,
       <1>15 DEF Next

\* Every step keeps a claim or a refund sent before it is saved.
LEMMA SentOutStep ==
  ASSUME LiftInv, OneInv, LiftInv', [Next]_vars PROVE SentOutInv'
  <1> USE LiftConstants, NeverIsFar DEF LiftInv, OneInv, StepInv, Actors
  <1>k. ASSUME \A a \in Actors : pc'[a] = "claimSave" => pc[a] = "claimSave" /\ mem'[a] = mem[a],
               pc'[Screen] # "idle" => mem'[Screen].step # "secretReady",
               pc'[Screen] = "refundSave" => pc[Screen] = "refundSave" /\ mem'[Screen] = mem[Screen]
        PROVE  SentOutInv'
    <2>1. \A a \in Actors : pc[a] = "claimSave" => mem[a].of \in Lifts
      BY HasRecord DEF LiveSteps
    <2>2. pc[Screen] = "refundSave" => mem[Screen].of \in Lifts
      BY HasRecord DEF LiveSteps
    <2>3. QED
      BY <1>k, <2>1, <2>2, Onward DEF SentOutInv
  <1>s. ASSUME NEW a \in Actors, NEW s \in XSteps, NEW p, Save(a, s), Goto(a, p), mem[a] \in Records,
               p \notin {"claimSave", "refundSave"}, s # "secretReady"
        PROVE  SentOutInv'
    <2>1. \A b \in Actors : b # a => pc'[b] = pc[b] /\ mem'[b] = mem[b]
      BY <1>s DEF Save, Goto, TypeOK
    <2>2. pc'[a] = p /\ mem'[a].step = s
      BY <1>s, SaveEffect DEF Goto, TypeOK
    <2>3. QED
      BY <1>s, <1>k, <2>1, <2>2 DEF SentOutInv
  <1>1. ASSUME NEW l \in Lifts, BeginCheck(l) \/ BeginSave(l) \/ Broadcast(l) \/ AnchorWait(l)
        PROVE  SentOutInv'
    BY <1>1, <1>k DEF BeginCheck, BeginSave, Broadcast, AnchorWait, Goto, SentOutInv, TypeOK
  <1>2. ASSUME NEW l \in Lifts, FundSave(l) \/ RecvLeg(l) PROVE SentOutInv'
    BY <1>2, <1>s, HasRecord DEF FundSave, RecvLeg, XSteps, InFlights, LiveSteps
  <1>3. ASSUME NEW a \in Actors, PollLock(a) \/ VerifyLeg(a) \/ ClaimSave(a) PROVE SentOutInv'
    BY <1>3, <1>s, HasRecord DEF PollLock, Polls, VerifyLeg, ClaimSave, XSteps, InFlights, LiveSteps
  <1>4. ASSUME NEW a \in Actors, ClaimGates(a) \/ Throws(a) PROVE SentOutInv'
    BY <1>4, <1>k DEF ClaimGates, Throws, Goto, SentOutInv, TypeOK, LiveSteps
  <1>5. ASSUME NEW a \in Actors, ClaimSend(a) PROVE SentOutInv'
    <2>1. mem[a].of \in Lifts /\ sentAt'[mem[a].of] # Never
      BY <1>5, HasRecord DEF ClaimSend, LiveSteps, TypeOK
    <2>2. mem' = mem /\ refunds' = refunds /\ \A b \in Actors : b # a => pc'[b] = pc[b]
      BY <1>5 DEF ClaimSend, Goto, TypeOK
    <2>3. pc'[a] = "claimSave" /\ pc[a] = "claimSend"
      BY <1>5 DEF ClaimSend, Goto, TypeOK
    <2>4. \A b \in Actors : pc[b] = "claimSave" => sentAt'[mem[b].of] # Never
      BY HasRecord, Onward DEF SentOutInv, LiveSteps
    <2>5. QED
      BY <2>1, <2>2, <2>3, <2>4 DEF SentOutInv
  <1>6. CASE Open
    BY <1>6, <1>k DEF Open, Goto, InFlight, InFlights, TypeOK
  <1>7. CASE Close \/ Reset
    BY <1>7, <1>k DEF Close, Reset, Goto, TypeOK
  <1>8. CASE RefundSend
    BY <1>8 DEF RefundSend, Goto, SentOutInv, TypeOK
  <1>9. CASE RefundSave
    BY <1>9, <1>s, HasRecord DEF RefundSave, XSteps, LiveSteps
  <1>10. CASE Crash
    BY <1>10, <1>k DEF Crash, TypeOK
  <1>11. ASSUME NEW l \in Lifts,
                \/ MineFunding(l) \/ MakerLocks(l) \/ Anchor(l) \/ MakerRefunds(l)
                \/ MineClaim(l) \/ MakerSweeps(l) \/ MineRefund(l)
         PROVE  SentOutInv'
    BY <1>11, <1>k DEF MineFunding, MakerLocks, Anchor, MakerRefunds, MineClaim, MakerSweeps,
                       MineRefund, app, SentOutInv
  <1>12. CASE Tick \/ UNCHANGED vars
    BY <1>12, <1>k DEF Tick, vars, app, SentOutInv
  <1>13. QED
    BY <1>1, <1>2, <1>3, <1>4, <1>5, <1>6, <1>7, <1>8, <1>9, <1>10, <1>11, <1>12 DEF Next

\* Every step keeps the funding's record in the slot until the broadcast.
LEMMA FundStep ==
  ASSUME LiftInv, OneInv, LiftInv', [Next]_vars PROVE FundInv'
  <1> USE LiftConstants, NeverIsFar DEF LiftInv, OneInv, StepInv, Actors
  <1>k. ASSUME \A l \in Lifts : pc'[l] \in {pc[l], "ended"},
               \A l \in Lifts : pc[l] = "broadcast" => slot' = slot,
               \A l \in Lifts : btc'[l] = "none" <=> btc[l] = "none"
        PROVE  FundInv'
    BY <1>k DEF FundInv
  <1>s. ASSUME NEW a \in Actors, NEW s \in XSteps, NEW p, Save(a, s), Goto(a, p), btc' = btc,
               pc[a] \in LiveSteps \ {"begin"} \/ (a = Screen /\ pc[a] # "idle"),
               btc[mem[a].of] # "none",
               a \in Lifts => p \in {"recv", "verify", "anchor", "ended"}
        PROVE  FundInv'
    <2>1. mem[a].of \in Lifts /\ (a \in Lifts => mem[a].of = a)
      BY <1>s, HasRecord
    <2>2. Active(a) /\ LiftOf(a) = mem[a].of
      BY <1>s, <2>1 DEF Active, LiftOf, LiveSteps, PcInv
    <2>3. \A l \in Lifts : pc[l] # "broadcast"
      BY <1>s, <2>2 DEF AloneInv, FundInv, Active, LiftOf
    <2>4. \A l \in Lifts : pc'[l] = pc[l] \/ (l = a /\ pc'[l] = p)
      BY <1>s DEF Goto, TypeOK
    <2>5. QED
      BY <1>s, <2>1, <2>3, <2>4 DEF FundInv
  <1>1. ASSUME NEW l \in Lifts, BeginCheck(l) PROVE FundInv'
    BY <1>1 DEF BeginCheck, Goto, chain, FundInv, TypeOK
  <1>2. ASSUME NEW l \in Lifts, BeginSave(l) \/ FundSave(l) PROVE FundInv'
    <2>1. \A k \in Lifts : k # l => pc[k] # "broadcast" /\ pc'[k] = pc[k]
      BY <1>2 DEF BeginSave, FundSave, Goto, AloneInv, Active, LiftOf, TypeOK
    <2>2. pc[l] \in {"begin", "fund"} /\ btc' = btc
      BY <1>2 DEF BeginSave, FundSave, chain
    <2>3. pc'[l] = "fund" \/ (pc'[l] = "broadcast" /\ slot' = [of |-> l, step |-> "btcFunding"])
      <3>1. CASE BeginSave(l)
        BY <3>1 DEF BeginSave, Goto, TypeOK
      <3>2. CASE FundSave(l)
        BY <3>2, HasRecord, SaveEffect DEF FundSave, Goto, TypeOK, XSteps, InFlights, LiveSteps
      <3>3. QED
        BY <1>2, <3>1, <3>2
    <2>4. QED
      BY <2>1, <2>2, <2>3 DEF FundInv
  <1>3. ASSUME NEW l \in Lifts, Broadcast(l) PROVE FundInv'
    BY <1>3 DEF Broadcast, Goto, FundInv, TypeOK
  <1>4. ASSUME NEW a \in Actors, PollLock(a) PROVE FundInv'
    BY <1>4, <1>s DEF PollLock, Polls, chain, XSteps, InFlights, LiveSteps
  <1>5. ASSUME NEW l \in Lifts, RecvLeg(l) PROVE FundInv'
    BY <1>5, <1>s, BitcoinIsOut DEF RecvLeg, XSteps, InFlights, LiveSteps
  <1>6. ASSUME NEW a \in Actors, VerifyLeg(a) \/ ClaimSave(a) PROVE FundInv'
    <2>1. btc[mem[a].of] # "none"
      BY <1>6, BitcoinIsOut DEF VerifyLeg, ClaimSave
    <2>2. QED
      BY <1>6, <2>1, <1>s DEF VerifyLeg, ClaimSave, chain, XSteps, InFlights, LiveSteps
  <1>7. ASSUME NEW a \in Actors, AnchorWait(a) \/ ClaimGates(a) \/ ClaimSend(a), a \in Lifts PROVE FundInv'
    BY <1>7 DEF AnchorWait, ClaimGates, ClaimSend, Goto, chain, FundInv, TypeOK
  <1>8. ASSUME ClaimGates(Screen) \/ ClaimSend(Screen) PROVE FundInv'
    BY <1>8, <1>k DEF ClaimGates, ClaimSend, Goto, chain, TypeOK
  <1>9. ASSUME NEW a \in Actors, Throws(a) PROVE FundInv'
    BY <1>9, <1>k DEF Throws, Goto, chain, TypeOK
  <1>10. CASE Open \/ Close \/ RefundSend
    BY <1>10, <1>k DEF Open, Close, RefundSend, Goto, chain, TypeOK
  <1>11. CASE RefundSave
    <2>1. btc[mem[Screen].of] # "none"
      BY <1>11, BitcoinIsOut DEF RefundSave, SentOutInv
    <2>2. QED
      BY <1>11, <2>1, <1>s DEF RefundSave, chain, XSteps, LiveSteps
  <1>12. CASE Reset
    <2>1. btc[mem[Screen].of] # "none" /\ mem[Screen].of = LiftOf(Screen) /\ Active(Screen)
      BY <1>12, BitcoinIsOut DEF Reset, LiftOf, Active
    <2>2. \A l \in Lifts : pc[l] # "broadcast"
      BY <2>1 DEF AloneInv, FundInv, Active, LiftOf
    <2>3. QED
      BY <1>12, <1>k, <2>2 DEF Reset, Goto, chain, TypeOK
  <1>13. CASE Crash
    BY <1>13 DEF Crash, chain, FundInv, TypeOK
  <1>14. ASSUME NEW l \in Lifts,
                \/ MineFunding(l) \/ MakerLocks(l) \/ Anchor(l) \/ MakerRefunds(l)
                \/ MineClaim(l) \/ MakerSweeps(l) \/ MineRefund(l)
         PROVE  FundInv'
    BY <1>14, <1>k DEF MineFunding, MakerLocks, Anchor, MakerRefunds, MineClaim, MakerSweeps,
                       MineRefund, app, TypeOK
  <1>15. CASE Tick \/ UNCHANGED vars
    BY <1>15, <1>k DEF Tick, vars, app, chain
  <1>16. QED
    BY <1>1, <1>2, <1>3, <1>4, <1>5, <1>6, <1>7, <1>8, <1>9, <1>10, <1>11, <1>12, <1>13, <1>14,
       <1>15 DEF Next

\* Every step keeps the record of the Bitcoin at stake in the slot.
LEMMA SlotStep ==
  ASSUME LiftInv, OneInv, LiftInv', [Next]_vars PROVE SlotInv'
  <1> USE LiftConstants, NeverIsFar DEF LiftInv, OneInv, StepInv, Actors
  <1>k. ASSUME slot' = slot, \A l \in Lifts : Pending(l)' => Pending(l) PROVE SlotInv'
    BY <1>k DEF SlotInv
  <1>s. ASSUME NEW a \in Actors, NEW s \in XSteps, Save(a, s), s # "secretReady",
               pc[a] \in LiveSteps \ {"begin"} \/ (a = Screen /\ pc[a] # "idle"),
               UNCHANGED <<btc, sentAt, refunds>>
        PROVE  SlotInv'
    <2>1. slot' = [of |-> mem[a].of, step |-> s] /\ mem[a].of \in Lifts /\ (a \in Lifts => mem[a].of = a)
      BY <1>s, HasRecord, SaveEffect
    <2>2. Active(a) /\ LiftOf(a) = mem[a].of
      BY <1>s, <2>1 DEF Active, LiftOf, LiveSteps, PcInv
    <2>3. \A l \in Lifts : Pending(l)' => l = mem[a].of
      BY <1>s, <2>2 DEF AloneInv, Pending, Resolved
    <2>4. QED
      BY <1>s, <2>1, <2>3 DEF SlotInv
  <1>1. ASSUME NEW l \in Lifts, BeginCheck(l) \/ AnchorWait(l) PROVE SlotInv'
    BY <1>1, <1>k DEF BeginCheck, AnchorWait, chain, Pending, Resolved
  <1>2. ASSUME NEW l \in Lifts, BeginSave(l) PROVE SlotInv'
    <2>1. \A k \in Lifts : ~Pending(k)
      BY <1>2 DEF BeginSave, AloneInv, FundInv, Active, LiftOf, Pending
    <2>2. QED
      BY <1>2, <2>1 DEF BeginSave, chain, SlotInv, Pending, Resolved
  <1>3. ASSUME NEW l \in Lifts, FundSave(l) \/ RecvLeg(l) PROVE SlotInv'
    BY <1>3, <1>s DEF FundSave, RecvLeg, chain, XSteps, InFlights, LiveSteps
  <1>4. ASSUME NEW l \in Lifts, Broadcast(l) PROVE SlotInv'
    <2>1. slot' = [of |-> l, step |-> "btcFunding"]
      BY <1>4 DEF Broadcast, FundInv
    <2>2. \A k \in Lifts : k # l => ~Pending(k) /\ (Pending(k)' => Pending(k))
      BY <1>4 DEF Broadcast, AloneInv, Active, LiftOf, Pending, Resolved, TypeOK
    <2>3. QED
      BY <2>1, <2>2 DEF SlotInv
  <1>5. ASSUME NEW a \in Actors, PollLock(a) \/ VerifyLeg(a) \/ ClaimSave(a) PROVE SlotInv'
    BY <1>5, <1>s DEF PollLock, Polls, VerifyLeg, ClaimSave, chain, XSteps, InFlights, LiveSteps
  <1>6. ASSUME NEW a \in Actors, ClaimGates(a) \/ Throws(a) PROVE SlotInv'
    BY <1>6, <1>k DEF ClaimGates, Throws, chain, Pending, Resolved
  <1>7. ASSUME NEW a \in Actors, ClaimSend(a) PROVE SlotInv'
    <2>1. \A l \in Lifts : Pending(l)' => Pending(l)
      BY <1>7, Onward DEF ClaimSend, Pending, Resolved
    <2>2. QED
      BY <1>7, <2>1, <1>k DEF ClaimSend
  <1>8. CASE Open \/ Close \/ RefundSend
    BY <1>8, <1>k DEF Open, Close, RefundSend, chain, Pending, Resolved
  <1>9. CASE RefundSave
    BY <1>9, <1>s DEF RefundSave, chain, XSteps, LiveSteps
  <1>10. CASE Reset
    <2>1. Active(Screen) /\ LiftOf(Screen) = mem[Screen].of
      BY <1>10 DEF Reset, LiftOf, Active
    <2>2. mem[Screen] \in Holders /\ mem[Screen] # NoRecord
      BY <1>10, HasRecord DEF Reset, Holders, Records, NoRecord
    <2>3. Resolved(mem[Screen].of)
      BY <1>10, <2>2 DEF Reset, HeldInv, Resolved
    <2>4. \A k \in Lifts : ~Pending(k)
      BY <2>1, <2>3 DEF AloneInv, Pending
    <2>5. QED
      BY <1>10, <2>4 DEF Reset, chain, SlotInv, Pending, Resolved
  <1>11. CASE Crash
    BY <1>11, <1>k DEF Crash, chain, Pending, Resolved
  <1>12. ASSUME NEW l \in Lifts,
                \/ MineFunding(l) \/ MakerLocks(l) \/ Anchor(l) \/ MakerRefunds(l)
                \/ MineClaim(l) \/ MakerSweeps(l) \/ MineRefund(l)
         PROVE  SlotInv'
    BY <1>12, <1>k DEF MineFunding, MakerLocks, Anchor, MakerRefunds, MineClaim, MakerSweeps,
                       MineRefund, app, Pending, Resolved, TypeOK
  <1>13. CASE Tick \/ UNCHANGED vars
    BY <1>13, <1>k DEF Tick, vars, app, chain, Pending, Resolved
  <1>14. QED
    BY <1>1, <1>2, <1>3, <1>4, <1>5, <1>6, <1>7, <1>8, <1>9, <1>10, <1>11, <1>12, <1>13 DEF Next

\* The invariant of lifts started one at a time is inductive.
LEMMA OneStep == ASSUME OneAtATime, LiftInv, OneInv, [Next]_vars PROVE LiftInv' /\ OneInv'
  BY LiftStep, AloneStep, HeldStep, SentOutStep, FundStep, SlotStep DEF OneInv, StepInv

\* A step that sends no Bitcoin, claim or refund can only write a lift's record, or drop one
\* that is no longer needed.
LEMMA RecordKept ==
  ASSUME SlotInv', NEW l \in Lifts,
         btc'[l] = "none" <=> btc[l] = "none", Resolved(l)' <=> Resolved(l)
  PROVE  [Record(l)!Next]_(Record(l)!vars)
  <1> DEFINE Kept == slot.of = l /\ slot.step # "secretReady"
  <1>1. CASE Kept <=> Kept'
    BY <1>1 DEF Record!vars, Resolved
  <1>2. CASE ~Kept /\ Kept'
    BY <1>2 DEF Record!Next, Record!Record, Resolved
  <1>3. CASE Kept /\ ~Kept'
    BY <1>3 DEF SlotInv, Pending, Record!Next, Record!Forget, Resolved
  <1>4. QED
    BY <1>1, <1>2, <1>3

\* Every step of the wallet is, for each lift, a step of SwapRecord or a stutter.
LEMMA RecordStep ==
  ASSUME OneAtATime, LiftInv, OneInv, [Next]_vars, NEW l \in Lifts
  PROVE  [Record(l)!Next]_(Record(l)!vars)
  <1> USE LiftConstants, NeverIsFar DEF LiftInv, OneInv, StepInv, Actors
  <1>k. SlotInv'
    BY OneStep
  <1>1. ASSUME NEW k \in Lifts,
               BeginCheck(k) \/ BeginSave(k) \/ FundSave(k) \/ RecvLeg(k) \/ AnchorWait(k)
        PROVE  [Record(l)!Next]_(Record(l)!vars)
    BY <1>1, <1>k, RecordKept DEF BeginCheck, BeginSave, FundSave, RecvLeg, AnchorWait, chain, Resolved
  <1>2. ASSUME NEW k \in Lifts, Broadcast(k) PROVE [Record(l)!Next]_(Record(l)!vars)
    <2>1. CASE l # k
      BY <1>2, <2>1, <1>k, RecordKept DEF Broadcast, Resolved, TypeOK
    <2>2. CASE l = k
      <3>1. slot = [of |-> l, step |-> "btcFunding"] /\ slot' = slot /\ btc[l] = "none"
            /\ btc'[l] = "mempool" /\ (Resolved(l)' <=> Resolved(l))
        BY <1>2, <2>2 DEF Broadcast, FundInv, Resolved, TypeOK
      <3>2. QED
        BY <3>1 DEF Record!Next, Record!Commit, Resolved
    <2>3. QED
      BY <2>1, <2>2
  <1>3. ASSUME NEW a \in Actors,
               PollLock(a) \/ VerifyLeg(a) \/ ClaimGates(a) \/ ClaimSave(a) \/ Throws(a)
        PROVE  [Record(l)!Next]_(Record(l)!vars)
    BY <1>3, <1>k, RecordKept DEF PollLock, VerifyLeg, ClaimGates, ClaimSave, Throws, chain, Resolved
  <1>r. ASSUME slot' = slot, btc' = btc, btc[l] # "none", Resolved(l)' PROVE [Record(l)!Next]_(Record(l)!vars)
    <2>1. CASE Resolved(l)
      BY <1>r, <1>k, <2>1, RecordKept
    <2>2. CASE ~Resolved(l)
      BY <1>r, <2>2 DEF SlotInv, Pending, Record!Next, Record!Resolve
    <2>3. QED
      BY <2>1, <2>2
  <1>4. ASSUME NEW a \in Actors, ClaimSend(a) PROVE [Record(l)!Next]_(Record(l)!vars)
    <2>1. mem[a].of \in Lifts /\ btc[mem[a].of] # "none"
      BY <1>4, HasRecord, BitcoinIsOut DEF ClaimSend, LiveSteps
    <2>2. CASE l # mem[a].of
      BY <1>4, <2>1, <2>2, <1>k, RecordKept DEF ClaimSend, Resolved, TypeOK
    <2>3. CASE l = mem[a].of
      BY <1>4, <2>1, <2>3, <1>r DEF ClaimSend, Resolved, TypeOK
    <2>4. QED
      BY <2>2, <2>3
  <1>5. CASE RefundSend
    <2>1. CASE l # mem[Screen].of
      BY <1>5, <2>1, <1>k, RecordKept DEF RefundSend, Resolved
    <2>2. CASE l = mem[Screen].of
      BY <1>5, <2>2, <1>r DEF RefundSend, Resolved
    <2>3. QED
      BY <2>1, <2>2
  <1>6. CASE Open \/ Close \/ RefundSave \/ Reset \/ Crash
    BY <1>6, <1>k, RecordKept DEF Open, Close, RefundSave, Reset, Crash, chain, Resolved
  <1>7. ASSUME NEW k \in Lifts,
               \/ MineFunding(k) \/ MakerLocks(k) \/ Anchor(k) \/ MakerRefunds(k)
               \/ MineClaim(k) \/ MakerSweeps(k) \/ MineRefund(k)
        PROVE  [Record(l)!Next]_(Record(l)!vars)
    BY <1>7, <1>k, RecordKept DEF MineFunding, MakerLocks, Anchor, MakerRefunds, MineClaim,
                                  MakerSweeps, MineRefund, Resolved, TypeOK
  <1>8. CASE Tick \/ UNCHANGED vars
    BY <1>8, <1>k, RecordKept DEF Tick, vars, chain, Resolved
  <1>9. QED
    BY <1>1, <1>2, <1>3, <1>4, <1>5, <1>6, <1>7, <1>8 DEF Next

\* One slot: when a lift is started only with no other running and no screen open, every lift
\* implements SwapRecord.  Its record is in the slot before its Bitcoin goes out and stays
\* there until the claim or the refund is sent, whatever crashes and closed screens come
\* between.
THEOREM EachLiftImplementsRecord == ASSUME OneAtATime PROVE Spec => WriteAhead
  <1> DEFINE Kept == \A l \in Lifts : [Record(l)!Next]_(Record(l)!vars)
             Started == \A l \in Lifts : Record(l)!Init
  <1>1. Init => LiftInv /\ OneInv
    BY InitInv
  <1>2. ASSUME Init PROVE Started
    <2> SUFFICES ASSUME NEW l \in Lifts PROVE Record(l)!Init
      OBVIOUS
    <2>1. slot.of # l /\ btc[l] = "none" /\ sentAt[l] = Never /\ l \notin refunds
      BY <1>2, LiftConstants DEF Init, NoRecord
    <2>2. QED
      BY <2>1 DEF Record!Init, Resolved
  <1>3. LiftInv /\ OneInv /\ [Next]_vars => LiftInv' /\ OneInv' /\ Kept
    BY OneStep, RecordStep
  <1> HIDE DEF Kept, Started
  <1>4. Spec => Started /\ [][Kept]_vars
    BY <1>1, <1>2, <1>3, PTL DEF Spec
  <1>5. QED
    BY <1>4 DEF WriteAhead, Kept, Started

\* The slot is overwritten only by a lift started beside another one or beside an open
\* screen: with neither, the record of Bitcoin at stake is never replaced.
THEOREM OverwritingNeedsTwo == ASSUME OneAtATime PROVE Spec => []NeverOverwritten
  <1>1. Init => LiftInv /\ OneInv
    BY InitInv
  <1>2. LiftInv /\ OneInv /\ [Next]_vars => LiftInv' /\ OneInv'
    BY OneStep
  <1>3. OneInv => NeverOverwritten
    BY DEF OneInv, SlotInv, Pending, NeverOverwritten, Record!NeverForgotten
  <1>4. QED
    BY <1>1, <1>2, <1>3, PTL DEF Spec
=============================================================================
