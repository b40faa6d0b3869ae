---------------------------- MODULE XrSwap_proofs ----------------------------
(***************************************************************************)
(* Proofs about XrSwap, for every T_seq and every bound on the Bitcoin     *)
(* tip: its types; that a leg the maker was told of never outlives the     *)
(* maker's lock, whatever the last Bitcoin block does; and that the two    *)
(* drivers, crashes and saves that throw implement SwapRecord together.    *)
(***************************************************************************)
EXTENDS XrSwap, TLAPS

\* The record in the store and those the drivers hold.
Held(r) == r = saved \/ r = copy["live"] \/ r = copy["sheet"]

\* Before the broadcast nothing tells of a leg: no record, no message, no driver.
AbsentInv ==
    leg = "absent" =>
        /\ ~revealed /\ ~announced /\ ~claimSent /\ ~refundSent
        /\ \A r \in Rec : Held(r) => ~HasLeg(r) /\ ~r.txid /\ ~r.pre
        /\ pc["live"] \in PreFund \cup {"off", "auth", "broadcast"}
        /\ pc["sheet"] \in {"off", "sheet", "scan"}

\* The live drive is alone with a record without intent until it saves one; the intent is in
\* the store when it broadcasts, and behind every sheet.
IntentInv ==
    /\ pc["live"] \in PreFund \cup {"auth"} =>
          leg = "absent" /\ ~saved.attempted /\ ~copy["live"].attempted /\ pc["sheet"] = "off"
    /\ pc["live"] = "broadcast" => leg = "absent" /\ saved.attempted
    /\ pc["sheet"] # "off" /\ leg = "absent" => saved.attempted

\* Whoever works on a leg holds a record with the intent, so that no save of its takes it away.
CopyInv ==
    /\ pc["sheet"] # "off" => copy["sheet"].attempted
    /\ pc["live"] \in TailSteps \cup {"broadcast", "saveTxid", "legAnchor", "hint"} => copy["live"].attempted
    /\ \A r \in Rec : Held(r) /\ (HasLeg(r) \/ r.txid) => r.attempted

\* A record that says how the swap ended says the truth.
EndInv ==
    /\ \A r \in Rec : Held(r) => (r.step = "btcClaimed" => claimSent) /\ (r.step = "refunded" => refundSent)
    /\ \A d \in Driver : pc[d] = "saveClaimed" => claimSent
    /\ pc["sheet"] = "saveRefunded" => refundSent

\* An asset that is out has its record in the store until the swap has ended.
KeptInv == leg # "absent" /\ ~claimSent /\ ~refundSent => saved.attempted

\* Past the wait for the anchor the lock that was seen is buried, out of a reorganisation's reach.
BuriedInv ==
    /\ pc["live"] \in {"anchor", "reverify"} => seen # 0
    /\ pc["live"] = "reverify" => seen < btcTip
    /\ pc["live"] \in {"auth", "broadcast", "saveTxid", "confirm", "legAnchor"} =>
          lockAt = seen /\ seen # 0 /\ seen < btcTip
    /\ announced => lockAt # 0 /\ lockAt < btcTip /\ leg \notin {"absent", "mempool"}

Typed == TypeOK /\ pc \in [Driver -> LiveSteps \cup SheetSteps \cup {"off"}]

IInv ==
    /\ Typed /\ AbsentInv /\ IntentInv /\ CopyInv /\ EndInv /\ KeptInv
    /\ BuriedInv /\ AnnouncedIsCovered

-----------------------------------------------------------------------------
(* What the operators of the module do. *)

\* No record is a record without step, intent, transaction or secret.
LEMMA NoRecIsEmpty ==
  /\ NoRec \in Rec /\ NoRec.step = "none"
  /\ ~NoRec.attempted /\ ~NoRec.txid /\ ~NoRec.pre /\ ~HasLeg(NoRec)
  BY DEF NoRec, Rec, Steps, HasLeg

\* A move concerns one driver, which holds the record unless it has ended.
LEMMA MoveEffect ==
  ASSUME Typed, NEW d \in Driver, NEW r \in Rec, NEW s \in LiveSteps \cup SheetSteps \cup {"off"}, Move(d, r, s)
  PROVE  /\ pc' \in [Driver -> LiveSteps \cup SheetSteps \cup {"off"}] /\ copy' \in [Driver -> Rec]
         /\ pc'[d] = s /\ copy'[d] \in {r, NoRec} /\ (s # "off" => copy'[d] = r)
         /\ \A e \in Driver : e # d => pc'[e] = pc[e] /\ copy'[e] = copy[e]
  BY NoRecIsEmpty DEF Typed, TypeOK, Move

\* A save writes the record or, when it throws, nothing; the driver holds it either way.
LEMMA SaveEffect ==
  ASSUME Typed, NEW d \in Driver, NEW r \in Rec, NEW s \in LiveSteps \cup SheetSteps \cup {"off"}, Save(d, r, s)
  PROVE  /\ saved' \in {saved, r} /\ saved' \in Rec
         /\ pc' \in [Driver -> LiveSteps \cup SheetSteps \cup {"off"}] /\ copy' \in [Driver -> Rec]
         /\ pc'[d] \in {s, Stopped(d)} /\ (saved' # r => pc'[d] = Stopped(d))
         /\ copy'[d] \in {r, NoRec} /\ (pc'[d] # "off" => copy'[d] = r)
         /\ \A e \in Driver : e # d => pc'[e] = pc[e] /\ copy'[e] = copy[e]
  <1>1. Stopped(d) \in LiveSteps \cup SheetSteps \cup {"off"}
    BY DEF Stopped, SheetSteps
  <1>2. CASE saved' = r /\ Move(d, r, s)
    BY <1>2, MoveEffect
  <1>3. CASE UNCHANGED saved /\ Move(d, r, Stopped(d))
    BY <1>1, <1>3, MoveEffect DEF Typed, TypeOK
  <1>4. QED
    BY <1>2, <1>3 DEF Save

\* The only record a save or a move adds is the one it is given.
LEMMA SaveHeld ==
  ASSUME Typed, NEW d \in Driver, NEW r \in Rec, NEW s \in LiveSteps \cup SheetSteps \cup {"off"},
         Save(d, r, s) \/ (Move(d, r, s) /\ UNCHANGED saved)
  PROVE  \A x \in Rec : Held(x)' => Held(x) \/ x = r \/ x = NoRec
  BY SaveEffect, MoveEffect DEF Held, Driver

\* The types at the initial state.
LEMMA InitInv == Init => IInv
  <1> SUFFICES ASSUME Init PROVE IInv
    OBVIOUS
  <1> USE XrConstants, NoRecIsEmpty DEF Init, Driver
  <1>1. Typed
    <2>1. {revealed, announced, claimSent, refundSent} \subseteq BOOLEAN
      OBVIOUS
    <2>2. pc \in [Driver -> LiveSteps \cup SheetSteps \cup {"off"}] /\ copy \in [Driver -> Rec] /\ saved \in Rec
      OBVIOUS
    <2>3. QED
      BY <2>1, <2>2 DEF Typed, TypeOK
  <1>2. AbsentInv /\ IntentInv /\ CopyInv
    BY DEF AbsentInv, IntentInv, CopyInv, Held, PreFund, TailSteps
  <1>3. EndInv /\ KeptInv /\ BuriedInv /\ AnnouncedIsCovered
    BY DEF EndInv, KeptInv, BuriedInv, AnnouncedIsCovered, Held
  <1>4. QED
    BY <1>1, <1>2, <1>3 DEF IInv

-----------------------------------------------------------------------------
(* Types. *)

\* The flags are Booleans.
LEMMA Flags ==
  TypeOK <=>
    /\ btcTip \in 0 .. MaxBtc /\ lockAt \in 0 .. btcTip /\ anchor \in 0 .. btcTip
    /\ tip \in 0 .. TSeq /\ legAnchor \in 0 .. MaxBtc /\ seen \in 0 .. MaxBtc
    /\ leg \in {"absent", "mempool", "mined", "claimed", "refunded"}
    /\ revealed \in BOOLEAN /\ announced \in BOOLEAN /\ claimSent \in BOOLEAN /\ refundSent \in BOOLEAN
    /\ saved \in Rec /\ copy \in [Driver -> Rec]
    /\ pc["live"] \in LiveSteps \cup {"off"} /\ pc["sheet"] \in SheetSteps \cup {"off"}
  BY DEF TypeOK

\* A driver that moves or saves, and flags that stay flags, keep the types.
LEMMA DriverTyped ==
  ASSUME Typed, NEW d \in Driver, NEW r \in Rec, NEW s,
         Save(d, r, s) \/ (Move(d, r, s) /\ UNCHANGED saved),
         s \in IF d = "live" THEN LiveSteps \cup {"off"} ELSE SheetSteps \cup {"off"},
         UNCHANGED <<btcTip, lockAt, anchor, tip, legAnchor>>,
         leg' \in {leg, "mempool"}, seen' \in {seen, lockAt},
         revealed' \in {revealed, TRUE}, announced' \in {announced, TRUE},
         claimSent' \in {claimSent, TRUE}, refundSent' \in {refundSent, TRUE}
  PROVE  Typed'
  <1>1. s \in LiveSteps \cup SheetSteps \cup {"off"}
    OBVIOUS
  <1>2. /\ saved' \in Rec /\ copy' \in [Driver -> Rec]
        /\ pc' \in [Driver -> LiveSteps \cup SheetSteps \cup {"off"}]
        /\ pc'[d] \in {s, Stopped(d)} /\ \A e \in Driver : e # d => pc'[e] = pc[e]
    BY <1>1, SaveEffect, MoveEffect DEF Typed, TypeOK
  <1>3. TypeOK
    BY DEF Typed
  <1>4. btcTip' \in 0 .. MaxBtc /\ lockAt' \in 0 .. btcTip' /\ anchor' \in 0 .. btcTip'
        /\ tip' \in 0 .. TSeq /\ legAnchor' \in 0 .. MaxBtc /\ seen' \in 0 .. MaxBtc
    BY <1>3, Flags, XrConstants
  <1>5. leg' \in {"absent", "mempool", "mined", "claimed", "refunded"}
    BY <1>3, Flags
  <1>6. revealed' \in BOOLEAN /\ announced' \in BOOLEAN /\ claimSent' \in BOOLEAN /\ refundSent' \in BOOLEAN
    BY <1>3, Flags
  <1>7. pc'["live"] \in LiveSteps \cup {"off"} /\ pc'["sheet"] \in SheetSteps \cup {"off"}
    BY <1>2, <1>3 DEF Driver, Stopped, SheetSteps, TypeOK
  <1>8. TypeOK'
    BY <1>2, <1>4, <1>5, <1>6, <1>7 DEF TypeOK
  <1>9. QED
    BY <1>2, <1>8 DEF Typed

\* Every step keeps the types.
LEMMA TypeStep == ASSUME Typed, [Next]_vars PROVE Typed'
  <1> USE XrConstants DEF Driver
  <1>c. saved \in Rec /\ \A d \in Driver : copy[d] \in Rec
    BY DEF Typed, TypeOK
  <1>n. NoRec \in Rec
    BY NoRecIsEmpty
  <1> DEFINE Kept == UNCHANGED <<bitcoin, sequence, wire, seen>>
  <1>s. ASSUME NEW d \in Driver, NEW r \in Rec, NEW s,
               Save(d, r, s) \/ (Move(d, r, s) /\ UNCHANGED saved), Kept,
               s \in IF d = "live" THEN LiveSteps \cup {"off"} ELSE SheetSteps \cup {"off"}
        PROVE  Typed'
    BY <1>s, DriverTyped DEF bitcoin, sequence, wire
  <1>1. CASE Begin
    <2>1. [NoRec EXCEPT !.step = "btcLocked"] \in Rec
      BY <1>n DEF Rec, Steps
    <2>2. QED
      BY <1>1, <2>1, <1>s DEF Begin, LiveSteps, PreFund
  <1>2. CASE BtcConf
    <2>1. [copy["live"] EXCEPT !.step = "btcConfirmed"] \in Rec
      BY <1>c DEF Rec, Steps
    <2>2. QED
      BY <1>2, <2>1, DriverTyped DEF BtcConf, LiveSteps, PreFund, bitcoin, sequence, wire
  <1>3. CASE AnchorWait
    BY <1>3, <1>c, <1>s DEF AnchorWait, Goto, LiveSteps, PreFund
  <1>4. CASE Reverify
    <2>1. [copy["live"] EXCEPT !.step = "seqFunding"] \in Rec
      BY <1>c DEF Rec, Steps
    <2>2. QED
      BY <1>4, <2>1, <1>s DEF Reverify, LiveSteps
  <1>5. CASE Abort
    <2>1. [copy["live"] EXCEPT !.step = "failed"] \in Rec
      BY <1>c DEF Rec, Steps
    <2>2. QED
      BY <1>5, <2>1, <1>s DEF Abort
  <1>6. CASE AboutToBroadcast
    <2>1. [copy["live"] EXCEPT !.attempted = TRUE] \in Rec
      BY <1>c DEF Rec, Steps
    <2>2. QED
      BY <1>6, <2>1, <1>s DEF AboutToBroadcast, LiveSteps
  <1>7. CASE Broadcast
    BY <1>7, <1>c, DriverTyped DEF Broadcast, Goto, LiveSteps, bitcoin, wire
  <1>8. CASE SaveTxid
    <2>1. [copy["live"] EXCEPT !.txid = TRUE] \in Rec
      BY <1>c DEF Rec, Steps
    <2>2. QED
      BY <1>8, <2>1, <1>s DEF SaveTxid, LiveSteps, TailSteps
  <1>9. ASSUME NEW d \in Driver, Confirm(d) PROVE Typed'
    <2>1. [copy[d] EXCEPT !.step = "seqFunded"] \in Rec
      BY <1>c DEF Rec, Steps
    <2>2. QED
      BY <1>9, <2>1, <1>s DEF Confirm, LiveSteps, SheetSteps, TailSteps
  <1>10. CASE Announce
    BY <1>10, <1>c, DriverTyped DEF Announce, Goto, LiveSteps, bitcoin, sequence
  <1>11. CASE Withhold
    BY <1>11, <1>c, <1>s DEF Withhold
  <1>12. CASE Hint
    <2>1. CASE UNCHANGED saved
      BY <1>12, <2>1, <1>c, <1>s DEF Hint, Goto, LiveSteps
    <2>2. CASE saved' = [copy["live"] EXCEPT !.pre = TRUE]
      <3>1. saved' \in Rec
        BY <2>2, <1>c DEF Rec, Steps
      <3>2. Move("live", copy["live"], "reload") /\ "reload" \in LiveSteps /\ Kept
        BY <1>12 DEF Hint, Goto, LiveSteps
      <3>3. /\ copy' \in [Driver -> Rec] /\ pc' \in [Driver -> LiveSteps \cup SheetSteps \cup {"off"}]
            /\ pc'["live"] = "reload" /\ pc'["sheet"] = pc["sheet"]
        BY <3>2, <1>c, MoveEffect
      <3>4. QED
        BY <3>1, <3>2, <3>3 DEF Typed, TypeOK, bitcoin, sequence, wire
    <2>3. QED
      BY <1>12, <2>1, <2>2 DEF Hint
  <1>13. CASE Reload
    BY <1>13, <1>c, <1>s DEF Reload, LiveSteps, TailSteps
  <1>14. ASSUME NEW d \in Driver, Learn(d) PROVE Typed'
    <2>1. [copy[d] EXCEPT !.pre = TRUE, !.step = "secretRevealed"] \in Rec
      BY <1>c DEF Rec, Steps
    <2>2. QED
      BY <1>14, <2>1, <1>s DEF Learn, LiveSteps, SheetSteps, TailSteps
  <1>15. ASSUME NEW d \in Driver, Claim(d) PROVE Typed'
    BY <1>15, <1>c, DriverTyped DEF Claim, Goto, LiveSteps, SheetSteps, TailSteps, bitcoin, sequence
  <1>16. ASSUME NEW d \in Driver, SaveClaimed(d) PROVE Typed'
    <2>1. [copy[d] EXCEPT !.step = "btcClaimed"] \in Rec
      BY <1>c DEF Rec, Steps
    <2>2. QED
      BY <1>16, <2>1, <1>s DEF SaveClaimed
  <1>17. ASSUME NEW d \in Driver, Throws(d) PROVE Typed'
    BY <1>17, <1>c, <1>s DEF Throws, Goto, Stopped, SheetSteps
  <1>18. CASE OpenSheet
    BY <1>18, <1>c, <1>s DEF OpenSheet, SheetSteps
  <1>19. CASE CloseSheet
    BY <1>19, <1>c, <1>s DEF CloseSheet, Goto
  <1>20. CASE Resume
    BY <1>20, <1>c, <1>s DEF Resume, Goto, SheetSteps, TailSteps
  <1>21. CASE ScanFinds
    <2>1. [copy["sheet"] EXCEPT !.txid = TRUE] \in Rec
      BY <1>c DEF Rec, Steps
    <2>2. QED
      BY <1>21, <2>1, <1>s DEF ScanFinds, SheetSteps, TailSteps
  <1>22. CASE Refund
    BY <1>22, <1>c, DriverTyped DEF Refund, Goto, SheetSteps, bitcoin, sequence
  <1>23. CASE SaveRefunded
    <2>1. [copy["sheet"] EXCEPT !.step = "refunded"] \in Rec
      BY <1>c DEF Rec, Steps
    <2>2. QED
      BY <1>23, <2>1, <1>s DEF SaveRefunded
  <1>24. CASE Abandon
    <2>1. /\ saved' \in Rec /\ copy' \in [Driver -> Rec]
          /\ pc' \in [Driver -> LiveSteps \cup SheetSteps \cup {"off"}]
          /\ pc'["sheet"] = "off" /\ pc'["live"] = pc["live"]
      BY <1>24, <1>c, <1>n, MoveEffect DEF Abandon, Goto
    <2>2. QED
      BY <1>24, <2>1 DEF Abandon, Typed, TypeOK, bitcoin, sequence, wire
  <1>25. CASE Crash
    <2>1. copy' \in [Driver -> Rec] /\ pc' \in [Driver -> {"off"}]
      BY <1>25, <1>n DEF Crash
    <2>2. QED
      BY <1>25, <2>1 DEF Crash, Typed, TypeOK, bitcoin, sequence, wire
  <1>26. CASE BtcBlock
    BY <1>26 DEF BtcBlock, Typed, TypeOK, sequence, wire, app
  <1>27. CASE BtcReorg
    BY <1>27 DEF BtcReorg, Typed, TypeOK, wire, app
  <1>28. CASE Anchor \/ Tick \/ MineFunding
    BY <1>28 DEF Anchor, Tick, MineFunding, Typed, TypeOK, bitcoin, wire, app
  <1>29. CASE MakerClaims
    <2>1. revealed' \in BOOLEAN /\ UNCHANGED <<announced, claimSent, refundSent>>
      BY <1>29 DEF MakerClaims
    <2>2. UNCHANGED <<bitcoin, sequence, app>>
      BY <1>29 DEF MakerClaims
    <2>3. TypeOK
      BY DEF Typed
    <2>4. TypeOK'
      BY <2>1, <2>2, <2>3, Flags DEF TypeOK, bitcoin, sequence, app
    <2>5. QED
      BY <2>2, <2>4 DEF Typed, app
  <1>30. CASE MineClaim \/ MineRefund
    BY <1>30 DEF MineClaim, MineRefund, Typed, TypeOK, bitcoin, wire, app
  <1>31. CASE UNCHANGED vars
    BY <1>31 DEF vars, Typed, TypeOK, bitcoin, sequence, wire, app
  <1>32. QED
    BY <1>1, <1>2, <1>3, <1>4, <1>5, <1>6, <1>7, <1>8, <1>9, <1>10, <1>11, <1>12, <1>13, <1>14,
       <1>15, <1>16, <1>17, <1>18, <1>19, <1>20, <1>21, <1>22, <1>23, <1>24, <1>25, <1>26, <1>27,
       <1>28, <1>29, <1>30, <1>31 DEF Next

-----------------------------------------------------------------------------
(* The record of the swap. *)

\* The leg is never absent again.
LEMMA LegStays == ASSUME [Next]_vars, leg' = "absent" PROVE leg = "absent"
  <1>1. CASE \/ Begin \/ BtcConf \/ AnchorWait \/ Reverify \/ Abort \/ AboutToBroadcast \/ Broadcast
             \/ SaveTxid \/ Announce \/ Withhold \/ Hint \/ Reload
    BY <1>1 DEF Begin, BtcConf, AnchorWait, Reverify, Abort, AboutToBroadcast, Broadcast, SaveTxid,
                Announce, Withhold, Hint, Reload, sequence
  <1>2. ASSUME NEW d \in Driver, Confirm(d) \/ Learn(d) \/ Claim(d) \/ SaveClaimed(d) \/ Throws(d)
        PROVE  leg = "absent"
    BY <1>2 DEF Confirm, Learn, Claim, SaveClaimed, Throws, sequence
  <1>3. CASE OpenSheet \/ CloseSheet \/ Resume \/ ScanFinds \/ Refund \/ SaveRefunded \/ Abandon
    BY <1>3 DEF OpenSheet, CloseSheet, Resume, ScanFinds, Refund, SaveRefunded, Abandon, sequence
  <1>4. CASE Crash \/ BtcBlock \/ BtcReorg \/ Anchor \/ Tick
    BY <1>4 DEF Crash, BtcBlock, BtcReorg, Anchor, Tick, sequence
  <1>5. CASE MineFunding \/ MakerClaims \/ MineClaim \/ MineRefund \/ UNCHANGED vars
    BY <1>5 DEF MineFunding, MakerClaims, MineClaim, MineRefund, vars, sequence
  <1>6. QED
    BY <1>1, <1>2, <1>3, <1>4, <1>5 DEF Next

\* A driver's step before the broadcast.
LEMMA DriverAbsent ==
  ASSUME Typed, AbsentInv, leg = "absent", UNCHANGED wire, NEW d \in Driver, NEW r \in Rec, NEW s,
         Save(d, r, s) \/ (Move(d, r, s) /\ UNCHANGED saved),
         s \in IF d = "live" THEN PreFund \cup {"off", "auth", "broadcast"} ELSE {"off", "sheet", "scan"},
         ~HasLeg(r) /\ ~r.txid /\ ~r.pre
  PROVE  AbsentInv'
  <1>1. s \in LiveSteps \cup SheetSteps \cup {"off"}
    BY DEF LiveSteps, SheetSteps
  <1>2. \A x \in Rec : Held(x)' => ~HasLeg(x) /\ ~x.txid /\ ~x.pre
    BY <1>1, SaveHeld, NoRecIsEmpty DEF AbsentInv
  <1>3. pc'[d] \in {s, Stopped(d)} /\ \A e \in Driver : e # d => pc'[e] = pc[e]
    BY <1>1, SaveEffect, MoveEffect
  <1>4. QED
    BY <1>2, <1>3 DEF AbsentInv, Driver, Stopped, wire

\* Every step keeps the time before the broadcast free of a leg.
LEMMA AbsentStep == ASSUME Typed, AbsentInv, Typed', [Next]_vars PROVE AbsentInv'
  <1> SUFFICES ASSUME leg' = "absent" PROVE AbsentInv'
    BY DEF AbsentInv
  <1>l. leg = "absent"
    BY LegStays
  <1> USE DEF Driver
  <1>c. saved \in Rec /\ \A d \in Driver : copy[d] \in Rec
    BY DEF Typed, TypeOK
  <1>h. \A x \in Rec : Held(x) => ~HasLeg(x) /\ ~x.txid /\ ~x.pre
    BY <1>l DEF AbsentInv
  <1>p. pc["live"] \in PreFund \cup {"off", "auth", "broadcast"} /\ pc["sheet"] \in {"off", "sheet", "scan"}
    BY <1>l DEF AbsentInv
  <1>m. ASSUME NEW d \in Driver, NEW r \in Rec, Held(r), NEW s, Move(d, r, s), UNCHANGED <<wire, saved>>,
               s \in IF d = "live" THEN PreFund \cup {"off", "auth", "broadcast"} ELSE {"off", "sheet", "scan"}
        PROVE  AbsentInv'
    BY <1>m, <1>l, <1>h, DriverAbsent
  <1>s. ASSUME NEW r \in Rec, NEW q \in Rec, Held(r) \/ r = NoRec, NEW s, Save("live", q, s), UNCHANGED wire,
               s \in PreFund \cup {"off", "auth", "broadcast"},
               q.step \in {r.step, "btcLocked", "btcConfirmed", "seqFunding", "failed"},
               q.txid = r.txid, q.pre = r.pre
        PROVE  AbsentInv'
    <2>1. ~HasLeg(r) /\ ~r.txid /\ ~r.pre
      BY <1>s, <1>h, NoRecIsEmpty
    <2>2. ~HasLeg(q) /\ ~q.txid /\ ~q.pre
      BY <1>s, <2>1 DEF HasLeg
    <2>3. QED
      BY <1>s, <1>l, <2>2, DriverAbsent
  <1>1. CASE Begin
    <2> DEFINE q == [NoRec EXCEPT !.step = "btcLocked"]
    <2>1. q \in Rec /\ q.step = "btcLocked" /\ q.txid = NoRec.txid /\ q.pre = NoRec.pre
      BY NoRecIsEmpty DEF Rec, Steps
    <2> HIDE DEF q
    <2>2. Save("live", q, "btcConf") /\ UNCHANGED wire
      BY <1>1 DEF Begin, q
    <2>3. QED
      BY <2>1, <2>2, <1>s, NoRecIsEmpty DEF PreFund
  <1>2. ASSUME NEW s, NEW t \in Steps, Save("live", [copy["live"] EXCEPT !.step = t], s), UNCHANGED wire,
               s \in PreFund \cup {"off", "auth", "broadcast"},
               t \in {"btcConfirmed", "seqFunding", "failed"}
        PROVE  AbsentInv'
    <2> DEFINE q == [copy["live"] EXCEPT !.step = t]
    <2>1. q \in Rec /\ q.step = t /\ q.txid = copy["live"].txid /\ q.pre = copy["live"].pre
      BY <1>c DEF Rec
    <2>2. Save("live", q, s)
      BY <1>2
    <2> HIDE DEF q
    <2>3. QED
      BY <1>2, <1>c, <2>1, <2>2, <1>s DEF Held
  <1>3. CASE BtcConf \/ Reverify \/ Abort
    BY <1>2, <1>3 DEF BtcConf, Reverify, Abort, PreFund, Steps
  <1>4. CASE AnchorWait
    BY <1>4, <1>c, <1>m DEF AnchorWait, Goto, Held, PreFund
  <1>5. CASE AboutToBroadcast
    <2> DEFINE q == [copy["live"] EXCEPT !.attempted = TRUE]
    <2>1. q \in Rec /\ q.step = copy["live"].step /\ q.txid = copy["live"].txid /\ q.pre = copy["live"].pre
      BY <1>c DEF Rec
    <2>2. Save("live", q, "broadcast") /\ UNCHANGED wire
      BY <1>5 DEF AboutToBroadcast
    <2> HIDE DEF q
    <2>3. QED
      BY <1>c, <2>1, <2>2, <1>s DEF Held
  <1>6. CASE Broadcast \/ SaveTxid \/ Announce \/ Withhold \/ Hint \/ Reload
    BY <1>6, <1>p DEF Broadcast, SaveTxid, Announce, Withhold, Hint, Reload, At, PreFund
  <1>7. ASSUME NEW d \in Driver, Confirm(d) \/ Learn(d) \/ Claim(d) \/ SaveClaimed(d) PROVE AbsentInv'
    BY <1>7, <1>p DEF Confirm, Learn, Claim, SaveClaimed, At, PreFund
  <1>8. ASSUME NEW d \in Driver, Throws(d) PROVE AbsentInv'
    BY <1>8, <1>c, <1>m DEF Throws, Goto, Stopped, Held
  <1>9. CASE OpenSheet \/ CloseSheet
    BY <1>9, <1>c, <1>m DEF OpenSheet, CloseSheet, Goto, Held
  <1>10. CASE Resume
    BY <1>10, <1>c, <1>h, <1>m DEF Resume, Goto, Held
  <1>11. CASE ScanFinds \/ Refund \/ SaveRefunded
    BY <1>11, <1>l, <1>p DEF ScanFinds, Refund, SaveRefunded, At
  <1>12. CASE Abandon
    <2>1. \A x \in Rec : Held(x)' => Held(x) \/ x = NoRec
      BY <1>12, <1>c, NoRecIsEmpty, MoveEffect DEF Abandon, Goto, Held
    <2>2. pc'["live"] = pc["live"] /\ pc'["sheet"] = "off"
      BY <1>12, <1>c, MoveEffect DEF Abandon, Goto
    <2>3. QED
      BY <1>12, <1>h, <1>l, <2>1, <2>2, NoRecIsEmpty DEF Abandon, AbsentInv, wire
  <1>13. CASE Crash
    <2>1. \A x \in Rec : Held(x)' => Held(x) \/ x = NoRec
      BY <1>13 DEF Crash, Held
    <2>2. QED
      BY <1>13, <1>h, <1>l, <2>1, NoRecIsEmpty DEF Crash, AbsentInv, wire
  <1>14. CASE BtcBlock \/ BtcReorg \/ Anchor \/ Tick \/ UNCHANGED vars
    BY <1>14, <1>l DEF BtcBlock, BtcReorg, Anchor, Tick, vars, wire, app, AbsentInv, Held
  <1>15. CASE MineFunding \/ MakerClaims \/ MineClaim \/ MineRefund
    BY <1>15, <1>l DEF MineFunding, MakerClaims, MineClaim, MineRefund
  <1>16. QED
    BY <1>1, <1>3, <1>4, <1>5, <1>6, <1>7, <1>8, <1>9, <1>10, <1>11, <1>12, <1>13, <1>14,
       <1>15 DEF Next

\* Every step keeps the intent ahead of the broadcast and of the sheet.
LEMMA IntentStep == ASSUME Typed, AbsentInv, IntentInv, Typed', AbsentInv', [Next]_vars PROVE IntentInv'
  <1> USE DEF Driver
  <1>c. saved \in Rec /\ \A d \in Driver : copy[d] \in Rec
    BY DEF Typed, TypeOK
  <1>h. ASSUME leg = "absent", NEW r \in Rec, Held(r) PROVE ~HasLeg(r) /\ ~r.txid /\ ~Terminal(r)
    BY <1>h DEF AbsentInv, HasLeg, Terminal
  <1>s. ASSUME NEW q \in Rec, NEW s \in PreFund \cup {"off", "auth"}, Save("live", q, s), ~q.attempted,
               ~saved.attempted, pc["sheet"] = "off", leg = "absent", leg' = leg
        PROVE  IntentInv'
    <2>1. s \in LiveSteps \cup SheetSteps \cup {"off"}
      BY DEF LiveSteps
    <2>2. /\ saved' \in {saved, q} /\ pc'["live"] \in {s, "off"} /\ pc'["sheet"] = "off"
          /\ (pc'["live"] # "off" => copy'["live"] = q)
      BY <1>s, <2>1, SaveEffect DEF Stopped
    <2>3. QED
      BY <1>s, <2>2 DEF IntentInv, PreFund
  <1>1. CASE Begin
    <2> DEFINE q == [NoRec EXCEPT !.step = "btcLocked"]
    <2>1. q \in Rec /\ ~q.attempted
      BY NoRecIsEmpty DEF Rec, Steps
    <2>2. Save("live", q, "btcConf") /\ ~saved.attempted /\ leg = "absent" /\ leg' = leg
      BY <1>1, NoRecIsEmpty DEF Begin, sequence
    <2>3. pc["sheet"] = "off"
      BY <2>2 DEF IntentInv
    <2> HIDE DEF q
    <2>4. QED
      BY <2>1, <2>2, <2>3, <1>s DEF PreFund
  <1>2. ASSUME NEW t \in Steps, NEW s \in PreFund \cup {"off", "auth"},
               Save("live", [copy["live"] EXCEPT !.step = t], s), pc["live"] \in PreFund, leg' = leg
        PROVE  IntentInv'
    <2> DEFINE q == [copy["live"] EXCEPT !.step = t]
    <2>1. q \in Rec /\ q.attempted = copy["live"].attempted
      BY <1>c DEF Rec
    <2>2. Save("live", q, s)
      BY <1>2
    <2> HIDE DEF q
    <2>3. QED
      BY <1>2, <2>1, <2>2, <1>s DEF IntentInv
  <1>3. CASE BtcConf \/ Reverify \/ Abort
    BY <1>2, <1>3 DEF BtcConf, Reverify, Abort, At, PreFund, Steps, sequence
  <1>m. ASSUME NEW d \in Driver, NEW r \in Rec, NEW s, Move(d, r, s), UNCHANGED <<saved, leg>>,
               d = "live" => s \in {"off", "reverify", "saveTxid", "hint", "settle", "reload", "saveClaimed"},
               d = "live" /\ s = "reverify" => pc["live"] = "anchor" /\ r = copy["live"],
               d = "sheet" => s \in SheetSteps \cup {"off"} /\ (pc["sheet"] # "off" \/ HoldsOrMightHoldAsset(saved))
        PROVE  IntentInv'
    <2>1. s \in LiveSteps \cup SheetSteps \cup {"off"}
      BY <1>m DEF LiveSteps, PreFund, TailSteps
    <2>2. pc'[d] = s /\ (s # "off" => copy'[d] = r)
          /\ \A e \in Driver : e # d => pc'[e] = pc[e] /\ copy'[e] = copy[e]
      BY <1>m, <2>1, MoveEffect
    <2>3. HoldsOrMightHoldAsset(saved) /\ leg = "absent" => saved.attempted
      BY <1>c, <1>h DEF HoldsOrMightHoldAsset, Held
    <2>4. CASE d = "live"
      BY <1>m, <2>2, <2>4 DEF IntentInv, PreFund
    <2>5. CASE d = "sheet"
      <3>1. pc["live"] \in PreFund \cup {"auth"} => FALSE
        BY <1>m, <2>3, <2>5 DEF IntentInv
      <3>2. QED
        BY <1>m, <2>2, <2>3, <2>5, <3>1 DEF IntentInv
    <2>6. QED
      BY <2>4, <2>5
  <1>4. CASE AnchorWait
    BY <1>4, <1>c, <1>m DEF AnchorWait, Goto, At, sequence
  <1>5. CASE AboutToBroadcast
    <2> DEFINE q == [copy["live"] EXCEPT !.attempted = TRUE]
    <2>1. q \in Rec /\ q.attempted
      BY <1>c DEF Rec
    <2>2. Save("live", q, "broadcast") /\ leg = "absent" /\ leg' = leg /\ pc["sheet"] = "off"
      BY <1>5 DEF AboutToBroadcast, At, IntentInv, sequence
    <2> HIDE DEF q
    <2>3. "broadcast" \in LiveSteps
      BY DEF LiveSteps
    <2>4. /\ pc'["live"] \in {"broadcast", "off"} /\ pc'["sheet"] = "off"
          /\ (saved' # q => pc'["live"] = "off")
      BY <2>1, <2>2, <2>3, SaveEffect DEF Stopped
    <2>5. QED
      BY <2>1, <2>2, <2>4 DEF IntentInv, PreFund
  <1>6. CASE Broadcast
    <2>1. "saveTxid" \in LiveSteps
      BY DEF LiveSteps
    <2>2. pc'["live"] = "saveTxid" /\ pc'["sheet"] = pc["sheet"] /\ leg' = "mempool"
      BY <1>6, <1>c, <2>1, MoveEffect DEF Broadcast, Goto
    <2>3. QED
      BY <2>2 DEF IntentInv, PreFund
  <1>a. ASSUME NEW d \in Driver, NEW q \in Rec, NEW s, Save(d, q, s), leg # "absent", leg' = leg,
               s \in IF d = "live" THEN TailSteps \cup {"legAnchor", "off"} ELSE SheetSteps \cup {"off"}
        PROVE  IntentInv'
    <2>1. s \in LiveSteps \cup SheetSteps \cup {"off"}
      BY <1>a DEF LiveSteps, SheetSteps
    <2>2. pc'[d] \in {s, Stopped(d)} /\ \A e \in Driver : e # d => pc'[e] = pc[e]
      BY <1>a, <2>1, SaveEffect
    <2>3. QED
      BY <1>a, <2>2 DEF IntentInv, PreFund, TailSteps, Stopped
  <1>7. CASE SaveTxid \/ Withhold
    <2>1. leg # "absent" /\ leg' = leg
      BY <1>7 DEF SaveTxid, Withhold, At, AbsentInv, PreFund, sequence
    <2>2. [copy["live"] EXCEPT !.txid = TRUE] \in Rec
      BY <1>c DEF Rec
    <2>3. QED
      BY <1>7, <1>c, <2>1, <2>2, <1>a DEF SaveTxid, Withhold, TailSteps
  <1>8. ASSUME NEW d \in Driver, Confirm(d) \/ Learn(d) \/ SaveClaimed(d) PROVE IntentInv'
    <2>1. leg # "absent" /\ leg' = leg
      BY <1>8 DEF Confirm, Learn, SaveClaimed, At, AbsentInv, PreFund, sequence
    <2>2. /\ [copy[d] EXCEPT !.step = "seqFunded"] \in Rec
          /\ [copy[d] EXCEPT !.pre = TRUE, !.step = "secretRevealed"] \in Rec
          /\ [copy[d] EXCEPT !.step = "btcClaimed"] \in Rec
      BY <1>c DEF Rec, Steps
    <2>3. CASE Confirm(d) \/ SaveClaimed(d)
      BY <2>1, <2>2, <2>3, <1>a DEF Confirm, SaveClaimed, TailSteps, SheetSteps
    <2>4. CASE Learn(d)
      <3> DEFINE q == [copy[d] EXCEPT !.pre = TRUE, !.step = "secretRevealed"]
      <3>1. Save(d, q, "claim") \/ (Move(d, q, "claim") /\ UNCHANGED saved)
        BY <2>4 DEF Learn
      <3>2. "claim" \in LiveSteps /\ "claim" \in SheetSteps /\ "claim" \notin PreFund \cup {"auth", "broadcast"}
        BY DEF LiveSteps, SheetSteps, TailSteps, PreFund
      <3>3. q \in Rec
        BY <2>2
      <3> HIDE DEF q
      <3>4. CASE Save(d, q, "claim")
        <4>1. "claim" \in IF d = "live" THEN TailSteps \cup {"legAnchor", "off"} ELSE SheetSteps \cup {"off"}
          BY <3>2 DEF TailSteps
        <4>2. QED
          BY <2>1, <3>3, <3>4, <4>1, <1>a
      <3>5. CASE Move(d, q, "claim") /\ UNCHANGED saved
        <4>1. pc'[d] = "claim" /\ \A e \in Driver : e # d => pc'[e] = pc[e] /\ copy'[e] = copy[e]
          BY <3>2, <3>3, <3>5, MoveEffect
        <4>2. pc'["live"] \in PreFund \cup {"auth", "broadcast"} => pc'["live"] = pc["live"]
          BY <3>2, <4>1
        <4>3. QED
          BY <2>1, <4>2 DEF IntentInv
      <3>6. QED
        BY <3>1, <3>4, <3>5
    <2>5. QED
      BY <1>8, <2>3, <2>4
  <1>9. CASE Announce \/ Reload
    BY <1>9, <1>c, <1>m DEF Announce, Reload, Goto, sequence
  <1>10. CASE Hint
    <2>1. leg' # "absent" /\ Move("live", copy["live"], "reload") /\ "reload" \in LiveSteps
      BY <1>10 DEF Hint, Goto, At, AbsentInv, PreFund, sequence, LiveSteps
    <2>2. pc'["live"] = "reload"
      BY <2>1, <1>c, MoveEffect
    <2>3. QED
      BY <2>1, <2>2 DEF IntentInv, PreFund
  <1>11. ASSUME NEW d \in Driver, Claim(d) PROVE IntentInv'
    <2>1. pc[d] # "off" /\ "saveClaimed" \in SheetSteps
      BY <1>11 DEF Claim, At, SheetSteps, TailSteps
    <2>2. QED
      BY <1>11, <2>1, <1>c, <1>m DEF Claim, Goto, sequence
  <1>12. ASSUME NEW d \in Driver, Throws(d) PROVE IntentInv'
    BY <1>12, <1>c, <1>m DEF Throws, Goto, Stopped, SheetSteps, sequence
  <1>13. CASE OpenSheet \/ CloseSheet \/ Resume \/ Refund
    <2>1. {"sheet", "settle", "confirm", "scan", "saveRefunded"} \subseteq SheetSteps
      BY DEF SheetSteps, TailSteps
    <2>2. QED
      BY <1>13, <2>1, <1>c, <1>m DEF OpenSheet, CloseSheet, Resume, Refund, Goto, At, sequence
  <1>14. CASE ScanFinds \/ SaveRefunded
    <2>1. leg # "absent" /\ leg' = leg
      BY <1>14 DEF ScanFinds, SaveRefunded, At, AbsentInv, sequence
    <2>2. /\ [copy["sheet"] EXCEPT !.txid = TRUE] \in Rec
          /\ [copy["sheet"] EXCEPT !.step = "refunded"] \in Rec
      BY <1>c DEF Rec, Steps
    <2>3. QED
      BY <1>14, <2>1, <2>2, <1>a DEF ScanFinds, SaveRefunded, TailSteps, SheetSteps
  <1>15. CASE Abandon
    <2>1. leg = "absent" => FALSE
      BY <1>15, <1>c, <1>h DEF Abandon, At, IntentInv, HoldsOrMightHoldAsset, Held
    <2>2. leg' = leg /\ pc'["live"] = pc["live"] /\ pc'["sheet"] = "off"
      BY <1>15, <1>c, MoveEffect DEF Abandon, Goto, sequence
    <2>3. QED
      BY <2>1, <2>2 DEF IntentInv
  <1>16. CASE Crash
    BY <1>16 DEF Crash, IntentInv, PreFund
  <1>17. CASE \/ BtcBlock \/ BtcReorg \/ Anchor \/ Tick \/ MineFunding \/ MakerClaims \/ MineClaim
              \/ MineRefund \/ UNCHANGED vars
    <2>1. UNCHANGED app /\ (leg' = "absent" <=> leg = "absent")
      BY <1>17 DEF BtcBlock, BtcReorg, Anchor, Tick, MineFunding, MakerClaims, MineClaim, MineRefund,
                   vars, sequence
    <2>2. QED
      BY <2>1 DEF IntentInv, app
  <1>18. QED
    BY <1>1, <1>3, <1>4, <1>5, <1>6, <1>7, <1>8, <1>9, <1>10, <1>11, <1>12, <1>13, <1>14,
       <1>15, <1>16, <1>17 DEF Next

\* A driver's step keeps the records when the one it writes or holds is sound: it has the
\* intent if it needs it, and does not end a swap that has not ended.
LEMMA DriverKeeps ==
  ASSUME Typed, CopyInv, EndInv, KeptInv, NEW d \in Driver, NEW q \in Rec,
         NEW s \in LiveSteps \cup SheetSteps \cup {"off"},
         Save(d, q, s) \/ (Move(d, q, s) /\ UNCHANGED saved),
         claimSent => claimSent', refundSent => refundSent',
         q.step = "btcClaimed" => claimSent', q.step = "refunded" => refundSent',
         HasLeg(q) \/ q.txid => q.attempted,
         d = "sheet" \/ s \in TailSteps \cup {"broadcast", "saveTxid", "legAnchor", "hint"} => q.attempted,
         s = "saveClaimed" => claimSent', s = "saveRefunded" => refundSent',
         leg' = "absent" \/ q.attempted \/ UNCHANGED saved,
         leg' = "absent" \/ leg # "absent" \/ saved.attempted
  PROVE  CopyInv' /\ EndInv' /\ KeptInv'
  <1> USE DEF Driver
  <1>1. \A x \in Rec : Held(x)' => Held(x) \/ x = q \/ x = NoRec
    BY SaveHeld
  <1>2. /\ pc'[d] \in {s, Stopped(d)} /\ saved' \in {saved, q} /\ (pc'[d] # "off" => copy'[d] = q)
        /\ \A e \in Driver : e # d => pc'[e] = pc[e] /\ copy'[e] = copy[e]
    BY SaveEffect, MoveEffect
  <1>3. CopyInv'
    <2>1. \A x \in Rec : Held(x)' /\ (HasLeg(x) \/ x.txid) => x.attempted
      BY <1>1, NoRecIsEmpty DEF CopyInv
    <2>2. pc'["sheet"] # "off" => copy'["sheet"].attempted
      BY <1>2 DEF CopyInv
    <2>3. pc'["live"] \in TailSteps \cup {"broadcast", "saveTxid", "legAnchor", "hint"} => copy'["live"].attempted
      BY <1>2 DEF CopyInv, Stopped, TailSteps
    <2>4. QED
      BY <2>1, <2>2, <2>3 DEF CopyInv
  <1>4. EndInv'
    <2>1. \A x \in Rec : Held(x)' => (x.step = "btcClaimed" => claimSent') /\ (x.step = "refunded" => refundSent')
      BY <1>1, NoRecIsEmpty DEF EndInv
    <2>2. QED
      BY <1>2, <2>1 DEF EndInv, Stopped
  <1>5. KeptInv'
    BY <1>2 DEF KeptInv
  <1>6. QED
    BY <1>3, <1>4, <1>5

\* Every step keeps the records: with the intent where a leg is worked on, true about the end,
\* and in the store while the asset is out.
LEMMA RecordsStep ==
  ASSUME Typed, AbsentInv, IntentInv, CopyInv, EndInv, KeptInv, [Next]_vars
  PROVE  CopyInv' /\ EndInv' /\ KeptInv'
  <1> USE DEF Driver
  <1> DEFINE Goal == CopyInv' /\ EndInv' /\ KeptInv'
             Late == TailSteps \cup {"broadcast", "saveTxid", "legAnchor", "hint"}
  <1>c. saved \in Rec /\ \A d \in Driver : copy[d] \in Rec
    BY DEF Typed, TypeOK
  <1>h. \A d \in Driver :
           /\ HasLeg(copy[d]) \/ copy[d].txid => copy[d].attempted
           /\ copy[d].step = "btcClaimed" => claimSent
           /\ copy[d].step = "refunded" => refundSent
    BY <1>c DEF CopyInv, EndInv, Held
  <1>t. "off" \in LiveSteps \cup SheetSteps \cup {"off"} /\ Late \subseteq LiveSteps
        /\ PreFund \cup {"auth", "reload"} \subseteq LiveSteps
        /\ {"sheet", "scan", "confirm", "settle", "claim", "saveClaimed", "saveRefunded"} \subseteq SheetSteps
    BY DEF LiveSteps, SheetSteps, TailSteps
  <1>p. ASSUME NEW q \in Rec, NEW s \in PreFund \cup {"off", "auth"}, Save("live", q, s),
               q.step \in {"btcLocked", "btcConfirmed", "seqFunding", "failed"}, ~q.txid,
               UNCHANGED <<leg, wire>>, leg = "absent"
        PROVE  Goal
    <2>1. ~HasLeg(q) /\ q.step \notin {"btcClaimed", "refunded"}
      BY <1>p DEF HasLeg
    <2>2. s \in LiveSteps \cup SheetSteps \cup {"off"} /\ s \notin Late /\ s \notin {"saveClaimed", "saveRefunded"}
      BY <1>t DEF PreFund, TailSteps
    <2>3. QED
      BY <1>p, <2>1, <2>2, DriverKeeps DEF wire
  <1>1. CASE Begin
    <2> DEFINE q == [NoRec EXCEPT !.step = "btcLocked"]
    <2>1. q \in Rec /\ ~q.txid /\ q.step = "btcLocked"
      BY NoRecIsEmpty DEF Rec, Steps
    <2>2. Save("live", q, "btcConf") /\ leg = "absent" /\ UNCHANGED <<leg, wire>>
      BY <1>1 DEF Begin, sequence
    <2> HIDE DEF q
    <2>3. QED
      BY <2>1, <2>2, <1>p DEF PreFund
  <1>2. ASSUME NEW t \in Steps, NEW s \in PreFund \cup {"off", "auth"},
               Save("live", [copy["live"] EXCEPT !.step = t], s), pc["live"] \in PreFund,
               UNCHANGED <<leg, wire>>, t \in {"btcConfirmed", "seqFunding", "failed"}
        PROVE  Goal
    <2> DEFINE q == [copy["live"] EXCEPT !.step = t]
    <2>1. q \in Rec /\ q.txid = copy["live"].txid /\ q.step = t
      BY <1>c DEF Rec
    <2>2. leg = "absent" /\ ~copy["live"].txid
      BY <1>2, <1>c DEF IntentInv, AbsentInv, Held
    <2>3. Save("live", q, s)
      BY <1>2
    <2> HIDE DEF q
    <2>4. QED
      BY <1>2, <2>1, <2>2, <2>3, <1>p
  <1>3. CASE BtcConf \/ Reverify \/ Abort
    BY <1>2, <1>3 DEF BtcConf, Reverify, Abort, At, PreFund, Steps, sequence
  <1>4. CASE AnchorWait
    <2>1. "reverify" \in LiveSteps /\ "reverify" \notin Late
      BY <1>t DEF PreFund, TailSteps
    <2>2. QED
      BY <1>4, <1>c, <1>h, <2>1, DriverKeeps DEF AnchorWait, Goto, sequence, wire
  <1>a. ASSUME NEW d \in Driver, NEW q \in Rec, NEW s \in Late \cup SheetSteps \cup {"off"}, Save(d, q, s),
               q.attempted, q.step \in {"btcClaimed", "refunded"} => q.step = copy[d].step,
               s \notin {"saveClaimed", "saveRefunded"}, UNCHANGED <<leg, wire>>
        PROVE  Goal
    <2>1. s \in LiveSteps \cup SheetSteps \cup {"off"}
      BY <1>t
    <2>2. (q.step = "btcClaimed" => claimSent) /\ (q.step = "refunded" => refundSent)
      BY <1>a, <1>h
    <2>3. QED
      BY <1>a, <2>1, <2>2, DriverKeeps DEF wire
  <1>5. CASE AboutToBroadcast
    <2> DEFINE q == [copy["live"] EXCEPT !.attempted = TRUE]
    <2>1. q \in Rec /\ q.attempted /\ q.step = copy["live"].step
      BY <1>c DEF Rec
    <2>2. Save("live", q, "broadcast") /\ UNCHANGED <<leg, wire>>
      BY <1>5 DEF AboutToBroadcast, sequence
    <2> HIDE DEF q
    <2>3. QED
      BY <2>1, <2>2, <1>a DEF TailSteps
  <1>6. CASE Broadcast
    <2>1. saved.attempted /\ copy["live"].attempted /\ "saveTxid" \in LiveSteps
      BY <1>6, <1>t DEF Broadcast, At, IntentInv, CopyInv
    <2>2. QED
      BY <1>6, <1>c, <1>h, <2>1, DriverKeeps DEF Broadcast, Goto, wire
  <1>7. CASE SaveTxid
    <2> DEFINE q == [copy["live"] EXCEPT !.txid = TRUE]
    <2>1. q \in Rec /\ q.attempted = copy["live"].attempted /\ q.step = copy["live"].step
      BY <1>c DEF Rec
    <2>2. Save("live", q, "confirm") /\ UNCHANGED <<leg, wire>> /\ copy["live"].attempted
      BY <1>7 DEF SaveTxid, sequence, At, CopyInv
    <2> HIDE DEF q
    <2>3. QED
      BY <2>1, <2>2, <1>a DEF TailSteps
  <1>8. ASSUME NEW d \in Driver, Confirm(d) PROVE Goal
    <2> DEFINE q == [copy[d] EXCEPT !.step = "seqFunded"]
    <2>1. q \in Rec /\ q.attempted = copy[d].attempted /\ q.step = "seqFunded"
      BY <1>c DEF Rec, Steps
    <2>2. Save(d, q, IF d = "live" THEN "legAnchor" ELSE "settle") /\ UNCHANGED <<leg, wire>>
      BY <1>8 DEF Confirm, sequence
    <2>3. copy[d].attempted
      BY <1>8 DEF Confirm, At, CopyInv, TailSteps
    <2> HIDE DEF q
    <2>4. QED
      BY <2>1, <2>2, <2>3, <1>a, <1>t
  <1>9. CASE Announce
    <2>1. copy["live"].attempted /\ "hint" \in LiveSteps
      BY <1>9, <1>t DEF Announce, At, CopyInv
    <2>2. QED
      BY <1>9, <1>c, <1>h, <2>1, DriverKeeps DEF Announce, Goto, sequence
  <1>10. CASE Withhold
    <2>1. copy["live"].attempted
      BY <1>10 DEF Withhold, At, CopyInv
    <2>2. QED
      BY <1>10, <1>c, <2>1, <1>a DEF Withhold, sequence
  <1>11. CASE Hint
    <2>1. copy["live"].attempted
      BY <1>11 DEF Hint, At, CopyInv
    <2>2. Move("live", copy["live"], "reload") /\ "reload" \in LiveSteps \cup SheetSteps \cup {"off"} /\ UNCHANGED <<leg, wire>>
      BY <1>11, <1>t DEF Hint, Goto, sequence
    <2>3. CASE UNCHANGED saved
      BY <1>c, <1>h, <2>1, <2>2, <2>3, DriverKeeps DEF wire
    <2>4. CASE saved' = [copy["live"] EXCEPT !.pre = TRUE]
      <3>1. saved' \in Rec /\ saved'.attempted /\ saved'.step = copy["live"].step
        BY <2>1, <2>4, <1>c DEF Rec
      <3>2. pc'["live"] = "reload" /\ pc'["sheet"] = pc["sheet"]
            /\ copy'["live"] = copy["live"] /\ copy'["sheet"] = copy["sheet"]
        BY <1>c, <2>2, MoveEffect
      <3>3. CopyInv'
        BY <3>1, <3>2 DEF CopyInv, Held, TailSteps
      <3>4. EndInv'
        BY <1>h, <2>2, <3>1, <3>2 DEF EndInv, Held, wire
      <3>5. KeptInv'
        BY <3>1 DEF KeptInv
      <3>6. QED
        BY <3>3, <3>4, <3>5
    <2>5. QED
      BY <1>11, <2>3, <2>4 DEF Hint
  <1>12. CASE Reload
    <2>1. (HasLeg(saved) \/ saved.txid => saved.attempted)
          /\ (saved.step = "btcClaimed" => claimSent) /\ (saved.step = "refunded" => refundSent)
      BY <1>c DEF CopyInv, EndInv, Held
    <2>2. QED
      BY <1>12, <1>c, <1>t, <2>1, DriverKeeps DEF Reload, sequence, wire, TailSteps
  <1>13. ASSUME NEW d \in Driver, Learn(d) PROVE Goal
    <2> DEFINE q == [copy[d] EXCEPT !.pre = TRUE, !.step = "secretRevealed"]
    <2>1. q \in Rec /\ q.attempted = copy[d].attempted /\ q.step = "secretRevealed"
      BY <1>c DEF Rec, Steps
    <2>2. (Save(d, q, "claim") \/ (Move(d, q, "claim") /\ UNCHANGED saved)) /\ UNCHANGED <<leg, wire>>
      BY <1>13 DEF Learn, sequence
    <2>3. copy[d].attempted
      BY <1>13 DEF Learn, At, CopyInv, TailSteps
    <2> HIDE DEF q
    <2>4. "claim" \in LiveSteps \cup SheetSteps \cup {"off"}
      BY DEF SheetSteps, TailSteps
    <2>5. leg' = "absent" \/ leg # "absent" \/ saved.attempted
      BY <2>2
    <2>6. QED
      BY <2>1, <2>2, <2>3, <2>4, <2>5, DriverKeeps DEF wire
  <1>14. ASSUME NEW d \in Driver, Claim(d) PROVE Goal
    <2>1. copy[d].attempted
      BY <1>14 DEF Claim, At, CopyInv, TailSteps
    <2>2. QED
      BY <1>14, <1>c, <1>h, <1>t, <2>1, DriverKeeps DEF Claim, Goto, sequence
  <1>15. ASSUME NEW d \in Driver, SaveClaimed(d) PROVE Goal
    <2> DEFINE q == [copy[d] EXCEPT !.step = "btcClaimed"]
    <2>1. q \in Rec /\ q.attempted = copy[d].attempted /\ q.step = "btcClaimed"
      BY <1>c DEF Rec, Steps
    <2>2. Save(d, q, "off") /\ UNCHANGED <<leg, wire>>
      BY <1>15 DEF SaveClaimed, sequence
    <2>3. copy[d].attempted /\ claimSent
      BY <1>15 DEF SaveClaimed, At, CopyInv, EndInv, TailSteps
    <2> HIDE DEF q
    <2>4. QED
      BY <2>1, <2>2, <2>3, <1>t, DriverKeeps DEF wire, TailSteps
  <1>16. ASSUME NEW d \in Driver, Throws(d) PROVE Goal
    <2>1. d = "sheet" => copy[d].attempted
      BY <1>16 DEF Throws, CopyInv
    <2>2. Stopped(d) \in {"off", "sheet"} /\ (Stopped(d) = "sheet" => d = "sheet")
      BY DEF Stopped
    <2>3. QED
      BY <1>16, <1>c, <1>h, <1>t, <2>1, <2>2, DriverKeeps DEF Throws, Goto, sequence, wire, TailSteps
  <1>17. CASE OpenSheet
    <2>1. saved.attempted /\ (saved.step = "btcClaimed" => claimSent) /\ (saved.step = "refunded" => refundSent)
      BY <1>17, <1>c DEF OpenSheet, HoldsOrMightHoldAsset, CopyInv, EndInv, Held
    <2>2. QED
      BY <1>17, <1>c, <1>t, <2>1, DriverKeeps DEF OpenSheet, sequence, wire
  <1>18. CASE CloseSheet \/ Resume \/ Refund
    <2>1. copy["sheet"].attempted
      BY <1>18 DEF CloseSheet, Resume, Refund, At, CopyInv
    <2>2. QED
      BY <1>18, <1>c, <1>h, <1>t, <2>1, DriverKeeps DEF CloseSheet, Resume, Refund, Goto, sequence, wire
  <1>19. CASE ScanFinds
    <2> DEFINE q == [copy["sheet"] EXCEPT !.txid = TRUE]
    <2>1. q \in Rec /\ q.attempted = copy["sheet"].attempted /\ q.step = copy["sheet"].step
      BY <1>c DEF Rec
    <2>2. Save("sheet", q, "confirm") /\ UNCHANGED <<leg, wire>> /\ copy["sheet"].attempted
      BY <1>19 DEF ScanFinds, sequence, At, CopyInv
    <2> HIDE DEF q
    <2>3. QED
      BY <2>1, <2>2, <1>a, <1>t
  <1>20. CASE SaveRefunded
    <2> DEFINE q == [copy["sheet"] EXCEPT !.step = "refunded"]
    <2>1. q \in Rec /\ q.attempted = copy["sheet"].attempted /\ q.step = "refunded"
      BY <1>c DEF Rec, Steps
    <2>2. Save("sheet", q, "off") /\ UNCHANGED <<leg, wire>> /\ copy["sheet"].attempted /\ refundSent
      BY <1>20 DEF SaveRefunded, sequence, At, CopyInv, EndInv
    <2> HIDE DEF q
    <2>3. QED
      BY <2>1, <2>2, <1>t, DriverKeeps DEF wire, TailSteps
  <1>21. CASE Abandon
    <2>1. leg' # "absent" /\ ~claimSent' /\ ~refundSent' => FALSE
      BY <1>21, <1>c DEF Abandon, sequence, wire, KeptInv, EndInv, HoldsOrMightHoldAsset, Terminal, Held
    <2>2. pc'["live"] = pc["live"] /\ copy'["live"] = copy["live"]
          /\ pc'["sheet"] = "off" /\ copy'["sheet"] \in {copy["sheet"], NoRec} /\ saved' = NoRec
      BY <1>21, <1>c, <1>t, MoveEffect DEF Abandon, Goto
    <2>3. CopyInv'
      BY <2>2, NoRecIsEmpty DEF CopyInv, Held
    <2>4. EndInv'
      BY <1>21, <2>2, NoRecIsEmpty DEF EndInv, Held, Abandon, wire
    <2>5. QED
      BY <2>1, <2>3, <2>4 DEF KeptInv
  <1>22. CASE Crash
    <2>1. CopyInv'
      BY <1>22, NoRecIsEmpty DEF Crash, CopyInv, Held, TailSteps
    <2>2. EndInv'
      BY <1>22, NoRecIsEmpty DEF Crash, EndInv, Held, wire
    <2>3. KeptInv'
      BY <1>22 DEF Crash, KeptInv, sequence, wire
    <2>4. QED
      BY <2>1, <2>2, <2>3
  <1>23. CASE \/ BtcBlock \/ BtcReorg \/ Anchor \/ Tick \/ MineFunding \/ MakerClaims \/ MineClaim
              \/ MineRefund \/ UNCHANGED vars
    <2>1. UNCHANGED <<app, claimSent, refundSent>> /\ (leg' # "absent" => leg # "absent")
      BY <1>23 DEF BtcBlock, BtcReorg, Anchor, Tick, MineFunding, MakerClaims, MineClaim, MineRefund,
                   vars, sequence, wire
    <2>2. QED
      BY <2>1 DEF CopyInv, EndInv, KeptInv, Held, app
  <1>24. QED
    BY <1>1, <1>3, <1>4, <1>5, <1>6, <1>7, <1>8, <1>9, <1>10, <1>11, <1>12, <1>13, <1>14,
       <1>15, <1>16, <1>17, <1>18, <1>19, <1>20, <1>21, <1>22, <1>23 DEF Next

-----------------------------------------------------------------------------
(* The leg that the maker is told of. *)

\* A driver's step that the buried lock allows.
LEMMA DriverBuried ==
  ASSUME Typed, BuriedInv, NEW d \in Driver, NEW q \in Rec, NEW s \in LiveSteps \cup SheetSteps \cup {"off"},
         Save(d, q, s) \/ Move(d, q, s), UNCHANGED <<btcTip, lockAt, seen>>,
         announced' => announced /\ leg' = leg,
         d = "live" /\ s \in {"anchor", "reverify"} => seen # 0,
         d = "live" /\ s = "reverify" => seen < btcTip,
         d = "live" /\ s \in {"auth", "broadcast", "saveTxid", "confirm", "legAnchor"} =>
            lockAt = seen /\ seen # 0 /\ seen < btcTip
  PROVE  BuriedInv'
  <1>1. pc'[d] \in {s, Stopped(d)} /\ \A e \in Driver : e # d => pc'[e] = pc[e]
    BY SaveEffect, MoveEffect
  <1>2. QED
    BY <1>1 DEF BuriedInv, Stopped, Driver

\* Every step keeps the lock buried, and under an announced leg.
LEMMA BuriedStep ==
  ASSUME Typed, AbsentInv, IntentInv, BuriedInv, AnnouncedIsCovered, Typed', [Next]_vars
  PROVE  BuriedInv' /\ AnnouncedIsCovered'
  <1> USE XrConstants DEF Driver
  <1>c. saved \in Rec /\ \A d \in Driver : copy[d] \in Rec
    BY DEF Typed, TypeOK
  <1>t. "off" \in LiveSteps \cup SheetSteps \cup {"off"}
        /\ {"anchor", "reverify", "auth", "broadcast", "saveTxid", "confirm", "legAnchor", "hint",
            "reload", "settle", "claim", "saveClaimed", "btcConf"} \subseteq LiveSteps
        /\ {"sheet", "scan", "confirm", "settle", "claim", "saveClaimed", "saveRefunded"} \subseteq SheetSteps
    BY DEF LiveSteps, SheetSteps, TailSteps, PreFund
  <1>s. ASSUME NEW d \in Driver, NEW q \in Rec, NEW s \in LiveSteps \cup SheetSteps \cup {"off"},
               Save(d, q, s) \/ Move(d, q, s), UNCHANGED <<bitcoin, sequence, announced, seen>>,
               d = "live" /\ s \in {"anchor", "reverify"} => seen # 0,
               d = "live" /\ s = "reverify" => seen < btcTip,
               d = "live" /\ s \in {"auth", "broadcast", "saveTxid", "confirm", "legAnchor"} =>
                  lockAt = seen /\ seen # 0 /\ seen < btcTip
        PROVE  BuriedInv' /\ AnnouncedIsCovered'
    BY <1>s, DriverBuried DEF bitcoin, sequence, AnnouncedIsCovered
  <1>r. ASSUME NEW d \in Driver, NEW s \in Steps
        PROVE  /\ [copy[d] EXCEPT !.step = s] \in Rec /\ [NoRec EXCEPT !.step = s] \in Rec
               /\ [copy[d] EXCEPT !.attempted = TRUE] \in Rec /\ [copy[d] EXCEPT !.txid = TRUE] \in Rec
               /\ [copy[d] EXCEPT !.pre = TRUE, !.step = s] \in Rec
    BY <1>c, NoRecIsEmpty DEF Rec
  <1>1. CASE Begin \/ Withhold
    BY <1>1, <1>c, <1>r, <1>s, <1>t DEF Begin, Withhold, wire, Steps
  <1>2. CASE BtcConf
    <2>1. pc'["live"] \in {"anchor", "off"} /\ seen' = lockAt /\ lockAt # 0
          /\ UNCHANGED <<bitcoin, sequence, wire>>
      BY <1>2, <1>r, <1>t, SaveEffect DEF BtcConf, Steps, Stopped
    <2>2. QED
      BY <2>1 DEF BuriedInv, AnnouncedIsCovered, bitcoin, sequence, wire
  <1>3. CASE AnchorWait
    <2>1. seen # 0 /\ seen < btcTip
      BY <1>3 DEF AnchorWait, At, BuriedInv, Typed, TypeOK
    <2>2. QED
      BY <1>3, <2>1, <1>c, <1>s, <1>t DEF AnchorWait, Goto, wire
  <1>4. CASE Reverify
    <2>1. lockAt = seen /\ seen # 0 /\ seen < btcTip
      BY <1>4 DEF Reverify, At, BuriedInv
    <2>2. QED
      BY <1>4, <2>1, <1>r, <1>s, <1>t DEF Reverify, wire, Steps
  <1>5. CASE Abort
    BY <1>5, <1>r, <1>s, <1>t DEF Abort, wire, Steps
  <1>6. CASE AboutToBroadcast \/ SaveTxid
    <2>1. lockAt = seen /\ seen # 0 /\ seen < btcTip
      BY <1>6 DEF AboutToBroadcast, SaveTxid, At, BuriedInv
    <2>2. [copy["live"] EXCEPT !.attempted = TRUE] \in Rec /\ [copy["live"] EXCEPT !.txid = TRUE] \in Rec
      BY <1>r DEF Steps
    <2>3. QED
      BY <1>6, <2>1, <2>2, <1>s, <1>t DEF AboutToBroadcast, SaveTxid, wire
  <1>7. CASE Broadcast
    <2>1. lockAt = seen /\ seen # 0 /\ seen < btcTip /\ ~announced
      BY <1>7 DEF Broadcast, At, BuriedInv, AbsentInv, IntentInv
    <2>2. QED
      BY <1>7, <2>1, <1>c, <1>t, DriverBuried DEF Broadcast, Goto, bitcoin, wire, AnnouncedIsCovered
  <1>8. ASSUME NEW d \in Driver, Confirm(d) PROVE BuriedInv' /\ AnnouncedIsCovered'
    <2>1. d = "live" => lockAt = seen /\ seen # 0 /\ seen < btcTip
      BY <1>8 DEF Confirm, At, BuriedInv
    <2>2. [copy[d] EXCEPT !.step = "seqFunded"] \in Rec
      BY <1>r DEF Steps
    <2>3. QED
      BY <1>8, <2>1, <2>2, <1>s, <1>t DEF Confirm, wire
  <1>9. CASE Announce
    <2>1. lockAt = seen /\ seen # 0 /\ seen < btcTip /\ legAnchor >= seen /\ leg \notin {"absent", "mempool"}
      BY <1>9 DEF Announce, At, BuriedInv, AbsentInv, PreFund
    <2>2. pc'["live"] = "hint" /\ UNCHANGED <<bitcoin, sequence, seen>>
      BY <1>9, <1>c, <1>t, MoveEffect DEF Announce, Goto
    <2>3. QED
      BY <2>1, <2>2 DEF BuriedInv, AnnouncedIsCovered, bitcoin, sequence
  <1>10. CASE Hint \/ Reload
    BY <1>10, <1>c, <1>s, <1>t DEF Hint, Reload, Goto, wire
  <1>11. ASSUME NEW d \in Driver, Learn(d) \/ SaveClaimed(d) PROVE BuriedInv' /\ AnnouncedIsCovered'
    <2>1. /\ [copy[d] EXCEPT !.pre = TRUE, !.step = "secretRevealed"] \in Rec
          /\ [copy[d] EXCEPT !.step = "btcClaimed"] \in Rec
      BY <1>r DEF Steps
    <2>2. QED
      BY <1>11, <2>1, <1>s, <1>t DEF Learn, SaveClaimed, wire
  <1>12. ASSUME NEW d \in Driver, Claim(d) \/ Throws(d) PROVE BuriedInv' /\ AnnouncedIsCovered'
    BY <1>12, <1>c, <1>s, <1>t DEF Claim, Throws, Goto, Stopped, wire
  <1>13. CASE OpenSheet \/ CloseSheet \/ Resume \/ Refund \/ Abandon
    BY <1>13, <1>c, <1>s, <1>t DEF OpenSheet, CloseSheet, Resume, Refund, Abandon, Goto, wire
  <1>14. CASE ScanFinds \/ SaveRefunded
    <2>1. /\ [copy["sheet"] EXCEPT !.txid = TRUE] \in Rec
          /\ [copy["sheet"] EXCEPT !.step = "refunded"] \in Rec
      BY <1>r DEF Steps
    <2>2. QED
      BY <1>14, <2>1, <1>s, <1>t DEF ScanFinds, SaveRefunded, wire
  <1>15. CASE Crash
    BY <1>15 DEF Crash, BuriedInv, AnnouncedIsCovered, bitcoin, sequence, wire
  <1>16. CASE BtcBlock
    BY <1>16 DEF BtcBlock, BuriedInv, AnnouncedIsCovered, sequence, wire, app, Typed, TypeOK
  <1>17. CASE BtcReorg
    <2>1. lockAt = btcTip /\ btcTip' = btcTip + 1 /\ UNCHANGED <<wire, app>>
      BY <1>17 DEF BtcReorg
    <2>2. ~announced /\ pc["live"] \notin {"auth", "broadcast", "saveTxid", "confirm", "legAnchor"}
      BY <2>1 DEF BuriedInv, Typed, TypeOK
    <2>3. QED
      BY <2>1, <2>2 DEF BuriedInv, AnnouncedIsCovered, wire, app, Typed, TypeOK
  <1>18. CASE Anchor \/ Tick \/ MakerClaims \/ UNCHANGED vars
    BY <1>18 DEF Anchor, Tick, MakerClaims, vars, BuriedInv, AnnouncedIsCovered, bitcoin, sequence, wire, app
  <1>19. CASE MineFunding \/ MineClaim \/ MineRefund
    BY <1>19 DEF MineFunding, MineClaim, MineRefund, BuriedInv, AnnouncedIsCovered, bitcoin, wire, app
  <1>20. QED
    BY <1>1, <1>2, <1>3, <1>4, <1>5, <1>6, <1>7, <1>8, <1>9, <1>10, <1>11, <1>12, <1>13, <1>14,
       <1>15, <1>16, <1>17, <1>18, <1>19 DEF Next

-----------------------------------------------------------------------------
(* The theorems. *)

\* The invariant is inductive.
LEMMA InvStep == ASSUME IInv, [Next]_vars PROVE IInv'
  BY TypeStep, AbsentStep, IntentStep, RecordsStep, BuriedStep DEF IInv

\* It holds in every reachable state.
LEMMA Inductive == Spec => []IInv
  BY InitInv, InvStep, PTL DEF Spec

\* The chains, the messages, the record in the store and the two drivers' copies keep their types.
THEOREM TypeCorrect == Spec => []TypeOK
  <1>1. IInv => TypeOK
    BY DEF IInv, Typed
  <1>2. QED
    BY <1>1, Inductive, PTL

\* The leg announced to the maker is never left standing by a Bitcoin reorganisation that
\* removes the lock that paid for it: the wait for an anchor above the lock and the second
\* look at it leave nothing that the last block can undo.
THEOREM AnnouncedAlwaysCovered == Spec => []AnnouncedIsCovered
  <1>1. IInv => AnnouncedIsCovered
    BY DEF IInv
  <1>2. QED
    BY <1>1, Inductive, PTL

\* A step that sends nothing keeps SwapRecord when the intent it leaves is the store's, or the
\* swap has ended.
LEMMA RecordKept ==
  ASSUME KeptInv', leg' = "absent" <=> leg = "absent", Typed, Typed', UNCHANGED <<claimSent, refundSent>>
  PROVE  [Record!Next]_(Record!vars)
  <1>b. saved.attempted \in BOOLEAN /\ saved'.attempted \in BOOLEAN
    BY DEF Typed, TypeOK, Rec
  <1>1. CASE saved.attempted = saved'.attempted
    BY <1>1 DEF Record!vars
  <1>2. CASE ~saved.attempted /\ saved'.attempted
    BY <1>b, <1>2 DEF Record!Next, Record!Record
  <1>3. CASE saved.attempted /\ ~saved'.attempted
    BY <1>b, <1>3 DEF KeptInv, Record!Next, Record!Forget
  <1>4. QED
    BY <1>b, <1>1, <1>2, <1>3

\* A claim or a refund that is sent is the swap's Resolve, or comes after one.
LEMMA RecordResolved ==
  ASSUME KeptInv, Typed, Typed', leg # "absent", UNCHANGED <<saved, leg>>, claimSent' \/ refundSent',
         claimSent => claimSent', refundSent => refundSent'
  PROVE  [Record!Next]_(Record!vars)
  <1>1. CASE claimSent \/ refundSent
    BY <1>1 DEF Record!vars
  <1>2. CASE ~claimSent /\ ~refundSent
    <2>1. saved.attempted
      BY <1>2 DEF KeptInv
    <2>2. QED
      BY <1>2, <2>1 DEF Record!Next, Record!Resolve
  <1>3. QED
    BY <1>1, <1>2

\* Every step of the swap is a step of SwapRecord or leaves it alone.
LEMMA RecordStep == ASSUME IInv, [Next]_vars PROVE [Record!Next]_(Record!vars)
  <1> USE DEF IInv
  <1>k. KeptInv' /\ Typed'
    BY InvStep
  <1>s. ASSUME UNCHANGED <<sequence, claimSent, refundSent>> PROVE [Record!Next]_(Record!vars)
    BY <1>k, <1>s, RecordKept DEF sequence
  <1>1. CASE \/ Begin \/ BtcConf \/ AnchorWait \/ Reverify \/ Abort \/ AboutToBroadcast
             \/ SaveTxid \/ Announce \/ Withhold \/ Hint \/ Reload
    BY <1>1, <1>s DEF Begin, BtcConf, AnchorWait, Reverify, Abort, AboutToBroadcast, SaveTxid,
                      Announce, Withhold, Hint, Reload, wire
  <1>2. CASE Broadcast
    <2>1. leg = "absent" /\ leg' = "mempool" /\ saved.attempted /\ UNCHANGED <<saved, claimSent, refundSent>>
      BY <1>2 DEF Broadcast, At, IntentInv, wire
    <2>2. QED
      BY <2>1 DEF Record!Next, Record!Commit
  <1>3. ASSUME NEW d \in Driver, Confirm(d) \/ Learn(d) \/ SaveClaimed(d) \/ Throws(d)
        PROVE  [Record!Next]_(Record!vars)
    BY <1>3, <1>s DEF Confirm, Learn, SaveClaimed, Throws, wire
  <1>4. ASSUME NEW d \in Driver, Claim(d) PROVE [Record!Next]_(Record!vars)
    <2>1. leg # "absent"
      BY <1>4 DEF Claim, At, AbsentInv, Driver, PreFund
    <2>2. QED
      BY <1>4, <1>k, <2>1, RecordResolved DEF Claim, sequence
  <1>5. CASE Refund
    BY <1>5, <1>k, RecordResolved DEF Refund, sequence
  <1>6. CASE OpenSheet \/ CloseSheet \/ Resume \/ ScanFinds \/ SaveRefunded \/ Abandon \/ Crash
    BY <1>6, <1>s DEF OpenSheet, CloseSheet, Resume, ScanFinds, SaveRefunded, Abandon, Crash, wire
  <1>7. CASE \/ BtcBlock \/ BtcReorg \/ Anchor \/ Tick \/ MineFunding \/ MakerClaims \/ MineClaim
             \/ MineRefund \/ UNCHANGED vars
    <2>1. UNCHANGED <<claimSent, refundSent>> /\ (leg' = "absent" <=> leg = "absent")
      BY <1>7 DEF BtcBlock, BtcReorg, Anchor, Tick, MineFunding, MakerClaims, MineClaim, MineRefund,
                  vars, sequence, wire
    <2>2. QED
      BY <1>k, <2>1, RecordKept
  <1>8. QED
    BY <1>1, <1>2, <1>3, <1>4, <1>5, <1>6, <1>7 DEF Next

\* The swap implements SwapRecord: the asset leaves the wallet only under a saved intent, and
\* the record keeps it until the claim or the refund is sent, whichever of the two drivers
\* writes the record last, whatever saves throw and wherever the process dies.
THEOREM SwapImplementsRecord == Spec => WriteAhead
  <1>1. Init => Record!Init
    BY NoRecIsEmpty DEF Init, Record!Init, NoRec
  <1>2. IInv /\ [Next]_vars => [Record!Next]_(Record!vars)
    BY RecordStep
  <1>3. QED
    BY <1>1, <1>2, Inductive, PTL DEF WriteAhead, Record!Spec, Spec

\* An asset that is out always has its record in the store until the Bitcoin claim or the refund
\* is sent, with two drivers that each hold a copy: what the refinement is for.
THEOREM NothingForgotten == Spec => []Record!NeverForgotten
<1>1. Record!Init => Record!NeverForgotten
  BY DEF Record!Init, Record!NeverForgotten
<1>2. Record!NeverForgotten /\ [Record!Next]_(Record!vars) => Record!NeverForgotten'
  BY DEF Record!NeverForgotten, Record!Next, Record!Record, Record!Commit, Record!Release, Record!Resolve,
         Record!Forget, Record!vars
<1> QED
  BY <1>1, <1>2, SwapImplementsRecord, PTL DEF WriteAhead, Record!Spec
=============================================================================
