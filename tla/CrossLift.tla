----------------------------- MODULE CrossLift -----------------------------
(***************************************************************************)
(* Buying an asset with Bitcoin over two hash time-locked contracts        *)
(* (data/cross_lift_service.dart, data/xchain_swap_service.dart and        *)
(* screens/xchain_swap_screen.dart): we lock Bitcoin under a hash, the     *)
(* maker locks the asset under the same hash, we claim the asset with the  *)
(* secret, the maker sweeps the Bitcoin with it; past T_btc the Bitcoin is *)
(* ours again.                                                             *)
(*                                                                         *)
(* The store has ONE slot.  A lift saves its own copy of its record into   *)
(* it at every step; the recovery screen loads the slot once and saves its *)
(* own copy too.  A lift runs on in the background when its screen is left.*)
(*                                                                         *)
(* One clock stands for both chains.  A record is the lift it is of and    *)
(* its step: the fields a step implies are saved with it.                  *)
(***************************************************************************)
EXTENDS Naturals

CONSTANTS
    Lifts,       \* the lifts a user starts, each with its own secret and maker
    Screen,      \* the recovery screen, XchainSwapScreen
    MaxTime,     \* bound on the clock
    TSeq, TBtc,  \* the locktimes of the two legs
    Margin,      \* kSeqRefundMargin
    Delay,       \* ticks from the gates of claimSeq to its broadcast
    MineIn,      \* ticks from a claim's broadcast to its block
    OneAtATime   \* whether a lift is started only with no other and no screen open

Actors == Lifts \cup {Screen}

ASSUME LiftConstants ==
    /\ Screen \notin Lifts
    /\ {MaxTime, TSeq, TBtc, Margin, Delay, MineIn} \subseteq Nat
    /\ TSeq < TBtc                \* beginFromCourierTerms, 216
    /\ Delay + MineIn <= Margin   \* what the margin is for
    /\ OneAtATime \in BOOLEAN

Never     == MaxTime + 1 + Delay + MineIn
InFlights == {"btcFunding", "btcLocked", "seqLocked", "seqVerified"}
XSteps    == InFlights \cup {"secretReady", "seqClaimed", "refunded"}
Records   == [of : Lifts, step : XSteps]
NoRecord  == [of |-> Screen, step |-> "none"]
LiveSteps == {"begin", "fund", "broadcast", "poll", "recv", "verify", "anchor", "claim",
              "claimSend", "claimSave", "refundSave"}

VARIABLES
    slot,     \* the record in the store
    mem,      \* each actor's own copy of its record
    pc,       \* "idle" | "open" (the screen) | "ended" (a lift) | one of LiveSteps
    gate,     \* when the actor about to claim passed its gates
    btc,      \* per lift, our Bitcoin leg
    leg,      \* per lift, the maker's Sequentia leg
    flawed,   \* lifts whose reported leg is not what was agreed
    sentAt,   \* per lift, when the claim, which reveals the secret, was broadcast
    refunds,  \* lifts whose refund was broadcast
    now

app   == <<slot, mem, pc, gate>>
chain == <<btc, leg, flawed, sentAt, refunds>>
vars  == <<app, chain, now>>

Init ==
    /\ slot = NoRecord
    /\ mem = [a \in Actors |-> NoRecord]
    /\ pc = [a \in Actors |-> "idle"]
    /\ gate = [a \in Actors |-> Never]
    /\ btc = [l \in Lifts |-> "none"] /\ leg = [l \in Lifts |-> "none"]
    /\ flawed = {} /\ refunds = {}
    /\ sentAt = [l \in Lifts |-> Never]
    /\ now = 0

\* inFlightWithFunds, and also refundable: committed and not terminal.
InFlight(r) == r.step \in InFlights

\* Mutant of RaceSafe: no margin.
RaceOpen == now < TSeq

\* seqRefundRaceSafe
RaceSafe == now + Margin < TSeq

\* The actor's copy advances and replaces whatever the slot holds.
Save(a, s) ==
    /\ mem' = [mem EXCEPT ![a].step = s]
    /\ slot' = [mem[a] EXCEPT !.step = s]

Goto(a, p) == pc' = [pc EXCEPT ![a] = p]

-----------------------------------------------------------------------------
(* A lift, lockAndSettle. *)

\* Mutant of BeginCheck: the single-slot guard is missing.
BeginUnguarded(l) ==
    /\ pc[l] = "idle"
    /\ OneAtATime => \A a \in Actors : pc[a] \in {"idle", "ended"}
    /\ Goto(l, "begin")
    /\ UNCHANGED <<slot, mem, gate, chain, now>>

\* beginFromCourierTerms reads the slot...
BeginCheck(l) ==
    /\ pc[l] = "idle" /\ ~InFlight(slot)
    /\ OneAtATime => \A a \in Actors : pc[a] \in {"idle", "ended"}
    /\ Goto(l, "begin")
    /\ UNCHANGED <<slot, mem, gate, chain, now>>

\* ...and writes it after the keys and the contract were built.
BeginSave(l) ==
    /\ pc[l] = "begin"
    /\ slot' = [of |-> l, step |-> "secretReady"]
    /\ mem' = [mem EXCEPT ![l] = slot']
    /\ Goto(l, "fund")
    /\ UNCHANGED <<gate, chain, now>>

\* fundBtc: the record with the transaction id first...
FundSave(l) ==
    /\ pc[l] = "fund"
    /\ Save(l, "btcFunding") /\ Goto(l, "broadcast")
    /\ UNCHANGED <<gate, chain, now>>

\* ...then the transaction.
Broadcast(l) ==
    /\ pc[l] = "broadcast"
    /\ btc' = [btc EXCEPT ![l] = "mempool"]
    /\ Goto(l, "poll")
    /\ UNCHANGED <<slot, mem, gate, leg, flawed, sentAt, refunds, now>>

\* Mutant of Polls: the screen does not reconcile a funding record.
PollsInLift(a) == pc[a] = "poll"

\* The lift's wait, and the screen's resumeFunding and its timer.
Polls(a) ==
    \/ pc[a] = "poll"
    \/ a = Screen /\ pc[a] = "open" /\ mem[a].step = "btcFunding"

\* pollBtcLock; a lift then sends the leg to its maker.
PollLock(a) ==
    /\ Polls(a)
    /\ btc[mem[a].of] \notin {"none", "mempool"}
    /\ Save(a, "btcLocked") /\ Goto(a, IF a = Screen THEN "open" ELSE "recv")
    /\ UNCHANGED <<gate, chain, now>>

\* setCourierSeqLeg: the maker reports a leg, whatever is on the chain.
RecvLeg(l) ==
    /\ pc[l] = "recv"
    /\ flawed' \in {flawed, flawed \cup {l}}
    /\ Save(l, "seqLocked") /\ Goto(l, "verify")
    /\ UNCHANGED <<gate, btc, leg, sentAt, refunds, now>>

\* verifyLeg, of a lift, and of claimSeq when the user taps "Claim" at seqLocked.
VerifyLeg(a) ==
    /\ \/ pc[a] = "verify"
       \/ a = Screen /\ pc[a] = "open" /\ mem[a].step = "seqLocked"
    /\ mem[a].of \notin flawed
    /\ Save(a, "seqVerified") /\ Goto(a, IF a = Screen THEN "claim" ELSE "anchor")
    /\ UNCHANGED <<gate, chain, now>>

\* The wait for the anchor; it ends early, by Throws, once the race is not safe.
AnchorWait(l) ==
    /\ pc[l] = "anchor"
    /\ RaceSafe /\ leg[l] = "anchored"
    /\ Goto(l, "claim")
    /\ UNCHANGED <<slot, mem, gate, chain, now>>

\* claimSeq: _bindSeqLegOnChain and the anchor, the race, then the fee...
ClaimGates(a) ==
    /\ \/ pc[a] = "claim"
       \/ a = Screen /\ pc[a] = "open" /\ mem[a].step = "seqVerified"
    /\ mem[a].of \notin flawed
    /\ leg[mem[a].of] = "anchored" /\ RaceSafe
    /\ gate' = [gate EXCEPT ![a] = now]
    /\ Goto(a, "claimSend")
    /\ UNCHANGED <<slot, mem, chain, now>>

\* ...the broadcast, accepted again when the same claim is in the mempool...
ClaimSend(a) ==
    /\ pc[a] = "claimSend"
    /\ leg[mem[a].of] = "anchored"
    /\ sentAt' = [sentAt EXCEPT ![mem[a].of] = IF @ = Never THEN now ELSE @]
    /\ gate' = [gate EXCEPT ![a] = Never]
    /\ Goto(a, "claimSave")
    /\ UNCHANGED <<slot, mem, btc, leg, flawed, refunds, now>>

\* ...and the record.
ClaimSave(a) ==
    /\ pc[a] = "claimSave"
    /\ Save(a, "seqClaimed") /\ Goto(a, IF a = Screen THEN "open" ELSE "ended")
    /\ UNCHANGED <<gate, chain, now>>

\* A check fails, or a call throws or times out: the lift is over, the screen shows
\* the error and keeps its copy.
Throws(a) ==
    /\ pc[a] \in LiveSteps
    /\ Goto(a, IF a = Screen THEN "open" ELSE "ended")
    /\ mem' = IF a = Screen THEN mem ELSE [mem EXCEPT ![a] = NoRecord]
    /\ gate' = [gate EXCEPT ![a] = Never]
    /\ UNCHANGED <<slot, chain, now>>

-----------------------------------------------------------------------------
(* The recovery screen. *)

\* Mutant of Open: the banner is there without a record.
OpenAny ==
    /\ pc[Screen] = "idle"
    /\ mem' = [mem EXCEPT ![Screen] = slot] /\ Goto(Screen, "open")
    /\ UNCHANGED <<slot, gate, chain, now>>

\* The banner of the Swap tab is shown for a record in flight.
Open ==
    /\ pc[Screen] = "idle" /\ InFlight(slot)
    /\ mem' = [mem EXCEPT ![Screen] = slot] /\ Goto(Screen, "open")
    /\ UNCHANGED <<slot, gate, chain, now>>

Close ==
    /\ pc[Screen] = "open"
    /\ mem' = [mem EXCEPT ![Screen] = NoRecord] /\ Goto(Screen, "idle")
    /\ UNCHANGED <<slot, gate, chain, now>>

\* refundBtc; _arm polls for the locktime, which enables the button, at btcLocked only.
RefundSend ==
    /\ pc[Screen] = "open" /\ mem[Screen].step = "btcLocked"
    /\ now >= TBtc /\ btc[mem[Screen].of] = "locked"
    /\ refunds' = refunds \cup {mem[Screen].of}
    /\ Goto(Screen, "refundSave")
    /\ UNCHANGED <<slot, mem, gate, btc, leg, flawed, sentAt, now>>

RefundSave ==
    /\ pc[Screen] = "refundSave"
    /\ Save(Screen, "refunded") /\ Goto(Screen, "open")
    /\ UNCHANGED <<gate, chain, now>>

\* "Done": the slot is cleared.
Reset ==
    /\ pc[Screen] = "open" /\ mem[Screen].step \in {"seqClaimed", "refunded"}
    /\ slot' = NoRecord
    /\ mem' = [mem EXCEPT ![Screen] = NoRecord] /\ Goto(Screen, "idle")
    /\ UNCHANGED <<gate, chain, now>>

-----------------------------------------------------------------------------
(* The process, the makers and the chains. *)

Crash ==
    /\ \E a \in Actors : pc[a] \notin {"idle", "ended"}
    /\ pc' = [a \in Actors |-> IF a = Screen \/ pc[a] = "idle" THEN "idle" ELSE "ended"]
    /\ mem' = [a \in Actors |-> NoRecord]
    /\ gate' = [a \in Actors |-> Never]
    /\ UNCHANGED <<slot, chain, now>>

MineFunding(l) ==
    /\ btc[l] = "mempool"
    /\ btc' = [btc EXCEPT ![l] = "locked"]
    /\ UNCHANGED <<app, leg, flawed, sentAt, refunds, now>>

\* The maker pays our contract, or an output we cannot claim as agreed.
MakerLocks(l) ==
    /\ btc[l] # "none" /\ leg[l] = "none"
    /\ \E s \in {"wrong", "unanchored"} : leg' = [leg EXCEPT ![l] = s]
    /\ UNCHANGED <<app, btc, flawed, sentAt, refunds, now>>

\* The leg's block gets its Bitcoin anchor; before that it may be reorganised, which
\* the gates cannot tell from a leg that was not mined yet.
Anchor(l) ==
    /\ leg[l] = "unanchored"
    /\ leg' = [leg EXCEPT ![l] = "anchored"]
    /\ UNCHANGED <<app, btc, flawed, sentAt, refunds, now>>

MakerRefunds(l) ==
    /\ leg[l] \in {"unanchored", "anchored"} /\ now >= TSeq
    /\ leg' = [leg EXCEPT ![l] = "refunded"]
    /\ UNCHANGED <<app, btc, flawed, sentAt, refunds, now>>

MineClaim(l) ==
    /\ sentAt[l] # Never /\ leg[l] = "anchored"
    /\ leg' = [leg EXCEPT ![l] = "claimed"]
    /\ UNCHANGED <<app, btc, flawed, sentAt, refunds, now>>

MakerSweeps(l) ==
    /\ sentAt[l] # Never /\ btc[l] = "locked"
    /\ btc' = [btc EXCEPT ![l] = "swept"]
    /\ UNCHANGED <<app, leg, flawed, sentAt, refunds, now>>

MineRefund(l) ==
    /\ l \in refunds /\ btc[l] = "locked"
    /\ btc' = [btc EXCEPT ![l] = "refunded"]
    /\ UNCHANGED <<app, leg, flawed, sentAt, refunds, now>>

Tick ==
    /\ now < MaxTime
    /\ \A a \in Actors : gate[a] # Never => now < gate[a] + Delay
    /\ \A l \in Lifts : sentAt[l] # Never /\ leg[l] = "anchored" => now < sentAt[l] + MineIn
    /\ now' = now + 1
    /\ UNCHANGED <<app, chain>>

Next ==
    \/ \E l \in Lifts :
          \/ BeginCheck(l) \/ BeginSave(l) \/ FundSave(l) \/ Broadcast(l) \/ RecvLeg(l)
          \/ AnchorWait(l) \/ MineFunding(l) \/ MakerLocks(l) \/ Anchor(l)
          \/ MakerRefunds(l) \/ MineClaim(l) \/ MakerSweeps(l) \/ MineRefund(l)
    \/ \E a \in Actors :
          PollLock(a) \/ VerifyLeg(a) \/ ClaimGates(a) \/ ClaimSend(a) \/ ClaimSave(a) \/ Throws(a)
    \/ Open \/ Close \/ RefundSend \/ RefundSave \/ Reset \/ Crash \/ Tick

Spec == Init /\ [][Next]_vars

\* Time passes and blocks are mined; calls answer or throw; the user follows the banner
\* for ever, and a call that is made for ever succeeds in the end.
Fairness ==
    /\ WF_vars(Tick)
    /\ \A l \in Lifts : WF_vars(MineFunding(l)) /\ WF_vars(MineClaim(l)) /\ WF_vars(MineRefund(l))
    /\ \A a \in Actors : WF_vars(Throws(a))
    /\ SF_vars(Open) /\ SF_vars(PollLock(Screen)) /\ SF_vars(ClaimGates(Screen))
    /\ SF_vars(RefundSend) /\ SF_vars(RefundSave)

FairSpec == Spec /\ Fairness

-----------------------------------------------------------------------------
(* What a lift promises. *)

TypeOK ==
    /\ slot \in Records \cup {NoRecord}
    /\ mem \in [Actors -> Records \cup {NoRecord}]
    /\ pc \in [Actors -> LiveSteps \cup {"idle", "open", "ended"}]
    /\ pc[Screen] # "idle" => mem[Screen] \in Records
    /\ gate \in [Actors -> Nat] /\ sentAt \in [Lifts -> Nat]
    /\ btc \in [Lifts -> {"none", "mempool", "locked", "swept", "refunded"}]
    /\ leg \in [Lifts -> {"none", "wrong", "unanchored", "anchored", "refunded", "claimed"}]
    /\ flawed \subseteq Lifts /\ refunds \subseteq Lifts
    /\ now \in 0 .. MaxTime

\* The secret is out only for a leg that is the agreed one and that the maker can no
\* longer take back, whoever claimed it and however long the broadcast took.
RevealedIsOurs ==
    \A l \in Lifts : sentAt[l] # Never => l \notin flawed /\ leg[l] \in {"anchored", "claimed"}

Resolved(l) == sentAt[l] # Never \/ l \in refunds

\* Each lift's Bitcoin has its record in the slot until it is claimed for or refunded.
Record(l) == INSTANCE SwapRecord WITH
    recorded  <- slot.of = l /\ slot.step # "secretReady",
    committed <- btc[l] # "none",
    resolved  <- Resolved(l)

WriteAhead ==
    /\ \A l \in Lifts : Record(l)!Init
    /\ [][\A l \in Lifts : [Record(l)!Next]_(Record(l)!vars)]_vars

\* Locked Bitcoin comes back, or the asset comes in, unless the record has reached the
\* steps at which the screen offers the claim only.
LockedComesBack ==
    \A l \in Lifts : btc[l] = "locked" ~>
        (btc[l] = "refunded" \/ leg[l] = "claimed" \/ slot.step \in {"seqLocked", "seqVerified"})

\* "The taker's BTC is ALWAYS refundable after T_btc": it never stays locked for ever
\* with the asset not claimed.
AlwaysRefundable ==
    \A l \in Lifts : btc[l] = "locked" ~> (btc[l] = "refunded" \/ leg[l] = "claimed")

\* "Starting a new lift would OVERWRITE an in-flight one with locked BTC, destroying its
\* only refund keys. Refuse until the existing swap is finished or its BTC refunded."
NeverOverwritten == \A l \in Lifts : Record(l)!NeverForgotten
=============================================================================
