---------------------------- MODULE PlacedOrders ----------------------------
(***************************************************************************)
(* How the maker of a resting covenant order keeps the means to get his    *)
(* funds back: _executeRestPost (swap_screen.dart) funds the covenant,     *)
(* stores its reclaim material and posts the offer; the orders screen      *)
(* (my_orders_screen.dart) delists, reclaims and then forgets it.  The     *)
(* material of every order is in one stored list (placed_orders.dart) that *)
(* each writer reads, changes and writes back whole, and nothing keeps     *)
(* another writer out meanwhile.                                           *)
(*                                                                         *)
(* The covenant itself is CovenantOrder; here its funded output is locked  *)
(* until it is filled or reclaimed.  "other" stands for the other orders   *)
(* of this wallet, the silent peg's included.                              *)
(***************************************************************************)
EXTENDS Naturals

VARIABLES
    flow,       \* how far the flow that rests the order is
    reclaim,    \* the reclaim of the orders screen
    placed,     \* the orders in the stored list; a list that does not decode is read as an empty one
    read,       \* the list each writer has read and not written back, as a set
    apart,      \* so far no list was written over a later one
    decodes,    \* so far every list decoded
    output,     \* the funded output
    expired,    \* its expiry is reached
    resting,    \* the relay lists the offer
    listed      \* it was listed once

listVars   == <<placed, read, apart, decodes>>
covenant   == <<output, expired>>
relayVars  == <<resting, listed>>
placedVars == <<flow, reclaim, listVars, covenant, relayVars>>

Flows    == {"idle", "prepared", "funded", "recorded", "finalized", "signed", "posted", "done"}
Reclaims == {"none", "built", "sent"}
Orders   == {"mine", "other"}
Outputs1 == {"none", "locked", "spent"}
Writers  == {"rest", "reclaim", "another"}

(***************************************************************************)
(* The stored list.                                                        *)
(***************************************************************************)

\* list(), as put and remove await it.
ReadList(w) == read[w] = {} /\ read' = [read EXCEPT ![w] = {placed}]

\* _save: what was read, without some records and with others, replaces what is stored by now.
WriteList(w, gone, new) ==
    \E was \in read[w] :
       /\ placed' = (was \ gone) \cup new
       /\ apart' = (apart /\ was = placed)
       /\ read' = [read EXCEPT ![w] = {}]

\* The list stops decoding: it reads as [], and the next save replaces it.
Undecodable ==
    /\ placed # {}
    /\ placed' = {} /\ decodes' = FALSE
    /\ UNCHANGED <<flow, reclaim, read, apart, covenant, relayVars>>

\* Another order is recorded or reclaimed.
AnotherReads ==
    /\ ReadList("another")
    /\ UNCHANGED <<flow, reclaim, placed, apart, decodes, covenant, relayVars>>
AnotherWrites ==
    /\ WriteList("another", {}, {"other"}) \/ WriteList("another", {"other"}, {})
    /\ UNCHANGED <<flow, decodes, reclaim, covenant, relayVars>>

(***************************************************************************)
(* The flow that rests the order.                                          *)
(***************************************************************************)

\* covenant_prepare_offer
Prepare ==
    /\ flow = "idle"
    /\ flow' = "prepared"
    /\ UNCHANGED <<reclaim, listVars, covenant, relayVars>>

\* The covenant's address is paid.
FundOrder ==
    /\ flow = "prepared"
    /\ output' = "locked"
    /\ flow' = "funded"
    /\ UNCHANGED <<reclaim, listVars, expired, relayVars>>

\* The record is put three times: with the outpoint, with the offer's name, and as posted.
AfterPut == [funded |-> "recorded", finalized |-> "signed", posted |-> "done"]
PutReads ==
    /\ flow \in DOMAIN AfterPut /\ ReadList("rest")
    /\ UNCHANGED <<flow, reclaim, placed, apart, decodes, covenant, relayVars>>
PutWrites ==
    /\ flow \in DOMAIN AfterPut /\ WriteList("rest", {}, {"mine"})
    /\ flow' = AfterPut[flow]
    /\ UNCHANGED <<reclaim, decodes, covenant, relayVars>>

\* covenant_finalize_offer
FinalizeOffer ==
    /\ flow = "recorded"
    /\ flow' = "finalized"
    /\ UNCHANGED <<reclaim, listVars, covenant, relayVars>>

\* A bug: the offer is posted before its record is put.
PostFirst ==
    /\ flow \in {"funded", "signed"}
    /\ resting' = TRUE /\ listed' = TRUE
    /\ flow' = IF flow = "signed" THEN "posted" ELSE "funded"
    /\ UNCHANGED <<reclaim, listVars, covenant>>

\* The relay takes the offer; when its answer is lost, the flow ends in AbandonRest.
PostRest ==
    /\ flow = "signed"
    /\ resting' = TRUE /\ listed' = TRUE
    /\ flow' = "posted"
    /\ UNCHANGED <<reclaim, listVars, covenant>>

\* A step of the flow fails and is shown.
AbandonRest ==
    /\ flow \notin {"idle", "done"}
    /\ flow' = "done" /\ read' = [read EXCEPT !["rest"] = {}]
    /\ UNCHANGED <<reclaim, placed, apart, decodes, covenant, relayVars>>

(***************************************************************************)
(* The orders screen.                                                      *)
(***************************************************************************)

\* seqob_sign_cancel: the maker delists, or the listing runs out.  The record stays.
Unlist ==
    /\ resting
    /\ resting' = FALSE
    /\ UNCHANGED <<flow, reclaim, listVars, covenant, listed>>

\* covenant_build_refund_tx for a recorded order that has expired, after an attempt to delist it.
BuildReclaim ==
    /\ "mine" \in placed /\ expired /\ reclaim = "none"
    /\ resting' \in {resting, FALSE}
    /\ reclaim' = "built"
    /\ UNCHANGED <<flow, listVars, covenant, listed>>

\* xchain_seq_broadcast: taken and answered, taken and not answered, or refused.
SendReclaim ==
    /\ reclaim = "built"
    /\ \/ output = "locked" /\ output' = "spent" /\ reclaim' \in {"sent", "none"}
       \/ output' = output /\ reclaim' = "none"
    /\ UNCHANGED <<flow, listVars, expired, relayVars>>

\* PlacedOrders.remove, once the refund is taken.
RemoveReads ==
    /\ reclaim = "sent" /\ ReadList("reclaim")
    /\ UNCHANGED <<flow, reclaim, placed, apart, decodes, covenant, relayVars>>
RemoveWrites ==
    /\ WriteList("reclaim", {"mine"}, {})
    /\ reclaim' = "none"
    /\ UNCHANGED <<flow, decodes, covenant, relayVars>>

(***************************************************************************)
(* The chain and the device.                                               *)
(***************************************************************************)

\* A taker fills it, of which the wallet is not told.
Filled ==
    /\ output = "locked"
    /\ output' = "spent"
    /\ UNCHANGED <<flow, reclaim, listVars, expired, relayVars>>

Expire ==
    /\ ~expired /\ output # "none"
    /\ expired' = TRUE
    /\ UNCHANGED <<flow, reclaim, listVars, output, relayVars>>

\* The app is killed: what is stored and on the chain stays.
Relaunch ==
    /\ flow' = IF output = "none" THEN "idle" ELSE "done"
    /\ reclaim' = "none" /\ read' = [w \in Writers |-> {}]
    /\ UNCHANGED <<placed, apart, decodes, covenant, relayVars>>

PlacedInit ==
    /\ flow = "idle" /\ reclaim = "none"
    /\ placed = {} /\ read = [w \in Writers |-> {}] /\ apart = TRUE /\ decodes = TRUE
    /\ output = "none" /\ expired = FALSE
    /\ resting = FALSE /\ listed = FALSE

PlacedNext ==
    \/ Prepare \/ FundOrder \/ PutReads \/ PutWrites \/ FinalizeOffer \/ PostRest \/ AbandonRest
    \/ Unlist \/ BuildReclaim \/ SendReclaim \/ RemoveReads \/ RemoveWrites
    \/ AnotherReads \/ AnotherWrites \/ Undecodable
    \/ Filled \/ Expire \/ Relaunch

PlacedSpec == PlacedInit /\ [][PlacedNext]_placedVars

(***************************************************************************)
(* Properties.                                                             *)
(***************************************************************************)

\* Types.
PlacedTypeOK ==
    /\ flow \in Flows /\ reclaim \in Reclaims /\ output \in Outputs1
    /\ {apart, decodes, expired, resting, listed} \subseteq BOOLEAN
    /\ placed \subseteq Orders /\ read \in [Writers -> SUBSET SUBSET Orders]

\* An offer that was ever listed has its reclaim material stored until the funded output is spent, also when
\* the app is killed on the way, the post is not answered, or the reclaim fails (PlacedOrders.put before the
\* post, remove after the broadcast; "can never strand the funds without a local record", _executeRestPost).
\* It is lost in two ways only, which nothing in the code prevents: another order is recorded or reclaimed
\* between a read of the list and its write, or the list does not decode.
ReclaimKept == listed /\ decodes /\ apart => "mine" \in placed \/ output = "spent"
=============================================================================
