----------------------------- MODULE SwapRecord -----------------------------
(***************************************************************************)
(* What every swap of the wallet promises of its record, whatever the      *)
(* rails: money leaves the wallet only while a record that can bring it    *)
(* back, or bring the counter-value in, is in the store, and the record    *)
(* stays there until the money is back or the counter-value is on its way. *)
(*                                                                         *)
(* The swap modules (SubmarineBuy, SubmarineSell, CrossLift, XrSwap)       *)
(* implement this one: each maps these variables to its own and has Spec   *)
(* as a property.                                                          *)
(***************************************************************************)

VARIABLES
    recorded,   \* the record with its recovery material is in the store
    committed,  \* money of ours is out
    resolved    \* the claim or the refund that ends the swap has been sent

vars == <<recorded, committed, resolved>>

Init == recorded = FALSE /\ committed = FALSE /\ resolved = FALSE

Record ==
    /\ ~recorded /\ recorded' = TRUE
    /\ UNCHANGED <<committed, resolved>>

Commit ==
    /\ recorded /\ ~committed /\ committed' = TRUE
    /\ UNCHANGED <<recorded, resolved>>

\* The rail gives the money back by itself: a Lightning payment that fails.
Release ==
    /\ committed /\ ~resolved /\ committed' = FALSE
    /\ UNCHANGED <<recorded, resolved>>

Resolve ==
    /\ recorded /\ committed /\ ~resolved /\ resolved' = TRUE
    /\ UNCHANGED <<recorded, committed>>

Forget ==
    /\ recorded /\ (committed => resolved)
    /\ recorded' = FALSE
    /\ UNCHANGED <<committed, resolved>>

Next == Record \/ Commit \/ Release \/ Resolve \/ Forget

Spec == Init /\ [][Next]_vars

-----------------------------------------------------------------------------
TypeOK == recorded \in BOOLEAN /\ committed \in BOOLEAN /\ resolved \in BOOLEAN

\* Money that is out and not yet on its way back always has its record.
NeverForgotten == committed /\ ~resolved => recorded
=============================================================================
