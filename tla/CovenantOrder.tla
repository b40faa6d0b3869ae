--------------------------- MODULE CovenantOrder ---------------------------
(***************************************************************************)
(* A resting covenant order (ambra_core/src/seqob_covenant_derive.rs,      *)
(* api/mod.rs 384-1114 and the maker's flow in the app): the maker locks   *)
(* sell atoms of asset A under a taptree of two leaves.  FILL lets anyone  *)
(* take part of it against a credit of asset B at the posted rate, the     *)
(* rest going back under the same leaves; REFUND gives it back to the      *)
(* maker after expiry.                                                     *)
(*                                                                         *)
(* A covenant script is abstracted to the terms its leaves are made of.    *)
(* Outputs are numbered as they are made; 1 is the one the maker funded,   *)
(* the one his stored record names (PlacedOrders).                         *)
(***************************************************************************)
EXTENDS Integers, Sequences, FiniteSets, FiniteSetsExt

CONSTANTS
    Offers,     \* [sell, buy] amounts a maker asks for
    LotDiv,     \* the least fill is this share of the amount sold (1000)
    Word,       \* the largest number of the script's arithmetic (2^63 - 1)
    Horizon,    \* blocks until REFUND opens (1440)
    Purse,      \* asset B the taker of this wallet holds
    MaxHeight   \* bound on the chain

ASSUME CovConstants ==
    /\ Offers \subseteq [sell : Nat, buy : Nat]
    /\ {LotDiv, Horizon} \subseteq Nat \ {0}
    /\ {Word, Purse, MaxHeight} \subseteq Nat

VARIABLES
    terms,      \* what the covenant is derived from; none before PrepareOrder
    stage,      \* the maker's flow in the running app
    offered,    \* the relay lists the offer
    outs,       \* asset A locked in each output made under the covenant
    spent,      \* the outputs that are spent
    height,     \* the chain's tip
    fills,      \* fills built by a taker and not sent
    refund,     \* the refund built and not sent, as a set
    sold,       \* asset A that takers got
    credit,     \* asset B the maker got for it
    reclaimed   \* asset A the maker got back

chainVars == <<outs, spent, sold, credit, reclaimed>>
covVars == <<terms, stage, offered, chainVars, height, fills, refund>>

Terms == [sell : Nat, asset : {"A"}, key : {"NUMS"}, num : Nat, den : Nat, lot : Nat, expiry : Nat]
NoTerms == [sell |-> 0, asset |-> "A", key |-> "NUMS", num |-> 0, den |-> 0, lot |-> 0, expiry |-> 0]
Fill   == [out : Nat, filled : Nat, remainder : Nat, pays : Nat]
Live   == (1..Len(outs)) \ spent
Stages == {"idle", "prepared", "funded"}

(***************************************************************************)
(* The derivation and the planning of a fill.                              *)
(***************************************************************************)

Divides(d, n) == n % d = 0
Gcd(a, b) == CHOOSE d \in 1..a : /\ Divides(d, a) /\ Divides(d, b)
                                 /\ \A e \in 1..a : Divides(e, a) /\ Divides(e, b) => e <= d

\* compute_rate: the reduced rate, buy atoms for each den sold.
ComputeRate(o) == LET g == Gcd(o.buy, o.sell) IN [num |-> o.buy \div g, den |-> o.sell \div g]

OrderExpiry(tip) == tip + Horizon

\* A bug: rounded in the taker's favour.
FloorPrice(t, filled) == (filled * t.num) \div t.den

\* The price of the leaf.
LeafPrice(t, filled) == (filled * t.num + t.den - 1) \div t.den

\* ceil_price: computed in 128 bits, returned in the 64 of a u64.
CeilPrice(t, filled) == LeafPrice(t, filled) % (2 * (Word + 1))

\* A bug: the remainder has no floor.
PlanDust(t, locked, filled) == filled \in 1..locked /\ filled >= t.lot

\* plan_fill: the floors of the leaf, on what is taken and on what is left.
PlanFill(t, locked, filled) ==
    /\ filled \in 1..locked /\ filled >= t.lot
    /\ locked - filled = 0 \/ locked - filled >= t.lot

Fits(n) == n <= Word

\* A bug of the leaf: what stays has no floor.
FillLeafDust(t, locked, f) ==
    /\ locked - f.remainder >= t.lot
    /\ Fits((locked - f.remainder) * t.num + t.den - 1)
    /\ f.pays >= LeafPrice(t, locked - f.remainder)

\* A bug of the leaf: the price is rounded down.
FillLeafFloor(t, locked, f) ==
    /\ f.remainder = 0 \/ f.remainder >= t.lot
    /\ locked - f.remainder >= t.lot
    /\ Fits((locked - f.remainder) * t.num + t.den - 1)
    /\ f.pays >= FloorPrice(t, locked - f.remainder)

\* build_fill_leaf, as the node runs it on a spend: SUB64, MUL64 and ADD64 fail on overflow.
FillLeaf(t, locked, f) ==
    /\ f.remainder = 0 \/ f.remainder >= t.lot
    /\ locked - f.remainder >= t.lot
    /\ Fits((locked - f.remainder) * t.num) /\ Fits((locked - f.remainder) * t.num + t.den - 1)
    /\ f.pays >= LeafPrice(t, locked - f.remainder)

\* build_refund_leaf: the maker's signature, and the tip at the expiry.
RefundLeaf(t) == height >= t.expiry

\* order_from_terms: what the relay or the record holds, read by name; a number that is not there is 0,
\* a key that is not there is the one nobody knows.
Ct(ct, name, absent) == IF name \in DOMAIN ct THEN ct[name] ELSE absent
OrderFromTerms(ct) == [asset |-> Ct(ct, "asset", ""), key |-> Ct(ct, "key", "NUMS"), num |-> Ct(ct, "num", 0),
                       den |-> Ct(ct, "den", 0), lot |-> Ct(ct, "lot", 0), expiry |-> Ct(ct, "expiry", 0)]

\* derive_taptree: the script commits to its key and to what its leaves are made of, not to the amount sold.
Taptree(t) == [key |-> t.key, fill |-> <<t.asset, t.num, t.den, t.lot>>, refund |-> t.expiry]

\* verify_against_spk: no key-path, and the order must derive the script of the funded output; its caller
\* compares the asset that is locked.
VerifyAgainstSpk(order) == order.key = "NUMS" /\ Taptree(order) = Taptree(terms) /\ order.asset = "A"

\* fetch_utxo: what output o locks, by the transaction that made it, whether or not it is spent by now.
FetchUtxo(o) == outs[o]

(***************************************************************************)
(* The maker.                                                              *)
(***************************************************************************)

\* covenant_prepare_offer
PrepareOrder(o) ==
    /\ stage = "idle" /\ terms = NoTerms
    /\ o.sell > 0 /\ o.buy > 0
    /\ LET rate == ComputeRate(o)
           lot  == IF o.sell \div LotDiv > 0 THEN o.sell \div LotDiv ELSE 1
       IN terms' = [sell |-> o.sell, asset |-> "A", key |-> "NUMS", num |-> rate.num, den |-> rate.den,
                    lot |-> lot, expiry |-> OrderExpiry(height)]
    /\ stage' = "prepared"
    /\ UNCHANGED <<offered, chainVars, height, fills, refund>>

\* The covenant's address is paid.
Fund ==
    /\ stage = "prepared" /\ outs = <<>>
    /\ outs' = <<terms.sell>>
    /\ stage' = "funded"
    /\ UNCHANGED <<terms, offered, spent, height, fills, refund, sold, credit, reclaimed>>

\* covenant_finalize_offer, posted.
Post ==
    /\ stage = "funded"
    /\ offered' = TRUE
    /\ stage' = "idle"
    /\ UNCHANGED <<terms, chainVars, height, fills, refund>>

\* seqob_sign_cancel: the maker delists, or the listing runs out.
Delist ==
    /\ offered
    /\ offered' = FALSE
    /\ UNCHANGED <<terms, stage, chainVars, height, fills, refund>>

\* covenant_build_refund_tx for the recorded output, which the orders screen allows from the expiry on.
BuildRefund ==
    /\ outs # <<>> /\ height >= terms.expiry /\ refund = {}
    /\ refund' = {[out |-> 1, locked |-> FetchUtxo(1)]}
    /\ UNCHANGED <<terms, stage, offered, chainVars, height, fills>>

\* Sent: the node takes it from the expiry on, while the output is unspent.
SendRefund(r) ==
    /\ r \in refund
    /\ refund' = {}
    /\ IF r.out \in Live /\ RefundLeaf(terms)
       THEN spent' = spent \cup {r.out} /\ reclaimed' = reclaimed + r.locked
       ELSE UNCHANGED <<spent, reclaimed>>
    /\ UNCHANGED <<terms, stage, offered, outs, height, fills, sold, credit>>

(***************************************************************************)
(* The takers.                                                             *)
(***************************************************************************)

Affordable(pays) == pays <= Purse

\* covenant_build_fill_tx on the terms t the relay serves: the amount is clamped to what is locked.
BuildFill(t, o, take, fee) ==
    /\ offered /\ fee # "A"
    /\ LET order  == OrderFromTerms(t)
           locked == FetchUtxo(o)
           filled == IF take < locked THEN take ELSE locked
           pays   == CeilPrice(order, filled)
       IN /\ VerifyAgainstSpk(order) /\ PlanFill(order, locked, filled) /\ Affordable(pays)
          /\ fills' = fills \cup {[out |-> o, filled |-> filled, remainder |-> locked - filled,
                                   pays |-> pays]}
    /\ UNCHANGED <<terms, stage, offered, chainVars, height, refund>>

\* The node accepts a fill of an unspent output that the leaf accepts.
SettleFill(f) ==
    /\ f.out \in Live /\ FillLeaf(terms, outs[f.out], f)
    /\ spent' = spent \cup {f.out}
    /\ outs' = IF f.remainder = 0 THEN outs ELSE Append(outs, f.remainder)
    /\ sold' = sold + (outs[f.out] - f.remainder)
    /\ credit' = credit + f.pays
    /\ UNCHANGED <<terms, stage, offered, height, refund, reclaimed>>

\* xchain_seq_broadcast of a built fill, accepted or not.
SendFill(f) == f \in fills /\ fills' = fills \ {f} /\ SettleFill(f)
FillRefused(f) ==
    /\ f \in fills
    /\ ~(f.out \in Live /\ FillLeaf(terms, outs[f.out], f))
    /\ fills' = fills \ {f}
    /\ UNCHANGED <<terms, stage, offered, chainVars, height, refund>>

\* Anyone may fill with software of his own.
OthersFill(f) == SettleFill(f) /\ UNCHANGED fills

Block ==
    /\ height < MaxHeight
    /\ height' = height + 1
    /\ UNCHANGED <<terms, stage, offered, chainVars, fills, refund>>

\* A step of the maker's flow fails, or the app is killed: what is stored and on the chain stays.
RestartWallet ==
    /\ stage' = "idle" /\ fills' = {} /\ refund' = {}
    /\ terms' = IF outs = <<>> THEN NoTerms ELSE terms
    /\ UNCHANGED <<offered, chainVars, height>>

\* The terms the relay serves: the maker's, others, or some with a field lost.
Served   == {terms, [terms EXCEPT !.num = @ - 1], [terms EXCEPT !.key = "maker"],
             [f \in DOMAIN terms \ {"lot"} |-> terms[f]]}
MaxSell  == Max({o.sell : o \in Offers})
OwnFills == UNION {[out : {o}, filled : {0}, remainder : 0..outs[o], pays : 0..Word] : o \in Live}

CovInit ==
    /\ terms = NoTerms /\ stage = "idle" /\ offered = FALSE
    /\ outs = <<>> /\ spent = {} /\ height = 0
    /\ fills = {} /\ refund = {}
    /\ sold = 0 /\ credit = 0 /\ reclaimed = 0

CovNext ==
    \/ \E o \in Offers : PrepareOrder(o)
    \/ Fund \/ Post \/ Delist
    \/ BuildRefund \/ \E r \in refund : SendRefund(r)
    \/ \E t \in Served, o \in DOMAIN outs, take \in 1..MaxSell, fee \in {"A", "B"} : BuildFill(t, o, take, fee)
    \/ \E f \in fills : SendFill(f) \/ FillRefused(f)
    \/ \E f \in OwnFills : OthersFill(f)
    \/ Block
    \/ RestartWallet

CovSpec == CovInit /\ [][CovNext]_covVars

(***************************************************************************)
(* Properties.                                                             *)
(***************************************************************************)

\* Types; what was locked is sold, reclaimed or still locked.
CovTypeOK ==
    /\ terms \in Terms /\ stage \in Stages
    /\ offered \in BOOLEAN
    /\ outs \in Seq(Nat) /\ spent \subseteq 1..Len(outs) /\ height \in 0..MaxHeight
    /\ fills \subseteq Fill /\ refund \subseteq [out : {1}, locked : Nat]
    /\ {sold, credit, reclaimed} \subseteq Nat
    /\ outs # <<>> => MapThenSumSet(LAMBDA o : outs[o], Live) + sold + reclaimed = terms.sell

\* Through any sequence of partial fills, by this wallet's software or another's, the maker has been
\* paid at least the posted rate for all that was taken ("rounding in the maker's favour", covenant
\* derivation, ceil_price).
MakerPaid == credit * terms.den >= sold * terms.num

\* No fill leaves an output that no later fill could take ("would be dust-griefing", plan_fill).
NoDust == \A o \in Live : outs[o] >= terms.lot

\* A fill this wallet builds is one the leaf accepts, as long as the script's arithmetic can compute its
\* price ("matches the FILL leaf's on-chain 64-bit arithmetic", ceil_price).
PlannedFillPasses ==
    \A f \in fills : Fits(f.filled * terms.num + terms.den - 1) => FillLeaf(terms, outs[f.out], f)
=============================================================================
