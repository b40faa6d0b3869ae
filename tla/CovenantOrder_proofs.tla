------------------------- MODULE CovenantOrder_proofs -------------------------
(***************************************************************************)
(* What a resting covenant order promises its maker and its takers, for    *)
(* any offers, least lots, word width, horizon and chain.                  *)
(***************************************************************************)
EXTENDS CovenantOrder, PlacedOrders, WellFoundedInduction, TLAPS

-----------------------------------------------------------------------------
(* Arithmetic.                                                             *)

\* Numbers below one another are well founded.
LEMMA Below == IsWellFoundedOn({ss \in Nat \X Nat : ss[1] < ss[2]}, Nat)
<1>1. OpToRel(<, Nat) = {ss \in Nat \X Nat : ss[1] < ss[2]}
  BY DEF OpToRel
<1> QED BY <1>1, NatLessThanWellFounded

\* A set of numbers has a least one.
LEMMA Least ==
  ASSUME NEW T \in SUBSET Nat, T # {}
  PROVE  \E x \in T : \A y \in T : x <= y
<1>1. PICK x \in T : \A y \in T : ~(<<y, x>> \in {ss \in Nat \X Nat : ss[1] < ss[2]})
  BY Below, WFMin
<1>2. \A y \in T : ~(y < x)
  BY <1>1
<1> QED BY <1>2

\* A bounded one has a greatest.
LEMMA Greatest ==
  ASSUME NEW a \in Nat, NEW T \in SUBSET (1..a), T # {}
  PROVE  \E x \in T : \A y \in T : y <= x
<1>1. {n \in Nat : \E y \in T : n = a - y} # {}
  <2>1. PICK y \in T : TRUE
    OBVIOUS
  <2>2. a - y \in Nat
    OBVIOUS
  <2> QED BY <2>2
<1>2. PICK u \in {n \in Nat : \E y \in T : n = a - y} : \A v \in {n \in Nat : \E y \in T : n = a - y} : u <= v
  BY <1>1, Least
<1>3. PICK x \in T : u = a - x
  BY <1>2
<1>4. \A y \in T : a - y \in {n \in Nat : \E z \in T : n = a - z}
  OBVIOUS
<1>5. \A y \in T : a - x <= a - y
  BY <1>2, <1>3, <1>4
<1> QED BY <1>5

\* The greatest common divisor divides both.
LEMMA GcdDivides ==
  ASSUME NEW a \in Nat \ {0}, NEW b \in Nat
  PROVE  Gcd(a, b) \in 1..a /\ Divides(Gcd(a, b), a) /\ Divides(Gcd(a, b), b)
<1>1. 1 \in {d \in 1..a : Divides(d, a) /\ Divides(d, b)}
  BY DEF Divides
<1>2. \E x \in {d \in 1..a : Divides(d, a) /\ Divides(d, b)} :
         \A y \in {d \in 1..a : Divides(d, a) /\ Divides(d, b)} : y <= x
  BY <1>1, Greatest
<1>3. \E d \in 1..a : /\ Divides(d, a) /\ Divides(d, b)
                      /\ \A e \in 1..a : Divides(e, a) /\ Divides(e, b) => e <= d
  BY <1>2
<1> QED BY <1>3 DEF Gcd

\* A quotient of numbers is one, and exact up to the remainder.
LEMMA Quotient ==
  ASSUME NEW a \in Nat, NEW d \in Nat \ {0}
  PROVE  /\ a \div d \in Nat /\ a \div d <= a
         /\ a = d * (a \div d) + (a % d) /\ a % d \in 0..(d - 1)
OBVIOUS

\* A number below the width is its own remainder.
LEMMA Small == ASSUME NEW a \in Nat, NEW m \in Nat, a < m PROVE a % m = a
OBVIOUS

\* Products of numbers are numbers.
LEMMA Product == ASSUME NEW a \in Nat, NEW b \in Nat PROVE a * b \in Nat
OBVIOUS

\* A positive number has a positive quotient by what divides it.
LEMMA ExactQuotient ==
  ASSUME NEW a \in Nat \ {0}, NEW d \in Nat \ {0}, a % d = 0
  PROVE  a \div d >= 1
OBVIOUS

\* What is at least the rounded-up price pays the rate.
LEMMA CeilPays ==
  ASSUME NEW a \in Nat, NEW p \in Nat, NEW d \in Nat \ {0}, p >= (a + d - 1) \div d
  PROVE  p * d >= a
OBVIOUS

\* The posted rate has a positive denominator.
LEMMA RateTyped ==
  ASSUME NEW o \in [sell : Nat, buy : Nat], o.sell > 0, o.buy > 0
  PROVE  ComputeRate(o).num \in Nat /\ ComputeRate(o).den \in Nat \ {0}
<1> DEFINE g == Gcd(o.buy, o.sell)
<1>1. o.buy \in Nat \ {0} /\ o.sell \in Nat \ {0}
  OBVIOUS
<1>2. g \in 1..o.buy /\ Divides(g, o.sell)
  BY <1>1, GcdDivides
<1>3. ComputeRate(o).num = o.buy \div g /\ ComputeRate(o).den = o.sell \div g
  BY DEF ComputeRate
<1> HIDE DEF g
<1>4. g \in Nat \ {0} /\ o.sell % g = 0
  BY <1>1, <1>2 DEF Divides
<1>5. o.buy \div g \in Nat /\ o.sell \div g \in Nat
  BY <1>1, <1>4, Quotient
<1>6. o.sell \div g >= 1
  BY <1>1, <1>4, ExactQuotient
<1> QED BY <1>3, <1>5, <1>6

-----------------------------------------------------------------------------
(* The inductive invariant.                                                *)

\* Types, and before the covenant is funded nothing has happened under it.
TypeInv ==
  /\ terms \in Terms /\ stage \in Stages /\ offered \in BOOLEAN
  /\ outs \in Seq(Nat) /\ spent \subseteq 1..Len(outs) /\ height \in Nat
  /\ sold \in Nat /\ credit \in Nat /\ reclaimed \in Nat
  /\ outs = <<>> => sold = 0 /\ credit = 0 /\ fills = {} /\ ~offered
  /\ refund # {} \/ stage = "funded" => outs # <<>>
  /\ \A r \in refund : r.out = 1 /\ r.locked \in Nat

\* Once prepared, the terms have a price and a least lot within the amount sold.
TermsInv ==
  terms # NoTerms \/ outs # <<>> \/ stage = "prepared" =>
    terms.den >= 1 /\ terms.lot >= 1 /\ terms.lot <= terms.sell

\* A built fill is planned by the floors and the price of the leaf.
Planned(f) ==
  /\ f.out \in 1..Len(outs) /\ f.filled \in 1..outs[f.out]
  /\ f.remainder = outs[f.out] - f.filled
  /\ f.filled >= terms.lot /\ (f.remainder = 0 \/ f.remainder >= terms.lot)
  /\ f.pays = CeilPrice(terms, f.filled)

FillsInv == \A f \in fills : Planned(f)

CovInv == TypeInv /\ TermsInv /\ FillsInv /\ MakerPaid /\ NoDust

\* Initially no order has been prepared.
LEMMA CovInitInv == CovInit => CovInv
<1> SUFFICES ASSUME CovInit PROVE CovInv
  OBVIOUS
<1>1. TypeInv
  <2>1. NoTerms \in Terms /\ <<>> \in Seq(Nat)
    BY DEF NoTerms, Terms
  <2> QED BY <2>1 DEF CovInit, TypeInv, Stages
<1>2. TermsInv /\ FillsInv /\ NoDust
  BY DEF CovInit, TermsInv, FillsInv, NoDust, Live
<1>3. MakerPaid
  <2>1. terms.num = 0 /\ terms.den = 0 /\ sold = 0 /\ credit = 0
    BY DEF CovInit, NoTerms
  <2> QED BY <2>1 DEF MakerPaid
<1> QED BY <1>1, <1>2, <1>3 DEF CovInv

\* Terms are numbers.
LEMMA TermsTyped ==
  ASSUME TypeInv
  PROVE  terms.sell \in Nat /\ terms.num \in Nat /\ terms.den \in Nat /\ terms.lot \in Nat /\ terms.expiry \in Nat
BY DEF TypeInv, Terms

\* New terms are made only when nothing is locked.
LEMMA PrepareStep ==
  ASSUME CovInv, NEW o \in Offers, PrepareOrder(o)
  PROVE  CovInv'
<1> DEFINE lot == IF o.sell \div LotDiv > 0 THEN o.sell \div LotDiv ELSE 1
<1>1. o \in [sell : Nat, buy : Nat] /\ o.sell > 0 /\ o.buy > 0 /\ LotDiv \in Nat \ {0} /\ Horizon \in Nat
  BY CovConstants DEF PrepareOrder
<1>2. /\ terms' = [sell |-> o.sell, asset |-> "A", key |-> "NUMS", num |-> ComputeRate(o).num,
                   den |-> ComputeRate(o).den, lot |-> lot, expiry |-> height + Horizon]
      /\ stage' = "prepared" /\ stage = "idle" /\ terms = NoTerms
      /\ UNCHANGED <<offered, outs, spent, sold, credit, reclaimed, height, fills, refund>>
  BY DEF PrepareOrder, OrderExpiry, chainVars
<1>3. o.sell \div LotDiv \in Nat /\ o.sell \div LotDiv <= o.sell
  BY <1>1, Quotient
<1>4. lot \in Nat /\ lot >= 1 /\ lot <= o.sell
  BY <1>1, <1>3
<1> HIDE DEF lot
<1>5. outs = <<>>
  BY <1>2 DEF CovInv, TermsInv, NoTerms
<1>6. terms' \in Terms /\ terms'.den >= 1 /\ terms'.lot >= 1 /\ terms'.lot <= terms'.sell
  BY <1>1, <1>2, <1>4, RateTyped DEF Terms, CovInv, TypeInv
<1>7. fills = {} /\ sold = 0 /\ credit = 0 /\ ~offered
  BY <1>5 DEF CovInv, TypeInv
<1>8. TypeInv'
  BY <1>2, <1>6 DEF CovInv, TypeInv, Stages
<1>9. NoDust' /\ FillsInv' /\ TermsInv'
  BY <1>2, <1>5, <1>6, <1>7 DEF NoDust, FillsInv, TermsInv, Live
<1>10. MakerPaid'
  BY <1>2, <1>6, <1>7 DEF MakerPaid, Terms
<1> QED BY <1>8, <1>9, <1>10 DEF CovInv

\* The funded output holds all that is to be sold.
LEMMA FundStep ==
  ASSUME CovInv, Fund
  PROVE  CovInv'
<1>1. /\ stage = "prepared" /\ outs = <<>> /\ outs' = <<terms.sell>> /\ stage' = "funded"
      /\ UNCHANGED <<terms, offered, spent, height, fills, refund, sold, credit, reclaimed>>
  BY DEF Fund
<1>2. terms.sell \in Nat /\ terms.lot \in Nat /\ terms.lot <= terms.sell /\ terms.den >= 1 /\ terms.lot >= 1
  BY <1>1, TermsTyped DEF CovInv, TermsInv
<1>3. spent = {} /\ fills = {} /\ ~offered /\ outs' \in Seq(Nat) /\ Len(outs') = 1 /\ outs'[1] = terms.sell
  BY <1>1, <1>2 DEF CovInv, TypeInv
<1>4. TypeInv'
  BY <1>1, <1>3 DEF CovInv, TypeInv, Stages
<1>5. TermsInv' /\ FillsInv' /\ NoDust'
  BY <1>1, <1>2, <1>3 DEF TermsInv, FillsInv, NoDust, Live
<1>6. MakerPaid'
  BY <1>1 DEF CovInv, MakerPaid
<1> QED BY <1>4, <1>5, <1>6 DEF CovInv

\* Posting, delisting and the chain's clock lock nothing.
LEMMA FlowStep ==
  ASSUME CovInv, Post \/ Delist \/ Block
  PROVE  CovInv'
<1>1. UNCHANGED <<terms, outs, spent, sold, credit, reclaimed, fills, refund>>
  BY DEF Post, Delist, Block, chainVars
<1>2. /\ stage' \in Stages /\ offered' \in BOOLEAN /\ height' \in Nat
      /\ offered' => outs # <<>>
      /\ stage' \in {"prepared", "funded"} => stage' = stage
  <2>1. CASE Post
    BY <2>1 DEF Post, CovInv, TypeInv, Stages
  <2>2. CASE Delist
    BY <2>2 DEF Delist, CovInv, TypeInv, Stages
  <2>3. CASE Block
    BY <2>3 DEF Block, CovInv, TypeInv, Stages
  <2> QED BY <2>1, <2>2, <2>3
<1>3. TypeInv'
  BY <1>1, <1>2 DEF CovInv, TypeInv
<1>4. TermsInv' /\ FillsInv' /\ NoDust' /\ MakerPaid'
  BY <1>1, <1>2 DEF CovInv, TermsInv, FillsInv, Planned, CeilPrice, LeafPrice, NoDust, Live, MakerPaid
<1> QED BY <1>3, <1>4 DEF CovInv

\* The reclaim is built from the funded output.
LEMMA BuildRefundStep ==
  ASSUME CovInv, BuildRefund
  PROVE  CovInv'
<1>1. /\ outs # <<>> /\ refund' = {[out |-> 1, locked |-> outs[1]]}
      /\ UNCHANGED <<terms, stage, offered, outs, spent, sold, credit, reclaimed, height, fills>>
  BY DEF BuildRefund, FetchUtxo, chainVars
<1>3. outs[1] \in Nat
  BY <1>1 DEF CovInv, TypeInv
<1>4. TypeInv'
  BY <1>1, <1>3 DEF CovInv, TypeInv
<1>5. TermsInv' /\ FillsInv' /\ NoDust' /\ MakerPaid'
  BY <1>1 DEF CovInv, TermsInv, FillsInv, Planned, CeilPrice, LeafPrice, NoDust, Live, MakerPaid
<1> QED BY <1>4, <1>5 DEF CovInv

\* A refund the node takes spends the funded output.
LEMMA SendRefundStep ==
  ASSUME CovInv, NEW r \in refund, SendRefund(r)
  PROVE  CovInv'
<1>1. /\ refund' = {} /\ UNCHANGED <<terms, stage, offered, outs, height, fills, sold, credit>>
      /\ \/ r.out \in Live /\ spent' = spent \cup {r.out} /\ reclaimed' = reclaimed + r.locked
         \/ UNCHANGED <<spent, reclaimed>>
  BY DEF SendRefund
<1>2. r.out = 1 /\ r.locked \in Nat /\ reclaimed \in Nat
  BY DEF CovInv, TypeInv
<1>3. spent' \subseteq 1..Len(outs) /\ spent \subseteq spent' /\ reclaimed' \in Nat
  <2>1. Live \subseteq 1..Len(outs) /\ spent \subseteq 1..Len(outs)
    BY DEF Live, CovInv, TypeInv
  <2>2. reclaimed + r.locked \in Nat
    BY <1>2
  <2> QED BY <1>1, <1>2, <2>1, <2>2
<1>4. TypeInv'
  BY <1>1, <1>3 DEF CovInv, TypeInv
<1>5. TermsInv' /\ FillsInv' /\ NoDust' /\ MakerPaid'
  BY <1>1, <1>3 DEF CovInv, TermsInv, FillsInv, Planned, CeilPrice, LeafPrice, NoDust, Live, MakerPaid
<1> QED BY <1>4, <1>5 DEF CovInv

\* A fill is built on the covenant's own terms and by the floors of its leaf.
LEMMA BuildFillStep ==
  ASSUME CovInv, NEW t, NEW o \in DOMAIN outs, NEW take, NEW fee, BuildFill(t, o, take, fee)
  PROVE  CovInv'
<1> DEFINE order == OrderFromTerms(t)
           filled == IF take < outs[o] THEN take ELSE outs[o]
           f == [out |-> o, filled |-> filled, remainder |-> outs[o] - filled, pays |-> CeilPrice(order, filled)]
<1>1. /\ offered /\ Taptree(order) = Taptree(terms) /\ PlanFill(order, outs[o], filled)
      /\ fills' = fills \cup {f}
      /\ UNCHANGED <<terms, stage, offered, outs, spent, sold, credit, reclaimed, height, refund>>
  BY DEF BuildFill, VerifyAgainstSpk, FetchUtxo, chainVars
<1> HIDE DEF order
<1>0. order.num = terms.num /\ order.den = terms.den /\ order.lot = terms.lot
  BY <1>1 DEF Taptree
<1>2. o \in 1..Len(outs) /\ filled \in 1..outs[o] /\ filled >= terms.lot
      /\ (outs[o] - filled = 0 \/ outs[o] - filled >= terms.lot)
  BY <1>0, <1>1 DEF PlanFill, CovInv, TypeInv
<1>3. /\ f.out = o /\ f.filled = filled /\ f.remainder = outs[o] - filled /\ f.pays = CeilPrice(terms, filled)
  BY <1>0 DEF CeilPrice, LeafPrice
<1> HIDE DEF f, filled
<1>4. Planned(f)
  BY <1>2, <1>3 DEF Planned
<1>5. FillsInv'
  BY <1>1, <1>4 DEF CovInv, FillsInv, Planned, CeilPrice, LeafPrice
<1>6. TypeInv'
  BY <1>1, <1>2 DEF CovInv, TypeInv
<1>7. TermsInv' /\ NoDust' /\ MakerPaid'
  BY <1>1 DEF CovInv, TermsInv, NoDust, Live, MakerPaid
<1> QED BY <1>5, <1>6, <1>7 DEF CovInv

\* A fill the leaf accepts pays the rate for what is taken and leaves nothing below the least lot.
LEMMA SettleStep ==
  ASSUME CovInv, NEW f, f.remainder \in Nat, f.pays \in Nat, SettleFill(f), fills' \subseteq fills
  PROVE  CovInv'
<1> DEFINE locked == outs[f.out]
           taken  == locked - f.remainder
<1>1. /\ f.out \in Live /\ FillLeaf(terms, locked, f)
      /\ spent' = spent \cup {f.out}
      /\ outs' = (IF f.remainder = 0 THEN outs ELSE Append(outs, f.remainder))
      /\ sold' = sold + taken /\ credit' = credit + f.pays
      /\ UNCHANGED <<terms, stage, offered, height, refund, reclaimed>>
  BY DEF SettleFill
<1>2. /\ f.out \in 1..Len(outs) /\ locked \in Nat /\ outs # <<>> /\ sold \in Nat /\ credit \in Nat
      /\ outs \in Seq(Nat) /\ spent \subseteq 1..Len(outs)
  <2>1. outs \in Seq(Nat) /\ spent \subseteq 1..Len(outs) /\ sold \in Nat /\ credit \in Nat
    BY DEF CovInv, TypeInv
  <2>2. f.out \in 1..Len(outs)
    BY <1>1 DEF Live
  <2>3. outs[f.out] \in Nat /\ outs # <<>>
    BY <2>1, <2>2
  <2> QED BY <2>1, <2>2, <2>3
<1>3. /\ terms.num \in Nat /\ terms.den \in Nat \ {0} /\ terms.lot \in Nat /\ terms.lot >= 1
  BY <1>2, TermsTyped DEF CovInv, TermsInv
<1>4. /\ f.remainder = 0 \/ f.remainder >= terms.lot
      /\ taken >= terms.lot
      /\ f.pays >= (taken * terms.num + terms.den - 1) \div terms.den
  BY <1>1 DEF FillLeaf, LeafPrice
<1>5. taken \in Nat /\ f.remainder <= locked
  BY <1>2, <1>3, <1>4
<1>6. f.pays * terms.den >= taken * terms.num
  <2>1. taken * terms.num \in Nat
    BY <1>3, <1>5
  <2> HIDE DEF taken
  <2> QED BY <1>3, <1>4, <2>1, CeilPays
<1> HIDE DEF taken
<1>7. /\ outs' \in Seq(Nat) /\ Len(outs) <= Len(outs') /\ Len(outs') <= Len(outs) + 1 /\ Len(outs') \in Nat
      /\ \A i \in 1..Len(outs) : outs'[i] = outs[i]
      /\ \A i \in 1..Len(outs') : i \notin 1..Len(outs) => outs'[i] = f.remainder /\ f.remainder # 0
      /\ outs' # <<>>
  <2>1. Len(outs) \in Nat /\ outs \in Seq(Nat)
    BY <1>2
  <2>2. CASE f.remainder = 0
    <3>1. outs' = outs
      BY <1>1, <2>2
    <3> QED BY <1>2, <2>1, <3>1
  <2>3. CASE f.remainder # 0
    <3>1. outs' = Append(outs, f.remainder)
      BY <1>1, <2>3
    <3>2. outs' \in Seq(Nat) /\ Len(outs') = Len(outs) + 1
      BY <2>1, <3>1
    <3>3. \A i \in 1..Len(outs) : outs'[i] = outs[i]
      BY <2>1, <3>1
    <3>4. outs'[Len(outs) + 1] = f.remainder
      BY <2>1, <3>1
    <3>5. \A i \in 1..Len(outs') : i \notin 1..Len(outs) => i = Len(outs) + 1
      BY <2>1, <3>2
    <3>6. outs' # <<>>
      BY <2>1, <3>2
    <3> QED BY <2>1, <2>3, <3>2, <3>3, <3>4, <3>5, <3>6
  <2> QED BY <2>2, <2>3
<1>8. TypeInv'
  <2>1. spent' \subseteq 1..Len(outs') /\ sold' \in Nat /\ credit' \in Nat
    <3>1. sold + taken \in Nat /\ credit + f.pays \in Nat
      BY <1>2, <1>5
    <3>2. 1..Len(outs) \subseteq 1..Len(outs')
      BY <1>2, <1>7
    <3> QED BY <1>1, <1>2, <3>1, <3>2
  <2> QED BY <1>1, <1>7, <2>1 DEF CovInv, TypeInv
<1>9. MakerPaid'
  <2>1. credit * terms.den >= sold * terms.num
    BY DEF CovInv, MakerPaid
  <2>2. (credit + f.pays) * terms.den = credit * terms.den + f.pays * terms.den
    BY <1>2, <1>3
  <2>3. (sold + taken) * terms.num = sold * terms.num + taken * terms.num
    BY <1>2, <1>3, <1>5
  <2>4. credit * terms.den \in Nat /\ sold * terms.num \in Nat /\ f.pays * terms.den \in Nat /\ taken * terms.num \in Nat
    BY <1>2, <1>3, <1>5, Product
  <2> QED BY <1>1, <1>6, <2>1, <2>2, <2>3, <2>4 DEF MakerPaid
<1>10. NoDust'
  <2> SUFFICES ASSUME NEW i \in Live' PROVE outs'[i] >= terms'.lot
    BY DEF NoDust
  <2>1. i \in 1..Len(outs') /\ i \notin spent
    BY <1>1 DEF Live
  <2>2. CASE i \in 1..Len(outs)
    BY <1>1, <1>7, <2>1, <2>2 DEF CovInv, NoDust, Live
  <2>3. CASE i \notin 1..Len(outs)
    BY <1>1, <1>4, <1>7, <2>1, <2>3
  <2> QED BY <2>2, <2>3
<1>11. FillsInv'
  <2> SUFFICES ASSUME NEW g \in fills' PROVE Planned(g)'
    BY DEF FillsInv
  <2>1. Planned(g)
    BY DEF CovInv, FillsInv
  <2>2. g.out \in 1..Len(outs') /\ outs'[g.out] = outs[g.out]
    BY <1>2, <1>7, <2>1 DEF Planned
  <2> QED BY <1>1, <2>1, <2>2 DEF Planned, CeilPrice, LeafPrice
<1>12. TermsInv'
  BY <1>1, <1>2, <1>7 DEF CovInv, TermsInv
<1> QED BY <1>8, <1>9, <1>10, <1>11, <1>12 DEF CovInv

\* A refused fill is forgotten.
LEMMA RefusedStep ==
  ASSUME CovInv, NEW f \in fills, FillRefused(f)
  PROVE  CovInv'
<1>1. /\ fills' \subseteq fills
      /\ UNCHANGED <<terms, stage, offered, outs, spent, sold, credit, reclaimed, height, refund>>
  BY DEF FillRefused, chainVars
<1>2. TypeInv' /\ FillsInv'
  BY <1>1 DEF CovInv, TypeInv, FillsInv, Planned, CeilPrice, LeafPrice
<1>3. TermsInv' /\ NoDust' /\ MakerPaid'
  BY <1>1 DEF CovInv, TermsInv, NoDust, Live, MakerPaid
<1> QED BY <1>2, <1>3 DEF CovInv

\* A restart forgets terms nothing is locked under, and all that was built.
LEMMA RestartStep ==
  ASSUME CovInv, RestartWallet
  PROVE  CovInv'
<1>1. /\ stage' = "idle" /\ fills' = {} /\ refund' = {}
      /\ terms' = (IF outs = <<>> THEN NoTerms ELSE terms)
      /\ UNCHANGED <<offered, outs, spent, sold, credit, reclaimed, height>>
  BY DEF RestartWallet, chainVars
<1>2. NoTerms \in Terms
  BY DEF NoTerms, Terms
<1>3. TypeInv' /\ FillsInv' /\ TermsInv'
  BY <1>1, <1>2 DEF CovInv, TypeInv, FillsInv, TermsInv, Stages
<1>4. CASE outs = <<>>
  <2>1. sold = 0 /\ credit = 0 /\ spent = {} /\ terms' = NoTerms /\ Len(outs) = 0
    BY <1>1, <1>4 DEF CovInv, TypeInv
  <2>2. MakerPaid' /\ NoDust'
    BY <1>1, <2>1 DEF MakerPaid, NoDust, Live, NoTerms
  <2> QED BY <1>3, <2>2 DEF CovInv
<1>5. CASE outs # <<>>
  <2>1. MakerPaid' /\ NoDust'
    BY <1>1, <1>5 DEF CovInv, MakerPaid, NoDust, Live
  <2> QED BY <1>3, <2>1 DEF CovInv
<1> QED BY <1>4, <1>5

-----------------------------------------------------------------------------
(* The invariant is inductive, and what it gives.                          *)

\* Every step keeps the invariant.
LEMMA CovStep == CovInv /\ [CovNext]_covVars => CovInv'
<1> SUFFICES ASSUME CovInv, [CovNext]_covVars PROVE CovInv'
  OBVIOUS
<1>1. CASE UNCHANGED covVars
  BY <1>1 DEF covVars, chainVars, CovInv, TypeInv, TermsInv, FillsInv, Planned, CeilPrice, LeafPrice, MakerPaid, NoDust, Live
<1>2. ASSUME NEW o \in Offers, PrepareOrder(o) PROVE CovInv'
  BY <1>2, PrepareStep
<1>3. ASSUME NEW r \in refund, SendRefund(r) PROVE CovInv'
  BY <1>3, SendRefundStep
<1>4. ASSUME NEW t \in Served, NEW o \in DOMAIN outs, NEW take \in 1..MaxSell, NEW fee \in {"A", "B"},
             BuildFill(t, o, take, fee)
      PROVE  CovInv'
  BY <1>4, BuildFillStep
<1>5. ASSUME NEW f \in fills, SendFill(f) PROVE CovInv'
  <2>1. f.remainder \in Nat /\ f.pays \in Nat
    <3>1. Planned(f) /\ outs[f.out] \in Nat
      BY DEF CovInv, FillsInv, Planned, TypeInv
    <3>2. f.filled \in Nat /\ f.remainder \in Nat
      BY <3>1 DEF Planned
    <3>3. terms.num \in Nat /\ terms.den \in Nat \ {0}
      BY <3>1, TermsTyped DEF Planned, CovInv, TypeInv, TermsInv
    <3>4. f.filled * terms.num \in Nat
      BY <3>2, <3>3, Product
    <3>5. f.filled * terms.num + terms.den - 1 \in Nat
      BY <3>3, <3>4
    <3>6. LeafPrice(terms, f.filled) \in Nat
      BY <3>3, <3>5, Quotient DEF LeafPrice
    <3>7. 2 * (Word + 1) \in Nat \ {0}
      BY CovConstants
    <3>8. CeilPrice(terms, f.filled) \in Nat
      BY <3>6, <3>7, Quotient DEF CeilPrice
    <3> QED BY <3>1, <3>2, <3>8 DEF Planned
  <2> QED BY <1>5, <2>1, SettleStep DEF SendFill
<1>6. ASSUME NEW f \in OwnFills, OthersFill(f) PROVE CovInv'
  <2>1. f.remainder \in Nat /\ f.pays \in Nat
    <3>1. PICK o \in Live : f \in [out : {o}, filled : {0}, remainder : 0..outs[o], pays : 0..Word]
      BY DEF OwnFills
    <3>2. outs[o] \in Nat /\ Word \in Nat
      BY CovConstants DEF Live, CovInv, TypeInv
    <3> QED BY <3>1, <3>2
  <2> QED BY <1>6, <2>1, SettleStep DEF OthersFill
<1> QED BY <1>1, <1>2, <1>3, <1>4, <1>5, <1>6, FundStep, FlowStep, BuildRefundStep, RefusedStep, RestartStep
        DEF CovNext

\* Every reachable state of an order satisfies the invariant that ties outputs, fills and payment.
THEOREM CovInductive == CovSpec => []CovInv
BY CovInitInv, CovStep, PTL DEF CovSpec

\* Through any partial fills, the maker is paid the posted rate for all that was taken: ceil_price and
\* the FILL leaf round in his favour, for every rate and amount.
THEOREM MakerPaidAlways == CovSpec => []MakerPaid
<1>1. CovInv => MakerPaid
  BY DEF CovInv
<1> QED BY <1>1, CovInductive, PTL

\* No fill leaves an output below the least lot (plan_fill, build_fill_leaf), for every divisor of the lot.
THEOREM NoDustAlways == CovSpec => []NoDust
<1>1. CovInv => NoDust
  BY DEF CovInv
<1> QED BY <1>1, CovInductive, PTL

\* What plan_fill and ceil_price plan the leaf accepts, unless its price overflows the script's word.
THEOREM PlannedFillPassesAlways == CovSpec => []PlannedFillPasses
<1>1. CovInv => PlannedFillPasses
  <2> SUFFICES ASSUME CovInv, NEW f \in fills, Fits(f.filled * terms.num + terms.den - 1)
               PROVE  FillLeaf(terms, outs[f.out], f)
    BY DEF PlannedFillPasses
  <2>1. Planned(f) /\ outs[f.out] \in Nat
    BY DEF CovInv, FillsInv, Planned, TypeInv
  <2>2. f.filled \in Nat /\ outs[f.out] - f.remainder = f.filled
    BY <2>1 DEF Planned
  <2>3. terms.num \in Nat /\ terms.den \in Nat /\ terms.den >= 1 /\ Word \in Nat
    BY <2>1, TermsTyped, CovConstants DEF Planned, CovInv, TypeInv, TermsInv
  <2>4. f.filled * terms.num \in Nat
    BY <2>2, <2>3, Product
  <2>5. Fits(f.filled * terms.num)
    BY <2>3, <2>4 DEF Fits
  <2>6. f.pays >= LeafPrice(terms, f.filled)
    <3>1. f.filled * terms.num + terms.den - 1 \in Nat
      BY <2>3, <2>4
    <3>2. LeafPrice(terms, f.filled) \in Nat /\ LeafPrice(terms, f.filled) <= f.filled * terms.num + terms.den - 1
      BY <2>3, <3>1, Quotient DEF LeafPrice
    <3>3. LeafPrice(terms, f.filled) < 2 * (Word + 1)
      BY <2>3, <3>1, <3>2 DEF Fits
    <3>4. CeilPrice(terms, f.filled) = LeafPrice(terms, f.filled)
      BY <2>3, <3>2, <3>3, Small DEF CeilPrice
    <3> QED BY <2>1, <3>2, <3>4 DEF Planned
  <2> QED BY <2>1, <2>2, <2>5, <2>6 DEF FillLeaf, Planned
<1> QED BY <1>1, CovInductive, PTL

-----------------------------------------------------------------------------
(* The stored list of placed orders.                                       *)

\* While no list was written over a later one and all decoded, what a writer has read is what is stored, or
\* it will be found stale when written; and this order is in the list from its first put until its covenant
\* is spent.
PlacedInv ==
  /\ PlacedTypeOK
  /\ listed \/ flow \in {"recorded", "finalized", "signed", "posted"} =>
       (decodes /\ apart => "mine" \in placed \/ output = "spent")
  /\ reclaim = "sent" => output = "spent"
  /\ read["reclaim"] # {} => reclaim = "sent"
  /\ flow \in {"funded", "recorded", "finalized", "signed", "posted"} => output # "none"
  /\ flow \in {"idle", "prepared"} => output = "none"

\* What a write stores is a list of orders, and it drops this order only when it was told to or was stale.
LEMMA WriteKeeps ==
  ASSUME PlacedTypeOK, NEW w \in Writers, NEW gone \in SUBSET Orders, NEW new \in SUBSET Orders,
         WriteList(w, gone, new)
  PROVE  /\ placed' \subseteq Orders /\ apart' \in BOOLEAN /\ read' \in [Writers -> SUBSET SUBSET Orders]
         /\ apart' => apart /\ placed' = (placed \ gone) \cup new
         /\ \A x \in Writers : read'[x] # {} => read[x] # {}
         /\ read[w] # {}
<1>1. PICK was \in read[w] : /\ placed' = (was \ gone) \cup new
                              /\ apart' = (apart /\ was = placed)
                              /\ read' = [read EXCEPT ![w] = {}]
  BY DEF WriteList
<1>2. was \subseteq Orders /\ read \in [Writers -> SUBSET SUBSET Orders] /\ apart \in BOOLEAN
  BY DEF PlacedTypeOK
<1>3. placed' \subseteq Orders /\ read' \in [Writers -> SUBSET SUBSET Orders]
  BY <1>1, <1>2
<1>4. apart' \in BOOLEAN /\ (apart' => apart /\ placed' = (placed \ gone) \cup new)
  BY <1>1, <1>2
<1>5. \A x \in Writers : read'[x] # {} => read[x] # {}
  BY <1>1, <1>2
<1> QED BY <1>1, <1>3, <1>4, <1>5

\* A read takes the list as it is stored.
LEMMA ReadKeeps ==
  ASSUME PlacedTypeOK, NEW w \in Writers, ReadList(w)
  PROVE  /\ read' \in [Writers -> SUBSET SUBSET Orders]
         /\ \A x \in Writers : x # w => read'[x] = read[x]
BY DEF PlacedTypeOK, ReadList

\* Nothing of the types fails when only the list does not change.
LEMMA PlacedQuiet ==
  ASSUME PlacedInv, UNCHANGED listVars,
         flow' \in Flows, reclaim' \in Reclaims, output' \in Outputs1,
         {expired', resting', listed'} \subseteq BOOLEAN,
         output = "spent" => output' = "spent",
         listed' \/ flow' \in {"recorded", "finalized", "signed", "posted"} =>
           listed \/ flow \in {"recorded", "finalized", "signed", "posted"},
         reclaim' = "sent" => output' = "spent",
         reclaim = "sent" => reclaim' = "sent",
         flow' \in {"funded", "recorded", "finalized", "signed", "posted"} => output' # "none",
         flow' \in {"idle", "prepared"} => output' = "none"
  PROVE  PlacedInv'
BY DEF PlacedInv, PlacedTypeOK, listVars

\* A write that puts this order, or leaves it, with what else it may change.
LEMMA PlacedWritten ==
  ASSUME PlacedInv, UNCHANGED <<decodes, covenant, relayVars>>,
         placed' \subseteq Orders, apart' \in BOOLEAN, read' \in [Writers -> SUBSET SUBSET Orders],
         output # "spent" /\ apart' => "mine" \in placed' \/ (apart /\ "mine" \notin placed),
         flow' \in Flows, reclaim' \in Reclaims,
         flow' \in {"recorded", "finalized", "signed", "posted"} =>
           flow \in {"recorded", "finalized", "signed", "posted"} \/ "mine" \in placed',
         flow' \in {"funded", "recorded", "finalized", "signed", "posted"} =>
           flow \in {"funded", "recorded", "finalized", "signed", "posted"},
         flow' \in {"idle", "prepared"} => flow \in {"idle", "prepared"},
         reclaim' = "sent" => reclaim = "sent",
         read'["reclaim"] # {} => reclaim' = "sent"
  PROVE  PlacedInv'
<1>1. PlacedTypeOK'
  BY DEF PlacedInv, PlacedTypeOK, covenant, relayVars
<1>2. UNCHANGED <<decodes, output, listed>>
  BY DEF covenant, relayVars
<1>3. /\ reclaim' = "sent" => output' = "spent"
      /\ read'["reclaim"] # {} => reclaim' = "sent"
      /\ flow' \in {"funded", "recorded", "finalized", "signed", "posted"} => output' # "none"
      /\ flow' \in {"idle", "prepared"} => output' = "none"
  BY <1>2 DEF PlacedInv
<1>4. ASSUME listed' \/ flow' \in {"recorded", "finalized", "signed", "posted"}, decodes', apart'
      PROVE  "mine" \in placed' \/ output' = "spent"
  BY <1>2, <1>4 DEF PlacedInv
<1> QED BY <1>1, <1>3, <1>4 DEF PlacedInv

\* Every step keeps the invariant.
LEMMA PlacedStep == PlacedInv /\ [PlacedNext]_placedVars => PlacedInv'
<1> SUFFICES ASSUME PlacedInv, [PlacedNext]_placedVars PROVE PlacedInv'
  OBVIOUS
<1>0. PlacedTypeOK
  BY DEF PlacedInv
<1>1. CASE UNCHANGED placedVars
  BY <1>1 DEF placedVars, PlacedInv, PlacedTypeOK, listVars, covenant, relayVars
<1>2. CASE Prepare \/ FundOrder \/ FinalizeOffer \/ PostRest \/ Unlist \/ Filled \/ Expire
  <2>1. CASE Prepare
    BY <2>1, PlacedQuiet DEF Prepare, PlacedInv, PlacedTypeOK, Flows, covenant, relayVars
  <2>2. CASE FundOrder
    BY <2>2, PlacedQuiet DEF FundOrder, PlacedInv, PlacedTypeOK, Flows, Outputs1, relayVars
  <2>3. CASE FinalizeOffer
    BY <2>3, PlacedQuiet DEF FinalizeOffer, PlacedInv, PlacedTypeOK, Flows, covenant, relayVars
  <2>4. CASE PostRest
    BY <2>4, PlacedQuiet DEF PostRest, PlacedInv, PlacedTypeOK, Flows, covenant
  <2>5. CASE Unlist
    BY <2>5, PlacedQuiet DEF Unlist, PlacedInv, PlacedTypeOK, covenant
  <2>6. CASE Filled
    BY <2>6, PlacedQuiet DEF Filled, PlacedInv, PlacedTypeOK, Outputs1, relayVars
  <2>7. CASE Expire
    BY <2>7, PlacedQuiet DEF Expire, PlacedInv, PlacedTypeOK, relayVars
  <2> QED BY <1>2, <2>1, <2>2, <2>3, <2>4, <2>5, <2>6, <2>7
<1>3. CASE BuildReclaim \/ SendReclaim
  <2>1. CASE BuildReclaim
    BY <2>1, PlacedQuiet DEF BuildReclaim, PlacedInv, PlacedTypeOK, Reclaims, covenant
  <2>2. CASE SendReclaim
    <3>1. /\ reclaim = "built" /\ UNCHANGED <<flow, placed, read, apart, decodes, expired, resting, listed>>
          /\ output' \in {output, "spent"} /\ (output = "spent" => output' = "spent")
          /\ output = "none" => output' = "none"
          /\ reclaim' \in {"sent", "none"} /\ (reclaim' = "sent" => output' = "spent")
      BY <2>2 DEF SendReclaim, listVars, relayVars
    <3>2. PlacedTypeOK'
      BY <1>0, <3>1 DEF PlacedTypeOK, Reclaims, Outputs1
    <3>3. read'["reclaim"] = {}
      BY <3>1 DEF PlacedInv
    <3>4. /\ flow' \in {"funded", "recorded", "finalized", "signed", "posted"} => output' # "none"
          /\ flow' \in {"idle", "prepared"} => output' = "none"
      BY <3>1 DEF PlacedInv
    <3>5. listed' \/ flow' \in {"recorded", "finalized", "signed", "posted"} =>
            (decodes' /\ apart' => "mine" \in placed' \/ output' = "spent")
      BY <3>1 DEF PlacedInv
    <3> QED BY <3>1, <3>2, <3>3, <3>4, <3>5 DEF PlacedInv
  <2> QED BY <1>3, <2>1, <2>2
<1>4. CASE AbandonRest \/ Relaunch
  <2>1. CASE AbandonRest
    BY <2>1 DEF AbandonRest, Writers, PlacedInv, PlacedTypeOK, Flows, covenant, relayVars
  <2>2. CASE Relaunch
    BY <2>2 DEF Relaunch, Writers, PlacedInv, PlacedTypeOK, Flows, Reclaims, covenant, relayVars
  <2> QED BY <1>4, <2>1, <2>2
<1>5. CASE Undecodable
  BY <1>5 DEF Undecodable, PlacedInv, PlacedTypeOK, covenant, relayVars
<1>6. CASE PutReads \/ RemoveReads \/ AnotherReads
  <2>1. PICK w \in Writers : ReadList(w) /\ (w = "reclaim" => reclaim = "sent")
                             /\ UNCHANGED <<flow, reclaim, placed, apart, decodes, covenant, relayVars>>
    BY <1>6 DEF PutReads, RemoveReads, AnotherReads, Writers
  <2>2. /\ read' \in [Writers -> SUBSET SUBSET Orders]
        /\ \A x \in Writers : x # w => read'[x] = read[x]
    BY <1>0, <2>1, ReadKeeps
  <2>3. read'["reclaim"] # {} => reclaim' = "sent"
    BY <2>1, <2>2 DEF PlacedInv, Writers
  <2> QED BY <2>1, <2>2, <2>3 DEF PlacedInv, PlacedTypeOK, covenant, relayVars
<1>7. CASE PutWrites
  <2>1. /\ WriteList("rest", {}, {"mine"}) /\ flow \in {"funded", "finalized", "posted"}
        /\ flow' \in {"recorded", "signed", "done"} /\ UNCHANGED <<reclaim, decodes, covenant, relayVars>>
    BY <1>7 DEF PutWrites, AfterPut
  <2>2. "rest" \in Writers /\ {} \in SUBSET Orders /\ {"mine"} \in SUBSET Orders
    BY DEF Writers, Orders
  <2>3. /\ placed' \subseteq Orders /\ apart' \in BOOLEAN /\ read' \in [Writers -> SUBSET SUBSET Orders]
        /\ \A x \in Writers : read'[x] # {} => read[x] # {}
    BY <1>0, <2>1, <2>2, WriteKeeps
  <2>4. "mine" \in placed'
    BY <2>1 DEF WriteList
  <2>5. read'["reclaim"] # {} => reclaim' = "sent"
    BY <2>1, <2>3 DEF PlacedInv, Writers
  <2>6. flow' \in Flows /\ reclaim' \in Reclaims
    BY <1>0, <2>1 DEF PlacedTypeOK, Flows
  <2> QED BY <2>1, <2>3, <2>4, <2>5, <2>6, PlacedWritten
<1>8. CASE RemoveWrites
  <2>1. /\ WriteList("reclaim", {"mine"}, {}) /\ reclaim' = "none"
        /\ UNCHANGED <<flow, decodes, covenant, relayVars>>
    BY <1>8 DEF RemoveWrites
  <2>2. "reclaim" \in Writers /\ {} \in SUBSET Orders /\ {"mine"} \in SUBSET Orders
    BY DEF Writers, Orders
  <2>3. /\ placed' \subseteq Orders /\ apart' \in BOOLEAN /\ read' \in [Writers -> SUBSET SUBSET Orders]
        /\ read["reclaim"] # {}
    BY <1>0, <2>1, <2>2, WriteKeeps
  <2>4. output = "spent"
    BY <2>3 DEF PlacedInv
  <2>5. read'["reclaim"] = {}
    BY <1>0, <2>1, <2>2 DEF WriteList, PlacedTypeOK
  <2>6. flow' \in Flows /\ reclaim' \in Reclaims
    BY <1>0, <2>1 DEF PlacedTypeOK, Reclaims
  <2> QED BY <2>1, <2>3, <2>4, <2>5, <2>6, PlacedWritten
<1>9. CASE AnotherWrites
  <2>1. /\ UNCHANGED <<flow, reclaim, decodes, covenant, relayVars>>
        /\ \E gone \in SUBSET {"other"}, new \in SUBSET {"other"} : WriteList("another", gone, new)
    BY <1>9 DEF AnotherWrites
  <2>2. PICK gone \in SUBSET {"other"}, new \in SUBSET {"other"} : WriteList("another", gone, new)
    BY <2>1
  <2>3. "another" \in Writers /\ gone \in SUBSET Orders /\ new \in SUBSET Orders /\ "mine" \notin gone
    BY DEF Writers, Orders
  <2>4. /\ placed' \subseteq Orders /\ apart' \in BOOLEAN /\ read' \in [Writers -> SUBSET SUBSET Orders]
        /\ apart' => apart /\ placed' = (placed \ gone) \cup new
        /\ \A x \in Writers : read'[x] # {} => read[x] # {}
    BY <1>0, <2>2, <2>3, WriteKeeps
  <2>5. apart' => "mine" \in placed' \/ (apart /\ "mine" \notin placed)
    BY <2>3, <2>4
  <2>6. read'["reclaim"] # {} => reclaim' = "sent"
    BY <2>1, <2>4 DEF PlacedInv, Writers
  <2>7. flow' \in Flows /\ reclaim' \in Reclaims
    BY <1>0, <2>1 DEF PlacedTypeOK
  <2> QED BY <2>1, <2>4, <2>5, <2>6, <2>7, PlacedWritten
<1> QED BY <1>1, <1>2, <1>3, <1>4, <1>5, <1>6, <1>7, <1>8, <1>9 DEF PlacedNext

\* The strengthened invariant of the stored list holds in every reachable state.
THEOREM PlacedInductive == PlacedSpec => []PlacedInv
<1>1. PlacedInit => PlacedInv
  BY DEF PlacedInit, PlacedInv, PlacedTypeOK, Flows, Reclaims, Outputs1, Writers
<1> QED BY <1>1, PlacedStep, PTL DEF PlacedSpec

\* The state of the flow, the screen and the list stays in its sets.
THEOREM PlacedTypeCorrect == PlacedSpec => []PlacedTypeOK
<1>1. PlacedInv => PlacedTypeOK
  BY DEF PlacedInv
<1> QED BY <1>1, PlacedInductive, PTL

\* Through every overlap of awaits, failure and restart, an offer that was ever listed has its reclaim
\* material stored until its covenant is spent, unless a list was written over a later one or did not decode.
THEOREM ReclaimKeptAlways == PlacedSpec => []ReclaimKept
<1>1. PlacedInv => ReclaimKept
  BY DEF PlacedInv, ReclaimKept
<1> QED BY <1>1, PlacedInductive, PTL
=============================================================================
