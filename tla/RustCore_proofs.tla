-------------------------- MODULE RustCore_proofs ---------------------------
(***************************************************************************)
(* What the rest of the Rust core promises: a covenant's amounts add up    *)
(* (CovenantOrder), a mixing round costs the fee and no more (CoinJoin),   *)
(* one live delegation record (Delegation), a reward sold once             *)
(* (RewardConvert), and all of it together with the parts proved in        *)
(* CovenantOrder_proofs and Wallet_proofs.                                 *)
(***************************************************************************)
EXTENDS MCRustCore, CovenantOrder_proofs, Wallet_proofs, FiniteSetTheorems, SequenceTheorems

(***************************************************************************)
(* Sums over finite sets.  MapThenSumSet is a fold that CHOOSEs the next   *)
(* element; it is shown to be a number, and to be the value of any one     *)
(* element and the sum over the others.  Induction is by a smallest set for*)
(* which the claim fails.                                                  *)
(***************************************************************************)

\* The element a fold takes next, and a fold over the subsets of S with the weights w.
Taken(s) == CHOOSE x \in s : TRUE
FoldOf(g, S, w) == g = [s \in SUBSET S |-> IF s = {} THEN 0 ELSE w[Taken(s)] + g[s \ {Taken(s)}]]

\* A fold takes an element of the set.
LEMMA TakenIn == \A s : s # {} => Taken(s) \in s
BY DEF Taken

\* Among subsets of a finite set there is one that is left by taking any element away.
LEMMA Smallest ==
  ASSUME NEW S, IsFiniteSet(S), NEW B \in SUBSET SUBSET S, B # {}
  PROVE  \E T \in B : \A x \in T : T \ {x} \notin B
<1> DEFINE sizes == {n \in Nat : \E T \in B : n = Cardinality(T)}
<1>1. \A T \in SUBSET S : IsFiniteSet(T) /\ Cardinality(T) \in Nat  BY FS_Subset, FS_CardinalityType
<1>2. sizes # {}  BY <1>1
<1>3. PICK n \in sizes : \A m \in sizes : n <= m  BY <1>2, Least
<1>4. PICK T \in B : n = Cardinality(T)  BY <1>3
<1>5. ASSUME NEW x \in T, T \ {x} \in B PROVE FALSE
  <2>1. Cardinality(T \ {x}) = Cardinality(T) - 1  BY <1>1, FS_RemoveElement
  <2>2. Cardinality(T \ {x}) \in sizes  BY <1>1, <1>5
  <2>3. n <= n - 1  BY <1>3, <1>4, <2>1, <2>2
  <2> QED BY <2>3, <1>3
<1> QED BY <1>5

\* There is such a fold over a finite set, ...
LEMMA FoldExists ==
  ASSUME NEW S, IsFiniteSet(S), NEW w \in [S -> Nat]
  PROVE  \E g : FoldOf(g, S, w)
<1> DEFINE D(n) == {s \in SUBSET S : Cardinality(s) <= n}
           Eq(g, n) == \A s \in D(n) : g[s] = IF s = {} THEN 0 ELSE w[Taken(s)] + g[s \ {Taken(s)}]
           Bad == {n \in Nat : ~ \E g \in [D(n) -> Nat] : Eq(g, n)}
<1>1. \A T \in SUBSET S : IsFiniteSet(T) /\ Cardinality(T) \in Nat /\ Cardinality(T) <= Cardinality(S)
                          /\ (Cardinality(T) = 0 <=> T = {})
  BY FS_Subset, FS_CardinalityType, FS_EmptySet
<1>2. Cardinality(S) \in Nat  BY FS_CardinalityType
<1>3. \A T \in SUBSET S : T # {} => /\ Taken(T) \in T /\ Taken(T) \in S /\ T \ {Taken(T)} \in SUBSET S
                                    /\ Cardinality(T \ {Taken(T)}) = Cardinality(T) - 1
  BY <1>1, TakenIn, FS_RemoveElement
<1>4. Bad = {}
  <2>1. SUFFICES ASSUME Bad # {} PROVE FALSE  OBVIOUS
  <2>2. Bad \in SUBSET Nat  OBVIOUS
  <2>3. PICK n \in Bad : \A m \in Bad : n <= m  BY <2>1, <2>2, Least
  <2>4. CASE n = 0
    <3> DEFINE g == [s \in D(n) |-> 0]
    <3>1. g \in [D(n) -> Nat]  OBVIOUS
    <3>2. \A s \in D(n) : s = {}  BY <1>1, <2>4
    <3>3. Eq(g, n)  BY <3>2
    <3> QED BY <2>3, <3>1, <3>3
  <2>5. CASE n # 0
    <3>1. n - 1 \in Nat /\ n - 1 \notin Bad
      <4>1. n \in Nat  OBVIOUS
      <4> HIDE DEF Bad
      <4> QED BY <4>1, <2>3, <2>5
    <3>2. PICK h \in [D(n - 1) -> Nat] : Eq(h, n - 1)  BY <3>1
    <3> DEFINE g == [s \in D(n) |-> IF s = {} THEN 0 ELSE w[Taken(s)] + h[s \ {Taken(s)}]]
    <3>3. \A s \in D(n) : s # {} => s \ {Taken(s)} \in D(n - 1) /\ s \ {Taken(s)} \in D(n)
      BY <1>1, <1>3, <2>3
    <3>4. g \in [D(n) -> Nat]
      <4>1. \A s \in D(n) : s # {} => w[Taken(s)] + h[s \ {Taken(s)}] \in Nat  BY <1>3, <3>2, <3>3
      <4> QED BY <4>1
    <3>5. \A s \in D(n - 1) : s \in D(n) /\ g[s] = h[s]
      <4>1. \A s \in D(n - 1) : s \in D(n)  BY <1>1, <2>3, <3>1
      <4> QED BY <4>1, <3>2
    <3>6. Eq(g, n)  BY <3>3, <3>5
    <3> QED BY <2>3, <3>4, <3>6
  <2> QED BY <2>4, <2>5
<1>5. PICK g \in [D(Cardinality(S)) -> Nat] : Eq(g, Cardinality(S))  BY <1>2, <1>4
<1>6. D(Cardinality(S)) = SUBSET S  BY <1>1
<1>7. g = [s \in SUBSET S |-> g[s]]  BY <1>5, <1>6
<1>8. \A s \in SUBSET S : g[s] = IF s = {} THEN 0 ELSE w[Taken(s)] + g[s \ {Taken(s)}]  BY <1>5, <1>6
<1> QED BY <1>7, <1>8 DEF FoldOf

\* Such a fold, written out for one subset.
LEMMA FoldStep ==
  ASSUME NEW S, NEW w, NEW g, FoldOf(g, S, w)
  PROVE  \A s \in SUBSET S : g[s] = IF s = {} THEN 0 ELSE w[Taken(s)] + g[s \ {Taken(s)}]
BY DEF FoldOf

\* its values are numbers, ...
LEMMA FoldNat ==
  ASSUME NEW S, IsFiniteSet(S), NEW w \in [S -> Nat], NEW g, FoldOf(g, S, w), NEW T \in SUBSET S
  PROVE  g[T] \in Nat
<1> DEFINE B == {U \in SUBSET S : g[U] \notin Nat}
<1> SUFFICES ASSUME B # {} PROVE FALSE  OBVIOUS
<1>0. B \in SUBSET SUBSET S  OBVIOUS
<1>1. PICK U \in B : \A x \in U : U \ {x} \notin B  BY <1>0, Smallest
<1>2. U # {} /\ g[U] = w[Taken(U)] + g[U \ {Taken(U)}]  BY FoldStep
<1>3. Taken(U) \in U /\ U \ {Taken(U)} \in SUBSET S  BY <1>2, TakenIn
<1>4. g[U \ {Taken(U)}] \in Nat  BY <1>1, <1>3
<1> QED BY <1>2, <1>3, <1>4

\* two folds agree where both are defined with the same weights, ...
LEMMA FoldUnique ==
  ASSUME NEW S, NEW S2, IsFiniteSet(S), NEW w, NEW w2, NEW g, NEW h, FoldOf(g, S, w), FoldOf(h, S2, w2),
         S \subseteq S2, \A x \in S : w[x] = w2[x]
  PROVE  g[S] = h[S]
<1> DEFINE B == {U \in SUBSET S : g[U] # h[U]}
<1> SUFFICES ASSUME B # {} PROVE FALSE  OBVIOUS
<1>0. B \in SUBSET SUBSET S  OBVIOUS
<1>1. PICK U \in B : \A x \in U : U \ {x} \notin B  BY <1>0, Smallest
<1>2. g[U] = IF U = {} THEN 0 ELSE w[Taken(U)] + g[U \ {Taken(U)}]
  <2>1. \A s \in SUBSET S : g[s] = IF s = {} THEN 0 ELSE w[Taken(s)] + g[s \ {Taken(s)}]  BY FoldStep
  <2> QED BY <2>1
<1>3. h[U] = IF U = {} THEN 0 ELSE w2[Taken(U)] + h[U \ {Taken(U)}]
  <2>1. U \in SUBSET S2  OBVIOUS
  <2> QED BY <2>1, FoldStep
<1>4. U # {}  BY <1>2, <1>3
<1>5. Taken(U) \in U /\ Taken(U) \in S  BY <1>4, TakenIn
<1>6. g[U \ {Taken(U)}] = h[U \ {Taken(U)}]  BY <1>1, <1>5
<1> QED BY <1>2, <1>3, <1>5, <1>6

\* and any element may be taken last.
LEMMA FoldAny ==
  ASSUME NEW S, IsFiniteSet(S), NEW w \in [S -> Nat], NEW g, FoldOf(g, S, w), NEW T \in SUBSET S, NEW y \in T
  PROVE  g[T] = w[y] + g[T \ {y}]
<1> DEFINE B == {U \in SUBSET S : \E z \in U : g[U] # w[z] + g[U \ {z}]}
<1> SUFFICES ASSUME B # {} PROVE FALSE  OBVIOUS
<1>0. B \in SUBSET SUBSET S  OBVIOUS
<1>1. PICK U \in B : \A x \in U : U \ {x} \notin B  BY <1>0, Smallest
<1>2. PICK z \in U : g[U] # w[z] + g[U \ {z}]  BY <1>1
<1> DEFINE x == Taken(U)
<1>3. x \in U /\ g[U] = w[x] + g[U \ {x}]
  <2>1. g[U] = IF U = {} THEN 0 ELSE w[x] + g[U \ {x}]  BY FoldStep
  <2> QED BY <2>1, TakenIn
<1> HIDE DEF x
<1>4. x # z  BY <1>2, <1>3
<1> DEFINE Ux == U \ {x}
           Uz == U \ {z}
           R == U \ {x, z}
<1>5. Ux \in SUBSET S /\ Uz \in SUBSET S /\ R \in SUBSET S /\ z \in Ux /\ x \in Uz
      /\ Ux \ {z} = R /\ Uz \ {x} = R
  BY <1>3, <1>4
<1>6. Ux \notin B /\ Uz \notin B  BY <1>1, <1>3
<1>7. g[Ux] = w[z] + g[R] /\ g[Uz] = w[x] + g[R]  BY <1>5, <1>6
<1>8. g[R] \in Nat /\ w[x] \in Nat /\ w[z] \in Nat  BY <1>3, <1>5, FoldNat
<1> QED BY <1>2, <1>3, <1>7, <1>8

-----------------------------------------------------------------------------
(***************************************************************************)
(* CovenantOrder: the amounts, for every offer and any fills.  The rest of *)
(* the covenant is in CovenantOrder_proofs.                                *)
(***************************************************************************)

\* What some outputs hold together.
SumOf(f, S) == MapThenSumSet(LAMBDA x : f[x], S)

\* The sum of f over S is the value of such a fold.
LEMMA SumFold ==
  ASSUME NEW f, NEW S, IsFiniteSet(S), \A x \in S : f[x] \in Nat
  PROVE  \E g : FoldOf(g, S, [x \in S |-> f[x]]) /\ SumOf(f, S) = g[S]
<1> DEFINE w == [x \in S |-> f[x]]
           F(h) == [s \in SUBSET S |-> IF s = {} THEN 0 ELSE f[CHOOSE x \in s : TRUE] + h[s \ {CHOOSE x \in s : TRUE}]]
           G == CHOOSE g : g = F(g)
<1>1. w \in [S -> Nat]  OBVIOUS
<1>2. PICK g : FoldOf(g, S, w)  BY <1>1, FoldExists
<1>3. ASSUME NEW h PROVE F(h) = [s \in SUBSET S |-> IF s = {} THEN 0 ELSE w[Taken(s)] + h[s \ {Taken(s)}]]
  <2>1. \A s \in SUBSET S : s # {} => Taken(s) \in S  BY TakenIn
  <2>2. \A s \in SUBSET S : s # {} => w[Taken(s)] = f[CHOOSE x \in s : TRUE]  BY <2>1 DEF Taken
  <2> QED BY <2>2 DEF Taken
<1>4. g = F(g)  BY <1>2, <1>3 DEF FoldOf
<1> HIDE DEF F
<1>5. G = F(G)  BY <1>4
<1>6. FoldOf(G, S, w)  BY <1>3, <1>5 DEF FoldOf
<1>7. SumOf(f, S) = G[S]  BY DEF SumOf, MapThenSumSet, MapThenFoldSet, F
<1> QED BY <1>6, <1>7

\* The sum over nothing is zero, and any one may be counted last.
LEMMA SumSteps ==
  ASSUME NEW f, NEW S, IsFiniteSet(S), \A x \in S : f[x] \in Nat
  PROVE  /\ SumOf(f, S) \in Nat /\ (S = {} => SumOf(f, S) = 0)
         /\ \A x \in S : SumOf(f, S) = f[x] + SumOf(f, S \ {x})
<1> DEFINE w == [x \in S |-> f[x]]
<1>1. w \in [S -> Nat]  OBVIOUS
<1>2. PICK g : FoldOf(g, S, w) /\ SumOf(f, S) = g[S]  BY SumFold
<1>3. SumOf(f, S) \in Nat  BY <1>1, <1>2, FoldNat
<1>4. S = {} => SumOf(f, S) = 0  BY <1>2, FoldStep
<1>5. ASSUME NEW x \in S PROVE SumOf(f, S) = f[x] + SumOf(f, S \ {x})
  <2> DEFINE R == S \ {x}
             v == [y \in R |-> f[y]]
  <2>1. IsFiniteSet(R) /\ R \subseteq S /\ \A y \in R : f[y] \in Nat  BY FS_Subset
  <2>2. PICK h : FoldOf(h, R, v) /\ SumOf(f, R) = h[R]  BY <2>1, SumFold
  <2>3. \A y \in R : v[y] = w[y]  BY <2>1
  <2> HIDE DEF v, w, R
  <2>4. h[R] = g[R]  BY <1>2, <2>1, <2>2, <2>3, FoldUnique
  <2>5. g[S] = w[x] + g[S \ {x}]  BY <1>1, <1>2, FoldAny
  <2> QED BY <1>2, <2>2, <2>4, <2>5 DEF R, w
<1> QED BY <1>3, <1>4, <1>5

\* It depends on those outputs only.
LEMMA SumSame ==
  ASSUME NEW f, NEW h, NEW S, IsFiniteSet(S), \A x \in S : f[x] \in Nat /\ h[x] = f[x]
  PROVE  SumOf(h, S) = SumOf(f, S)
<1> DEFINE w == [x \in S |-> f[x]]
           v == [x \in S |-> h[x]]
<1>1. PICK g : FoldOf(g, S, w) /\ SumOf(f, S) = g[S]  BY SumFold
<1>2. PICK k : FoldOf(k, S, v) /\ SumOf(h, S) = k[S]
  <2>1. \A x \in S : h[x] \in Nat  OBVIOUS
  <2> QED BY <2>1, SumFold
<1>3. w = v  OBVIOUS
<1> HIDE DEF w, v
<1>4. k[S] = g[S]  BY <1>1, <1>2, <1>3, FoldUnique
<1> QED BY <1>1, <1>2, <1>4

\* No asset A comes or goes: what is locked, sold and reclaimed is what the offer locked at first.
CovBooks ==
  /\ height \in 0..MaxHeight /\ fills \subseteq Fill
  /\ refund \subseteq [out : {1}, locked : Nat] /\ \A r \in refund : r.locked = outs[1]
  /\ outs = <<>> => reclaimed = 0
  /\ outs # <<>> => SumOf(outs, Live) + sold + reclaimed = terms.sell

\* At first nothing is locked, sold or reclaimed.
LEMMA CovBooksInit == CovInit => CovBooks
BY CovConstants DEF CovInit, CovBooks

\* The outputs are finitely many and hold numbers.
LEMMA CovLive ==
  ASSUME CovInv
  PROVE  /\ IsFiniteSet(Live) /\ Live \subseteq 1..Len(outs) /\ Len(outs) \in Nat
         /\ \A o \in 1..Len(outs) : outs[o] \in Nat
         /\ outs # <<>> => Len(outs) >= 1
<1>1. outs \in Seq(Nat) /\ Len(outs) \in Nat  BY LenProperties DEF CovInv, TypeInv
<1>2. IsFiniteSet(1..Len(outs))  BY <1>1, FS_Interval
<1>3. Live \subseteq 1..Len(outs)  BY DEF Live
<1>4. IsFiniteSet(Live)  BY <1>2, <1>3, FS_Subset
<1>5. \A o \in 1..Len(outs) : outs[o] \in Nat  BY <1>1, ElementOfSeq
<1>6. outs # <<>> => Len(outs) >= 1  BY <1>1, EmptySeq
<1> QED BY <1>1, <1>3, <1>4, <1>5, <1>6

\* A fill takes its part and leaves the remainder.
LEMMA CovBooksSettle ==
  ASSUME CovInv, CovBooks, NEW f, f.remainder \in 0..outs[f.out], SettleFill(f)
  PROVE  /\ SumOf(outs', Live') + sold' + reclaimed' = terms'.sell
         /\ outs # <<>> /\ outs' # <<>> /\ outs'[1] = outs[1]
<1> DEFINE i == f.out
           R == Live \ {i}
           n == Len(outs) + 1
<1>1. /\ i \in Live /\ spent' = spent \cup {i}
      /\ outs' = (IF f.remainder = 0 THEN outs ELSE Append(outs, f.remainder))
      /\ sold' = sold + (outs[i] - f.remainder)
      /\ UNCHANGED <<terms, stage, offered, height, refund, reclaimed>>
  BY DEF SettleFill
<1>2. /\ IsFiniteSet(Live) /\ Live \subseteq 1..Len(outs) /\ Len(outs) \in Nat
      /\ \A o \in 1..Len(outs) : outs[o] \in Nat
  BY CovLive
<1>3. outs \in Seq(Nat) /\ i \in 1..Len(outs) /\ outs[i] \in Nat /\ f.remainder \in Nat /\ f.remainder <= outs[i]
      /\ spent \subseteq 1..Len(outs) /\ sold \in Nat /\ reclaimed \in Nat /\ terms.sell \in Nat
  <2>1. outs \in Seq(Nat) /\ spent \subseteq 1..Len(outs) /\ sold \in Nat /\ reclaimed \in Nat /\ terms \in Terms
    BY DEF CovInv, TypeInv
  <2>2. terms.sell \in Nat  BY <2>1 DEF Terms
  <2>3. i \in 1..Len(outs) /\ outs[i] \in Nat  BY <1>1, <1>2
  <2>4. f.remainder \in Nat /\ f.remainder <= outs[i]  BY <2>3
  <2> QED BY <2>1, <2>2, <2>3, <2>4
<1>4. outs # <<>>  BY <1>3, EmptySeq
<1>5. SumOf(outs, Live) + sold + reclaimed = terms.sell  BY <1>4 DEF CovBooks
<1>6. SumOf(outs, Live) = outs[i] + SumOf(outs, R) /\ SumOf(outs, R) \in Nat /\ IsFiniteSet(R)
      /\ \A o \in R : outs[o] \in Nat
  <2>1. IsFiniteSet(R) /\ \A o \in R : outs[o] \in Nat  BY <1>2, FS_Subset
  <2> QED BY <1>1, <1>2, <2>1, SumSteps
<1>7. CASE f.remainder = 0
  <2>1. outs' = outs /\ Live' = R  BY <1>1, <1>7 DEF Live
  <2> QED BY <1>1, <1>3, <1>4, <1>5, <1>6, <1>7, <2>1
<1>8. CASE f.remainder # 0
  <2>1. outs' = Append(outs, f.remainder)  BY <1>1, <1>8
  <2>2. Len(outs') = n /\ outs'[n] = f.remainder /\ \A o \in 1..Len(outs) : outs'[o] = outs[o]
    BY <1>3, <2>1, AppendProperties
  <2>3. n \notin 1..Len(outs) /\ 1..n = (1..Len(outs)) \cup {n}  BY <1>2
  <2>4. Live' = R \cup {n} /\ n \notin R  BY <1>1, <1>3, <2>2, <2>3 DEF Live
  <2> DEFINE L == R \cup {n}
  <2>5. IsFiniteSet(L) /\ \A o \in L : outs'[o] \in Nat
    BY <1>2, <1>3, <1>6, <2>2, FS_AddElement DEF Live
  <2>6. L \ {n} = R /\ n \in L  BY <2>4
  <2> HIDE DEF L, n, R
  <2>7. SumOf(outs', L) = outs'[n] + SumOf(outs', L \ {n})  BY <2>5, <2>6, SumSteps
  <2>8. SumOf(outs', R) = SumOf(outs, R)
    <3>1. \A o \in R : outs[o] \in Nat /\ outs'[o] = outs[o]  BY <1>2, <1>6, <2>2 DEF R
    <3> QED BY <1>6, <3>1, SumSame
  <2>9. SumOf(outs', Live') = f.remainder + SumOf(outs, R)  BY <2>2, <2>4, <2>6, <2>7, <2>8 DEF L
  <2>10. outs' # <<>> /\ outs'[1] = outs[1]
    <3>1. 1 \in 1..Len(outs)  BY <1>3
    <3>2. Len(outs') >= 1 /\ Len(<<>>) = 0  BY <1>2, <2>2 DEF n
    <3> QED BY <2>2, <3>1, <3>2
  <2> DEFINE whole == SumOf(outs, Live)
             rest == SumOf(outs, R)
             all == SumOf(outs', Live')
  <2>11. whole + sold + reclaimed = terms.sell /\ whole = outs[i] + rest /\ rest \in Nat /\ all = f.remainder + rest
    BY <1>5, <1>6, <2>9
  <2> HIDE DEF whole, rest, all
  <2>12. all + (sold + (outs[i] - f.remainder)) + reclaimed = terms.sell
    <3> DEFINE locked == outs[i]
               remains == f.remainder
               total == terms.sell
    <3>1. locked \in Nat /\ remains \in Nat /\ remains <= locked /\ total \in Nat /\ sold \in Nat /\ reclaimed \in Nat
      BY <1>3
    <3>2. whole + sold + reclaimed = total /\ whole = locked + rest /\ rest \in Nat /\ all = remains + rest
      BY <2>11
    <3> HIDE DEF locked, remains, total
    <3>3. locked - remains \in Int /\ all \in Int  BY <3>1, <3>2
    <3>4. all + (locked - remains) = whole  BY <3>1, <3>2
    <3>5. all + (sold + (locked - remains)) + reclaimed = total  BY <3>1, <3>2, <3>3, <3>4
    <3> QED BY <3>5 DEF locked, remains, total
  <2>13. all + sold' + reclaimed' = terms'.sell  BY <1>1, <2>12
  <2> QED BY <1>4, <2>10, <2>13 DEF all
<1> QED BY <1>7, <1>8

\* Every step keeps the books: only Fund, a refund and a settled fill move an amount.
LEMMA CovBooksStep == CovInv /\ CovBooks /\ [CovNext]_covVars => CovBooks'
<1> SUFFICES ASSUME CovInv, CovBooks, [CovNext]_covVars PROVE CovBooks'  OBVIOUS
<1>0. CovInv'  BY CovStep
<1>1. CASE UNCHANGED covVars  BY <1>1 DEF covVars, chainVars, CovBooks, Live
<1>2. ASSUME NEW o \in Offers, PrepareOrder(o) PROVE CovBooks'
  <2>1. outs = <<>>
    <3>1. terms = NoTerms /\ NoTerms.den = 0  BY <1>2 DEF PrepareOrder, NoTerms
    <3> QED BY <3>1 DEF CovInv, TermsInv
  <2> QED BY <1>2, <2>1 DEF PrepareOrder, chainVars, CovBooks
<1>3. CASE Fund
  <2>1. outs = <<>> /\ outs' = <<terms.sell>> /\ UNCHANGED <<terms, spent, height, fills, refund, sold, reclaimed>>
    BY <1>3 DEF Fund
  <2>2. spent = {} /\ sold = 0 /\ reclaimed = 0 /\ terms.sell \in Nat /\ refund = {}
    BY <2>1 DEF CovInv, TypeInv, Terms, CovBooks
  <2>3. outs'[1] = terms.sell /\ outs' # <<>> /\ Live' = {1}
    BY <2>1, <2>2 DEF Live
  <2>4. IsFiniteSet({1}) /\ {1} \ {1} = {} /\ IsFiniteSet({})  BY FS_Singleton, FS_EmptySet
  <2>5. SumOf(outs', {}) = 0  BY <2>4, SumSteps
  <2>6. SumOf(outs', {1}) = outs'[1] + SumOf(outs', {1} \ {1})  BY <2>2, <2>3, <2>4, SumSteps
  <2>7. SumOf(outs', Live') = terms.sell
    <3> DEFINE all == SumOf(outs', {1})
    <3>1. all = terms.sell + 0  BY <2>3, <2>4, <2>5, <2>6
    <3> HIDE DEF all
    <3>2. all = terms.sell  BY <2>2, <3>1
    <3> QED BY <2>3, <3>2 DEF all
  <2>8. sold' = 0 /\ reclaimed' = 0 /\ terms' = terms /\ refund' = {} /\ fills' = fills /\ height' = height
    BY <2>1, <2>2
  <2>9. SumOf(outs', Live') + sold' + reclaimed' = terms'.sell
    <3> DEFINE all == SumOf(outs', Live')
    <3>1. all = terms.sell  BY <2>7
    <3> HIDE DEF all
    <3>2. all + 0 + 0 = terms.sell  BY <2>2, <3>1
    <3> QED BY <2>8, <3>2 DEF all
  <2> QED BY <2>3, <2>8, <2>9 DEF CovBooks
<1>4. CASE Post \/ Delist
  BY <1>4 DEF Post, Delist, chainVars, CovBooks, Live
<1>5. CASE BuildRefund
  <2>1. refund' = {[out |-> 1, locked |-> outs[1]]} /\ UNCHANGED <<terms, chainVars, height, fills>>
    BY <1>5 DEF BuildRefund, FetchUtxo
  <2>2. outs # <<>>  BY <1>5 DEF BuildRefund, CovInv, TypeInv
  <2>3. outs[1] \in Nat  BY <2>2, CovLive
  <2> QED BY <2>1, <2>3 DEF chainVars, CovBooks, Live
<1>6. ASSUME NEW r \in refund, SendRefund(r) PROVE CovBooks'
  <2>1. refund' = {} /\ UNCHANGED <<terms, outs, height, fills, sold>>  BY <1>6 DEF SendRefund
  <2>2. r.out = 1 /\ r.locked = outs[1] /\ outs # <<>>  BY DEF CovBooks, CovInv, TypeInv
  <2>3. CASE r.out \in Live /\ RefundLeaf(terms)
    <3>1. spent' = spent \cup {1} /\ reclaimed' = reclaimed + outs[1] /\ 1 \in Live  BY <1>6, <2>2, <2>3
      DEF SendRefund
    <3>2. Live' = Live \ {1}  BY <2>1, <3>1 DEF Live
    <3>3. IsFiniteSet(Live) /\ IsFiniteSet(Live \ {1}) /\ \A o \in Live : outs[o] \in Nat  BY CovLive, FS_Subset
    <3>4. SumOf(outs, Live) = outs[1] + SumOf(outs, Live \ {1})  BY <3>1, <3>3, SumSteps
    <3>5. SumOf(outs, Live \ {1}) \in Nat  BY <3>3, SumSteps
    <3>6. sold \in Nat /\ reclaimed \in Nat /\ outs[1] \in Nat  BY <3>1, <3>3 DEF CovInv, TypeInv
    <3> QED BY <2>1, <2>2, <3>1, <3>2, <3>4, <3>5, <3>6 DEF CovBooks
  <2>4. CASE ~(r.out \in Live /\ RefundLeaf(terms))
    <3>1. UNCHANGED <<spent, reclaimed>>  BY <1>6, <2>4 DEF SendRefund
    <3> QED BY <2>1, <3>1 DEF CovBooks, Live
  <2> QED BY <2>3, <2>4
<1>7. ASSUME NEW t \in Served, NEW o \in DOMAIN outs, NEW take \in 1..MaxSell, NEW fee \in {"A", "B"},
             BuildFill(t, o, take, fee)
      PROVE  CovBooks'
  <2> DEFINE order == OrderFromTerms(t)
             filled == IF take < FetchUtxo(o) THEN take ELSE FetchUtxo(o)
             f == [out |-> o, filled |-> filled, remainder |-> FetchUtxo(o) - filled, pays |-> CeilPrice(order, filled)]
  <2>1. fills' = fills \cup {f} /\ UNCHANGED <<terms, stage, offered, chainVars, height, refund>>
    BY <1>7 DEF BuildFill
  <2>2. f.out = o /\ f.filled = filled /\ f.remainder = FetchUtxo(o) - filled /\ f.pays = CeilPrice(order, filled)
        /\ f = [out |-> f.out, filled |-> f.filled, remainder |-> f.remainder, pays |-> f.pays]
    OBVIOUS
  <2> HIDE DEF f
  <2>3. \A e \in fills' :
          /\ e.out \in 1..Len(outs') /\ e.filled \in 1..outs'[e.out] /\ e.remainder = outs'[e.out] - e.filled
          /\ e.pays = CeilPrice(terms', e.filled)
    BY <1>0 DEF CovInv, FillsInv, Planned, CeilPrice, LeafPrice
  <2>4. outs' = outs /\ terms' = terms /\ f \in fills'  BY <2>1 DEF chainVars
  <2>5. /\ f.out \in 1..Len(outs) /\ f.filled \in 1..outs[f.out] /\ f.remainder = outs[f.out] - f.filled
        /\ f.pays = CeilPrice(terms, f.filled)
    BY <2>3, <2>4
  <2>6. outs[f.out] \in Nat  BY <2>5, CovLive
  <2>7. f.filled \in Nat /\ f.remainder \in Nat  BY <2>5, <2>6
  <2>8. terms.num \in Nat /\ terms.den \in Nat \ {0}
    <3>1. outs # <<>>  BY <2>5, CovLive
    <3> QED BY <3>1 DEF CovInv, TypeInv, TermsInv, Terms
  <2>9. f.filled * terms.num \in Nat  BY <2>7, <2>8, Product
  <2>10. f.filled * terms.num + terms.den - 1 \in Nat  BY <2>8, <2>9
  <2>11. f.pays \in Nat
    <3> DEFINE price == LeafPrice(terms, f.filled)
               width == 2 * (Word + 1)
    <3>1. price \in Nat  BY <2>8, <2>10, Quotient DEF LeafPrice
    <3>2. width \in Nat \ {0}  BY CovConstants
    <3>3. f.pays = price % width  BY <2>5 DEF CeilPrice
    <3> HIDE DEF price, width
    <3>4. price % width \in Nat  BY <3>1, <3>2, Quotient
    <3> QED BY <3>3, <3>4
  <2>12. f.out \in Nat  BY <2>5, CovLive
  <2>13. f \in Fill  BY <2>2, <2>7, <2>11, <2>12 DEF Fill
  <2> QED BY <2>1, <2>4, <2>13 DEF chainVars, CovBooks, Live
<1>8. ASSUME NEW f \in fills, SendFill(f) PROVE CovBooks'
  <2>1. SettleFill(f) /\ fills' = fills \ {f}  BY <1>8 DEF SendFill
  <2>2. f.remainder \in 0..outs[f.out]
    <3>1. Planned(f) /\ outs[f.out] \in Nat  BY CovLive DEF CovInv, FillsInv, Planned
    <3> QED BY <3>1 DEF Planned
  <2>3. height' = height /\ refund' = refund  BY <2>1 DEF SettleFill
  <2> QED BY <2>1, <2>2, <2>3, CovBooksSettle DEF CovBooks
<1>9. ASSUME NEW f \in fills, FillRefused(f) PROVE CovBooks'
  BY <1>9 DEF FillRefused, chainVars, CovBooks, Live
<1>10. ASSUME NEW f \in OwnFills, OthersFill(f) PROVE CovBooks'
  <2>1. SettleFill(f) /\ fills' = fills  BY <1>10 DEF OthersFill
  <2>2. f.remainder \in 0..outs[f.out]  BY DEF OwnFills
  <2>3. height' = height /\ refund' = refund  BY <2>1 DEF SettleFill
  <2> QED BY <2>1, <2>2, <2>3, CovBooksSettle DEF CovBooks
<1>11. CASE Block
  BY <1>11, CovConstants DEF Block, chainVars, CovBooks, Live
<1>12. CASE RestartWallet
  <2>1. fills' = {} /\ refund' = {} /\ UNCHANGED <<chainVars, height>> /\ (outs # <<>> => terms' = terms)
    BY <1>12 DEF RestartWallet
  <2> QED BY <2>1 DEF chainVars, CovBooks, Live
<1> QED BY <1>1, <1>2, <1>3, <1>4, <1>5, <1>6, <1>7, <1>8, <1>9, <1>10, <1>11, <1>12 DEF CovNext

\* The types follow from both invariants.
LEMMA CovTypesFollow == CovInv /\ CovBooks => CovTypeOK
<1> SUFFICES ASSUME CovInv, CovBooks PROVE CovTypeOK  OBVIOUS
<1>1. outs # <<>> => MapThenSumSet(LAMBDA o : outs[o], Live) + sold + reclaimed = terms.sell
  BY DEF CovBooks, SumOf, MapThenSumSet, MapThenFoldSet
<1> QED BY <1>1 DEF CovInv, TypeInv, CovBooks, CovTypeOK

\* No asset A comes or goes through any fills, refunds and restarts, and the state stays in its sets.
THEOREM CovTypeCorrect == CovSpec => []CovTypeOK
<1>1. CovInit => CovInv /\ CovBooks  BY CovInitInv, CovBooksInit
<1>2. (CovInv /\ CovBooks) /\ [CovNext]_covVars => (CovInv /\ CovBooks)'  BY CovStep, CovBooksStep
<1> QED BY <1>1, <1>2, CovTypesFollow, PTL DEF CovSpec

-----------------------------------------------------------------------------
(***************************************************************************)
(* CoinJoin: for any wallet and any denomination, fee and coordinator.     *)
(***************************************************************************)

(* The sum of the coins' atoms.                                            *)
LEMMA AtomsFold ==
  ASSUME NEW S, IsFiniteSet(S), \A c \in S : c.atoms \in Nat
  PROVE  \E g : FoldOf(g, S, [c \in S |-> c.atoms]) /\ Atoms(S) = g[S]
<1> DEFINE w == [c \in S |-> c.atoms]
           F(h) == [s \in SUBSET S |-> IF s = {} THEN 0 ELSE (CHOOSE x \in s : TRUE).atoms + h[s \ {CHOOSE x \in s : TRUE}]]
           G == CHOOSE g : g = F(g)
<1>1. w \in [S -> Nat]  OBVIOUS
<1>2. PICK g : FoldOf(g, S, w)  BY <1>1, FoldExists
<1>3. ASSUME NEW h PROVE F(h) = [s \in SUBSET S |-> IF s = {} THEN 0 ELSE w[Taken(s)] + h[s \ {Taken(s)}]]
  <2>1. \A s \in SUBSET S : s # {} => Taken(s) \in S  BY TakenIn
  <2>2. \A s \in SUBSET S : s # {} => w[Taken(s)] = (CHOOSE x \in s : TRUE).atoms  BY <2>1 DEF Taken
  <2> QED BY <2>2 DEF Taken
<1>4. g = F(g)  BY <1>2, <1>3 DEF FoldOf
<1> HIDE DEF F
<1>5. G = F(G)  BY <1>4
<1>6. FoldOf(G, S, w)  BY <1>3, <1>5 DEF FoldOf
<1>7. Atoms(S) = G[S]  BY DEF Atoms, MapThenSumSet, MapThenFoldSet, F
<1> QED BY <1>6, <1>7

\* The atoms of some coins are those of any one of them and of the others.
LEMMA AtomsOf ==
  ASSUME NEW S, IsFiniteSet(S), \A c \in S : c.atoms \in Nat
  PROVE  /\ Atoms(S) \in Nat /\ (S = {} => Atoms(S) = 0)
         /\ \A x \in S : Atoms(S) = x.atoms + Atoms(S \ {x})
<1> DEFINE w == [c \in S |-> c.atoms]
<1>1. w \in [S -> Nat]  OBVIOUS
<1>2. PICK g : FoldOf(g, S, w) /\ Atoms(S) = g[S]  BY AtomsFold
<1>3. Atoms(S) \in Nat  BY <1>1, <1>2, FoldNat
<1>4. S = {} => Atoms(S) = 0  BY <1>2, FoldStep
<1>5. ASSUME NEW x \in S PROVE Atoms(S) = x.atoms + Atoms(S \ {x})
  <2> DEFINE R == S \ {x}
             v == [c \in R |-> c.atoms]
  <2>1. IsFiniteSet(R) /\ R \subseteq S /\ \A c \in R : c.atoms \in Nat  BY FS_Subset
  <2>2. PICK h : FoldOf(h, R, v) /\ Atoms(R) = h[R]  BY <2>1, AtomsFold
  <2>3. h[R] = g[R]
    <3>1. \A c \in R : v[c] = w[c]  OBVIOUS
    <3> HIDE DEF v, w, R
    <3> QED BY <3>1, <1>2, <2>1, <2>2, FoldUnique
  <2>4. g[S] = w[x] + g[R]  BY <1>1, <1>2, FoldAny
  <2> QED BY <1>2, <2>2, <2>3, <2>4
<1> QED BY <1>3, <1>4, <1>5

-----------------------------------------------------------------------------
(* A round owes the denominations and the change of coins of one asset     *)
(* that are worth that and the fee, to addresses drawn by this process.    *)
CjRound ==
  round # NoRound =>
    /\ round.phase = "output" /\ round.denom \in 1..MaxDenom /\ round.fee \in 0..MaxCoordFee
    /\ round.k \in 1..MaxCredentials /\ round.change \in Nat
    /\ round.coins \subseteq Wallet /\ round.coins # {} /\ \A c \in round.coins : c.asset = round.asset
    /\ Atoms(round.coins) = round.k * (round.denom + round.fee) + round.change
    /\ round.mix \subseteq 0..(base + fresh - 1) /\ round.changeAt \subseteq 0..(base + fresh - 1)
    /\ round.mix \cap round.changeAt = {}
    /\ IF round.change > 0 THEN \E i \in Nat : round.changeAt = {i} ELSE round.changeAt = {}
    /\ DOMAIN round = {"phase", "asset", "denom", "fee", "k", "coins", "change", "mix", "changeAt"}

CjTyped == base \in Nat /\ fresh \in Nat /\ base + fresh <= MaxIndex /\ process \in 0..1

(* What was signed is paid for, to addresses that are not drawn again.     *)
CjSigned ==
  \A s \in signed :
    /\ s.process \in 0..process
    /\ s.coins \subseteq Wallet /\ s.coins # {}
    /\ \A c \in s.coins \union s.mine : c.asset = s.asset
    /\ Atoms(s.coins) = Atoms(s.mine) + s.fee
    /\ s.process = process => \A m \in s.mine : /\ m.at \in 0..(base + fresh - 1)
                                                /\ round # NoRound => m.at \notin round.mix \union round.changeAt

CjApart ==
  \A s, t \in signed : s.process = t.process /\ s # t => \A m \in s.mine, n \in t.mine : m.at # n.at

CjInv == CjTyped /\ CjRound /\ CjSigned /\ CjApart

\* Before the first round nothing is signed and no address drawn.
LEMMA CjInitInv == CjInit => CjInv
BY CjConstants DEF CjInit, CjInv, CjTyped, CjRound, CjSigned, CjApart

\* Coins of the wallet have a worth.
LEMMA CjCoins ==
  ASSUME NEW S \in SUBSET Wallet
  PROVE  IsFiniteSet(S) /\ Atoms(S) \in Nat /\ (Atoms(S) # 0 => S # {})
<1>1. IsFiniteSet(S) /\ \A c \in S : c.atoms \in Nat  BY CjConstants, FS_Subset
<1> QED BY <1>1, AtomsOf

\* A round that begins draws its change address past all that were drawn, for coins that cover its cost.
LEMMA CjRegisterStep ==
  ASSUME CjInv, NEW asset, NEW denom \in 1..MaxDenom, NEW coordFee \in 0..MaxCoordFee, NEW cap \in 1..MaxCredentials,
         base + fresh < MaxIndex, RegisterInputs(asset, denom, coordFee, cap)
  PROVE  CjInv'
<1> DEFINE per    == denom + coordFee
           coins  == Picked(asset, cap * per)
           k      == Smaller(Atoms(coins) \div per, cap)
           change == Atoms(coins) - k * per
           at     == IF change > 0 THEN {base + fresh} ELSE {}
<1>1. /\ round = NoRound /\ Atoms(coins) >= per
      /\ round' = [phase |-> "output", asset |-> asset, denom |-> denom, fee |-> coordFee, k |-> k,
                   coins |-> coins, change |-> change, mix |-> {}, changeAt |-> at]
      /\ fresh' = IF change > 0 THEN fresh + 1 ELSE fresh
      /\ UNCHANGED <<base, process, signed>>
  BY DEF RegisterInputs
<1>2. per \in Nat \ {0} /\ cap \in Nat \ {0}  BY CjConstants
<1>3. coins \in SUBSET Wallet /\ \A c \in coins : c.asset = asset  BY DEF Picked
<1>4. Atoms(coins) \in Nat /\ coins # {}  BY <1>1, <1>2, <1>3, CjCoins
<1> HIDE DEF coins, per
<1>5. k \in 1..cap /\ k * per <= Atoms(coins)
  <2> DEFINE a == Atoms(coins)
             d == a \div per
  <2>1. d \in Nat \ {0} /\ d * per <= a  BY <1>1, <1>2, <1>4
  <2>2. k = IF d < cap THEN d ELSE cap  BY DEF Smaller
  <2> HIDE DEF d, a
  <2>3. ASSUME cap <= d PROVE cap * per <= d * per  BY <1>2, <2>1, <2>3
  <2>4. k \in 1..cap  BY <1>2, <2>1, <2>2
  <2>5. k * per <= a
    <3>1. CASE d < cap  BY <3>1, <2>1, <2>2
    <3>2. CASE ~(d < cap)
      <4>1. cap * per <= d * per  BY <3>2, <1>2, <2>1, <2>3
      <4>2. cap * per \in Nat /\ d * per \in Nat /\ a \in Nat  BY <1>2, <2>1, <1>4 DEF a
      <4> QED BY <3>2, <4>1, <4>2, <2>1, <2>2
    <3> QED BY <3>1, <3>2
  <2> QED BY <2>4, <2>5 DEF a
<1> HIDE DEF k
<1>6. k \in 1..MaxCredentials /\ k * per \in Nat  BY <1>2, <1>5, CjConstants
<1>7. change \in Nat /\ Atoms(coins) = k * per + change  BY <1>4, <1>5, <1>6
<1> HIDE DEF change
<1>8. base \in Nat /\ fresh \in Nat /\ MaxIndex \in Nat  BY CjConstants DEF CjInv, CjTyped
<1>9. CjTyped'  BY <1>1, <1>8 DEF CjInv, CjTyped
<1>10. at \subseteq 0..(base + fresh' - 1) /\ (IF change > 0 THEN \E i \in Nat : at = {i} ELSE at = {})
  BY <1>1, <1>7, <1>8
<1>11. CjRound'
  <2>1. /\ round'.phase = "output" /\ round'.denom = denom /\ round'.fee = coordFee /\ round'.k = k
        /\ round'.change = change /\ round'.coins = coins /\ round'.asset = asset /\ round'.mix = {}
        /\ round'.changeAt = at
        /\ DOMAIN round' = {"phase", "asset", "denom", "fee", "k", "coins", "change", "mix", "changeAt"}
    BY <1>1
  <2> HIDE DEF at
  <2> QED BY <2>1, <1>1, <1>3, <1>4, <1>6, <1>7, <1>10 DEF CjRound, per
<1>12. CjSigned'
  <2>1. \A s \in signed : s.process = process => \A m \in s.mine : m.at \in 0..(base + fresh - 1)
    BY DEF CjInv, CjSigned
  <2>2. \A i \in 0..(base + fresh - 1) : i \in 0..(base + fresh' - 1) /\ i \notin at
    BY <1>1, <1>8
  <2>3. round'.mix = {} /\ round'.changeAt = at  BY <1>1
  <2> HIDE DEF at
  <2> QED BY <1>1, <2>1, <2>2, <2>3 DEF CjInv, CjSigned
<1>13. CjApart'  BY <1>1 DEF CjInv, CjApart
<1> QED BY <1>9, <1>11, <1>12, <1>13 DEF CjInv

\* A registered output takes the next index, which none has had.
LEMMA CjOutputStep == ASSUME CjInv, RegisterOutput PROVE CjInv'
<1>1. /\ round # NoRound /\ base + fresh < MaxIndex
      /\ round' = [round EXCEPT !.mix = @ \union {base + fresh}]
      /\ fresh' = fresh + 1 /\ UNCHANGED <<base, process, signed>>
  BY DEF RegisterOutput, NoRound
<1>2. base \in Nat /\ fresh \in Nat /\ MaxIndex \in Nat  BY CjConstants DEF CjInv, CjTyped
<1>3. /\ round'.phase = round.phase /\ round'.denom = round.denom /\ round'.fee = round.fee /\ round'.k = round.k
      /\ round'.change = round.change /\ round'.coins = round.coins /\ round'.asset = round.asset
      /\ round'.mix = round.mix \union {base + fresh} /\ round'.changeAt = round.changeAt
      /\ DOMAIN round' = DOMAIN round
  BY <1>1 DEF CjInv, CjRound
<1>4. base + fresh \notin 0..(base + fresh - 1) /\ base + fresh \in 0..(base + fresh' - 1)
      /\ \A i \in 0..(base + fresh - 1) : i \in 0..(base + fresh' - 1)
  BY <1>1, <1>2
<1>5. CjTyped'  BY <1>1, <1>2 DEF CjInv, CjTyped
<1>6. CjRound'
  <2>1. round'.mix \subseteq 0..(base + fresh' - 1) /\ round'.changeAt \subseteq 0..(base + fresh' - 1)
        /\ round'.mix \cap round'.changeAt = {}
    BY <1>1, <1>3, <1>4 DEF CjInv, CjRound
  <2> QED BY <1>1, <1>3, <2>1 DEF CjInv, CjRound
<1>7. CjSigned'  BY <1>1, <1>3, <1>4 DEF CjInv, CjSigned
<1>8. CjApart'  BY <1>1 DEF CjInv, CjApart
<1> QED BY <1>5, <1>6, <1>7, <1>8 DEF CjInv

\* The denominations and the change add up.
LEMMA CjOwedAtoms ==
  ASSUME CjInv, round # NoRound, Cardinality(round.mix) = round.k
  PROVE  Atoms(Owed) = round.k * round.denom + round.change
<1> DEFINE out(i) == [at |-> i, asset |-> round.asset, atoms |-> round.denom]
           Outs(M) == {out(i) : i \in M}
           d == round.denom
           Bad == {M \in SUBSET round.mix : ~(IsFiniteSet(Outs(M)) /\ Atoms(Outs(M)) = Cardinality(M) * d)}
<1>1. /\ d \in Nat /\ round.change \in Nat /\ round.k \in Nat /\ round.mix \subseteq 0..(base + fresh - 1)
      /\ round.mix \cap round.changeAt = {}
      /\ IF round.change > 0 THEN \E i \in Nat : round.changeAt = {i} ELSE round.changeAt = {}
  BY CjConstants DEF CjInv, CjRound
<1>2. IsFiniteSet(round.mix)
  <2>1. IsFiniteSet(0..(base + fresh - 1))  BY FS_Interval DEF CjInv, CjTyped
  <2> QED BY <1>1, <2>1, FS_Subset
<1>3. \A M \in SUBSET round.mix : IsFiniteSet(M) /\ Cardinality(M) \in Nat
  BY <1>2, FS_Subset, FS_CardinalityType
<1>4. Bad = {}
  <2>1. SUFFICES ASSUME Bad # {} PROVE FALSE  OBVIOUS
  <2>2. Bad \in SUBSET SUBSET round.mix  OBVIOUS
  <2>3. \E M \in Bad : \A i \in M : M \ {i} \notin Bad
    <3> HIDE DEF Bad
    <3> QED BY <1>2, <2>1, <2>2, Smallest
  <2> PICK M \in Bad : \A i \in M : M \ {i} \notin Bad  BY <2>3
  <2>4. CASE M = {}
    <3>1. Outs(M) = {} /\ Cardinality(M) = 0  BY <2>4, FS_EmptySet
    <3>2. IsFiniteSet({}) /\ Atoms({}) = 0  BY FS_EmptySet, AtomsOf
    <3>3. 0 * d = 0  BY <1>1
    <3> QED BY <2>3, <3>1, <3>2, <3>3
  <2>5. CASE M # {}
    <3>1. PICK i \in M : TRUE  BY <2>5
    <3> DEFINE N == M \ {i}
    <3>2. N \in SUBSET round.mix /\ N \notin Bad /\ M \in SUBSET round.mix  BY <2>3, <3>1
    <3>3. IsFiniteSet(Outs(N)) /\ Atoms(Outs(N)) = Cardinality(N) * d  BY <3>2
    <3>4. Outs(M) = Outs(N) \cup {out(i)} /\ out(i) \notin Outs(N)
      <4>1. \A j \in N : out(j) # out(i)
        <5>1. SUFFICES ASSUME NEW j \in N, out(j) = out(i) PROVE FALSE  OBVIOUS
        <5>2. out(j).at = j /\ out(i).at = i  OBVIOUS
        <5> QED BY <5>1, <5>2
      <4>2. Outs(M) = Outs(N) \cup {out(i)}  BY <3>1
      <4> QED BY <4>1, <4>2
    <3>5. IsFiniteSet(Outs(M))  BY <3>3, <3>4, FS_AddElement
    <3>6. \A o \in Outs(M) : o.atoms \in Nat  BY <1>1
    <3>7. out(i) \in Outs(M) /\ Outs(M) \ {out(i)} = Outs(N) /\ out(i).atoms = d  BY <3>4
    <3>8. Atoms(Outs(M)) = d + Atoms(Outs(N))
      <4> HIDE DEF Outs, out
      <4> QED BY <3>5, <3>6, <3>7, AtomsOf
    <3>9. Cardinality(N) = Cardinality(M) - 1  BY <1>3, <3>2, FS_RemoveElement
    <3>10. d + (Cardinality(M) - 1) * d = Cardinality(M) * d
      <4> DEFINE n == Cardinality(M)
      <4>1. n \in Nat /\ d \in Nat  BY <1>1, <1>3, <3>2
      <4> HIDE DEF n, d
      <4>2. d + (n - 1) * d = n * d  BY <4>1
      <4> QED BY <4>2 DEF n, d
    <3>11. Atoms(Outs(M)) = Cardinality(M) * d  BY <3>3, <3>8, <3>9, <3>10
    <3> QED BY <2>3, <3>5, <3>11
  <2> QED BY <2>4, <2>5
<1>5. IsFiniteSet(Outs(round.mix)) /\ Atoms(Outs(round.mix)) = round.k * d  BY <1>4
<1>6. CASE round.change > 0
  <2>1. PICK i \in Nat : round.changeAt = {i}  BY <1>1, <1>6
  <2> DEFINE b == [at |-> i, asset |-> round.asset, atoms |-> round.change]
  <2>2. Owed = Outs(round.mix) \cup {b}  BY <2>1 DEF Owed
  <2>3. b \notin Outs(round.mix)
    <3>1. SUFFICES ASSUME NEW j \in round.mix, out(j) = b PROVE FALSE  OBVIOUS
    <3>2. out(j).at = j /\ b.at = i  OBVIOUS
    <3> QED BY <3>1, <3>2, <2>1, <1>1
  <2>4. IsFiniteSet(Owed)  BY <2>2, <1>5, FS_AddElement
  <2>5. \A o \in Owed : o.atoms \in Nat  BY <1>1, <2>2
  <2>6. b \in Owed /\ Owed \ {b} = Outs(round.mix) /\ b.atoms = round.change  BY <2>2, <2>3
  <2> HIDE DEF Outs, out, b
  <2>7. Atoms(Owed) = round.change + Atoms(Outs(round.mix))  BY <2>4, <2>5, <2>6, AtomsOf
  <2>8. round.k * d \in Nat  BY <1>1
  <2> QED BY <1>1, <1>5, <2>7, <2>8
<1>7. CASE ~(round.change > 0)
  <2>1. round.changeAt = {} /\ round.change = 0  BY <1>1, <1>7
  <2>2. Owed = Outs(round.mix)  BY <2>1 DEF Owed
  <2>3. round.k * d \in Nat  BY <1>1
  <2> QED BY <1>5, <2>1, <2>2, <2>3
<1> QED BY <1>6, <1>7

\* The outputs that pay the wallet are those owed.
LEMMA CjMine ==
  ASSUME NEW mine, PaysAsOwed(mine)
  PROVE  mine = Owed
<1>1. Owed \subseteq mine  BY DEF PaysAsOwed
<1>2. ASSUME NEW m \in mine PROVE m \in Owed
  <2>1. m.at \in round.mix \union round.changeAt  BY DEF PaysAsOwed
  <2>2. PICK o \in Owed : o.at = m.at
    <3>1. CASE m.at \in round.mix
      <4>1. [at |-> m.at, asset |-> round.asset, atoms |-> round.denom] \in Owed  BY <3>1 DEF Owed
      <4> QED BY <4>1
    <3>2. CASE m.at \in round.changeAt
      <4>1. [at |-> m.at, asset |-> round.asset, atoms |-> round.change] \in Owed  BY <3>2 DEF Owed
      <4> QED BY <4>1
    <3> QED BY <2>1, <3>1, <3>2
  <2> QED BY <1>1, <2>2 DEF PaysAsOwed
<1> QED BY <1>1, <1>2

\* What is signed spends the round's coins and pays exactly what is owed.
LEMMA CjSignStep ==
  ASSUME CjInv, round.phase = "output", NEW inputs, NEW outputs, VerifyAndSign(inputs, outputs)
  PROVE  CjInv'
<1> DEFINE mine == UnblindOutputs(outputs)
           new == [process |-> process, coins |-> round.coins \intersect inputs, mine |-> mine,
                   asset |-> round.asset, fee |-> round.k * round.fee]
<1>1. /\ Cardinality(round.mix) = round.k /\ round' = NoRound /\ UNCHANGED <<fresh, base, process>>
      /\ signed' = IF PaysAsOwed(mine) /\ Registered(inputs) THEN signed \union {new} ELSE signed
  BY DEF VerifyAndSign
<1>2. round # NoRound  BY DEF NoRound
<1>3. CjTyped' /\ CjRound'  BY <1>1 DEF CjInv, CjTyped, CjRound
<1>4. CASE ~(PaysAsOwed(mine) /\ Registered(inputs))
  BY <1>1, <1>3, <1>4 DEF CjInv, CjSigned, CjApart
<1>5. CASE PaysAsOwed(mine) /\ Registered(inputs)
  <2>1. mine = Owed /\ round.coins \intersect inputs = round.coins  BY <1>5, CjMine DEF Registered
  <2> HIDE DEF mine
  <2>2. /\ new.process = process /\ new.coins = round.coins /\ new.mine = Owed /\ new.asset = round.asset
        /\ new.fee = round.k * round.fee
    BY <2>1
  <2> HIDE DEF new
  <2>3. \A m \in Owed : m.asset = round.asset /\ m.at \in round.mix \union round.changeAt  BY DEF Owed
  <2>4. /\ round.coins \subseteq Wallet /\ round.coins # {} /\ \A c \in round.coins : c.asset = round.asset
        /\ round.mix \union round.changeAt \subseteq 0..(base + fresh - 1)
    BY <1>2 DEF CjInv, CjRound
  <2>5. Atoms(new.coins) = Atoms(new.mine) + new.fee
    <3> DEFINE k == round.k
               d == round.denom
               f == round.fee
               c == round.change
    <3>1. k \in Nat /\ d \in Nat /\ f \in Nat /\ c \in Nat  BY <1>2, CjConstants DEF CjInv, CjRound
    <3>2. Atoms(round.coins) = k * (d + f) + c  BY <1>2 DEF CjInv, CjRound
    <3>3. Atoms(Owed) = k * d + c  BY <1>1, <1>2, CjOwedAtoms
    <3> HIDE DEF k, d, f, c
    <3>4. k * (d + f) + c = k * d + c + k * f  BY <3>1
    <3> QED BY <2>2, <3>2, <3>3, <3>4 DEF k, f
  <2>6. process \in 0..process  BY DEF CjInv, CjTyped
  <2>7. CjSigned'
    <3>1. \A m \in new.mine : m.at \in 0..(base + fresh - 1)  BY <2>2, <2>3, <2>4
    <3>2. \A c \in new.coins \union new.mine : c.asset = new.asset  BY <2>2, <2>3, <2>4
    <3> QED BY <1>1, <1>5, <2>2, <2>4, <2>5, <2>6, <3>1, <3>2 DEF CjInv, CjSigned
  <2>8. CjApart'
    <3>1. \A s \in signed : s.process = process => \A m \in s.mine, n \in new.mine : m.at # n.at /\ n.at # m.at
      BY <1>2, <2>2, <2>3 DEF CjInv, CjSigned
    <3> QED BY <1>1, <1>5, <2>2, <3>1 DEF CjInv, CjApart
  <2> QED BY <1>3, <2>7, <2>8 DEF CjInv
<1> QED BY <1>4, <1>5

\* A round ends, a scan moves the index, the app is killed.
LEMMA CjOtherSteps == ASSUME CjInv, RoundFails \/ Observe \/ RestartApp PROVE CjInv'
<1>1. ASSUME RoundFails PROVE CjInv'
  BY <1>1 DEF RoundFails, CjInv, CjTyped, CjRound, CjSigned, CjApart
<1>2. ASSUME Observe PROVE CjInv'
  <2>1. base \in Nat /\ fresh \in Nat /\ MaxIndex \in Nat  BY CjConstants DEF CjInv, CjTyped
  <2>2. base' = base + 1 /\ base + fresh < MaxIndex /\ UNCHANGED <<round, fresh, process, signed>>
    BY <1>2 DEF Observe
  <2>3. \A i \in 0..(base + fresh - 1) : i \in 0..(base' + fresh' - 1)  BY <2>1, <2>2
  <2>4. CjTyped'  BY <2>1, <2>2 DEF CjInv, CjTyped
  <2>5. CjRound'
    <3>1. \A A : A \subseteq 0..(base + fresh - 1) => A \subseteq 0..(base' + fresh' - 1)  BY <2>3
    <3> HIDE <2>3
    <3> QED BY <2>2, <3>1 DEF CjInv, CjRound
  <2>6. CjSigned' /\ CjApart'  BY <2>2, <2>3 DEF CjInv, CjSigned, CjApart
  <2> QED BY <2>4, <2>5, <2>6 DEF CjInv
<1>3. ASSUME RestartApp PROVE CjInv'
  <2>1. process = 0 /\ process' = 1 /\ round' = NoRound /\ fresh' = 0 /\ base' \in 0..base /\ signed' = signed
    BY <1>3 DEF RestartApp
  <2>2. CjTyped' /\ CjRound'  BY <2>1, CjConstants DEF CjInv, CjTyped, CjRound
  <2>3. \A s \in signed : s.process = 0  BY <2>1 DEF CjInv, CjSigned
  <2>4. CjSigned' /\ CjApart'  BY <2>1, <2>3 DEF CjInv, CjSigned, CjApart
  <2> QED BY <2>2, <2>4 DEF CjInv
<1> QED BY <1>1, <1>2, <1>3

\* The invariant is inductive.
LEMMA CjNextInv == CjInv /\ [CjNext]_cjVars => CjInv'
<1> SUFFICES ASSUME CjInv, [CjNext]_cjVars PROVE CjInv'  OBVIOUS
<1>1. ASSUME UNCHANGED cjVars PROVE CjInv'
  BY <1>1 DEF cjVars, CjInv, CjTyped, CjRound, CjSigned, CjApart
<1> QED BY <1>1, CjRegisterStep, CjOutputStep, CjSignStep, CjOtherSteps DEF CjNext

\* The types follow from it, ...
LEMMA CjTypesFollow == CjInv => CjTypeOK
<1> SUFFICES ASSUME CjInv PROVE CjTypeOK  OBVIOUS
<1>1. fresh \in 0..MaxIndex /\ base \in 0..MaxIndex /\ process \in 0..1 /\ base + fresh <= MaxIndex
      /\ base \in Nat /\ fresh \in Nat /\ MaxIndex \in Nat
  BY CjConstants DEF CjInv, CjTyped
<1>2. round = NoRound \/ round.phase = "output"  BY DEF CjInv, CjRound
<1>3. round.phase \in {"none", "output"}  BY <1>2 DEF NoRound
<1>4. \A i \in 0..(base + fresh - 1) : i \in 0..(MaxIndex - 1)  BY <1>1
<1>5. round # NoRound => round.mix \union round.changeAt \subseteq 0..(MaxIndex - 1)
  BY <1>4 DEF CjInv, CjRound
<1> QED BY <1>1, <1>3, <1>5 DEF CjInv, CjRound, CjSigned, CjTypeOK

\* ... and what a round costs.
LEMMA CjCostsFollow == CjInv => CostsTheFee
BY DEF CjInv, CjSigned, CjApart, CostsTheFee

\* Every reachable state of the rounds is well typed.
THEOREM CjTypeCorrect == CjSpec => []CjTypeOK
<1> QED BY CjInitInv, CjNextInv, CjTypesFollow, PTL DEF CjSpec

\* What the wallet signs in a round costs it the coordinator's fee and no more, and no two rounds of a run
\* of the app pay one address (verifyRoundOutputs, selectInputs, _nextFreshIndex), whatever the coordinator
\* builds.
THEOREM CostsTheFeeAlways == CjSpec => []CostsTheFee
<1> QED BY CjInitInv, CjNextInv, CjCostsFollow, PTL DEF CjSpec

-----------------------------------------------------------------------------
(***************************************************************************)
(* Delegation: for any pools, records, remembered signers and failing      *)
(* requests.                                                               *)
(***************************************************************************)

(* Delegation: records carry the numbers one to their count; ...           *)
DelTyped ==
  /\ records \subseteq Rec /\ unspent \subseteq {r.id : r \in records}
  /\ leaving \cup left \subseteq {r.id : r \in records} \ unspent /\ history \subseteq {r.id : r \in records}
  /\ board \subseteq Signers /\ hints \in Seq(Signers) /\ Len(hints) <= HintCap
  /\ deleg \in Pick0 /\ join \in Signers \cup {NoRecord}
  /\ task \in Task /\ slips \subseteq Slips /\ misses \in 0..MaxMisses
  /\ \A r \in records : r.id \notin unspent => r.confirmed

DelNumbered ==
  /\ IsFiniteSet(records)
  /\ \A r \in records : r.id <= Cardinality(records)
  /\ \A r, q \in records : r.id = q.id => r = q

\* a record that is spent was spent by a leave or for the one it was moved to; ...
DelSpent ==
  \A r \in records : r.id \in unspent \/ r.id \in leaving \/ r.id \in left \/ \E q \in records : q.from = r.id

\* what a probe has found is live, the history is found at once, and a lookup in which none failed has each
\* live record it asks about found or its signer still to be asked; ...
DelLooked ==
  /\ task.known \subseteq unspent \cap task.found
  /\ task.op = "move" => task.to \in Signers
  /\ misses = 0 => task.sure
  /\ task.op # "none" => history \subseteq task.found
  /\ task.op # "none" /\ task.sure /\ task.known = {}
       => \A r \in records :
            r.id \in unspent => r.id \in task.found \/ r.signer \in task.left \/ r.signer \notin task.asked

\* and, while nothing fails, no lookup is blind and nobody joins too soon, there is one record at most that
\* nothing spends, none while a leave waits or a join is under way, and a screen that has looked and shows
\* nothing is right.
DelAlone ==
  misses = 0 /\ slips = {} =>
    /\ \A a, b \in unspent : a = b
    /\ task.op # "load" /\ deleg = NoRecord => unspent = {}
    /\ join # NoRecord => unspent = {}
    /\ leaving # {} => unspent = {}
    /\ \A a, b \in leaving : a = b

DelJoining == join # NoRecord => task.op \in {"none", "load"}

DelInv == DelTyped /\ DelNumbered /\ DelSpent /\ DelLooked /\ DelAlone /\ DelJoining

\* The record with a number.
LEMMA DelRecord ==
  ASSUME DelNumbered, NEW r \in records
  PROVE  Record(r.id) = r
<1>1. \A q \in records : q.id = r.id => q = r  BY DEF DelNumbered
<1>2. Record(r.id) \in records /\ Record(r.id).id = r.id  BY DEF Record
<1> QED BY <1>1, <1>2

\* What a lookup answers is the latest of the records it found that are live.
LEMMA DelInForce ==
  ASSUME DelInv
  PROVE  /\ InForce \in Pick0
         /\ InForce # NoRecord => InForce \in unspent
         /\ (\E id \in task.found : id \in unspent) => InForce # NoRecord
<1> DEFINE good == {id \in task.found : id \in task.known \/ id \in unspent}
<1>1. good \in SUBSET (1..MaxRecords) /\ MaxRecords \in Nat /\ good \subseteq unspent /\ NoRecord \notin 1..MaxRecords
      /\ \A id \in task.found : id \in unspent => id \in good
  BY DelegConstants DEF DelInv, DelTyped, DelLooked, Task, Numbers
<1>2. InForce = IF good = {} THEN NoRecord ELSE CHOOSE a \in good : \A b \in good : b <= a  BY DEF InForce
<1> HIDE DEF good
<1>3. CASE good = {}  BY <1>1, <1>2, <1>3 DEF Pick0
<1>4. CASE good # {}
  <2>1. \E a \in good : \A b \in good : b <= a  BY <1>1, <1>4, Greatest
  <2>2. InForce \in good  BY <1>2, <1>4, <2>1
  <2> QED BY <1>1, <2>2 DEF Pick0, Numbers
<1> QED BY <1>3, <1>4

\* A lookup in which no probe failed and that is over finds a live record it could come upon.
LEMMA DelFinds ==
  ASSUME DelInv, Found, task.sure,
         NEW r \in records, r.id \in unspent, r.id \in task.found \/ r.signer \in task.asked
  PROVE  InForce \in unspent
<1>1. \E id \in task.found : id \in unspent
  <2>1. CASE task.known # {}  BY <2>1 DEF DelInv, DelLooked
  <2>2. CASE task.known = {}
    <3>1. task.op # "none" /\ task.left = {}  BY <2>2 DEF Found, Probing
    <3> QED BY <2>2, <3>1 DEF DelInv, DelLooked
  <2> QED BY <2>1, <2>2
<1> QED BY <1>1, DelInForce

\* No lookup is a state of the lookup.
LEMMA DelIdle == Idle \in Task
<1>1. TRUE \in BOOLEAN  BY Zenon
<1> QED BY <1>1 DEF Idle, Task

\* At first there is no record and nothing is looked for.
LEMMA DelInitInv == DelegInit => DelInv
<1> SUFFICES ASSUME DelegInit PROVE DelInv  OBVIOUS
<1>1. IsFiniteSet({}) /\ Cardinality({}) = 0  BY FS_EmptySet
<1>2. 0 \in 0..MaxMisses  BY DelegConstants
<1>3. <<>> \in Seq(Signers) /\ Len(<<>>) <= HintCap  BY DelegConstants
<1>4. DelTyped  BY <1>2, <1>3, DelIdle DEF DelegInit, DelTyped, Pick0
<1> QED BY <1>1, <1>4 DEF DelegInit, DelInv, DelNumbered, DelSpent, DelLooked, DelAlone, DelJoining, Idle

\* What a device remembers is a list of signers within its bound.
LEMMA DelRemember ==
  ASSUME DelTyped, NEW s \in Signers, NEW h \in Remembered(s)
  PROVE  h \in Seq(Signers) /\ Len(h) <= HintCap
<1>1. hints \in Seq(Signers) /\ Len(hints) \in Nat /\ HintCap \in Nat /\ Len(hints) <= HintCap /\ <<s>> \in Seq(Signers)
  BY DelegConstants DEF DelTyped
<1>2. <<s>> \o hints \in Seq(Signers) /\ Len(<<s>> \o hints) = 1 + Len(hints)
  BY <1>1
<1>3. CASE h = hints  BY <1>1, <1>3
<1>4. CASE h = <<s>> \o hints /\ Len(hints) < HintCap  BY <1>1, <1>2, <1>4
<1>5. CASE h = SubSeq(<<s>> \o hints, 1, HintCap) /\ ~(Len(hints) < HintCap)
  <2> DEFINE q == <<s>> \o hints
  <2>1. q \in Seq(Signers) /\ Len(q) = 1 + Len(hints) /\ HintCap <= Len(q)
    BY <1>1, <1>2, <1>5
  <2> HIDE DEF q
  <2>2. \A i \in 1..HintCap : q[i] \in Signers  BY <1>1, <2>1
  <2>3. SubSeq(q, 1, HintCap) \in Seq(Signers) /\ Len(SubSeq(q, 1, HintCap)) = HintCap
    BY <1>1, <2>1, <2>2
  <2> QED BY <1>1, <1>5, <2>3 DEF q
<1> QED BY <1>3, <1>4, <1>5 DEF Remembered

\* A record made takes the next number, and nothing else changes about the others.
LEMMA DelNew ==
  ASSUME DelInv, NEW s \in Signers, NEW old \in Numbers \cup {NoRecord}, NewRecord(s, old)
  PROVE  LET id == Cardinality(records) + 1
             new == [id |-> id, signer |-> s, from |-> old, confirmed |-> FALSE]
         IN /\ id \in Numbers /\ records' = records \cup {new} /\ records' \subseteq Rec
            /\ id \notin {r.id : r \in records}
            /\ {r.id : r \in records'} = {r.id : r \in records} \cup {id}
            /\ DelNumbered'
<1> DEFINE id == Cardinality(records) + 1
           new == [id |-> id, signer |-> s, from |-> old, confirmed |-> FALSE]
<1>1. id \in Numbers /\ records' = records \cup {new}  BY DEF NewRecord
<1>2. records' \subseteq Rec
  <2>1. new \in Rec
    <3>1. FALSE \in BOOLEAN  BY Zenon
    <3> QED BY <1>1, <3>1 DEF Rec
  <2> HIDE DEF new
  <2> QED BY <1>1, <2>1 DEF DelInv, DelTyped
<1>3. IsFiniteSet(records) /\ Cardinality(records) \in Nat  BY FS_CardinalityType DEF DelInv, DelNumbered
<1>4. \A r \in records : r.id <= Cardinality(records) /\ r.id \in Nat /\ r.id # id
  BY <1>3 DEF DelInv, DelNumbered, DelTyped, Rec, Numbers
<1>5. new \notin records /\ new.id = id  BY <1>4
<1>6. IsFiniteSet(records') /\ Cardinality(records') = id  BY <1>1, <1>3, <1>5, FS_AddElement
<1>7. DelNumbered'
  <2>1. \A r, q \in records' : r.id = q.id => r = q  BY <1>1, <1>4, <1>5 DEF DelInv, DelNumbered
  <2>2. \A r \in records' : r.id <= id
    <3> HIDE DEF new
    <3> QED BY <1>1, <1>3, <1>4, <1>5
  <2> QED BY <1>6, <2>1, <2>2 DEF DelNumbered
<1>8. {r.id : r \in records'} = {r.id : r \in records} \cup {id}
  <2> HIDE DEF new, id
  <2> QED BY <1>1, <1>5
<1> QED BY <1>1, <1>2, <1>4, <1>7, <1>8

\* A lookup that begins has found what the history holds and has every signer to ask.
LEMMA DelFresh ==
  ASSUME DelTyped, NEW op \in {"load", "move", "leave"}, NEW to \in Signers \cup {NoRecord}, Lookup(op, to),
         hints' \in Seq(Signers), board' \subseteq Signers, history' \subseteq Numbers,
         op = "move" => to \in Signers
  PROVE  /\ task' \in Task /\ DelLooked' /\ task'.op = op
<1>1. PICK queried \in {Range(hints') \cup board, board} :
         task' = [op |-> op, to |-> to, asked |-> queried, left |-> queried, found |-> history', known |-> {},
                  sure |-> TRUE]
  BY DEF Lookup
<1>2. queried \subseteq Signers
  <2>1. Range(hints') \subseteq Signers  BY DEF Range
  <2> QED BY <1>1, <2>1 DEF DelTyped
<1>3. task' \in Task
  <2>1. TRUE \in BOOLEAN  BY Zenon
  <2> QED BY <1>1, <1>2, <2>1 DEF Task
<1>4. /\ task'.known = {} /\ task'.op = op /\ task'.to = to /\ task'.left = queried /\ task'.asked = queried
      /\ task'.found = history' /\ task'.sure = TRUE
  BY <1>1
<1>5. DelLooked'  BY <1>4 DEF DelLooked
<1> QED BY <1>3, <1>4, <1>5

\* A lookup begins.
LEMMA DelBeginStep ==
  ASSUME DelInv, Load \/ BeginLeave \/ \E s \in Signers : BeginMove(s)
  PROVE  DelInv'
<1>1. PICK op \in {"load", "move", "leave"}, to \in Signers \cup {NoRecord} :
        /\ task.op = "none" /\ Lookup(op, to) /\ (op = "move" => to \in Signers)
        /\ op # "load" => join = NoRecord
        /\ hints' = hints \/ (to \in Signers /\ hints' \in Remembered(to))
        /\ UNCHANGED <<records, unspent, leaving, left, history, board, deleg, join, slips, misses>>
  <2>1. CASE Load  BY <2>1 DEF Load, recordVars
  <2>2. CASE BeginLeave  BY <2>2 DEF BeginLeave, recordVars
  <2>3. ASSUME NEW s \in Signers, BeginMove(s) PROVE
          /\ task.op = "none" /\ Lookup("move", s) /\ join = NoRecord /\ hints' \in Remembered(s)
          /\ UNCHANGED <<records, unspent, leaving, left, history, board, deleg, join, slips, misses>>
    BY <2>3 DEF BeginMove, recordVars
  <2> QED BY <2>1, <2>2, <2>3
<1>2. hints' \in Seq(Signers) /\ Len(hints') <= HintCap  BY <1>1, DelRemember DEF DelInv, DelTyped
<1>3. history' \subseteq Numbers /\ board' \subseteq Signers  BY <1>1 DEF DelInv, DelTyped, Rec
<1>4. task' \in Task /\ DelLooked' /\ task'.op = op  BY <1>1, <1>2, <1>3, DelFresh DEF DelInv
<1>5. DelTyped'  BY <1>1, <1>2, <1>4 DEF DelInv, DelTyped
<1>6. DelNumbered' /\ DelSpent'  BY <1>1 DEF DelInv, DelNumbered, DelSpent
<1>7. DelAlone' /\ DelJoining'  BY <1>1, <1>4 DEF DelInv, DelAlone, DelJoining
<1> QED BY <1>4, <1>5, <1>6, <1>7 DEF DelInv

\* A probe moves its signer's live record to what is found, or fails and the lookup is unsure.
LEMMA DelProbeStep ==
  ASSUME DelInv, NEW s \in Signers, Probe(s) \/ ProbeFails(s)
  PROVE  DelInv'
<1>1. /\ Probing /\ s \in task.left
      /\ UNCHANGED <<records, unspent, leaving, left, history, board, hints, deleg, join, slips>>
      /\ misses' \in 0..MaxMisses /\ misses' >= misses
  BY DelegConstants DEF Probe, ProbeFails, Next1, DelInv, DelTyped, recordVars
<1>2. DOMAIN task = {"op", "to", "asked", "left", "found", "known", "sure"}
      /\ task.op \in {"none", "load", "move", "leave"} /\ task.to \in Signers \cup {NoRecord}
      /\ task.asked \subseteq Signers
      /\ task.left \subseteq Signers /\ task.found \subseteq Numbers /\ task.known \subseteq Numbers
      /\ task.sure \in BOOLEAN /\ unspent \subseteq Numbers /\ task.op # "none" /\ task.known = {}
      /\ task \in Task
  BY <1>1 DEF DelInv, DelTyped, Task, Rec, Probing
<1>3. DelNumbered' /\ DelSpent'  BY <1>1 DEF DelInv, DelNumbered, DelSpent
<1>4. CASE Probe(s)
  <2> DEFINE hit == {id \in unspent : Record(id).signer = s}
             t == [task EXCEPT !.left = @ \ {s}, !.found = @ \cup hit, !.known = hit]
  <2>1. task' = t /\ misses' = misses  BY <1>4 DEF Probe
  <2>2. hit \subseteq unspent /\ \A r \in records : r.id \in unspent /\ r.signer = s => r.id \in hit
    BY DelRecord DEF DelInv
  <2>3. /\ t.op = task.op /\ t.to = task.to /\ t.asked = task.asked /\ t.left = task.left \ {s}
        /\ t.found = task.found \cup hit /\ t.known = hit /\ t.sure = task.sure
    BY <1>2
  <2>4. t \in Task  BY <1>2, <2>2 DEF Task
  <2> HIDE DEF t, hit
  <2>5. DelTyped'  BY <1>1, <2>1, <2>4 DEF DelInv, DelTyped
  <2>6. DelLooked'  BY <1>1, <1>2, <2>1, <2>2, <2>3 DEF DelInv, DelLooked
  <2>7. DelAlone' /\ DelJoining'  BY <1>1, <2>1, <2>3 DEF DelInv, DelAlone, DelJoining
  <2> QED BY <1>3, <2>5, <2>6, <2>7 DEF DelInv
<1>5. CASE ProbeFails(s)
  <2> DEFINE t == [task EXCEPT !.left = @ \ {s}, !.sure = FALSE]
  <2>1. task' = t /\ misses' = misses + 1 /\ misses' # 0  BY <1>5 DEF ProbeFails, DelInv, DelTyped
  <2>2. /\ t.op = task.op /\ t.to = task.to /\ t.asked = task.asked /\ t.left = task.left \ {s}
        /\ t.found = task.found /\ t.known = task.known /\ t.sure = FALSE
    BY <1>2
  <2>3. t \in Task
    <3>1. FALSE \in BOOLEAN  BY Zenon
    <3> QED BY <1>2, <3>1 DEF Task
  <2> HIDE DEF t
  <2>4. DelTyped'  BY <1>1, <2>1, <2>3 DEF DelInv, DelTyped
  <2>5. DelLooked'  BY <1>1, <1>2, <2>1, <2>2 DEF DelInv, DelLooked
  <2>6. DelAlone'  BY <2>1 DEF DelAlone
  <2>7. DelJoining'  BY <1>1, <2>1, <2>2 DEF DelInv, DelJoining
  <2> QED BY <1>3, <2>4, <2>5, <2>6, <2>7 DEF DelInv
<1> QED BY <1>4, <1>5

\* A lookup that ends in an error, or is given up.
LEMMA DelFailStep == ASSUME DelInv, HistoryFails \/ CheckFails PROVE DelInv'
<1>1. misses' = misses + 1 /\ misses < MaxMisses /\ task' = Idle
      /\ UNCHANGED <<records, unspent, leaving, left, history, board, hints, deleg, join, slips>>
  BY DEF HistoryFails, CheckFails, recordVars
<1>2. misses' \in 0..MaxMisses /\ misses' # 0  BY <1>1, DelegConstants DEF DelInv, DelTyped
<1>3. DelTyped'  BY <1>1, <1>2, DelIdle DEF DelInv, DelTyped
<1> QED BY <1>1, <1>2, <1>3 DEF DelInv, DelNumbered, DelSpent, DelLooked, DelAlone, DelJoining, Idle

\* What the screen shows after a lookup that asked about every record is the live one if there is one.
LEMMA DelShowStep == ASSUME DelInv, Show PROVE DelInv'
<1>1. Found /\ task.op = "load" /\ deleg' = InForce /\ task' = Idle
      /\ slips' = (IF Unasked = {} THEN slips ELSE slips \cup {"blind"})
      /\ UNCHANGED <<records, unspent, leaving, left, history, board, hints, join, misses>>
  BY DEF Show, recordVars
<1>2. InForce \in Pick0 /\ slips' \subseteq Slips /\ slips \subseteq slips'
  BY <1>1, DelInForce DEF DelInv, DelTyped, Slips
<1>3. DelTyped'  BY <1>1, <1>2, DelIdle DEF DelInv, DelTyped
<1>4. DelAlone'
  <2>1. SUFFICES ASSUME misses' = 0, slips' = {}, deleg' = NoRecord, unspent # {} PROVE FALSE
    BY <1>1, <1>2 DEF DelInv, DelAlone
  <2>2. task.sure /\ Unasked = {}  BY <1>1, <2>1 DEF DelInv, DelLooked
  <2>3. PICK r \in records : r.id \in unspent  BY <2>1 DEF DelInv, DelTyped
  <2>4. r.id \in task.found \/ r.signer \in task.asked  BY <2>2, <2>3 DEF Unasked
  <2>5. InForce \in unspent  BY <1>1, <2>2, <2>3, <2>4, DelFinds
  <2>6. NoRecord \notin unspent  BY DelegConstants DEF DelInv, DelTyped, Rec, Numbers
  <2> QED BY <1>1, <2>1, <2>5, <2>6
<1> QED BY <1>1, <1>3, <1>4 DEF DelInv, DelNumbered, DelSpent, DelLooked, DelJoining, Idle

\* A join that the user confirms or gives up makes no record.
LEMMA DelJoinStep == ASSUME DelInv, JoinFails \/ \E s \in Signers : ChooseJoin(s) PROVE DelInv'
<1>1. CASE JoinFails
  <2>1. join \in Signers /\ (hints' = hints \/ hints' \in Remembered(join)) /\ join' = NoRecord
        /\ UNCHANGED <<records, unspent, leaving, left, history, board, deleg, task, slips, misses>>
    BY <1>1 DEF JoinFails, recordVars, DelInv, DelTyped
  <2>2. hints' \in Seq(Signers) /\ Len(hints') <= HintCap  BY <2>1, DelRemember DEF DelInv, DelTyped
  <2>3. DelTyped'  BY <2>1, <2>2 DEF DelInv, DelTyped
  <2> QED BY <2>1, <2>3 DEF DelInv, DelNumbered, DelSpent, DelLooked, DelAlone, DelJoining
<1>2. ASSUME NEW s \in Signers, ChooseJoin(s) PROVE DelInv'
  <2>1. /\ task.op \in {"none", "load"} /\ deleg = NoRecord /\ join' = s
        /\ slips' = (IF task.op = "load" THEN slips \cup {"early"} ELSE slips)
        /\ UNCHANGED <<records, unspent, leaving, left, history, board, hints, deleg, task, misses>>
    BY <1>2 DEF ChooseJoin, recordVars
  <2>2. slips' \subseteq Slips /\ slips \subseteq slips'  BY <2>1 DEF DelInv, DelTyped, Slips
  <2>3. DelTyped'  BY <2>1, <2>2 DEF DelInv, DelTyped
  <2>4. DelAlone'  BY <2>1, <2>2 DEF DelInv, DelAlone
  <2> QED BY <2>1, <2>3, <2>4 DEF DelInv, DelNumbered, DelSpent, DelLooked, DelJoining
<1> QED BY <1>1, <1>2

\* A join takes the next number; where the screen had looked there was no live record.
LEMMA DelSendStep == ASSUME DelInv, SendJoin PROVE DelInv'
<1> DEFINE id == Cardinality(records) + 1
           new == [id |-> id, signer |-> join, from |-> NoRecord, confirmed |-> FALSE]
<1>1. /\ join \in Signers /\ hints' \in Remembered(join) /\ NewRecord(join, NoRecord)
      /\ unspent' = unspent \cup {id} /\ history' = history \cup {id} /\ join' = NoRecord
      /\ slips' = (IF leaving # {} THEN slips \cup {"loose"} ELSE slips)
      /\ Lookup("load", NoRecord)
      /\ UNCHANGED <<leaving, left, board, deleg, misses>>
  BY DEF SendJoin, DelInv, DelTyped
<1>2. /\ id \in Numbers /\ records' = records \cup {new} /\ records' \subseteq Rec
      /\ id \notin {r.id : r \in records} /\ {r.id : r \in records'} = {r.id : r \in records} \cup {id}
      /\ DelNumbered'
  BY <1>1, DelNew
<1>3. new.id = id /\ new.signer = join  OBVIOUS
<1> HIDE DEF new, id
<1>4. history' \subseteq Numbers /\ hints' \in Seq(Signers) /\ Len(hints') <= HintCap /\ board' \subseteq Signers
  <2>1. history \subseteq Numbers  BY DEF DelInv, DelTyped, Rec
  <2> QED BY <1>1, <1>2, <2>1, DelRemember DEF DelInv, DelTyped
<1>5. task' \in Task /\ DelLooked' /\ task'.op = "load"  BY <1>1, <1>4, DelFresh DEF DelInv
<1>6. slips' \subseteq Slips /\ slips \subseteq slips'  BY <1>1 DEF DelInv, DelTyped, Slips
<1>7. DelTyped'
  <2>1. \A r \in records' : r.id \notin unspent' => r.confirmed  BY <1>1, <1>2, <1>3 DEF DelInv, DelTyped
  <2>2. unspent' \subseteq {r.id : r \in records'} /\ history' \subseteq {r.id : r \in records'}
    <3>1. unspent \cup {id} \subseteq {r.id : r \in records} \cup {id}
          /\ history \cup {id} \subseteq {r.id : r \in records} \cup {id}
      BY DEF DelInv, DelTyped
    <3> QED BY <1>1, <1>2, <3>1
  <2>3. leaving' \cup left' \subseteq {r.id : r \in records'} \ unspent'
    <3>1. leaving \cup left \subseteq {r.id : r \in records} \ unspent  BY DEF DelInv, DelTyped
    <3>2. leaving \cup left \subseteq ({r.id : r \in records} \cup {id}) \ (unspent \cup {id})  BY <1>2, <3>1
    <3> QED BY <1>1, <1>2, <3>2
  <2>4. deleg' \in Pick0 /\ misses' \in 0..MaxMisses /\ join' \in Signers \cup {NoRecord}
    BY <1>1 DEF DelInv, DelTyped
  <2> QED BY <1>2, <1>4, <1>5, <1>6, <2>1, <2>2, <2>3, <2>4 DEF DelTyped
<1>8. DelSpent'  BY <1>1, <1>2, <1>3 DEF DelInv, DelSpent
<1>9. DelAlone'
  <2>1. ASSUME misses' = 0, slips' = {} PROVE unspent = {} /\ leaving = {}
    BY <1>1, <1>6, <2>1, DelegConstants DEF DelInv, DelAlone
  <2> QED BY <1>1, <1>5, <2>1 DEF DelAlone
<1>10. DelJoining'  BY <1>1 DEF DelJoining
<1> QED BY <1>2, <1>5, <1>7, <1>8, <1>9, <1>10 DEF DelInv

\* A move spends the one live record and makes the next.
LEMMA DelMoveStep == ASSUME DelInv, Move PROVE DelInv'
<1> DEFINE id == Cardinality(records) + 1
           new == [id |-> id, signer |-> task.to, from |-> InForce, confirmed |-> FALSE]
<1>1. /\ task.op = "move" /\ Spendable /\ NewRecord(task.to, InForce)
      /\ unspent' = (unspent \ {InForce}) \cup {id}
      /\ Lookup("load", NoRecord)
      /\ UNCHANGED <<leaving, left, history, board, hints, deleg, join, slips, misses>>
  BY DEF Move
<1>2. task.to \in Signers /\ board \subseteq Signers /\ join = NoRecord
  BY <1>1 DEF DelInv, DelLooked, DelTyped, DelJoining
<1>3. InForce \in unspent /\ InForce \in Numbers /\ Record(InForce).confirmed
  BY <1>1, DelInForce DEF Spendable, DelInv, DelTyped, Rec
<1>4. /\ id \in Numbers /\ records' = records \cup {new} /\ records' \subseteq Rec
      /\ id \notin {r.id : r \in records} /\ {r.id : r \in records'} = {r.id : r \in records} \cup {id}
      /\ DelNumbered'
  BY <1>1, <1>2, <1>3, DelNew
<1>5. new.id = id /\ new.signer = task.to /\ new.from = InForce  OBVIOUS
<1> HIDE DEF new, id
<1>6. \A r \in records : r.id = InForce => r.confirmed
  <2>1. SUFFICES ASSUME NEW r \in records, r.id = InForce PROVE r.confirmed  OBVIOUS
  <2>2. Record(r.id) = r  BY DelRecord DEF DelInv
  <2> QED BY <1>3, <2>1, <2>2
<1>7. task' \in Task /\ DelLooked' /\ task'.op = "load"
  <2>1. history' \subseteq Numbers /\ hints' \in Seq(Signers) /\ board' \subseteq Signers
    BY <1>1 DEF DelInv, DelTyped, Rec
  <2> QED BY <1>1, <2>1, DelFresh DEF DelInv
<1>8. DelTyped'
  <2>1. \A r \in records' : r.id \notin unspent' => r.confirmed
    BY <1>1, <1>4, <1>5, <1>6 DEF DelInv, DelTyped
  <2>2. unspent' \subseteq {r.id : r \in records'} /\ history' \subseteq {r.id : r \in records'}
    <3>1. (unspent \ {InForce}) \cup {id} \subseteq {r.id : r \in records} \cup {id}
          /\ history \subseteq {r.id : r \in records} \cup {id}
      BY DEF DelInv, DelTyped
    <3> QED BY <1>1, <1>4, <3>1
  <2>3. leaving' \cup left' \subseteq {r.id : r \in records'} \ unspent'
    <3>1. leaving \cup left \subseteq {r.id : r \in records} \ unspent  BY DEF DelInv, DelTyped
    <3>2. leaving \cup left \subseteq ({r.id : r \in records} \cup {id}) \ ((unspent \ {InForce}) \cup {id})
      BY <1>4, <3>1
    <3> QED BY <1>1, <1>4, <3>2
  <2>4. /\ deleg' \in Pick0 /\ misses' \in 0..MaxMisses /\ board' \subseteq Signers /\ slips' \subseteq Slips
        /\ hints' \in Seq(Signers) /\ Len(hints') <= HintCap /\ join' \in Signers \cup {NoRecord}
    BY <1>1 DEF DelInv, DelTyped
  <2> QED BY <1>4, <1>7, <2>1, <2>2, <2>3, <2>4 DEF DelTyped
<1>9. DelSpent'
  <2>1. SUFFICES ASSUME NEW r \in records'
        PROVE  r.id \in unspent' \/ r.id \in leaving' \/ r.id \in left' \/ \E q \in records' : q.from = r.id
    BY DEF DelSpent
  <2>2. CASE r = new  BY <1>1, <1>5, <2>2
  <2>3. CASE r.id = InForce  BY <1>4, <1>5, <2>3
  <2>4. CASE r # new /\ r.id # InForce  BY <1>1, <1>4, <2>1, <2>4 DEF DelInv, DelSpent
  <2> QED BY <2>2, <2>3, <2>4
<1>10. DelAlone'
  <2>1. ASSUME misses' = 0, slips' = {} PROVE unspent \ {InForce} = {} /\ leaving = {}
    BY <1>1, <1>3, <2>1 DEF DelInv, DelAlone
  <2> QED BY <1>1, <1>2, <1>7, <2>1 DEF DelAlone
<1>11. DelJoining'  BY <1>1, <1>2 DEF DelJoining
<1> QED BY <1>4, <1>7, <1>8, <1>9, <1>10, <1>11 DEF DelInv

\* A leave spends the one live record and waits, and the lookup starts anew.
LEMMA DelLeaveStep == ASSUME DelInv, Leave PROVE DelInv'
<1>1. /\ task.op = "leave" /\ Spendable /\ unspent' = unspent \ {InForce} /\ leaving' = leaving \cup {InForce}
      /\ Lookup("load", NoRecord)
      /\ UNCHANGED <<records, left, history, board, hints, deleg, join, slips, misses>>
  BY DEF Leave
<1>2. InForce \in unspent /\ Record(InForce).confirmed /\ join = NoRecord
  BY <1>1, DelInForce DEF Spendable, DelInv, DelJoining
<1>3. task' \in Task /\ DelLooked' /\ task'.op = "load"
  <2>1. history' \subseteq Numbers /\ hints' \in Seq(Signers) /\ board' \subseteq Signers
    BY <1>1 DEF DelInv, DelTyped, Rec
  <2> QED BY <1>1, <2>1, DelFresh DEF DelInv
<1>4. DelTyped'
  <2>1. \A r \in records : r.id \notin unspent' => r.confirmed
    <3>1. SUFFICES ASSUME NEW r \in records, r.id \notin unspent' PROVE r.confirmed  OBVIOUS
    <3>2. Record(r.id) = r  BY DelRecord DEF DelInv
    <3> QED BY <1>1, <1>2, <3>1, <3>2 DEF DelInv, DelTyped
  <2>2. leaving' \cup left' \subseteq {r.id : r \in records} \ unspent'
    BY <1>1, <1>2 DEF DelInv, DelTyped
  <2> QED BY <1>1, <1>3, <2>1, <2>2 DEF DelInv, DelTyped
<1>5. DelNumbered' /\ DelSpent'  BY <1>1 DEF DelInv, DelNumbered, DelSpent
<1>6. DelAlone'
  <2>1. ASSUME misses' = 0, slips' = {} PROVE unspent' = {} /\ leaving = {}
    BY <1>1, <1>2, <2>1 DEF DelInv, DelAlone
  <2> QED BY <1>1, <1>2, <1>3, <2>1 DEF DelAlone
<1>7. DelJoining'  BY <1>1, <1>2 DEF DelJoining
<1> QED BY <1>3, <1>4, <1>5, <1>6, <1>7 DEF DelInv

\* The screen opened again: the lookup starts anew.
LEMMA DelReopenStep == ASSUME DelInv, Reopen PROVE DelInv'
<1>1. /\ deleg' = NoRecord /\ join' = NoRecord /\ Lookup("load", NoRecord)
      /\ UNCHANGED <<records, unspent, leaving, left, history, board, hints, slips, misses>>
  BY DEF Reopen, recordVars
<1>2. task' \in Task /\ DelLooked' /\ task'.op = "load"
  <2>1. history' \subseteq Numbers /\ hints' \in Seq(Signers) /\ board' \subseteq Signers
    BY <1>1 DEF DelInv, DelTyped, Rec
  <2> QED BY <1>1, <2>1, DelFresh DEF DelInv
<1>3. DelTyped'  BY <1>1, <1>2 DEF DelInv, DelTyped, Pick0
<1>4. DelNumbered' /\ DelSpent' /\ DelJoining'  BY <1>1 DEF DelInv, DelNumbered, DelSpent, DelJoining
<1>5. DelAlone'  BY <1>1, <1>2 DEF DelInv, DelAlone
<1> QED BY <1>2, <1>3, <1>4, <1>5 DEF DelInv

\* A block changes no number, no signer and no spend.
LEMMA DelConfirmStep == ASSUME DelInv, NEW r \in records, Confirm(r) PROVE DelInv'
<1> DEFINE q == [r EXCEPT !.confirmed = TRUE]
<1>1. /\ ~r.confirmed /\ records' = (records \ {r}) \cup {q}
      /\ UNCHANGED <<unspent, leaving, left, history, board, hints, deleg, join, task, slips, misses>>
  BY DEF Confirm
<1>2. q \in Rec /\ q.id = r.id /\ q.signer = r.signer /\ q.from = r.from /\ q.confirmed = TRUE
  <2>1. r \in Rec /\ TRUE \in BOOLEAN  BY Zenon DEF DelInv, DelTyped
  <2> QED BY <2>1 DEF Rec
<1> HIDE DEF q
<1>3. q \notin records \ {r}  BY <1>2 DEF DelInv, DelNumbered
<1>4. IsFiniteSet(records') /\ Cardinality(records') = Cardinality(records)
  <2>1. IsFiniteSet(records) /\ Cardinality(records) \in Nat  BY FS_CardinalityType DEF DelInv, DelNumbered
  <2>2. IsFiniteSet(records \ {r}) /\ Cardinality(records \ {r}) = Cardinality(records) - 1
    BY <2>1, FS_RemoveElement
  <2> DEFINE R == records \ {r}
  <2>3. IsFiniteSet(R) /\ q \notin R /\ Cardinality(R) = Cardinality(records) - 1  BY <1>3, <2>2
  <2>4. records' = R \cup {q}  BY <1>1
  <2> HIDE DEF R
  <2>5. IsFiniteSet(R \cup {q}) /\ Cardinality(R \cup {q}) = Cardinality(R) + 1  BY <2>3, FS_AddElement
  <2> QED BY <2>1, <2>3, <2>4, <2>5
<1>5. DelNumbered'
  <2>1. \A x \in records' : x.id <= Cardinality(records)  BY <1>1, <1>2 DEF DelInv, DelNumbered
  <2>2. \A x, y \in records' : x.id = y.id => x = y
    <3>1. SUFFICES ASSUME NEW x \in records', NEW y \in records', x.id = y.id PROVE x = y  OBVIOUS
    <3>2. CASE x = q /\ y = q  BY <3>2
    <3>3. CASE x # q /\ y # q  BY <1>1, <3>1, <3>3 DEF DelInv, DelNumbered
    <3>4. CASE (x = q) # (y = q)
      <4>1. \A z \in records \ {r} : z.id # q.id  BY <1>2 DEF DelInv, DelNumbered
      <4> QED BY <1>1, <3>1, <3>4, <4>1
    <3> QED BY <3>2, <3>3, <3>4
  <2> QED BY <1>4, <2>1, <2>2 DEF DelNumbered
<1>6. {x.id : x \in records'} = {x.id : x \in records}  BY <1>1, <1>2
<1>7. DelTyped'
  <2>1. records' \subseteq Rec /\ \A x \in records' : x.id \notin unspent' => x.confirmed
    BY <1>1, <1>2 DEF DelInv, DelTyped
  <2> QED BY <1>1, <1>6, <2>1 DEF DelInv, DelTyped
<1>8. DelSpent'
  <2>1. SUFFICES ASSUME NEW x \in records'
        PROVE  x.id \in unspent \/ x.id \in leaving \/ x.id \in left \/ \E y \in records' : y.from = x.id
    BY <1>1 DEF DelSpent
  <2>2. PICK z \in records : z.id = x.id  BY <1>6
  <2>3. z.id \in unspent \/ z.id \in leaving \/ z.id \in left \/ \E y \in records : y.from = z.id
    BY DEF DelInv, DelSpent
  <2>4. \A y \in records : \E w \in records' : w.from = y.from  BY <1>1, <1>2
  <2> QED BY <2>2, <2>3, <2>4
<1>9. DelLooked'  BY <1>1, <1>2 DEF DelInv, DelLooked
<1>10. DelAlone' /\ DelJoining'  BY <1>1 DEF DelInv, DelAlone, DelJoining
<1> QED BY <1>5, <1>7, <1>8, <1>9, <1>10 DEF DelInv

\* A leave in its block, a refused spend and a changed board make no record.
LEMMA DelOtherSteps ==
  ASSUME DelInv, SpendRefused \/ (\E s \in Signers : BoardChanges(s)) \/ (\E id \in leaving : ConfirmLeave(id))
  PROVE  DelInv'
<1>1. CASE SpendRefused
  <2>1. task.op \in {"move", "leave"} /\ task' = Idle
        /\ UNCHANGED <<records, unspent, leaving, left, history, board, hints, deleg, join, slips, misses>>
    BY <1>1 DEF SpendRefused, recordVars
  <2>2. DelTyped'  BY <2>1, DelIdle DEF DelInv, DelTyped
  <2> QED BY <2>1, <2>2 DEF DelInv, DelNumbered, DelSpent, DelLooked, DelAlone, DelJoining, Idle
<1>2. CASE \E s \in Signers : BoardChanges(s)
  <2>1. task.op = "none" /\ board' \subseteq Signers
        /\ UNCHANGED <<records, unspent, leaving, left, history, hints, deleg, join, task, slips, misses>>
    BY <1>2 DEF BoardChanges, DelInv, DelTyped, recordVars
  <2> QED BY <2>1 DEF DelInv, DelTyped, DelNumbered, DelSpent, DelLooked, DelAlone, DelJoining
<1>3. ASSUME NEW id \in leaving, ConfirmLeave(id) PROVE DelInv'
  <2>1. /\ leaving' = leaving \ {id} /\ left' = left \cup {id}
        /\ UNCHANGED <<records, unspent, history, board, hints, deleg, join, task, slips, misses>>
    BY <1>3 DEF ConfirmLeave
  <2> QED BY <2>1 DEF DelInv, DelTyped, DelNumbered, DelSpent, DelLooked, DelAlone, DelJoining
<1> QED BY <1>1, <1>2, <1>3

\* The invariant is inductive.
LEMMA DelNextInv == DelInv /\ [DelegNext]_delegVars => DelInv'
<1> SUFFICES ASSUME DelInv, [DelegNext]_delegVars PROVE DelInv'  OBVIOUS
<1>1. CASE UNCHANGED delegVars
  BY <1>1 DEF delegVars, recordVars, DelInv, DelTyped, DelNumbered, DelSpent, DelLooked, DelAlone, DelJoining
<1>2. CASE Load \/ BeginLeave \/ \E s \in Signers : BeginMove(s)  BY <1>2, DelBeginStep
<1>3. ASSUME NEW s \in Signers, Probe(s) \/ ProbeFails(s) PROVE DelInv'  BY <1>3, DelProbeStep
<1>4. CASE JoinFails \/ \E s \in Signers : ChooseJoin(s)  BY <1>4, DelJoinStep
<1>5. CASE SendJoin  BY <1>5, DelSendStep
<1>6. CASE HistoryFails \/ CheckFails  BY <1>6, DelFailStep
<1>7. CASE Show  BY <1>7, DelShowStep
<1>8. CASE Move  BY <1>8, DelMoveStep
<1>9. CASE Leave  BY <1>9, DelLeaveStep
<1>10. CASE Reopen  BY <1>10, DelReopenStep
<1>11. CASE SpendRefused \/ (\E s \in Signers : BoardChanges(s)) \/ (\E id \in leaving : ConfirmLeave(id))
  BY <1>11, DelOtherSteps
<1>12. ASSUME NEW r \in records, Confirm(r) PROVE DelInv'  BY <1>12, DelConfirmStep
<1> QED BY <1>1, <1>2, <1>3, <1>4, <1>5, <1>6, <1>7, <1>8, <1>9, <1>10, <1>11, <1>12 DEF DelegNext

\* The types follow from the invariant, ...
LEMMA DelTypesFollow == DelInv => DelegTypeOK
BY DEF DelInv, DelTyped, DelegTypeOK, Rec

\* ... so does the one live record: two of them would be spent by the same leave, by the same move, or not at
\* all; ...
LEMMA DelOneFollows == DelInv => OneRecord
<1> SUFFICES ASSUME DelInv, misses = 0, slips = {} PROVE Cardinality(LiveRecords) <= 1  BY DEF OneRecord
<1>1. /\ \A a, b \in unspent : a = b
      /\ \A a, b \in leaving : a = b
      /\ leaving # {} => unspent = {}
  BY DEF DelInv, DelAlone
<1>2. ASSUME NEW a \in LiveRecords, a \notin unspent, a \notin leaving
      PROVE  \E q \in records : q.from = a /\ q.id \in unspent /\ ~q.confirmed
  <2>1. PICK r \in records : r.id = a /\ r.confirmed  BY DEF LiveRecords
  <2>2. a \notin left /\ \A q \in records : q.confirmed => q.from # a  BY DEF LiveRecords
  <2>3. PICK q \in records : q.from = a  BY <1>2, <2>1, <2>2 DEF DelInv, DelSpent
  <2> QED BY <2>2, <2>3 DEF DelInv, DelTyped
<1>3. ASSUME NEW a \in LiveRecords, NEW b \in LiveRecords PROVE a = b
  <2>1. CASE a \in unspent /\ b \in unspent  BY <1>1, <2>1
  <2>2. CASE a \in leaving /\ b \in leaving  BY <1>1, <2>2
  <2>3. CASE (a \in unspent /\ b \in leaving) \/ (a \in leaving /\ b \in unspent)  BY <1>1, <2>3
  <2>4. CASE a \notin unspent /\ a \notin leaving /\ b \notin unspent /\ b \notin leaving
    <3>1. PICK q \in records : q.from = a /\ q.id \in unspent  BY <1>2, <2>4
    <3>2. PICK p \in records : p.from = b /\ p.id \in unspent  BY <1>2, <2>4
    <3> QED BY <1>1, <3>1, <3>2 DEF DelInv, DelNumbered
  <2>5. ASSUME NEW x \in LiveRecords, NEW y \in LiveRecords, x \in unspent \/ x \in leaving,
               y \notin unspent, y \notin leaving
        PROVE  FALSE
    <3>1. PICK q \in records : q.from = y /\ q.id \in unspent /\ ~q.confirmed  BY <1>2, <2>5
    <3>2. x = q.id  BY <1>1, <2>5, <3>1
    <3>3. PICK r \in records : r.id = x /\ r.confirmed  BY <2>5 DEF LiveRecords
    <3> QED BY <3>1, <3>2, <3>3 DEF DelInv, DelNumbered
  <2> QED BY <2>1, <2>2, <2>3, <2>4, <2>5
<1>4. CASE LiveRecords = {}  BY <1>4, FS_EmptySet
<1>5. CASE LiveRecords # {}
  <2>1. PICK a \in LiveRecords : TRUE  BY <1>5
  <2>2. LiveRecords = {a}  BY <1>3, <2>1
  <2>3. Cardinality({a}) = 1  BY FS_Singleton
  <2> QED BY <2>2, <2>3
<1> QED BY <1>4, <1>5

\* ... and only Show ends a lookup with its failures unchanged.
LEMMA DelFindsFollows ==
  DelInv /\ [DelegNext]_delegVars
    => [task.op = "load" /\ task'.op = "none" /\ misses' = misses /\ task.sure
        /\ (\E r \in records : r.id \in unspent /\ (r.id \in history \/ r.signer \in task.asked))
        => deleg' \in unspent]_delegVars
<1> SUFFICES ASSUME DelInv, DelegNext, task.op = "load", task'.op = "none", misses' = misses, task.sure,
                    NEW r \in records, r.id \in unspent, r.id \in history \/ r.signer \in task.asked
    PROVE  deleg' \in unspent
  OBVIOUS
<1>1. ~Load /\ ~BeginLeave /\ ~(\E s \in Signers : BeginMove(s))
  BY DEF Load, BeginLeave, BeginMove
<1>2. ~\E s \in Signers : Probe(s) \/ ProbeFails(s)
  <2>1. SUFFICES ASSUME NEW s \in Signers, Probe(s) \/ ProbeFails(s) PROVE FALSE  OBVIOUS
  <2>2. task'.op = task.op  BY <2>1 DEF Probe, ProbeFails, DelInv, DelTyped, Task
  <2> QED BY <2>2
<1>3. ~JoinFails /\ ~(\E s \in Signers : ChooseJoin(s) \/ BoardChanges(s))
  BY DEF JoinFails, ChooseJoin, BoardChanges
<1>4. ~HistoryFails /\ ~CheckFails  BY DEF HistoryFails, CheckFails, DelInv, DelTyped
<1>5. ~SendJoin /\ ~Move /\ ~Leave /\ ~SpendRefused /\ ~Reopen
  BY DEF SendJoin, Move, Leave, SpendRefused, Reopen, Lookup
<1>6. ~(\E x \in records : Confirm(x)) /\ ~(\E id \in leaving : ConfirmLeave(id))
  BY DEF Confirm, ConfirmLeave
<1>7. Show  BY <1>1, <1>2, <1>3, <1>4, <1>5, <1>6 DEF DelegNext
<1>8. Found /\ deleg' = InForce  BY <1>7 DEF Show
<1>9. r.id \in task.found \/ r.signer \in task.asked  BY DEF DelInv, DelLooked
<1> QED BY <1>8, <1>9, DelFinds

\* Types of the delegation.
THEOREM DelegTypeCorrect == DelegSpec => []DelegTypeOK
BY DelInitInv, DelNextInv, DelTypesFollow, PTL DEF DelegSpec

\* While every request is answered, each lookup asks about the record there is, and no pool is joined before
\* the screen has looked or a leave is in its block, the chain never holds two live delegation records of the
\* wallet (build_delegation_spend), whatever it joins, moves and leaves, for any pools and hints.
THEOREM OneRecordAlways == DelegSpec => []OneRecord
BY DelInitInv, DelNextInv, DelOneFollows, PTL DEF DelegSpec

\* A lookup in which no probe failed ends with the live record when the wallet funded it or its signer was
\* among those asked (find_delegation), for any history, board and order, loss and bound of the stored hints.
THEOREM LookupFindsLive == DelegSpec => FindsLive
BY DelInitInv, DelNextInv, DelFindsFollows, PTL DEF DelegSpec, FindsLive

-----------------------------------------------------------------------------
(***************************************************************************)
(* RewardConvert: for any outputs, ledger cap, maturity and executor.      *)
(***************************************************************************)

(* The sum of the outputs' values.                                         *)
\* A batch is worth a number.
LEMMA WorthNat ==
  ASSUME NEW S \in SUBSET Outputs
  PROVE  Worth(S) \in Nat
<1> DEFINE w == [o \in S |-> o.value]
           F(h) == [s \in SUBSET S |-> IF s = {} THEN 0 ELSE (CHOOSE x \in s : TRUE).value + h[s \ {CHOOSE x \in s : TRUE}]]
           G == CHOOSE g : g = F(g)
<1>0. IsFiniteSet(S) /\ \A o \in S : o.value \in Nat  BY RewardConstants, FS_Subset DEF OutputFacts
<1>1. w \in [S -> Nat]  BY <1>0
<1>2. PICK g : FoldOf(g, S, w)  BY <1>0, <1>1, FoldExists
<1>3. ASSUME NEW h PROVE F(h) = [s \in SUBSET S |-> IF s = {} THEN 0 ELSE w[Taken(s)] + h[s \ {Taken(s)}]]
  <2>1. \A s \in SUBSET S : s # {} => Taken(s) \in S  BY TakenIn
  <2>2. \A s \in SUBSET S : s # {} => w[Taken(s)] = (CHOOSE x \in s : TRUE).value  BY <2>1 DEF Taken
  <2> QED BY <2>2 DEF Taken
<1>4. g = F(g)  BY <1>2, <1>3 DEF FoldOf
<1> HIDE DEF F
<1>5. G = F(G)  BY <1>4
<1>6. FoldOf(G, S, w)  BY <1>3, <1>5 DEF FoldOf
<1>7. Worth(S) = G[S]  BY DEF Worth, MapThenSumSet, MapThenFoldSet, F
<1> QED BY <1>0, <1>1, <1>6, <1>7, FoldNat
-----------------------------------------------------------------------------
(* Rewards.                                                                *)
RwTyped ==
  /\ enabled \in BOOLEAN /\ rwTip \in 0..RwMaxTip /\ spentOuts \subseteq Outputs /\ rewards \subseteq Outputs
  /\ ledger \in Seq(Entry) /\ stored \in Seq(Entry)
  /\ written \in BOOLEAN /\ (written \/ stored = <<>>)
  /\ Len(stored) <= LedgerCap
  /\ pass \in [Runners -> Pass]
  /\ loading \in BOOLEAN /\ lapses \subseteq Lapses
  /\ sales \in Seq(SaleOf) /\ passes \in 0..MaxPasses

\* A ledger holds an output, and a sale has sold it.
Held(entries, o) == \E i \in DOMAIN entries : entries[i].state # "failed" /\ o \in entries[i].inputs
Sold(o) == \E k \in DOMAIN sales : o \in sales[k].inputs

\* A reward, and a mature one if the chain's maturity was always asked for.
Due(o) == IsReward(o) /\ ("depth" \notin lapses => Mature(o, Maturity))

\* Nothing has happened that the ledger does not guard against.
Calm == lapses \subseteq {"depth"}

\* A pass that is idle has nothing left, one that waits for a quote nothing in hand, and a dry run never gets
\* further.
RwShape ==
  \A p \in Runners : /\ pass[p].step = "idle" => pass[p].left = {}
                     /\ pass[p].step \in {"idle", "quote"} => pass[p].inputs = {}
                     /\ pass[p].dry => pass[p].step \in {"idle", "quote"}

\* What a caller holds and what a pass still works on are rewards, each in one batch, ...
RwBatches ==
  /\ \A o \in rewards : Due(o)
  /\ \A p \in Runners :
       /\ \A b \in pass[p].left : (\A o \in b : Due(o)) /\ b \cap pass[p].inputs = {}
       /\ \A b, c \in pass[p].left : b # c => b \cap c = {}
       /\ \A o \in pass[p].inputs : Due(o)

\* a sale is for as much as its batch is worth at most, and of rewards, ...
RwSales ==
  \A k \in DOMAIN sales : sales[k].atoms \in 1..Worth(sales[k].inputs) /\ \A o \in sales[k].inputs : Due(o)

\* and as long as all is calm: one real pass runs at a time, ...
RwAlone == Calm => \A p, q \in Runners : Real(p) /\ Real(q) => p = q

\* a batch is in the ledger once it is taken in hand and in the stored one when it is sold, ...
RwHand ==
  Calm => \A p \in Runners : \A o \in pass[p].inputs :
            /\ pass[p].step \in {"commit", "execute"} => Held(ledger, o) /\ ~Sold(o)
            /\ pass[p].step = "execute" => Held(stored, o)

\* what was sold is held by both and in no batch that is left to a real pass, ...
RwHeld ==
  Calm => \A o : Sold(o) => /\ Held(ledger, o) /\ Held(stored, o)
                            /\ \A p \in Runners : Real(p) => \A b \in pass[p].left : o \notin b

\* and no two sales share an output.
RwOnce == Calm => \A i, j \in DOMAIN sales : i # j => sales[i].inputs \cap sales[j].inputs = {}

RwInv == RwTyped /\ RwShape /\ RwBatches /\ RwSales /\ RwAlone /\ RwHand /\ RwHeld /\ RwOnce

\* A lapse that may have happened.
LEMMA RwLapse ==
  ASSUME NEW c, NEW l \in Lapses \ {"depth"}, RwTyped, lapses' = lapses \cup If(c, l)
  PROVE  /\ lapses' \subseteq Lapses /\ (Calm' => Calm /\ ~c)
         /\ ("depth" \notin lapses' <=> "depth" \notin lapses)
BY DEF RwTyped, If, Calm, Lapses

\* At first nothing is planned, sold or stored.
LEMMA RwInitInv == RewardInit => RwInv
<1> SUFFICES ASSUME RewardInit PROVE RwInv  OBVIOUS
<1>1. FALSE \in BOOLEAN  BY Zenon
<1>2. <<>> \in Seq(Entry) /\ <<>> \in Seq(SaleOf) /\ Len(<<>>) = 0 /\ DOMAIN <<>> = {}  BY EmptySeq
<1>3. NoPass \in Pass /\ NoPass.left = {} /\ NoPass.inputs = {} /\ NoPass.step = "idle"
      /\ NoPass.dry = FALSE
  BY <1>1 DEF NoPass, PassSteps, Pass
<1>4. 0 \in 0..RwMaxTip /\ 0 \in 0..MaxPasses /\ 0 <= LedgerCap  BY RewardConstants
<1>5. pass \in [Runners -> Pass] /\ \A p \in Runners : pass[p] = NoPass  BY <1>3 DEF RewardInit
<1>6. RwTyped  BY <1>1, <1>2, <1>4, <1>5 DEF RewardInit, RwTyped
<1>7. \A o : ~Sold(o)  BY <1>2 DEF RewardInit, Sold
<1>8. RwShape /\ RwBatches /\ RwAlone /\ RwHand
  BY <1>3, <1>5 DEF RewardInit, RwShape, RwBatches, RwAlone, RwHand, Real
<1>9. RwSales /\ RwOnce  BY <1>2 DEF RewardInit, RwSales, RwOnce
<1>10. RwHeld  BY <1>7 DEF RwHeld
<1> QED BY <1>6, <1>8, <1>9, <1>10 DEF RwInv

\* The batches planned: rewards the ledger does not hold, one batch for each asset.
LEMMA RwPlan ==
  ASSUME RwTyped, RwBatches
  PROVE  /\ PlanBatches \in SUBSET SUBSET Outputs
         /\ \A b \in PlanBatches : \A o \in b : Due(o) /\ ~Held(ledger, o)
         /\ \A b, c \in PlanBatches : b # c => b \cap c = {}
<1> DEFINE free == rewards \ Converted
           assets == {o.asset : o \in free} \ Kept
           batch(a) == {o \in free : o.asset = a}
<1>1. PlanBatches = {batch(a) : a \in assets}  BY DEF PlanBatches
<1>2. \A o \in free : Due(o) /\ o \in Outputs  BY DEF RwTyped, RwBatches
<1>3. \A o \in free : ~Held(ledger, o)
  <2>1. SUFFICES ASSUME NEW o \in free, NEW i \in DOMAIN ledger, ledger[i].state # "failed", o \in ledger[i].inputs
        PROVE  FALSE
    BY DEF Held
  <2>2. o \in Converted  BY <2>1 DEF Converted
  <2> QED BY <2>2
<1> HIDE DEF free, assets
<1>4. \A a, c \in assets : batch(a) # batch(c) => batch(a) \cap batch(c) = {}  OBVIOUS
<1>5. \A a \in assets : batch(a) \subseteq free  OBVIOUS
<1> HIDE DEF batch
<1> QED BY <1>1, <1>2, <1>3, <1>4, <1>5

\* What one runner's step leaves of the shape, and of the passes of the others.
LEMMA RwOthers ==
  ASSUME RwTyped, NEW p \in Runners, NEW t \in Pass, pass' = [pass EXCEPT ![p] = t]
  PROVE  /\ pass' \in [Runners -> Pass] /\ pass'[p] = t
         /\ \A q \in Runners : q # p => pass'[q] = pass[q]
BY DEF RwTyped

\* A pass begins, with rewards the ledger does not hold.
LEMMA RwPassStep ==
  ASSUME RwInv, NEW p \in Runners, NEW dry \in BOOLEAN, RunPass(p, dry)
  PROVE  RwInv'
<1> DEFINE t == [step |-> "quote", dry |-> dry, left |-> PlanBatches, inputs |-> {}]
           busy == ~dry /\ \E q \in Runners : Real(q)
<1>1. /\ pass' = [pass EXCEPT ![p] = t] /\ passes < MaxPasses /\ passes' = passes + 1 /\ pass[p].step = "idle"
      /\ lapses' = lapses \cup If(busy, "passes")
      /\ UNCHANGED <<enabled, rwTip, spentOuts, rewards, ledger, stored, written, loading, sales>>
  BY DEF RunPass
<1>2. PlanBatches \in SUBSET SUBSET Outputs /\ (\A b \in PlanBatches : \A o \in b : Due(o) /\ ~Held(ledger, o))
      /\ \A b, c \in PlanBatches : b # c => b \cap c = {}
  BY RwPlan DEF RwInv
<1>3. t.step = "quote" /\ t.left = PlanBatches /\ t.inputs = {} /\ t.dry = dry  OBVIOUS
<1>4. t \in Pass  BY <1>2 DEF PassSteps, Pass
<1> HIDE DEF t
<1>5. pass' \in [Runners -> Pass] /\ pass'[p] = t /\ \A q \in Runners : q # p => pass'[q] = pass[q]
  BY <1>1, <1>4, RwOthers DEF RwInv
<1>6. passes' \in 0..MaxPasses  BY <1>1, RewardConstants DEF RwInv, RwTyped
<1>7. lapses' \subseteq Lapses /\ (Calm' => Calm /\ ~busy) /\ ("depth" \notin lapses' <=> "depth" \notin lapses)
  <2>1. "passes" \in Lapses \ {"depth"}  BY DEF Lapses
  <2> HIDE DEF busy
  <2> QED BY <1>1, <2>1, RwLapse DEF RwInv
<1>8. RwTyped'  BY <1>1, <1>5, <1>6, <1>7 DEF RwInv, RwTyped
<1>9. \A o : Due(o)' <=> Due(o)  BY <1>1, <1>7 DEF Due, Mature
<1>10. RwShape'  BY <1>3, <1>5 DEF RwInv, RwShape
<1>11. RwBatches'
  <2>1. \A o \in rewards' : Due(o)'  BY <1>1, <1>9 DEF RwInv, RwBatches
  <2>2. ASSUME NEW q \in Runners
        PROVE  /\ \A b \in pass'[q].left : (\A o \in b : Due(o)) /\ b \cap pass'[q].inputs = {}
               /\ \A b, c \in pass'[q].left : b # c => b \cap c = {}
               /\ \A o \in pass'[q].inputs : Due(o)
    BY <1>2, <1>3, <1>5 DEF RwInv, RwBatches
  <2> QED BY <1>9, <2>1, <2>2 DEF RwBatches
<1>12. RwSales' /\ RwOnce'  BY <1>1, <1>7, <1>9 DEF RwInv, RwSales, RwOnce
<1>13. RwAlone'
  <2>1. \A q \in Runners : q # p => (Real(q)' <=> Real(q))  BY <1>5 DEF Real
  <2>2. Real(p)' => ~dry  BY <1>3, <1>5 DEF Real
  <2> QED BY <1>7, <2>1, <2>2 DEF RwInv, RwAlone
<1>14. RwHand'
  <2>1. \A q \in Runners : pass'[q].inputs = {} \/ pass'[q] = pass[q]  BY <1>3, <1>5
  <2> QED BY <1>1, <1>7, <2>1 DEF RwInv, RwHand, Held, Sold
<1>15. RwHeld'
  <2>1. SUFFICES ASSUME Calm', NEW o, Sold(o)'
        PROVE  /\ Held(ledger', o) /\ Held(stored', o)
               /\ \A q \in Runners : Real(q)' => \A b \in pass'[q].left : o \notin b
    BY DEF RwHeld
  <2>2. Sold(o)  BY <1>1, <2>1 DEF Sold
  <2>3. Held(ledger, o) /\ Held(stored, o) /\ \A q \in Runners : Real(q) => \A b \in pass[q].left : o \notin b
    BY <1>7, <2>1, <2>2 DEF RwInv, RwHeld
  <2>4. \A b \in PlanBatches : o \notin b  BY <1>2, <2>3
  <2> QED BY <1>1, <1>3, <1>5, <2>3, <2>4 DEF Real
<1> QED BY <1>8, <1>10, <1>11, <1>12, <1>13, <1>14, <1>15 DEF RwInv

\* The next batch, or the end of the pass.
LEMMA RwNextBatch ==
  ASSUME NEW dry \in BOOLEAN, NEW todo \in SUBSET SUBSET Outputs
  PROVE  /\ NextBatch(dry, todo) \in Pass
         /\ NextBatch(dry, todo).left = todo /\ NextBatch(dry, todo).inputs = {}
         /\ NextBatch(dry, todo).step \in {"idle", "quote"}
         /\ NextBatch(dry, todo).step = "idle" => NextBatch(dry, todo).left = {}
         /\ NextBatch(dry, todo).step # "idle" => NextBatch(dry, todo).dry = dry
<1>1. CASE todo = {}
  <2>1. NextBatch(dry, todo) = NoPass  BY <1>1 DEF NextBatch
  <2>2. FALSE \in BOOLEAN  BY Zenon
  <2>3. NoPass \in Pass /\ NoPass.left = {} /\ NoPass.inputs = {} /\ NoPass.step = "idle"
    BY <2>2 DEF NoPass, PassSteps, Pass
  <2> QED BY <1>1, <2>1, <2>3
<1>2. CASE todo # {}
  <2>1. NextBatch(dry, todo) = [step |-> "quote", dry |-> dry, left |-> todo, inputs |-> {}]  BY <1>2 DEF NextBatch
  <2> QED BY <2>1 DEF PassSteps, Pass
<1> QED BY <1>1, <1>2

\* A new entry in front keeps what the ledger held.
LEMMA RwPrepend ==
  ASSUME NEW e \in Entry, NEW L \in Seq(Entry), e.state # "failed"
  PROVE  /\ <<e>> \o L \in Seq(Entry)
         /\ \A o : Held(L, o) \/ o \in e.inputs => Held(<<e>> \o L, o)
<1> DEFINE M == <<e>> \o L
<1>1. <<e>> \in Seq(Entry) /\ Len(<<e>>) = 1 /\ <<e>>[1] = e  OBVIOUS
<1>2. M \in Seq(Entry) /\ Len(M) = 1 + Len(L) /\ Len(L) \in Nat
      /\ \A i \in 1..1 + Len(L) : M[i] = IF i <= 1 THEN <<e>>[i] ELSE L[i - 1]
  BY <1>1, ConcatProperties, LenProperties
<1>3. DOMAIN M = 1..1 + Len(L) /\ DOMAIN L = 1..Len(L)  BY <1>2, LenProperties
<1> HIDE DEF M
<1>4. M[1] = e /\ 1 \in DOMAIN M  BY <1>1, <1>2, <1>3
<1>5. \A i \in DOMAIN L : i + 1 \in DOMAIN M /\ M[i + 1] = L[i]  BY <1>2, <1>3
<1>6. \A o : Held(L, o) \/ o \in e.inputs => Held(M, o)  BY <1>4, <1>5 DEF Held
<1> QED BY <1>2, <1>6 DEF M

\* Of a runner's pass, what a step must keep when the chain, the rewards, the sales and the lapses stay: a
\* smaller set of batches, and the batch in hand one of those there were.
LEMMA RwKept ==
  ASSUME RwInv, NEW p \in Runners, NEW t \in Pass, pass' = [pass EXCEPT ![p] = t],
         UNCHANGED <<rwTip, rewards, sales>>, Calm' => Calm, "depth" \notin lapses' => "depth" \notin lapses,
         pass[p].step # "idle", t.step # "idle" => t.dry = pass[p].dry,
         t.left \subseteq pass[p].left,
         t.inputs = {} \/ t.inputs = pass[p].inputs \/ (t.inputs \in pass[p].left /\ t.inputs \notin t.left)
  PROVE  RwBatches' /\ RwSales' /\ RwAlone' /\ RwOnce'
<1>1. pass'[p] = t /\ \A q \in Runners : q # p => pass'[q] = pass[q]  BY RwOthers DEF RwInv
<1>2. \A o : Due(o) => Due(o)'  BY DEF Due, Mature
<1>3. RwBatches'
  <2>1. \A o \in rewards' : Due(o)'  BY <1>2 DEF RwInv, RwBatches
  <2>2. ASSUME NEW q \in Runners
        PROVE  /\ \A b \in pass'[q].left : (\A o \in b : Due(o)) /\ b \cap pass'[q].inputs = {}
               /\ \A b, c \in pass'[q].left : b # c => b \cap c = {}
               /\ \A o \in pass'[q].inputs : Due(o)
    <3>1. CASE q # p  BY <1>1, <3>1 DEF RwInv, RwBatches
    <3>2. CASE q = p
      <4>1. /\ \A b \in pass[p].left : (\A o \in b : Due(o)) /\ b \cap pass[p].inputs = {}
            /\ \A b, c \in pass[p].left : b # c => b \cap c = {}
            /\ \A o \in pass[p].inputs : Due(o)
        BY DEF RwInv, RwBatches
      <4> QED BY <1>1, <3>2, <4>1
    <3> QED BY <3>1, <3>2
  <2> QED BY <1>2, <2>1, <2>2 DEF RwBatches
<1>4. RwSales' /\ RwOnce'  BY <1>2 DEF RwInv, RwSales, RwOnce
<1>5. RwAlone'  BY <1>1 DEF RwInv, RwAlone, Real
<1> QED BY <1>3, <1>4, <1>5

\* A batch that converts enters the ledger; one that does not is left.
LEMMA RwQuotedStep ==
  ASSUME RwInv, NEW p \in Runners, NEW batch \in pass[p].left, NEW quote \in Quotes, Quoted(p, batch, quote)
  PROVE  RwInv'
<1> DEFINE later == pass[p].left \ {batch}
           e == [inputs |-> batch, state |-> "pending"]
<1>1. pass[p].step = "quote"
      /\ UNCHANGED <<enabled, rwTip, spentOuts, rewards, stored, written, loading, sales, passes, lapses>>
  BY DEF Quoted
<1>2. /\ later \in SUBSET SUBSET Outputs /\ batch \in SUBSET Outputs /\ later \subseteq pass[p].left
      /\ (\A b \in later : b # batch) /\ pass[p].dry \in BOOLEAN /\ pass[p] \in Pass
  BY DEF RwInv, RwTyped, Pass
<1>3. CASE Decide(quote) = "convert" /\ ~pass[p].dry
  <2> DEFINE t == [step |-> "commit", dry |-> FALSE, left |-> later, inputs |-> batch]
  <2>1. pass' = [pass EXCEPT ![p] = t] /\ ledger' = <<e>> \o ledger  BY <1>3 DEF Quoted
  <2>2. t.step = "commit" /\ t.left = later /\ t.inputs = batch /\ t.dry = FALSE  OBVIOUS
  <2>3. t \in Pass
    <3>1. FALSE \in BOOLEAN  BY Zenon
    <3> QED BY <1>2, <3>1 DEF PassSteps, Pass
  <2>4. e \in Entry /\ e.inputs = batch /\ e.state # "failed"  BY <1>2 DEF Entry
  <2> HIDE DEF t, e, later
  <2>5. pass' \in [Runners -> Pass] /\ pass'[p] = t /\ \A q \in Runners : q # p => pass'[q] = pass[q]
    BY <2>1, <2>3, RwOthers DEF RwInv
  <2>6. ledger' \in Seq(Entry) /\ \A o : Held(ledger, o) \/ o \in batch => Held(ledger', o)
    <3>1. ledger \in Seq(Entry)  BY DEF RwInv, RwTyped
    <3> QED BY <2>1, <2>4, <3>1, RwPrepend
  <2>7. RwTyped'  BY <1>1, <2>5, <2>6 DEF RwInv, RwTyped
  <2>8. RwShape'  BY <2>2, <2>5 DEF RwInv, RwShape
  <2>9. Calm' <=> Calm  BY <1>1 DEF Calm
  <2>10. RwBatches' /\ RwSales' /\ RwAlone' /\ RwOnce'
    <3>1. t.inputs \in pass[p].left /\ t.inputs \notin t.left  BY <1>2, <2>2
    <3>2. t.left \subseteq pass[p].left /\ t.dry = pass[p].dry  BY <1>2, <1>3, <2>2
    <3> QED BY <1>1, <2>1, <2>3, <2>9, <3>1, <3>2, RwKept
  <2>11. Real(p) /\ Real(p)'  BY <1>1, <1>3, <2>2, <2>5 DEF Real
  <2>12. ASSUME Calm, NEW o \in batch PROVE ~Sold(o)  BY <2>11, <2>12 DEF RwInv, RwHeld
  <2>13. RwHand'
    <3>1. SUFFICES ASSUME Calm, NEW q \in Runners, NEW o \in pass'[q].inputs
          PROVE  /\ pass'[q].step \in {"commit", "execute"} => Held(ledger', o) /\ ~Sold(o)
                 /\ pass'[q].step = "execute" => Held(stored, o)
      BY <1>1, <2>9 DEF RwHand, Sold
    <3>2. CASE q = p  BY <2>2, <2>5, <2>6, <2>12, <3>1, <3>2
    <3>3. CASE q # p  BY <2>5, <2>6, <3>1, <3>3 DEF RwInv, RwHand
    <3> QED BY <3>2, <3>3
  <2>14. RwHeld'
    <3>1. SUFFICES ASSUME Calm, NEW o, Sold(o)
          PROVE  /\ Held(ledger', o) /\ Held(stored, o)
                 /\ \A q \in Runners : Real(q)' => \A b \in pass'[q].left : o \notin b
      BY <1>1, <2>9 DEF RwHeld, Sold
    <3>2. Held(ledger, o) /\ Held(stored, o) /\ \A q \in Runners : Real(q) => \A b \in pass[q].left : o \notin b
      BY <3>1 DEF RwInv, RwHeld
    <3> QED BY <1>2, <2>2, <2>5, <2>6, <2>11, <3>2 DEF Real
  <2> QED BY <2>7, <2>8, <2>10, <2>13, <2>14 DEF RwInv
<1>4. CASE ~(Decide(quote) = "convert" /\ ~pass[p].dry)
  <2> DEFINE t == NextBatch(pass[p].dry, later)
  <2>1. pass' = [pass EXCEPT ![p] = t] /\ ledger' = ledger  BY <1>4 DEF Quoted
  <2>2. /\ t \in Pass /\ t.left = later /\ t.inputs = {} /\ t.step \in {"idle", "quote"}
        /\ (t.step = "idle" => t.left = {}) /\ (t.step # "idle" => t.dry = pass[p].dry)
    BY <1>2, RwNextBatch
  <2> HIDE DEF t, later
  <2>3. pass' \in [Runners -> Pass] /\ pass'[p] = t /\ \A q \in Runners : q # p => pass'[q] = pass[q]
    BY <2>1, <2>2, RwOthers DEF RwInv
  <2>4. RwTyped'  BY <1>1, <2>1, <2>3 DEF RwInv, RwTyped
  <2>5. RwShape'  BY <2>2, <2>3 DEF RwInv, RwShape
  <2>6. Calm' <=> Calm  BY <1>1 DEF Calm
  <2>7. RwBatches' /\ RwSales' /\ RwAlone' /\ RwOnce'
    <3>1. t.left \subseteq pass[p].left  BY <1>2, <2>2
    <3> QED BY <1>1, <2>1, <2>2, <2>6, <3>1, RwKept
  <2>8. RwHand'
    <3>1. \A q \in Runners : pass'[q].inputs = {} \/ pass'[q] = pass[q]  BY <2>2, <2>3
    <3> QED BY <1>1, <2>1, <2>6, <3>1 DEF RwInv, RwHand, Held, Sold
  <2>9. RwHeld'
    <3>1. \A q \in Runners : pass'[q].left \subseteq pass[q].left /\ (Real(q)' => Real(q))
      BY <1>1, <1>2, <2>2, <2>3 DEF Real
    <3> QED BY <1>1, <2>1, <2>6, <3>1 DEF RwInv, RwHeld, Held, Sold
  <2> QED BY <2>4, <2>5, <2>7, <2>8, <2>9 DEF RwInv
<1> QED BY <1>3, <1>4

\* The ledger as it is written.
LEMMA RwWritten ==
  ASSUME RwTyped, WriteLedger
  PROVE  /\ ledger' = Capped /\ stored' = Capped /\ written' = TRUE /\ TRUE \in BOOLEAN
         /\ Capped \in Seq(Entry) /\ Len(Capped) <= LedgerCap /\ lapses' \subseteq Lapses
         /\ Calm' => Calm /\ Capped = ledger
         /\ ("depth" \notin lapses' <=> "depth" \notin lapses)
<1> DEFINE c == Len(ledger) > LedgerCap
<1>1. ledger \in Seq(Entry) /\ Len(ledger) \in Nat /\ LedgerCap \in Nat
  BY LenProperties, RewardConstants DEF RwTyped
<1>2. ledger' = Capped /\ stored' = Capped /\ written' = TRUE /\ TRUE \in BOOLEAN /\ lapses' = lapses \cup If(c, "cap")
  <2>1. TRUE \in BOOLEAN  BY Zenon
  <2> QED BY <2>1 DEF WriteLedger
<1>3. lapses' \subseteq Lapses /\ (Calm' => Calm /\ ~c) /\ ("depth" \notin lapses' <=> "depth" \notin lapses)
  <2>1. "cap" \in Lapses \ {"depth"}  BY DEF Lapses
  <2> HIDE DEF c
  <2> QED BY <1>2, <2>1, RwLapse
<1>4. CASE c
  <2>1. \A i \in 1..LedgerCap : ledger[i] \in Entry  BY <1>1, <1>4, ElementOfSeq
  <2>2. Capped = SubSeq(ledger, 1, LedgerCap)  BY <1>4 DEF Capped
  <2>3. SubSeq(ledger, 1, LedgerCap) \in Seq(Entry)
        /\ Len(SubSeq(ledger, 1, LedgerCap)) = IF 1 <= LedgerCap THEN LedgerCap - 1 + 1 ELSE 0
    BY <1>1, <2>1, SubSeqProperties
  <2>4. Capped \in Seq(Entry) /\ Len(Capped) <= LedgerCap  BY <1>1, <2>2, <2>3
  <2> QED BY <1>2, <1>3, <1>4, <2>4
<1>5. CASE ~c
  <2>1. Capped = ledger  BY <1>5 DEF Capped
  <2>2. Len(ledger) <= LedgerCap  BY <1>1, <1>5
  <2> QED BY <1>1, <1>2, <1>3, <2>1, <2>2
<1> QED BY <1>4, <1>5

\* What was in the ledger is stored before anything is sold.
LEMMA RwCommitStep == ASSUME RwInv, NEW p \in Runners, Commit(p) PROVE RwInv'
<1> DEFINE t == [pass[p] EXCEPT !.step = "execute"]
<1>1. pass[p].step = "commit" /\ WriteLedger /\ pass' = [pass EXCEPT ![p] = t]
      /\ UNCHANGED <<enabled, rwTip, spentOuts, rewards, loading, sales, passes>>
  BY DEF Commit, RwInv, RwTyped
<1>2. /\ t.step = "execute" /\ t.left = pass[p].left /\ t.inputs = pass[p].inputs /\ t.dry = pass[p].dry
      /\ t \in Pass
  BY DEF RwInv, RwTyped, PassSteps, Pass
<1> HIDE DEF t
<1>3. pass' \in [Runners -> Pass] /\ pass'[p] = t /\ \A q \in Runners : q # p => pass'[q] = pass[q]
  BY <1>1, <1>2, RwOthers DEF RwInv
<1>4. /\ ledger' = Capped /\ stored' = Capped /\ written' = TRUE /\ TRUE \in BOOLEAN
      /\ Capped \in Seq(Entry) /\ Len(Capped) <= LedgerCap /\ lapses' \subseteq Lapses
      /\ Calm' => Calm /\ Capped = ledger
      /\ ("depth" \notin lapses' <=> "depth" \notin lapses)
  BY <1>1, RwWritten DEF RwInv
<1>5. RwTyped'  BY <1>1, <1>3, <1>4 DEF RwInv, RwTyped
<1>6. RwShape'  BY <1>1, <1>2, <1>3 DEF RwInv, RwShape
<1>7. RwBatches' /\ RwSales' /\ RwAlone' /\ RwOnce'  BY <1>1, <1>2, <1>4, RwKept
<1>8. RwHand'
  <2>1. SUFFICES ASSUME Calm', NEW q \in Runners, NEW o \in pass'[q].inputs
        PROVE  /\ pass'[q].step \in {"commit", "execute"} => Held(ledger', o) /\ ~Sold(o)'
               /\ pass'[q].step = "execute" => Held(stored', o)
    BY DEF RwHand
  <2>2. Calm /\ ledger' = ledger /\ stored' = ledger /\ (Sold(o)' <=> Sold(o))  BY <1>1, <1>4, <2>1 DEF Sold
  <2>3. pass'[q].inputs = pass[q].inputs /\ (pass'[q].step = "execute" => pass[q].step \in {"commit", "execute"})
        /\ (pass'[q].step = "commit" => pass[q].step = "commit")
    BY <1>1, <1>2, <1>3
  <2> QED BY <2>1, <2>2, <2>3 DEF RwInv, RwHand
<1>9. RwHeld'
  <2>1. \A q \in Runners : pass'[q].left = pass[q].left /\ (Real(q)' => Real(q))  BY <1>1, <1>2, <1>3 DEF Real
  <2>2. SUFFICES ASSUME Calm', NEW o, Sold(o)
        PROVE  /\ Held(ledger', o) /\ Held(stored', o)
               /\ \A q \in Runners : Real(q)' => \A b \in pass'[q].left : o \notin b
    BY <1>1 DEF RwHeld, Sold
  <2>3. Calm /\ ledger' = ledger /\ stored' = ledger  BY <1>4, <2>2
  <2>4. Held(ledger, o) /\ \A q \in Runners : Real(q) => \A b \in pass[q].left : o \notin b
    BY <2>2, <2>3 DEF RwInv, RwHeld
  <2> QED BY <2>1, <2>3, <2>4
<1> QED BY <1>5, <1>6, <1>7, <1>8, <1>9 DEF RwInv

\* The outcome is stored.
LEMMA RwSettleStep == ASSUME RwInv, NEW p \in Runners, Settle(p) PROVE RwInv'
<1> DEFINE t == NextBatch(FALSE, pass[p].left)
<1>1. pass[p].step = "settle" /\ WriteLedger /\ pass' = [pass EXCEPT ![p] = t]
      /\ UNCHANGED <<enabled, rwTip, spentOuts, rewards, loading, sales, passes>>
  BY DEF Settle
<1>2. /\ t \in Pass /\ t.left = pass[p].left /\ t.inputs = {} /\ t.step \in {"idle", "quote"}
      /\ (t.step = "idle" => t.left = {}) /\ (t.step # "idle" => t.dry = FALSE)
  <2>1. pass[p].left \in SUBSET SUBSET Outputs  BY DEF RwInv, RwTyped, Pass
  <2>2. FALSE \in BOOLEAN  BY Zenon
  <2> QED BY <2>1, <2>2, RwNextBatch
<1> HIDE DEF t
<1>3. pass' \in [Runners -> Pass] /\ pass'[p] = t /\ \A q \in Runners : q # p => pass'[q] = pass[q]
  BY <1>1, <1>2, RwOthers DEF RwInv
<1>4. /\ ledger' = Capped /\ stored' = Capped /\ written' = TRUE /\ TRUE \in BOOLEAN
      /\ Capped \in Seq(Entry) /\ Len(Capped) <= LedgerCap /\ lapses' \subseteq Lapses
      /\ Calm' => Calm /\ Capped = ledger
      /\ ("depth" \notin lapses' <=> "depth" \notin lapses)
  BY <1>1, RwWritten DEF RwInv
<1>5. pass[p].dry = FALSE
  <2>1. pass[p].dry \in BOOLEAN  BY DEF RwInv, RwTyped, Pass
  <2> QED BY <1>1, <2>1 DEF RwInv, RwShape
<1>6. RwTyped'  BY <1>1, <1>3, <1>4 DEF RwInv, RwTyped
<1>7. RwShape'  BY <1>2, <1>3 DEF RwInv, RwShape
<1>8. RwBatches' /\ RwSales' /\ RwAlone' /\ RwOnce'  BY <1>1, <1>2, <1>4, <1>5, RwKept
<1>9. RwHand'
  <2>1. SUFFICES ASSUME Calm', NEW q \in Runners, NEW o \in pass'[q].inputs
        PROVE  /\ pass'[q].step \in {"commit", "execute"} => Held(ledger', o) /\ ~Sold(o)'
               /\ pass'[q].step = "execute" => Held(stored', o)
    BY DEF RwHand
  <2>2. Calm /\ ledger' = ledger /\ stored' = ledger /\ (Sold(o)' <=> Sold(o))  BY <1>1, <1>4, <2>1 DEF Sold
  <2>3. pass'[q] = pass[q]  BY <1>2, <1>3, <2>1
  <2> QED BY <2>1, <2>2, <2>3 DEF RwInv, RwHand
<1>10. RwHeld'
  <2>1. \A q \in Runners : pass'[q].left = pass[q].left /\ (Real(q)' => Real(q))
    BY <1>1, <1>2, <1>3, <1>5 DEF Real
  <2>2. SUFFICES ASSUME Calm', NEW o, Sold(o)
        PROVE  /\ Held(ledger', o) /\ Held(stored', o)
               /\ \A q \in Runners : Real(q)' => \A b \in pass'[q].left : o \notin b
    BY <1>1 DEF RwHeld, Sold
  <2>3. Calm /\ ledger' = ledger /\ stored' = ledger  BY <1>4, <2>2
  <2>4. Held(ledger, o) /\ \A q \in Runners : Real(q) => \A b \in pass[q].left : o \notin b
    BY <2>2, <2>3 DEF RwInv, RwHeld
  <2> QED BY <2>1, <2>3, <2>4
<1> QED BY <1>6, <1>7, <1>8, <1>9, <1>10 DEF RwInv

\* What a sale leaves: one more, of the batch in hand and of no more than it is worth.
LEMMA RwSell ==
  ASSUME RwTyped, RwSales, RwBatches, NEW p \in Runners, NEW bid \in 0..MaxOffer, NEW coins \in SaleCoins(p),
         Sell(p, bid, coins), UNCHANGED <<rwTip, lapses>>
  PROVE  /\ sales' \in Seq(SaleOf) /\ spentOuts' \subseteq Outputs /\ RwSales'
         /\ \A o : Sold(o)' => Sold(o) \/ o \in pass[p].inputs
         /\ (\A o \in pass[p].inputs : ~Sold(o)) /\ (\A i, j \in DOMAIN sales : i # j => sales[i].inputs \cap sales[j].inputs = {})
              => \A i, j \in DOMAIN sales' : i # j => sales'[i].inputs \cap sales'[j].inputs = {}
<1> DEFINE hand == pass[p].inputs
           n == Worth(hand)
           atoms == Slice(bid, n)
           s == [inputs |-> hand, atoms |-> atoms]
<1>1. hand \in SUBSET Outputs /\ n \in Nat /\ bid \in Nat
  <2>1. hand \in SUBSET Outputs  BY DEF RwTyped, Pass
  <2> QED BY <2>1, WorthNat, RewardConstants
<1>2. atoms > 0 /\ sales' = Append(sales, s) /\ spentOuts' = spentOuts \cup coins /\ coins \in {hand, {}}
  BY DEF Sell, SaleCoins
<1>3. \A o \in hand : Due(o)  BY DEF RwBatches
<1> HIDE DEF n, hand
<1>4. atoms \in 1..n /\ atoms \in Nat  BY <1>1, <1>2 DEF Slice
<1>5. s \in SaleOf /\ s.inputs = hand /\ s.atoms = atoms  BY <1>1, <1>4 DEF SaleOf
<1>6. sales \in Seq(SaleOf) /\ Len(sales) \in Nat /\ DOMAIN sales = 1..Len(sales)  BY LenProperties
  DEF RwTyped
<1> HIDE DEF s, atoms
<1>7. /\ sales' \in Seq(SaleOf) /\ DOMAIN sales' = 1..Len(sales) + 1
      /\ \A i \in DOMAIN sales : i \in DOMAIN sales' /\ sales'[i] = sales[i] /\ i # Len(sales) + 1
      /\ sales'[Len(sales) + 1] = s
      /\ \A i \in DOMAIN sales' : i = Len(sales) + 1 \/ i \in DOMAIN sales
  BY <1>2, <1>5, <1>6
<1>8. spentOuts' \subseteq Outputs  BY <1>1, <1>2 DEF RwTyped
<1>9. \A o : Due(o)' <=> Due(o)  BY DEF Due, Mature
<1>10. RwSales'
  <2>1. SUFFICES ASSUME NEW k \in DOMAIN sales'
        PROVE  sales'[k].atoms \in 1..Worth(sales'[k].inputs) /\ \A o \in sales'[k].inputs : Due(o)
    BY <1>9 DEF RwSales
  <2>2. CASE k \in DOMAIN sales  BY <1>7, <2>2 DEF RwSales
  <2>3. CASE k = Len(sales) + 1  BY <1>3, <1>4, <1>5, <1>7, <2>3 DEF n
  <2> QED BY <1>7, <2>2, <2>3
<1>11. \A o : Sold(o)' => Sold(o) \/ o \in hand
  <2>1. SUFFICES ASSUME NEW o, NEW k \in DOMAIN sales', o \in sales'[k].inputs
        PROVE  Sold(o) \/ o \in hand
    BY DEF Sold
  <2> QED BY <1>5, <1>7, <2>1 DEF Sold
<1>12. ASSUME \A o \in hand : ~Sold(o), \A i, j \in DOMAIN sales : i # j => sales[i].inputs \cap sales[j].inputs = {},
              NEW i \in DOMAIN sales', NEW j \in DOMAIN sales', i # j
       PROVE  sales'[i].inputs \cap sales'[j].inputs = {}
  <2>1. \A k \in DOMAIN sales : sales[k].inputs \cap hand = {}  BY <1>12 DEF Sold
  <2>2. CASE i \in DOMAIN sales /\ j \in DOMAIN sales  BY <1>7, <1>12, <2>2
  <2>3. CASE i \in DOMAIN sales /\ j = Len(sales) + 1  BY <1>5, <1>7, <2>1, <2>3
  <2>4. CASE j \in DOMAIN sales /\ i = Len(sales) + 1  BY <1>5, <1>7, <2>1, <2>4
  <2> QED BY <1>7, <1>12, <2>2, <2>3, <2>4
<1> QED BY <1>7, <1>8, <1>10, <1>11, <1>12 DEF hand

\* What the record says afterwards: a sale that may have happened keeps what was held, and one refused releases
\* no output but those of the batch in hand.
LEMMA RwRecorded ==
  ASSUME RwTyped, NEW p \in Runners, NEW state \in {"done", "failed", "pending"}
  PROVE  /\ Recorded(p, state) \in Seq(Entry)
         /\ \A o : Held(ledger, o) /\ (state # "failed" \/ o \notin pass[p].inputs) => Held(Recorded(p, state), o)
<1>1. ledger \in Seq(Entry) /\ Len(ledger) \in Nat /\ DOMAIN ledger = 1..Len(ledger)  BY LenProperties
  DEF RwTyped
<1>2. CASE InHand(p) = {}  BY <1>1, <1>2 DEF Recorded
<1>3. CASE InHand(p) # {}
  <2> DEFINE m == Min(InHand(p))
             e == [ledger[m] EXCEPT !.state = state]
             L == [ledger EXCEPT ![m] = e]
  <2>1. InHand(p) \in SUBSET Nat /\ \A i \in InHand(p) : i \in DOMAIN ledger /\ ledger[i].inputs = pass[p].inputs
    BY <1>1 DEF InHand
  <2>2. \E x \in InHand(p) : \A y \in InHand(p) : x <= y  BY <1>3, <2>1, Least
  <2>3. m \in InHand(p)  BY <2>2 DEF Min
  <2>4. m \in 1..Len(ledger) /\ ledger[m].inputs = pass[p].inputs  BY <1>1, <2>1, <2>3
  <2> HIDE DEF m
  <2>5. ledger[m] \in Entry  BY <1>1, <2>4, ElementOfSeq
  <2>6. e \in Entry /\ e.inputs = pass[p].inputs /\ e.state = state  BY <2>4, <2>5 DEF Entry
  <2>7. Recorded(p, state) = L  BY <1>1, <1>3, <2>4 DEF Recorded, m
  <2> HIDE DEF e
  <2>8. L \in Seq(Entry) /\ Len(L) = Len(ledger) /\ \A j \in 1..Len(ledger) : L[j] = IF j = m THEN e ELSE ledger[j]
    BY <1>1, <2>4, <2>6, ExceptSeq
  <2>9. DOMAIN L = DOMAIN ledger  OBVIOUS
  <2> HIDE DEF L
  <2>10. ASSUME NEW o, Held(ledger, o), state # "failed" \/ o \notin pass[p].inputs PROVE Held(L, o)
    <3>1. PICK i \in DOMAIN ledger : ledger[i].state # "failed" /\ o \in ledger[i].inputs  BY <2>10 DEF Held
    <3>2. CASE i = m
      <4>1. L[m] = e /\ o \in pass[p].inputs  BY <1>1, <2>4, <2>8, <3>1, <3>2
      <4> QED BY <1>1, <2>4, <2>6, <2>9, <2>10, <4>1 DEF Held
    <3>3. CASE i # m
      <4>1. L[i] = ledger[i]  BY <1>1, <2>8, <3>3
      <4> QED BY <2>9, <3>1, <4>1 DEF Held
    <3> QED BY <3>2, <3>3
  <2> QED BY <2>7, <2>8, <2>10
<1> QED BY <1>2, <1>3

\* A sale is of a batch held by the ledger and by the store, and a refusal releases only that batch.
LEMMA RwExecuteStep ==
  ASSUME RwInv, NEW p \in Runners, NEW bid \in 0..MaxOffer, NEW coins \in SaleCoins(p),
         NEW said \in {"txid", "null", "throw"}, Execute(p, bid, coins, said)
  PROVE  RwInv'
<1> DEFINE t == [pass[p] EXCEPT !.step = "settle"]
           state == Outcome(said)
           hand == pass[p].inputs
<1>1. /\ pass[p].step = "execute"
      /\ (said # "null" /\ Sell(p, bid, coins)) \/ (said # "txid" /\ UNCHANGED <<sales, spentOuts>>)
      /\ ledger' = Recorded(p, state) /\ pass' = [pass EXCEPT ![p] = t]
      /\ UNCHANGED <<enabled, rwTip, rewards, stored, written, loading, passes, lapses>>
  BY DEF Execute, RwInv, RwTyped
<1>2. /\ t.step = "settle" /\ t.left = pass[p].left /\ t.inputs = hand /\ t.dry = pass[p].dry /\ t \in Pass
  BY DEF RwInv, RwTyped, PassSteps, Pass
<1>3. state \in {"done", "failed", "pending"} /\ (said # "null" => state # "failed")  BY DEF Outcome
<1> HIDE DEF t, state
<1>4. /\ ledger' \in Seq(Entry)
      /\ \A o : Held(ledger, o) /\ (state # "failed" \/ o \notin hand) => Held(ledger', o)
  BY <1>1, <1>3, RwRecorded DEF RwInv
<1>5. /\ sales' \in Seq(SaleOf) /\ spentOuts' \subseteq Outputs /\ RwSales'
      /\ \A o : Sold(o)' => Sold(o) \/ (state # "failed" /\ o \in hand)
      /\ (\A o \in hand : ~Sold(o)) /\ (\A i, j \in DOMAIN sales : i # j => sales[i].inputs \cap sales[j].inputs = {})
           => \A i, j \in DOMAIN sales' : i # j => sales'[i].inputs \cap sales'[j].inputs = {}
  <2>1. CASE said # "null" /\ Sell(p, bid, coins)  BY <1>1, <1>3, <2>1, RwSell DEF RwInv
  <2>2. CASE UNCHANGED <<sales, spentOuts>>
    <3>1. sales' = sales /\ spentOuts' = spentOuts /\ rwTip' = rwTip /\ lapses' = lapses  BY <1>1, <2>2
    <3> QED BY <3>1 DEF RwInv, RwTyped, RwSales, Sold, Due, Mature
  <2> QED BY <1>1, <2>1, <2>2
<1>6. pass' \in [Runners -> Pass] /\ pass'[p] = t /\ \A q \in Runners : q # p => pass'[q] = pass[q]
  BY <1>1, <1>2, RwOthers DEF RwInv
<1>7. RwTyped'  BY <1>1, <1>4, <1>5, <1>6 DEF RwInv, RwTyped
<1>8. RwShape'  BY <1>1, <1>2, <1>6 DEF RwInv, RwShape
<1>9. Calm' <=> Calm  BY <1>1 DEF Calm
<1>10. RwBatches' /\ RwAlone'
  <2>1. \A q \in Runners : pass'[q].left = pass[q].left /\ pass'[q].inputs = pass[q].inputs /\ (Real(q)' <=> Real(q))
    BY <1>1, <1>2, <1>6 DEF Real
  <2>2. \A o : Due(o)' <=> Due(o)  BY <1>1 DEF Due, Mature
  <2>3. RwBatches'  BY <1>1, <2>1, <2>2 DEF RwInv, RwBatches
  <2> QED BY <1>9, <2>1, <2>3 DEF RwInv, RwAlone
<1>11. ASSUME Calm PROVE \A o \in hand : ~Sold(o) /\ Held(ledger, o) /\ Held(stored, o)
  BY <1>1, <1>11 DEF RwInv, RwHand
<1>12. Real(p)
  <2>1. pass[p].dry \in BOOLEAN  BY DEF RwInv, RwTyped, Pass
  <2> QED BY <1>1, <2>1 DEF Real, RwInv, RwShape
<1>13. ASSUME Calm, NEW q \in Runners, q # p PROVE pass[q].inputs = {} /\ ~Real(q)
  <2>1. ~Real(q)  BY <1>12, <1>13 DEF RwInv, RwAlone
  <2>2. pass[q].dry \in BOOLEAN  BY DEF RwInv, RwTyped, Pass
  <2> QED BY <2>1, <2>2 DEF Real, RwInv, RwShape
<1>14. RwHand'
  <2>1. SUFFICES ASSUME Calm, NEW q \in Runners, NEW o \in pass'[q].inputs
        PROVE  pass'[q].step \notin {"commit", "execute"}
    BY <1>9 DEF RwHand
  <2>2. q = p  BY <1>6, <1>13, <2>1
  <2> QED BY <1>2, <1>6, <2>2
<1>15. RwHeld'
  <2>1. SUFFICES ASSUME Calm, NEW o, Sold(o)'
        PROVE  Held(ledger', o) /\ Held(stored, o) /\ \A b \in pass[p].left : o \notin b
    <3>1. \A q \in Runners : Real(q)' /\ Calm => q = p /\ pass'[q].left = pass[p].left
      BY <1>2, <1>6, <1>13 DEF Real
    <3> QED BY <1>1, <1>9, <3>1 DEF RwHeld
  <2>2. CASE Sold(o)
    <3>1. Held(ledger, o) /\ Held(stored, o) /\ \A b \in pass[p].left : o \notin b  BY <1>12, <2>1, <2>2
      DEF RwInv, RwHeld
    <3>2. o \notin hand  BY <1>11, <2>1, <2>2
    <3> QED BY <1>4, <3>1, <3>2
  <2>3. CASE state # "failed" /\ o \in hand
    <3>1. \A b \in pass[p].left : o \notin b  BY <2>3 DEF RwInv, RwBatches
    <3> QED BY <1>4, <1>11, <2>1, <2>3, <3>1
  <2> QED BY <1>5, <2>1, <2>2, <2>3
<1>16. RwOnce'  BY <1>5, <1>9, <1>11 DEF RwInv, RwOnce
<1> QED BY <1>5, <1>7, <1>8, <1>10, <1>14, <1>15, <1>16 DEF RwInv

\* A process killed comes back with what was stored, or with nothing that is calm.
LEMMA RwKilledStep == ASSUME RwInv, NEW readable \in BOOLEAN, Killed(readable) PROVE RwInv'
<1> DEFINE c == written /\ ~readable
<1>1. /\ ledger' = Read(readable) /\ pass' = [p \in Runners |-> NoPass] /\ loading' = FALSE /\ rewards' = {}
      /\ lapses' = lapses \cup If(c, "decode")
      /\ UNCHANGED <<enabled, rwTip, spentOuts, stored, written, sales, passes>>
  BY DEF Killed
<1>2. /\ NoPass \in Pass /\ NoPass.left = {} /\ NoPass.inputs = {} /\ NoPass.step = "idle" /\ NoPass.dry = FALSE
      /\ FALSE \in BOOLEAN
  <2>1. FALSE \in BOOLEAN  BY Zenon
  <2> QED BY <2>1 DEF NoPass, PassSteps, Pass
<1>3. lapses' \subseteq Lapses /\ (Calm' => Calm /\ ~c) /\ ("depth" \notin lapses' <=> "depth" \notin lapses)
  <2>1. "decode" \in Lapses \ {"depth"}  BY DEF Lapses
  <2> HIDE DEF c
  <2> QED BY <1>1, <2>1, RwLapse DEF RwInv
<1>4. pass' \in [Runners -> Pass] /\ \A q \in Runners : pass'[q] = NoPass  BY <1>1, <1>2
<1>5. ledger' \in Seq(Entry)  BY <1>1, EmptySeq DEF Read, RwInv, RwTyped
<1>6. RwTyped'  BY <1>1, <1>2, <1>3, <1>4, <1>5 DEF RwInv, RwTyped
<1>7. RwShape' /\ RwBatches' /\ RwAlone' /\ RwHand'
  BY <1>1, <1>2, <1>4 DEF RwShape, RwBatches, RwAlone, RwHand, Real
<1>8. RwSales' /\ RwOnce'  BY <1>1, <1>3 DEF RwInv, RwSales, RwOnce, Due, Mature
<1>9. RwHeld'
  <2>1. SUFFICES ASSUME Calm', NEW o, Sold(o) PROVE Held(ledger', o) /\ Held(stored, o)
    BY <1>1, <1>2, <1>4 DEF RwHeld, Real, Sold
  <2>2. Held(stored, o)  BY <1>3, <2>1 DEF RwInv, RwHeld
  <2>3. Read(readable) = stored
    <3>1. readable \/ stored = <<>>  BY <1>3, <2>1 DEF RwInv, RwTyped
    <3> QED BY <3>1 DEF Read
  <2> QED BY <1>1, <2>2, <2>3
<1> QED BY <1>6, <1>7, <1>8, <1>9 DEF RwInv

\* A load brings back what was stored, which is what the ledger held unless it came in between.
LEMMA RwLoadedStep == ASSUME RwInv, NEW readable \in BOOLEAN, Loaded(readable) PROVE RwInv'
<1> DEFINE c == written /\ ~readable
           d == ledger' # ledger /\ \E p \in Runners : pass[p].step = "commit"
<1>1. /\ loading' = FALSE /\ ledger' = (IF written THEN Read(readable) ELSE ledger)
      /\ lapses' = lapses \cup If(c, "decode") \cup If(d, "load")
      /\ enabled' \in {enabled, FALSE}
      /\ UNCHANGED <<rwTip, spentOuts, rewards, stored, written, pass, sales, passes>>
  BY DEF Loaded
<1>2. FALSE \in BOOLEAN  BY Zenon
<1>3. lapses' \subseteq Lapses /\ (Calm' => Calm /\ ~c /\ ~d) /\ ("depth" \notin lapses' <=> "depth" \notin lapses)
  <2> HIDE DEF c, d
  <2> QED BY <1>1 DEF RwInv, RwTyped, If, Calm, Lapses
<1>4. ledger' \in Seq(Entry)  BY <1>1, EmptySeq DEF Read, RwInv, RwTyped
<1>5. RwTyped'  BY <1>1, <1>2, <1>3, <1>4 DEF RwInv, RwTyped
<1>6. RwShape' /\ RwAlone'  BY <1>1, <1>3 DEF RwInv, RwShape, RwAlone, Real
<1>7. \A o : Due(o)' <=> Due(o)  BY <1>1, <1>3 DEF Due, Mature
<1>8. RwBatches' /\ RwSales'  BY <1>1, <1>7 DEF RwInv, RwBatches, RwSales
<1>9. RwOnce'  BY <1>1, <1>3 DEF RwInv, RwOnce
<1>10. Calm' => ledger' \in {ledger, stored}
  <2>1. Calm' => ~written \/ readable  BY <1>3
  <2> QED BY <1>1, <2>1 DEF Read
<1>11. RwHeld'  BY <1>1, <1>3, <1>10 DEF RwInv, RwHeld, Held, Sold, Real
<1>12. RwHand'
  <2>1. SUFFICES ASSUME Calm', NEW p \in Runners, NEW o \in pass[p].inputs
        PROVE  /\ pass[p].step \in {"commit", "execute"} => Held(ledger', o) /\ ~Sold(o)
               /\ pass[p].step = "execute" => Held(stored, o)
    BY <1>1 DEF RwHand, Sold
  <2>2. /\ pass[p].step \in {"commit", "execute"} => Held(ledger, o) /\ ~Sold(o)
        /\ pass[p].step = "execute" => Held(stored, o)
    BY <1>3, <2>1 DEF RwInv, RwHand
  <2>3. CASE pass[p].step = "commit"
    <3>1. ledger' = ledger  BY <1>3, <2>1, <2>3
    <3> QED BY <2>2, <3>1
  <2>4. CASE pass[p].step # "commit"  BY <1>10, <2>1, <2>2, <2>4
  <2> QED BY <2>3, <2>4
<1> QED BY <1>5, <1>6, <1>8, <1>9, <1>11, <1>12 DEF RwInv

\* The rewards as attributed: mature ones, where the chain's maturity is asked for.
LEMMA RwAttributeStep == ASSUME RwInv, NEW depth \in {Maturity, OwnDepth}, Attribute(depth) PROVE RwInv'
<1>1. /\ rewards' = {o \in Facts \ spentOuts : IsReward(o) /\ Mature(o, depth)}
      /\ lapses' = lapses \cup If(depth # Maturity, "depth")
      /\ UNCHANGED <<enabled, rwTip, spentOuts, ledger, stored, written, pass, loading, sales, passes>>
  BY DEF Attribute
<1>2. lapses \subseteq lapses' /\ lapses' \subseteq Lapses /\ (Calm' <=> Calm) /\ (depth = Maturity \/ "depth" \in lapses')
  BY <1>1 DEF If, Calm, Lapses, RwInv, RwTyped
<1>3. rewards' \subseteq Outputs  BY <1>1 DEF Facts
<1>4. RwTyped'  BY <1>1, <1>2, <1>3 DEF RwInv, RwTyped
<1>5. \A o : Due(o) => Due(o)'  BY <1>1, <1>2 DEF Due, Mature
<1>6. \A o \in rewards' : Due(o)'  BY <1>1, <1>2 DEF Due, Mature
<1>7. RwBatches' /\ RwSales'  BY <1>1, <1>5, <1>6 DEF RwInv, RwBatches, RwSales
<1>8. RwShape' /\ RwAlone' /\ RwHand' /\ RwHeld' /\ RwOnce'
  BY <1>1, <1>2 DEF RwInv, RwShape, RwAlone, RwHand, RwHeld, RwOnce, Held, Sold, Real
<1> QED BY <1>4, <1>7, <1>8 DEF RwInv

\* The switch, the chain and a load that begins change no record; a mature reward stays mature.
LEMMA RwOtherSteps == ASSUME RwInv, LoadFor \/ Toggle \/ RwBlock PROVE RwInv'
<1>1. /\ UNCHANGED <<spentOuts, rewards, ledger, stored, written, pass, sales, passes, lapses>>
      /\ loading' \in BOOLEAN /\ enabled' \in BOOLEAN /\ rwTip' \in 0..RwMaxTip /\ rwTip' >= rwTip
  <2>1. CASE LoadFor
    <3>1. loading' \in BOOLEAN  BY <2>1, Zenon DEF LoadFor
    <3> QED BY <2>1, <3>1 DEF LoadFor, RwInv, RwTyped
  <2>2. CASE Toggle
    <3>1. enabled' \in BOOLEAN  BY <2>2, Zenon DEF Toggle
    <3> QED BY <2>2, <3>1 DEF Toggle, RwInv, RwTyped
  <2>3. CASE RwBlock  BY <2>3, RewardConstants DEF RwBlock, RwInv, RwTyped
  <2> QED BY <2>1, <2>2, <2>3
<1>2. RwTyped'  BY <1>1 DEF RwInv, RwTyped
<1>3. \A o \in Outputs : Due(o) => Due(o)'
  <2>1. \A o \in Outputs : o.at \in Nat  BY RewardConstants DEF OutputFacts
  <2>2. rwTip \in Nat /\ Maturity \in Nat /\ rwTip' \in Nat  BY <1>1, RewardConstants DEF RwInv, RwTyped
  <2> QED BY <1>1, <2>1, <2>2 DEF Due, IsReward, Mature
<1>4. RwBatches'
  <2>1. \A p \in Runners : pass[p].inputs \subseteq Outputs /\ \A b \in pass[p].left : b \subseteq Outputs
    BY DEF RwInv, RwTyped, Pass
  <2>2. rewards \subseteq Outputs  BY DEF RwInv, RwTyped
  <2> QED BY <1>1, <1>3, <2>1, <2>2 DEF RwInv, RwBatches
<1>5. RwSales'
  <2>1. \A k \in DOMAIN sales : sales[k].inputs \subseteq Outputs
    <3>1. SUFFICES ASSUME NEW k \in DOMAIN sales PROVE sales[k].inputs \subseteq Outputs  OBVIOUS
    <3>2. sales \in Seq(SaleOf) /\ DOMAIN sales = 1..Len(sales)  BY LenProperties DEF RwInv, RwTyped
    <3>3. sales[k] \in SaleOf  BY <3>2, ElementOfSeq
    <3> QED BY <3>3 DEF SaleOf
  <2> QED BY <1>1, <1>3, <2>1 DEF RwInv, RwSales
<1>6. RwShape' /\ RwAlone' /\ RwHand' /\ RwHeld' /\ RwOnce'
  BY <1>1 DEF RwInv, RwShape, RwAlone, RwHand, RwHeld, RwOnce, Held, Sold, Calm, Real
<1> QED BY <1>2, <1>4, <1>5, <1>6 DEF RwInv

\* The invariant is inductive.
LEMMA RwNextInv == RwInv /\ [RewardNext]_rewardVars => RwInv'
<1> SUFFICES ASSUME RwInv, [RewardNext]_rewardVars PROVE RwInv'  OBVIOUS
<1>1. CASE UNCHANGED rewardVars
  <2>1. RwTyped' /\ RwShape'  BY <1>1 DEF rewardVars, RwInv, RwTyped, RwShape
  <2>2. RwBatches' /\ RwSales'  BY <1>1 DEF rewardVars, RwInv, RwBatches, RwSales, Due, Mature
  <2>3. RwAlone' /\ RwHand' /\ RwOnce'
    BY <1>1 DEF rewardVars, RwInv, RwAlone, RwHand, RwOnce, Held, Sold, Calm, Real
  <2>4. RwHeld'  BY <1>1 DEF rewardVars, RwInv, RwHeld, Held, Sold, Calm, Real
  <2> QED BY <2>1, <2>2, <2>3, <2>4 DEF RwInv
<1>2. ASSUME NEW depth \in {Maturity, OwnDepth}, Attribute(depth) PROVE RwInv'  BY <1>2, RwAttributeStep
<1>3. ASSUME NEW p \in Runners, NEW dry \in BOOLEAN, RunPass(p, dry) PROVE RwInv'  BY <1>3, RwPassStep
<1>4. ASSUME NEW p \in Runners, Commit(p) \/ Settle(p) PROVE RwInv'  BY <1>4, RwCommitStep, RwSettleStep
<1>5. ASSUME NEW p \in Runners, NEW batch \in pass[p].left, NEW quote \in Quotes, Quoted(p, batch, quote) PROVE RwInv'
  BY <1>5, RwQuotedStep
<1>6. ASSUME NEW p \in Runners, NEW bid \in 0..MaxOffer, NEW coins \in SaleCoins(p),
             NEW said \in {"txid", "null", "throw"}, Execute(p, bid, coins, said)
      PROVE  RwInv'
  BY <1>6, RwExecuteStep
<1>7. ASSUME NEW readable \in BOOLEAN, Loaded(readable) \/ Killed(readable) PROVE RwInv'
  BY <1>7, RwLoadedStep, RwKilledStep
<1>8. CASE LoadFor \/ Toggle \/ RwBlock  BY <1>8, RwOtherSteps
<1> QED BY <1>1, <1>2, <1>3, <1>4, <1>5, <1>6, <1>7, <1>8 DEF RewardNext

\* The types follow from the invariant, ...
LEMMA RwTypesFollow == RwInv => RewardTypeOK
BY DEF RwInv, RwTyped, RewardTypeOK

\* ... and that no reward is sold twice.
LEMMA RwOnceFollows == RwInv => SoldOnce
<1> SUFFICES ASSUME RwInv PROVE SoldOnce  OBVIOUS
<1>1. \A i \in DOMAIN sales : /\ sales[i].atoms \in 1..Worth(sales[i].inputs)
                              /\ \A o \in sales[i].inputs : IsReward(o) /\ ("depth" \notin lapses => Mature(o, Maturity))
  BY DEF RwInv, RwSales, Due
<1>2. lapses \subseteq {"depth"} => \A i, j \in DOMAIN sales : i # j => sales[i].inputs \cap sales[j].inputs = {}
  BY DEF RwInv, RwOnce, Calm
<1> QED BY <1>1, <1>2 DEF SoldOnce

\* Every reachable state of the conversion is well typed.
THEOREM RewardTypeCorrect == RewardSpec => []RewardTypeOK
BY RwInitInv, RwNextInv, RwTypesFollow, PTL DEF RewardSpec

\* No reward is sold twice, nor for more than its batch holds, whatever the executor answers, whenever the app
\* is killed and however old the rewards a pass is given (reward_convert.dart, already_converted), as long as
\* real passes run one at a time, the ledger decodes and keeps its records and no load replaces one not
\* written; for any ledger cap and any outputs.
THEOREM SoldOnceAlways == RewardSpec => []SoldOnce
BY RwInitInv, RwNextInv, RwOnceFollows, PTL DEF RewardSpec

-----------------------------------------------------------------------------
(***************************************************************************)
(* The Rust core as a whole: the components share no state, so each keeps  *)
(* its invariant whichever one works.                                      *)
(***************************************************************************)

\* Every part of the core starts and steps as its own specification says, or stays where it is.
LEMMA CoreParts ==
  /\ CoreInit => /\ TxInit /\ CovInit /\ PlacedInit /\ DelegInit /\ LegInit /\ RewardInit
                 /\ LinkInit /\ WireInit /\ OampInit /\ CjInit /\ part \in Parts
  /\ [CoreNext]_coreVars => /\ [TxNext]_txVars /\ [CovNext]_covVars /\ [PlacedNext]_placedVars /\ [DelegNext]_delegVars
                            /\ [LegNext]_legVars /\ [RewardNext]_rewardVars /\ [LinkNext]_linkVars
                            /\ [WireNext]_wireVars /\ [OampNext]_oampVars /\ [CjNext]_cjVars
                            /\ part' = part
<1>1. CoreInit => /\ TxInit /\ CovInit /\ PlacedInit /\ DelegInit /\ LegInit /\ RewardInit
                  /\ LinkInit /\ WireInit /\ OampInit /\ CjInit /\ part \in Parts
  BY DEF CoreInit
<1>2. ASSUME [CoreNext]_coreVars
      PROVE  /\ [TxNext]_txVars /\ [CovNext]_covVars /\ [PlacedNext]_placedVars /\ [DelegNext]_delegVars
             /\ [LegNext]_legVars /\ [RewardNext]_rewardVars /\ [LinkNext]_linkVars
             /\ [WireNext]_wireVars /\ [OampNext]_oampVars /\ [CjNext]_cjVars
             /\ part' = part
  BY <1>2 DEF CoreNext, coreVars, In
<1> QED BY <1>1, <1>2

\* A behaviour of the composition is one of each part, so what is proved of a part holds in it.
LEMMA CoreIsItsParts ==
  CoreSpec => /\ TxSpec /\ CovSpec /\ PlacedSpec /\ DelegSpec /\ LegSpec /\ RewardSpec
              /\ LinkSpec /\ WireSpec /\ OampSpec /\ CjSpec
BY CoreParts, PTL
  DEF CoreSpec, TxSpec, CovSpec, PlacedSpec, DelegSpec, LegSpec, RewardSpec, LinkSpec, WireSpec, OampSpec, CjSpec

\* Every component's state stays in its sets (all that MCRustCore composes).
THEOREM CoreTypeCorrect == CoreSpec => []CoreTypeOK
<1>1. CoreSpec => [](part \in Parts)
  <2>1. part \in Parts /\ [CoreNext]_coreVars => (part \in Parts)'  BY CoreParts
  <2> QED BY CoreParts, <2>1, PTL DEF CoreSpec
<1>2. /\ part \in Parts
      /\ TxTypeOK /\ CovTypeOK /\ PlacedTypeOK /\ DelegTypeOK /\ LegTypeOK
      /\ RewardTypeOK /\ LinkTypeOK /\ WireTypeOK /\ OampTypeOK /\ CjTypeOK
      => CoreTypeOK
  BY DEF CoreTypeOK
<1> QED BY <1>1, <1>2, CoreIsItsParts, TxTypeCorrect, CovTypeCorrect, PlacedTypeCorrect, DelegTypeCorrect, LegTypeCorrect,
           RewardTypeCorrect, LinkTypeCorrect, WireTypeCorrect, OampTypeCorrect, CjTypeCorrect, PTL

\* What the parts promise holds of the core as it runs: the payments, the covenants and the list of placed orders,
\* the delegation, the legs of a swap, the rewards, the device's link, the offers, restricted assets and mixing rounds.
THEOREM CoreSafe ==
  CoreSpec => /\ [](PaidOnce /\ NoDust /\ MakerPaid /\ PlannedFillPasses /\ ReclaimKept /\ OneRecord /\ TakerWhole
                    /\ SoldOnce /\ LinkFaithful /\ WireFaithful /\ OnlyReviewed /\ CostsTheFee)
              /\ FindsLive
BY CoreIsItsParts, PaidOnceAlways, NoDustAlways, MakerPaidAlways, PlannedFillPassesAlways, ReclaimKeptAlways,
   OneRecordAlways, TakerWholeAlways, SoldOnceAlways, LinkFaithfulAlways, WireFaithfulAlways, OnlyReviewedAlways,
   CostsTheFeeAlways, LookupFindsLive, PTL
=============================================================================
