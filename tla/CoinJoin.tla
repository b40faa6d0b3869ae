------------------------------ MODULE CoinJoin ------------------------------
(***************************************************************************)
(* The wallet's part of a CoinJoin round: it picks coins, registers them   *)
(* and its addresses, and signs the coordinator's transaction only if that *)
(* pays what the round owes.  Sources: ambra_core/src/api/mod.rs (CoinJoin *)
(* section), app/lib/src/data/coinjoin_protocol.dart, coinjoin_service.dart*)
(*                                                                         *)
(* The coordinator sets the terms and builds the transaction: the wallet's *)
(* coins but for one at most (those of other participants are left out),   *)
(* and the outputs owed with at most one removed and one added.  Blind     *)
(* signatures and ownership proofs are not modelled, they let the          *)
(* coordinator link or refuse a registration, not change what is signed.   *)
(***************************************************************************)
EXTENDS Integers, FiniteSets, FiniteSetsExt

CONSTANTS Wallet,       \* the wallet's coins: [id, atoms, asset]
          MaxDenom, MaxCoordFee, MaxCredentials,   \* bounds of a lane
          MaxIndex      \* addresses drawn

ASSUME CjConstants ==
  /\ Wallet \subseteq [id : Nat, atoms : Nat, asset : STRING] /\ IsFiniteSet(Wallet)
  /\ {MaxDenom, MaxCoordFee, MaxCredentials, MaxIndex} \subseteq Nat

VARIABLES
  round,    \* the round under way: phase, terms, chosen coins, addresses
  fresh,    \* CoinjoinService._fresh, addresses drawn by this process
  base,     \* BtcState.unifiedNext, which never moves back in a process
  process,  \* counts restarts of the app, one is enough
  signed    \* the transactions signed, with the round they were signed for

cjVars == <<round, fresh, base, process, signed>>

Atoms(coins) == MapThenSumSet(LAMBDA c : c.atoms, coins)

NoRound == [phase |-> "none"]

CjInit ==
  /\ round = NoRound
  /\ fresh = 0 /\ base = 0 /\ process = 0
  /\ signed = {}

(***************************************************************************)
(* selectInputs takes the largest coins of the asset until they cover what *)
(* is wanted; runRound then derives the number of denominations and the    *)
(* change from what was picked.                                            *)
(***************************************************************************)
Larger(c, d) == c.atoms > d.atoms \/ (c.atoms = d.atoms /\ c.id < d.id)

\* coinjoin_utxos and the greedy pick: a coin is taken while those before it do not suffice.
Picked(asset, want) ==
  LET cands == {c \in Wallet : c.asset = asset}
  IN {c \in cands : Atoms({d \in cands : Larger(d, c)}) < want}

Smaller(a, b) == IF a < b THEN a ELSE b

\* runRound up to /register-input; the change address is drawn before the registration.
\* The first index drawn is base + fresh, the later ones follow.  One round at a time, as one
\* mix screen runs them; that a lane's denomination is at least 1 and its fee at least 0 is
\* the coordinator's word, which the code does not check.
RegisterInputs(asset, denom, coordFee, cap) ==
  LET per    == denom + coordFee
      coins  == Picked(asset, cap * per)
      k      == Smaller(Atoms(coins) \div per, cap)
      change == Atoms(coins) - k * per
  IN /\ round = NoRound
     /\ Atoms(coins) >= per
     /\ round' = [phase |-> "output", asset |-> asset, denom |-> denom, fee |-> coordFee, k |-> k,
                  coins |-> coins, change |-> change, mix |-> {},
                  changeAt |-> IF change > 0 THEN {base + fresh} ELSE {}]
     /\ fresh' = IF change > 0 THEN fresh + 1 ELSE fresh
     /\ UNCHANGED <<base, process, signed>>

\* One /register-output: the address is drawn only now.
RegisterOutput ==
  /\ round.phase = "output" /\ Cardinality(round.mix) < round.k
  /\ base + fresh < MaxIndex
  /\ round' = [round EXCEPT !.mix = @ \union {base + fresh}]
  /\ fresh' = fresh + 1
  /\ UNCHANGED <<base, process, signed>>

\* What the round owes the wallet, output by output.
Owed == {[at |-> i, asset |-> round.asset, atoms |-> round.denom] : i \in round.mix}
          \union {[at |-> i, asset |-> round.asset, atoms |-> round.change] : i \in round.changeAt}

(***************************************************************************)
(* verifyRoundOutputs over coinjoin_unblind_outputs: no script paid twice, *)
(* every output owed present with its asset and value, and no other of ours*)
(***************************************************************************)
\* Where the other participants are paid: nothing there unblinds with the wallet's key.
Elsewhere == MaxIndex + 1
UnblindOutputs(outputs) == {o \in outputs : o.at # Elsewhere}

\* A bug: values are not compared.
PaysAsOwedUnvalued(mine) ==
  \A o \in Owed : \E m \in mine : m.at = o.at /\ m.asset = o.asset

PaysAsOwed(mine) ==
  /\ \A m, n \in mine : m.at = n.at => m = n
  /\ \A o \in Owed : \E m \in mine : m = o
  /\ {m.at : m \in mine} = round.mix \union round.changeAt

\* coinjoin_tx_outpoints: the coins registered must all be in the round.
Registered(inputs) == round.coins \subseteq inputs

\* verifyAndSign: coinjoin_sign_inputs signs the registered coins, matched by outpoint.
VerifyAndSign(inputs, outputs) ==
  /\ round.phase = "output" /\ Cardinality(round.mix) = round.k
  /\ round' = NoRound
  /\ LET mine == UnblindOutputs(outputs) IN
     signed' = IF PaysAsOwed(mine) /\ Registered(inputs)
               THEN signed \union {[process |-> process, coins |-> round.coins \intersect inputs,
                                    mine |-> mine, asset |-> round.asset,
                                    fee |-> round.k * round.fee]}
               ELSE signed
  /\ UNCHANGED <<fresh, base, process>>

\* The round fails, the coordinator is gone, or the wait of ten minutes runs out.
RoundFails ==
  /\ round # NoRound /\ round' = NoRound
  /\ UNCHANGED <<fresh, base, process, signed>>

\* A scan sees an address used and moves the shared index (BtcState.observe, bumpTo).
Observe ==
  /\ base + fresh < MaxIndex /\ base' = base + 1
  /\ UNCHANGED <<round, fresh, process, signed>>

\* The app is killed and started again: the counter restarts, the index is scanned anew.
RestartApp ==
  /\ process = 0 /\ process' = 1
  /\ round' = NoRound /\ fresh' = 0 /\ base' \in 0 .. base
  /\ UNCHANGED signed

\* The outputs a coordinator may send: those owed, one removed and one added at most, at an address drawn
\* before, at one not drawn yet or elsewhere.
Offered ==
  LET any == [at : 0 .. base + fresh, asset : {c.asset : c \in Wallet},
              atoms : {round.denom, round.change, round.denom + 1}]
               \union {[at |-> Elsewhere, asset |-> round.asset, atoms |-> round.denom]}
  IN {(Owed \ gone) \union extra : gone \in {{}} \union {{o} : o \in Owed},
                                   extra \in {{}} \union {{a} : a \in any}}

CjNext ==
  \/ \E asset \in {c.asset : c \in Wallet}, denom \in 1 .. MaxDenom,
        coordFee \in 0 .. MaxCoordFee, cap \in 1 .. MaxCredentials :
       base + fresh < MaxIndex /\ RegisterInputs(asset, denom, coordFee, cap)
  \/ RegisterOutput
  \/ /\ round.phase = "output"
     /\ \E inputs \in {Wallet} \union {Wallet \ {c} : c \in round.coins}, outputs \in Offered :
          VerifyAndSign(inputs, outputs)
  \/ RoundFails
  \/ Observe
  \/ RestartApp

CjSpec == CjInit /\ [][CjNext]_cjVars

-----------------------------------------------------------------------------
(* The state stays in these sets.                                          *)
CjTypeOK ==
  /\ round.phase \in {"none", "output"}
  /\ round # NoRound => /\ round.coins \subseteq Wallet /\ round.k \in 1 .. MaxCredentials
                        /\ round.change \in Nat
                        /\ round.mix \union round.changeAt \subseteq 0 .. MaxIndex - 1
  /\ fresh \in 0 .. MaxIndex /\ base \in 0 .. MaxIndex /\ process \in 0 .. 1
  /\ \A s \in signed : s.coins \subseteq Wallet /\ s.coins # {}

(* A round that was signed costs the wallet the coordinator's fee and no   *)
(* more: the coins signed, all of one asset, are worth the outputs that pay*)
(* the wallet plus the fee, and within one run of the app no address is    *)
(* paid by two rounds (verifyRoundOutputs, selectInputs, _nextFreshIndex). *)
CostsTheFee ==
  /\ \A s \in signed :
       /\ \A c \in s.coins \union s.mine : c.asset = s.asset
       /\ Atoms(s.coins) = Atoms(s.mine) + s.fee
  /\ \A s, t \in signed :
       s.process = t.process /\ s # t => \A m \in s.mine, n \in t.mine : m.at # n.at
=============================================================================
