------------------------------ MODULE MCRustCore ------------------------------
(***************************************************************************)
(* One run over the components of the Rust core and the Dart code that     *)
(* drives each of them.  They share no state with one another, so a        *)
(* behaviour works in one component, chosen in the initial state, and      *)
(* leaves the others where they start: the run covers what ten runs, one   *)
(* per module, would.                                                      *)
(***************************************************************************)
EXTENDS WalletTx, CovenantOrder, PlacedOrders, Delegation, HtlcLegs,
        RewardConvert, DeviceLink, SeqobWire, OpenAmp, CoinJoin

VARIABLE part   \* the component this behaviour works in

coreVars == <<part, txVars, covVars, placedVars, delegVars, legVars, rewardVars, linkVars, wireVars,
              oampVars, cjVars>>

Parts == {"tx", "cov", "placed", "deleg", "legs", "reward", "link", "wire", "oamp", "cj"}

CoreInit ==
  /\ part \in Parts
  /\ TxInit /\ CovInit /\ PlacedInit /\ DelegInit /\ LegInit /\ RewardInit
  /\ LinkInit /\ WireInit /\ OampInit /\ CjInit
  /\ part # "legs" => forward
  /\ part # "oamp" => owner = CHOOSE a \in Accounts : TRUE

\* All variables of the other parts, and the choice itself, stay.
In(p) == part = p /\ part' = part

CoreNext ==
  \/ In("tx")      /\ TxNext
                   /\ UNCHANGED <<covVars, placedVars, delegVars, legVars, rewardVars, linkVars, wireVars, oampVars, cjVars>>
  \/ In("cov")     /\ CovNext
                   /\ UNCHANGED <<txVars, placedVars, delegVars, legVars, rewardVars, linkVars, wireVars, oampVars, cjVars>>
  \/ In("placed")  /\ PlacedNext
                   /\ UNCHANGED <<txVars, covVars, delegVars, legVars, rewardVars, linkVars, wireVars, oampVars, cjVars>>
  \/ In("deleg")   /\ DelegNext
                   /\ UNCHANGED <<txVars, covVars, placedVars, legVars, rewardVars, linkVars, wireVars, oampVars, cjVars>>
  \/ In("legs")    /\ LegNext
                   /\ UNCHANGED <<txVars, covVars, placedVars, delegVars, rewardVars, linkVars, wireVars, oampVars, cjVars>>
  \/ In("reward")  /\ RewardNext
                   /\ UNCHANGED <<txVars, covVars, placedVars, delegVars, legVars, linkVars, wireVars, oampVars, cjVars>>
  \/ In("link")    /\ LinkNext
                   /\ UNCHANGED <<txVars, covVars, placedVars, delegVars, legVars, rewardVars, wireVars, oampVars, cjVars>>
  \/ In("wire")    /\ WireNext
                   /\ UNCHANGED <<txVars, covVars, placedVars, delegVars, legVars, rewardVars, linkVars, oampVars, cjVars>>
  \/ In("oamp")    /\ OampNext
                   /\ UNCHANGED <<txVars, covVars, placedVars, delegVars, legVars, rewardVars, linkVars, wireVars, cjVars>>
  \/ In("cj")      /\ CjNext
                   /\ UNCHANGED <<txVars, covVars, placedVars, delegVars, legVars, rewardVars, linkVars, wireVars, oampVars>>

CoreSpec == CoreInit /\ [][CoreNext]_coreVars

(* Every component's state stays in its sets.                              *)
CoreTypeOK ==
  /\ part \in Parts
  /\ TxTypeOK /\ CovTypeOK /\ PlacedTypeOK /\ DelegTypeOK /\ LegTypeOK
  /\ RewardTypeOK /\ LinkTypeOK /\ WireTypeOK /\ OampTypeOK /\ CjTypeOK

-----------------------------------------------------------------------------
(* Values of the constants, and how far the states are followed.           *)

\* What happens after a lapse that the ledger of rewards does not guard against is not followed: SoldOnce
\* promises no single sale there.
Followed == lapses \subseteq {"depth"}

\* The first has a price below one, the second one above; both leave something to round.
MCOffers == {[sell |-> 5, buy |-> 3], [sell |-> 4, buy |-> 6]}

MCWallet == {[id |-> 1, atoms |-> 3, asset |-> "A"],
             [id |-> 2, atoms |-> 2, asset |-> "A"],
             [id |-> 3, atoms |-> 3, asset |-> "B"]}

\* Both assets fall on one index.
MCAssetIndex == [a \in Assets |-> 0]

MCOutputs == {
  [asset |-> "A", value |-> 2, coinbase |-> TRUE,  script |-> "staking", fromMe |-> FALSE, at |-> 0],
  [asset |-> "A", value |-> 1, coinbase |-> FALSE, script |-> "staking", fromMe |-> FALSE, at |-> 0],
  [asset |-> "A", value |-> 1, coinbase |-> FALSE, script |-> "staking", fromMe |-> TRUE,  at |-> 0],
  [asset |-> "A", value |-> 1, coinbase |-> FALSE, script |-> "wallet",  fromMe |-> FALSE, at |-> 0],
  [asset |-> "B", value |-> 1, coinbase |-> FALSE, script |-> "staking", fromMe |-> FALSE, at |-> 1]}
=============================================================================
