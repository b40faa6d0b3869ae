------------------------------- MODULE OpenAmp -------------------------------
(***************************************************************************)
(* Restricted assets held through the hosted enclave: the account, the     *)
(* draft of a transfer, the digests the wallet recomputes before it signs, *)
(* and the tagged signatures of logins and documents, all under the one    *)
(* key at m/5/0.  Sources: ambra_core/src/api/mod.rs (OpenAMP section),    *)
(* app/lib/src/data/openamp_service.dart and screens/send_screen.dart.     *)
(*                                                                         *)
(* The enclave chooses every answer it gives: the account id, the draft,   *)
(* the digests it wants signed, the leaf and the script of the address.    *)
(* The explorer may report a wrong owner.  A hash is the record of what is *)
(* hashed; an account names its script.                                    *)
(***************************************************************************)
EXTENDS Naturals, FiniteSets

CONSTANTS Accounts,    \* wallets of this device, one after the other; each names its m/5/0 key
          MaxSends,    \* transfers started
          MaxTags      \* logins and documents signed

ASSUME OpenAmpAssumption == MaxSends \in Nat /\ MaxTags \in Nat

VARIABLES
  owner,      \* the wallet whose mnemonic the app holds
  account,    \* OpenAmpService._aid: the keys the account id hashes, {} before registration
  send,       \* the transfer under way and how far it got
  sigs,       \* signatures given: by which key, of what
  approved,   \* transactions the user has confirmed, each with the sheet he saw
  sends, tags

oampVars == <<owner, account, send, sigs, approved, sends, tags>>

\* Whom an output pays: an account, the recipient the user entered, somebody else.
Scripts == Accounts \cup {"recipient", "stranger"}

\* A transaction that moves enclave coins: coin c is the output of account c.
Spends == [inputs : SUBSET Accounts \ {{}}, pays : Scripts]

\* EnclavePrevout, for every input: the account said to own what it spends.
Prevouts(tx) == [tx.inputs -> Accounts]

\* EnclaveSpendEffects as the review sheet shows them: the inputs it calls ours and whom it says the output pays.
Sheets == [spent : SUBSET Accounts, row : {"to you", "to recipient"}]

\* enclave_sighash: it commits to the transaction, the input, every prevout and the leaf.
Sighash(tx, input, prevouts, leaf) ==
  [kind |-> "spend", tx |-> tx, input |-> input, prevouts |-> prevouts, leaf |-> leaf]

\* What the chain verifies a signature of input c against.
ChainDigest(tx, c) == Sighash(tx, c, [i \in tx.inputs |-> i], c)

\* openamp_sign_sighash: a signature of the digest under the key at m/5/0 of the open wallet.
SignSighash(digest) == [by |-> owner, of |-> digest]

\* openampTaggedHash: the domain of logins and documents.
Tagged(message) == [kind |-> "tagged", message |-> message]

\* openamp_compute_aid: the id hashes the whole key set.
ComputeAid(keys) == keys

\* decode_enclave_spend with _effectRows: ours is what has the script the enclave told for our address, and an
\* output that is not ours is shown as the recipient's.
Effects(tx, prevouts, told) ==
  [spent |-> {i \in tx.inputs : prevouts[i] = told},
   row   |-> IF tx.pays = told THEN "to you" ELSE "to recipient"]

NoSend == [at |-> "none"]

OampInit ==
  /\ owner \in Accounts
  /\ account = {}
  /\ send = NoSend
  /\ sigs = {} /\ approved = {}
  /\ sends = 0 /\ tags = 0

(***************************************************************************)
(* ensureRegistered: idempotent, and the account id of the answer must be  *)
(* the one computed from the own key.                                      *)
(***************************************************************************)
AidAccepted(keys) == keys = ComputeAid({owner})

Register(keys) ==
  /\ account = {} /\ AidAccepted(keys)
  /\ account' = keys
  /\ UNCHANGED <<owner, send, sigs, approved, sends, tags>>

\* A wallet is removed and another opened in the same process: _aid is not reset.
Replace ==
  /\ send = NoSend
  /\ \E w \in Accounts \ {owner} : owner' = w
  /\ UNCHANGED <<account, send, sigs, approved, sends, tags>>

(***************************************************************************)
(* prepareTransfer: draft, address, prevouts, then every digest the enclave*)
(* asks for is recomputed; the local digests are what will be signed.      *)
(***************************************************************************)
Draft(tx, asked) ==
  /\ send = NoSend /\ account # {} /\ sends < MaxSends
  /\ sends' = sends + 1
  /\ send' = [at |-> "drafted", tx |-> tx, asked |-> asked]
  /\ UNCHANGED <<owner, account, sigs, approved, tags>>

\* A bug: the enclave's own digest is signed.
LocalDigestTrusting(input, prevouts, leaf) == send.asked[input]

\* The digest computed here for an input the enclave names.
LocalDigest(input, prevouts, leaf) == Sighash(send.tx, input, prevouts, leaf)

Reproduced(prevouts, leaf) ==
  \A i \in DOMAIN send.asked : i \in send.tx.inputs /\ LocalDigest(i, prevouts, leaf) = send.asked[i]

PrepareSend(prevouts, leaf, told) ==
  /\ send.at = "drafted"
  /\ send' = IF Reproduced(prevouts, leaf)
             THEN [at |-> "review", tx |-> send.tx, sheet |-> Effects(send.tx, prevouts, told),
                   digests |-> {LocalDigest(i, prevouts, leaf) : i \in DOMAIN send.asked}]
             ELSE NoSend
  /\ UNCHANGED <<owner, account, sigs, approved, sends, tags>>

\* completePrepared, after the payment authentication.
Complete ==
  /\ send.at = "review"
  /\ approved' = approved \union {[tx |-> send.tx, sheet |-> send.sheet]}
  /\ sigs' = sigs \union {SignSighash(d) : d \in send.digests}
  /\ send' = NoSend
  /\ UNCHANGED <<owner, account, sends, tags>>

\* The sheet is closed, or a call of the draft fails.
Abandon ==
  /\ send # NoSend /\ send' = NoSend
  /\ UNCHANGED <<owner, account, sigs, approved, sends, tags>>

\* openampSignTagged over a message somebody else supplied, a digest among them.
SignTagged(message) ==
  /\ tags < MaxTags
  /\ tags' = tags + 1
  /\ sigs' = sigs \union {SignSighash(Tagged(message))}
  /\ UNCHANGED <<owner, account, send, approved, sends>>

\* The enclave drafts a transaction and names digests, each of it or of one that pays somebody else.
EnclaveAsks(tx) ==
  \E named \in SUBSET Accounts, alt \in {t \in Spends : t.pays = "stranger"} : \E of \in [named -> {tx, alt}] :
    Draft(tx, [i \in named |-> ChainDigest(of[i], i)])

OampNext ==
  \/ \E keys \in SUBSET Accounts : Register(keys)
  \/ Replace
  \/ \E tx \in Spends : EnclaveAsks(tx)
  \/ /\ send.at = "drafted"
     /\ \E prevouts \in Prevouts(send.tx), leaf \in Accounts, told \in Scripts : PrepareSend(prevouts, leaf, told)
  \/ Complete
  \/ Abandon
  \/ \E tx \in Spends : \E c \in tx.inputs : tx.pays = "stranger" /\ SignTagged(ChainDigest(tx, c))

OampSpec == OampInit /\ [][OampNext]_oampVars

-----------------------------------------------------------------------------
(* The state stays in these sets.                                          *)
OampTypeOK ==
  /\ owner \in Accounts /\ account \subseteq Accounts
  /\ send.at \in {"none", "drafted", "review"}
  /\ \A s \in sigs : s.by \in Accounts /\ s.of.kind \in {"spend", "tagged"}
  /\ approved \subseteq [tx : Spends, sheet : Sheets]
  /\ sends \in 0 .. MaxSends /\ tags \in 0 .. MaxTags

(* A signature the chain would accept for a coin of an account is of a      *)
(* transaction that was decoded for review and confirmed, whatever the     *)
(* enclave drafted, asked to sign or passed as a document, and whatever the*)
(* explorer reported of the inputs (prepareTransfer, openampSignTagged).   *)
(* The sheet calls every output that is not the wallet's own the           *)
(* recipient's, so it does not tell whom the transaction pays.             *)
OnlyReviewed ==
  \A tx \in Spends : \A c \in tx.inputs :
    [by |-> c, of |-> ChainDigest(tx, c)] \in sigs => \E a \in approved : a.tx = tx
=============================================================================
