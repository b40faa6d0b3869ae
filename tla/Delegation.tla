----------------------------- MODULE Delegation -----------------------------
(***************************************************************************)
(* Staking pools (ambra_core/src/api/mod.rs 2055-2433 and the app's stake  *)
(* screen): a bare output, the delegation record, points at a pool's       *)
(* signer.  The first one is a payment of the wallet; a move or a leave    *)
(* spends it and creates at most one in its place.  The wallet's history   *)
(* holds what it funded; what a move created is found by asking the        *)
(* explorer, which takes account of what waits for a block, about one      *)
(* signer after another.                                                   *)
(*                                                                         *)
(* Records are numbered as they are made.  The record's value is left out. *)
(***************************************************************************)
EXTENDS Integers, FiniteSets, Sequences, Functions

CONSTANTS
    Signers,    \* signers of pools, this wallet's own key not among them
    NoRecord,   \* no delegation
    HintCap,    \* how many signers the device remembers (20)
    MaxRecords, \* bound on the records made
    MaxMisses   \* bound on requests that fail

ASSUME DelegConstants ==
    /\ {HintCap, MaxRecords, MaxMisses} \subseteq Nat
    /\ NoRecord \notin Signers \cup (1..MaxRecords)

VARIABLES
    records,    \* every record made: its signer, the one a move spent for it, whether it is in a block
    unspent,    \* the numbers of those that nothing sent so far spends
    leaving,    \* the numbers of those spent by a leave that waits for its block
    left,       \* the numbers of those spent by a leave in a block
    history,    \* the numbers of those the wallet funded
    board,      \* the signers on the pool board
    hints,      \* the signers this device has used, stored, the latest first
    deleg,      \* what the screen shows: the number of a record, or none
    join,       \* the pool of a join that is confirmed and authorised on the screen
    task,       \* a lookup in progress and what it is for
    slips,      \* how this wallet has come to act on a wrong picture
    misses      \* requests that failed so far

recordVars == <<records, unspent, leaving, left, history>>
delegVars == <<recordVars, board, hints, deleg, join, task, slips, misses>>

Numbers == 1..MaxRecords
Rec     == [id : Numbers, signer : Signers, from : Numbers \cup {NoRecord}, confirmed : BOOLEAN]
Pick0   == Numbers \cup {NoRecord}
Idle    == [op |-> "none", to |-> NoRecord, asked |-> {}, left |-> {}, found |-> {}, known |-> {}, sure |-> TRUE]
Task    == [op : {"none", "load", "move", "leave"}, to : Signers \cup {NoRecord}, asked : SUBSET Signers,
            left : SUBSET Signers, found : SUBSET Numbers, known : SUBSET Numbers, sure : BOOLEAN]

\* A pool was joined before the screen had looked, or while a leave waited for its block; or a lookup asked
\* neither the history nor the explorer about a record, its signer being on no board and in no hint.
Slips == {"early", "loose", "blind"}

Record(id) == CHOOSE r \in records : r.id = id

\* The records that stand in the chain: those in a block that nothing in a block spends.
LiveRecords ==
    LET mined == {r \in records : r.confirmed}
    IN {r.id : r \in mined} \ (left \cup {r.from : r \in mined})

\* Types; a record is spent only once it is in a block (build_delegation_spend).
DelegTypeOK ==
    /\ records \subseteq Rec /\ unspent \subseteq {r.id : r \in records}
    /\ leaving \cup left \subseteq Numbers \ unspent /\ history \subseteq {r.id : r \in records}
    /\ board \subseteq Signers /\ hints \in Seq(Signers) /\ Len(hints) <= HintCap
    /\ deleg \in Pick0 /\ join \in Signers \cup {NoRecord}
    /\ task \in Task /\ slips \subseteq Slips /\ misses \in 0..MaxMisses
    /\ \A r \in records : r.id \notin unspent => r.confirmed

DelegInit ==
    /\ records = {} /\ unspent = {} /\ leaving = {} /\ left = {} /\ history = {}
    /\ board = Signers /\ hints = <<>>
    /\ deleg = NoRecord /\ join = NoRecord /\ task = Idle /\ slips = {} /\ misses = 0

NewRecord(signer, from) ==
    LET id == Cardinality(records) + 1 IN
    /\ id \in Numbers
    /\ records' = records \cup {[id |-> id, signer |-> signer, from |-> from, confirmed |-> FALSE]}

\* _rememberSigner: a new one goes to the front and the oldest is dropped; a hint that cannot be stored is not.
Remembered(s) ==
    IF s \in Range(hints) THEN {hints}
    ELSE {hints, IF Len(hints) < HintCap THEN <<s>> \o hints ELSE SubSeq(<<s>> \o hints, 1, HintCap)}

(***************************************************************************)
(* find_delegation.                                                        *)
(***************************************************************************)

\* The history pass: every record the wallet funded, spent or not.  The signers to ask about are the hints,
\* none when they cannot be loaded, and the board.
Lookup(op, to) ==
    \E asked \in {Range(hints') \cup board, board} :
       task' = [op |-> op, to |-> to, asked |-> asked, left |-> asked, found |-> history', known |-> {},
                sure |-> TRUE]

Load ==
    /\ task.op = "none"
    /\ UNCHANGED <<recordVars, board, hints, deleg, join, slips, misses>>
    /\ Lookup("load", NoRecord)

\* _leave, and _delegate where the screen shows a delegation; the pool to move to is remembered before
\* anything is sent.
BeginLeave ==
    /\ task.op = "none" /\ join = NoRecord
    /\ UNCHANGED <<recordVars, board, hints, deleg, join, slips, misses>>
    /\ Lookup("leave", NoRecord)
BeginMove(to) ==
    /\ task.op = "none" /\ join = NoRecord
    /\ deleg # NoRecord /\ Record(deleg).signer # to
    /\ hints' \in Remembered(to)
    /\ UNCHANGED <<recordVars, board, deleg, join, slips, misses>>
    /\ Lookup("move", to)

\* The wallet's scan fails: the lookup is an error, and what is shown stays.
HistoryFails ==
    /\ task.op # "none" /\ task.left = task.asked /\ misses < MaxMisses
    /\ misses' = misses + 1
    /\ task' = Idle
    /\ UNCHANGED <<recordVars, board, hints, deleg, join, slips>>

\* A bug: what the history has found ends the probing too.
ProbingUnlessHistory == task.op # "none" /\ task.left # {} /\ task.known = {} /\ task.found = {}

\* The probes go on until one of them has found something.
Probing == task.op # "none" /\ task.left # {} /\ task.known = {}

\* The signers this device has used come first, in their order.
Next1(s) == s \in task.left /\ \A i \in DOMAIN hints : hints[i] \in task.left => \E j \in 1..i : hints[j] = s

\* scripthash_utxos: the unspent outputs of our record script for signer s.
Probe(s) ==
    /\ Probing /\ Next1(s)
    /\ LET hit == {id \in unspent : Record(id).signer = s}
       IN task' = [task EXCEPT !.left = @ \ {s}, !.found = @ \cup hit, !.known = hit]
    /\ UNCHANGED <<recordVars, board, hints, deleg, join, slips, misses>>

\* The probe fails or is refused, which reads as no output.
ProbeFails(s) ==
    /\ Probing /\ Next1(s) /\ misses < MaxMisses
    /\ misses' = misses + 1
    /\ task' = [task EXCEPT !.left = @ \ {s}, !.sure = FALSE]
    /\ UNCHANGED <<recordVars, board, hints, deleg, join, slips>>

\* A bug: the latest record found, spent or not.
InForceUnchecked ==
    IF task.found = {} THEN NoRecord ELSE CHOOSE a \in task.found : \A b \in task.found : b <= a

\* The latest record found that a probe or outpoint_is_spent says is unspent.
InForce ==
    LET good == {id \in task.found : id \in task.known \/ id \in unspent}
    IN IF good = {} THEN NoRecord ELSE CHOOSE a \in good : \A b \in good : b <= a

Found == task.op # "none" /\ ~Probing

\* Records that no pass of the lookup could come upon.
Unasked == {r \in records : r.id \in unspent /\ r.id \notin task.found /\ r.signer \notin task.asked}

\* _load: the screen shows what was found.
Show ==
    /\ Found /\ task.op = "load"
    /\ deleg' = InForce
    /\ slips' = IF Unasked = {} THEN slips ELSE slips \cup {"blind"}
    /\ task' = Idle
    /\ UNCHANGED <<recordVars, board, hints, join, misses>>

\* outpoint_is_spent is not answered: the lookup fails.
CheckFails ==
    /\ Found /\ task.found \ task.known # {} /\ misses < MaxMisses
    /\ misses' = misses + 1
    /\ task' = Idle
    /\ UNCHANGED <<recordVars, board, hints, deleg, join, slips>>

(***************************************************************************)
(* Joining, moving and leaving.                                            *)
(***************************************************************************)

\* _delegate where the screen shows no delegation, be it because it has not finished looking: the user
\* confirms and then authorises.
ChooseJoin(s) ==
    /\ join = NoRecord /\ task.op \in {"none", "load"} /\ deleg = NoRecord
    /\ join' = s
    /\ slips' = IF task.op = "load" THEN slips \cup {"early"} ELSE slips
    /\ UNCHANGED <<recordVars, board, hints, deleg, task, misses>>

\* The signer is remembered; build_delegate_tx, signed and sent; the screen is loaded.
SendJoin ==
    /\ join # NoRecord
    /\ hints' \in Remembered(join)
    /\ NewRecord(join, NoRecord)
    /\ unspent' = unspent \cup {Cardinality(records) + 1}
    /\ history' = history \cup {Cardinality(records) + 1}
    /\ slips' = IF leaving # {} THEN slips \cup {"loose"} ELSE slips
    /\ join' = NoRecord
    /\ UNCHANGED <<leaving, left, board, deleg, misses>>
    /\ Lookup("load", NoRecord)

\* Cancelled, or not sent, when the signer may have been remembered.
JoinFails ==
    /\ join # NoRecord
    /\ hints' \in {hints} \cup Remembered(join)
    /\ join' = NoRecord
    /\ UNCHANGED <<recordVars, board, deleg, task, slips, misses>>

\* A bug: a record that waits for its block is spent again.
SpendableAtOnce == InForce # NoRecord

\* A record that has been found can be spent once it is in a block.
Spendable == InForce # NoRecord /\ Record(InForce).confirmed

\* A bug: a move as two transactions, a leave and a join.
MoveLoose ==
    /\ Found /\ task.op = "move" /\ Spendable
    /\ NewRecord(task.to, NoRecord)
    /\ unspent' = (unspent \ {InForce}) \cup {Cardinality(records) + 1}
    /\ leaving' = leaving \cup {InForce}
    /\ UNCHANGED <<left, history, board, hints, deleg, join, slips, misses>>
    /\ Lookup("load", NoRecord)

\* build_delegation_spend: the old record is spent and the new one made in one transaction.
Move ==
    /\ Found /\ task.op = "move" /\ Spendable
    /\ NewRecord(task.to, InForce)
    /\ unspent' = (unspent \ {InForce}) \cup {Cardinality(records) + 1}
    /\ UNCHANGED <<leaving, left, history, board, hints, deleg, join, slips, misses>>
    /\ Lookup("load", NoRecord)

\* The spend of a leave is sent, and waits for its block.
Leave ==
    /\ Found /\ task.op = "leave" /\ Spendable
    /\ unspent' = unspent \ {InForce}
    /\ leaving' = leaving \cup {InForce}
    /\ UNCHANGED <<records, left, history, board, hints, deleg, join, slips, misses>>
    /\ Lookup("load", NoRecord)

\* Nothing found, or not in a block yet, or not sent: the error is shown.
SpendRefused ==
    /\ Found /\ task.op \in {"move", "leave"}
    /\ task' = Idle
    /\ UNCHANGED <<recordVars, board, hints, deleg, join, slips, misses>>

Confirm(r) ==
    /\ r \in records /\ ~r.confirmed
    /\ records' = (records \ {r}) \cup {[r EXCEPT !.confirmed = TRUE]}
    /\ UNCHANGED <<unspent, leaving, left, history, board, hints, deleg, join, task, slips, misses>>

ConfirmLeave(id) ==
    /\ id \in leaving
    /\ leaving' = leaving \ {id} /\ left' = left \cup {id}
    /\ UNCHANGED <<records, unspent, history, board, hints, deleg, join, task, slips, misses>>

\* A pool comes onto the board or leaves it.
BoardChanges(s) ==
    /\ task.op = "none"
    /\ board' = IF s \in board THEN board \ {s} ELSE board \cup {s}
    /\ UNCHANGED <<recordVars, hints, deleg, join, task, slips, misses>>

\* The app is killed and the screen opened again: the hints are stored.
Reopen ==
    /\ deleg' = NoRecord /\ join' = NoRecord
    /\ UNCHANGED <<recordVars, board, hints, slips, misses>>
    /\ Lookup("load", NoRecord)

DelegNext ==
    \/ Load \/ BeginLeave \/ SendJoin \/ JoinFails
    \/ \E s \in Signers : BeginMove(s) \/ Probe(s) \/ ProbeFails(s) \/ ChooseJoin(s) \/ BoardChanges(s)
    \/ HistoryFails \/ CheckFails \/ Show
    \/ Move \/ Leave \/ SpendRefused
    \/ \E r \in records : Confirm(r)
    \/ \E id \in leaving : ConfirmLeave(id)
    \/ Reopen

DelegSpec == DelegInit /\ [][DelegNext]_delegVars

(***************************************************************************)
(* Properties.                                                             *)
(***************************************************************************)

\* While every request is answered, each lookup asks about the record there is, and no pool is joined before
\* the screen has looked or a leave is in its block, the chain never holds two live records of this wallet,
\* whatever it joins, moves and leaves: "consensus permits at most one live record per staking key"
\* (build_delegation_spend).
OneRecord == misses = 0 /\ slips = {} => Cardinality(LiveRecords) <= 1

\* A lookup in which no probe failed ends with the record in force when the wallet funded it or was asked
\* about its signer, also one that a move made, which the history cannot hold: "you can always leave".
FindsLive ==
    [][task.op = "load" /\ task'.op = "none" /\ misses' = misses /\ task.sure
       /\ (\E r \in records : r.id \in unspent /\ (r.id \in history \/ r.signer \in task.asked))
       => deleg' \in unspent]_delegVars
=============================================================================
