--------------------------- MODULE TradeListStore ---------------------------
(***************************************************************************)
(* The multi-record substrate every trade store of the wallet persists     *)
(* through (data/trade_slots.dart): a list of records in the phone's       *)
(* secure storage, mirrored to a plain file, with one-time adoption of the *)
(* record an older version kept in a single slot.                          *)
(*                                                                         *)
(* A record is abstracted to (id, content); the order of the list and the  *)
(* wording of its JSON are left out.  A list is a function from ids to     *)
(* contents, NoRec for an id that is not in it.  The code deletes a key    *)
(* instead of writing an empty list, so EmptyList is also "no such key".   *)
(*                                                                         *)
(* Every await of the code is a step of its own: between two of them the   *)
(* process may crash, a storage call may fail and the keystore may lose    *)
(* its content.                                                            *)
(***************************************************************************)
EXTENDS Naturals

CONSTANTS
    Client,   \* concurrent callers of one store: pollers, resumes, screens
    Id,       \* record ids
    Ver,      \* contents a record can have
    NoRec,    \* no record under this id / nothing under this key
    Garbled,  \* a legacy blob that does not decode
    NoId,     \* the legacy record of an old version carries no id
    Faults    \* which storage calls may fail, and whether a crash may happen

ASSUME StoreConstants ==
    /\ NoRec \notin Ver /\ Garbled \notin Ver /\ NoRec # Garbled
    /\ NoId \notin Id

VARIABLES
    secure,    \* the list under listKey in secure storage
    corrupt,   \* TRUE: what is under listKey is not a JSON array
    mirror,    \* the mirror file; a truncated file reads as no list
    legacy,    \* the blob under legacyKey
    legacyId,  \* the id the legacy record carries
    pc,        \* where each caller's operation stands
    op,        \* what it does: the ids it sets, and to which content
    buf,       \* the array it read and changed
    threw,     \* its secure-storage read threw
    possible,  \* (history) the contents a later read may return for an id
    behind,    \* (history) ids the mirror may not hold as acknowledged
    exposed,   \* (history) ids hit by storage faults no copy could cover
    adoptedAs  \* (history) ids the legacy record was written to the list under

disk    == <<secure, corrupt, mirror, legacy, legacyId>>
local   == <<pc, op, buf, threw>>
history == <<possible, behind, exposed, adoptedAs>>
vars    == <<disk, local, history>>

Kinds == {"read", "adopt", "put", "del", "wipe", "dropLegacy"}
Steps == {"idle", "readLegacy", "adoptName", "readList", "readMirror", "writeBack",
          "secureWrite", "mirrorWrite", "mirrorFlush", "secureDelete", "mirrorDelete",
          "legacyDelete"}

Rec       == Ver \cup {NoRec}
List      == [Id -> Rec]
EmptyList == [i \in Id |-> NoRec]
Op        == [kind : Kinds, ids : SUBSET Id, rec : Rec]
NoOp      == [kind |-> "read", ids |-> {}, rec |-> NoRec]

\* Ids two lists disagree about.
Differ(l, m) == {i \in Id : l[i] # m[i]}

\* What the next readAll that meets no fault would return.
Base == IF secure # EmptyList THEN secure ELSE mirror
View == [i \in Id |-> IF Base[i] # NoRec THEN Base[i]
                      ELSE IF legacy \in Ver /\ legacyId = i THEN legacy ELSE NoRec]

\* The legacy record, when it carries the id i and still waits for its adoption.
Waiting == IF legacy \in Ver THEN {legacyId} \cap Id ELSE {}

-----------------------------------------------------------------------------
Init ==
    /\ secure = EmptyList /\ mirror = EmptyList /\ corrupt = FALSE
    /\ legacy \in Rec \cup {Garbled}
    /\ legacyId \in IF legacy \in Ver THEN Id \cup {NoId} ELSE {NoId}
    /\ pc = [c \in Client |-> "idle"]
    /\ op = [c \in Client |-> NoOp]
    /\ buf = [c \in Client |-> EmptyList]
    /\ threw = [c \in Client |-> FALSE]
    /\ possible = [i \in Id |-> IF i = legacyId THEN {legacy} ELSE {NoRec}]
    /\ behind = {} /\ exposed = {} /\ adoptedAs = {}

Goto(c, s) == pc' = [pc EXCEPT ![c] = s]

\* The operation returns or throws; nothing of it stays in memory.
Finish(c) ==
    /\ Goto(c, "idle")
    /\ op' = [op EXCEPT ![c] = NoOp]
    /\ buf' = [buf EXCEPT ![c] = EmptyList]
    /\ threw' = [threw EXCEPT ![c] = FALSE]

Fail(c) == Finish(c) /\ UNCHANGED <<disk, history>>

\* _locked: an operation waits for every earlier operation of its store.
Serialised == \A d \in Client : pc[d] = "idle"

\* Mutant of Start: an operation waits for nobody.
StartUnlocked(c, kind, ids, rec, first) ==
    /\ pc[c] = "idle"
    /\ Goto(c, first)
    /\ op' = [op EXCEPT ![c] = [kind |-> kind, ids |-> ids, rec |-> rec]]
    /\ possible' = [i \in Id |-> possible[i] \cup IF i \in ids THEN {rec} ELSE {}]
    /\ UNCHANGED <<disk, buf, threw, behind, exposed, adoptedAs>>

Start(c, kind, ids, rec, first) ==
    /\ Serialised
    /\ Goto(c, first)
    /\ op' = [op EXCEPT ![c] = [kind |-> kind, ids |-> ids, rec |-> rec]]
    /\ possible' = [i \in Id |-> possible[i] \cup IF i \in ids THEN {rec} ELSE {}]
    /\ UNCHANGED <<disk, buf, threw, behind, exposed, adoptedAs>>

\* The caller was handed the record: an adopted id is not known before its list is read.
Known(i) == i \in Waiting => secure[i] # NoRec

ReadAll(c)     == Start(c, "read", {}, NoRec, "readLegacy")
Upsert(c)      == \E i \in Id, v \in Ver : Known(i) /\ Start(c, "put", {i}, v, "readList")
RemoveWhere(c) == \E ids \in SUBSET Id \ {{}} :
                      (\A i \in ids : Known(i)) /\ Start(c, "del", ids, NoRec, "readList")
\* The two user-warned recoveries are offered only for what does not decode.
WipeListBlob(c) == corrupt /\ Start(c, "wipe", Id, NoRec, "secureDelete")
DropLegacy(c)   == legacy = Garbled /\ Start(c, "dropLegacy", {}, NoRec, "legacyDelete")

-----------------------------------------------------------------------------
\* Mutant of ReadLegacy: any blob is taken for a record.
ReadLegacyAny(c) ==
    /\ pc[c] = "readLegacy"
    /\ legacy # NoRec
    /\ op' = [op EXCEPT ![c] = [kind |-> "adopt", ids |-> Waiting, rec |-> legacy]]
    /\ Goto(c, IF legacyId = NoId THEN "adoptName" ELSE "readList")
    /\ UNCHANGED <<disk, buf, threw, history>>

(* _readAllInner: the legacy key first. *)
ReadLegacy(c) ==
    /\ pc[c] = "readLegacy"
    /\ \/ /\ legacy \in Ver
          /\ op' = [op EXCEPT ![c] = [kind |-> "adopt", ids |-> Waiting, rec |-> legacy]]
          /\ Goto(c, IF legacyId = NoId THEN "adoptName" ELSE "readList")
       \/ /\ legacy \notin Ver \/ "secureRead" \in Faults
          /\ Goto(c, "readList") /\ UNCHANGED op
    /\ UNCHANGED <<disk, buf, threw, history>>

\* newTradeId: random, so no id in use.
Fresh(i) == possible[i] = {NoRec} /\ secure[i] = NoRec /\ mirror[i] = NoRec

\* Mutant of AdoptName: the new id is kept in memory only.
AdoptNameUnsaved(c) ==
    /\ pc[c] = "adoptName"
    /\ \E i \in Id :
        /\ Fresh(i)
        /\ op' = [op EXCEPT ![c].ids = {i}]
        /\ possible' = [possible EXCEPT ![i] = {op[c].rec}]
    /\ Goto(c, "readList")
    /\ UNCHANGED <<disk, buf, threw, behind, exposed, adoptedAs>>

(* _adoptInner (1): the blob is rewritten with its new id. *)
AdoptName(c) ==
    /\ pc[c] = "adoptName"
    /\ \E i \in Id :
        /\ Fresh(i)
        /\ legacy' = op[c].rec /\ legacyId' = i
        /\ op' = [op EXCEPT ![c].ids = {i}]
        /\ possible' = [possible EXCEPT ![i] = {op[c].rec}]
    /\ Goto(c, "readList")
    /\ UNCHANGED <<secure, corrupt, mirror, buf, threw, behind, exposed, adoptedAs>>

NameFails(c) == pc[c] = "adoptName" /\ "secureWrite" \in Faults /\ Fail(c)

\* What the operation makes of the array it read: an adoption leaves a list
\* that already has its id alone.
Changed(o, l) == [i \in Id |-> IF i \in o.ids THEN o.rec ELSE l[i]]
AlreadyIn(o, l) == \E i \in o.ids : l[i] # NoRec

Continue(c, l) ==
    LET o == op[c] IN
    \/ /\ o.kind = "read"
       /\ Finish(c)
    \/ /\ o.kind = "adopt" /\ AlreadyIn(o, l)
       /\ Goto(c, "legacyDelete") /\ UNCHANGED <<op, buf, threw>>
    \/ /\ o.kind \in {"put", "del"} \/ (o.kind = "adopt" /\ ~AlreadyIn(o, l))
       /\ buf' = [buf EXCEPT ![c] = Changed(o, l)]
       /\ Goto(c, IF Changed(o, l) = EmptyList THEN "secureDelete" ELSE "secureWrite")
       /\ UNCHANGED <<op, threw>>

(* _readListRawMirrored: secure storage is authoritative if it yields anything... *)
ReadSecure(c) ==
    /\ pc[c] = "readList" /\ ~corrupt /\ secure # EmptyList
    /\ Continue(c, secure)
    /\ UNCHANGED <<disk, history>>

\* Mutant of ReadCorrupt: what does not decode is an empty list.
ReadCorruptAsEmpty(c) ==
    /\ pc[c] = "readList" /\ corrupt
    /\ Continue(c, EmptyList)
    /\ UNCHANGED <<disk, history>>

\* ...even what does not decode: TradeListCorruptException.
ReadCorrupt(c) == pc[c] = "readList" /\ corrupt /\ Fail(c)

\* Nothing there, or the read threw: the mirror is consulted.
ReadNothing(c) ==
    /\ pc[c] = "readList"
    /\ \/ ~corrupt /\ secure = EmptyList /\ UNCHANGED threw
       \/ "secureRead" \in Faults /\ threw' = [threw EXCEPT ![c] = TRUE]
    /\ Goto(c, "readMirror")
    /\ UNCHANGED <<disk, op, buf, history>>

AdoptMirror(c) ==
    /\ pc[c] = "readMirror" /\ mirror # EmptyList
    /\ buf' = [buf EXCEPT ![c] = mirror]
    /\ Goto(c, "writeBack")
    /\ exposed' = exposed \cup behind
    /\ UNCHANGED <<disk, op, threw, possible, behind, adoptedAs>>

\* No rescue in the mirror (or it cannot be read): the read error propagates, or the
\* list is taken to be empty.
NoRescue(c) ==
    /\ pc[c] = "readMirror"
    /\ mirror = EmptyList \/ "mirrorRead" \in Faults
    /\ IF threw[c] THEN Finish(c) ELSE Continue(c, EmptyList)
    /\ exposed' = exposed \cup Differ(mirror, EmptyList)
    /\ UNCHANGED <<disk, possible, behind, adoptedAs>>

(* The adopted copy is written back, best-effort. *)
WriteBack(c) ==
    /\ pc[c] = "writeBack"
    /\ \/ secure' = buf[c] /\ corrupt' = FALSE
       \/ "secureWrite" \in Faults /\ UNCHANGED <<secure, corrupt>>
    /\ Continue(c, buf[c])
    /\ UNCHANGED <<mirror, legacy, legacyId, history>>

-----------------------------------------------------------------------------
\* Ids being removed that a legacy blob still carries: its read threw, so its adoption
\* was put off, and the next adoption brings the record back.
PutOff(c) == IF op[c].rec = NoRec THEN op[c].ids \cap Waiting ELSE {}

(* _writeList: secure storage first, then the mirror, whose failure is only logged. *)
SecureWrite(c) ==
    /\ pc[c] = "secureWrite"
    /\ secure' = buf[c] /\ corrupt' = FALSE
    /\ Goto(c, "mirrorWrite")
    /\ IF op[c].kind = "adopt"
       THEN adoptedAs' = adoptedAs \cup op[c].ids /\ behind' = behind \cup op[c].ids
       ELSE UNCHANGED <<adoptedAs, behind>>
    /\ exposed' = exposed \cup PutOff(c)
    /\ UNCHANGED <<mirror, legacy, legacyId, op, buf, threw, possible>>

SecureWriteFails(c) ==
    pc[c] \in {"secureWrite", "secureDelete", "legacyDelete"} /\ "secureWrite" \in Faults /\ Fail(c)

\* After a list write an adoption deletes the legacy key; the others have been
\* carried out and acknowledged.
Acknowledged(c, missing) ==
    /\ Finish(c)
    /\ possible' = [i \in Id |-> IF i \in op[c].ids THEN {op[c].rec} ELSE possible[i]]
    /\ exposed' = exposed \cup IF secure = EmptyList THEN missing ELSE {}

Written(c, missing) ==
    IF op[c].kind = "adopt"
    THEN /\ Goto(c, "legacyDelete")
         /\ exposed' = exposed \cup IF secure = EmptyList THEN missing ELSE {}
         /\ UNCHANGED <<op, buf, threw, possible>>
    ELSE Acknowledged(c, missing)

\* writeAsString truncates the file and then fills it.
MirrorTruncate(c) ==
    /\ pc[c] = "mirrorWrite"
    /\ mirror' = EmptyList
    /\ behind' = Id
    /\ exposed' = exposed \cup IF secure = EmptyList THEN Id ELSE {}
    /\ Goto(c, "mirrorFlush")
    /\ UNCHANGED <<secure, corrupt, legacy, legacyId, op, buf, threw, possible, adoptedAs>>

MirrorFlush(c) ==
    /\ pc[c] = "mirrorFlush"
    /\ mirror' = buf[c]
    /\ behind' = {}
    /\ Written(c, {})
    /\ UNCHANGED <<secure, corrupt, legacy, legacyId, adoptedAs>>

MirrorWriteFails(c) ==
    /\ pc[c] \in {"mirrorWrite", "mirrorFlush"} /\ "mirrorWrite" \in Faults
    /\ behind' = behind \cup Differ(mirror, buf[c])
    /\ Written(c, behind')
    /\ UNCHANGED <<disk, adoptedAs>>

(* _deleteList, the same two targets in the same order. *)
SecureDelete(c) ==
    /\ pc[c] = "secureDelete"
    /\ secure' = EmptyList /\ corrupt' = FALSE
    /\ exposed' = exposed \cup behind \cup PutOff(c)
    /\ Goto(c, "mirrorDelete")
    /\ UNCHANGED <<mirror, legacy, legacyId, op, buf, threw, possible, behind, adoptedAs>>

MirrorDelete(c) ==
    /\ pc[c] = "mirrorDelete"
    /\ mirror' = EmptyList
    /\ behind' = {}
    /\ Acknowledged(c, {})
    /\ UNCHANGED <<secure, corrupt, legacy, legacyId, adoptedAs>>

MirrorDeleteFails(c) ==
    /\ pc[c] = "mirrorDelete" /\ "mirrorWrite" \in Faults
    /\ behind' = behind \cup Differ(mirror, EmptyList)
    /\ Acknowledged(c, behind')
    /\ UNCHANGED <<disk, adoptedAs>>

(* _adoptInner (3), then readAll goes on to the list; also deleteLegacyBlob. *)
LegacyDelete(c) ==
    /\ pc[c] = "legacyDelete"
    /\ legacy' = NoRec
    /\ IF op[c].kind = "adopt"
       THEN /\ Goto(c, "readList")
            /\ op' = [op EXCEPT ![c] = NoOp]
            /\ buf' = [buf EXCEPT ![c] = EmptyList]
            /\ threw' = [threw EXCEPT ![c] = FALSE]
       ELSE Finish(c)
    /\ UNCHANGED <<secure, corrupt, mirror, legacyId, history>>

-----------------------------------------------------------------------------
(* The environment. *)
Crash ==
    /\ "crash" \in Faults /\ ~Serialised
    /\ pc' = [c \in Client |-> "idle"]
    /\ op' = [c \in Client |-> NoOp]
    /\ buf' = [c \in Client |-> EmptyList]
    /\ threw' = [c \in Client |-> FALSE]
    /\ UNCHANGED <<disk, history>>

\* Keystore invalidation: secure storage answers as if it held nothing.
KeystoreLoss ==
    /\ "keystore" \in Faults
    /\ secure # EmptyList \/ corrupt \/ legacy # NoRec
    /\ secure' = EmptyList /\ corrupt' = FALSE /\ legacy' = NoRec
    /\ exposed' = exposed \cup behind \cup Waiting
    /\ UNCHANGED <<mirror, legacyId, local, possible, behind, adoptedAs>>

\* The blob under listKey stops decoding while no operation runs.
Corruption ==
    /\ "corrupt" \in Faults /\ Serialised /\ secure # EmptyList
    /\ corrupt' = TRUE /\ secure' = EmptyList
    /\ UNCHANGED <<mirror, legacy, legacyId, local, history>>

Step(c) ==
    \/ ReadAll(c) \/ Upsert(c) \/ RemoveWhere(c) \/ WipeListBlob(c) \/ DropLegacy(c)
    \/ ReadLegacy(c) \/ AdoptName(c) \/ NameFails(c)
    \/ ReadSecure(c) \/ ReadCorrupt(c) \/ ReadNothing(c)
    \/ AdoptMirror(c) \/ NoRescue(c) \/ WriteBack(c)
    \/ SecureWrite(c) \/ SecureWriteFails(c)
    \/ MirrorTruncate(c) \/ MirrorFlush(c) \/ MirrorWriteFails(c)
    \/ SecureDelete(c) \/ MirrorDelete(c) \/ MirrorDeleteFails(c)
    \/ LegacyDelete(c)

Next == (\E c \in Client : Step(c)) \/ Crash \/ KeystoreLoss \/ Corruption

Spec == Init /\ [][Next]_vars

-----------------------------------------------------------------------------
(* What the store promises. *)

TypeOK ==
    /\ secure \in List /\ mirror \in List /\ corrupt \in BOOLEAN
    /\ legacy \in Rec \cup {Garbled} /\ legacyId \in Id \cup {NoId}
    /\ pc \in [Client -> Steps] /\ op \in [Client -> Op]
    /\ buf \in [Client -> List] /\ threw \in [Client -> BOOLEAN]
    /\ possible \in [Id -> SUBSET Rec]
    /\ behind \in SUBSET Id /\ exposed \in SUBSET Id /\ adoptedAs \in SUBSET Id

\* A record is what its last acknowledged save or removal made it, or what an
\* operation that never returned was making of it: no crash at any await, no
\* other record's write and no keystore loss changes it, unless the keystore
\* failed while a mirror call had failed or was half done (exposed).
Durable == ~corrupt => \A i \in Id \ exposed : View[i] \in possible[i]

\* The legacy record enters the list under one id only, however often the
\* adoption is cut off and run again (the id is written into the blob first).
AdoptedOnce == \A i, j \in adoptedAs : i = j

\* A list that does not decode, perhaps the only copy of reclaim material, stays in
\* place until the user wipes it, the keystore drops it or reading it throws.
CorruptPreserved ==
    [][corrupt /\ ~corrupt' =>
         \/ KeystoreLoss
         \/ \E c \in Client : op[c].kind = "wipe" \/ threw[c]]_vars

\* What a mutation is about to write over the mirror keeps every live record the
\* mirror holds (_readArrOrEmpty: "Mirror-backed like [readAll] so a mutation on a
\* keystore-nulled store can never clobber the mirror's live records").
MirrorNeverClobbered ==
    \A c \in Client : pc[c] = "mirrorWrite" =>
        \A i \in Id \ op[c].ids :
            mirror[i] # NoRec /\ NoRec \notin possible[i] => buf[c][i] # NoRec
=============================================================================
