------------------------ MODULE TradeListStore_proofs ------------------------
(***************************************************************************)
(* What the trade list store promises holds for every set of callers, ids  *)
(* and contents and every choice of faults.                                *)
(***************************************************************************)
EXTENDS TradeListStore, TLAPS

\* What a list l and the waiting legacy record say of i is something a read may return.
Overlay(l, i) == IF l[i] # NoRec THEN l[i] ELSE IF i \in Waiting THEN legacy ELSE NoRec
Good(l, i) == Overlay(l, i) \in possible[i]

\* One operation at a time, and what it is at each step.
Exclusive == \A c, d \in Client : pc[c] # "idle" /\ pc[d] # "idle" => c = d

ShapeOf(c) ==
    /\ pc[c] = "adoptName" => op[c].kind = "adopt" /\ op[c].ids = {} /\ legacyId = NoId
    /\ op[c].kind = "adopt" => op[c].rec \in Ver
    /\ op[c].kind = "adopt" /\ pc[c] # "adoptName" => legacyId \in Id /\ op[c].ids = {legacyId}
    /\ op[c].kind \in {"read", "dropLegacy"} => op[c].ids = {}
    /\ pc[c] = "idle" => op[c] = NoOp
    /\ pc[c] = "readLegacy" => op[c].kind = "read"
    /\ op[c].kind = "put" => op[c].rec \in Ver /\ op[c].ids # {}
    /\ pc[c] \in {"secureWrite", "mirrorWrite", "mirrorFlush"} =>
           op[c].kind \in {"adopt", "put", "del"} /\ buf[c] # EmptyList
    /\ pc[c] \in {"secureDelete", "mirrorDelete"} => op[c].rec = NoRec
    /\ op[c].kind \in {"del", "wipe"} => op[c].rec = NoRec
    /\ pc[c] = "legacyDelete" => op[c].kind \in {"adopt", "dropLegacy"}
    /\ op[c].kind = "dropLegacy" => pc[c] = "legacyDelete" /\ legacy \notin Ver
    /\ pc[c] = "writeBack" => buf[c] # EmptyList
    /\ pc[c] \in {"mirrorWrite", "mirrorFlush", "mirrorDelete"} => ~corrupt
    /\ pc[c] \in {"mirrorWrite", "mirrorFlush"} =>
           secure = buf[c] \/ (secure = EmptyList /\ legacy = NoRec)
    /\ pc[c] = "mirrorDelete" => secure = EmptyList

Shape == \A c \in Client : ShapeOf(c)

Copies ==
    /\ corrupt => secure = EmptyList
    /\ \A i \in Id \ exposed :
        /\ ~corrupt => Good(Base, i)
        /\ i \notin behind => Good(mirror, i)

\* An id in the list whose legacy blob is still there is in the mirror or marked behind.
Adopting ==
    /\ adoptedAs \subseteq {legacyId}
    /\ \A i \in Waiting \ exposed :
        /\ secure[i] # NoRec => mirror[i] # NoRec \/ i \in behind
        /\ mirror[i] # NoRec /\ ~corrupt /\ secure # EmptyList => secure[i] # NoRec

InFlightOf(c) ==
    /\ op[c].kind \in {"put", "del", "wipe"} \/ pc[c] \in {"secureWrite", "mirrorWrite", "mirrorFlush"} =>
           \A i \in op[c].ids \ exposed : op[c].rec \in possible[i]
    /\ op[c].kind = "adopt" => legacy = op[c].rec \/ op[c].ids \subseteq exposed
    /\ pc[c] = "readMirror" /\ ~threw[c] => secure = EmptyList /\ ~corrupt
    /\ pc[c] \in {"secureWrite", "mirrorWrite", "mirrorFlush"} =>
           \A i \in Id \ exposed : Good(buf[c], i) \/ i \in PutOff(c)
    /\ pc[c] = "writeBack" =>
           \A i \in Id \ exposed : Good(buf[c], i) /\ mirror[i] = buf[c][i]
    /\ pc[c] \in {"secureWrite", "mirrorWrite", "mirrorFlush"} =>
           \A i \in op[c].ids : buf[c][i] = op[c].rec
    /\ pc[c] \in {"secureDelete", "mirrorDelete"} =>
           \A i \in Id \ exposed : Good(EmptyList, i) \/ i \in PutOff(c)
    /\ pc[c] \in {"mirrorWrite", "mirrorFlush", "mirrorDelete"} => PutOff(c) \subseteq exposed
    /\ pc[c] = "secureWrite" =>
           \A i \in Waiting \ exposed :
               /\ mirror[i] # NoRec /\ i \notin op[c].ids => buf[c][i] # NoRec
               /\ buf[c][i] # NoRec /\ i \notin op[c].ids => mirror[i] # NoRec \/ i \in behind
    /\ op[c].kind = "put" => \A i \in op[c].ids \cap Waiting : i \in exposed \/ mirror[i] # NoRec \/ i \in behind
    /\ pc[c] = "legacyDelete" /\ op[c].kind = "adopt" =>
           \A i \in Waiting \ exposed :
               /\ ~corrupt /\ secure # EmptyList => secure[i] # NoRec
               /\ secure = EmptyList \/ corrupt => mirror[i] # NoRec
               /\ mirror[i] # NoRec \/ i \in behind

InFlight == \A c \in Client : InFlightOf(c)

IInv == TypeOK /\ Exclusive /\ Shape /\ Copies /\ Adopting /\ InFlight

-----------------------------------------------------------------------------
(* Type correctness. *)

\* The empty list is a list.
LEMMA EmptyListType == EmptyList \in List
  BY DEF EmptyList, List, Rec

\* The absence of an operation is an operation value.
LEMMA NoOpType == NoOp \in Op
  BY DEF NoOp, Op, Kinds, Rec

LocalType ==
    /\ pc \in [Client -> Steps] /\ op \in [Client -> Op]
    /\ buf \in [Client -> List] /\ threw \in [Client -> BOOLEAN]

\* Starting an operation keeps the types.
LEMMA TypeStart ==
  ASSUME TypeOK, NEW c \in Client, NEW kind \in Kinds, NEW ids \in SUBSET Id, NEW rec \in Rec,
         NEW first \in Steps, Start(c, kind, ids, rec, first)
  PROVE  TypeOK'
<1>1. [kind |-> kind, ids |-> ids, rec |-> rec] \in Op
  BY DEF Op
<1>2. LocalType'
  BY <1>1 DEF Start, Goto, TypeOK, LocalType
<1>3. possible' \in [Id -> SUBSET Rec]
  BY DEF Start, TypeOK
<1> QED
  BY <1>2, <1>3 DEF Start, TypeOK, LocalType, disk

\* An operation that returns keeps the types.
LEMMA TypeFinish ==
  ASSUME TypeOK, NEW c \in Client, Finish(c)
  PROVE  LocalType'
  BY EmptyListType, NoOpType DEF Finish, Goto, TypeOK, LocalType, Steps

\* An operation that throws keeps the types.
LEMMA TypeFail ==
  ASSUME TypeOK, NEW c \in Client, Fail(c)
  PROVE  TypeOK'
  BY TypeFinish DEF Fail, TypeOK, LocalType, disk, history

\* Moving a caller to its next await keeps the types.
LEMMA TypeGoto ==
  ASSUME TypeOK, NEW c \in Client, NEW s \in Steps, Goto(c, s)
  PROVE  pc' \in [Client -> Steps]
  BY DEF Goto, TypeOK

\* The list with one record saved or removed is a list.
LEMMA TypeChanged ==
  ASSUME NEW o \in Op, NEW l \in List
  PROVE  Changed(o, l) \in List
  BY DEF Changed, Op, List

\* Where a read goes on to is a step of an operation.
LEMMA TypeContinue ==
  ASSUME TypeOK, NEW c \in Client, NEW l \in List, Continue(c, l)
  PROVE  LocalType'
<1>1. op[c] \in Op
  BY DEF TypeOK
<1>2. CASE Finish(c)
  BY <1>2, TypeFinish
<1>3. CASE Goto(c, "legacyDelete") /\ UNCHANGED <<op, buf, threw>>
  BY <1>3 DEF Goto, TypeOK, LocalType, Steps
<1>4. CASE /\ buf' = [buf EXCEPT ![c] = Changed(op[c], l)]
           /\ Goto(c, IF Changed(op[c], l) = EmptyList THEN "secureDelete" ELSE "secureWrite")
           /\ UNCHANGED <<op, threw>>
  <2>1. Changed(op[c], l) \in List
    BY <1>1, TypeChanged
  <2> QED
    BY <1>4, <2>1 DEF Goto, TypeOK, LocalType, Steps
<1> QED
  BY <1>2, <1>3, <1>4 DEF Continue

\* What has been acknowledged is updated to a value of its type.
LEMMA TypeAcknowledged ==
  ASSUME TypeOK, NEW c \in Client, NEW missing \in SUBSET Id, Acknowledged(c, missing)
  PROVE  LocalType' /\ possible' \in [Id -> SUBSET Rec] /\ exposed' \in SUBSET Id
<1>1. op[c] \in Op
  BY DEF TypeOK
<1>2. possible' \in [Id -> SUBSET Rec]
  BY <1>1 DEF Acknowledged, TypeOK, Op
<1> QED
  BY <1>2, TypeFinish DEF Acknowledged, TypeOK

\* A write that has reached the disk keeps the types.
LEMMA TypeWritten ==
  ASSUME TypeOK, NEW c \in Client, NEW missing \in SUBSET Id, Written(c, missing)
  PROVE  LocalType' /\ possible' \in [Id -> SUBSET Rec] /\ exposed' \in SUBSET Id
<1>1. CASE op[c].kind = "adopt"
  BY <1>1, TypeGoto DEF Written, TypeOK, LocalType, Steps
<1>2. CASE op[c].kind # "adopt"
  BY <1>2, TypeAcknowledged DEF Written
<1> QED
  BY <1>1, <1>2

\* Every step of a caller keeps the types.
LEMMA TypeStep ==
  ASSUME TypeOK, NEW c \in Client, Step(c)
  PROVE  TypeOK'
<1>1. CASE ReadAll(c)
  BY <1>1, TypeStart DEF ReadAll, Kinds, Steps, Rec
<1>2. CASE Upsert(c)
  BY <1>2, TypeStart DEF Upsert, Kinds, Steps, Rec
<1>3. CASE RemoveWhere(c)
  BY <1>3, TypeStart DEF RemoveWhere, Kinds, Steps, Rec
<1>4. CASE WipeListBlob(c)
  BY <1>4, TypeStart DEF WipeListBlob, Kinds, Steps, Rec
<1>5. CASE DropLegacy(c)
  BY <1>5, TypeStart DEF DropLegacy, Kinds, Steps, Rec
<1>6. CASE ReadLegacy(c)
  <2>1. legacy \in Ver => [kind |-> "adopt", ids |-> Waiting, rec |-> legacy] \in Op
    BY DEF Op, Kinds, Rec, Waiting
  <2>2. pc' \in [Client -> Steps]
    BY <1>6 DEF ReadLegacy, Goto, TypeOK, Steps
  <2>3. op' \in [Client -> Op]
    BY <1>6, <2>1 DEF ReadLegacy, TypeOK
  <2> QED
    BY <1>6, <2>2, <2>3 DEF ReadLegacy, TypeOK, disk, history
<1>7. CASE AdoptName(c)
  <2>1. op[c] \in Op
    BY DEF TypeOK
  <2>2. pc' \in [Client -> Steps]
    BY <1>7 DEF AdoptName, Goto, TypeOK, Steps
  <2>3. op' \in [Client -> Op]
    BY <1>7, <2>1 DEF AdoptName, TypeOK, Op
  <2>4. possible' \in [Id -> SUBSET Rec]
    BY <1>7, <2>1 DEF AdoptName, TypeOK, Op
  <2>5. legacy' \in Rec /\ legacyId' \in Id
    BY <1>7, <2>1 DEF AdoptName, Op
  <2> QED
    BY <1>7, <2>2, <2>3, <2>4, <2>5 DEF AdoptName, TypeOK
<1>8. CASE NameFails(c)
  BY <1>8, TypeFail DEF NameFails
<1>9. CASE ReadSecure(c)
  <2>1. LocalType'
    BY <1>9, TypeContinue DEF ReadSecure, TypeOK
  <2> QED
    BY <1>9, <2>1 DEF ReadSecure, TypeOK, LocalType, disk, history
<1>10. CASE ReadCorrupt(c)
  BY <1>10, TypeFail DEF ReadCorrupt
<1>11. CASE ReadNothing(c)
  BY <1>11 DEF ReadNothing, Goto, Steps, TypeOK, disk, history
<1>12. CASE AdoptMirror(c)
  BY <1>12 DEF AdoptMirror, Goto, Steps, TypeOK, disk
<1>13. CASE NoRescue(c)
  <2>1. LocalType'
    BY <1>13, TypeContinue, TypeFinish, EmptyListType DEF NoRescue
  <2> QED
    BY <1>13, <2>1 DEF NoRescue, Differ, TypeOK, LocalType, disk
<1>14. CASE WriteBack(c)
  <2>1. buf[c] \in List
    BY DEF TypeOK
  <2>2. LocalType'
    BY <1>14, <2>1, TypeContinue DEF WriteBack
  <2> QED
    BY <1>14, <2>1, <2>2 DEF WriteBack, TypeOK, LocalType, history
<1>15. CASE SecureWrite(c)
  <2>1. op[c] \in Op /\ buf[c] \in List
    BY DEF TypeOK
  <2>2. pc' \in [Client -> Steps]
    BY <1>15 DEF SecureWrite, Goto, TypeOK, Steps
  <2> QED
    BY <1>15, <2>1, <2>2 DEF SecureWrite, PutOff, TypeOK, Op
<1>16. CASE SecureWriteFails(c)
  BY <1>16, TypeFail DEF SecureWriteFails
<1>17. CASE MirrorTruncate(c)
  BY <1>17, EmptyListType DEF MirrorTruncate, Goto, Steps, TypeOK
<1>18. CASE MirrorFlush(c)
  <2>1. LocalType' /\ possible' \in [Id -> SUBSET Rec] /\ exposed' \in SUBSET Id
    BY <1>18, TypeWritten DEF MirrorFlush
  <2> QED
    BY <1>18, <2>1 DEF MirrorFlush, TypeOK, LocalType
<1>19. CASE MirrorWriteFails(c)
  <2>1. behind' \in SUBSET Id
    BY <1>19 DEF MirrorWriteFails, Differ, TypeOK
  <2>2. LocalType' /\ possible' \in [Id -> SUBSET Rec] /\ exposed' \in SUBSET Id
    BY <1>19, <2>1, TypeWritten DEF MirrorWriteFails
  <2> QED
    BY <1>19, <2>1, <2>2 DEF MirrorWriteFails, TypeOK, LocalType, disk
<1>20. CASE SecureDelete(c)
  <2>1. op[c] \in Op
    BY DEF TypeOK
  <2>2. pc' \in [Client -> Steps]
    BY <1>20 DEF SecureDelete, Goto, TypeOK, Steps
  <2> QED
    BY <1>20, <2>1, <2>2, EmptyListType DEF SecureDelete, PutOff, TypeOK, Op
<1>21. CASE MirrorDelete(c)
  <2>1. LocalType' /\ possible' \in [Id -> SUBSET Rec] /\ exposed' \in SUBSET Id
    BY <1>21, TypeAcknowledged DEF MirrorDelete
  <2> QED
    BY <1>21, <2>1, EmptyListType DEF MirrorDelete, TypeOK, LocalType
<1>22. CASE MirrorDeleteFails(c)
  <2>1. behind' \in SUBSET Id
    BY <1>22 DEF MirrorDeleteFails, Differ, TypeOK
  <2>2. LocalType' /\ possible' \in [Id -> SUBSET Rec] /\ exposed' \in SUBSET Id
    BY <1>22, <2>1, TypeAcknowledged DEF MirrorDeleteFails
  <2> QED
    BY <1>22, <2>1, <2>2 DEF MirrorDeleteFails, TypeOK, LocalType, disk
<1>23. CASE LegacyDelete(c)
  <2>1. LocalType'
    <3>1. CASE op[c].kind = "adopt"
      BY <1>23, <3>1, EmptyListType, NoOpType DEF LegacyDelete, Goto, Steps, TypeOK, LocalType
    <3>2. CASE op[c].kind # "adopt"
      BY <1>23, <3>2, TypeFinish DEF LegacyDelete
    <3> QED
      BY <3>1, <3>2
  <2> QED
    BY <1>23, <2>1 DEF LegacyDelete, TypeOK, LocalType, Rec, history
<1> QED
  BY <1>1, <1>2, <1>3, <1>4, <1>5, <1>6, <1>7, <1>8, <1>9, <1>10, <1>11, <1>12, <1>13, <1>14,
     <1>15, <1>16, <1>17, <1>18, <1>19, <1>20, <1>21, <1>22, <1>23 DEF Step

\* The initial state is well typed.
LEMMA TypeInit == Init => TypeOK
<1> SUFFICES ASSUME Init PROVE TypeOK
  OBVIOUS
<1>1. legacyId \in Id \cup {NoId} /\ (legacyId \in Id => legacy \in Ver)
  BY StoreConstants DEF Init
<1>2. possible \in [Id -> SUBSET Rec]
  BY <1>1 DEF Init, Rec
<1> QED
  BY <1>1, <1>2, EmptyListType, NoOpType DEF Init, TypeOK, Steps, Rec

\* Every step of the store keeps the types.
LEMMA TypeNext == TypeOK /\ [Next]_vars => TypeOK'
<1> SUFFICES ASSUME TypeOK, [Next]_vars PROVE TypeOK'
  OBVIOUS
<1>1. CASE \E c \in Client : Step(c)
  BY <1>1, TypeStep
<1>2. CASE Crash
  BY <1>2, EmptyListType, NoOpType DEF Crash, TypeOK, Steps, disk, history
<1>3. CASE KeystoreLoss
  BY <1>3, EmptyListType DEF KeystoreLoss, TypeOK, Rec, Waiting, local
<1>4. CASE Corruption
  BY <1>4, EmptyListType DEF Corruption, TypeOK, local, history
<1>5. CASE UNCHANGED vars
  BY <1>5 DEF vars, disk, local, history, TypeOK
<1> QED
  BY <1>1, <1>2, <1>3, <1>4, <1>5 DEF Next

\* Every reachable state is well typed.
THEOREM TypeCorrect == Spec => []TypeOK
  BY TypeInit, TypeNext, PTL DEF Spec

-----------------------------------------------------------------------------
(* The inductive invariant. *)

Idle(d) == pc[d] = "idle" /\ op[d] = NoOp

\* A step of the only caller with an operation under way is about that caller alone.
LEMMA OneCaller ==
  ASSUME TypeOK', Exclusive, Shape, NEW c \in Client, Serialised \/ pc[c] # "idle",
         \A d \in Client \ {c} : pc'[d] = pc[d] /\ op'[d] = op[d],
         ShapeOf(c)', InFlightOf(c)'
  PROVE  Exclusive' /\ Shape' /\ InFlight'
<1>1. \A d \in Client \ {c} : Idle(d)'
  BY DEF Serialised, Exclusive, Shape, ShapeOf, Idle
<1>2. \A d \in Client \ {c} : ShapeOf(d)' /\ InFlightOf(d)'
  BY <1>1 DEF Idle, NoOp, ShapeOf, InFlightOf
<1> QED
  BY <1>1, <1>2 DEF Exclusive, Shape, InFlight, Idle

\* A new operation.
LEMMA StartKeeps ==
  ASSUME IInv, NEW c \in Client, NEW kind \in Kinds, NEW ids \in SUBSET Id, NEW rec \in Rec,
         NEW first \in Steps, Start(c, kind, ids, rec, first),
         \/ kind = "read" /\ ids = {} /\ first = "readLegacy"
         \/ kind = "put" /\ rec \in Ver /\ ids # {} /\ first = "readList" /\ \A i \in ids : Known(i)
         \/ kind = "del" /\ rec = NoRec /\ first = "readList"
         \/ kind = "wipe" /\ ids = Id /\ rec = NoRec /\ first = "secureDelete"
         \/ kind = "dropLegacy" /\ ids = {} /\ first = "legacyDelete" /\ legacy = Garbled
  PROVE  IInv'
<1>1. TypeOK'
  BY TypeStart DEF IInv
<1>2. /\ pc'[c] = first /\ op'[c] = [kind |-> kind, ids |-> ids, rec |-> rec]
      /\ \A d \in Client \ {c} : pc'[d] = pc[d] /\ op'[d] = op[d]
      /\ UNCHANGED <<secure, corrupt, mirror, legacy, legacyId, buf, threw, behind, exposed, adoptedAs>>
      /\ \A i \in Id : possible[i] \subseteq possible'[i] /\ (i \in ids => rec \in possible'[i])
  BY DEF Start, Goto, IInv, TypeOK, disk
<1>3. Waiting' = Waiting /\ Base' = Base
  BY <1>2 DEF Waiting, Base
<1>4. \A l \in List, i \in Id : Good(l, i) => Good(l, i)'
  BY <1>2, <1>3 DEF Good, Overlay
<1>5. Copies' /\ Adopting'
  <2>1. Base \in List /\ mirror \in List
    BY DEF IInv, TypeOK, Base
  <2>2. Copies'
    BY <1>2, <1>3, <1>4, <2>1 DEF Copies, IInv, Good, Overlay
  <2> QED
    BY <1>2, <1>3, <2>2 DEF Adopting, IInv
<1>6. ShapeOf(c)'
  BY <1>2, StoreConstants DEF ShapeOf
<1>7. InFlightOf(c)'
  BY <1>2, <1>3, StoreConstants DEF InFlightOf, PutOff, Known, Adopting, IInv, Good, Overlay, EmptyList
<1>8. Serialised
  BY DEF Start
<1> QED
  BY <1>1, <1>2, <1>5, <1>6, <1>7, <1>8, OneCaller DEF IInv

\* An operation that returns keeps the invariant.
LEMMA FinishKeeps ==
  ASSUME TypeOK, NEW c \in Client, Finish(c)
  PROVE  /\ ShapeOf(c)' /\ InFlightOf(c)'
         /\ \A d \in Client \ {c} : pc'[d] = pc[d] /\ op'[d] = op[d]
<1>1. Idle(c)'
  BY DEF Finish, Goto, TypeOK, Idle
<1>2. \A d \in Client \ {c} : pc'[d] = pc[d] /\ op'[d] = op[d]
  BY DEF Finish, Goto, TypeOK
<1> QED
  BY <1>1, <1>2 DEF Idle, NoOp, ShapeOf, InFlightOf

\* An operation that throws keeps the invariant.
LEMMA FailKeeps ==
  ASSUME IInv, NEW c \in Client, pc[c] # "idle", Fail(c)
  PROVE  IInv'
<1>1. TypeOK'
  BY TypeFail DEF IInv
<1>2. Waiting' = Waiting /\ Base' = Base
  BY DEF Fail, Waiting, Base, disk
<1>3. Copies' /\ Adopting'
  BY <1>2 DEF Fail, Copies, Adopting, IInv, Good, Overlay, disk, history
<1> QED
  BY <1>1, <1>3, FinishKeeps, OneCaller DEF Fail, IInv

\* What an operation does with a list it read, when the list agrees with the copies.
LEMMA ContinueKeeps ==
  ASSUME IInv, NEW c \in Client, NEW l \in List, Continue(c, l),
         pc[c] \in {"readList", "readMirror", "writeBack"},
         UNCHANGED <<mirror, legacy, legacyId, possible, behind>>, exposed \subseteq exposed',
         \A i \in Id \ exposed' : Good(l, i),
         \A i \in Waiting \ exposed' :
             /\ mirror[i] # NoRec => l[i] # NoRec
             /\ l[i] # NoRec => mirror[i] # NoRec \/ i \in behind
             /\ l[i] # NoRec /\ ~corrupt' /\ secure' # EmptyList => secure'[i] # NoRec
             /\ l[i] # NoRec /\ (secure' = EmptyList \/ corrupt') => mirror[i] # NoRec
  PROVE  /\ ShapeOf(c)' /\ InFlightOf(c)'
         /\ \A d \in Client \ {c} : pc'[d] = pc[d] /\ op'[d] = op[d]
<1> DEFINE o == op[c]
<1>1. o \in Op /\ ShapeOf(c) /\ InFlightOf(c) /\ TypeOK
  BY DEF IInv, TypeOK, Shape, InFlight
<1>2. CASE Finish(c)
  BY <1>1, <1>2, FinishKeeps
<1>3. CASE o.kind = "adopt" /\ AlreadyIn(o, l) /\ Goto(c, "legacyDelete") /\ UNCHANGED <<op, buf, threw>>
  <2>1. pc'[c] = "legacyDelete" /\ op'[c] = o /\ \A d \in Client \ {c} : pc'[d] = pc[d] /\ op'[d] = op[d]
    BY <1>3 DEF Goto, IInv, TypeOK
  <2>2. o.ids = {legacyId} /\ legacyId \in Id /\ l[legacyId] # NoRec /\ o.rec \in Ver
    BY <1>1, <1>3 DEF ShapeOf, AlreadyIn
  <2>3. Waiting' = Waiting /\ Waiting \subseteq {legacyId}
    BY DEF Waiting
  <2>4. ShapeOf(c)'
    BY <1>3, <2>1, <2>2 DEF ShapeOf
  <2>5. InFlightOf(c)'
    BY <1>1, <1>3, <2>1, <2>2, <2>3 DEF InFlightOf
  <2> QED
    BY <2>1, <2>4, <2>5
<1>4. CASE /\ o.kind \in {"put", "del"} \/ (o.kind = "adopt" /\ ~AlreadyIn(o, l))
           /\ buf' = [buf EXCEPT ![c] = Changed(o, l)]
           /\ Goto(c, IF Changed(o, l) = EmptyList THEN "secureDelete" ELSE "secureWrite")
           /\ UNCHANGED <<op, threw>>
  <2> DEFINE m == Changed(o, l)
  <2>1. /\ pc'[c] = IF m = EmptyList THEN "secureDelete" ELSE "secureWrite"
        /\ op'[c] = o /\ buf'[c] = m
        /\ \A d \in Client \ {c} : pc'[d] = pc[d] /\ op'[d] = op[d]
    BY <1>4 DEF Goto, IInv, TypeOK
  <2>2. m \in List /\ \A i \in Id : m[i] = IF i \in o.ids THEN o.rec ELSE l[i]
    BY <1>1, TypeChanged DEF Changed
  <2>3. Waiting' = Waiting /\ Waiting \subseteq {legacyId} \cap Id /\ PutOff(c)' = PutOff(c)
    BY <1>4 DEF Waiting, PutOff
  <2>4. m = EmptyList => o.rec = NoRec
    <3> SUFFICES ASSUME m = EmptyList, o.rec # NoRec PROVE FALSE
      OBVIOUS
    <3>0. o.kind = "del" => o.rec = NoRec
      BY <1>1 DEF ShapeOf
    <3>1. PICK i \in o.ids : i \in Id
      <4>1. o.ids # {} /\ o.ids \subseteq Id
        BY <1>1, <1>4, <3>0 DEF Op, ShapeOf
      <4> QED
        BY <4>1
    <3> QED
      BY <2>2, <3>1 DEF EmptyList
  <2>5. \A i \in o.ids \ exposed' : o.rec \in possible[i]
    BY <1>1, <1>4, StoreConstants DEF InFlightOf, ShapeOf, Good, Overlay, Waiting, AlreadyIn
  <2>6. \A i \in Id \ exposed' : Good(buf[c], i)' \/ i \in PutOff(c)'
    BY <2>1, <2>2, <2>3, <2>5 DEF Good, Overlay, PutOff
  <2>7. ShapeOf(c)'
    BY <1>1, <1>4, <2>1, <2>2, <2>4 DEF ShapeOf
  <2>8. InFlightOf(c)'
    <3>1. m = EmptyList => \A i \in Id \ exposed' : Good(EmptyList, i)' \/ i \in PutOff(c)'
      BY <2>1, <2>6 DEF Good, Overlay
    <3>2. \A i \in Waiting' \ exposed' :
              /\ mirror'[i] # NoRec /\ i \notin o.ids => m[i] # NoRec
              /\ m[i] # NoRec /\ i \notin o.ids => mirror'[i] # NoRec \/ i \in behind'
      BY <2>2, <2>3
    <3>3. o.kind = "adopt" => legacy' = o.rec \/ o.ids \subseteq exposed'
      <4>1. o.kind = "adopt" => legacy = o.rec \/ o.ids \subseteq exposed
        BY <1>1 DEF InFlightOf
      <4> QED
        BY <4>1
    <3>4. o.kind = "put" => \A i \in o.ids \cap Waiting' : i \in exposed' \/ mirror'[i] # NoRec \/ i \in behind'
      <4>1. o.kind = "put" => \A i \in o.ids \cap Waiting : i \in exposed \/ mirror[i] # NoRec \/ i \in behind
        BY <1>1 DEF InFlightOf
      <4> QED
        BY <4>1, <2>3
    <3>5. o.kind # "wipe" /\ pc'[c] \in {"secureWrite", "secureDelete"} /\ o.ids \subseteq Id
      BY <1>1, <1>4, <2>1 DEF Op
    <3> QED
      BY <2>1, <2>2, <2>3, <2>5, <2>6, <3>1, <3>2, <3>3, <3>4, <3>5 DEF InFlightOf
  <2> QED
    BY <2>1, <2>7, <2>8
<1> QED
  BY <1>2, <1>3, <1>4 DEF Continue

\* A step by the caller c that keeps what no caller owns.
LEMMA StepKeeps ==
  ASSUME IInv, NEW c \in Client, pc[c] # "idle", Step(c), Copies', Adopting', ShapeOf(c)', InFlightOf(c)',
         \A d \in Client \ {c} : pc'[d] = pc[d] /\ op'[d] = op[d]
  PROVE  IInv'
  BY TypeStep, OneCaller DEF IInv

\* Reading the legacy slot keeps the invariant.
LEMMA ReadLegacyKeeps ==
  ASSUME IInv, NEW c \in Client, ReadLegacy(c)
  PROVE  IInv'
<1>1. /\ pc[c] = "readLegacy" /\ op[c].kind = "read" /\ op[c].ids = {} /\ TypeOK
      /\ UNCHANGED <<disk, buf, threw, history>>
  BY DEF ReadLegacy, IInv, Shape, ShapeOf
<1>2. Waiting' = Waiting /\ Base' = Base
  BY <1>1 DEF Waiting, Base, disk
<1>3. Copies' /\ Adopting'
  BY <1>1, <1>2 DEF Copies, Adopting, IInv, Good, Overlay, disk, history
<1>4. /\ \A d \in Client \ {c} : pc'[d] = pc[d] /\ op'[d] = op[d]
      /\ \/ /\ legacy \in Ver /\ op'[c] = [kind |-> "adopt", ids |-> Waiting, rec |-> legacy]
            /\ pc'[c] = IF legacyId = NoId THEN "adoptName" ELSE "readList"
         \/ op'[c] = op[c] /\ pc'[c] = "readList"
  BY <1>1 DEF ReadLegacy, Goto, TypeOK
<1>5. legacy \in Ver => Waiting = IF legacyId = NoId THEN {} ELSE {legacyId}
  BY <1>1, StoreConstants DEF Waiting, TypeOK
<1>6. ShapeOf(c)' /\ InFlightOf(c)'
  BY <1>1, <1>4, <1>5, StoreConstants DEF ShapeOf, InFlightOf, disk, TypeOK
<1> QED
  BY <1>1, <1>3, <1>4, <1>6, StepKeeps DEF Step

\* Giving the legacy record its id keeps the invariant.
LEMMA AdoptNameKeeps ==
  ASSUME IInv, NEW c \in Client, AdoptName(c)
  PROVE  IInv'
<1>1. /\ pc[c] = "adoptName" /\ op[c].kind = "adopt" /\ op[c].rec \in Ver /\ legacyId = NoId
      /\ TypeOK /\ op[c] \in Op
  BY DEF AdoptName, IInv, Shape, ShapeOf, TypeOK
<1>2. PICK i \in Id :
          /\ Fresh(i) /\ legacy' = op[c].rec /\ legacyId' = i
          /\ op' = [op EXCEPT ![c].ids = {i}]
          /\ possible' = [possible EXCEPT ![i] = {op[c].rec}]
  BY DEF AdoptName
<1>3. /\ pc'[c] = "readList" /\ op'[c].kind = "adopt" /\ op'[c].ids = {i} /\ op'[c].rec = op[c].rec
      /\ \A d \in Client \ {c} : pc'[d] = pc[d] /\ op'[d] = op[d]
  BY <1>1, <1>2 DEF AdoptName, Goto, TypeOK, Op
<1>4. Waiting = {} /\ Waiting' = {i} /\ Base' = Base /\ adoptedAs = {}
  BY <1>1, <1>2, StoreConstants DEF Waiting, Base, AdoptName, IInv, Adopting, TypeOK
<1>5. secure[i] = NoRec /\ mirror[i] = NoRec /\ Base[i] = NoRec /\ possible'[i] = {legacy'}
  BY <1>1, <1>2 DEF Fresh, Base, TypeOK
<1>6. \A j \in Id \ {i} : possible'[j] = possible[j]
  BY <1>1, <1>2 DEF TypeOK
<1>7. Copies'
  BY <1>2, <1>4, <1>5, <1>6 DEF Copies, IInv, Good, Overlay, AdoptName
<1>8. Adopting'
  BY <1>4, <1>5 DEF Adopting, AdoptName
<1>9. ShapeOf(c)' /\ InFlightOf(c)'
  BY <1>1, <1>2, <1>3 DEF ShapeOf, InFlightOf
<1> QED
  BY <1>1, <1>3, <1>7, <1>8, <1>9, StepKeeps DEF Step

\* Reading the secure list keeps the invariant.
LEMMA ReadSecureKeeps ==
  ASSUME IInv, NEW c \in Client, ReadSecure(c)
  PROVE  IInv'
<1>1. TypeOK /\ secure \in List /\ pc[c] = "readList" /\ UNCHANGED <<disk, history>>
  BY DEF ReadSecure, IInv, TypeOK
<1>2. Waiting' = Waiting /\ Base' = Base
  BY <1>1 DEF Waiting, Base, disk
<1>3. Copies' /\ Adopting'
  BY <1>1, <1>2 DEF Copies, Adopting, IInv, Good, Overlay, disk, history
<1>4. \A i \in Id \ exposed : Good(secure, i)
  BY DEF ReadSecure, IInv, Copies, Base
<1>5. \A i \in Waiting \ exposed :
          /\ mirror[i] # NoRec => secure[i] # NoRec
          /\ secure[i] # NoRec => mirror[i] # NoRec \/ i \in behind
  BY DEF ReadSecure, IInv, Adopting
<1>6. /\ ShapeOf(c)' /\ InFlightOf(c)'
      /\ \A d \in Client \ {c} : pc'[d] = pc[d] /\ op'[d] = op[d]
  BY <1>1, <1>4, <1>5, ContinueKeeps DEF ReadSecure, disk, history
<1> QED
  BY <1>1, <1>3, <1>6, StepKeeps DEF Step

\* A read that finds no list keeps the invariant.
LEMMA ReadNothingKeeps ==
  ASSUME IInv, NEW c \in Client, ReadNothing(c)
  PROVE  IInv'
<1>1. TypeOK /\ pc[c] = "readList" /\ UNCHANGED <<disk, op, buf, history>> /\ ShapeOf(c) /\ InFlightOf(c)
  BY DEF ReadNothing, IInv, Shape, InFlight
<1>2. Waiting' = Waiting /\ Base' = Base
  BY <1>1 DEF Waiting, Base, disk
<1>3. Copies' /\ Adopting'
  BY <1>1, <1>2 DEF Copies, Adopting, IInv, Good, Overlay, disk, history
<1>4. /\ pc'[c] = "readMirror" /\ (~threw'[c] => secure = EmptyList /\ ~corrupt)
      /\ \A d \in Client \ {c} : pc'[d] = pc[d]
  BY <1>1 DEF ReadNothing, Goto, TypeOK
<1>5. ShapeOf(c)' /\ InFlightOf(c)'
  BY <1>1, <1>2, <1>4 DEF ShapeOf, InFlightOf, disk, history
<1> QED
  BY <1>1, <1>3, <1>4, <1>5, StepKeeps DEF Step

\* Adopting the mirror keeps the invariant.
LEMMA AdoptMirrorKeeps ==
  ASSUME IInv, NEW c \in Client, AdoptMirror(c)
  PROVE  IInv'
<1>1. /\ TypeOK /\ pc[c] = "readMirror" /\ UNCHANGED <<disk, op, threw, possible, behind, adoptedAs>>
      /\ ShapeOf(c) /\ InFlightOf(c) /\ exposed' = exposed \cup behind
  BY DEF AdoptMirror, IInv, Shape, InFlight
<1>2. Waiting' = Waiting /\ Base' = Base
  BY <1>1 DEF Waiting, Base, disk
<1>3. Copies' /\ Adopting'
  BY <1>1, <1>2 DEF Copies, Adopting, IInv, Good, Overlay, disk
<1>4. /\ pc'[c] = "writeBack" /\ buf'[c] = mirror /\ mirror # EmptyList
      /\ \A d \in Client \ {c} : pc'[d] = pc[d]
  BY <1>1 DEF AdoptMirror, Goto, TypeOK
<1>5. \A i \in Id \ exposed' : Good(mirror, i)
  BY <1>1 DEF IInv, Copies
<1>6. ShapeOf(c)' /\ InFlightOf(c)'
  BY <1>1, <1>2, <1>4, <1>5 DEF ShapeOf, InFlightOf, disk, Good, Overlay
<1> QED
  BY <1>1, <1>3, <1>4, <1>6, StepKeeps DEF Step

\* A mirror that cannot help keeps the invariant.
LEMMA NoRescueKeeps ==
  ASSUME IInv, NEW c \in Client, NoRescue(c)
  PROVE  IInv'
<1>1. /\ TypeOK /\ pc[c] = "readMirror" /\ UNCHANGED <<disk, possible, behind, adoptedAs>>
      /\ InFlightOf(c) /\ exposed' = exposed \cup Differ(mirror, EmptyList)
  BY DEF NoRescue, IInv, InFlight
<1>2. Waiting' = Waiting /\ Base' = Base
  BY <1>1 DEF Waiting, Base, disk
<1>3. Copies' /\ Adopting'
  BY <1>1, <1>2 DEF Copies, Adopting, IInv, Good, Overlay, disk
<1>4. CASE threw[c]
  <2>1. Finish(c)
    BY <1>4 DEF NoRescue
  <2> QED
    BY <1>1, <1>3, <2>1, FinishKeeps, StepKeeps DEF Step
<1>5. CASE ~threw[c]
  <2>1. secure = EmptyList /\ ~corrupt /\ Continue(c, EmptyList)
    BY <1>1, <1>5 DEF NoRescue, InFlightOf
  <2>2. \A i \in Id \ exposed' : mirror[i] = NoRec
    BY <1>1 DEF Differ, EmptyList
  <2>3. \A i \in Id \ exposed' : Good(EmptyList, i)
    BY <1>1, <2>1, <2>2 DEF IInv, Copies, Base, Good, Overlay, EmptyList
  <2>4. Waiting \subseteq Id /\ \A i \in Id : EmptyList[i] = NoRec
    BY DEF Waiting, EmptyList
  <2>5. /\ ShapeOf(c)' /\ InFlightOf(c)'
        /\ \A d \in Client \ {c} : pc'[d] = pc[d] /\ op'[d] = op[d]
    BY <1>1, <2>1, <2>2, <2>3, <2>4, EmptyListType, ContinueKeeps DEF disk
  <2> QED
    BY <1>1, <1>3, <2>5, StepKeeps DEF Step
<1> QED
  BY <1>4, <1>5

\* Writing the adopted mirror back keeps the invariant.
LEMMA WriteBackKeeps ==
  ASSUME IInv, NEW c \in Client, WriteBack(c)
  PROVE  IInv'
<1>1. /\ TypeOK /\ pc[c] = "writeBack" /\ UNCHANGED <<mirror, legacy, legacyId, history>>
      /\ ShapeOf(c) /\ InFlightOf(c) /\ buf[c] \in List /\ buf[c] # EmptyList
      /\ (secure' = buf[c] /\ ~corrupt') \/ UNCHANGED <<secure, corrupt>>
  BY DEF WriteBack, IInv, Shape, ShapeOf, InFlight, TypeOK
<1>2. Waiting' = Waiting /\ Waiting \subseteq Id
  BY <1>1 DEF Waiting
<1>3. \A i \in Id \ exposed : Good(buf[c], i) /\ mirror[i] = buf[c][i]
  BY <1>1 DEF InFlightOf
<1>4. Copies'
  BY <1>1, <1>2, <1>3 DEF Copies, IInv, Good, Overlay, Base, history
<1>5. Adopting'
  BY <1>1, <1>2, <1>3 DEF Adopting, IInv, history
<1>6. \A i \in Waiting \ exposed' :
          /\ mirror[i] # NoRec => buf[c][i] # NoRec
          /\ buf[c][i] # NoRec => mirror[i] # NoRec \/ i \in behind
          /\ buf[c][i] # NoRec /\ ~corrupt' /\ secure' # EmptyList => secure'[i] # NoRec
          /\ buf[c][i] # NoRec /\ (secure' = EmptyList \/ corrupt') => mirror[i] # NoRec
  BY <1>1, <1>2, <1>3 DEF Adopting, IInv, history
<1>7. /\ ShapeOf(c)' /\ InFlightOf(c)'
      /\ \A d \in Client \ {c} : pc'[d] = pc[d] /\ op'[d] = op[d]
  BY <1>1, <1>3, <1>6, ContinueKeeps DEF WriteBack, history
<1> QED
  BY <1>1, <1>4, <1>5, <1>7, StepKeeps DEF Step

\* The write of the secure list keeps the invariant.
LEMMA SecureWriteKeeps ==
  ASSUME IInv, NEW c \in Client, SecureWrite(c)
  PROVE  IInv'
<1>1. /\ TypeOK /\ pc[c] = "secureWrite" /\ ShapeOf(c) /\ InFlightOf(c)
      /\ buf[c] \in List /\ buf[c] # EmptyList /\ op[c] \in Op
      /\ secure' = buf[c] /\ ~corrupt' /\ exposed' = exposed \cup PutOff(c)
      /\ UNCHANGED <<mirror, legacy, legacyId, op, buf, threw, possible>>
  BY DEF SecureWrite, IInv, Shape, ShapeOf, InFlight, TypeOK
<1>2. Waiting' = Waiting /\ Waiting \subseteq Id \cap {legacyId} /\ PutOff(c)' = PutOff(c)
  BY <1>1 DEF Waiting, PutOff
<1>3. /\ behind \subseteq behind' /\ behind' \subseteq Id
      /\ op[c].kind = "adopt" => op[c].ids \subseteq behind' /\ adoptedAs' = adoptedAs \cup op[c].ids
      /\ op[c].kind # "adopt" => adoptedAs' = adoptedAs
  BY <1>1 DEF SecureWrite, TypeOK, Op
<1>4. \A i \in Id \ exposed' : Good(buf[c], i)
  BY <1>1 DEF InFlightOf
<1>5. Copies'
  BY <1>1, <1>2, <1>3, <1>4 DEF Copies, IInv, Good, Overlay, Base
<1>6. Adopting'
  <2>1. adoptedAs' \subseteq {legacyId'}
    BY <1>1, <1>3 DEF ShapeOf, IInv, Adopting
  <2>2. ASSUME NEW i \in Waiting \ exposed', i \in op[c].ids
        PROVE  buf[c][i] # NoRec /\ (mirror[i] # NoRec \/ i \in behind')
    <3>1. op[c].rec # NoRec
      BY <1>1, <2>2 DEF PutOff
    <3>2. buf[c][i] = op[c].rec
      BY <1>1, <2>2 DEF InFlightOf
    <3>3. op[c].kind \in {"adopt", "put"}
      BY <1>1, <3>1 DEF ShapeOf
    <3> QED
      BY <1>1, <1>3, <2>2, <3>1, <3>2, <3>3 DEF InFlightOf
  <2>3. ASSUME NEW i \in Waiting \ exposed', i \notin op[c].ids
        PROVE  /\ mirror[i] # NoRec => buf[c][i] # NoRec
               /\ buf[c][i] # NoRec => mirror[i] # NoRec \/ i \in behind'
    BY <1>1, <1>3, <2>3 DEF InFlightOf
  <2> QED
    BY <1>1, <1>2, <2>1, <2>2, <2>3 DEF Adopting
<1>7. pc'[c] = "mirrorWrite" /\ \A d \in Client \ {c} : pc'[d] = pc[d]
  BY <1>1 DEF SecureWrite, Goto, TypeOK
<1>8. ShapeOf(c)'
  BY <1>1, <1>7 DEF ShapeOf
<1>9. InFlightOf(c)'
  BY <1>1, <1>2, <1>3, <1>4, <1>7 DEF InFlightOf, Good, Overlay
<1> QED
  BY <1>1, <1>5, <1>6, <1>7, <1>8, <1>9, StepKeeps DEF Step

\* The mirror, emptied before it is written, keeps the invariant: the secure list holds
\* what it held.
LEMMA MirrorTruncateKeeps ==
  ASSUME IInv, NEW c \in Client, MirrorTruncate(c)
  PROVE  IInv'
<1>1. /\ TypeOK /\ pc[c] = "mirrorWrite" /\ ShapeOf(c) /\ InFlightOf(c)
      /\ UNCHANGED <<secure, corrupt, legacy, legacyId, op, buf, threw, possible, adoptedAs>>
      /\ exposed \subseteq exposed' /\ behind' = Id /\ (secure = EmptyList => exposed' = Id)
  BY DEF MirrorTruncate, IInv, Shape, InFlight, TypeOK
<1>2. Waiting' = Waiting /\ Waiting \subseteq Id /\ PutOff(c)' = PutOff(c) /\ ~corrupt
  BY <1>1 DEF Waiting, PutOff, ShapeOf
<1>3. Copies'
  BY <1>1, <1>2 DEF Copies, IInv, Good, Overlay, Base
<1>4. Adopting'
  BY <1>1, <1>2 DEF Adopting, IInv, MirrorTruncate, EmptyList
<1>5. pc'[c] = "mirrorFlush" /\ \A d \in Client \ {c} : pc'[d] = pc[d]
  BY <1>1 DEF MirrorTruncate, Goto, TypeOK
<1>6. ShapeOf(c)' /\ InFlightOf(c)'
  BY <1>1, <1>2, <1>5 DEF ShapeOf, InFlightOf, Good, Overlay
<1> QED
  BY <1>1, <1>3, <1>4, <1>5, <1>6, StepKeeps DEF Step

\* The end of a list write, in both outcomes: the mirror holds what was written
\* for every id not marked behind.
LEMMA WrittenKeeps ==
  ASSUME IInv, NEW c \in Client, Step(c), NEW missing \in SUBSET Id, Written(c, missing),
         pc[c] \in {"mirrorWrite", "mirrorFlush"},
         UNCHANGED <<secure, corrupt, legacy, legacyId, adoptedAs>>,
         behind' \subseteq Id, missing = behind',
         \A i \in Id \ behind' : mirror'[i] = buf[c][i],
         \A i \in behind' : mirror'[i] = mirror[i]
  PROVE  IInv'
<1>1. /\ TypeOK /\ ShapeOf(c) /\ InFlightOf(c) /\ buf[c] \in List /\ buf[c] # EmptyList
      /\ op[c] \in Op /\ ~corrupt /\ PutOff(c) \subseteq exposed
      /\ secure = buf[c] \/ (secure = EmptyList /\ legacy = NoRec)
  BY DEF IInv, Shape, ShapeOf, InFlight, InFlightOf, TypeOK
<1>2. /\ exposed' = exposed \cup IF secure = EmptyList THEN missing ELSE {}
      /\ op[c].kind = "adopt" => possible' = possible
      /\ op[c].kind # "adopt" =>
             possible' = [i \in Id |-> IF i \in op[c].ids THEN {op[c].rec} ELSE possible[i]]
  BY DEF Written, Acknowledged
<1>3. Waiting' = Waiting /\ Waiting \subseteq Id \cap {legacyId} /\ (legacy = NoRec => Waiting = {})
  BY StoreConstants DEF Waiting
<1>4. \A i \in Id \ exposed' : Overlay(buf[c], i) \in possible'[i]
  <2> SUFFICES ASSUME NEW i \in Id \ exposed' PROVE Overlay(buf[c], i) \in possible'[i]
    OBVIOUS
  <2>1. Overlay(buf[c], i) \in possible[i]
    BY <1>1, <1>2 DEF InFlightOf, Good
  <2>2. CASE i \in op[c].ids /\ op[c].kind # "adopt"
    <3>1. buf[c][i] = op[c].rec /\ i \notin PutOff(c)
      BY <1>1, <1>2, <2>2 DEF InFlightOf
    <3>2. Overlay(buf[c], i) = op[c].rec
      BY <2>2, <3>1 DEF Overlay, PutOff
    <3> QED
      BY <1>2, <2>2, <3>2
  <2>3. CASE i \notin op[c].ids \/ op[c].kind = "adopt"
    BY <1>2, <2>1, <2>3
  <2> QED
    BY <2>2, <2>3
<1>6. Copies'
  <2>1. \A i \in Id \ exposed' : i \notin behind' => Good(mirror, i)'
    BY <1>3, <1>4 DEF Good, Overlay
  <2>2. \A i \in Id \ exposed' : Good(Base, i)'
    <3>1. CASE secure = EmptyList
      BY <1>2, <2>1, <3>1 DEF Base, Good, Overlay
    <3>2. CASE secure = buf[c] /\ secure # EmptyList
      BY <1>3, <1>4, <3>2 DEF Base, Good, Overlay
    <3> QED
      BY <1>1, <3>1, <3>2
  <2> QED
    BY <1>1, <2>1, <2>2 DEF Copies
<1>7. Adopting'
  <2>1. \A i \in Waiting : secure[i] = buf[c][i] /\ (i \notin behind' => mirror'[i] = secure[i])
    BY <1>1, <1>3
  <2>2. adoptedAs' \subseteq {legacyId'}
    BY DEF Adopting, IInv
  <2>3. \A i \in Waiting \ exposed : mirror[i] # NoRec /\ secure # EmptyList => secure[i] # NoRec
    BY <1>1 DEF Adopting, IInv
  <2>4. exposed \subseteq exposed'
    BY <1>2
  <2> QED
    BY <1>1, <1>3, <2>1, <2>2, <2>3, <2>4 DEF Adopting
<1>8. CASE op[c].kind = "adopt"
  <2>1. /\ pc'[c] = "legacyDelete" /\ op'[c] = op[c] /\ UNCHANGED <<op, buf, threw>>
        /\ \A d \in Client \ {c} : pc'[d] = pc[d]
    BY <1>1, <1>8 DEF Written, Goto, TypeOK
  <2>2. ShapeOf(c)'
    BY <1>1, <1>8, <2>1 DEF ShapeOf
  <2>3. \A i \in Waiting : buf[c][i] # NoRec
    BY <1>1, <1>3, <1>8, StoreConstants DEF ShapeOf, InFlightOf
  <2>4. InFlightOf(c)'
    BY <1>1, <1>2, <1>3, <1>8, <2>1, <2>3 DEF InFlightOf
  <2> QED
    BY <1>6, <1>7, <2>1, <2>2, <2>4, StepKeeps
<1>9. CASE op[c].kind # "adopt"
  BY <1>1, <1>6, <1>7, <1>9, FinishKeeps, StepKeeps DEF Written, Acknowledged
<1> QED
  BY <1>8, <1>9

\* The write of the mirror keeps the invariant.
LEMMA MirrorWriteKeeps ==
  ASSUME IInv, NEW c \in Client, MirrorFlush(c) \/ MirrorWriteFails(c)
  PROVE  IInv'
<1>1. CASE MirrorFlush(c)
  BY <1>1, WrittenKeeps DEF MirrorFlush, Step
<1>2. CASE MirrorWriteFails(c)
  <2>1. behind' = behind \cup Differ(mirror, buf[c]) /\ behind' \subseteq Id
    BY <1>2 DEF MirrorWriteFails, IInv, TypeOK, Differ
  <2>2. \A i \in Id \ behind' : mirror'[i] = buf[c][i]
    BY <1>2, <2>1 DEF MirrorWriteFails, Differ, disk
  <2> QED
    BY <1>2, <2>1, <2>2, WrittenKeeps DEF MirrorWriteFails, Step, disk
<1> QED
  BY <1>1, <1>2

\* The deletion of the secure list keeps the invariant.
LEMMA SecureDeleteKeeps ==
  ASSUME IInv, NEW c \in Client, SecureDelete(c)
  PROVE  IInv'
<1>1. /\ TypeOK /\ pc[c] = "secureDelete" /\ ShapeOf(c) /\ InFlightOf(c)
      /\ UNCHANGED <<mirror, legacy, legacyId, op, buf, threw, possible, behind, adoptedAs>>
      /\ secure' = EmptyList /\ ~corrupt' /\ exposed' = exposed \cup behind \cup PutOff(c)
  BY DEF SecureDelete, IInv, Shape, InFlight, TypeOK
<1>2. Waiting' = Waiting /\ Waiting \subseteq Id /\ PutOff(c)' = PutOff(c)
  BY <1>1 DEF Waiting, PutOff
<1>3. Copies'
  BY <1>1, <1>2 DEF Copies, IInv, Good, Overlay, Base
<1>4. Adopting'
  BY <1>1, <1>2 DEF Adopting, IInv, EmptyList
<1>5. pc'[c] = "mirrorDelete" /\ \A d \in Client \ {c} : pc'[d] = pc[d]
  BY <1>1 DEF SecureDelete, Goto, TypeOK
<1>6. ShapeOf(c)' /\ InFlightOf(c)'
  BY <1>1, <1>2, <1>5 DEF ShapeOf, InFlightOf, Good, Overlay
<1> QED
  BY <1>1, <1>3, <1>4, <1>5, <1>6, StepKeeps DEF Step

\* A deletion whose mirror half is still to come keeps the invariant.
LEMMA DeletedKeeps ==
  ASSUME IInv, NEW c \in Client, Step(c), NEW missing \in SUBSET Id, Acknowledged(c, missing),
         pc[c] = "mirrorDelete",
         UNCHANGED <<secure, corrupt, legacy, legacyId, adoptedAs>>,
         behind' \subseteq Id, missing = behind',
         \A i \in Id \ behind' : mirror'[i] = NoRec
  PROVE  IInv'
<1>1. /\ TypeOK /\ ShapeOf(c) /\ InFlightOf(c) /\ op[c] \in Op
      /\ ~corrupt /\ PutOff(c) \subseteq exposed /\ secure = EmptyList /\ op[c].rec = NoRec
  BY DEF IInv, Shape, ShapeOf, InFlight, InFlightOf, TypeOK
<1>2. /\ exposed' = exposed \cup behind'
      /\ possible' = [i \in Id |-> IF i \in op[c].ids THEN {NoRec} ELSE possible[i]]
  BY <1>1 DEF Acknowledged
<1>3. Waiting' = Waiting /\ Waiting \subseteq Id
  BY DEF Waiting
<1>4. \A i \in Id \ exposed' : (IF i \in Waiting THEN legacy ELSE NoRec) \in possible'[i]
  <2> SUFFICES ASSUME NEW i \in Id \ exposed' PROVE (IF i \in Waiting THEN legacy ELSE NoRec) \in possible'[i]
    OBVIOUS
  <2>1. i \notin PutOff(c) /\ Good(EmptyList, i)
    BY <1>1, <1>2 DEF InFlightOf
  <2>2. Overlay(EmptyList, i) = IF i \in Waiting THEN legacy ELSE NoRec
    BY DEF Overlay, EmptyList
  <2>3. i \in op[c].ids => i \notin Waiting
    BY <1>1, <2>1 DEF PutOff
  <2> QED
    BY <1>2, <2>1, <2>2, <2>3 DEF Good
<1>5. Copies'
  BY <1>1, <1>2, <1>3, <1>4 DEF Copies, Good, Overlay, Base
<1>6. Adopting'
  BY <1>1, <1>2, <1>3 DEF Adopting, IInv, EmptyList
<1> QED
  BY <1>1, <1>5, <1>6, FinishKeeps, StepKeeps DEF Acknowledged

\* The deletion of the mirror keeps the invariant.
LEMMA MirrorDeleteKeeps ==
  ASSUME IInv, NEW c \in Client, MirrorDelete(c) \/ MirrorDeleteFails(c)
  PROVE  IInv'
<1>1. CASE MirrorDelete(c)
  BY <1>1, DeletedKeeps DEF MirrorDelete, Step, EmptyList
<1>2. CASE MirrorDeleteFails(c)
  <2>1. behind' = behind \cup Differ(mirror, EmptyList) /\ behind' \subseteq Id
    BY <1>2 DEF MirrorDeleteFails, IInv, TypeOK, Differ
  <2>2. \A i \in Id \ behind' : mirror'[i] = NoRec
    BY <1>2, <2>1 DEF MirrorDeleteFails, Differ, disk, EmptyList
  <2> QED
    BY <1>2, <2>1, <2>2, DeletedKeeps DEF MirrorDeleteFails, Step, disk
<1> QED
  BY <1>1, <1>2

\* The deletion of the legacy slot keeps the invariant.
LEMMA LegacyDeleteKeeps ==
  ASSUME IInv, NEW c \in Client, LegacyDelete(c)
  PROVE  IInv'
<1>1. /\ TypeOK /\ pc[c] = "legacyDelete" /\ ShapeOf(c) /\ InFlightOf(c) /\ legacy' = NoRec
      /\ UNCHANGED <<secure, corrupt, mirror, legacyId, history>>
  BY DEF LegacyDelete, IInv, Shape, InFlight
<1>2. Waiting' = {} /\ Base' = Base
  BY <1>1, StoreConstants DEF Waiting, Base
<1>3. CASE op[c].kind = "adopt"
  <2>1. \A i \in Waiting \ exposed :
            /\ ~corrupt => Base[i] # NoRec
            /\ mirror[i] # NoRec \/ i \in behind
    BY <1>1, <1>3 DEF InFlightOf, Base
  <2>2. Copies'
    BY <1>1, <1>2, <2>1 DEF Copies, IInv, Good, Overlay, history
  <2>3. Adopting'
    BY <1>1, <1>2 DEF Adopting, IInv, history
  <2>4. /\ pc'[c] = "readList" /\ op'[c] = NoOp
        /\ \A d \in Client \ {c} : pc'[d] = pc[d] /\ op'[d] = op[d]
    BY <1>1, <1>3 DEF LegacyDelete, Goto, TypeOK
  <2>5. ShapeOf(c)' /\ InFlightOf(c)'
    BY <2>4 DEF ShapeOf, InFlightOf, NoOp
  <2> QED
    BY <1>1, <2>2, <2>3, <2>4, <2>5, StepKeeps DEF Step
<1>4. CASE op[c].kind # "adopt"
  <2>1. legacy \notin Ver /\ Waiting = {} /\ Finish(c)
    BY <1>1, <1>4 DEF LegacyDelete, ShapeOf, Waiting
  <2>2. Copies' /\ Adopting'
    BY <1>1, <1>2, <2>1 DEF Copies, Adopting, IInv, Good, Overlay, history
  <2> QED
    BY <1>1, <2>1, <2>2, FinishKeeps, StepKeeps DEF Step
<1> QED
  BY <1>3, <1>4

\* A crash at any await keeps the invariant.
LEMMA CrashKeeps ==
  ASSUME IInv, TypeOK', Crash
  PROVE  IInv'
<1>1. Waiting' = Waiting /\ Base' = Base /\ UNCHANGED <<disk, history>>
  BY DEF Crash, Waiting, Base, disk
<1>2. Copies' /\ Adopting'
  BY <1>1 DEF Copies, Adopting, IInv, Good, Overlay, disk, history
<1>3. \A d \in Client : Idle(d)'
  BY DEF Crash, Idle
<1>4. \A d \in Client : ShapeOf(d)' /\ InFlightOf(d)'
  BY <1>3 DEF Idle, NoOp, ShapeOf, InFlightOf
<1> QED
  BY <1>2, <1>3, <1>4 DEF IInv, Exclusive, Shape, InFlight, Idle

\* The loss of the keystore keeps the invariant.
LEMMA KeystoreLossKeeps ==
  ASSUME IInv, TypeOK', KeystoreLoss
  PROVE  IInv'
<1>1. /\ TypeOK /\ secure' = EmptyList /\ ~corrupt' /\ legacy' = NoRec
      /\ exposed' = exposed \cup behind \cup Waiting
      /\ UNCHANGED <<mirror, legacyId, pc, op, buf, threw, possible, behind, adoptedAs>>
  BY DEF KeystoreLoss, IInv, local
<1>2. Waiting' = {} /\ \A c \in Client : PutOff(c)' = {}
  BY <1>1, StoreConstants DEF Waiting, PutOff
<1>3. Copies'
  BY <1>1, <1>2 DEF Copies, IInv, Good, Overlay, Base
<1>4. Adopting'
  BY <1>1, <1>2 DEF Adopting, IInv
<1>5. ASSUME NEW c \in Client PROVE ShapeOf(c)'
  BY <1>1, StoreConstants DEF IInv, Shape, ShapeOf, NoOp
<1>6. ASSUME NEW c \in Client PROVE InFlightOf(c)'
  <2>1. ShapeOf(c) /\ InFlightOf(c)
    BY DEF IInv, Shape, InFlight
  <2>2. op[c].kind = "adopt" => op[c].ids \subseteq exposed'
    BY <1>1, <2>1 DEF ShapeOf, InFlightOf, Waiting
  <2>3. \A l \in List, i \in Id \ exposed' : Good(l, i) => Good(l, i)'
    BY <1>1, <1>2 DEF Good, Overlay
  <2>4. buf[c] \in List /\ PutOff(c) \subseteq exposed' /\ op[c] \in Op
    BY <1>1 DEF TypeOK, PutOff
  <2>5. pc[c] \in {"secureWrite", "mirrorWrite", "mirrorFlush"} => \A i \in Id \ exposed' : Good(buf[c], i)'
    BY <1>1, <2>1, <2>4 DEF InFlightOf, Good, Overlay, Waiting
  <2>6. pc[c] = "writeBack" => \A i \in Id \ exposed' : Good(buf[c], i)' /\ mirror[i] = buf[c][i]
    BY <1>1, <2>1 DEF InFlightOf, Good, Overlay, Waiting
  <2>7. pc[c] \in {"secureDelete", "mirrorDelete"} => \A i \in Id \ exposed' : Good(EmptyList, i)'
    BY <1>1, <2>1, <2>4 DEF InFlightOf, Good, Overlay, Waiting
  <2> QED
    BY <1>1, <1>2, <2>1, <2>2, <2>4, <2>5, <2>6, <2>7 DEF InFlightOf
<1> QED
  BY <1>1, <1>3, <1>4, <1>5, <1>6 DEF IInv, Exclusive, Shape, InFlight

\* A corrupted secure list keeps the invariant.
LEMMA CorruptionKeeps ==
  ASSUME IInv, TypeOK', Corruption
  PROVE  IInv'
<1>1. /\ Serialised /\ corrupt' /\ secure' = EmptyList
      /\ UNCHANGED <<mirror, legacy, legacyId, pc, op, buf, threw, possible, behind, exposed, adoptedAs>>
  BY DEF Corruption, local, history
<1>2. Waiting' = Waiting
  BY <1>1 DEF Waiting
<1>3. Copies' /\ Adopting'
  BY <1>1, <1>2 DEF Copies, Adopting, IInv, Good, Overlay, EmptyList, Waiting
<1>4. \A d \in Client : Idle(d)'
  BY <1>1 DEF Serialised, IInv, Shape, ShapeOf, Idle
<1>5. \A d \in Client : ShapeOf(d)' /\ InFlightOf(d)'
  BY <1>4 DEF Idle, NoOp, ShapeOf, InFlightOf
<1> QED
  BY <1>3, <1>4, <1>5 DEF IInv, Exclusive, Shape, InFlight, Idle

\* The invariant holds at the start.
LEMMA InitInv == Init => IInv
<1> SUFFICES ASSUME Init PROVE IInv
  OBVIOUS
<1>1. TypeOK
  BY TypeInit
<1>2. \A d \in Client : Idle(d)
  BY DEF Init, Idle
<1>3. Exclusive /\ Shape /\ InFlight
  BY <1>2 DEF Idle, NoOp, Exclusive, Shape, ShapeOf, InFlight, InFlightOf
<1>4. Copies
  BY StoreConstants DEF Init, Copies, Good, Overlay, Base, Waiting, EmptyList
<1>5. Adopting
  BY DEF Init, Adopting, EmptyList, Waiting
<1> QED
  BY <1>1, <1>3, <1>4, <1>5 DEF IInv

\* Every reachable state of the store satisfies the inductive invariant, whatever storage
\* fails and whenever the process dies.
THEOREM Inductive == Spec => []IInv
<1>1. IInv /\ [Next]_vars => IInv'
  <2> SUFFICES ASSUME IInv, [Next]_vars PROVE IInv'
    OBVIOUS
  <2>1. ASSUME NEW c \in Client, Step(c) PROVE IInv'
    <3>1. CASE ReadAll(c) \/ Upsert(c) \/ RemoveWhere(c) \/ WipeListBlob(c) \/ DropLegacy(c)
      BY <3>1, StartKeeps DEF ReadAll, Upsert, RemoveWhere, WipeListBlob, DropLegacy, Kinds, Steps, Rec
    <3>2. CASE NameFails(c) \/ ReadCorrupt(c) \/ SecureWriteFails(c)
      BY <3>2, FailKeeps DEF NameFails, ReadCorrupt, SecureWriteFails
    <3> QED
      BY <2>1, <3>1, <3>2, ReadLegacyKeeps, AdoptNameKeeps, ReadSecureKeeps, ReadNothingKeeps,
         AdoptMirrorKeeps, NoRescueKeeps, WriteBackKeeps, SecureWriteKeeps, MirrorTruncateKeeps,
         MirrorWriteKeeps, SecureDeleteKeeps, MirrorDeleteKeeps, LegacyDeleteKeeps DEF Step
  <2>2. CASE Crash
    BY <2>2, TypeNext, CrashKeeps DEF IInv, Next
  <2>3. CASE KeystoreLoss
    BY <2>3, TypeNext, KeystoreLossKeeps DEF IInv, Next
  <2>4. CASE Corruption
    BY <2>4, TypeNext, CorruptionKeeps DEF IInv, Next
  <2>5. CASE UNCHANGED vars
    BY <2>5 DEF vars, disk, local, history, IInv, TypeOK, Exclusive, Shape, ShapeOf, Copies, Adopting,
                InFlight, InFlightOf, Good, Overlay, Base, Waiting, PutOff
  <2> QED
    BY <2>1, <2>2, <2>3, <2>4, <2>5 DEF Next
<1> QED
  BY <1>1, InitInv, PTL DEF Spec

\* No crash, no other record's write and no single storage fault loses or brings
\* back a record that a save or a removal acknowledged settled.
THEOREM DurableAlways == Spec => []Durable
<1>1. IInv => Durable
  BY DEF IInv, Copies, Durable, Good, Overlay, View, Waiting, TypeOK
<1> QED
  BY <1>1, Inductive, PTL

\* An adoption that is cut off and run again does not duplicate the legacy record.
THEOREM AdoptedOnceAlways == Spec => []AdoptedOnce
<1>1. IInv => AdoptedOnce
  BY DEF IInv, Adopting, AdoptedOnce
<1> QED
  BY <1>1, Inductive, PTL
-----------------------------------------------------------------------------
(* What does not decode. *)

\* While the list does not decode, an operation on its way to a write of the list is the user's wipe, or
\* its read of secure storage threw (_readListRawMirrored, 233-275).
Sheltered ==
    corrupt => \A c \in Client : pc[c] \in {"readMirror", "writeBack", "secureWrite", "secureDelete"} =>
                   op[c].kind = "wipe" \/ threw[c]

\* A read that goes on under such a list keeps this: it is no wipe, so it threw.
LEMMA ShelterContinue ==
  ASSUME TypeOK, Sheltered, NEW c \in Client, NEW l, Continue(c, l), corrupt, threw[c]
  PROVE  Sheltered'
<1>1. CASE Finish(c)
  BY <1>1 DEF Finish, Goto, TypeOK, Sheltered
<1>2. CASE Goto(c, "legacyDelete") /\ UNCHANGED <<op, buf, threw>>
  BY <1>2 DEF Goto, TypeOK, Sheltered
<1>3. CASE /\ Goto(c, IF Changed(op[c], l) = EmptyList THEN "secureDelete" ELSE "secureWrite")
           /\ UNCHANGED <<op, threw>>
  BY <1>3 DEF Goto, TypeOK, Sheltered
<1> QED
  BY <1>1, <1>2, <1>3 DEF Continue

\* Every step of a caller keeps it.
LEMMA ShelterStep ==
  ASSUME TypeOK, Sheltered, NEW c \in Client, Step(c)
  PROVE  Sheltered'
<1>1. CASE ReadAll(c)
  BY <1>1 DEF ReadAll, Start, Goto, TypeOK, Sheltered, disk
<1>2. CASE Upsert(c)
  BY <1>2 DEF Upsert, Start, Goto, TypeOK, Sheltered, disk
<1>3. CASE RemoveWhere(c)
  BY <1>3 DEF RemoveWhere, Start, Goto, TypeOK, Sheltered, disk
<1>4. CASE WipeListBlob(c)
  BY <1>4 DEF WipeListBlob, Start, Goto, TypeOK, Sheltered, disk
<1>5. CASE DropLegacy(c)
  BY <1>5 DEF DropLegacy, Start, Goto, TypeOK, Sheltered, disk
<1>6. CASE ReadLegacy(c)
  BY <1>6 DEF ReadLegacy, Goto, TypeOK, Sheltered, disk
<1>7. CASE AdoptName(c)
  BY <1>7 DEF AdoptName, Goto, TypeOK, Sheltered
<1>8. CASE NameFails(c) \/ ReadCorrupt(c) \/ SecureWriteFails(c)
  BY <1>8 DEF NameFails, ReadCorrupt, SecureWriteFails, Fail, Finish, Goto, TypeOK, Sheltered, disk
<1>9. CASE ReadSecure(c)
  BY <1>9 DEF ReadSecure, Sheltered, disk
<1>10. CASE ReadNothing(c)
  BY <1>10 DEF ReadNothing, Goto, TypeOK, Sheltered, disk
<1>11. CASE AdoptMirror(c)
  BY <1>11 DEF AdoptMirror, Goto, TypeOK, Sheltered, disk
<1>12. CASE NoRescue(c)
  <2>1. UNCHANGED corrupt
    BY <1>12 DEF NoRescue, disk
  <2>2. CASE ~corrupt
    BY <2>1, <2>2 DEF Sheltered
  <2>3. CASE corrupt /\ threw[c]
    BY <1>12, <2>1, <2>3 DEF NoRescue, Finish, Goto, TypeOK, Sheltered
  <2>4. CASE corrupt /\ ~threw[c]
    <3>1. op[c].kind = "wipe" /\ Continue(c, EmptyList)
      BY <1>12, <2>4 DEF NoRescue, Sheltered
    <3> QED
      BY <3>1 DEF Continue
  <2> QED
    BY <2>2, <2>3, <2>4
<1>13. CASE WriteBack(c)
  <2>1. corrupt' => corrupt
    BY <1>13 DEF WriteBack
  <2>2. CASE ~corrupt'
    BY <2>2 DEF Sheltered
  <2>3. CASE corrupt' /\ threw[c]
    BY <1>13, <2>1, <2>3, ShelterContinue DEF WriteBack
  <2>4. CASE corrupt' /\ ~threw[c]
    <3>1. op[c].kind = "wipe" /\ Continue(c, buf[c])
      BY <1>13, <2>1, <2>4 DEF WriteBack, Sheltered
    <3> QED
      BY <3>1 DEF Continue
  <2> QED
    BY <2>2, <2>3, <2>4
<1>14. CASE SecureWrite(c) \/ SecureDelete(c)
  BY <1>14 DEF SecureWrite, SecureDelete, Sheltered
<1>15. CASE MirrorTruncate(c)
  BY <1>15 DEF MirrorTruncate, Goto, TypeOK, Sheltered
<1>16. CASE MirrorFlush(c)
  BY <1>16 DEF MirrorFlush, Written, Acknowledged, Finish, Goto, TypeOK, Sheltered
<1>17. CASE MirrorWriteFails(c)
  BY <1>17 DEF MirrorWriteFails, Written, Acknowledged, Finish, Goto, TypeOK, Sheltered, disk
<1>18. CASE MirrorDelete(c)
  BY <1>18 DEF MirrorDelete, Acknowledged, Finish, Goto, TypeOK, Sheltered
<1>19. CASE MirrorDeleteFails(c)
  BY <1>19 DEF MirrorDeleteFails, Acknowledged, Finish, Goto, TypeOK, Sheltered, disk
<1>20. CASE LegacyDelete(c)
  BY <1>20 DEF LegacyDelete, Finish, Goto, TypeOK, Sheltered
<1> QED
  BY <1>1, <1>2, <1>3, <1>4, <1>5, <1>6, <1>7, <1>8, <1>9, <1>10, <1>11, <1>12, <1>13, <1>14, <1>15,
     <1>16, <1>17, <1>18, <1>19, <1>20 DEF Step

\* It holds at first, and every step keeps it: a list is damaged only while no operation runs.
LEMMA ShelterNext ==
  /\ Init => Sheltered
  /\ TypeOK /\ Sheltered /\ [Next]_vars => Sheltered'
<1>1. Init => Sheltered
  BY DEF Init, Sheltered
<1>2. ASSUME TypeOK, Sheltered, [Next]_vars PROVE Sheltered'
  <2>1. CASE \E c \in Client : Step(c)
    BY <1>2, <2>1, ShelterStep
  <2>2. CASE Crash
    BY <2>2 DEF Crash, Sheltered, disk
  <2>3. CASE KeystoreLoss
    BY <2>3 DEF KeystoreLoss, Sheltered
  <2>4. CASE Corruption
    BY <2>4 DEF Corruption, Serialised, Sheltered, local
  <2>5. CASE UNCHANGED vars
    BY <1>2, <2>5 DEF vars, disk, local, Sheltered
  <2> QED
    BY <1>2, <2>1, <2>2, <2>3, <2>4, <2>5 DEF Next
<1> QED
  BY <1>1, <1>2

\* The steps that replace a list that does not decode.
LEMMA WhoReplaces ==
  ASSUME Sheltered, [Next]_vars, corrupt, ~corrupt'
  PROVE  KeystoreLoss \/ \E c \in Client : op[c].kind = "wipe" \/ threw[c]
<1>1. CASE \E c \in Client : Step(c)
  <2>1. PICK c \in Client : Step(c)
    BY <1>1
  <2>2. UNCHANGED corrupt \/ WriteBack(c) \/ SecureWrite(c) \/ SecureDelete(c)
    BY <2>1 DEF Step, ReadAll, Upsert, RemoveWhere, WipeListBlob, DropLegacy, Start, ReadLegacy, AdoptName,
                NameFails, ReadSecure, ReadCorrupt, ReadNothing, AdoptMirror, NoRescue, SecureWriteFails, Fail,
                MirrorTruncate, MirrorFlush, MirrorWriteFails, MirrorDelete, MirrorDeleteFails, LegacyDelete, disk
  <2>3. pc[c] \in {"writeBack", "secureWrite", "secureDelete"}
    BY <2>2 DEF WriteBack, SecureWrite, SecureDelete
  <2> QED
    BY <2>3 DEF Sheltered
<1>2. CASE Crash \/ Corruption \/ UNCHANGED vars
  BY <1>2 DEF Crash, Corruption, vars, disk
<1> QED
  BY <1>1, <1>2 DEF Next

\* A list that does not decode, perhaps the only copy of reclaim material, stays in place until the user
\* wipes it, the keystore drops it or a read of it throws, whatever the callers do.
THEOREM CorruptAlwaysPreserved == Spec => CorruptPreserved
<1>1. TypeOK /\ Sheltered /\ [Next]_vars =>
        [corrupt /\ ~corrupt' => KeystoreLoss \/ \E c \in Client : op[c].kind = "wipe" \/ threw[c]]_vars
  BY WhoReplaces
<1>2. Spec => []Sheltered
  <2>1. Spec => []TypeOK
    BY TypeCorrect
  <2> QED
    BY <2>1, ShelterNext, PTL DEF Spec
<1> QED
  BY <1>1, <1>2, TypeCorrect, PTL DEF Spec, CorruptPreserved
-----------------------------------------------------------------------------
(* What the mirror holds, when its reads do not fail. *)

\* A record of the mirror that no operation may have removed, and a list that has every one of them.
Live(i) == mirror[i] # NoRec /\ NoRec \notin possible[i]
HoldsLive(l) == \A i \in Id : Live(i) => l[i] # NoRec

\* Secure storage has the live records of the mirror whenever it yields anything, and so has what an
\* operation is about to write; what it served from the mirror is the mirror.
SecureHolds == ~corrupt /\ secure # EmptyList => HoldsLive(secure)
BufferHolds(c) ==
    /\ op[c].kind = "del" => \A i \in op[c].ids : NoRec \in possible[i]
    /\ pc[c] = "writeBack" => buf[c] = mirror
    /\ pc[c] \in {"secureWrite", "mirrorWrite"} => HoldsLive(buf[c])
    /\ pc[c] = "mirrorFlush" => mirror = EmptyList
MirrorInv == SecureHolds /\ \A c \in Client : BufferHolds(c)

\* Removing or saving records leaves the others in the list, and what is removed is not live.
LEMMA ChangedHolds ==
  ASSUME IInv, NEW c \in Client, BufferHolds(c), op[c].kind \in {"adopt", "put", "del"}, NEW l \in List, HoldsLive(l)
  PROVE  HoldsLive(Changed(op[c], l))
<1> SUFFICES ASSUME NEW i \in Id, Live(i) PROVE Changed(op[c], l)[i] # NoRec
  BY DEF HoldsLive
<1>1. CASE i \notin op[c].ids
  BY <1>1 DEF Changed, HoldsLive
<1>2. CASE i \in op[c].ids
  <2>1. op[c].kind # "del"
    BY <1>2 DEF BufferHolds, Live
  <2>2. op[c].rec \in Ver
    BY <2>1 DEF IInv, Shape, ShapeOf
  <2> QED
    BY <1>2, <2>2, StoreConstants DEF Changed
<1> QED
  BY <1>1, <1>2

\* While c works the others rest, with nothing in hand.
LEMMA OthersRest ==
  ASSUME IInv, NEW c \in Client, pc[c] # "idle"
  PROVE  \A d \in Client \ {c} : pc[d] = "idle" /\ op[d].kind = "read"
  BY DEF IInv, Exclusive, Shape, ShapeOf, NoOp

\* A step of c that leaves the others alone needs to be looked at for c alone.
LEMMA OneBuffer ==
  ASSUME IInv, NEW c \in Client, pc[c] # "idle", BufferHolds(c)',
         \A d \in Client \ {c} : pc'[d] = pc[d] /\ op'[d] = op[d]
  PROVE  \A d \in Client : BufferHolds(d)'
  BY OthersRest DEF BufferHolds

\* An operation that returns has nothing in hand.
LEMMA FinishHolds ==
  ASSUME IInv, NEW c \in Client, pc[c] # "idle", Finish(c)
  PROVE  \A d \in Client : BufferHolds(d)'
<1>1. BufferHolds(c)'
  BY DEF IInv, TypeOK, Finish, Goto, NoOp, BufferHolds
<1>2. \A d \in Client \ {c} : pc'[d] = pc[d] /\ op'[d] = op[d]
  BY DEF IInv, TypeOK, Finish, Goto
<1> QED
  BY <1>1, <1>2, OneBuffer

\* An operation that goes on with a list that has the live records keeps them.
LEMMA ContinueHolds ==
  ASSUME IInv, NEW c \in Client, pc[c] # "idle", BufferHolds(c), NEW l \in List, HoldsLive(l), Continue(c, l),
         UNCHANGED <<mirror, possible>>
  PROVE  \A d \in Client : BufferHolds(d)'
<1>1. CASE Finish(c)
  BY <1>1, FinishHolds
<1>2. CASE Goto(c, "legacyDelete") /\ UNCHANGED <<op, buf, threw>>
  <2>1. BufferHolds(c)' /\ \A d \in Client \ {c} : pc'[d] = pc[d] /\ op'[d] = op[d]
    BY <1>2 DEF IInv, TypeOK, Goto, BufferHolds
  <2> QED
    BY <2>1, OneBuffer
<1>3. CASE /\ op[c].kind \in {"adopt", "put", "del"}
           /\ buf' = [buf EXCEPT ![c] = Changed(op[c], l)]
           /\ Goto(c, IF Changed(op[c], l) = EmptyList THEN "secureDelete" ELSE "secureWrite")
           /\ UNCHANGED <<op, threw>>
  <2>1. HoldsLive(Changed(op[c], l))
    BY <1>3, ChangedHolds
  <2>2. pc'[c] \in {"secureDelete", "secureWrite"} /\ buf'[c] = Changed(op[c], l) /\ op' = op
        /\ \A d \in Client \ {c} : pc'[d] = pc[d]
    BY <1>3 DEF IInv, TypeOK, Goto
  <2>3. BufferHolds(c)'
    BY <2>1, <2>2 DEF BufferHolds, HoldsLive, Live
  <2> QED
    BY <2>2, <2>3, OneBuffer
<1> QED
  BY <1>1, <1>2, <1>3 DEF Continue

\* A step that moves c on, away from the writes, with disk and operation as they were.
LEMMA MovesHold ==
  ASSUME IInv, MirrorInv, NEW c \in Client, pc[c] # "idle", NEW s \in Steps \ {"writeBack", "secureWrite", "mirrorWrite", "mirrorFlush"},
         Goto(c, s), UNCHANGED <<secure, corrupt, mirror, op, possible>>
  PROVE  MirrorInv'
<1>1. pc'[c] = s /\ \A d \in Client \ {c} : pc'[d] = pc[d]
  BY DEF IInv, TypeOK, Goto
<1>2. BufferHolds(c)'
  BY <1>1 DEF MirrorInv, BufferHolds
<1>3. SecureHolds'
  BY DEF MirrorInv, SecureHolds, HoldsLive, Live
<1> QED
  BY <1>1, <1>2, <1>3, OneBuffer DEF MirrorInv

\* An operation that begins may remove or save records, which makes fewer of them live.
LEMMA StartHolds ==
  ASSUME IInv, MirrorInv, NEW c \in Client, NEW kind \in Kinds, NEW ids \in SUBSET Id, NEW rec \in Rec,
         kind = "del" => rec = NoRec, NEW first \in Steps \ {"writeBack", "secureWrite", "mirrorWrite", "mirrorFlush"},
         Start(c, kind, ids, rec, first)
  PROVE  MirrorInv'
<1>1. \A i \in Id : possible[i] \subseteq possible'[i]
  BY DEF Start
<1>2. \A i \in Id : Live(i)' => Live(i)
  BY <1>1 DEF Start, disk, Live
<1>3. SecureHolds'
  BY <1>2 DEF MirrorInv, SecureHolds, HoldsLive, Start, disk
<1>4. pc'[c] = first /\ op'[c] = [kind |-> kind, ids |-> ids, rec |-> rec]
      /\ \A d \in Client \ {c} : pc'[d] = "idle" /\ op'[d] = op[d]
  BY DEF IInv, TypeOK, Start, Serialised, Goto
<1>5. ASSUME kind = "del", NEW i \in ids PROVE NoRec \in possible'[i]
  BY <1>5 DEF Start
<1>6. BufferHolds(c)'
  BY <1>4, <1>5 DEF BufferHolds
<1>7. \A d \in Client \ {c} : op[d].kind = "read"
  BY DEF IInv, Start, Serialised, Shape, ShapeOf, NoOp
<1>8. \A d \in Client \ {c} : BufferHolds(d)'
  BY <1>4, <1>7 DEF BufferHolds
<1> QED
  BY <1>3, <1>6, <1>8 DEF MirrorInv

\* A list that has been written: secure storage holds what was written, or the keystore has lost all.
LEMMA WrittenHolds ==
  ASSUME IInv, MirrorInv, NEW c \in Client, pc[c] \in {"mirrorWrite", "mirrorFlush"}, NEW missing, Written(c, missing),
         UNCHANGED <<secure, corrupt>>,
         \/ mirror' = buf[c]
         \/ mirror' = mirror /\ (pc[c] = "mirrorFlush" => mirror = EmptyList)
  PROVE  MirrorInv'
<1>1. secure = buf[c] \/ secure = EmptyList
  BY DEF IInv, Shape, ShapeOf
<1>2. SecureHolds'
  <2> SUFFICES ASSUME secure = buf[c], NEW i \in Id, Live(i)' PROVE secure[i] # NoRec
    BY <1>1 DEF SecureHolds, HoldsLive
  <2>1. CASE mirror' = buf[c]
    BY <2>1 DEF Live
  <2>2. CASE mirror' = mirror /\ mirror = EmptyList
    BY <2>2 DEF Live, EmptyList
  <2>3. CASE pc[c] = "mirrorWrite" /\ mirror' = mirror
    <3>1. CASE i \in op[c].ids /\ op[c].kind # "del"
      <4>1. buf[c][i] = op[c].rec /\ op[c].rec \in Ver
        BY <2>3, <3>1 DEF IInv, InFlight, InFlightOf, Shape, ShapeOf
      <4> QED
        BY <4>1, StoreConstants
    <3>2. CASE i \in op[c].ids /\ op[c].kind = "del"
      <4>1. possible'[i] = {NoRec}
        BY <2>3, <3>2 DEF Written, Acknowledged, IInv, Shape, ShapeOf
      <4> QED
        BY <4>1 DEF Live
    <3>3. CASE i \notin op[c].ids
      <4>1. possible'[i] = possible[i]
        BY <3>3 DEF Written, Acknowledged
      <4>2. Live(i)
        BY <2>3, <4>1 DEF Live
      <4> QED
        BY <2>3, <4>2 DEF MirrorInv, BufferHolds, HoldsLive
    <3> QED
      BY <3>1, <3>2, <3>3
  <2> QED
    BY <2>1, <2>2, <2>3
<1>3. CASE op[c].kind # "adopt"
  BY <1>2, <1>3, FinishHolds DEF Written, Acknowledged, MirrorInv
<1>4. CASE op[c].kind = "adopt"
  <2>1. pc'[c] = "legacyDelete" /\ op' = op /\ \A d \in Client \ {c} : pc'[d] = pc[d]
    BY <1>4 DEF IInv, TypeOK, Written, Goto
  <2>2. BufferHolds(c)'
    BY <1>4, <2>1 DEF BufferHolds
  <2> QED
    BY <1>2, <2>1, <2>2, OneBuffer DEF MirrorInv
<1> QED
  BY <1>3, <1>4

\* Every step of a caller keeps it.
LEMMA MirrorStep ==
  ASSUME IInv, MirrorInv, NEW c \in Client, Step(c), "mirrorRead" \notin Faults
  PROVE  MirrorInv'
<1> USE DEF MirrorInv
<1>1. CASE ReadAll(c)
  BY <1>1, StartHolds DEF ReadAll, Kinds, Steps, Rec
<1>2. CASE Upsert(c)
  BY <1>2, StartHolds DEF Upsert, Kinds, Steps, Rec
<1>3. CASE RemoveWhere(c)
  BY <1>3, StartHolds DEF RemoveWhere, Kinds, Steps, Rec
<1>4. CASE WipeListBlob(c)
  BY <1>4, StartHolds DEF WipeListBlob, Kinds, Steps, Rec
<1>5. CASE DropLegacy(c)
  BY <1>5, StartHolds DEF DropLegacy, Kinds, Steps, Rec
<1>6. CASE ReadLegacy(c)
  <2>1. pc'[c] \in {"adoptName", "readList"} /\ (op'[c].kind = "adopt" \/ op' = op)
        /\ \A d \in Client \ {c} : pc'[d] = pc[d] /\ op'[d] = op[d]
    BY <1>6 DEF ReadLegacy, Goto, IInv, TypeOK
  <2>2. BufferHolds(c)' /\ SecureHolds'
    BY <1>6, <2>1 DEF ReadLegacy, disk, history, BufferHolds, SecureHolds, HoldsLive, Live
  <2> QED
    BY <1>6, <2>1, <2>2, OneBuffer DEF ReadLegacy
<1>7. CASE AdoptName(c)
  <2>1. PICK i \in Id : Fresh(i) /\ op' = [op EXCEPT ![c].ids = {i}] /\ possible' = [possible EXCEPT ![i] = {op[c].rec}]
    BY <1>7 DEF AdoptName
  <2>2. op'[c].kind = op[c].kind /\ pc'[c] = "readList" /\ \A d \in Client \ {c} : pc'[d] = pc[d] /\ op'[d] = op[d]
    BY <1>7, <2>1 DEF AdoptName, Goto, IInv, TypeOK
  <2>3. op[c].kind = "adopt"
    BY <1>7 DEF AdoptName, IInv, Shape, ShapeOf
  <2>4. \A j \in Id : Live(j)' => Live(j)
    BY <1>7, <2>1 DEF AdoptName, Fresh, Live, IInv, TypeOK
  <2>5. SecureHolds'
    BY <1>7, <2>4 DEF AdoptName, SecureHolds, HoldsLive
  <2>6. BufferHolds(c)'
    BY <2>2, <2>3 DEF BufferHolds
  <2> QED
    BY <1>7, <2>2, <2>5, <2>6, OneBuffer DEF AdoptName
<1>8. CASE NameFails(c) \/ ReadCorrupt(c) \/ SecureWriteFails(c)
  <2>1. SecureHolds'
    BY <1>8 DEF NameFails, ReadCorrupt, SecureWriteFails, Fail, disk, history, SecureHolds, HoldsLive, Live
  <2> QED
    BY <1>8, <2>1, FinishHolds DEF NameFails, ReadCorrupt, SecureWriteFails, Fail
<1>9. CASE ReadSecure(c)
  <2>1. HoldsLive(secure) /\ secure \in List
    BY <1>9 DEF ReadSecure, SecureHolds, IInv, TypeOK
  <2>2. SecureHolds'
    BY <1>9 DEF ReadSecure, disk, history, SecureHolds, HoldsLive, Live
  <2> QED
    BY <1>9, <2>1, <2>2, ContinueHolds DEF ReadSecure, disk, history
<1>10. CASE ReadNothing(c)
  BY <1>10, MovesHold DEF ReadNothing, Steps, disk, history
<1>11. CASE AdoptMirror(c)
  <2>1. pc'[c] = "writeBack" /\ buf'[c] = mirror /\ op' = op /\ \A d \in Client \ {c} : pc'[d] = pc[d]
    BY <1>11 DEF AdoptMirror, Goto, IInv, TypeOK
  <2>2. BufferHolds(c)' /\ SecureHolds'
    BY <1>11, <2>1 DEF AdoptMirror, disk, BufferHolds, SecureHolds, HoldsLive, Live
  <2> QED
    BY <1>11, <2>1, <2>2, OneBuffer DEF AdoptMirror
<1>12. CASE NoRescue(c)
  <2>1. HoldsLive(EmptyList) /\ EmptyList \in List
    BY <1>12, EmptyListType DEF NoRescue, HoldsLive, Live, EmptyList
  <2>2. SecureHolds'
    BY <1>12 DEF NoRescue, disk, SecureHolds, HoldsLive, Live
  <2> QED
    BY <1>12, <2>1, <2>2, ContinueHolds, FinishHolds DEF NoRescue, disk
<1>13. CASE WriteBack(c)
  <2>1. buf[c] = mirror /\ buf[c] \in List
    BY <1>13 DEF WriteBack, BufferHolds, IInv, TypeOK
  <2>2. HoldsLive(buf[c])
    BY <2>1 DEF HoldsLive, Live
  <2>3. SecureHolds'
    BY <1>13, <2>1 DEF WriteBack, history, SecureHolds, HoldsLive, Live
  <2> QED
    BY <1>13, <2>1, <2>2, <2>3, ContinueHolds DEF WriteBack, history
<1>14. CASE SecureWrite(c)
  <2>1. HoldsLive(buf[c])
    BY <1>14 DEF SecureWrite, BufferHolds
  <2>2. pc'[c] = "mirrorWrite" /\ op' = op /\ \A d \in Client \ {c} : pc'[d] = pc[d]
    BY <1>14 DEF SecureWrite, Goto, IInv, TypeOK
  <2>3. BufferHolds(c)' /\ SecureHolds'
    BY <1>14, <2>1, <2>2 DEF SecureWrite, BufferHolds, SecureHolds, HoldsLive, Live
  <2> QED
    BY <1>14, <2>2, <2>3, OneBuffer DEF SecureWrite
<1>15. CASE MirrorTruncate(c)
  <2>1. \A i \in Id : ~Live(i)'
    BY <1>15 DEF MirrorTruncate, Live, EmptyList
  <2>2. pc'[c] = "mirrorFlush" /\ op' = op /\ \A d \in Client \ {c} : pc'[d] = pc[d]
    BY <1>15 DEF MirrorTruncate, Goto, IInv, TypeOK
  <2>3. BufferHolds(c)' /\ SecureHolds'
    BY <1>15, <2>1, <2>2 DEF MirrorTruncate, BufferHolds, SecureHolds, HoldsLive
  <2> QED
    BY <1>15, <2>2, <2>3, OneBuffer DEF MirrorTruncate
<1>16. CASE MirrorFlush(c)
  BY <1>16, WrittenHolds DEF MirrorFlush
<1>17. CASE MirrorWriteFails(c)
  <2>1. pc[c] = "mirrorFlush" => mirror = EmptyList
    BY DEF BufferHolds
  <2>2. pc[c] \in {"mirrorWrite", "mirrorFlush"} /\ UNCHANGED <<secure, corrupt, mirror>> /\ Written(c, behind')
    BY <1>17 DEF MirrorWriteFails, disk
  <2> QED
    BY <2>1, <2>2, WrittenHolds
<1>18. CASE SecureDelete(c)
  <2>1. pc'[c] = "mirrorDelete" /\ op' = op /\ \A d \in Client \ {c} : pc'[d] = pc[d]
    BY <1>18 DEF SecureDelete, Goto, IInv, TypeOK
  <2>2. BufferHolds(c)' /\ SecureHolds'
    BY <1>18, <2>1 DEF SecureDelete, BufferHolds, SecureHolds
  <2> QED
    BY <1>18, <2>1, <2>2, OneBuffer DEF SecureDelete
<1>19. CASE MirrorDelete(c) \/ MirrorDeleteFails(c)
  <2>1. secure = EmptyList /\ secure' = secure
    BY <1>19 DEF MirrorDelete, MirrorDeleteFails, disk, IInv, Shape, ShapeOf
  <2>2. Finish(c) /\ pc[c] # "idle"
    BY <1>19 DEF MirrorDelete, MirrorDeleteFails, Acknowledged
  <2> QED
    BY <2>1, <2>2, FinishHolds DEF SecureHolds
<1>20. CASE LegacyDelete(c)
  <2>1. SecureHolds'
    BY <1>20 DEF LegacyDelete, history, SecureHolds, HoldsLive, Live
  <2>2. pc[c] # "idle"
    BY <1>20 DEF LegacyDelete
  <2>3. CASE op[c].kind # "adopt"
    BY <1>20, <2>1, <2>2, <2>3, FinishHolds DEF LegacyDelete
  <2>4. CASE op[c].kind = "adopt"
    <3>1. pc'[c] = "readList" /\ op'[c] = NoOp /\ \A d \in Client \ {c} : pc'[d] = pc[d] /\ op'[d] = op[d]
      BY <1>20, <2>4 DEF LegacyDelete, Goto, IInv, TypeOK
    <3>2. BufferHolds(c)'
      BY <3>1 DEF BufferHolds, NoOp
    <3> QED
      BY <2>1, <2>2, <3>1, <3>2, OneBuffer
  <2> QED
    BY <2>3, <2>4
<1> QED
  BY <1>1, <1>2, <1>3, <1>4, <1>5, <1>6, <1>7, <1>8, <1>9, <1>10, <1>11, <1>12, <1>13, <1>14, <1>15,
     <1>16, <1>17, <1>18, <1>19, <1>20 DEF Step

\* It holds at first, and every step keeps it.
LEMMA MirrorNext ==
  /\ Init => MirrorInv
  /\ "mirrorRead" \notin Faults /\ IInv /\ MirrorInv /\ [Next]_vars => MirrorInv'
<1>1. Init => MirrorInv
  BY DEF Init, MirrorInv, SecureHolds, BufferHolds, NoOp
<1>2. ASSUME "mirrorRead" \notin Faults, IInv, MirrorInv, [Next]_vars PROVE MirrorInv'
  <2>1. CASE \E c \in Client : Step(c)
    BY <1>2, <2>1, MirrorStep
  <2>2. CASE Crash
    BY <1>2, <2>2 DEF Crash, disk, history, MirrorInv, SecureHolds, BufferHolds, HoldsLive, Live, NoOp
  <2>3. CASE KeystoreLoss
    BY <1>2, <2>3 DEF KeystoreLoss, local, MirrorInv, SecureHolds, BufferHolds, HoldsLive, Live
  <2>4. CASE Corruption
    BY <1>2, <2>4 DEF Corruption, local, history, MirrorInv, SecureHolds, BufferHolds, HoldsLive, Live
  <2>5. CASE UNCHANGED vars
    BY <1>2, <2>5 DEF vars, disk, local, history, MirrorInv, SecureHolds, BufferHolds, HoldsLive, Live
  <2> QED
    BY <1>2, <2>1, <2>2, <2>3, <2>4, <2>5 DEF Next
<1> QED
  BY <1>1, <1>2

\* "a mutation on a keystore-nulled store can never clobber the mirror's live records" (_readArrOrEmpty,
\* 331-333) holds through crashes, keystore loss, damage to the list and failures of every other storage
\* call; what it takes to break it is a read of the mirror that fails.
THEOREM ClobberNeedsMirrorRead == ASSUME "mirrorRead" \notin Faults PROVE Spec => []MirrorNeverClobbered
<1>1. MirrorInv => MirrorNeverClobbered
  BY DEF MirrorInv, BufferHolds, HoldsLive, Live, MirrorNeverClobbered
<1>2. Spec => []MirrorInv
  <2>1. IInv /\ MirrorInv /\ [Next]_vars => MirrorInv'
    BY MirrorNext
  <2> QED
    BY <2>1, MirrorNext, Inductive, PTL DEF Spec
<1> QED
  BY <1>1, <1>2, PTL
=============================================================================
