--------------------------- MODULE Wallet_proofs ----------------------------
(***************************************************************************)
(* What the wallet of the Rust core promises: a fresh view (WalletScan),   *)
(* each payment made once (WalletTx), a taker who never loses his leg      *)
(* without the other (HtlcLegs), signatures of what was reviewed only      *)
(* (OpenAmp), offers listed as they were signed (SeqobWire), and a device  *)
(* that answers each request in its place (DeviceLink).  The names of a part begin with that of its actions.      *)
(***************************************************************************)
EXTENDS WalletScan, WalletTx, HtlcLegs, OpenAmp, SeqobWire, DeviceLink, SequenceTheorems, TLAPS

(***************************************************************************)
(* WalletScan: for any pool of workers, TTL, length of a scan and number   *)
(* of faults.                                                              *)
(***************************************************************************)

\* A mark is only on a wollet that is as young as the mark says, and a scan runs only without one.
ScanAgeInv ==
  /\ mark < TTL => wollet # None /\ viewAge <= mark + ScanTicks
  /\ \A w \in Workers : /\ pc[w] \in {"scan", "rescan"} => mark = TTL
                        /\ pc[w] = "mark" => viewAge <= ScanTicks
                        /\ pc[w] = "run" => viewAge <= TTL + ScanTicks

\* What the server has, what a scan read and what the wollet shows, against the broadcasts that returned.
ScanSeenInv ==
  /\ own <= server.ver
  /\ mark < TTL => wollet # None /\ own <= wollet.view.ver
  /\ \A w \in Workers :
       /\ floor[w] <= server.ver
       /\ pc[w] = "want" => floor[w] <= own
       /\ pc[w] \in {"scan", "rescan"} => own <= answer.ver /\ floor[w] <= answer.ver
       /\ pc[w] = "mark" => own <= wollet.view.ver /\ floor[w] <= wollet.view.ver
       /\ pc[w] = "run" => floor[w] <= wollet.view.ver

ScanInv == ScanTypeOK /\ ScanAgeInv /\ ScanSeenInv

\* The constants as numbers, None not a wollet nor a worker.
LEMMA ScanNumbers ==
  /\ TTL \in Nat /\ 0 < TTL /\ ScanTicks \in Nat /\ MaxVer \in Nat /\ MaxTip \in Nat /\ MaxFaults \in Nat
  /\ MaxAge \in Nat /\ MaxAge = TTL + ScanTicks + 1
  /\ None \notin Workers /\ None \notin Wollet
BY ScanConstants DEF MaxAge

\* Initially there is no wollet.
LEMMA ScanInitInv == ScanInit => ScanInv
<1> SUFFICES ASSUME ScanInit PROVE ScanInv
  OBVIOUS
<1>1. /\ Fresh \in Seen /\ server \in Seen /\ server.ver = 0
      /\ disk = Fresh /\ answer = Fresh /\ wollet = None
  BY ScanNumbers DEF ScanInit, Seen, Fresh
<1>2. /\ mark = TTL /\ scanAge = 0 /\ viewAge = MaxAge /\ lockedBy = None /\ poisoned = FALSE /\ lost = 0
      /\ pc = [w \in Workers |-> "idle"] /\ own = 0 /\ floor = [w \in Workers |-> 0]
  BY DEF ScanInit
<1>3. ScanTypeOK
  <2>1. mark \in 0..TTL /\ scanAge \in 0..ScanTicks /\ viewAge \in 0..MaxAge /\ lost \in 0..MaxFaults
        /\ own \in 0..MaxVer /\ floor \in [Workers -> 0..MaxVer]
    BY <1>2, ScanNumbers
  <2>2. pc \in [Workers -> Steps] /\ \A w \in Workers : pc[w] \notin Inside /\ lockedBy # w
    BY <1>2, ScanNumbers DEF Steps, Inside
  <2> QED BY <1>1, <1>2, <2>1, <2>2 DEF ScanTypeOK
<1>4. ScanAgeInv /\ ScanSeenInv
  BY <1>1, <1>2, ScanNumbers DEF ScanAgeInv, ScanSeenInv
<1> QED BY <1>3, <1>4 DEF ScanInv

\* What a wollet is, field by field.
LEMMA WolletFields ==
  ASSUME NEW x \in Wollet
  PROVE  /\ x.view \in Seen /\ x.backed \in BOOLEAN
         /\ x.view.ver \in 0 .. MaxVer /\ x.view.tip \in 0 .. MaxTip
BY DEF Wollet, Seen

\* The mutex: nobody but its owner is inside.
LEMMA ScanAlone ==
  ASSUME ScanTypeOK, NEW w \in Workers, pc[w] \in Inside
  PROVE  lockedBy = w /\ wollet \in Wollet /\ \A v \in Workers : v # w => pc[v] \notin Inside
BY ScanNumbers DEF ScanTypeOK

\* Nobody is inside while it can be taken.
LEMMA ScanFree ==
  ASSUME ScanTypeOK, CanLock
  PROVE  \A v \in Workers : pc[v] \notin Inside
BY ScanNumbers DEF ScanTypeOK, CanLock

\* A call begins with the broadcasts that have returned.
LEMMA ScanCallStep ==
  ASSUME ScanInv, NEW w \in Workers, Call(w)
  PROVE  ScanInv'
<1>1. /\ pc' = [pc EXCEPT ![w] = "want"] /\ pc[w] = "idle"
      /\ floor' = [floor EXCEPT ![w] = own]
      /\ UNCHANGED <<server, wollet, disk, mark, lockedBy, poisoned, answer, scanAge, viewAge, lost, own>>
  BY DEF Call, Goto
<1>2. ScanTypeOK'
  BY <1>1 DEF ScanInv, ScanTypeOK, Steps, Inside
<1>3. ScanAgeInv'
  BY <1>1 DEF ScanInv, ScanTypeOK, ScanAgeInv
<1>4. ScanSeenInv'
  BY <1>1, ScanNumbers DEF ScanInv, ScanTypeOK, ScanSeenInv, Seen
<1> QED BY <1>2, <1>3, <1>4 DEF ScanInv

\* The mutex is taken: by a call that shares a scan, or by one that starts one.
LEMMA ScanEnterStep ==
  ASSUME ScanInv, NEW w \in Workers, NEW b \in BOOLEAN, Enter(w, b)
  PROVE  ScanInv'
<1>1. /\ pc[w] = "want" /\ lockedBy' = w
      /\ UNCHANGED <<server, disk, mark, poisoned, viewAge, lost, own, floor>>
      /\ \A v \in Workers : pc[v] \notin Inside
  BY ScanFree DEF Enter, ScanInv
<1>2. wollet' \in Wollet /\ (wollet # None => wollet' = wollet)
  BY ScanNumbers DEF Enter, Build, Wollet, Fresh, Seen, ScanInv, ScanTypeOK
<1>3. wollet' # None
  BY <1>2, ScanNumbers
<1>4. CASE ScannedRecently /\ pc' = [pc EXCEPT ![w] = "run"] /\ UNCHANGED <<answer, scanAge>>
  <2>1. wollet # None /\ wollet' = wollet /\ viewAge <= mark + ScanTicks /\ mark < TTL
        /\ own <= wollet.view.ver /\ floor[w] <= own
    BY <1>1, <1>2, <1>4 DEF ScanInv, ScanAgeInv, ScanSeenInv, ScannedRecently
  <2>2. ScanTypeOK'
    BY <1>1, <1>2, <1>3, <1>4, ScanNumbers DEF ScanInv, ScanTypeOK, Steps, Inside
  <2>3. ScanAgeInv'
    BY <1>1, <1>4, <2>1, ScanNumbers DEF ScanInv, ScanTypeOK, ScanAgeInv, Inside
  <2>4. ScanSeenInv'
    <3>1. own \in Nat /\ floor[w] \in Nat /\ wollet.view.ver \in Nat
      BY <2>1, WolletFields, ScanNumbers DEF ScanInv, ScanTypeOK
    <3>2. floor[w] <= wollet.view.ver
      BY <2>1, <3>1
    <3> QED BY <1>1, <1>4, <2>1, <3>2 DEF ScanInv, ScanTypeOK, ScanSeenInv, Inside
  <2> QED BY <2>2, <2>3, <2>4 DEF ScanInv
<1>5. CASE ~ScannedRecently /\ StartScan(w, "scan")
  <2>1. /\ pc' = [pc EXCEPT ![w] = "scan"] /\ answer' = server /\ scanAge' = 0 /\ mark = TTL
    BY <1>5, ScanNumbers DEF StartScan, Goto, ScannedRecently, ScanInv, ScanTypeOK
  <2>2. ScanTypeOK'
    BY <1>1, <1>2, <1>3, <2>1, ScanNumbers DEF ScanInv, ScanTypeOK, Steps, Inside
  <2>3. ScanAgeInv'
    BY <1>1, <2>1 DEF ScanInv, ScanTypeOK, ScanAgeInv, Inside
  <2>4. ScanSeenInv'
    BY <1>1, <2>1 DEF ScanInv, ScanTypeOK, ScanSeenInv, Inside
  <2> QED BY <2>2, <2>3, <2>4 DEF ScanInv
<1> QED BY <1>4, <1>5 DEF Enter, Goto

\* The update of a scan makes the view as old as the scan.
LEMMA ScanApplyStep ==
  ASSUME ScanInv, NEW w \in Workers, Apply(w)
  PROVE  ScanInv'
<1>1. /\ pc[w] \in {"scan", "rescan"} /\ pc' = [pc EXCEPT ![w] = "mark"]
      /\ viewAge' = scanAge /\ answer' = Fresh /\ scanAge' = 0
      /\ disk' \in {answer, disk}
      /\ UNCHANGED <<server, mark, lockedBy, poisoned, lost, own, floor>>
  BY DEF Apply, Goto, ScanOver
<1>2. /\ lockedBy = w /\ wollet \in Wollet /\ mark = TTL
      /\ \A v \in Workers : v # w => pc[v] \notin Inside
  BY <1>1, ScanAlone DEF ScanInv, ScanAgeInv, Inside
<1>3. wollet' \in Wollet /\ wollet'.view = answer
  BY <1>2 DEF Apply, Wollet, ScanInv, ScanTypeOK
<1>4. wollet' # None
  BY <1>3, ScanNumbers
<1>5. ScanTypeOK'
  BY <1>1, <1>2, <1>3, <1>4, ScanNumbers DEF ScanInv, ScanTypeOK, Steps, Inside, Seen, Fresh
<1>6. ScanAgeInv'
  BY <1>1, <1>2, ScanNumbers DEF ScanInv, ScanTypeOK, ScanAgeInv, Inside
<1>7. ScanSeenInv'
  BY <1>1, <1>2, <1>3 DEF ScanInv, ScanTypeOK, ScanSeenInv, Inside
<1> QED BY <1>5, <1>6, <1>7 DEF ScanInv

\* The wollet is thrown away under the mutex, and nothing marks it fresh meanwhile.
LEMMA ScanRebuildStep ==
  ASSUME ScanInv, NEW w \in Workers, NEW b \in BOOLEAN, Rebuild(w, b)
  PROVE  ScanInv'
<1>1. /\ pc[w] = "scan" /\ pc' = [pc EXCEPT ![w] = "rescan"]
      /\ wollet' = [view |-> Fresh, backed |-> b] /\ disk' = Fresh /\ viewAge' = MaxAge
      /\ answer' = server /\ scanAge' = 0
      /\ UNCHANGED <<server, mark, lockedBy, poisoned, lost, own, floor>>
  BY DEF Rebuild, StartScan, Goto
<1>2. /\ lockedBy = w /\ mark = TTL /\ lockedBy # None
      /\ \A v \in Workers : v # w => pc[v] \notin Inside
  BY <1>1, ScanAlone, ScanNumbers DEF ScanInv, ScanAgeInv, Inside
<1>3. wollet' \in Wollet /\ Fresh \in Seen
  BY <1>1, ScanNumbers DEF Wollet, Fresh, Seen
<1>4. wollet' # None
  BY <1>3, ScanNumbers
<1>5. ScanTypeOK'
  BY <1>1, <1>2, <1>3, <1>4, ScanNumbers DEF ScanInv, ScanTypeOK, Steps, Inside
<1>6. ScanAgeInv'
  BY <1>1, <1>2 DEF ScanInv, ScanTypeOK, ScanAgeInv, Inside
<1>7. ScanSeenInv'
  BY <1>1, <1>2 DEF ScanInv, ScanTypeOK, ScanSeenInv, Inside
<1> QED BY <1>5, <1>6, <1>7 DEF ScanInv

\* The scan is marked while nobody else is inside; the call then runs on what it brought.
LEMMA ScanMarkStep ==
  ASSUME ScanInv, NEW w \in Workers, MarkScanned(w)
  PROVE  ScanInv'
<1>1. /\ pc[w] = "mark" /\ pc' = [pc EXCEPT ![w] = "run"] /\ mark' = 0
      /\ UNCHANGED <<server, wollet, disk, lockedBy, poisoned, answer, scanAge, viewAge, lost, own, floor>>
  BY DEF MarkScanned, Goto
<1>2. /\ lockedBy = w /\ wollet \in Wollet /\ wollet # None
      /\ \A v \in Workers : v # w => pc[v] \notin Inside
  BY <1>1, ScanAlone, ScanNumbers DEF ScanInv, Inside
<1>3. ScanTypeOK'
  BY <1>1, <1>2, ScanNumbers DEF ScanInv, ScanTypeOK, Steps, Inside
<1>4. ScanAgeInv'
  BY <1>1, <1>2, ScanNumbers DEF ScanInv, ScanTypeOK, ScanAgeInv, Inside
<1>5. ScanSeenInv'
  BY <1>1, <1>2 DEF ScanInv, ScanTypeOK, ScanSeenInv, Inside
<1> QED BY <1>3, <1>4, <1>5 DEF ScanInv

\* A call that ends, well or not, leaves the wollet and its mark.
LEMMA ScanReturnStep ==
  ASSUME ScanInv, NEW w \in Workers, ScanFails(w) \/ Run(w) \/ Panic(w)
  PROVE  ScanInv'
<1>1. /\ pc[w] \in Inside /\ pc' = [pc EXCEPT ![w] = "idle"] /\ floor' = [floor EXCEPT ![w] = 0]
      /\ lockedBy' = None /\ lost' \in 0 .. MaxFaults /\ poisoned' \in BOOLEAN
      /\ answer' \in {answer, Fresh} /\ scanAge' \in {scanAge, 0}
      /\ UNCHANGED <<server, wollet, disk, mark, viewAge, own>>
  <2>1. lost \in 0 .. MaxFaults /\ poisoned \in BOOLEAN
    BY DEF ScanInv, ScanTypeOK
  <2>2. lost < MaxFaults => lost + 1 \in 0 .. MaxFaults
    BY <2>1, ScanNumbers
  <2>3. CASE ScanFails(w)
    BY <2>1, <2>2, <2>3 DEF ScanFails, Return, Goto, ScanOver, Inside
  <2>4. CASE Run(w)
    BY <2>1, <2>4 DEF Run, Return, Goto, Inside
  <2>5. CASE Panic(w)
    BY <2>1, <2>2, <2>5 DEF Panic, Return, Goto, Inside
  <2> QED BY <2>3, <2>4, <2>5
<1>2. lockedBy = w /\ \A v \in Workers : v # w => pc[v] \notin Inside
  BY <1>1, ScanAlone DEF ScanInv
<1>3. ScanTypeOK'
  BY <1>1, <1>2, ScanNumbers DEF ScanInv, ScanTypeOK, Steps, Inside, Seen, Fresh
<1>4. ScanAgeInv'
  BY <1>1, <1>2 DEF ScanInv, ScanTypeOK, ScanAgeInv, Inside
<1>5. ScanSeenInv'
  BY <1>1, <1>2, ScanNumbers DEF ScanInv, ScanTypeOK, ScanSeenInv, Inside, Seen
<1> QED BY <1>3, <1>4, <1>5 DEF ScanInv

\* The server's coins only change forwards.
LEMMA ScanServerMoves ==
  ASSUME ScanInv, server' \in Seen, server.ver <= server'.ver,
         UNCHANGED <<wollet, disk, mark, lockedBy, poisoned, pc, answer, scanAge, viewAge, lost, own, floor>>
  PROVE  ScanInv'
<1>1. ScanTypeOK' /\ ScanAgeInv'
  BY DEF ScanInv, ScanTypeOK, ScanAgeInv
<1>2. server.ver \in Nat /\ server'.ver \in Nat /\ own \in Nat /\ \A w \in Workers : floor[w] \in Nat
  BY ScanNumbers DEF ScanInv, ScanTypeOK, Seen
<1>3. ScanSeenInv'
  BY <1>2 DEF ScanInv, ScanSeenInv
<1> QED BY <1>1, <1>3 DEF ScanInv

\* A broadcast that its wallet has to see.
LEMMA ScanBroadcastStep ==
  ASSUME ScanInv, NEW w \in Workers, Broadcast(w)
  PROVE  ScanInv'
<1>1. /\ pc[w] = "idle" /\ pc' = [pc EXCEPT ![w] = "sent"]
      /\ floor' = [floor EXCEPT ![w] = server.ver + 1]
      /\ server.ver + 1 <= MaxVer /\ server' = [server EXCEPT !.ver = server.ver + 1]
      /\ UNCHANGED <<wollet, disk, mark, lockedBy, poisoned, answer, scanAge, viewAge, lost, own>>
  BY DEF Broadcast, Goto, Changes
<1>2. server.ver \in Nat /\ server'.ver = server.ver + 1 /\ server' \in Seen /\ own \in Nat
      /\ \A v \in Workers : floor[v] \in Nat
  BY <1>1, ScanNumbers DEF ScanInv, ScanTypeOK, Seen
<1>3. ScanTypeOK'
  BY <1>1, <1>2, ScanNumbers DEF ScanInv, ScanTypeOK, Steps, Inside
<1>4. ScanAgeInv'
  BY <1>1 DEF ScanInv, ScanTypeOK, ScanAgeInv
<1>5. ScanSeenInv'
  BY <1>1, <1>2 DEF ScanInv, ScanTypeOK, ScanSeenInv
<1> QED BY <1>3, <1>4, <1>5 DEF ScanInv

\* Its return drops the mark; it counts as seen by later calls only when no scan is under way.
LEMMA ScanClearStep ==
  ASSUME ScanInv, NEW w \in Workers, ClearScanMarks(w)
  PROVE  ScanInv'
<1>1. /\ pc[w] = "sent" /\ pc' = [pc EXCEPT ![w] = "idle"] /\ floor' = [floor EXCEPT ![w] = 0]
      /\ mark' = TTL
      /\ UNCHANGED <<server, wollet, disk, lockedBy, poisoned, answer, scanAge, viewAge, lost>>
  BY DEF ClearScanMarks, Return, Goto
<1>2. \/ own' = own
      \/ /\ own' = floor[w] /\ own < floor[w]
         /\ \A v \in Workers : pc[v] \notin {"scan", "rescan", "mark"}
  BY DEF ClearScanMarks
<1>3. own \in 0 .. MaxVer /\ floor[w] \in 0 .. MaxVer /\ floor[w] <= server.ver /\ own <= server.ver
      /\ server.ver \in Nat
  BY DEF ScanInv, ScanTypeOK, ScanSeenInv, Seen
<1>4. ScanTypeOK'
  BY <1>1, <1>2, <1>3, ScanNumbers DEF ScanInv, ScanTypeOK, Steps, Inside
<1>5. ScanAgeInv'
  BY <1>1, ScanNumbers DEF ScanInv, ScanTypeOK, ScanAgeInv
<1>6. ScanSeenInv'
  <2>1. \A v \in Workers : floor[v] \in Nat
    BY ScanNumbers DEF ScanInv, ScanTypeOK
  <2>2. CASE own' = own
    BY <1>1, <1>3, <2>1, <2>2, ScanNumbers DEF ScanInv, ScanTypeOK, ScanSeenInv
  <2>3. CASE own' = floor[w] /\ own < floor[w]
             /\ \A v \in Workers : pc[v] \notin {"scan", "rescan", "mark"}
    <3>1. \A v \in Workers : pc[v] = "want" => floor[v] <= floor[w]
      BY <1>3, <2>1, <2>3, ScanNumbers DEF ScanInv, ScanSeenInv
    <3> QED BY <1>1, <1>3, <2>1, <2>3, <3>1, ScanNumbers DEF ScanInv, ScanTypeOK, ScanSeenInv
  <2> QED BY <1>2, <2>2, <2>3
<1> QED BY <1>4, <1>5, <1>6 DEF ScanInv

\* A broadcast whose answer is lost promises nothing.
LEMMA ScanLostStep ==
  ASSUME ScanInv, NEW w \in Workers, AnswerLost(w)
  PROVE  ScanInv'
<1>1. /\ pc[w] = "sent" /\ pc' = [pc EXCEPT ![w] = "idle"] /\ floor' = [floor EXCEPT ![w] = 0]
      /\ lost' \in 0 .. MaxFaults
      /\ UNCHANGED <<server, wollet, disk, mark, lockedBy, poisoned, answer, scanAge, viewAge, own>>
  BY ScanNumbers DEF AnswerLost, Return, Goto, ScanInv, ScanTypeOK
<1>2. ScanTypeOK'
  BY <1>1, ScanNumbers DEF ScanInv, ScanTypeOK, Steps, Inside
<1>3. ScanAgeInv'
  BY <1>1 DEF ScanInv, ScanTypeOK, ScanAgeInv
<1>4. ScanSeenInv'
  BY <1>1, ScanNumbers DEF ScanInv, ScanTypeOK, ScanSeenInv, Seen
<1> QED BY <1>2, <1>3, <1>4 DEF ScanInv

\* A tick ages the view and the mark alike, and no call stands between the mutex and its return.
LEMMA ScanTickStep ==
  ASSUME ScanInv, Tick
  PROVE  ScanInv'
<1>1. /\ \A w \in Workers : pc[w] \notin {"mark", "run"}
      /\ scanAge' \in 0 .. ScanTicks
      /\ mark' = (IF mark + 1 < TTL THEN mark + 1 ELSE TTL)
      /\ viewAge' = (IF viewAge + 1 < MaxAge THEN viewAge + 1 ELSE MaxAge)
      /\ UNCHANGED <<server, wollet, disk, lockedBy, poisoned, pc, answer, lost, own, floor>>
  BY ScanNumbers DEF Tick, Older, Local, ScanInv, ScanTypeOK
<1>2. mark' \in 0 .. TTL /\ viewAge' \in 0 .. MaxAge
  BY <1>1, ScanNumbers DEF ScanInv, ScanTypeOK
<1>3. mark' < TTL => mark < TTL /\ mark' = mark + 1 /\ viewAge' <= viewAge + 1
  BY <1>1, ScanNumbers DEF ScanInv, ScanTypeOK
<1>4. mark = TTL => mark' = TTL
  BY <1>1, ScanNumbers DEF ScanInv, ScanTypeOK
<1>5. ScanTypeOK'
  BY <1>1, <1>2, ScanNumbers DEF ScanInv, ScanTypeOK
<1>6. ScanAgeInv'
  BY <1>1, <1>2, <1>3, <1>4, ScanNumbers DEF ScanInv, ScanTypeOK, ScanAgeInv
<1>7. ScanSeenInv'
  BY <1>1, <1>3 DEF ScanInv, ScanSeenInv
<1> QED BY <1>5, <1>6, <1>7 DEF ScanInv

\* A restart forgets the mark with the wollet.
LEMMA ScanRestartStep ==
  ASSUME ScanInv, Restart
  PROVE  ScanInv'
<1>1. /\ lost' \in 0 .. MaxFaults /\ wollet' = None /\ mark' = TTL /\ lockedBy' = None /\ poisoned' = FALSE
      /\ pc' = [w \in Workers |-> "idle"] /\ floor' = [w \in Workers |-> 0]
      /\ answer' = Fresh /\ scanAge' = 0
      /\ UNCHANGED <<server, disk, viewAge, own>>
  <2>1. lost \in 0 .. MaxFaults
    BY DEF ScanInv, ScanTypeOK
  <2>2. lost < MaxFaults => lost + 1 \in 0 .. MaxFaults
    BY <2>1, ScanNumbers
  <2> QED BY <2>2 DEF Restart, ScanOver
<1>2. Fresh \in Seen
  BY ScanNumbers DEF Fresh, Seen
<1>3. ScanTypeOK'
  <2>1. /\ pc' \in [Workers -> Steps] /\ \A w \in Workers : pc'[w] \notin Inside /\ w # None
        /\ floor' \in [Workers -> 0..MaxVer]
    BY <1>1, ScanNumbers DEF Steps, Inside
  <2>2. mark' \in 0..TTL /\ scanAge' \in 0..ScanTicks
    BY <1>1, ScanNumbers
  <2> QED BY <1>1, <1>2, <2>1, <2>2 DEF ScanInv, ScanTypeOK
<1>4. ScanAgeInv'
  BY <1>1, ScanNumbers DEF ScanAgeInv
<1>5. ScanSeenInv'
  <2>1. \A w \in Workers : pc'[w] = "idle" /\ floor'[w] = 0
    BY <1>1
  <2>2. server.ver \in Nat /\ own <= server.ver
    BY ScanNumbers DEF ScanInv, ScanTypeOK, ScanSeenInv, Seen
  <2>3. ~(mark' < TTL)
    BY <1>1, ScanNumbers
  <2> QED BY <1>1, <2>1, <2>2, <2>3 DEF ScanSeenInv
<1> QED BY <1>3, <1>4, <1>5 DEF ScanInv

\* The invariant is inductive.
LEMMA ScanStep == ScanInv /\ [ScanNext]_scanVars => ScanInv'
<1> SUFFICES ASSUME ScanInv, [ScanNext]_scanVars PROVE ScanInv'
  OBVIOUS
<1>1. CASE UNCHANGED scanVars
  BY <1>1 DEF scanVars, ScanInv, ScanTypeOK, ScanAgeInv, ScanSeenInv
<1>2. ASSUME NEW w \in Workers, ScanWork(w) PROVE ScanInv'
  BY <1>2, ScanApplyStep, ScanMarkStep, ScanReturnStep, ScanClearStep, ScanRebuildStep DEF ScanWork
<1>3. ASSUME NEW w \in Workers,
             Call(w) \/ (\E b \in BOOLEAN : Enter(w, b)) \/ ScanFails(w) \/ Panic(w)
               \/ Broadcast(w) \/ AnswerLost(w)
      PROVE  ScanInv'
  BY <1>3, ScanCallStep, ScanEnterStep, ScanReturnStep, ScanBroadcastStep, ScanLostStep
<1>4. CASE RawBroadcast
  <2>1. server' \in Seen /\ server.ver <= server'.ver
    BY <1>4, ScanNumbers DEF RawBroadcast, Changes, ScanInv, ScanTypeOK, Seen
  <2> QED BY <1>4, <2>1, ScanServerMoves DEF RawBroadcast
<1>5. ASSUME NEW t \in 0 .. MaxTip, ChainMoves(t) PROVE ScanInv'
  <2>1. server' \in Seen /\ server.ver <= server'.ver
    BY <1>5, ScanNumbers DEF ChainMoves, ScanInv, ScanTypeOK, Seen
  <2> QED BY <1>5, <2>1, ScanServerMoves DEF ChainMoves
<1> QED BY <1>1, <1>2, <1>3, <1>4, <1>5, ScanTickStep, ScanRestartStep DEF ScanNext

\* Every reachable state of the shared wallet satisfies the invariant that ties the mark to the age of the
\* view and to the broadcasts that have returned.
THEOREM ScanInductive == ScanSpec => []ScanInv
BY ScanInitInv, ScanStep, PTL DEF ScanSpec

\* Types, one owner of the mutex, and a wollet under it: the "just inserted" and "present after sync" of
\* with_synced_wollet (mod.rs:1804, 1821), for every pool of threads.
THEOREM ScanTypeCorrect == ScanSpec => []ScanTypeOK
<1>1. ScanInv => ScanTypeOK
  BY DEF ScanInv
<1> QED BY <1>1, ScanInductive, PTL

\* What a call shows or builds on is never older than a TTL and a scan, and never from before a broadcast
\* that returned before the call began with no scan under way (with_synced_wollet, clear_scan_marks).
THEOREM FreshViewAlways == ScanSpec => []FreshView
<1>1. ScanInv => FreshView
  <2> SUFFICES ASSUME ScanInv PROVE FreshView
    OBVIOUS
  <2>1. BoundedStaleness
    BY DEF ScanInv, ScanAgeInv, BoundedStaleness
  <2>2. OwnBroadcastSeen
    BY DEF ScanInv, ScanSeenInv, OwnBroadcastSeen
  <2> QED BY <2>1, <2>2 DEF FreshView
<1> QED BY <1>1, ScanInductive, PTL

-----------------------------------------------------------------------------
(***************************************************************************)
(* WalletTx: for any coins and any number of transactions.                 *)
(***************************************************************************)

\* Every transaction the wallet or the node still knows.
TxKnown == review \cup mempool \cup confirmed \cup shown.mempool \cup shown.confirmed

\* A payment keeps its coins through every bump and replacement; its number was given when it was built.
TxPayInv ==
    /\ shown \in Shown
    /\ \A t \in TxKnown : t.ins # {} /\ t.pay <= made
    /\ \A t, u \in TxKnown : t.pay # 0 /\ t.pay = u.pay => t.ins = u.ins

TxInv == TxTypeOK /\ TxPayInv

\* The initial state satisfies the invariant: nothing was built.
LEMMA TxInitInv == TxInit => TxInv
BY TxConstants DEF TxInit, TxInv, TxTypeOK, TxPayInv, TxKnown, Shown

\* What the wallet takes to be unspent are coins.
LEMMA UnspentCoins == TxInv => Unspent \subseteq Coin
BY DEF TxInv, TxTypeOK, Unspent, Exists, Coin, Tx, Shown

\* A build keeps the invariant if it takes coins, and those of the payment when it names an old one.
LEMMA TxFinishInv ==
    ASSUME TxInv, NEW pay \in 0..MaxTx, NEW ins \in SUBSET Coin, NEW fee, Finish(pay, ins, fee),
           ins # {}, pay <= made + 1,
           \A t \in TxKnown : pay # 0 /\ t.pay = pay => t.ins = ins
    PROVE  TxInv'
<1> DEFINE new == [id |-> made + 1, pay |-> pay, ins |-> ins, fee |-> fee]
<1>1. made \in Nat /\ made < MaxTx /\ made' = made + 1 /\ fee \in 1..MaxFee
  BY TxConstants DEF Finish, TxInv, TxTypeOK, Shown
<1>2. new \in Tx
  BY <1>1, TxConstants DEF Tx, Ids
<1>3. review' = review \cup {new} /\ UNCHANGED <<mempool, confirmed, shown>>
  BY DEF Finish
<1>4. TxTypeOK'
  BY <1>1, <1>2, <1>3, TxConstants DEF TxInv, TxTypeOK, Shown
<1>5. TxKnown' = TxKnown \cup {new}
  BY <1>3 DEF TxKnown
<1>6. TxKnown \subseteq Tx
  BY DEF TxKnown, TxInv, TxTypeOK, TxPayInv, Shown
<1>7. \A t \in TxKnown' : t.ins # {} /\ t.pay <= made'
  <2>1. ASSUME NEW t \in TxKnown PROVE t.ins # {} /\ t.pay <= made + 1
    BY <2>1, <1>1, <1>6, TxConstants DEF TxInv, TxPayInv, Tx, Shown
  <2>2. new.ins # {} /\ new.pay <= made + 1
    OBVIOUS
  <2> QED BY <2>1, <2>2, <1>1, <1>5
<1>8. \A t, u \in TxKnown' : t.pay # 0 /\ t.pay = u.pay => t.ins = u.ins
  <2>1. \A t, u \in TxKnown : t.pay # 0 /\ t.pay = u.pay => t.ins = u.ins
    BY DEF TxInv, TxPayInv, Shown
  <2>2. new.pay = pay /\ new.ins = ins
    OBVIOUS
  <2> HIDE DEF new
  <2> QED BY <2>1, <2>2, <1>5
<1> QED BY <1>3, <1>4, <1>7, <1>8 DEF TxInv, TxPayInv, Shown

\* A new payment has a number no transaction has.
LEMMA TxSelectInv ==
    ASSUME TxInv, NEW fee, Select(fee)
    PROVE  TxInv'
<1>1. PICK c \in Unspent : Finish(made + 1, {c}, fee)
  BY DEF Select
<1>2. made \in Nat /\ made + 1 \in 0..MaxTx /\ {c} \in SUBSET Coin
  BY <1>1, UnspentCoins, TxConstants DEF Finish, TxInv, TxTypeOK, Shown
<1>3. \A t \in TxKnown : t.pay \in Nat /\ t.pay <= made
  BY TxConstants DEF TxInv, TxPayInv, TxTypeOK, TxKnown, Tx, Shown
<1>4. \A t \in TxKnown : t.pay # made + 1
  BY <1>2, <1>3
<1> QED BY <1>1, <1>2, <1>4, TxFinishInv

\* A bump or replacement of a payment the wallet sees keeps that payment's coins.
LEMMA TxAgainInv ==
    ASSUME TxInv, NEW t \in shown.mempool, NEW fee, Finish(t.pay, t.ins, fee)
    PROVE  TxInv'
<1>1. t \in TxKnown /\ t \in Tx
  BY DEF TxKnown, TxInv, TxPayInv, Shown
<1>2. t.pay \in 0..MaxTx /\ t.ins \in SUBSET Coin /\ t.ins # {} /\ t.pay <= made + 1
  BY <1>1, TxConstants DEF TxInv, TxPayInv, TxTypeOK, Tx, Shown
<1>3. \A u \in TxKnown : t.pay # 0 /\ u.pay = t.pay => u.ins = t.ins
  BY <1>1 DEF TxInv, TxPayInv, Shown
<1> QED BY <1>2, <1>3, TxFinishInv

\* Every step keeps the invariant.
LEMMA TxNextInv == TxInv /\ [TxNext]_txVars => TxInv'
<1> SUFFICES ASSUME TxInv, [TxNext]_txVars PROVE TxInv'
  OBVIOUS
<1>1. ASSUME NEW r \in Request, NEW fee \in 1..MaxFee,
             \/ BuildSend(r, fee) \/ BuildStake(r, fee)
             \/ BuildIssue(r, fee) \/ BuildReissue(r, fee) \/ BuildBurn(r, fee)
      PROVE  TxInv'
  BY <1>1, TxSelectInv DEF BuildSend, BuildStake, BuildIssue, BuildReissue, BuildBurn
<1>2. ASSUME NEW r, NEW fee \in 1..MaxFee, NEW t \in shown.mempool,
             BuildRbfReplace(t, r, fee) \/ BuildRbfBump(t, fee)
      PROVE  TxInv'
  BY <1>2, TxAgainInv DEF BuildRbfReplace, BuildRbfBump
<1>3. ASSUME NEW t \in shown.mempool, NEW fee \in 1..MaxFee, BuildCpfp(t, fee)
      PROVE  TxInv'
  <2>1. Finish(0, {t.id}, fee) /\ {t.id} \in SUBSET Coin
    BY <1>3, UnspentCoins DEF BuildCpfp
  <2>2. 0 \in 0..MaxTx /\ 0 <= made + 1
    BY TxConstants DEF TxInv, TxTypeOK, Shown
  <2> QED BY <2>1, <2>2, TxFinishInv
<1>4. ASSUME NEW t \in review, Drop(t) PROVE TxInv'
  BY <1>4 DEF Drop, TxInv, TxTypeOK, TxPayInv, TxKnown, Shown
<1>5. ASSUME NEW t \in review, SignAndBroadcast(t) PROVE TxInv'
  <2>1. /\ mempool' \subseteq (mempool \ Conflicts(t)) \cup {t}
        /\ review' = review \ {t}
        /\ UNCHANGED <<made, confirmed, shown>>
    BY <1>5 DEF SignAndBroadcast
  <2>2. t \in Tx /\ TxKnown' \subseteq TxKnown
    BY <1>5, <2>1 DEF TxKnown, TxInv, TxTypeOK, Shown
  <2>3. \A u \in mempool \ Conflicts(t) : u.ins \cap t.ins = {}
    BY DEF Conflicts
  <2>4. \A u \in confirmed : u.ins \cap t.ins = {}
    BY <1>5 DEF SignAndBroadcast, Valid, Spent
  <2>5. ASSUME NEW u \in (mempool \cup confirmed)', NEW v \in (mempool \cup confirmed)', u # v
        PROVE  u.ins \cap v.ins = {}
    <3>1. CASE u = t
      BY <3>1, <2>1, <2>3, <2>4, <2>5
    <3>2. CASE v = t
      BY <3>2, <2>1, <2>3, <2>4, <2>5
    <3>3. CASE u # t /\ v # t
      BY <3>3, <2>1, <2>5 DEF TxInv, TxTypeOK, Shown
    <3> QED BY <3>1, <3>2, <3>3
  <2>6. TxTypeOK'
    BY <2>1, <2>2, <2>5 DEF TxInv, TxTypeOK, Shown
  <2> QED BY <2>1, <2>2, <2>6 DEF TxInv, TxPayInv, Shown
<1>6. ASSUME NEW t \in mempool, Include(t) PROVE TxInv'
  <2>1. (mempool \cup confirmed)' = mempool \cup confirmed /\ UNCHANGED <<made, review, shown>>
    BY <1>6 DEF Include
  <2>2. TxKnown' = TxKnown
    BY <2>1 DEF TxKnown
  <2>3. mempool' \subseteq Tx /\ confirmed' \subseteq Tx
    BY <1>6 DEF Include, TxInv, TxTypeOK, Shown
  <2> QED BY <2>1, <2>2, <2>3 DEF TxInv, TxTypeOK, TxPayInv, Shown
<1>7. ASSUME NEW t \in confirmed, Unconfirm(t) PROVE TxInv'
  <2>1. (mempool \cup confirmed)' = mempool \cup confirmed /\ UNCHANGED <<made, review, shown>>
    BY <1>7 DEF Unconfirm
  <2>2. TxKnown' = TxKnown
    BY <2>1 DEF TxKnown
  <2>3. mempool' \subseteq Tx /\ confirmed' \subseteq Tx
    BY <1>7 DEF Unconfirm, TxInv, TxTypeOK, Shown
  <2> QED BY <2>1, <2>2, <2>3 DEF TxInv, TxTypeOK, TxPayInv, Shown
<1>8. CASE Refresh
  <2>1. TxKnown' \subseteq TxKnown /\ UNCHANGED <<made, review, mempool, confirmed>>
    BY <1>8 DEF Refresh, TxKnown
  <2>2. shown' \in Shown
    BY <1>8 DEF Refresh, TxInv, TxTypeOK, Shown
  <2> QED BY <2>1, <2>2 DEF TxInv, TxTypeOK, TxPayInv, Shown
<1>9. CASE UNCHANGED txVars
  BY <1>9 DEF txVars, TxInv, TxTypeOK, TxPayInv, TxKnown, Shown
<1>10. CASE \E r \in Request, fee \in 1..MaxFee :
             \/ BuildSend(r, fee) \/ BuildStake(r, fee)
             \/ BuildIssue(r, fee) \/ BuildReissue(r, fee) \/ BuildBurn(r, fee)
             \/ \E t \in shown.mempool : BuildRbfReplace(t, r, fee)
  BY <1>10, <1>1, <1>2
<1>11. CASE \E t \in shown.mempool, fee \in 1..MaxFee : BuildRbfBump(t, fee) \/ BuildCpfp(t, fee)
  BY <1>11, <1>2, <1>3
<1> QED BY <1>4, <1>5, <1>6, <1>7, <1>8, <1>9, <1>10, <1>11 DEF TxNext

\* Two transactions of one payment spend the same coins, and two that are both accepted none in common.
LEMMA PaidOnceFollows == TxInv => PaidOnce
BY DEF TxInv, TxTypeOK, TxPayInv, TxKnown, PaidOnce, Shown

\* Every reachable state is well typed, and no two accepted transactions spend a coin twice.
THEOREM TxTypeCorrect == TxSpec => []TxTypeOK
<1>1. TxInv => TxTypeOK
  BY DEF TxInv
<1> QED BY TxInitInv, TxNextInv, <1>1, PTL DEF TxSpec

\* A payment, with all its bumps and replacements, is on its way or made at most once
\* (build_rbf_bump_tx, build_rbf_replace_tx).
THEOREM PaidOnceAlways == TxSpec => []PaidOnce
BY TxInitInv, TxNextInv, PaidOnceFollows, PTL DEF TxSpec

-----------------------------------------------------------------------------
(***************************************************************************)
(* HtlcLegs: for every depth, every pair of locktimes and a chain of any   *)
(* length.                                                                 *)
(***************************************************************************)

\* Forward: the preimage is public only by the taker's claim, which no reorganisation he does not wait
\* for can undo.
LegForwardInv ==
    forward =>
        /\ secret = "chain" => seq.state = "claimed" /\ tip - seq.at + 1 >= MinDepth
        /\ btc.state = "claimed" => secret = "chain"

\* Reverse: before the taker funds, the maker's leg is his to claim, and it stays so until its locktime.
LegReverseInv ==
    ~forward =>
        /\ seq.state # "none" =>
            /\ btc.claim = BtcClaimPubkey /\ btc.lock = BtcLock
            /\ btc.state \in {"funded", "claimed", "refunded"}
            /\ btc.state = "refunded" => tip >= BtcLock
        /\ seq.state = "claimed" => secret = "chain"

LegInv == LegTypeOK /\ LegForwardInv /\ LegReverseInv /\ RefundsSigned

\* The initial state satisfies the invariant: no leg is funded.
LEMMA LegInitInv == LegInit => LegInv
<1> SUFFICES ASSUME LegInit PROVE LegInv
  OBVIOUS
<1>1. NoLeg \in Leg /\ NoLeg.state = "none" /\ NoLeg.at = 0
  BY LegConstants DEF NoLeg, Leg, States, Keys
<1>2. btc = NoLeg /\ seq = NoLeg /\ tip = 0 /\ secret = "holder" /\ forward \in BOOLEAN
  BY DEF LegInit
<1>3. LegTypeOK
  BY <1>1, <1>2, LegConstants DEF LegTypeOK
<1> QED BY <1>1, <1>2, <1>3 DEF LegInv, LegForwardInv, LegReverseInv, RefundsSigned, TakerLeg

\* A leg's fields.
LEMMA LegFields ==
    ASSUME NEW leg \in Leg
    PROVE  /\ leg = [state |-> leg.state, claim |-> leg.claim, refund |-> leg.refund,
                     lock |-> leg.lock, at |-> leg.at]
           /\ leg.state \in States /\ leg.claim \in Keys /\ leg.refund \in Keys
           /\ leg.lock \in Nat /\ leg.at \in 0..MaxLegTip
BY DEF Leg

\* Marking a leg claimed or refunded leaves it a leg.
LEMMA MarkedLeg ==
    ASSUME NEW leg \in Leg, NEW state \in States
    PROVE  [leg EXCEPT !.state = state] \in Leg
BY DEF Leg

\* A leg the taker funds.
LEMMA HtlcLeg ==
    ASSUME LegTypeOK, NEW claim \in Keys, NEW refund \in Keys, NEW lock \in Nat
    PROVE  Htlc(claim, refund, lock) \in Leg
BY LegConstants DEF Htlc, Leg, LegTypeOK, States

\* The taker's steps keep the invariant.
LEMMA LegTakerSteps ==
    ASSUME LegInv, FundBtc \/ FundSeq \/ ClaimSeq \/ ClaimBtc \/ RefundBtc \/ RefundSeq
    PROVE  LegInv'
<1> USE LegConstants
<1>t. /\ LegTypeOK /\ btc \in Leg /\ seq \in Leg /\ tip \in 0..MaxLegTip
      /\ btc.at \in 0..MaxLegTip /\ seq.at \in 0..MaxLegTip
  BY LegFields DEF LegInv, LegTypeOK
<1>1. CASE FundBtc
  <2>1. btc' = Htlc("maker", BtcRefundPubkey, BtcLock) /\ forward
        /\ UNCHANGED <<forward, seq, tip, secret>>
    BY <1>1 DEF FundBtc, BtcHtlc
  <2>2. btc' \in Leg
    BY <2>1, <1>t, HtlcLeg DEF Keys, BtcRefundPubkey
  <2>3. LegTypeOK'
    BY <1>t, <2>1, <2>2 DEF LegTypeOK, Htlc
  <2> QED BY <2>1, <2>3 DEF LegInv, LegForwardInv, LegReverseInv, RefundsSigned, TakerLeg, RefundKey, Htlc
<1>2. CASE FundSeq
  <2>1. /\ seq' = Htlc("maker", SeqClaimPubkey, SeqLock) /\ ~forward
        /\ BtcLegSeen /\ UNCHANGED <<forward, btc, tip, secret>>
    BY <1>2 DEF FundSeq, SeqHtlcReverse
  <2>2. seq' \in Leg
    BY <2>1, <1>t, HtlcLeg DEF Keys, SeqClaimPubkey
  <2>3. LegTypeOK'
    BY <1>t, <2>1, <2>2 DEF LegTypeOK, Htlc
  <2>4. btc.claim = BtcClaimPubkey /\ btc.lock = BtcLock /\ btc.state = "funded"
    BY <2>1 DEF BtcLegSeen, SameScript, BtcHtlc, Htlc
  <2> QED BY <2>1, <2>3, <2>4
    DEF LegInv, LegForwardInv, LegReverseInv, RefundsSigned, TakerLeg, RefundKey, Htlc
<1>3. CASE ClaimSeq
  <2>1. /\ seq' = [seq EXCEPT !.state = "claimed"] /\ forward /\ secret' = "chain" /\ SeqLegSafe
        /\ UNCHANGED <<forward, btc, tip>>
    BY <1>3 DEF ClaimSeq
  <2>2. seq' \in Leg /\ seq'.state = "claimed" /\ seq'.at = seq.at
    BY <2>1, <1>t, MarkedLeg DEF States, Leg
  <2>3. LegTypeOK'
    BY <1>t, <2>1, <2>2 DEF LegTypeOK
  <2> QED BY <2>1, <2>2, <2>3 DEF LegInv, LegForwardInv, LegReverseInv, RefundsSigned, TakerLeg, RefundKey,
                                  SeqLegSafe
<1>4. CASE ClaimBtc
  <2>1. /\ btc' = [btc EXCEPT !.state = "claimed"] /\ ~forward
        /\ UNCHANGED <<forward, seq, tip, secret>>
    BY <1>4 DEF ClaimBtc, ReadSeqPreimage
  <2>2. /\ btc' \in Leg /\ btc'.state = "claimed" /\ btc'.at = btc.at
        /\ btc'.claim = btc.claim /\ btc'.lock = btc.lock
    BY <2>1, <1>t, MarkedLeg DEF States, Leg
  <2>3. LegTypeOK'
    BY <1>t, <2>1, <2>2 DEF LegTypeOK
  <2> QED BY <2>1, <2>2, <2>3 DEF LegInv, LegForwardInv, LegReverseInv, RefundsSigned, TakerLeg, RefundKey
<1>5. CASE RefundBtc
  <2>1. /\ btc' = [btc EXCEPT !.state = "refunded"] /\ forward /\ btc.refund = RefundKey
        /\ UNCHANGED <<forward, seq, tip, secret>>
    BY <1>5 DEF RefundBtc, Refundable
  <2>2. btc' \in Leg /\ btc'.state = "refunded" /\ btc'.at = btc.at /\ btc'.refund = btc.refund
    BY <2>1, <1>t, MarkedLeg DEF States, Leg
  <2>3. LegTypeOK'
    BY <1>t, <2>1, <2>2 DEF LegTypeOK
  <2> QED BY <2>1, <2>2, <2>3 DEF LegInv, LegForwardInv, LegReverseInv, RefundsSigned, TakerLeg, RefundKey
<1>6. CASE RefundSeq
  <2>1. /\ seq' = [seq EXCEPT !.state = "refunded"] /\ ~forward /\ seq.refund = RefundKey
        /\ seq.state = "funded" /\ UNCHANGED <<forward, btc, tip, secret>>
    BY <1>6 DEF RefundSeq, Refundable
  <2>2. seq' \in Leg /\ seq'.state = "refunded" /\ seq'.at = seq.at /\ seq'.refund = seq.refund
    BY <2>1, <1>t, MarkedLeg DEF States, Leg
  <2>3. LegTypeOK'
    BY <1>t, <2>1, <2>2 DEF LegTypeOK
  <2> QED BY <2>1, <2>2, <2>3 DEF LegInv, LegForwardInv, LegReverseInv, RefundsSigned, TakerLeg, RefundKey
<1> QED BY <1>1, <1>2, <1>3, <1>4, <1>5, <1>6

\* Whatever the maker builds, claims or refunds keeps the invariant.
LEMMA LegMakerSteps == ASSUME LegInv, Maker PROVE LegInv'
<1> USE LegConstants
<1>t. /\ LegTypeOK /\ btc \in Leg /\ seq \in Leg /\ tip \in 0..MaxLegTip
      /\ btc.at \in 0..MaxLegTip /\ seq.at \in 0..MaxLegTip
  BY LegFields DEF LegInv, LegTypeOK
<1>1. ASSUME NEW claim \in {"takerSeq", "takerBtcClaim", "maker"}, NEW lock \in Locks,
             MakerFunds(claim, lock), UNCHANGED <<forward, tip, secret>>
      PROVE  LegInv'
  <2> DEFINE leg == [Htlc(claim, "maker", lock) EXCEPT !.state = "pending"]
  <2>1. leg \in Leg /\ leg.state = "pending" /\ leg.at = tip
    BY <1>t DEF Htlc, Leg, States, Keys, Locks
  <2> HIDE DEF leg
  <2>2. CASE forward /\ seq.state = "none" /\ seq' = leg /\ UNCHANGED btc
    <3>1. LegTypeOK'
      BY <1>1, <1>t, <2>1, <2>2 DEF LegTypeOK
    <3> QED BY <1>1, <2>1, <2>2, <3>1
      DEF LegInv, LegForwardInv, LegReverseInv, RefundsSigned, TakerLeg, RefundKey
  <2>3. CASE ~forward /\ btc.state = "none" /\ btc' = leg /\ UNCHANGED seq
    <3>1. LegTypeOK'
      BY <1>1, <1>t, <2>1, <2>3 DEF LegTypeOK
    <3> QED BY <1>1, <2>1, <2>3, <3>1
      DEF LegInv, LegForwardInv, LegReverseInv, RefundsSigned, TakerLeg, RefundKey
  <2> QED BY <1>1, <2>2, <2>3 DEF MakerFunds, leg
<1>2. CASE MakerClaims /\ UNCHANGED <<forward, tip>>
  <2>1. ASSUME forward, secret = "chain", btc' = [btc EXCEPT !.state = "claimed"], UNCHANGED <<seq, secret>>
        PROVE  LegInv'
    <3>1. btc' \in Leg /\ btc'.state = "claimed" /\ btc'.at = btc.at /\ btc'.refund = btc.refund
      BY <2>1, <1>t, MarkedLeg DEF States, Leg
    <3>2. LegTypeOK'
      BY <1>2, <2>1, <1>t, <3>1 DEF LegTypeOK
    <3>3. btc.state # "none" => btc.refund = RefundKey
      BY <2>1 DEF LegInv, RefundsSigned, TakerLeg
    <3>4. btc.state # "none"
      BY <1>2, <2>1 DEF MakerClaims
    <3> QED BY <1>2, <2>1, <3>1, <3>2, <3>3, <3>4
            DEF LegInv, LegForwardInv, LegReverseInv, RefundsSigned, TakerLeg, RefundKey
  <2>2. ASSUME ~forward, seq.state = "funded", seq' = [seq EXCEPT !.state = "claimed"],
               secret' = "chain", UNCHANGED btc
        PROVE  LegInv'
    <3>1. seq' \in Leg /\ seq'.state = "claimed" /\ seq'.at = seq.at /\ seq'.refund = seq.refund
      BY <2>2, <1>t, MarkedLeg DEF States, Leg
    <3>2. LegTypeOK'
      BY <1>2, <2>2, <1>t, <3>1 DEF LegTypeOK
    <3> QED BY <1>2, <2>2, <3>1, <3>2
      DEF LegInv, LegForwardInv, LegReverseInv, RefundsSigned, TakerLeg, RefundKey
  <2> QED BY <1>2, <2>1, <2>2 DEF MakerClaims
<1>3. CASE MakerRefunds /\ UNCHANGED <<forward, tip, secret>>
  <2>1. ASSUME forward, seq.state = "funded", seq' = [seq EXCEPT !.state = "refunded"], UNCHANGED btc
        PROVE  LegInv'
    <3>1. seq' \in Leg /\ seq'.at = seq.at
      BY <2>1, <1>t, MarkedLeg DEF States, Leg
    <3>2. LegTypeOK'
      BY <1>3, <2>1, <1>t, <3>1 DEF LegTypeOK
    <3>3. secret # "chain"
      BY <2>1 DEF LegInv, LegForwardInv
    <3> QED BY <1>3, <2>1, <3>1, <3>2, <3>3
            DEF LegInv, LegForwardInv, LegReverseInv, RefundsSigned, TakerLeg, RefundKey
  <2>2. ASSUME ~forward, btc.state = "funded", tip >= btc.lock, btc' = [btc EXCEPT !.state = "refunded"],
               UNCHANGED seq
        PROVE  LegInv'
    <3>1. /\ btc' \in Leg /\ btc'.state = "refunded" /\ btc'.at = btc.at
          /\ btc'.claim = btc.claim /\ btc'.lock = btc.lock
      BY <2>2, <1>t, MarkedLeg DEF States, Leg
    <3>2. LegTypeOK'
      BY <1>3, <2>2, <1>t, <3>1 DEF LegTypeOK
    <3> QED BY <1>3, <2>2, <3>1, <3>2
      DEF LegInv, LegForwardInv, LegReverseInv, RefundsSigned, TakerLeg, RefundKey
  <2> QED BY <1>3, <2>1, <2>2 DEF MakerRefunds, Refundable
<1> QED BY <1>1, <1>2, <1>3 DEF Maker

\* A block keeps the invariant: it settles pending legs only.
LEMMA LegBlockStep == ASSUME LegInv, NEW in \in BOOLEAN, LegBlock(in) PROVE LegInv'
<1> USE LegConstants
<1>t. /\ LegTypeOK /\ btc \in Leg /\ seq \in Leg /\ tip \in 0..MaxLegTip /\ tip < MaxLegTip
      /\ tip' = tip + 1 /\ tip' \in 0..MaxLegTip
      /\ UNCHANGED <<forward, secret>>
  BY DEF LegInv, LegTypeOK, LegBlock
<1>1. ASSUME NEW leg \in Leg, leg.at <= tip
      PROVE  /\ Settled(leg, in) \in Leg /\ Settled(leg, in).at <= tip'
             /\ leg.state # "pending" => Settled(leg, in) = leg
             /\ leg.state = "pending" => Settled(leg, in).state \in {"funded", "gone"}
             /\ Settled(leg, in).refund = leg.refund
  <2>1. CASE leg.state # "pending"
    BY <2>1, <1>1, <1>t, LegFields DEF Settled
  <2>2. CASE leg.state = "pending"
    <3>1. Settled(leg, in) = [leg EXCEPT !.state = IF in THEN "funded" ELSE "gone", !.at = tip + 1]
      BY <2>2 DEF Settled
    <3>2. \E s \in {"funded", "gone"} : Settled(leg, in) = [leg EXCEPT !.state = s, !.at = tip + 1]
      <4>1. CASE in
        BY <3>1, <4>1
      <4>2. CASE ~in
        BY <3>1, <4>2
      <4> QED BY <4>1, <4>2
    <3>3. PICK s \in {"funded", "gone"} : Settled(leg, in) = [leg EXCEPT !.state = s, !.at = tip + 1]
      BY <3>2
    <3> DEFINE new == [leg EXCEPT !.state = s, !.at = tip + 1]
    <3>4. /\ new.state = s /\ new.at = tip + 1 /\ new.refund = leg.refund
          /\ new \in [state : States, claim : Keys, refund : Keys, lock : Nat, at : 0..MaxLegTip]
      BY <1>t DEF Leg, States
    <3> HIDE DEF new
    <3>5. Settled(leg, in) = new
      BY <3>3 DEF new
    <3> QED BY <3>4, <3>5, <2>2, <1>t DEF Leg
  <2> QED BY <2>1, <2>2
<1>2. /\ btc' = Settled(btc, in) /\ seq' = Settled(seq, in) /\ btc.at <= tip /\ seq.at <= tip
  BY <1>t DEF LegBlock, LegTypeOK
<1>3. LegTypeOK'
  BY <1>1, <1>2, <1>t DEF LegTypeOK
<1>4. seq.at \in Nat
  BY <1>t, LegFields
<1>5. LegForwardInv'
  BY <1>1, <1>2, <1>t, <1>4 DEF LegInv, LegForwardInv
<1>6. LegReverseInv'
  <2>1. seq'.state # "none" => seq.state # "none"
    BY <1>1, <1>2, <1>t
  <2>2. ~forward /\ seq.state # "none" => btc' = btc
    BY <1>1, <1>2, <1>t DEF LegInv, LegReverseInv
  <2>3. seq'.state = "claimed" => seq.state = "claimed"
    BY <1>1, <1>2, <1>t
  <2> QED BY <2>1, <2>2, <2>3, <1>t DEF LegInv, LegReverseInv
<1>7. RefundsSigned'
  BY <1>1, <1>2, <1>t DEF LegInv, RefundsSigned, TakerLeg, RefundKey
<1> QED BY <1>3, <1>5, <1>6, <1>7 DEF LegInv

\* A reorganisation keeps the invariant: it is less deep than what the taker waited for.
LEMMA LegReorgStep == ASSUME LegInv, NEW h \in 0..MaxLegTip, Reorg(h) PROVE LegInv'
<1> USE LegConstants
<1>t. /\ LegTypeOK /\ btc \in Leg /\ seq \in Leg /\ tip \in 0..MaxLegTip
      /\ forward /\ h < tip /\ tip - h < MinDepth
      /\ btc' = After(btc, h, TRUE) /\ seq' = After(seq, h, FALSE)
      /\ UNCHANGED <<forward, tip, secret>>
      /\ btc.at <= tip /\ seq.at <= tip
  BY DEF LegInv, LegTypeOK, Reorg
<1>1. seq.at \in Nat /\ btc.at \in Nat
  BY <1>t, LegFields
<1>2. btc' \in Leg /\ btc'.state = btc.state /\ btc'.refund = btc.refund /\ btc'.at <= tip
  BY <1>t, <1>1 DEF After, Leg
<1>3. seq' \in Leg /\ seq'.at <= tip
  BY <1>t, <1>1 DEF After, Leg, States
<1>4. secret = "chain" => seq' = seq
  BY <1>t, <1>1 DEF After, LegInv, LegForwardInv
<1>5. LegTypeOK'
  BY <1>t, <1>2, <1>3 DEF LegTypeOK
<1>6. LegForwardInv'
  BY <1>t, <1>2, <1>4 DEF LegInv, LegForwardInv
<1> QED BY <1>t, <1>2, <1>5, <1>6 DEF LegInv, LegReverseInv, RefundsSigned, TakerLeg, RefundKey

\* Every step keeps the invariant.
LEMMA LegNextInv == LegInv /\ [LegNext]_legVars => LegInv'
<1> SUFFICES ASSUME LegInv, [LegNext]_legVars PROVE LegInv'
  OBVIOUS
<1>1. CASE LegNext
  <2>1. CASE FundBtc \/ FundSeq \/ ClaimSeq \/ ClaimBtc \/ RefundBtc \/ RefundSeq
    BY <2>1, LegTakerSteps
  <2>2. CASE Maker
    BY <2>2, LegMakerSteps
  <2>3. CASE \E in \in BOOLEAN : LegBlock(in)
    BY <2>3, LegBlockStep
  <2>4. CASE \E h \in 0..MaxLegTip : Reorg(h)
    BY <2>4, LegReorgStep
  <2> QED BY <1>1, <2>1, <2>2, <2>3, <2>4 DEF LegNext
<1>2. CASE UNCHANGED legVars
  BY <1>2 DEF legVars, LegInv, LegTypeOK, LegForwardInv, LegReverseInv, RefundsSigned, TakerLeg, RefundKey
<1> QED BY <1>1, <1>2

\* The invariant says that the taker is whole.
LEMMA LegWhole == LegInv => TakerWhole
<1> SUFFICES ASSUME LegInv PROVE TakerWhole
  OBVIOUS
<1>1. ForwardWhole
  BY DEF LegInv, LegForwardInv, ForwardWhole
<1>2. tip \in Nat /\ BtcLock \in Nat
  BY LegConstants DEF LegInv, LegTypeOK
<1>3. ReverseWhole
  <2> SUFFICES ASSUME ~forward, seq.state = "claimed", tip < btc.lock
               PROVE  btc.state \in {"funded", "claimed"} /\ btc.claim = BtcClaimPubkey /\ secret = "chain"
    BY DEF ReverseWhole
  <2>1. /\ btc.claim = BtcClaimPubkey /\ btc.lock = BtcLock /\ secret = "chain"
        /\ btc.state \in {"funded", "claimed", "refunded"}
        /\ btc.state = "refunded" => tip >= BtcLock
    BY DEF LegInv, LegReverseInv
  <2> QED BY <1>2, <2>1
<1> QED BY <1>1, <1>3 DEF LegInv, TakerWhole

\* Every reachable state is well typed, for any locktimes and depth.
THEOREM LegTypeCorrect == LegSpec => []LegTypeOK
<1>1. LegInv => LegTypeOK
  BY DEF LegInv
<1> QED BY LegInitInv, LegNextInv, <1>1, PTL DEF LegSpec

\* The taker never loses his leg without the other, whatever the maker builds, for any MinDepth and any
\* reorganisation less deep (the reveal gate xchain_verify_seq_leg_safe, verify before funding).
THEOREM TakerWholeAlways == LegSpec => []TakerWhole
BY LegInitInv, LegNextInv, LegWhole, PTL DEF LegSpec

-----------------------------------------------------------------------------
(***************************************************************************)
(* OpenAmp: for any accounts and any number of transfers and tagged        *)
(* signatures.                                                             *)
(***************************************************************************)

\* What is about to be signed is of the one transaction that was decoded for the screen.
OampReviewInv ==
  send.at = "review" =>
    /\ send.tx \in Spends /\ send.sheet \in Sheets
    /\ \A d \in send.digests : d.kind = "spend" /\ d.tx = send.tx

\* What was signed for spending was on the screen and confirmed.
OampSignedInv == \A s \in sigs : s.of.kind = "spend" => \E a \in approved : a.tx = s.of.tx

OampDraftInv == send.at = "drafted" => send.tx \in Spends

OampInv == OampTypeOK /\ OampDraftInv /\ OampReviewInv /\ OampSignedInv

\* Initially nothing is signed or shown.
LEMMA OampInitInv == OampInit => OampInv
<1> SUFFICES ASSUME OampInit PROVE OampInv
  OBVIOUS
<1>1. send.at = "none"
  BY DEF OampInit, NoSend
<1>3. /\ owner \in Accounts /\ account = {}
      /\ sigs = {} /\ approved = {} /\ sends = 0 /\ tags = 0
  BY DEF OampInit
<1>4. 0 \in 0 .. MaxSends /\ 0 \in 0 .. MaxTags
  BY OpenAmpAssumption
<1>5. OampTypeOK
  BY <1>1, <1>3, <1>4 DEF OampTypeOK
<1> QED BY <1>1, <1>3, <1>5
  DEF OampInv, OampDraftInv, OampReviewInv, OampSignedInv

\* Registration and the change of wallet touch the account only.
LEMMA OampAccountSteps ==
  ASSUME OampInv, (\E keys \in SUBSET Accounts : Register(keys)) \/ Replace
  PROVE  OampInv'
<1>1. ASSUME NEW keys \in SUBSET Accounts, Register(keys) PROVE OampInv'
  BY <1>1
    DEF Register, AidAccepted, ComputeAid, OampInv, OampTypeOK, OampDraftInv, OampReviewInv, OampSignedInv
<1>2. CASE Replace
  BY <1>2
    DEF Replace, OampInv, OampTypeOK, OampDraftInv, OampReviewInv, OampSignedInv
<1> QED BY <1>1, <1>2

\* The enclave's draft is some transaction.
LEMMA OampDraftStep ==
  ASSUME OampInv, NEW tx \in Spends, NEW wanted, Draft(tx, wanted)
  PROVE  OampInv'
<1>1. /\ send' = [at |-> "drafted", tx |-> tx, asked |-> wanted]
      /\ sends' = sends + 1 /\ sends < MaxSends
      /\ UNCHANGED <<owner, account, sigs, approved, tags>>
  BY DEF Draft
<1>2. send'.at = "drafted" /\ send'.tx = tx
  BY <1>1
<1>3. sends' \in 0 .. MaxSends
  BY <1>1, OpenAmpAssumption DEF OampInv, OampTypeOK
<1> QED BY <1>1, <1>2, <1>3
  DEF OampInv, OampTypeOK, OampDraftInv, OampReviewInv, OampSignedInv

\* Only digests of the draft itself are kept for signing.
LEMMA OampPrepareStep ==
  ASSUME OampInv, NEW prevouts, NEW leaf, NEW told, PrepareSend(prevouts, leaf, told)
  PROVE  OampInv'
<1> DEFINE digests == {LocalDigest(i, prevouts, leaf) : i \in DOMAIN send.asked}
<1>1. /\ send.at = "drafted" /\ send.tx \in Spends
      /\ UNCHANGED <<owner, account, sigs, approved, sends, tags>>
  BY DEF PrepareSend, OampInv, OampDraftInv
<1>2. CASE Reproduced(prevouts, leaf)
  <2>1. send' = [at |-> "review", tx |-> send.tx, sheet |-> Effects(send.tx, prevouts, told), digests |-> digests]
    BY <1>2 DEF PrepareSend
  <2>2. \A d \in digests : d.kind = "spend" /\ d.tx = send.tx
    BY DEF LocalDigest, Sighash
  <2> HIDE DEF digests
  <2>3. send'.at = "review" /\ send'.tx = send.tx /\ send'.digests = digests
    BY <2>1
  <2>5. send'.sheet \in Sheets
    <3>1. {i \in send.tx.inputs : prevouts[i] = told} \in SUBSET Accounts  BY <1>1 DEF Spends
    <3> QED BY <2>1, <3>1 DEF Effects, Sheets
  <2>4. OampReviewInv'
    BY <1>1, <2>2, <2>3, <2>5 DEF OampReviewInv
  <2> QED BY <1>1, <2>3, <2>4 DEF OampInv, OampTypeOK, OampDraftInv, OampSignedInv
<1>3. CASE ~Reproduced(prevouts, leaf)
  <2>1. send' = NoSend
    BY <1>3 DEF PrepareSend
  <2> QED BY <1>1, <2>1
    DEF NoSend, OampInv, OampTypeOK, OampDraftInv, OampReviewInv, OampSignedInv
<1> QED BY <1>2, <1>3

\* The user's confirmation covers every digest that is then signed.
LEMMA OampCompleteStep == ASSUME OampInv, Complete PROVE OampInv'
<1>1. /\ send.at = "review" /\ send' = NoSend
      /\ approved' = approved \union {[tx |-> send.tx, sheet |-> send.sheet]}
      /\ sigs' = sigs \union {[by |-> owner, of |-> d] : d \in send.digests}
      /\ UNCHANGED <<owner, account, sends, tags>>
  BY DEF Complete, SignSighash
<1>2. /\ send.tx \in Spends /\ send.sheet \in Sheets
      /\ \A d \in send.digests : d.kind = "spend" /\ d.tx = send.tx
  BY <1>1 DEF OampInv, OampReviewInv
<1>3. \A s \in sigs' \ sigs : s.by = owner /\ s.of.kind = "spend" /\ s.of.tx = send.tx
  BY <1>1, <1>2
<1>4. OampSignedInv'
  <2> SUFFICES ASSUME NEW s \in sigs', s.of.kind = "spend" PROVE \E a \in approved' : a.tx = s.of.tx
    BY DEF OampSignedInv
  <2>1. CASE s \in sigs  BY <1>1, <2>1 DEF OampInv, OampSignedInv
  <2>2. CASE s \notin sigs
    <3> DEFINE a == [tx |-> send.tx, sheet |-> send.sheet]
    <3>1. a \in approved' /\ a.tx = s.of.tx  BY <1>1, <1>3, <2>2
    <3> QED BY <3>1
  <2> QED BY <2>1, <2>2
<1>5. approved' \subseteq [tx : Spends, sheet : Sheets]
  BY <1>1, <1>2 DEF OampInv, OampTypeOK
<1>6. \A s \in sigs' : s.by \in Accounts /\ s.of.kind \in {"spend", "tagged"}
  BY <1>3 DEF OampInv, OampTypeOK
<1> QED BY <1>1, <1>4, <1>5, <1>6
  DEF NoSend, OampInv, OampTypeOK, OampDraftInv, OampReviewInv

\* A login or a document is signed in its own domain.
LEMMA OampTaggedStep == ASSUME OampInv, NEW message, SignTagged(message) PROVE OampInv'
<1>1. /\ tags < MaxTags /\ tags' = tags + 1
      /\ sigs' = sigs \union {[by |-> owner, of |-> [kind |-> "tagged", message |-> message]]}
      /\ UNCHANGED <<owner, account, send, approved, sends>>
  BY DEF SignTagged, SignSighash, Tagged
<1>2. \A s \in sigs' \ sigs : s.by = owner /\ s.of.kind = "tagged"
  BY <1>1
<1>3. OampSignedInv'
  BY <1>1, <1>2 DEF OampInv, OampSignedInv
<1>4. \A s \in sigs' : s.by \in Accounts /\ s.of.kind \in {"spend", "tagged"}
  BY <1>2 DEF OampInv, OampTypeOK
<1>5. tags' \in 0 .. MaxTags
  BY <1>1, OpenAmpAssumption DEF OampInv, OampTypeOK
<1> QED BY <1>1, <1>3, <1>4, <1>5
  DEF OampInv, OampTypeOK, OampDraftInv, OampReviewInv

\* Every step keeps the invariant.
LEMMA OampNextInv == OampInv /\ [OampNext]_oampVars => OampInv'
<1> SUFFICES ASSUME OampInv, [OampNext]_oampVars PROVE OampInv'
  OBVIOUS
<1>1. CASE (\E keys \in SUBSET Accounts : Register(keys)) \/ Replace
  BY <1>1, OampAccountSteps
<1>2. CASE \E tx \in Spends : EnclaveAsks(tx)
  BY <1>2, OampDraftStep DEF EnclaveAsks
<1>3. CASE \E prevouts \in Prevouts(send.tx), leaf \in Accounts, told \in Scripts : PrepareSend(prevouts, leaf, told)
  BY <1>3, OampPrepareStep
<1>4. CASE Complete
  BY <1>4, OampCompleteStep
<1>5. CASE Abandon
  BY <1>5
    DEF Abandon, NoSend, OampInv, OampTypeOK, OampDraftInv, OampReviewInv, OampSignedInv
<1>6. CASE \E tx \in Spends : \E c \in tx.inputs : tx.pays = "stranger" /\ SignTagged(ChainDigest(tx, c))
  BY <1>6, OampTaggedStep
<1>7. CASE UNCHANGED oampVars
  BY <1>7
    DEF oampVars, OampInv, OampTypeOK, OampDraftInv, OampReviewInv, OampSignedInv
<1> QED BY <1>1, <1>2, <1>3, <1>4, <1>5, <1>6, <1>7 DEF OampNext

\* A signature the chain accepts is of a spend digest, which names the transaction.
LEMMA ReviewedFollows == OampInv => OnlyReviewed
BY DEF OampInv, OampSignedInv, OnlyReviewed, ChainDigest, Sighash

\* Every reachable state is well typed.
THEOREM OampTypeCorrect == OampSpec => []OampTypeOK
<1>1. OampInv => OampTypeOK
  BY DEF OampInv
<1> QED BY OampInitInv, OampNextInv, <1>1, PTL DEF OampSpec

\* No signature that the chain accepts moves restricted assets but by a transaction that was decoded for review
\* and confirmed, for any accounts, transfers and answers of the enclave (prepareTransfer, openampSignTagged).
THEOREM OnlyReviewedAlways == OampSpec => []OnlyReviewed
BY OampInitInv, OampNextInv, ReviewedFollows, PTL DEF OampSpec

-----------------------------------------------------------------------------
(***************************************************************************)
(* SeqobWire: for any values.                                              *)
(***************************************************************************)

(* What an offer and a signature are.                                      *)
WireVals  == UNION {[s -> 0..Garbled] : s \in SUBSET Fields}
WireOver  == [key : MakerKeys, vals : WireVals]
WireOffer == [fields : [Fields -> Field], names : Names, key : MakerKeys,
              sig : [by : MakerKeys, over : WireOver], text : Texts, caps : {0, 1}]
WireEntry == [shelf : Shelves, offer : WireOffer, verified : BOOLEAN]

(* A signed offer is the maker's, over what the app wrote; what the relay  *)
(* has under his key carries that signature and, unaltered and without a   *)
(* covenant's bytes, those values; what the taker lists as verified under  *)
(* his key says the same.                                                  *)
WireSigned ==
  /\ \A f \in Fields : offer.fields[f] \in Written(f)
  /\ offer.key = MakerIdentity /\ offer.text = "padded" /\ offer.names = "snake"
  /\ offer.sig = [by |-> MakerIdentity, over |-> CanonicalOffer(offer)]
WireAsPosted ==
  /\ relayed.key = MakerIdentity /\ relayed.text = "padded"
  /\ offer.fields["bytes"] = Absent => /\ SameValues(relayed, offer)
                                       /\ relayed.names = "snake" => relayed.fields = offer.fields
WireRelayed ==
  /\ offer # NoOffer
  /\ relayed.key = MakerIdentity => relayed.sig = offer.sig
  /\ ~altered => WireAsPosted
WireTyped ==
  /\ offer \in WireOffer /\ relayed \in WireOffer /\ book \subseteq WireEntry
  /\ posted \in BOOLEAN /\ altered \in BOOLEAN
WireBooked ==
  \A e \in book : /\ offer # NoOffer /\ (e.shelf # "same" => e.verified)
                  /\ e.verified /\ e.offer.key = MakerIdentity => SameValues(e.offer, offer)
WireInv ==
  /\ WireTyped
  /\ offer # NoOffer => WireSigned
  /\ relayed # NoOffer => WireRelayed
  /\ WireBooked

(* Two offers of one key are encoded alike exactly when they say the same. *)
LEMMA WireCanonical ==
  ASSUME NEW a, NEW b
  PROVE  CanonicalOffer(a) = CanonicalOffer(b) <=> SameValues(a, b) /\ a.key = b.key
<1> DEFINE A == {g \in Fields : Emitted(a, g)}
           B == {g \in Fields : Emitted(b, g)}
           va == [f \in A |-> ReadField(a, f)]
           vb == [f \in B |-> ReadField(b, f)]
<1>a. CanonicalOffer(a) = [key |-> a.key, vals |-> va]  BY DEF CanonicalOffer
<1>b. CanonicalOffer(b) = [key |-> b.key, vals |-> vb]  BY DEF CanonicalOffer
<1>1. ASSUME SameValues(a, b) PROVE va = vb
  <2>1. A = B  BY <1>1 DEF SameValues
  <2>2. \A f \in A : ReadField(a, f) = ReadField(b, f)  BY <1>1 DEF SameValues
  <2> QED BY <2>1, <2>2
<1>2. ASSUME va = vb PROVE SameValues(a, b)
  <2>1. A = B
    <3>1. DOMAIN va = A /\ DOMAIN vb = B  OBVIOUS
    <3> QED BY <3>1, <1>2
  <2>2. \A f \in A : ReadField(a, f) = ReadField(b, f)
    <3>1. \A f \in A : va[f] = ReadField(a, f)  OBVIOUS
    <3>2. \A f \in B : vb[f] = ReadField(b, f)  OBVIOUS
    <3> QED BY <3>1, <3>2, <2>1, <1>2
  <2>3. \A f \in Fields : Emitted(a, f) = Emitted(b, f)  BY <2>1 DEF Emitted
  <2>4. \A f \in Fields \ A : ReadField(a, f) = 0  BY DEF Emitted
  <2>5. \A f \in Fields \ B : ReadField(b, f) = 0  BY DEF Emitted
  <2> QED BY <2>1, <2>2, <2>3, <2>4, <2>5 DEF SameValues
<1> HIDE DEF va, vb
<1>3. CanonicalOffer(a) = CanonicalOffer(b) <=> va = vb /\ a.key = b.key
  <2>1. CanonicalOffer(a).key = a.key /\ CanonicalOffer(a).vals = va  BY <1>a
  <2>2. CanonicalOffer(b).key = b.key /\ CanonicalOffer(b).vals = vb  BY <1>b
  <2> QED BY <1>a, <1>b, <2>1, <2>2
<1> QED BY <1>1, <1>2, <1>3

(* What is read of a typed field is a value, so an encoding is one.        *)
LEMMA WireRead ==
  ASSUME NEW o, o.fields \in [Fields -> Field], NEW f \in Fields, MaxVal \in Nat \ {0}
  PROVE  ReadField(o, f) \in 0..Garbled
<1>1. o.fields[f].val \in 0..MaxVal  BY DEF Field
<1> DEFINE x == o.fields[f]
<1> HIDE DEF x
<1>2. \A v \in 0..MaxVal : v \in 0..Garbled  BY DEF Garbled
<1>3. 0 \in 0..Garbled /\ 1 \in 0..Garbled /\ Garbled \in 0..Garbled  BY DEF Garbled
<1>4. /\ AsNumber(x) \in 0..Garbled /\ AsBool(x) \in 0..Garbled
      /\ AsStr(x) \in 0..Garbled /\ AsBytes(x) \in 0..Garbled
  BY <1>1, <1>2, <1>3 DEF AsNumber, AsBool, AsStr, AsBytes, x
<1> QED BY <1>1, <1>2, <1>3, <1>4 DEF ReadField, Fields, x

\* An offer's encoding is of the form that signatures are over.
LEMMA WireEncodes ==
  ASSUME NEW o, o.fields \in [Fields -> Field], o.key \in MakerKeys
  PROVE  CanonicalOffer(o) \in WireOver
<1> DEFINE A == {g \in Fields : Emitted(o, g)}
           v == [f \in A |-> ReadField(o, f)]
<1>1. \A f \in A : ReadField(o, f) \in 0..Garbled  BY WireRead, WireConstants
<1>2. CanonicalOffer(o) = [key |-> o.key, vals |-> v]  BY DEF CanonicalOffer
<1>3. v \in [A -> 0..Garbled]  BY <1>1
<1>4. A \in SUBSET Fields  OBVIOUS
<1>5. v \in WireVals  BY <1>3, <1>4 DEF WireVals
<1> QED BY <1>2, <1>5 DEF WireOver

(* A rendering says what was rendered, of an offer the app wrote.          *)
LEMMA WireRendering ==
  ASSUME NEW o \in WireOffer, \A f \in Fields : o.fields[f] \in Written(f)
  PROVE  SameValues(Rendered(o), o)
<1> DEFINE r == Rendered(o)
<1>1. r.fields = [f \in Fields |->
         IF f \in {"terms", "bytes"} \/ o.fields[f].val # 0
         THEN [o.fields[f] EXCEPT !.form = IF f = "number" THEN "string" ELSE @]
         ELSE Absent]
  BY DEF Rendered, WireOffer
<1>2. SUFFICES ASSUME NEW f \in Fields
               PROVE  ReadField(r, f) = ReadField(o, f) /\ (Emitted(r, f) = Emitted(o, f))
  BY DEF SameValues
<1> DEFINE x == o.fields[f]
           y == r.fields[f]
<1>3. x \in Field /\ x \in Written(f)  BY DEF WireOffer
<1>4. CASE f = "number"
  <2>1. y = IF x.val # 0 THEN [x EXCEPT !.form = "string"] ELSE Absent
    BY <1>1, <1>4
  <2>2. x.form \in {"number", "string"}  BY <1>3, <1>4 DEF Written
  <2>3. AsNumber(y) = AsNumber(x)  BY <1>3, <2>1, <2>2 DEF AsNumber, Field, Absent
  <2> QED BY <1>4, <2>3 DEF ReadField, Emitted
<1>5. CASE f = "flag"
  <2>1. y = IF x.val # 0 THEN [x EXCEPT !.form = x.form] ELSE Absent
    BY <1>1, <1>5
  <2>2. x.form = "bool" /\ x.val \in {0, 1}  BY <1>3, <1>5 DEF Written
  <2>3. AsBool(y) = AsBool(x)  BY <1>3, <2>1, <2>2 DEF AsBool, Field, Absent
  <2> QED BY <1>5, <2>3 DEF ReadField, Emitted
<1>6. CASE f = "text"
  <2>1. y = IF x.val # 0 THEN [x EXCEPT !.form = x.form] ELSE Absent
    BY <1>1, <1>6
  <2>2. x.form = "string"  BY <1>3, <1>6 DEF Written
  <2>3. AsStr(y) = AsStr(x)  BY <1>3, <2>1, <2>2 DEF AsStr, Field, Absent
  <2> QED BY <1>6, <2>3 DEF ReadField, Emitted
<1>7. CASE f \in {"terms", "bytes"}
  <2>1. y = [x EXCEPT !.form = x.form]  BY <1>1, <1>7
  <2>2. y.form = x.form /\ y.val = x.val  BY <1>3, <2>1 DEF Field
  <2>3. AsBytes(y) = AsBytes(x)  BY <2>2 DEF AsBytes
  <2> QED BY <1>7, <2>2, <2>3 DEF ReadField, Emitted
<1> QED BY <1>4, <1>5, <1>6, <1>7 DEF Fields

(* What the relay has under the maker's key verifies only if it says what  *)
(* he signed, and does if its signature can be read.                       *)
LEMMA WireVerifies ==
  ASSUME WireInv, relayed # NoOffer, relayed.key = MakerIdentity
  PROVE  VerifyOffer(relayed) <=> SameValues(relayed, offer) /\ relayed.text # "broken"
<1>1. WireSigned /\ WireRelayed /\ relayed \in WireOffer  BY DEF WireInv, WireTyped, WireRelayed
<1>2. relayed.sig = [by |-> MakerIdentity, over |-> CanonicalOffer(offer)] /\ offer.key = MakerIdentity
  BY <1>1 DEF WireSigned, WireRelayed
<1>3. relayed.sig.by = "seed" /\ relayed.sig.over = CanonicalOffer(offer) /\ relayed.sig # NoSig
  <2>1. relayed.sig.by = "seed" /\ relayed.sig.over = CanonicalOffer(offer)  BY <1>2 DEF MakerIdentity
  <2>2. NoSig.by = ""  BY DEF NoSig
  <2> QED BY <2>1, <2>2
<1>4. CASE relayed.text = "broken"
  BY <1>4 DEF VerifyOffer, DecodeSig
<1>5. CASE relayed.text # "broken"
  <2>1. DecodeSig(relayed) = relayed.sig  BY <1>1, <1>5 DEF DecodeSig, WireOffer, Texts
  <2>2. VerifyOffer(relayed) <=> CanonicalOffer(offer) = CanonicalOffer(relayed)
    BY <2>1, <1>3 DEF VerifyOffer, MakerIdentity
  <2> QED BY <2>2, <1>2, <1>5, WireCanonical
<1> QED BY <1>4, <1>5

\* The absence of an offer has the fields of one.
LEMMA WireNoOffer == NoOffer \in WireOffer
<1>1. [f \in {} |-> 0] \in WireVals
  <2>1. [f \in {} |-> 0] \in [{} -> 0..Garbled] /\ {} \in SUBSET Fields  OBVIOUS
  <2> QED BY <2>1 DEF WireVals
<1>2. NoSig \in [by : MakerKeys, over : WireOver]  BY <1>1 DEF NoSig, MakerKeys, WireOver
<1>3. [f \in Fields |-> Absent] \in [Fields -> Field]
  BY WireConstants DEF Field, Forms, Absent
<1> QED BY <1>2, <1>3 DEF NoOffer, WireOffer, Names, MakerKeys, Texts

\* At first nothing is signed, relayed or listed.
LEMMA WireInitInv == WireInit => WireInv
BY WireNoOffer DEF WireInit, WireInv, WireTyped, WireBooked

(* Signing an offer gives one over its own values.                         *)
LEMMA WireSigning ==
  ASSUME NEW o \in WireOffer, NEW key \in MakerKeys
  PROVE  /\ SignAs(o, key) \in WireOffer
         /\ SignAs(o, key).fields = o.fields /\ SignAs(o, key).names = o.names
         /\ SignAs(o, key).key = key /\ SignAs(o, key).text = "padded"
         /\ SignAs(o, key).sig = [by |-> key, over |-> CanonicalOffer(SignAs(o, key))]
<1> DEFINE unsigned == [o EXCEPT !.key = key, !.sig = NoSig]
           sg == [by |-> key, over |-> CanonicalOffer(unsigned)]
           s == SignAs(o, key)
<1>1. s = [unsigned EXCEPT !.sig = sg, !.text = "padded"]  BY DEF SignAs, EncodeSig
<1>2. unsigned.fields = o.fields /\ unsigned.key = key  BY DEF WireOffer
<1>3. s = [fields |-> o.fields, names |-> o.names, key |-> key, sig |-> sg, text |-> "padded", caps |-> o.caps]
  BY <1>1 DEF WireOffer
<1>4. CanonicalOffer(s) = CanonicalOffer(unsigned)
  <2>1. s.fields = unsigned.fields /\ s.key = unsigned.key  BY <1>2, <1>3
  <2> QED BY <2>1 DEF CanonicalOffer, Emitted, ReadField
<1>5. CanonicalOffer(unsigned) \in WireOver  BY <1>2, WireEncodes DEF WireOffer
<1>6. s \in WireOffer  BY <1>3, <1>5 DEF WireOffer, Texts
<1> QED BY <1>3, <1>4, <1>6

\* The maker's offer is signed over what the app wrote.
LEMMA WireSignStep ==
  ASSUME WireInv, NEW fs \in [Fields -> Field], \A f \in Fields : fs[f] \in Written(f), NEW caps \in {0, 1}, SignOffer(fs, caps)
  PROVE  WireInv'
<1> DEFINE o == [NoOffer EXCEPT !.fields = fs, !.caps = caps]
<1>1. offer = NoOffer /\ offer' = SignAs(o, MakerIdentity) /\ UNCHANGED <<posted, relayed, altered, book>>
  BY DEF SignOffer
<1>4. o \in WireOffer /\ o.fields = fs /\ o.names = "snake"
  BY WireNoOffer DEF WireOffer, NoOffer
<1>6. MakerIdentity \in MakerKeys  BY DEF MakerIdentity, MakerKeys
<1> HIDE DEF o
<1>7. offer' \in WireOffer /\ WireSigned'
  BY <1>1, <1>4, <1>6, WireSigning DEF WireSigned
<1>8. relayed = NoOffer /\ book = {}  BY <1>1 DEF WireInv, WireRelayed, WireBooked
<1> QED BY <1>1, <1>7, <1>8 DEF WireInv, WireTyped, WireBooked

(* The same values, the same reading.                                      *)
LEMMA WireSame ==
  /\ \A a : SameValues(a, a)
  /\ \A a, b, c : SameValues(a, b) /\ SameValues(b, c) => SameValues(a, c)
  /\ \A a, b : a.fields = b.fields => SameValues(a, b)
<1>1. \A a : SameValues(a, a)  BY DEF SameValues
<1>2. \A a, b, c : SameValues(a, b) /\ SameValues(b, c) => SameValues(a, c)  BY DEF SameValues
<1>3. \A a, b : a.fields = b.fields => SameValues(a, b)  BY DEF SameValues, Emitted, ReadField
<1> QED BY <1>1, <1>2, <1>3

\* A step that keeps the maker's offer and the book, and serves an offer that is as the invariant says.
LEMMA WireServed ==
  ASSUME WireInv, UNCHANGED <<offer, book>>, posted' \in BOOLEAN, altered' \in BOOLEAN,
         relayed' \in WireOffer, (relayed # NoOffer => WireRelayed)'
  PROVE  WireInv'
<1>1. WireTyped' /\ WireBooked'  BY DEF WireInv, WireTyped, WireBooked
<1>2. (offer # NoOffer => WireSigned)'  BY DEF WireInv, WireSigned
<1> QED BY <1>1, <1>2 DEF WireInv

\* The relay has the offer as it was signed, but for a covenant's bytes.
LEMMA WirePostStep == ASSUME WireInv, PostOffer PROVE WireInv'
<1>1. /\ WireSigned /\ offer \in WireOffer /\ relayed' = ForPost(offer) /\ posted' = TRUE
      /\ UNCHANGED <<offer, altered, book>> /\ altered \in BOOLEAN /\ offer # NoOffer
  BY DEF WireInv, WireTyped, PostOffer
<1>2. offer.fields["bytes"] \in Field /\ "bytes" \in Fields  BY <1>1 DEF WireOffer, Fields
<1> DEFINE x == offer.fields["bytes"]
           y == [x EXCEPT !.form = IF x.form = "hex" THEN "base64" ELSE x.form]
<1>3. relayed' = [offer EXCEPT !.fields = [offer.fields EXCEPT !["bytes"] = y]]
  BY <1>1, <1>2 DEF ForPost, WireOffer
<1>4. y \in Field  BY <1>2 DEF Field, Forms
<1>5. relayed' \in WireOffer  BY <1>1, <1>2, <1>3, <1>4 DEF WireOffer
<1>6. relayed'.key = offer.key /\ relayed'.sig = offer.sig /\ relayed'.text = offer.text
  BY <1>1, <1>3 DEF WireOffer
<1>7. ASSUME x = Absent PROVE relayed'.fields = offer.fields
  <2>1. y = x  BY <1>2, <1>7 DEF Absent, Field
  <2> QED BY <1>1, <1>3, <2>1 DEF WireOffer
<1>8. WireRelayed'
  <2>1. SameValues(offer, offer)  BY WireSame
  <2>2. x = Absent => SameValues(relayed', offer)  BY <1>7, WireSame
  <2> QED BY <1>1, <1>6, <1>7, <2>2 DEF WireRelayed, WireAsPosted, WireSigned
<1> QED BY <1>1, <1>5, <1>8, WireServed

\* Rendered anew, an offer without a covenant's bytes keeps its values.
LEMMA WireRenderStep == ASSUME WireInv, Render PROVE WireInv'
<1>1. /\ WireSigned /\ WireRelayed /\ relayed \in WireOffer /\ offer \in WireOffer
      /\ relayed' = Rendered(relayed) /\ relayed.names = "snake"
      /\ UNCHANGED <<offer, posted, altered, book>> /\ posted \in BOOLEAN /\ altered \in BOOLEAN
  BY DEF WireInv, WireTyped, Render, WireRelayed
<1>2. /\ relayed'.key = relayed.key /\ relayed'.sig = relayed.sig /\ relayed'.text = relayed.text
      /\ relayed'.names = "camel"
  BY <1>1 DEF Rendered, WireOffer
<1>3. relayed' \in WireOffer
  <2>1. \A f \in Fields : relayed.fields[f] \in Field  BY <1>1 DEF WireOffer
  <2>2. \A f \in Fields : [relayed.fields[f] EXCEPT !.form = IF f = "number" THEN "string" ELSE @] \in Field
    BY <2>1 DEF Field, Forms
  <2>3. Absent \in Field  BY WireConstants DEF Field, Forms, Absent
  <2> QED BY <1>1, <2>2, <2>3 DEF Rendered, WireOffer, Names
<1>4. ASSUME ~altered, offer.fields["bytes"] = Absent PROVE SameValues(relayed', offer)
  <2>1. relayed.fields = offer.fields  BY <1>1, <1>4 DEF WireRelayed, WireAsPosted
  <2>2. SameValues(Rendered(relayed), relayed)  BY <1>1, <2>1, WireRendering DEF WireSigned
  <2> QED BY <1>1, <2>1, <2>2, WireSame
<1>5. WireRelayed'
  BY <1>1, <1>2, <1>4 DEF WireRelayed, WireAsPosted, WireSigned
<1> QED BY <1>1, <1>3, <1>5, WireServed

(* A change on the way leaves the maker's signature, or his key goes.      *)
LEMMA WireAlterStep ==
  ASSUME WireInv, NEW served \in WireOffer, Alters(served), served.key = MakerIdentity => served.sig = relayed.sig
  PROVE  WireInv'
<1>1. /\ WireRelayed /\ ~altered /\ altered' = TRUE /\ relayed' = served
      /\ UNCHANGED <<offer, posted, book>> /\ posted \in BOOLEAN
  BY DEF WireInv, WireTyped, Alters
<1>2. relayed.key = MakerIdentity /\ relayed.sig = offer.sig  BY <1>1 DEF WireRelayed, WireAsPosted
<1>3. WireRelayed'  BY <1>1, <1>2 DEF WireRelayed
<1> QED BY <1>1, <1>3, WireServed

\* Every change is such a one.
LEMMA WireAlterSteps ==
  ASSUME WireInv,
         \/ \E f \in Fields, x \in Field : Alter(f, x)
         \/ \E x \in Texts : AlterText(x)
         \/ \E key \in MakerKeys : AlterKey(key)
         \/ \E caps \in {0, 1} : AlterCaps(caps)
         \/ SignOther
  PROVE  WireInv'
<1>0. relayed \in WireOffer  BY DEF WireInv, WireTyped
<1>1. ASSUME NEW f \in Fields, NEW x \in Field, Alter(f, x) PROVE WireInv'
  <2> DEFINE s == [relayed EXCEPT !.fields[f] = x]
  <2>1. s \in WireOffer /\ s.sig = relayed.sig  BY <1>0 DEF WireOffer
  <2>2. Alters(s)  BY <1>1 DEF Alter
  <2> HIDE DEF s
  <2> QED BY <2>1, <2>2, WireAlterStep
<1>2. ASSUME NEW x \in Texts, AlterText(x) PROVE WireInv'
  <2> DEFINE s == [relayed EXCEPT !.text = x]
  <2>1. s \in WireOffer /\ s.sig = relayed.sig  BY <1>0 DEF WireOffer
  <2>2. Alters(s)  BY <1>2 DEF AlterText
  <2> HIDE DEF s
  <2> QED BY <2>1, <2>2, WireAlterStep
<1>3. ASSUME NEW key \in MakerKeys, AlterKey(key) PROVE WireInv'
  <2> DEFINE s == [relayed EXCEPT !.key = key]
  <2>1. s \in WireOffer /\ s.sig = relayed.sig  BY <1>0 DEF WireOffer
  <2>2. Alters(s)  BY <1>3 DEF AlterKey
  <2> HIDE DEF s
  <2> QED BY <2>1, <2>2, WireAlterStep
<1>4. ASSUME NEW caps \in {0, 1}, AlterCaps(caps) PROVE WireInv'
  <2> DEFINE s == [relayed EXCEPT !.caps = caps]
  <2>1. s \in WireOffer /\ s.sig = relayed.sig  BY <1>0 DEF WireOffer
  <2>2. Alters(s)  BY <1>4 DEF AlterCaps
  <2> HIDE DEF s
  <2> QED BY <2>1, <2>2, WireAlterStep
<1>5. ASSUME SignOther PROVE WireInv'
  <2>1. Alters(SignAs(relayed, "other"))  BY <1>5 DEF SignOther
  <2>2. SignAs(relayed, "other") \in WireOffer /\ SignAs(relayed, "other").key = "other"
    BY <1>0, WireSigning DEF MakerKeys
  <2>3. "other" # MakerIdentity  BY DEF MakerIdentity
  <2> QED BY <2>1, <2>2, <2>3, WireAlterStep
<1> QED BY <1>1, <1>2, <1>3, <1>4, <1>5

\* What is listed as verified under the maker's key has the values that were signed.
LEMMA WireListStep == ASSUME WireInv, NEW shelf \in Shelves, List(shelf) PROVE WireInv'
<1>1. UNCHANGED <<offer, posted, relayed, altered>>  BY DEF List
<1>2. ASSUME NEW e \in book'
      PROVE  /\ e = [shelf |-> shelf, offer |-> relayed, verified |-> VerifyOffer(relayed)]
             /\ relayed # NoOffer /\ Keeps(shelf, relayed, VerifyOffer(relayed))
  BY <1>2 DEF List
<1>3. VerifyOffer(relayed) \in BOOLEAN  BY DEF VerifyOffer
<1>4. WireTyped'
  BY <1>1, <1>2, <1>3 DEF WireInv, WireTyped, WireEntry
<1>5. ASSUME NEW e \in book'
      PROVE  /\ offer # NoOffer /\ (e.shelf # "same" => e.verified)
             /\ e.verified /\ e.offer.key = MakerIdentity => SameValues(e.offer, offer)
  <2>1. e.shelf = shelf /\ e.offer = relayed /\ e.verified = VerifyOffer(relayed) /\ relayed # NoOffer
    BY <1>2
  <2>2. offer # NoOffer  BY <2>1 DEF WireInv, WireRelayed
  <2>3. e.shelf # "same" => e.verified
    <3>1. Keeps(shelf, relayed, VerifyOffer(relayed))  BY <1>2
    <3> QED BY <3>1, <2>1 DEF Keeps, Shelves
  <2>4. e.verified /\ e.offer.key = MakerIdentity => SameValues(e.offer, offer)  BY <2>1, WireVerifies
  <2> QED BY <2>2, <2>3, <2>4
<1>6. WireBooked'  BY <1>1, <1>5 DEF WireBooked
<1> QED BY <1>1, <1>4, <1>6 DEF WireInv, WireSigned, WireRelayed, WireAsPosted

(* A cancelled offer is served no more.                                    *)
LEMMA WireCancelStep == ASSUME WireInv, CancelOffer PROVE WireInv'
<1>1. relayed' = NoOffer /\ UNCHANGED <<offer, posted, altered, book>>  BY DEF CancelOffer
<1> QED BY <1>1, WireNoOffer, WireServed DEF WireInv, WireTyped

\* The invariant is inductive.
LEMMA WireNextInv == WireInv /\ [WireNext]_wireVars => WireInv'
<1> SUFFICES ASSUME WireInv, [WireNext]_wireVars PROVE WireInv'  OBVIOUS
<1>1. ASSUME NEW number \in Written("number"), NEW flag \in Written("flag"), NEW text \in Written("text"),
             NEW agreed \in Written("terms"), NEW bytes \in Written("bytes"), NEW caps \in {0, 1},
             SignOffer([f \in Fields |-> CASE f = "number" -> number [] f = "flag" -> flag [] f = "text" -> text
                                           [] f = "terms" -> agreed [] f = "bytes" -> bytes], caps)
      PROVE  WireInv'
  <2> DEFINE fs == [f \in Fields |-> CASE f = "number" -> number [] f = "flag" -> flag [] f = "text" -> text
                                       [] f = "terms" -> agreed [] f = "bytes" -> bytes]
  <2>1. \A f \in Fields : fs[f] \in Written(f)  BY DEF Fields
  <2>2. fs \in [Fields -> Field]
    <3>1. \A f \in Fields : Written(f) \subseteq Field
      BY WireConstants DEF Written, Fields, Field, Forms, Absent
    <3>2. \A f \in Fields : fs[f] \in Field  BY <2>1, <3>1
    <3> QED BY <3>2
  <2>3. SignOffer(fs, caps)  BY <1>1
  <2> HIDE DEF fs
  <2> QED BY <2>1, <2>2, <2>3, WireSignStep
<1>2. ASSUME UNCHANGED wireVars PROVE WireInv'
  BY <1>2 DEF wireVars, WireInv, WireTyped, WireSigned, WireRelayed, WireAsPosted, WireBooked
<1> QED
  BY <1>1, <1>2, WirePostStep, WireRenderStep, WireAlterSteps, WireListStep, WireCancelStep DEF WireNext

\* The types follow from it, ...
LEMMA WireTypesFollow == WireInv => WireTypeOK
<1> SUFFICES ASSUME WireInv PROVE WireTypeOK  OBVIOUS
<1>1. \A o \in {offer, relayed} \cup {e.offer : e \in book} : o \in WireOffer
  BY DEF WireInv, WireTyped, WireEntry
<1>2. \A o \in WireOffer :
        /\ o.fields \in [Fields -> Field] /\ o.names \in Names
        /\ o.text \in Texts /\ o.key \in MakerKeys /\ o.caps \in {0, 1}
        /\ o.sig.by \in MakerKeys /\ o.sig.over.key \in MakerKeys /\ DOMAIN o.sig.over.vals \subseteq Fields
  BY DEF WireOffer, WireOver, WireVals
<1>3. \A e \in book : e.shelf \in Shelves /\ e.verified \in BOOLEAN  BY DEF WireInv, WireTyped, WireEntry
<1> QED BY <1>1, <1>2, <1>3 DEF WireTypeOK, WireInv, WireTyped

\* ... and that what is listed as the maker's is what he signed.
LEMMA WireFaithfulFollows == WireInv => WireFaithful
<1> SUFFICES ASSUME WireInv PROVE WireFaithful  OBVIOUS
<1>1. \A e \in book :
        (e.verified \/ e.shelf # "same") /\ e.offer.key = MakerIdentity => SameValues(e.offer, offer)
  BY DEF WireInv, WireBooked
<1>2. ASSUME relayed # NoOffer, ~altered, offer.fields["bytes"].form = "absent" PROVE VerifyOffer(relayed)
  <2>1. WireRelayed /\ WireSigned /\ WireAsPosted  BY <1>2 DEF WireInv, WireRelayed
  <2>2. offer.fields["bytes"] = Absent
    <3>1. offer.fields["bytes"] \in Written("bytes")  BY <2>1 DEF WireSigned, Fields
    <3> QED BY <3>1, <1>2 DEF Written, Absent
  <2> QED BY <1>2, <2>1, <2>2, WireVerifies DEF WireAsPosted
<1> QED BY <1>1, <1>2 DEF WireFaithful

\* Every reachable state of the offers is well typed.
THEOREM WireTypeCorrect == WireSpec => []WireTypeOK
<1> QED BY WireInitInv, WireNextInv, WireTypesFollow, PTL DEF WireSpec

\* What the taker lists as verified under the maker's key says in every signed field what the maker signed,
\* whatever the relay serves, and an offer without a covenant's bytes that was not altered verifies in every
\* rendering (verify_offer, fetchBook, peggedBtcCovenants, crossBook), for any values.
THEOREM WireFaithfulAlways == WireSpec => []WireFaithful
<1> QED BY WireInitInv, WireNextInv, WireFaithfulFollows, PTL DEF WireSpec

-----------------------------------------------------------------------------
(***************************************************************************)
(* DeviceLink: for any number of questions and links.                      *)
(***************************************************************************)

(* The k-th unit the host puts on the stream, and the place of a unit.     *)
LinkUnit(k) == IF k % 2 = 1 THEN [ask |-> (k + 1) \div 2, part |-> "length"] ELSE [ask |-> k \div 2, part |-> "body"]
LinkPlace(u) == IF u.part = "length" THEN 2 * u.ask - 1 ELSE 2 * u.ask

(* The units of s are those of the stream after the first so many.         *)
LinkRun(s, from) == \A k \in DOMAIN s : s[k] = LinkUnit(from + k)

(* Where the units of the i-th piece begin, the place sent so far after    *)
(* the last one.                                                           *)
LinkFrom(q, sent, i) == IF i \in DOMAIN q THEN LinkPlace(q[i].units[1]) - 1 ELSE sent

(* Headers and bodies alternate, the two of a record have the same units,  *)
(* and each record goes on where the one before it ended.                  *)
LinkPieces(q, sent) ==
  \A i \in DOMAIN q :
    /\ q[i].units # <<>> /\ LinkRun(q[i].units, LinkFrom(q, sent, i))
    /\ LinkFrom(q, sent, i) \in Nat /\ LinkFrom(q, sent, i) + Len(q[i].units) <= sent
    /\ q[i].kind = "header" => i + 1 \in DOMAIN q /\ q[i + 1].kind = "body" /\ q[i + 1].units = q[i].units
    /\ q[i].kind = "body" => /\ LinkFrom(q, sent, i + 1) = LinkFrom(q, sent, i) + Len(q[i].units)
                             /\ i + 1 \in DOMAIN q => q[i + 1].kind = "header"

LinkQueue == buf \o wire
LinkSent  == 2 * Len(asked) - Len(hostOut)

LinkReply == [ask : 1..MaxAsks, out : {"fatal", "empty", "signed"}]

LinkTyped ==
  /\ node \in Nodes /\ hostKey \in {"host", "other"} /\ policy \in {"permissive", "enforce"}
  /\ phase \in Phases /\ service \in {"off", "connecting", "waiting", "on"}
  /\ initiator \in BOOLEAN /\ transport \in BOOLEAN /\ open \in BOOLEAN
  /\ nodeId \in {<<>>, NodeId(node)}
  /\ asked \in Seq(Asks) /\ Len(asked) <= MaxAsks
  /\ hostOut \in Seq(Unit) /\ Len(hostOut) <= 2 * Len(asked) /\ plain \in Seq(Unit)
  /\ wire \in Seq(Piece) /\ buf \in Seq(Piece) /\ replies \in Seq(LinkReply)
  /\ header \in 0..(2 * MaxAsks) /\ links \in 0..MaxLinks
  /\ pins \in [Nodes -> Paths]

LinkShort == /\ \A i \in DOMAIN buf : Len(buf[i].units) <= 2 * Len(asked)
             /\ \A i \in DOMAIN wire : Len(wire[i].units) <= 2 * Len(asked)

LinkKeys ==
  /\ transport => ~initiator /\ hostKey = "host" /\ phase \notin {"connecting", "handshaking"}
  /\ asked # <<>> => hostKey = "host"
  /\ \A n \in Nodes : pins[n] \in {<<>>, DevicePubkey(n)}

LinkReplied ==
  /\ Len(replies) <= Len(asked)
  /\ \A i \in DOMAIN replies : /\ replies[i].ask = i
                               /\ asked[i] = "theft" /\ policy = "enforce" => replies[i].out = "empty"

LinkStream ==
  open => /\ LinkRun(plain, 2 * Len(replies)) /\ LinkRun(hostOut, LinkSent)
          /\ 2 * Len(replies) + Len(plain) = LinkFrom(LinkQueue, LinkSent, 1)
          /\ 2 * Len(replies) + Len(plain) <= LinkSent
          /\ LinkPieces(LinkQueue, LinkSent)
          /\ header = 0 => (LinkQueue # <<>> => LinkQueue[1].kind = "header")
          /\ header # 0 => LinkQueue # <<>> /\ LinkQueue[1].kind = "body" /\ header = Len(LinkQueue[1].units)

LinkInv == LinkTyped /\ LinkShort /\ LinkKeys /\ LinkReplied /\ LinkStream

(* The places of the units, and the unit of a request.                     *)
LEMMA LinkUnits ==
  /\ \A k \in Nat \ {0} : LinkPlace(LinkUnit(k)) = k
  /\ \A n \in Nat : /\ LinkUnit(2 * n + 1) = [ask |-> n + 1, part |-> "length"]
                    /\ LinkUnit(2 * n + 2) = [ask |-> n + 1, part |-> "body"]
<1>1. \A n \in Nat : /\ (2 * n + 1) % 2 = 1 /\ (2 * n + 2) % 2 = 0
                     /\ (2 * n + 1 + 1) \div 2 = n + 1 /\ (2 * n + 2) \div 2 = n + 1
  OBVIOUS
<1>2. \A n \in Nat : /\ LinkUnit(2 * n + 1) = [ask |-> n + 1, part |-> "length"]
                     /\ LinkUnit(2 * n + 2) = [ask |-> n + 1, part |-> "body"]
  BY <1>1 DEF LinkUnit
<1>3. \A k \in Nat \ {0} : \E n \in Nat : k = 2 * n + 1 \/ k = 2 * n + 2
  <2>1. SUFFICES ASSUME NEW k \in Nat \ {0} PROVE \E n \in Nat : k = 2 * n + 1 \/ k = 2 * n + 2  OBVIOUS
  <2>2. (k - 1) \div 2 \in Nat /\ (k = 2 * ((k - 1) \div 2) + 1 \/ k = 2 * ((k - 1) \div 2) + 2)  OBVIOUS
  <2> QED BY <2>2
<1>4. \A n \in Nat : /\ LinkPlace([ask |-> n + 1, part |-> "length"]) = 2 * n + 1
                     /\ LinkPlace([ask |-> n + 1, part |-> "body"]) = 2 * n + 2
  BY DEF LinkPlace
<1>5. \A k \in Nat \ {0} : LinkPlace(LinkUnit(k)) = k
  <2>1. SUFFICES ASSUME NEW k \in Nat \ {0} PROVE LinkPlace(LinkUnit(k)) = k  OBVIOUS
  <2>2. PICK n \in Nat : k = 2 * n + 1 \/ k = 2 * n + 2  BY <1>3
  <2> QED BY <2>2, <1>2, <1>4
<1> QED BY <1>2, <1>5

(* What the reader takes off the front.                                    *)
LEMMA LinkPiecesTail ==
  ASSUME NEW q \in Seq(Piece), q # <<>>, NEW sent \in Nat, LinkPieces(q, sent)
  PROVE  /\ \A i \in Nat \ {0} : LinkFrom(Tail(q), sent, i) = LinkFrom(q, sent, i + 1)
         /\ LinkPieces(Tail(q), sent)
<1> DEFINE t == Tail(q)
<1>1. /\ t \in Seq(Piece) /\ Len(t) = Len(q) - 1 /\ DOMAIN t = 1..Len(t) /\ DOMAIN q = 1..Len(q)
      /\ Len(q) \in Nat \ {0} /\ \A i \in DOMAIN t : t[i] = q[i + 1]
  BY HeadTailProperties, LenProperties, EmptySeq
<1> HIDE DEF t
<1>2. \A i \in Nat \ {0} : i \in DOMAIN t <=> i + 1 \in DOMAIN q  BY <1>1
<1>3. \A i \in Nat \ {0} : LinkFrom(t, sent, i) = LinkFrom(q, sent, i + 1)  BY <1>1, <1>2 DEF LinkFrom
<1>4. ASSUME NEW i \in DOMAIN t
      PROVE  /\ t[i].units # <<>> /\ LinkRun(t[i].units, LinkFrom(t, sent, i))
             /\ LinkFrom(t, sent, i) \in Nat /\ LinkFrom(t, sent, i) + Len(t[i].units) <= sent
             /\ t[i].kind = "header" => i + 1 \in DOMAIN t /\ t[i + 1].kind = "body" /\ t[i + 1].units = t[i].units
             /\ t[i].kind = "body" => /\ LinkFrom(t, sent, i + 1) = LinkFrom(t, sent, i) + Len(t[i].units)
                                      /\ i + 1 \in DOMAIN t => t[i + 1].kind = "header"
  <2>1. i \in Nat \ {0} /\ i + 1 \in Nat \ {0} /\ i + 1 \in DOMAIN q /\ t[i] = q[i + 1]  BY <1>1, <1>2, <1>4
  <2>2. LinkFrom(t, sent, i) = LinkFrom(q, sent, i + 1) /\ LinkFrom(t, sent, i + 1) = LinkFrom(q, sent, i + 1 + 1)
    BY <2>1, <1>3
  <2>3. i + 1 \in DOMAIN t <=> i + 1 + 1 \in DOMAIN q  BY <2>1, <1>2
  <2>4. i + 1 \in DOMAIN t => t[i + 1] = q[i + 1 + 1]  BY <1>1
  <2> QED BY <2>1, <2>2, <2>3, <2>4 DEF LinkPieces
<1>5. LinkPieces(t, sent)  BY <1>4 DEF LinkPieces
<1> QED BY <1>3, <1>5 DEF t

(* What the host puts at the end.                                          *)
LEMMA LinkPiecesSend ==
  ASSUME NEW q \in Seq(Piece), NEW sent \in Nat, LinkPieces(q, sent),
         NEW us \in Seq(Unit), us # <<>>, LinkRun(us, sent)
  PROVE  LET r == q \o <<[kind |-> "header", units |-> us], [kind |-> "body", units |-> us]>>
         IN /\ LinkPieces(r, sent + Len(us))
            /\ LinkFrom(r, sent + Len(us), 1) = LinkFrom(q, sent, 1)
            /\ q = <<>> => r[1].kind = "header"
            /\ q # <<>> => r[1] = q[1]
            /\ r # <<>>
<1> DEFINE h == [kind |-> "header", units |-> us]
           b == [kind |-> "body", units |-> us]
           two == <<h, b>>
           r == q \o two
           n == Len(q)
           to == sent + Len(us)
<1>1. h \in Piece /\ b \in Piece /\ h.units = us /\ b.units = us /\ h.kind = "header" /\ b.kind = "body"
  BY DEF Piece
<1>2. two \in Seq(Piece) /\ Len(two) = 2 /\ two[1] = h /\ two[2] = b  BY <1>1
<1>3. n \in Nat /\ DOMAIN q = 1..n /\ Len(us) \in Nat \ {0} /\ DOMAIN us = 1..Len(us)
  BY LenProperties, EmptySeq
<1> HIDE DEF h, b, two
<1>4. /\ r \in Seq(Piece) /\ Len(r) = n + 2 /\ DOMAIN r = 1..(n + 2)
      /\ \A i \in 1..n : r[i] = q[i]
      /\ r[n + 1] = h /\ r[n + 2] = b
  <2>1. /\ r \in Seq(Piece) /\ Len(r) = n + 2
        /\ \A i \in 1..(n + 2) : r[i] = IF i <= n THEN q[i] ELSE two[i - n]
    <3>1. /\ q \o two \in Seq(Piece) /\ Len(q \o two) = Len(q) + Len(two)
          /\ \A i \in 1..(Len(q) + Len(two)) : (q \o two)[i] = IF i <= Len(q) THEN q[i] ELSE two[i - Len(q)]
      BY <1>2, ConcatProperties
    <3> QED BY <3>1, <1>2
  <2>2. DOMAIN r = 1..(n + 2)  BY <2>1, LenProperties
  <2> QED BY <2>1, <2>2, <1>2, <1>3
<1> HIDE DEF r
<1>5. us[1] = LinkUnit(sent + 1) /\ LinkPlace(us[1]) - 1 = sent
  <2>1. us[1] = LinkUnit(sent + 1)  BY <1>3 DEF LinkRun
  <2> QED BY <2>1, LinkUnits
<1>6. /\ \A i \in 1..n : LinkFrom(r, to, i) = LinkFrom(q, sent, i)
      /\ LinkFrom(q, sent, n + 1) = sent /\ LinkFrom(r, to, n + 1) = sent /\ LinkFrom(r, to, n + 2) = sent
      /\ LinkFrom(r, to, n + 3) = to
  BY <1>1, <1>3, <1>4, <1>5 DEF LinkFrom
<1>7. ASSUME NEW i \in DOMAIN r
      PROVE  /\ r[i].units # <<>> /\ LinkRun(r[i].units, LinkFrom(r, to, i))
             /\ LinkFrom(r, to, i) \in Nat /\ LinkFrom(r, to, i) + Len(r[i].units) <= to
             /\ r[i].kind = "header" => i + 1 \in DOMAIN r /\ r[i + 1].kind = "body" /\ r[i + 1].units = r[i].units
             /\ r[i].kind = "body" => /\ LinkFrom(r, to, i + 1) = LinkFrom(r, to, i) + Len(r[i].units)
                                      /\ i + 1 \in DOMAIN r => r[i + 1].kind = "header"
  <2>1. CASE i \in 1..n
    <3>1. /\ q[i].units # <<>> /\ LinkRun(q[i].units, LinkFrom(q, sent, i))
          /\ LinkFrom(q, sent, i) \in Nat /\ LinkFrom(q, sent, i) + Len(q[i].units) <= sent
          /\ q[i].kind = "header" => i + 1 \in DOMAIN q /\ q[i + 1].kind = "body" /\ q[i + 1].units = q[i].units
          /\ q[i].kind = "body" => /\ LinkFrom(q, sent, i + 1) = LinkFrom(q, sent, i) + Len(q[i].units)
                                   /\ i + 1 \in DOMAIN q => q[i + 1].kind = "header"
      BY <2>1, <1>3 DEF LinkPieces
    <3>2. r[i] = q[i] /\ LinkFrom(r, to, i) = LinkFrom(q, sent, i)  BY <2>1, <1>4, <1>6
    <3>3. q[i].units \in Seq(Unit)
      <4>1. q[i] \in Piece  BY <2>1, ElementOfSeq
      <4> QED BY <4>1 DEF Piece
    <3>4. Len(q[i].units) \in Nat  BY <3>3, LenProperties
    <3>5. LinkFrom(r, to, i + 1) = LinkFrom(q, sent, i + 1)  BY <2>1, <1>3, <1>6
    <3>6. CASE i + 1 \in 1..n
      <4>1. r[i + 1] = q[i + 1] /\ i + 1 \in DOMAIN r  BY <3>6, <1>4, <1>3
      <4> QED BY <3>1, <3>2, <3>4, <3>5, <3>6, <4>1, <1>3
    <3>7. CASE i = n
      <4>1. i + 1 \notin DOMAIN q /\ r[i + 1].kind = "header"  BY <3>7, <1>3, <1>4, <1>1
      <4> QED BY <3>1, <3>2, <3>4, <3>5, <4>1, <1>3
    <3> QED BY <2>1, <3>6, <3>7, <1>3
  <2>2. CASE i = n + 1
    <3>1. i + 1 = n + 2 /\ i + 1 \in DOMAIN r  BY <2>2, <1>3, <1>4
    <3> QED BY <2>2, <3>1, <1>1, <1>3, <1>4, <1>6
  <2>3. CASE i = n + 2
    <3>1. i + 1 = n + 3 /\ i + 1 \notin DOMAIN r  BY <2>3, <1>3, <1>4
    <3> QED BY <2>3, <3>1, <1>1, <1>3, <1>4, <1>6
  <2> QED BY <2>1, <2>2, <2>3, <1>3, <1>4
<1>8. LinkPieces(r, to)  BY <1>7 DEF LinkPieces
<1>9. LinkFrom(r, to, 1) = LinkFrom(q, sent, 1) /\ r # <<>>
  BY <1>3, <1>4, <1>6
<1>10. q = <<>> => r[1].kind = "header"  BY <1>1, <1>4
<1>11. q # <<>> => r[1] = q[1]
  <2>1. q # <<>> => n # 0  BY EmptySeq
  <2> QED BY <2>1, <1>3, <1>4
<1> QED BY <1>8, <1>9, <1>10, <1>11 DEF r, two, h, b

(* A piece that arrives stays in the queue, one that is read leaves it.    *)
LEMMA LinkArrive ==
  ASSUME NEW b \in Seq(Piece), NEW w \in Seq(Piece), w # <<>>
  PROVE  Append(b, Head(w)) \o Tail(w) = b \o w
<1>1. Head(w) \in Piece /\ Tail(w) \in Seq(Piece) /\ Len(Tail(w)) = Len(w) - 1
      /\ \A i \in 1..Len(Tail(w)) : Tail(w)[i] = w[i + 1]
  BY HeadTailProperties
<1>2. Head(w) = w[1] /\ Len(w) \in Nat \ {0}  BY EmptySeq
<1>3. Append(b, Head(w)) \in Seq(Piece) /\ Len(Append(b, Head(w))) = Len(b) + 1
      /\ (\A i \in 1..Len(b) : Append(b, Head(w))[i] = b[i]) /\ Append(b, Head(w))[Len(b) + 1] = w[1]
  BY <1>1, <1>2, AppendProperties
<1> DEFINE l == Append(b, Head(w)) \o Tail(w)
           r == b \o w
<1>4. l \in Seq(Piece) /\ Len(l) = Len(b) + 1 + Len(w) - 1
      /\ \A i \in 1..(Len(b) + Len(w)) : l[i] = IF i <= Len(b) + 1 THEN Append(b, Head(w))[i] ELSE Tail(w)[i - (Len(b) + 1)]
  BY <1>1, <1>2, <1>3, ConcatProperties, LenProperties
<1>5. r \in Seq(Piece) /\ Len(r) = Len(b) + Len(w)
      /\ \A i \in 1..(Len(b) + Len(w)) : r[i] = IF i <= Len(b) THEN b[i] ELSE w[i - Len(b)]
  BY ConcatProperties
<1>6. Len(b) \in Nat  BY LenProperties
<1> HIDE DEF l, r
<1>7. ASSUME NEW i \in 1..(Len(b) + Len(w)) PROVE l[i] = r[i]
  <2>1. CASE i <= Len(b)  BY <2>1, <1>3, <1>4, <1>5, <1>6
  <2>2. CASE i = Len(b) + 1  BY <2>2, <1>2, <1>3, <1>4, <1>5, <1>6
  <2>3. CASE i > Len(b) + 1
    <3>1. i - (Len(b) + 1) \in 1..Len(Tail(w))  BY <2>3, <1>1, <1>2, <1>6
    <3>2. Tail(w)[i - (Len(b) + 1)] = w[i - Len(b)]  BY <3>1, <1>1, <1>6
    <3>3. l[i] = Tail(w)[i - (Len(b) + 1)]
      <4>1. ~(i <= Len(b) + 1)  BY <2>3, <1>6
      <4> QED BY <4>1, <1>4
    <3>4. r[i] = w[i - Len(b)]
      <4>1. ~(i <= Len(b))  BY <2>3, <1>6
      <4> QED BY <4>1, <1>5
    <3> QED BY <3>2, <3>3, <3>4
  <2> QED BY <2>1, <2>2, <2>3, <1>2, <1>6
<1>8. l = r  BY <1>2, <1>4, <1>5, <1>6, <1>7, SeqEqual
<1> QED BY <1>8 DEF l, r

\* What is read off the buffer is read off the stream of buffer and wire.
LEMMA LinkRead ==
  ASSUME NEW b \in Seq(Piece), b # <<>>, NEW w \in Seq(Piece)
  PROVE  /\ Tail(b) \o w = Tail(b \o w) /\ b \o w # <<>> /\ (b \o w)[1] = Head(b)
         /\ b \o w \in Seq(Piece)
<1> DEFINE c == b \o w
           l == Tail(b) \o w
           r == Tail(c)
<1>1. Len(b) \in Nat \ {0} /\ Len(w) \in Nat /\ Head(b) = b[1]  BY EmptySeq, LenProperties
<1>2. c \in Seq(Piece) /\ Len(c) = Len(b) + Len(w)
      /\ \A i \in 1..(Len(b) + Len(w)) : c[i] = IF i <= Len(b) THEN b[i] ELSE w[i - Len(b)]
  BY ConcatProperties
<1> HIDE DEF c
<1>3. c # <<>> /\ c[1] = Head(b)  BY <1>1, <1>2
<1>4. r \in Seq(Piece) /\ Len(r) = Len(c) - 1 /\ \A i \in 1..Len(r) : r[i] = c[i + 1]
  BY <1>2, <1>3, HeadTailProperties
<1>5. Tail(b) \in Seq(Piece) /\ Len(Tail(b)) = Len(b) - 1 /\ \A i \in 1..Len(Tail(b)) : Tail(b)[i] = b[i + 1]
  BY HeadTailProperties
<1>6. l \in Seq(Piece) /\ Len(l) = Len(Tail(b)) + Len(w)
      /\ \A i \in 1..(Len(Tail(b)) + Len(w)) : l[i] = IF i <= Len(Tail(b)) THEN Tail(b)[i] ELSE w[i - Len(Tail(b))]
  BY <1>5, ConcatProperties
<1> HIDE DEF l, r
<1>7. ASSUME NEW i \in 1..Len(l) PROVE l[i] = r[i]
  <2>1. CASE i <= Len(Tail(b))  BY <2>1, <1>1, <1>2, <1>4, <1>5, <1>6
  <2>2. CASE i > Len(Tail(b))
    <3>1. l[i] = w[i - (Len(b) - 1)]  BY <2>2, <1>5, <1>6
    <3>2. r[i] = c[i + 1] /\ c[i + 1] = w[i + 1 - Len(b)]  BY <2>2, <1>1, <1>2, <1>4, <1>5, <1>6
    <3> QED BY <3>1, <3>2, <1>1
  <2> QED BY <2>1, <2>2, <1>1, <1>5
<1>8. l = r  BY <1>1, <1>2, <1>4, <1>5, <1>6, <1>7, SeqEqual
<1> QED BY <1>2, <1>3, <1>8 DEF c, l, r

(* Nodes with a key in common are those the derivation does not tell apart.*)
LEMMA LinkPaths ==
  ASSUME NEW m \in Nodes, NEW n \in Nodes, NEW signing \in BOOLEAN,
         NodePath(m, signing) = NodePath(n, signing)
  PROVE  SameKeys(m, n)
<1>1. NodePath(m, signing)[2] = NodePath(n, signing)[2] /\ NodePath(m, signing)[3] = NodePath(n, signing)[3]
  OBVIOUS
<1> DEFINE leaf(k) == CASE k = "asset" -> 0 [] k \in {"btc", "own_btc"} -> 1 [] OTHER -> AssetIndex[k]
           branch(k) == IF k \in Assets THEN 2 ELSE 0
           role == IF signing THEN 1 ELSE 0
<1>2. branch(m) + role = branch(n) + role /\ leaf(m) = leaf(n)  BY <1>1 DEF NodePath
<1>3. m \in Assets <=> n \in Assets  BY <1>2
<1>4. "asset" \notin Assets /\ "btc" \notin Assets /\ "own_btc" \notin Assets  BY LinkConstants
<1>5. CASE m \in Assets
  <2>1. AssetIndex[m] = AssetIndex[n]  BY <1>2, <1>3, <1>4, <1>5
  <2> QED BY <2>1, <1>3, <1>5 DEF SameKeys
<1>6. CASE m \notin Assets
  <2>1. m \in {"asset", "btc", "own_btc"} /\ n \in {"asset", "btc", "own_btc"}  BY <1>3, <1>6 DEF Nodes
  <2> QED BY <1>2, <2>1 DEF SameKeys
<1> QED BY <1>5, <1>6

\* The keys of the nodes are paths.
LEMMA LinkPathTyped == \A n \in Nodes : NodeId(n) \in Paths /\ DevicePubkey(n) \in Paths
                                        /\ NodeId(n) # <<>> /\ DevicePubkey(n) # <<>>
<1> SUFFICES ASSUME NEW n \in Nodes
             PROVE  NodeId(n) \in Paths /\ DevicePubkey(n) \in Paths /\ NodeId(n) # <<>> /\ DevicePubkey(n) # <<>>
  OBVIOUS
<1>1. ASSUME NEW signing \in BOOLEAN PROVE NodePath(n, signing) \in Paths /\ NodePath(n, signing) # <<>>
  <2> DEFINE leaf == CASE n = "asset" -> 0 [] n \in {"btc", "own_btc"} -> 1 [] OTHER -> AssetIndex[n]
             mid == (IF n \in Assets THEN 2 ELSE 0) + (IF signing THEN 1 ELSE 0)
  <2>1. leaf \in Nat  BY LinkConstants DEF Nodes
  <2>2. mid \in Nat  OBVIOUS
  <2>3. NodePath(n, signing) = <<1017, mid, leaf>>  BY DEF NodePath
  <2> HIDE DEF leaf, mid
  <2> QED BY <2>1, <2>2, <2>3 DEF Paths
<1> QED BY <1>1 DEF NodeId, DevicePubkey, LnNodeKeys

\* At first no link is up and nothing was sent.
LEMMA LinkInitInv == LinkInit => LinkInv
<1> SUFFICES ASSUME LinkInit PROVE LinkInv  OBVIOUS
<1>1. LinkTyped
  <2>1. pins \in [Nodes -> Paths]  BY DEF LinkInit, Paths
  <2>2. 0 \in 0..(2 * MaxAsks) /\ 0 \in 0..MaxLinks  BY LinkConstants
  <2>3. initiator \in BOOLEAN /\ transport \in BOOLEAN /\ open \in BOOLEAN  BY Zenon DEF LinkInit
  <2>4. \A s : <<>> \in Seq(s) /\ Len(<<>>) = 0  OBVIOUS
  <2> QED BY <2>1, <2>2, <2>3, <2>4, LinkConstants DEF LinkInit, LinkTyped, Nodes, Phases
<1>2. LinkShort /\ LinkKeys /\ LinkReplied  BY DEF LinkInit, LinkShort, LinkKeys, LinkReplied
<1>3. LinkStream  BY DEF LinkInit, LinkStream
<1> QED BY <1>1, <1>2, <1>3 DEF LinkInv

(* What does not touch the stream.                                         *)
LEMMA LinkKept ==
  ASSUME LinkInv, UNCHANGED streamVars
  PROVE  LinkShort' /\ LinkStream' /\ (UNCHANGED policy => LinkReplied')
BY DEF LinkInv, streamVars, LinkShort, LinkStream, LinkReplied, LinkQueue, LinkSent

\* A new link starts with an empty stream.
LEMMA LinkConnectStep ==
  ASSUME LinkInv, NEW n \in Nodes, NEW key \in {"host", "other"}, NEW mode \in {"permissive", "enforce"},
         Connect(n, key, mode)
  PROVE  LinkInv'
<1>1. /\ node' = n /\ hostKey' = key /\ policy' = mode /\ links' = links + 1 /\ links < MaxLinks
      /\ pins' = [pins EXCEPT ![n] = IF @ = <<>> THEN DevicePubkey(n) ELSE @]
      /\ phase' = "connecting" /\ service' = "connecting"
      /\ initiator' = FALSE /\ transport' = FALSE /\ nodeId' = <<>>
      /\ asked' = <<>> /\ hostOut' = <<>> /\ wire' = <<>> /\ buf' = <<>> /\ plain' = <<>> /\ replies' = <<>>
      /\ header' = 0 /\ open' = TRUE
  BY DEF Connect
<1>2. \A s : <<>> \in Seq(s) /\ Len(<<>>) = 0  OBVIOUS
<1>3. pins' \in [Nodes -> Paths] /\ \A k \in Nodes : pins'[k] \in {<<>>, DevicePubkey(k)}
  BY <1>1, LinkPathTyped DEF LinkInv, LinkTyped, LinkKeys
<1>4. links' \in 0..MaxLinks /\ 0 \in 0..(2 * MaxAsks) /\ 0 <= MaxAsks
  BY <1>1, LinkConstants DEF LinkInv, LinkTyped
<1>5. initiator' \in BOOLEAN /\ transport' \in BOOLEAN /\ open' \in BOOLEAN  BY <1>1, Zenon
<1>6. LinkTyped'  BY <1>1, <1>2, <1>3, <1>4, <1>5 DEF LinkTyped, Phases
<1>7. LinkShort' /\ LinkKeys' /\ LinkReplied'  BY <1>1, <1>2, <1>3 DEF LinkShort, LinkKeys, LinkReplied
<1>8. LinkStream'
  <2>1. buf' \o wire' = <<>> /\ 2 * Len(asked') - Len(hostOut') = 0  BY <1>1, <1>2
  <2>2. LinkPieces(<<>>, 0) /\ LinkFrom(<<>>, 0, 1) = 0 /\ LinkRun(<<>>, 0)
      BY DEF LinkPieces, LinkFrom, LinkRun
  <2> QED BY <1>1, <1>2, <2>1, <2>2 DEF LinkStream, LinkQueue, LinkSent
<1> QED BY <1>6, <1>7, <1>8 DEF LinkInv

\* The handshake and a connection that fails leave the stream alone.
LEMMA LinkUpSteps ==
  ASSUME LinkInv, ActOne \/ ActTwo \/ ConnectFails \/ NodeIdSeen
  PROVE  LinkInv'
<1>1. LinkShort' /\ LinkStream' /\ LinkReplied' /\ UNCHANGED streamVars /\ UNCHANGED <<node, hostKey, policy, pins, links, nodeId>>
  BY LinkKept DEF ActOne, ActTwo, ConnectFails, NodeIdSeen
<1>2. LinkKeys'
  BY <1>1 DEF LinkInv, LinkTyped, LinkKeys, ActOne, ActTwo, ConnectFails, NodeIdSeen, HostProves, streamVars
<1>3. phase' \in Phases /\ service' \in {"off", "connecting", "waiting", "on"}
  BY DEF LinkInv, LinkTyped, Phases, ActOne, ActTwo, ConnectFails, NodeIdSeen
<1>4. initiator' \in BOOLEAN /\ transport' \in BOOLEAN
  BY DEF LinkInv, LinkTyped, ActOne, ActTwo, ConnectFails, NodeIdSeen
<1>5. LinkTyped'  BY <1>1, <1>3, <1>4 DEF LinkInv, LinkTyped, streamVars
<1> QED BY <1>1, <1>2, <1>5 DEF LinkInv

(* The host asks: two units more, and nothing before them changes.         *)
LEMMA LinkAskStep == ASSUME LinkInv, NEW kind \in Asks, HostAsks(kind) PROVE LinkInv'
<1> DEFINE n == Len(asked)
           two == <<[ask |-> n + 1, part |-> "length"], [ask |-> n + 1, part |-> "body"]>>
<1>1. /\ transport /\ open /\ n < MaxAsks /\ asked' = Append(asked, kind) /\ hostOut' = hostOut \o two
      /\ UNCHANGED <<node, hostKey, phase, initiator, transport, policy, wire, buf, open, header, plain, replies,
                     nodeId, service, pins, links>>
  BY DEF HostAsks
<1>2. n \in Nat /\ MaxAsks \in Nat /\ Len(hostOut) \in Nat
  BY LinkConstants, LenProperties DEF LinkInv, LinkTyped
<1>3. two \in Seq(Unit) /\ Len(two) = 2
  <2>1. \A u \in {"length", "body"} : [ask |-> n + 1, part |-> u] \in Unit  BY <1>1, <1>2 DEF Unit
  <2> QED BY <2>1
<1>4. asked' \in Seq(Asks) /\ Len(asked') = n + 1 /\ \A i \in 1..n : asked'[i] = asked[i]
  BY <1>1, AppendProperties DEF LinkInv, LinkTyped
<1>5. /\ hostOut' \in Seq(Unit) /\ Len(hostOut') = Len(hostOut) + 2
      /\ \A i \in 1..(Len(hostOut) + 2) :
           hostOut'[i] = IF i <= Len(hostOut) THEN hostOut[i] ELSE two[i - Len(hostOut)]
  BY <1>1, <1>3, ConcatProperties DEF LinkInv, LinkTyped
<1>6. LinkSent' = LinkSent /\ LinkSent + Len(hostOut) = 2 * n
  BY <1>2, <1>4, <1>5 DEF LinkSent
<1>7. LinkTyped'  BY <1>1, <1>2, <1>4, <1>5 DEF LinkInv, LinkTyped
<1>8. LinkKeys'  BY <1>1 DEF LinkInv, LinkKeys
<1>9. LinkShort'
  <2>1. ASSUME NEW p \in Piece, Len(p.units) <= 2 * n PROVE Len(p.units) <= 2 * (n + 1)
    <3>1. Len(p.units) \in Nat  BY LenProperties DEF Piece
    <3> QED BY <2>1, <3>1, <1>2
  <2>2. \A i \in DOMAIN buf : buf[i] \in Piece  BY ElementOfSeq, LenProperties DEF LinkInv, LinkTyped
  <2>3. \A i \in DOMAIN wire : wire[i] \in Piece  BY ElementOfSeq, LenProperties DEF LinkInv, LinkTyped
  <2> QED BY <1>1, <1>4, <2>1, <2>2, <2>3 DEF LinkInv, LinkShort
<1>10. LinkReplied'
  <2>1. Len(replies) \in Nat /\ DOMAIN replies = 1..Len(replies)  BY LenProperties DEF LinkInv, LinkTyped
  <2> QED BY <1>1, <1>2, <1>4, <2>1 DEF LinkInv, LinkReplied
<1>11. LinkStream'
  <2>1. LinkRun(hostOut', LinkSent)
    <3>1. SUFFICES ASSUME NEW k \in DOMAIN hostOut' PROVE hostOut'[k] = LinkUnit(LinkSent + k)  BY DEF LinkRun
    <3>2. k \in 1..(Len(hostOut) + 2) /\ DOMAIN hostOut = 1..Len(hostOut)
      BY <1>5, LenProperties DEF LinkInv, LinkTyped
    <3>3. CASE k <= Len(hostOut)
      BY <1>1, <1>5, <3>2, <3>3 DEF LinkInv, LinkStream, LinkRun
    <3>4. CASE k = Len(hostOut) + 1
      <4>1. hostOut'[k] = [ask |-> n + 1, part |-> "length"]  BY <1>2, <1>5, <3>2, <3>4
      <4>2. LinkSent + k = 2 * n + 1  BY <1>2, <3>4 DEF LinkSent
      <4> QED BY <4>1, <4>2, <1>2, LinkUnits
    <3>5. CASE k = Len(hostOut) + 2
      <4>1. hostOut'[k] = [ask |-> n + 1, part |-> "body"]  BY <1>2, <1>5, <3>2, <3>5
      <4>2. LinkSent + k = 2 * n + 2  BY <1>2, <3>5 DEF LinkSent
      <4> QED BY <4>1, <4>2, <1>2, LinkUnits
    <3> QED BY <3>2, <3>3, <3>4, <3>5, <1>2
  <2>2. LinkQueue' = LinkQueue  BY <1>1 DEF LinkQueue
  <2> QED BY <1>1, <1>6, <2>1, <2>2 DEF LinkInv, LinkStream
<1> QED BY <1>7, <1>8, <1>9, <1>10, <1>11 DEF LinkInv

(* The host sends a record of the next units.                              *)
LEMMA LinkSendStep == ASSUME LinkInv, NEW n \in 1..Len(hostOut), HostSends(n) PROVE LinkInv'
<1> DEFINE us == SubSeq(hostOut, 1, n)
           rest == SubSeq(hostOut, n + 1, Len(hostOut))
           two == <<[kind |-> "header", units |-> us], [kind |-> "body", units |-> us]>>
<1>1. /\ open /\ wire' = wire \o two /\ hostOut' = rest
      /\ UNCHANGED <<node, hostKey, phase, initiator, transport, policy, asked, buf, open, header, plain, replies,
                     nodeId, service, pins, links>>
  BY DEF HostSends
<1>2. hostOut \in Seq(Unit) /\ Len(hostOut) \in Nat /\ Len(asked) \in Nat /\ Len(hostOut) <= 2 * Len(asked)
      /\ n \in Nat \ {0} /\ n <= Len(hostOut) /\ MaxAsks \in Nat /\ Len(asked) <= MaxAsks
  BY LinkConstants, LenProperties DEF LinkInv, LinkTyped
<1>3. us \in Seq(Unit) /\ Len(us) = n /\ (\A k \in 1..n : us[k] = hostOut[k]) /\ us # <<>>
  <2>1. \A i \in 1..n : hostOut[i] \in Unit  BY <1>2, ElementOfSeq
  <2>2. us \in Seq(Unit) /\ Len(us) = n /\ \A k \in 1..n : us[k] = hostOut[k]
    BY <1>2, <2>1, SubSeqProperties
  <2> QED BY <2>2, <1>2
<1>4. /\ rest \in Seq(Unit) /\ Len(rest) = Len(hostOut) - n
      /\ \A k \in 1..(Len(hostOut) - n) : rest[k] = hostOut[n + k]
  <2>1. \A i \in (n + 1)..Len(hostOut) : hostOut[i] \in Unit  BY <1>2, ElementOfSeq
  <2>2. /\ rest \in Seq(Unit) /\ Len(rest) = IF n + 1 <= Len(hostOut) THEN Len(hostOut) - (n + 1) + 1 ELSE 0
        /\ \A k \in 1..(Len(hostOut) - (n + 1) + 1) : rest[k] = hostOut[n + 1 + k - 1]
    BY <1>2, <2>1, SubSeqProperties
  <2> QED BY <1>2, <2>2
<1> HIDE DEF us, rest
<1>5. two \in Seq(Piece) /\ Len(two) = 2 /\ \A i \in 1..2 : two[i].units = us
  BY <1>3 DEF Piece
<1>6. /\ wire' \in Seq(Piece) /\ Len(wire') = Len(wire) + 2
      /\ \A i \in 1..(Len(wire) + 2) : wire'[i] = IF i <= Len(wire) THEN wire[i] ELSE two[i - Len(wire)]
  BY <1>1, <1>5, ConcatProperties DEF LinkInv, LinkTyped
<1>7. LinkTyped'  BY <1>1, <1>2, <1>4, <1>6 DEF LinkInv, LinkTyped
<1>8. LinkShort'
  <2>1. Len(wire) \in Nat /\ DOMAIN wire = 1..Len(wire) /\ DOMAIN wire' = 1..Len(wire')
    BY <1>6, LenProperties DEF LinkInv, LinkTyped
  <2>2. Len(us) <= 2 * Len(asked)  BY <1>2, <1>3
  <2>3. \A i \in DOMAIN wire' : Len(wire'[i].units) <= 2 * Len(asked)
    <3>1. SUFFICES ASSUME NEW i \in DOMAIN wire' PROVE Len(wire'[i].units) <= 2 * Len(asked)  OBVIOUS
    <3>2. CASE i <= Len(wire)  BY <2>1, <3>2, <1>6 DEF LinkInv, LinkShort
    <3>3. CASE i > Len(wire)
      <4>1. i - Len(wire) \in 1..2 /\ wire'[i] = two[i - Len(wire)]  BY <2>1, <3>3, <1>6
      <4> QED BY <4>1, <1>5, <2>2
    <3> QED BY <2>1, <3>2, <3>3
  <2> QED BY <1>1, <2>3 DEF LinkInv, LinkShort
<1>9. LinkKeys' /\ LinkReplied'  BY <1>1 DEF LinkInv, LinkKeys, LinkReplied
<1>10. LinkStream'
  <2>1. LinkQueue \in Seq(Piece) /\ LinkQueue' = LinkQueue \o two
    <3>1. buf \in Seq(Piece) /\ wire \in Seq(Piece)  BY DEF LinkInv, LinkTyped
    <3>2. buf \o wire \in Seq(Piece)  BY <3>1, ConcatProperties
    <3>3. (buf \o wire) \o two = buf \o (wire \o two)
      <4>1. two \in Seq(Piece)  BY <1>5
      <4> HIDE DEF two
      <4> QED BY <3>1, <4>1, ConcatAssociative
    <3> QED BY <3>2, <3>3, <1>1 DEF LinkQueue
  <2>2. LinkSent \in Nat /\ LinkSent' = LinkSent + n  BY <1>1, <1>2, <1>4 DEF LinkSent
  <2>3. LinkRun(us, LinkSent) /\ LinkRun(hostOut', LinkSent')
    <3>1. DOMAIN us = 1..n /\ DOMAIN hostOut = 1..Len(hostOut) /\ DOMAIN rest = 1..(Len(hostOut) - n)
      BY <1>2, <1>3, <1>4, LenProperties
    <3>2. \A k \in 1..Len(hostOut) : hostOut[k] = LinkUnit(LinkSent + k)
      BY <1>1, <3>1 DEF LinkInv, LinkStream, LinkRun
    <3>3. LinkRun(us, LinkSent)  BY <3>1, <3>2, <1>2, <1>3 DEF LinkRun
    <3>4. ASSUME NEW k \in DOMAIN rest PROVE rest[k] = LinkUnit(LinkSent + n + k)
      <4>1. n + k \in 1..Len(hostOut) /\ rest[k] = hostOut[n + k] /\ k \in Nat  BY <3>1, <1>2, <1>4
      <4>2. LinkSent + n + k = LinkSent + (n + k)  BY <4>1, <2>2, <1>2
      <4> QED BY <4>1, <4>2, <3>2
    <3> QED BY <3>3, <3>4, <1>1, <2>2 DEF LinkRun
  <2>4. LinkPieces(LinkQueue, LinkSent)  BY <1>1 DEF LinkInv, LinkStream
  <2>5. /\ LinkPieces(LinkQueue', LinkSent')
        /\ LinkFrom(LinkQueue', LinkSent', 1) = LinkFrom(LinkQueue, LinkSent, 1)
        /\ LinkQueue = <<>> => LinkQueue'[1].kind = "header"
        /\ LinkQueue # <<>> => LinkQueue'[1] = LinkQueue[1]
        /\ LinkQueue' # <<>>
    BY <2>1, <2>2, <2>3, <2>4, <1>3, LinkPiecesSend
  <2>6. Len(replies) \in Nat /\ Len(plain) \in Nat  BY LenProperties DEF LinkInv, LinkTyped
  <2>7. 2 * Len(replies) + Len(plain) <= LinkSent'
    BY <1>1, <1>2, <2>2, <2>6 DEF LinkInv, LinkStream
  <2> QED BY <1>1, <2>3, <2>5, <2>7 DEF LinkInv, LinkStream
<1> QED BY <1>7, <1>8, <1>9, <1>10 DEF LinkInv

\* A piece that arrives goes from the wire to the buffer, in its place.
LEMMA LinkArriveStep == ASSUME LinkInv, Arrive PROVE LinkInv'
<1>1. /\ wire # <<>> /\ buf' = Append(buf, Head(wire)) /\ wire' = Tail(wire)
      /\ UNCHANGED <<node, hostKey, phase, initiator, transport, policy, asked, hostOut, open, header, plain,
                     replies, nodeId, service, pins, links>>
  BY DEF Arrive
<1>2. buf \in Seq(Piece) /\ wire \in Seq(Piece)  BY DEF LinkInv, LinkTyped
<1>3. Head(wire) \in Piece /\ wire' \in Seq(Piece) /\ Len(wire') = Len(wire) - 1
      /\ (\A i \in 1..Len(wire') : wire'[i] = wire[i + 1]) /\ Len(wire) \in Nat \ {0} /\ Head(wire) = wire[1]
  BY <1>1, <1>2, HeadTailProperties, EmptySeq
<1>4. buf' \in Seq(Piece) /\ Len(buf') = Len(buf) + 1 /\ (\A i \in 1..Len(buf) : buf'[i] = buf[i])
      /\ buf'[Len(buf) + 1] = wire[1]
  BY <1>1, <1>2, <1>3, AppendProperties
<1>5. LinkQueue' = LinkQueue  BY <1>1, <1>2, LinkArrive DEF LinkQueue
<1>6. LinkShort'
  <2>1. DOMAIN wire = 1..Len(wire) /\ DOMAIN wire' = 1..Len(wire') /\ DOMAIN buf = 1..Len(buf)
        /\ DOMAIN buf' = 1..Len(buf') /\ Len(buf) \in Nat
    BY <1>2, <1>3, <1>4, LenProperties
  <2>2. \A i \in DOMAIN wire' : i + 1 \in DOMAIN wire  BY <2>1, <1>3
  <2>3. \A i \in DOMAIN buf' : i \in DOMAIN buf \/ i = Len(buf) + 1  BY <2>1, <1>4
  <2>4. 1 \in DOMAIN wire  BY <2>1, <1>3
  <2> QED BY <1>1, <1>3, <1>4, <2>1, <2>2, <2>3, <2>4 DEF LinkInv, LinkShort
<1>7. LinkTyped' /\ LinkKeys' /\ LinkReplied'
  BY <1>1, <1>3, <1>4 DEF LinkInv, LinkTyped, LinkKeys, LinkReplied
<1>8. LinkStream'  BY <1>1, <1>5 DEF LinkInv, LinkStream, LinkSent
<1> QED BY <1>6, <1>7, <1>8 DEF LinkInv

(* The stream is gone or closed: nothing is promised of it any more.       *)
LEMMA LinkEndSteps == ASSUME LinkInv, Cut \/ ServeFails \/ Disconnect PROVE LinkInv'
<1>1. /\ open' = FALSE /\ UNCHANGED <<node, hostKey, initiator, transport, policy, asked, replies, nodeId, pins, links>>
      /\ wire' = <<>> /\ buf' \in {buf, <<>>} /\ plain' \in {plain, <<>>} /\ hostOut' \in {hostOut, <<>>}
      /\ header' \in {header, 0}
  BY DEF Cut, ServeFails, Disconnect, Discard
<1>2. phase' \in Phases /\ service' \in {"off", "connecting", "waiting", "on"}
      /\ (phase' = phase \/ phase' \notin {"connecting", "handshaking"})
  BY DEF Cut, ServeFails, Disconnect, LinkInv, LinkTyped, Phases
<1>3. \A s : <<>> \in Seq(s) /\ Len(<<>>) = 0 /\ DOMAIN <<>> = {}  OBVIOUS
<1>4. Len(asked) \in Nat /\ 0 \in 0..(2 * MaxAsks)  BY LenProperties, LinkConstants DEF LinkInv, LinkTyped
<1>5. LinkTyped'
  <2>1. open' \in BOOLEAN  BY <1>1, Zenon
  <2>2. hostOut' \in Seq(Unit) /\ Len(hostOut') <= 2 * Len(asked')
    <3>1. CASE hostOut' = hostOut  BY <3>1, <1>1 DEF LinkInv, LinkTyped
    <3>2. CASE hostOut' = <<>>
      <4>1. <<>> \in Seq(Unit) /\ Len(<<>>) = 0  OBVIOUS
      <4>2. asked' = asked  BY <1>1
      <4> QED BY <3>2, <4>1, <4>2, <1>4
    <3> QED BY <3>1, <3>2, <1>1
  <2> QED BY <1>1, <1>2, <1>3, <1>4, <2>1, <2>2 DEF LinkInv, LinkTyped
<1>6. LinkShort' /\ LinkKeys' /\ LinkReplied'
  BY <1>1, <1>2, <1>3 DEF LinkInv, LinkShort, LinkKeys, LinkReplied
<1>7. LinkStream'  BY <1>1 DEF LinkStream
<1> QED BY <1>5, <1>6, <1>7 DEF LinkInv

(* The device reads the front of the queue.                                *)
LEMMA LinkReadHeaderStep == ASSUME LinkInv, ReadHeader PROVE LinkInv'
<1>1. /\ header = 0 /\ buf # <<>> /\ Head(buf).kind = "header"
      /\ header' = Len(Head(buf).units) /\ buf' = Tail(buf)
      /\ UNCHANGED <<node, hostKey, phase, initiator, transport, policy, asked, hostOut, wire, open, plain, replies,
                     nodeId, service, pins, links>>
  BY DEF ReadHeader
<1>2. buf \in Seq(Piece) /\ wire \in Seq(Piece)  BY DEF LinkInv, LinkTyped
<1>3. buf' \in Seq(Piece) /\ Len(buf') = Len(buf) - 1 /\ (\A i \in 1..Len(buf') : buf'[i] = buf[i + 1])
      /\ Len(buf) \in Nat \ {0} /\ Head(buf) = buf[1] /\ buf[1] \in Piece
      /\ DOMAIN buf = 1..Len(buf) /\ DOMAIN buf' = 1..Len(buf')
  BY <1>1, <1>2, HeadTailProperties, EmptySeq, LenProperties
<1>4. Len(buf[1].units) \in Nat /\ Len(asked) \in Nat /\ Len(asked) <= MaxAsks /\ MaxAsks \in Nat
  BY <1>3, LenProperties, LinkConstants DEF LinkInv, LinkTyped, Piece
<1>5. header' \in 0..(2 * MaxAsks)
  <2>1. Len(buf[1].units) <= 2 * Len(asked)  BY <1>3 DEF LinkInv, LinkShort
  <2> QED BY <1>1, <1>3, <1>4, <2>1
<1>6. LinkTyped' /\ LinkKeys' /\ LinkReplied'
  BY <1>1, <1>3, <1>5 DEF LinkInv, LinkTyped, LinkKeys, LinkReplied
<1>7. LinkShort'
  <2>1. \A i \in DOMAIN buf' : i + 1 \in DOMAIN buf  BY <1>3
  <2> QED BY <1>1, <1>3, <2>1 DEF LinkInv, LinkShort
<1>8. ASSUME open PROVE LinkStream'
  <2> DEFINE q == LinkQueue
             sent == LinkSent
  <2>1. /\ q \in Seq(Piece) /\ q # <<>> /\ q[1] = Head(buf) /\ LinkQueue' = Tail(q) /\ LinkSent' = sent
    BY <1>1, <1>2, LinkRead DEF LinkQueue, LinkSent
  <2>2. sent \in Nat /\ LinkPieces(q, sent)
    <3>1. Len(hostOut) \in Nat /\ Len(hostOut) <= 2 * Len(asked)  BY LenProperties DEF LinkInv, LinkTyped
    <3> QED BY <3>1, <1>4, <1>8 DEF LinkInv, LinkStream, LinkSent
  <2> HIDE DEF q, sent
  <2>3. /\ LinkFrom(Tail(q), sent, 1) = LinkFrom(q, sent, 2) /\ LinkPieces(Tail(q), sent)
    <3>1. \A i \in Nat \ {0} : LinkFrom(Tail(q), sent, i) = LinkFrom(q, sent, i + 1)  BY <2>1, <2>2, LinkPiecesTail
    <3> QED BY <3>1, <2>1, <2>2, LinkPiecesTail
  <2>4. 1 \in DOMAIN q /\ DOMAIN q = 1..Len(q) /\ Len(q) \in Nat /\ Len(Tail(q)) = Len(q) - 1
        /\ \A i \in 1..(Len(q) - 1) : Tail(q)[i] = q[i + 1]
    BY <2>1, LenProperties, EmptySeq, HeadTailProperties
  <2>5. 2 \in DOMAIN q /\ q[2].kind = "body" /\ q[2].units = q[1].units /\ q[1].units # <<>>
    <3>1. 1 + 1 \in DOMAIN q /\ q[1 + 1].kind = "body" /\ q[1 + 1].units = q[1].units /\ q[1].units # <<>>
      BY <1>1, <2>1, <2>2, <2>4 DEF LinkPieces
    <3> QED BY <3>1
  <2>6. Tail(q) # <<>> /\ Tail(q)[1] = q[2]
    <3>1. Len(Tail(q)) # 0 /\ 1 \in 1..(Len(q) - 1)  BY <2>4, <2>5
    <3>2. Tail(q)[1] = q[1 + 1] /\ 1 + 1 = 2  BY <2>4, <3>1
    <3>3. Len(<<>>) = 0  OBVIOUS
    <3>4. Tail(q) # <<>>  BY <3>1, <3>3, Zenon
    <3>5. Tail(q)[1] = q[2]  BY <3>2, Zenon
    <3> QED BY <3>4, <3>5
  <2>7. LinkFrom(q, sent, 2) = LinkFrom(q, sent, 1)  BY <2>4, <2>5 DEF LinkFrom
  <2>8. header' = Len(q[2].units) /\ header' # 0
    <3>1. q[1].units \in Seq(Unit)  BY <2>1, <1>3 DEF Piece
    <3> QED BY <1>1, <2>1, <2>5, <3>1, EmptySeq
  <2>9. /\ LinkRun(plain, 2 * Len(replies)) /\ LinkRun(hostOut, sent)
        /\ 2 * Len(replies) + Len(plain) = LinkFrom(q, sent, 1) /\ 2 * Len(replies) + Len(plain) <= sent
    BY <1>8 DEF LinkInv, LinkStream, q, sent
  <2> QED BY <1>1, <2>1, <2>3, <2>5, <2>6, <2>7, <2>8, <2>9 DEF LinkStream
<1>9. ~open => LinkStream'  BY <1>1 DEF LinkStream
<1> QED BY <1>6, <1>7, <1>8, <1>9 DEF LinkInv

\* A body is read once its whole length is there.
LEMMA LinkReadBodyStep == ASSUME LinkInv, ReadBody PROVE LinkInv'
<1> DEFINE us == Head(buf).units
<1>1. /\ header # 0 /\ buf # <<>> /\ Head(buf).kind = "body"
      /\ header' = 0 /\ buf' = Tail(buf) /\ plain' = plain \o us
      /\ UNCHANGED <<node, hostKey, phase, initiator, transport, policy, asked, hostOut, wire, open, replies,
                     nodeId, service, pins, links>>
  BY DEF ReadBody
<1>2. buf \in Seq(Piece) /\ wire \in Seq(Piece) /\ plain \in Seq(Unit)  BY DEF LinkInv, LinkTyped
<1>3. buf' \in Seq(Piece) /\ Len(buf') = Len(buf) - 1 /\ (\A i \in 1..Len(buf') : buf'[i] = buf[i + 1])
      /\ Len(buf) \in Nat \ {0} /\ Head(buf) = buf[1] /\ buf[1] \in Piece
      /\ DOMAIN buf = 1..Len(buf) /\ DOMAIN buf' = 1..Len(buf')
  BY <1>1, <1>2, HeadTailProperties, EmptySeq, LenProperties
<1>4. us \in Seq(Unit)  BY <1>3 DEF Piece
<1> HIDE DEF us
<1>5. /\ plain' \in Seq(Unit) /\ Len(plain') = Len(plain) + Len(us)
      /\ \A k \in 1..(Len(plain) + Len(us)) : plain'[k] = IF k <= Len(plain) THEN plain[k] ELSE us[k - Len(plain)]
  BY <1>1, <1>2, <1>4, ConcatProperties
<1>6. 0 \in 0..(2 * MaxAsks)  BY LinkConstants
<1>7. LinkTyped' /\ LinkKeys' /\ LinkReplied'
  BY <1>1, <1>3, <1>5, <1>6 DEF LinkInv, LinkTyped, LinkKeys, LinkReplied
<1>8. LinkShort'
  <2>1. \A i \in DOMAIN buf' : i + 1 \in DOMAIN buf  BY <1>3
  <2> QED BY <1>1, <1>3, <2>1 DEF LinkInv, LinkShort
<1>9. ASSUME open PROVE LinkStream'
  <2> DEFINE q == LinkQueue
             sent == LinkSent
             from == 2 * Len(replies) + Len(plain)
  <2>1. /\ q \in Seq(Piece) /\ q # <<>> /\ q[1] = Head(buf) /\ LinkQueue' = Tail(q) /\ LinkSent' = sent
    BY <1>1, <1>2, LinkRead DEF LinkQueue, LinkSent
  <2>2. sent \in Nat /\ LinkPieces(q, sent)
    <3>1. Len(hostOut) \in Nat /\ Len(asked) \in Nat /\ Len(hostOut) <= 2 * Len(asked)
      BY LenProperties DEF LinkInv, LinkTyped
    <3> QED BY <3>1, <1>9 DEF LinkInv, LinkStream, LinkSent
  <2>3. /\ LinkRun(plain, 2 * Len(replies)) /\ LinkRun(hostOut, sent) /\ from = LinkFrom(q, sent, 1)
    BY <1>9 DEF LinkInv, LinkStream
  <2> HIDE DEF q, sent
  <2>4. /\ LinkFrom(Tail(q), sent, 1) = LinkFrom(q, sent, 2) /\ LinkPieces(Tail(q), sent)
    <3>1. \A i \in Nat \ {0} : LinkFrom(Tail(q), sent, i) = LinkFrom(q, sent, i + 1)  BY <2>1, <2>2, LinkPiecesTail
    <3> QED BY <3>1, <2>1, <2>2, LinkPiecesTail
  <2>5. 1 \in DOMAIN q /\ DOMAIN q = 1..Len(q) /\ Len(q) \in Nat /\ Len(Tail(q)) = Len(q) - 1
        /\ (\A i \in 1..(Len(q) - 1) : Tail(q)[i] = q[i + 1]) /\ Tail(q) \in Seq(Piece)
    BY <2>1, LenProperties, EmptySeq, HeadTailProperties
  <2>6. /\ LinkRun(us, from) /\ LinkFrom(q, sent, 2) = from + Len(us) /\ from + Len(us) <= sent
        /\ 2 \in DOMAIN q => q[2].kind = "header"
    <3>1. q[1].kind = "body" /\ q[1].units = us  BY <1>1, <2>1 DEF us
    <3>2. /\ LinkRun(us, from) /\ LinkFrom(q, sent, 1 + 1) = from + Len(us) /\ from + Len(us) <= sent
          /\ 1 + 1 \in DOMAIN q => q[1 + 1].kind = "header"
      BY <2>2, <2>3, <2>5, <3>1 DEF LinkPieces
    <3> QED BY <3>2
  <2>7. Len(plain) \in Nat /\ Len(us) \in Nat /\ Len(replies) \in Nat /\ DOMAIN plain = 1..Len(plain)
        /\ DOMAIN us = 1..Len(us) /\ DOMAIN plain' = 1..(Len(plain) + Len(us))
    BY <1>2, <1>4, <1>5, LenProperties DEF LinkInv, LinkTyped
  <2>8. LinkRun(plain', 2 * Len(replies))
    <3>1. SUFFICES ASSUME NEW k \in DOMAIN plain' PROVE plain'[k] = LinkUnit(2 * Len(replies) + k)
      BY DEF LinkRun
    <3>2. CASE k <= Len(plain)  BY <3>2, <2>3, <2>7, <1>5 DEF LinkRun
    <3>3. CASE k > Len(plain)
      <4>1. k - Len(plain) \in DOMAIN us /\ plain'[k] = us[k - Len(plain)]  BY <3>3, <2>7, <1>5
      <4>2. from + (k - Len(plain)) = 2 * Len(replies) + k  BY <2>7
      <4> QED BY <4>1, <4>2, <2>6 DEF LinkRun
    <3> QED BY <3>2, <3>3, <2>7
  <2>9. 2 * Len(replies) + Len(plain') = from + Len(us)  BY <1>5, <2>7
  <2>10. Tail(q) # <<>> => Tail(q)[1].kind = "header"
    <3>1. Tail(q) # <<>> => 2 \in DOMAIN q /\ Tail(q)[1] = q[2]  BY <2>5, EmptySeq
    <3> QED BY <3>1, <2>6
  <2> HIDE DEF from
  <2> QED BY <1>1, <2>1, <2>3, <2>4, <2>6, <2>8, <2>9, <2>10 DEF LinkStream
<1>10. ~open => LinkStream'  BY <1>1 DEF LinkStream
<1> QED BY <1>7, <1>8, <1>9, <1>10 DEF LinkInv

(* The reply is to the request after the last one answered.                *)
LEMMA LinkServeStep == ASSUME LinkInv, ServeFrame PROVE LinkInv'
<1> DEFINE ask == plain[1].ask
           reply == [ask |-> ask, out |-> Handle(asked[ask])]
<1>1. /\ Serving /\ ~Starved /\ Handle(asked[ask]) # "fatal"
      /\ replies' = IF open THEN Append(replies, reply) ELSE replies
      /\ nodeId' = IF asked[ask] = "init" THEN NodeId(node) ELSE nodeId
      /\ plain' = SubSeq(plain, 3, Len(plain))
      /\ UNCHANGED <<node, hostKey, phase, initiator, transport, policy, asked, hostOut, wire, buf, open, header,
                     service, pins, links>>
  BY DEF ServeFrame, Encrypt, Rest
<1>2. plain \in Seq(Unit) /\ Len(plain) \in Nat /\ Len(plain) >= 2 /\ DOMAIN plain = 1..Len(plain)
      /\ replies \in Seq(LinkReply) /\ Len(replies) \in Nat /\ DOMAIN replies = 1..Len(replies)
      /\ Len(asked) \in Nat /\ Len(hostOut) \in Nat /\ Len(asked) <= MaxAsks
  BY <1>1, LenProperties DEF LinkInv, LinkTyped, Starved
<1>3. ask \in 1..MaxAsks
  <2>1. plain[1] \in Unit  BY <1>2, ElementOfSeq
  <2> QED BY <2>1 DEF Unit
<1>4. reply \in LinkReply  BY <1>3 DEF LinkReply, Handle
<1>5. /\ plain' \in Seq(Unit) /\ Len(plain') = Len(plain) - 2
      /\ \A k \in 1..(Len(plain) - 2) : plain'[k] = plain[k + 2]
  <2>1. \A i \in 3..Len(plain) : plain[i] \in Unit  BY <1>2, ElementOfSeq
  <2>2. /\ plain' \in Seq(Unit) /\ Len(plain') = IF 3 <= Len(plain) THEN Len(plain) - 3 + 1 ELSE 0
        /\ \A k \in 1..(Len(plain) - 3 + 1) : plain'[k] = plain[3 + k - 1]
    BY <1>1, <1>2, <2>1, SubSeqProperties
  <2>3. Len(plain') = Len(plain) - 2
    <3>1. Len(plain') = IF 3 <= Len(plain) THEN Len(plain) - 3 + 1 ELSE 0  BY <2>2
    <3> DEFINE l == Len(plain)
    <3>2. l \in Nat /\ l >= 2  BY <1>2
    <3>3. Len(plain') = IF 3 <= l THEN l - 3 + 1 ELSE 0  BY <3>1
    <3> HIDE DEF l
    <3>4. l - 3 + 1 = l - 2 /\ (3 <= l \/ l = 2)  BY <3>2
    <3>5. Len(plain') = l - 2  BY <3>2, <3>3, <3>4
    <3> QED BY <3>5 DEF l
  <2>4. ASSUME NEW k \in 1..(Len(plain) - 2) PROVE plain'[k] = plain[k + 2]
    <3>1. k \in 1..(Len(plain) - 3 + 1) /\ 3 + k - 1 = k + 2  BY <1>2
    <3>2. plain'[k] = plain[3 + k - 1]  BY <2>2, <3>1
    <3> QED BY <3>1, <3>2
  <2> QED BY <2>2, <2>3, <2>4
<1>6. CASE ~open
  <2>1. UNCHANGED <<replies, asked, policy, buf, wire, open>>  BY <1>1, <1>6
  <2>2. LinkTyped'  BY <1>1, <1>5, <2>1 DEF LinkInv, LinkTyped
  <2>3. UNCHANGED <<transport, initiator, hostKey, phase, pins, wire>>  BY <1>1
  <2>4. LinkShort' /\ LinkReplied'  BY <2>1 DEF LinkInv, LinkShort, LinkReplied
  <2>5. LinkKeys'  BY <2>1, <2>3 DEF LinkInv, LinkKeys
  <2>6. LinkStream'  BY <1>6, <2>1 DEF LinkStream
  <2> QED BY <2>2, <2>4, <2>5, <2>6 DEF LinkInv
<1>7. CASE open
  <2>1. ask = Len(replies) + 1
    <3>1. plain[1] = LinkUnit(2 * Len(replies) + 1)  BY <1>2, <1>7 DEF LinkInv, LinkStream, LinkRun
    <3>2. LinkUnit(2 * Len(replies) + 1) = [ask |-> Len(replies) + 1, part |-> "length"]  BY <1>2, LinkUnits
    <3> QED BY <3>1, <3>2
  <2>2. /\ 2 * Len(replies) + Len(plain) <= LinkSent /\ LinkSent <= 2 * Len(asked)
    BY <1>2, <1>7 DEF LinkInv, LinkStream, LinkSent
  <2>3. Len(replies) + 1 <= Len(asked)
    <3>1. LinkSent \in Int  BY <1>2 DEF LinkSent
    <3> QED BY <1>2, <2>2, <3>1
  <2> HIDE DEF reply
  <2>4. /\ replies' \in Seq(LinkReply) /\ Len(replies') = Len(replies) + 1
        /\ (\A i \in 1..Len(replies) : replies'[i] = replies[i]) /\ replies'[Len(replies) + 1] = reply
        /\ DOMAIN replies' = 1..(Len(replies) + 1)
    BY <1>1, <1>2, <1>4, <1>7, AppendProperties, LenProperties
  <2>5. LinkTyped'  BY <1>1, <1>5, <2>4 DEF LinkInv, LinkTyped
  <2>6. LinkShort' /\ LinkKeys'  BY <1>1 DEF LinkInv, LinkShort, LinkKeys
  <2>7. LinkReplied'
    <3>1. reply.ask = Len(replies) + 1 /\ (asked[Len(replies) + 1] = "theft" /\ policy = "enforce" => reply.out = "empty")
      BY <2>1 DEF reply, Handle
    <3>2. \A i \in DOMAIN replies' : i \in DOMAIN replies \/ i = Len(replies) + 1  BY <1>2, <2>4
    <3> QED BY <1>1, <1>2, <2>3, <2>4, <3>1, <3>2 DEF LinkInv, LinkReplied
  <2>8. LinkStream'
    <3>1. LinkQueue' = LinkQueue /\ LinkSent' = LinkSent  BY <1>1 DEF LinkQueue, LinkSent
    <3>2. 2 * Len(replies') + Len(plain') = 2 * Len(replies) + Len(plain)  BY <1>2, <1>5, <2>4
    <3>3. LinkRun(plain', 2 * Len(replies'))
      <4>1. SUFFICES ASSUME NEW k \in DOMAIN plain' PROVE plain'[k] = LinkUnit(2 * Len(replies') + k)
      BY DEF LinkRun
      <4>2. k \in 1..(Len(plain) - 2) /\ k + 2 \in DOMAIN plain /\ plain'[k] = plain[k + 2]
        BY <1>2, <1>5, LenProperties
      <4>3. plain[k + 2] = LinkUnit(2 * Len(replies) + (k + 2))
        BY <4>2, <1>7 DEF LinkInv, LinkStream, LinkRun
      <4>4. 2 * Len(replies) + (k + 2) = 2 * Len(replies') + k  BY <1>2, <2>4, <4>2
      <4> QED BY <4>2, <4>3, <4>4
    <3> QED BY <1>1, <1>7, <3>1, <3>2, <3>3 DEF LinkInv, LinkStream
  <2> QED BY <2>5, <2>6, <2>7, <2>8 DEF LinkInv
<1> QED BY <1>6, <1>7

\* The invariant is inductive.
LEMMA LinkNextInv == LinkInv /\ [LinkNext]_linkVars => LinkInv'
<1> SUFFICES ASSUME LinkInv, [LinkNext]_linkVars PROVE LinkInv'  OBVIOUS
<1>1. ASSUME NEW n \in 1..(2 * MaxAsks), HostSends(n) PROVE LinkInv'
  <2>1. n \in 1..Len(hostOut)  BY <1>1 DEF HostSends
  <2> QED BY <1>1, <2>1, LinkSendStep
<1>2. ASSUME UNCHANGED linkVars PROVE LinkInv'
  <2>1. LinkShort' /\ LinkStream' /\ LinkReplied'  BY <1>2, LinkKept DEF linkVars, streamVars
  <2> QED BY <1>2, <2>1 DEF linkVars, LinkInv, LinkTyped, LinkKeys
<1> QED
  BY <1>1, <1>2, LinkConnectStep, LinkUpSteps, LinkAskStep, LinkArriveStep, LinkEndSteps, LinkReadHeaderStep,
     LinkReadBodyStep, LinkServeStep DEF LinkNext

\* The types follow from it, ...
LEMMA LinkTypesFollow == LinkInv => LinkTypeOK
<1> SUFFICES ASSUME LinkInv PROVE LinkTypeOK  OBVIOUS
<1>1. nodeId \in Paths
  <2>1. <<>> \in Paths  BY DEF Paths
  <2> QED BY <2>1, LinkPathTyped DEF LinkInv, LinkTyped
<1>2. ~(initiator /\ transport)  BY DEF LinkInv, LinkKeys
<1> QED BY <1>1, <1>2 DEF LinkInv, LinkTyped, LinkTypeOK

\* ... and that each answer is to the question in its place.
LEMMA LinkFaithfulFollows == LinkInv => LinkFaithful
<1> SUFFICES ASSUME LinkInv PROVE LinkFaithful  OBVIOUS
<1>1. ASSUME Serving, open, hostOut \o wire \o buf \o plain = <<>>, header = 0 PROVE Len(replies) = Len(asked)
  <2>1. Len(hostOut) = 0 /\ Len(plain) = 0 /\ wire = <<>> /\ buf = <<>>
    <3> DEFINE both == Unit \cup Piece
    <3>1. hostOut \in Seq(both) /\ wire \in Seq(both) /\ buf \in Seq(both) /\ plain \in Seq(both)
      BY SeqMonotonic DEF LinkInv, LinkTyped
    <3>2. hostOut \o wire \in Seq(both) /\ (hostOut \o wire) \o buf \in Seq(both)  BY <3>1, ConcatProperties
    <3>3. (hostOut \o wire) \o buf = <<>> /\ plain = <<>>  BY <1>1, <3>1, <3>2, ConcatEqualIffEmpty
    <3>4. hostOut \o wire = <<>> /\ buf = <<>>  BY <3>1, <3>2, <3>3, ConcatEqualIffEmpty
    <3>5. hostOut = <<>> /\ wire = <<>>  BY <3>1, <3>4, ConcatEqualIffEmpty
    <3> QED BY <3>3, <3>4, <3>5
  <2>2. LinkQueue = <<>>  BY <2>1 DEF LinkQueue
  <2>3. 2 * Len(replies) + Len(plain) = LinkFrom(<<>>, LinkSent, 1)  BY <1>1, <2>2 DEF LinkInv, LinkStream
  <2>4. LinkFrom(<<>>, LinkSent, 1) = LinkSent  BY DEF LinkFrom
  <2>5. Len(replies) \in Nat /\ Len(asked) \in Nat  BY LenProperties DEF LinkInv, LinkTyped
  <2> QED BY <2>1, <2>3, <2>4, <2>5 DEF LinkSent
<1>2. \A m, n \in Nodes : pins[m] # <<>> /\ pins[m] = pins[n] => SameKeys(m, n)
  <2>1. \A m, n \in Nodes : NodePath(m, FALSE) = NodePath(n, FALSE) => SameKeys(m, n)  BY LinkPaths
  <2>2. \A m \in Nodes : pins[m] \in {<<>>, NodePath(m, FALSE)}
    BY DEF LinkInv, LinkKeys, DevicePubkey, LnNodeKeys
  <2> QED BY <2>1, <2>2
<1>3. nodeId # <<>> => \A n \in Nodes : nodeId = NodeId(n) => SameKeys(n, node)
  <2>1. \A m, n \in Nodes : NodePath(m, TRUE) = NodePath(n, TRUE) => SameKeys(m, n)  BY LinkPaths
  <2>2. \A m \in Nodes : NodeId(m) = NodePath(m, TRUE)  BY DEF NodeId, LnNodeKeys
  <2> QED BY <2>1, <2>2 DEF LinkInv, LinkTyped
<1> QED BY <1>1, <1>2, <1>3 DEF LinkInv, LinkFaithful, LinkReplied, LinkKeys

\* Every reachable state of the link is well typed.
THEOREM LinkTypeCorrect == LinkSpec => []LinkTypeOK
<1> QED BY LinkInitInv, LinkNextInv, LinkTypesFollow, PTL DEF LinkSpec

\* However the records cut the requests and wherever the link ends, each reply answers the request in its
\* place and none is left out; an enforcing phone signs no theft; and only nodes that one path derives are
\* taken for one another (signer.rs), for any number of requests, links and nodes and any fold of the ids.
THEOREM LinkFaithfulAlways == LinkSpec => []LinkFaithful
<1> QED BY LinkInitInv, LinkNextInv, LinkFaithfulFollows, PTL DEF LinkSpec
=============================================================================
