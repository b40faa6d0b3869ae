----------------------------- MODULE WalletScan -----------------------------
(***************************************************************************)
(* The shared wallet of the Rust core (ambra_core/src/api/mod.rs and       *)
(* lib.rs): one Wollet per descriptor behind one mutex, scanned against an *)
(* Esplora server at most once per TTL, persisted on disk, and rebuilt     *)
(* when the server has fallen behind it.  Calls come from Dart and run on  *)
(* the bridge's worker threads.                                            *)
(*                                                                         *)
(* What a scan reads is abstracted to the version of the wallet's coins    *)
(* and the tip of the server; steps that do no network request take no     *)
(* time.                                                                   *)
(***************************************************************************)
EXTENDS Integers

CONSTANTS
    Workers,    \* the threads of the bridge's pool
    None,       \* no wollet, no owner
    TTL,        \* ticks for which a scan is shared (10 s)
    ScanTicks,  \* ticks the requests of one scan may take, each cut off at 30 s
    MaxVer,     \* bound on the changes of the wallet's coins
    MaxTip,     \* bound on the chain
    MaxFaults   \* bound on failed scans, panics, lost answers and restarts

Seen    == [ver : 0..MaxVer, tip : 0..MaxTip]
Wollet  == [view : Seen, backed : BOOLEAN]

ASSUME ScanConstants ==
    /\ None \notin Workers \cup Wollet
    /\ TTL \in Nat \ {0}
    /\ {ScanTicks, MaxVer, MaxTip, MaxFaults} \subseteq Nat

VARIABLES
    server,     \* what the Esplora server reports
    wollet,     \* the cached Wollet, None before the first call
    disk,       \* the persisted state
    mark,       \* ticks since mark_scanned; TTL: no mark, or an old one
    lockedBy,   \* owner of the cache's mutex
    poisoned,   \* a panic happened under the mutex
    pc,         \* where each worker stands
    answer,     \* what the running scan reads
    scanAge,    \* ticks since that scan's first request
    viewAge,    \* ticks since what the wollet shows was current
    lost,       \* faults so far
    own,        \* the latest change that finalize_and_broadcast made and returned, no scan under way
    floor       \* own when each worker's call began; its own change while it sends

scanVars == <<server, wollet, disk, mark, lockedBy, poisoned, pc, answer, scanAge, viewAge, lost, own,
              floor>>

Fresh   == [ver |-> 0, tip |-> 0]
MaxAge  == TTL + ScanTicks + 1
Steps   == {"idle", "want", "scan", "rescan", "mark", "run", "sent"}
Local   == {"mark", "run"}
Inside  == {"scan", "rescan", "mark", "run"}
Older(a, b) == IF a < b THEN a ELSE b

\* Types; the mutex has one owner, who finds the wollet it inserted: "just inserted", "present after
\* sync" (mod.rs:1804, 1821).
ScanTypeOK ==
    /\ server \in Seen /\ disk \in Seen /\ answer \in Seen
    /\ wollet \in Wollet \cup {None}
    /\ mark \in 0..TTL /\ scanAge \in 0..ScanTicks /\ viewAge \in 0..MaxAge
    /\ lockedBy \in Workers \cup {None} /\ poisoned \in BOOLEAN
    /\ pc \in [Workers -> Steps]
    /\ lost \in 0..MaxFaults
    /\ own \in 0..MaxVer /\ floor \in [Workers -> 0..MaxVer]
    /\ \A w \in Workers : pc[w] \in Inside <=> lockedBy = w
    /\ lockedBy # None => wollet # None

ScanInit ==
    /\ server = [ver |-> 0, tip |-> MaxTip]
    /\ wollet = None /\ disk = Fresh /\ answer = Fresh
    /\ mark = TTL /\ scanAge = 0 /\ viewAge = MaxAge
    /\ lockedBy = None /\ poisoned = FALSE /\ lost = 0
    /\ pc = [w \in Workers |-> "idle"]
    /\ own = 0 /\ floor = [w \in Workers |-> 0]

Goto(w, step) == pc' = [pc EXCEPT ![w] = step]

\* The call ends; what only it used is forgotten.
Return(w) == /\ Goto(w, "idle")
             /\ floor' = [floor EXCEPT ![w] = 0]

ScanOver == answer' = Fresh /\ scanAge' = 0

(***************************************************************************)
(* Calls that read the wallet: sync_wallet, wallet_transactions and every  *)
(* build_*.                                                                *)
(***************************************************************************)

\* A worker of the pool takes the call from Dart.
Call(w) ==
    /\ pc[w] = "idle"
    /\ Goto(w, "want")
    /\ floor' = [floor EXCEPT ![w] = own]
    /\ UNCHANGED <<server, wollet, disk, mark, lockedBy, poisoned, answer, scanAge, viewAge, lost, own>>

\* A bug: no mutex.
CanLockAlways == TRUE

\* A bug: a poisoned mutex is an error for good.
CanLockClean == lockedBy = None /\ ~poisoned

\* The mutex is taken, and taken over when a panic poisoned it.
CanLock == lockedBy = None

\* A wollet restores what is on disk; from a store that cannot be read it is empty, and not persisted.
Build(b) == [view |-> IF b THEN disk ELSE Fresh, backed |-> b]

ScannedRecently == mark < TTL

StartScan(w, step) ==
    /\ Goto(w, step)
    /\ answer' = server /\ scanAge' = 0

\* A bug: using the wallet renews its mark.
EnterRenewing(w, b) ==
    /\ pc[w] = "want" /\ CanLock
    /\ lockedBy' = w
    /\ wollet' = IF wollet = None THEN Build(b) ELSE wollet
    /\ \/ ScannedRecently /\ Goto(w, "run") /\ mark' = 0 /\ UNCHANGED <<answer, scanAge>>
       \/ ~ScannedRecently /\ StartScan(w, "scan") /\ UNCHANGED mark
    /\ UNCHANGED <<server, disk, poisoned, viewAge, lost, own, floor>>

\* with_synced_wollet up to the scan, or to the closure when a scan is shared.
Enter(w, b) ==
    /\ pc[w] = "want" /\ CanLock
    /\ lockedBy' = w
    /\ wollet' = IF wollet = None THEN Build(b) ELSE wollet
    /\ \/ ScannedRecently /\ Goto(w, "run") /\ UNCHANGED <<answer, scanAge>>
       \/ ~ScannedRecently /\ StartScan(w, "scan")
    /\ UNCHANGED <<server, disk, mark, poisoned, viewAge, lost, own, floor>>

\* UpdateHeightTooOld: the server's tip is below the one the wollet has seen.
TooOld == answer.tip < wollet.view.tip

\* The update is applied and, under a readable store, persisted.
Apply(w) ==
    /\ pc[w] \in {"scan", "rescan"} /\ ~TooOld
    /\ wollet' = [wollet EXCEPT !.view = answer]
    /\ disk' = IF wollet.backed THEN answer ELSE disk
    /\ viewAge' = scanAge
    /\ Goto(w, "mark") /\ ScanOver
    /\ UNCHANGED <<server, mark, lockedBy, poisoned, lost, own, floor>>

\* The wollet and the store are thrown away and scanned again from nothing.
Rebuild(w, b) ==
    /\ pc[w] = "scan" /\ TooOld
    /\ wollet' = [view |-> Fresh, backed |-> b]
    /\ disk' = Fresh
    /\ viewAge' = MaxAge
    /\ StartScan(w, "rescan")
    /\ UNCHANGED <<server, mark, lockedBy, poisoned, lost, own, floor>>

\* A request fails or is cut off: the call returns the error and the mutex is free.
ScanFails(w) ==
    /\ pc[w] \in {"scan", "rescan"} /\ lost < MaxFaults
    /\ lost' = lost + 1
    /\ Return(w) /\ ScanOver /\ lockedBy' = None
    /\ UNCHANGED <<server, wollet, disk, mark, poisoned, viewAge, own>>

MarkScanned(w) ==
    /\ pc[w] = "mark"
    /\ mark' = 0
    /\ Goto(w, "run")
    /\ UNCHANGED <<server, wollet, disk, lockedBy, poisoned, answer, scanAge, viewAge, lost, own, floor>>

\* The closure of the call reads the wollet and the call returns.
Run(w) ==
    /\ pc[w] = "run"
    /\ Return(w) /\ lockedBy' = None
    /\ UNCHANGED <<server, wollet, disk, mark, poisoned, answer, scanAge, viewAge, lost, own>>

\* It panics: the unwinding poisons the mutex, and the bridge turns the panic into an error.
Panic(w) ==
    /\ pc[w] = "run" /\ lost < MaxFaults
    /\ lost' = lost + 1 /\ poisoned' = TRUE
    /\ Return(w) /\ lockedBy' = None
    /\ UNCHANGED <<server, wollet, disk, mark, answer, scanAge, viewAge, own>>

(***************************************************************************)
(* Broadcasts.                                                             *)
(***************************************************************************)

Changes(n) == /\ server.ver + n <= MaxVer
              /\ server' = [server EXCEPT !.ver = @ + n]

\* finalize_and_broadcast, which does not take the mutex: the node accepts the transaction ...
Broadcast(w) ==
    /\ pc[w] = "idle" /\ Changes(1)
    /\ Goto(w, "sent")
    /\ floor' = [floor EXCEPT ![w] = server.ver + 1]
    /\ UNCHANGED <<wollet, disk, mark, lockedBy, poisoned, answer, scanAge, viewAge, lost, own>>

\* A bug: the marks stay.
ClearScanMarksNot(w) ==
    /\ pc[w] = "sent"
    /\ own' = IF own < floor[w] /\ ~\E v \in Workers : pc[v] \in {"scan", "rescan", "mark"}
              THEN floor[w] ELSE own
    /\ Return(w)
    /\ UNCHANGED <<server, wollet, disk, mark, lockedBy, poisoned, answer, scanAge, viewAge, lost>>

\* ... its answer comes, and the marks are dropped so that the next call scans.
ClearScanMarks(w) ==
    /\ pc[w] = "sent"
    /\ mark' = TTL
    /\ own' = IF own < floor[w] /\ ~\E v \in Workers : pc[v] \in {"scan", "rescan", "mark"}
              THEN floor[w] ELSE own
    /\ Return(w)
    /\ UNCHANGED <<server, wollet, disk, lockedBy, poisoned, answer, scanAge, viewAge, lost>>

\* The answer is lost: the error returns before the marks are dropped.
AnswerLost(w) ==
    /\ pc[w] = "sent" /\ lost < MaxFaults
    /\ lost' = lost + 1
    /\ Return(w)
    /\ UNCHANGED <<server, wollet, disk, mark, lockedBy, poisoned, answer, scanAge, viewAge, own>>

\* xchain_seq_broadcast sends a covenant fill, a claim or a refund and leaves the marks alone.
RawBroadcast ==
    /\ Changes(1)
    /\ UNCHANGED <<wollet, disk, mark, lockedBy, poisoned, pc, answer, scanAge, viewAge, lost, own, floor>>

(***************************************************************************)
(* The server, the clock and the process.                                  *)
(***************************************************************************)

\* The server's chain is cut back or grows; either changes what the wallet holds.
ChainMoves(tip) ==
    /\ tip # server.tip /\ server.ver < MaxVer
    /\ server' = [ver |-> server.ver + 1, tip |-> tip]
    /\ UNCHANGED <<wollet, disk, mark, lockedBy, poisoned, pc, answer, scanAge, viewAge, lost, own, floor>>

Scanning == \E w \in Workers : pc[w] \in {"scan", "rescan"}

\* Time passes while requests are out, up to the longest scan, or while nothing runs.
Tick ==
    /\ \A w \in Workers : pc[w] \notin Local
    /\ Scanning => scanAge < ScanTicks
    /\ scanAge' = IF Scanning THEN scanAge + 1 ELSE scanAge
    /\ mark' = Older(mark + 1, TTL)
    /\ viewAge' = Older(viewAge + 1, MaxAge)
    /\ UNCHANGED <<server, wollet, disk, lockedBy, poisoned, pc, answer, lost, own, floor>>

\* The process is killed: memory goes, the store stays.
Restart ==
    /\ lost < MaxFaults
    /\ lost' = lost + 1
    /\ wollet' = None /\ mark' = TTL /\ lockedBy' = None /\ poisoned' = FALSE
    /\ pc' = [w \in Workers |-> "idle"] /\ floor' = [w \in Workers |-> 0]
    /\ ScanOver
    /\ UNCHANGED <<server, disk, viewAge, own>>

ScanWork(w) ==
    \/ Apply(w) \/ MarkScanned(w) \/ Run(w) \/ ClearScanMarks(w)
    \/ \E b \in BOOLEAN : Rebuild(w, b)

ScanNext ==
    \/ \E w \in Workers :
        \/ Call(w)
        \/ \E b \in BOOLEAN : Enter(w, b)
        \/ ScanWork(w)
        \/ ScanFails(w) \/ Panic(w)
        \/ Broadcast(w) \/ AnswerLost(w)
    \/ RawBroadcast
    \/ \E tip \in 0..MaxTip : ChainMoves(tip)
    \/ Tick
    \/ Restart

\* A wallet in use is called again and again; a mutex that keeps becoming free is obtained; requests
\* return or are cut off; the clock is not stopped by calls that follow one another at once.
ScanFairness ==
    /\ \A w \in Workers :
        /\ WF_scanVars(Call(w))
        /\ SF_scanVars(\E b \in BOOLEAN : Enter(w, b))
        /\ WF_scanVars(ScanWork(w))
    /\ SF_scanVars(Tick)

ScanSpec == ScanInit /\ [][ScanNext]_scanVars /\ ScanFairness

(***************************************************************************)
(* Properties.                                                             *)
(***************************************************************************)

\* What a call shows or builds on was current no longer ago than the longest scan and the TTL together,
\* whatever fails, restarts or is rebuilt in between (mark_scanned at the end of a scan, mod.rs:1819).
BoundedStaleness == \A w \in Workers : pc[w] = "run" => viewAge <= TTL + ScanTicks

\* Every call that waits for the wallet returns, a panic of an earlier one notwithstanding (mod.rs:1793).
CallsReturn == \A w \in Workers : pc[w] = "want" ~> pc[w] = "idle"

\* Once the server's chain and the wallet's coins rest, the wallet comes to show them, also after the
\* server has fallen behind what was scanned (mod.rs:1806-1816).
CatchesUp == <>[](wollet # None => wollet.view = server)

\* A call that begins after a broadcast has returned works on a wallet that has it ("our spent UTXOs
\* changed; make the next sync actually rescan", mod.rs:1637), unless a scan begun before was still under
\* way: that scan marks its older view as fresh.
OwnBroadcastSeen == \A w \in Workers : pc[w] = "run" => wollet.view.ver >= floor[w]

\* The wallet a call shows or builds on is fresh in both respects.
FreshView == BoundedStaleness /\ OwnBroadcastSeen
=============================================================================
