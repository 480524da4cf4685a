------------------------- MODULE IntegrationUpdateProofs -------------------------
(***************************************************************************)
(* Proofs about IntegrationUpdate for any number of files, releases,       *)
(* transactions, failed writes and crashes.                                *)
(*                                                                         *)
(* CommittedIsRecoverable is not inductive: it says nothing of what the    *)
(* updater is about to do.  Inv adds that every pending backup holds the   *)
(* committed release, which backups may be pending at each step of the     *)
(* updater, and how far a replacement or a roll-back has come.             *)
(***************************************************************************)
EXTENDS IntegrationUpdate, TLAPS

PendingAt(t) == backup[t].state \in Pending
NothingPending == \A t \in Txns : ~PendingAt(t)
OnlyPending(t) == t \in Txns /\ PendingAt(t) /\ \A s \in Txns : PendingAt(s) => s = t

\* The writes before the i-th of a replacement by release v are done.
Written(i, v) ==
    /\ \A f \in Files : f < i => files[f] = v
    /\ i > N + 1 => manifest = v
    /\ i > N + 2 => controller.version = v
    /\ i > N + 3 => record = v

SavedIsCommitted == \A t \in Txns : PendingAt(t) => backup[t].saved = committed

\* A transaction to come fits the bound, and it starts with every backup settled.
Recovering ==
    /\ upd.pc \in {"recover", "check"} => txns < MaxTxns
    /\ upd.pc = "check" => NothingPending

\* Up to the backup nothing is pending, and a candidate is another release.
BeforeApply ==
    upd.pc \in {"verified", "armed", "drain", "close", "stopped", "drain_star", "mkdir",
                "prepare"} =>
        /\ upd.txn \in Txns
        /\ NothingPending
        /\ upd.candidate <=> upd.target # committed
        /\ upd.pc \in {"mkdir", "prepare"} => upd.candidate

\* While the files are replaced, their backup is the one pending.
Applying ==
    /\ upd.pc = "write" => Written(upd.at, upd.target)
    /\ upd.pc \in {"write", "applied", "commit"} => upd.candidate
    /\ upd.pc \in {"write", "applied", "commit", "required"} \/
       (upd.pc \in {"repair", "render"} /\ upd.candidate) =>
          OnlyPending(upd.txn) /\ upd.target # committed
    /\ upd.pc \in {"applied", "repair", "render", "commit"} => WholeAt(upd.target)
    /\ upd.pc = "commit" => plugin = upd.target

\* A repair without a candidate, and what follows the commit.
Settled ==
    /\ upd.pc \in {"repair", "render"} /\ ~upd.candidate =>
          NothingPending /\ upd.target = committed
    /\ upd.pc \in {"offline", "relaunch", "exit"} =>
          NothingPending /\ WholeAt(committed) /\ upd.target = committed /\ plugin = committed

\* A roll-back, of the updater's own backup or of one it found, and what follows it.
RollingBack ==
    /\ upd.pc \in {"undo", "undone"} =>
          /\ upd.undo \in Txns /\ PendingAt(upd.undo)
          /\ \/ upd.then = "recover" /\ upd.else = "idle" /\ txns < MaxTxns
             \/ upd.then = "abort" /\ upd.else = "abort"
             \/ /\ upd.then = "repair_prior" /\ upd.else = "rollback_failed"
                /\ OnlyPending(upd.undo) /\ upd.target # committed
    /\ upd.pc = "undo" => Written(upd.at, committed)
    /\ upd.pc = "undone" => WholeAt(committed)
    /\ upd.pc \in {"repair_prior", "render_prior", "rolled_back"} =>
          NothingPending /\ WholeAt(committed) /\ upd.target # committed
    /\ upd.pc = "rolled_back" => plugin = committed

\* The inductive invariant.
Inv ==
    /\ TypeOK
    /\ SavedIsCommitted
    /\ CommittedIsRecoverable
    /\ Recovering /\ BeforeApply /\ Applying /\ Settled /\ RollingBack

-----------------------------------------------------------------------------
(* Type correctness *)

\* A step of the updater keeps its transaction, candidate and target.
KeepsJob == /\ upd'.txn = upd.txn
            /\ upd'.candidate = upd.candidate
            /\ upd'.target = upd.target

LEMMA IdleIs ==
    /\ Idle \in Updaters
    /\ Idle.pc = "idle"
BY UpdateAssumption DEF Idle, Updaters, Steps, Versions, LastWrite

LEMMA TypeInit == Init => TypeOK
<1> SUFFICES ASSUME Init PROVE TypeOK
  OBVIOUS
<1>1. 1 \in Versions /\ "none" \in RestartStates /\ 0 \in 0 .. MaxTxns
  BY UpdateAssumption DEF Versions, RestartStates
<1>2. [state |-> "none", saved |-> 1] \in Backups
  BY <1>1 DEF Backups, BackupStates
<1> QED BY <1>1, <1>2, IdleIs, UpdateAssumption DEF Init, TypeOK

LEMMA GotoDoes ==
    ASSUME upd \in Updaters, NEW p \in Steps, Goto(p)
    PROVE  /\ upd' \in Updaters /\ KeepsJob
           /\ upd'.pc = p /\ upd'.at = 1
<1>1. 1 \in 1 .. LastWrite
  BY UpdateAssumption DEF LastWrite
<1> QED BY <1>1 DEF Goto, Updaters, KeepsJob

LEMMA RollBackDoes ==
    ASSUME upd \in Updaters, NEW t \in Txns, NEW p \in Steps, NEW q \in Steps,
           RollBack(t, p, q)
    PROVE  /\ upd' \in Updaters /\ KeepsJob
           /\ upd'.pc = "undo" /\ upd'.at = 1 /\ upd'.undo = t
           /\ upd'.then = p /\ upd'.else = q
<1>1. "undo" \in Steps
  BY DEF Steps
<1>2. t \in 0 .. MaxTxns /\ 1 \in 1 .. LastWrite
  BY UpdateAssumption DEF Txns, LastWrite
<1> QED BY <1>1, <1>2 DEF RollBack, Updaters, KeepsJob

LEMMA NextWriteDoes ==
    ASSUME upd \in Updaters, upd.at # LastWrite, upd' = [upd EXCEPT !.at = @ + 1]
    PROVE  /\ upd' \in Updaters /\ KeepsJob
           /\ upd'.pc = upd.pc /\ upd'.at = upd.at + 1 /\ upd'.undo = upd.undo
           /\ upd'.then = upd.then /\ upd'.else = upd.else
BY UpdateAssumption DEF Updaters, KeepsJob, LastWrite

LEMMA SetBackupDoes ==
    ASSUME backup \in [Txns -> Backups], NEW t \in 0 .. MaxTxns, NEW s \in BackupStates,
           SetBackup(t, s)
    PROVE  /\ backup' \in [Txns -> Backups]
           /\ \A u \in Txns : backup'[u].saved = backup[u].saved
           /\ \A u \in Txns : backup'[u].state = IF u = t THEN s ELSE backup[u].state
BY DEF SetBackup, Backups

\* A write keeps the installation well typed.
LEMMA WriteTyped ==
    ASSUME TypeOK, NEW i \in 1 .. LastWrite, NEW v \in Versions, Write(i, v)
    PROVE  /\ active' \in BOOLEAN
           /\ files' \in [Files -> Versions]
           /\ {manifest', record'} \subseteq Versions
           /\ controller' \in [version : Versions, bridge : BOOLEAN]
BY DEF TypeOK, Write

LEMMA StepNames ==
    \A p \in {"idle", "recover", "check", "verified", "armed", "drain", "close", "stopped",
              "drain_star", "mkdir", "prepare", "write", "applied", "repair", "render",
              "commit", "offline", "relaunch", "exit", "abort", "revive", "required",
              "undo", "undone", "repair_prior", "render_prior", "rolled_back",
              "rollback_failed", "rollback_relaunch", "repair_failed"} : p \in Steps
BY DEF Steps

LEMMA UpdaterFields ==
    ASSUME upd \in Updaters
    PROVE  /\ upd.pc \in Steps /\ upd.then \in Steps /\ upd.else \in Steps
           /\ upd.txn \in 0 .. MaxTxns /\ upd.undo \in 0 .. MaxTxns
           /\ upd.candidate \in BOOLEAN /\ upd.target \in Versions
           /\ upd.at \in 1 .. LastWrite
BY DEF Updaters

\* The bridge that a start of the runtime may write is the one of the installation.
LEMMA ReconcileDoes ==
    ASSUME Reconcile
    PROVE  \/ controller' = controller
           \/ controller' = [version |-> manifest, bridge |-> TRUE] /\ Verified /\ active
BY Zenon DEF Reconcile

LEMMA TypeStep == Inv /\ [Next]_vars => TypeOK'
<1> SUFFICES ASSUME Inv, [Next]_vars PROVE TypeOK'
  OBVIOUS
<1>0. TypeOK
  BY DEF Inv
<1> USE <1>0, UpdateAssumption, IdleIs, GotoDoes, SetBackupDoes, StepNames, UpdaterFields
    DEF TypeOK, End, Works, Fails, Receipt, install, bounds, ghosts, BackupStates,
        RestartStates, Torn
<1>1. ASSUME NEW v \in Versions, NEW c \in BOOLEAN, Begin(c, v) PROVE TypeOK'
  <2>1. upd' \in Updaters
    BY <1>1 DEF Begin, Updaters
  <2> QED BY <1>1, <2>1 DEF Begin
<1>2. CASE Recover
  <2>1. upd' \in Updaters
    BY <1>2, RollBackDoes DEF Recover
  <2> QED BY <1>2, <2>1 DEF Recover
<1>3. CASE Checked
  <2>1. upd.pc = "check" => txns < MaxTxns
    BY DEF Inv, Recovering
  <2>2. txns' \in 0 .. MaxTxns
    BY <1>3, <2>1 DEF Checked
  <2>3. CASE upd' = Idle
    BY <1>3, <2>2, <2>3 DEF Checked
  <2>4. CASE upd' # Idle
    <3> DEFINE target == IF upd.candidate THEN upd.target ELSE manifest
    <3>1. upd' = [upd EXCEPT !.pc = "verified", !.txn = txns', !.target = target]
      BY <1>3, <2>4 DEF Checked
    <3>2. target \in Versions
      OBVIOUS
    <3>3. upd' \in Updaters
      BY <2>2, <3>1, <3>2 DEF Updaters
    <3> QED BY <1>3, <2>2, <3>3 DEF Checked
  <2> QED BY <2>3, <2>4
<1>4. CASE VerifyCandidate
  BY <1>4 DEF VerifyCandidate, PersistOrEnd
<1>5. CASE Arm
  BY <1>5 DEF Arm, PersistOrEnd
<1>6. CASE BeginDraining
  BY <1>6 DEF BeginDraining, PersistOrEnd
<1>7. CASE CloseCodex
  <2>1. codex' \in BOOLEAN
    BY <1>7, Zenon DEF CloseCodex
  <2>2. upd' \in Updaters
    BY <1>7 DEF CloseCodex
  <2>3. Works \/ Fails
    BY <1>7, Zenon DEF CloseCodex
  <2>4. UNCHANGED <<install, plugin, backup, receipts, txns, ghosts>>
    BY <1>7 DEF CloseCodex
  <2> QED BY <2>1, <2>2, <2>3, <2>4
<1>8. CASE CodexStopped
  BY <1>8 DEF CodexStopped, PersistOrEnd
<1>9. CASE DrainStar
  BY <1>9 DEF DrainStar
<1>10. CASE MakeBackup
  BY <1>10 DEF MakeBackup
<1>11. CASE PrepareBackup
  <2>1. upd' \in Updaters
    BY <1>11 DEF PrepareBackup
  <2>2. [state |-> "prepared", saved |-> manifest] \in Backups
    BY DEF Backups, BackupStates
  <2>3. backup' \in [Txns -> Backups]
    BY <1>11, <2>2 DEF PrepareBackup
  <2> QED BY <1>11, <2>1, <2>3 DEF PrepareBackup
<1>12. CASE ApplyWrite
  <2>0. upd.pc = "write" => upd.txn \in Txns
    BY DEF Inv, Applying, OnlyPending
  <2>1. upd' \in Updaters
    BY <1>12, <2>0, RollBackDoes, NextWriteDoes DEF ApplyWrite
  <2> QED BY <1>12, <2>1, WriteTyped DEF ApplyWrite
<1>13. CASE MarkApplied
  BY <1>13 DEF MarkApplied
<1>14. CASE Repair
  BY <1>14 DEF Repair, NoManager, RemoveTree, RenderTree, RepairFails
<1>15. CASE RepairFailed
  BY <1>15 DEF RepairFailed, PersistAnyway
<1>16. CASE Commit
  BY <1>16 DEF Commit
<1>17. CASE OfflineVerified
  BY <1>17 DEF OfflineVerified, PersistOrEnd
<1>18. CASE Relaunch
  <2>1. codex' \in BOOLEAN
    BY <1>18, Zenon DEF Relaunch
  <2> QED BY <1>18, <2>1 DEF Relaunch
<1>19. CASE Exit
  BY <1>19 DEF Exit
<1>20. CASE Abort
  BY <1>20 DEF Abort, PersistAnyway
<1>21. CASE Revive
  <2>1. codex' \in BOOLEAN
    BY <1>21, Zenon DEF Revive, Spawn
  <2> QED BY <1>21, <2>1 DEF Revive, Spawn
<1>22. CASE RollbackRequired
  <2>0. upd.pc = "required" => upd.txn \in Txns
    BY DEF Inv, Applying, OnlyPending
  <2>1. upd' \in Updaters
    BY <1>22, <2>0, RollBackDoes DEF RollbackRequired
  <2> QED BY <1>22, <2>1 DEF RollbackRequired
<1>23. CASE UndoWrite
  <2>1. upd' \in Updaters
    BY <1>23, NextWriteDoes DEF UndoWrite
  <2>2. upd.undo \in Txns
    BY <1>23 DEF UndoWrite, Inv, RollingBack
  <2>3. backup[upd.undo].saved \in Versions
    BY <2>2 DEF Backups
  <2> QED BY <1>23, <2>1, <2>3, WriteTyped DEF UndoWrite
<1>24. CASE Undone
  BY <1>24 DEF Undone
<1>25. CASE RepairPrior
  BY <1>25 DEF RepairPrior, RemoveTree, RenderTree, RepairFails
<1>26. CASE RolledBack
  BY <1>26 DEF RolledBack, PersistOrEnd
<1>27. CASE RollbackFailed
  BY <1>27 DEF RollbackFailed, PersistOrEnd
<1>28. CASE Crash
  BY <1>28 DEF Crash
<1>29. CASE Reconcile
  <2>1. receipts' \in [Txns -> RestartStates]
    <3> DEFINE Stale(t) == /\ receipts[t] # "none"
                           /\ t = Max({u \in Txns : receipts[u] # "none"})
                           /\ receipts[t] \in PreApply
    <3>1. receipts' = [t \in Txns |-> IF Stale(t) THEN "aborted" ELSE receipts[t]]
      BY <1>29 DEF Reconcile
    <3> QED BY <3>1
  <2>2. controller' \in [version : Versions, bridge : BOOLEAN]
    <3>1. [version |-> manifest, bridge |-> TRUE] \in [version : Versions, bridge : BOOLEAN]
      OBVIOUS
    <3> QED BY <1>29, <3>1, ReconcileDoes, Zenon
  <2> QED BY <1>29, <2>1, <2>2 DEF Reconcile
<1>30. CASE UserSwitchesCodex
  BY <1>30 DEF UserSwitchesCodex
<1>31. CASE UNCHANGED vars
  BY <1>31 DEF vars
<1> QED
  BY <1>1, <1>2, <1>3, <1>4, <1>5, <1>6, <1>7, <1>8, <1>9, <1>10, <1>11, <1>12, <1>13, <1>14, <1>15,
     <1>16, <1>17, <1>18, <1>19, <1>20, <1>21, <1>22, <1>23, <1>24, <1>25, <1>26, <1>27, <1>28, <1>29,
     <1>30, <1>31 DEF Next, UpdaterStep
-----------------------------------------------------------------------------
(* The inductive step *)

\* Steps at which the updater has nothing more to rely on.
Free == {"idle", "abort", "revive", "repair_failed", "rollback_failed", "rollback_relaunch"}
ToBackup == {"verified", "armed", "drain", "close", "stopped", "drain_star", "mkdir", "prepare"}
ToEnd == {"offline", "relaunch", "exit"}

\* A step that leaves the installation and the backups alone, from a step of the
\* updater to one that relies on no more.
Quiet ==
    /\ UNCHANGED <<install, backup, committed, txns>>
    /\ \/ upd'.pc \in Free
       \/ KeepsJob /\ upd.pc = "recover" /\ upd'.pc = "check" /\ NothingPending
       \/ /\ KeepsJob /\ upd.pc \in ToBackup /\ upd'.pc \in ToBackup
          /\ upd'.pc \in {"mkdir", "prepare"} => upd.candidate
       \/ KeepsJob /\ upd.pc = "drain_star" /\ upd'.pc = "repair" /\ ~upd.candidate
       \/ KeepsJob /\ upd.pc = "repair" /\ upd'.pc = "render"
       \/ KeepsJob /\ upd.pc \in {"repair", "render"} /\ upd.candidate /\ upd'.pc = "required"
       \/ /\ KeepsJob /\ upd.pc = "render" /\ plugin' = manifest
          /\ upd'.pc = IF upd.candidate THEN "commit" ELSE "offline"
       \/ KeepsJob /\ upd.pc \in ToEnd /\ upd'.pc \in ToEnd /\ UNCHANGED plugin
       \/ KeepsJob /\ upd.pc = "repair_prior" /\ upd'.pc = "render_prior"
       \/ KeepsJob /\ upd.pc = "render_prior" /\ upd'.pc = "rolled_back" /\ plugin' = manifest

LEMMA QuietStep ==
    ASSUME Inv, TypeOK', Quiet
    PROVE  Inv'
<1> USE DEF Quiet, install, PendingAt, NothingPending
<1>1. SavedIsCommitted'
  BY DEF Inv, SavedIsCommitted
<1>2. CommittedIsRecoverable'
  BY DEF Inv, CommittedIsRecoverable, WholeAt
<1>3. Recovering'
  BY DEF Inv, Recovering, Free, ToBackup, ToEnd
<1>4. BeforeApply'
  BY DEF Inv, BeforeApply, Free, ToBackup, ToEnd, KeepsJob
<1>5. Applying'
  BY DEF Inv, Applying, Settled, BeforeApply, CommittedIsRecoverable, Free, ToBackup, ToEnd,
     KeepsJob, WholeAt, Written, OnlyPending
<1>6. Settled'
  BY DEF Inv, Applying, Settled, BeforeApply, CommittedIsRecoverable, Free, ToBackup, ToEnd,
     KeepsJob, WholeAt
<1>7. RollingBack'
  BY DEF Inv, RollingBack, Free, ToBackup, ToEnd, KeepsJob, WholeAt, Written, OnlyPending
<1> QED BY <1>1, <1>2, <1>3, <1>4, <1>5, <1>6, <1>7 DEF Inv
\* The writes of a replacement, one after the other, leave release v whole.
LEMMA WriteAdvances ==
    ASSUME TypeOK, NEW i \in 1 .. LastWrite, NEW v \in Versions, Write(i, v), Written(i, v)
    PROVE  /\ i # LastWrite => Written(i + 1, v)'
           /\ i = LastWrite => WholeAt(v)'
<1> USE UpdateAssumption DEF TypeOK, LastWrite
<1>1. \A f \in Files : f < i + 1 => files'[f] = v
  BY DEF Write, Written, Files
<1>2. /\ i > N => manifest' = v
      /\ i > N + 1 => controller'.version = v
      /\ i > N + 2 => record' = v
  BY DEF Write, Written
<1>3. i = LastWrite => controller' = [version |-> v, bridge |-> active']
  BY DEF Write, Written
<1>4. i # LastWrite => Written(i + 1, v)'
  BY <1>1, <1>2 DEF Written
<1>5. i = LastWrite => WholeAt(v)'
  BY <1>1, <1>2, <1>3 DEF WholeAt, Files
<1> QED BY <1>4, <1>5

\* A roll-back begins: of its own backup after a failed write or repair, or of one
\* that the recovery found.
LEMMA RollBackBegins ==
    ASSUME Inv, TypeOK', UNCHANGED <<install, backup, committed, txns>>,
           NEW t \in Txns, PendingAt(t), NEW p \in Steps, NEW q \in Steps, RollBack(t, p, q),
           \/ p = "recover" /\ q = "idle" /\ txns < MaxTxns
           \/ p = "abort" /\ q = "abort"
           \/ /\ p = "repair_prior" /\ q = "rollback_failed"
              /\ OnlyPending(t) /\ upd.target # committed
    PROVE  Inv'
<1>1. /\ upd'.pc = "undo" /\ upd'.at = 1 /\ upd'.undo = t
      /\ upd'.then = p /\ upd'.else = q /\ upd'.target = upd.target
  BY RollBackDoes DEF Inv, TypeOK, KeepsJob
<1>2. Written(upd.at, committed)'
  BY <1>1, UpdateAssumption DEF Written, Files
<1>3. RollingBack'
  BY <1>1, <1>2 DEF RollingBack, PendingAt, OnlyPending
<1>4. SavedIsCommitted' /\ CommittedIsRecoverable'
  BY DEF Inv, SavedIsCommitted, CommittedIsRecoverable, PendingAt, WholeAt, install
<1> QED BY <1>1, <1>3, <1>4 DEF Inv, Recovering, BeforeApply, Applying, Settled

\* A roll-back gives up.
LEMMA RollBackEnds ==
    ASSUME Inv, TypeOK', UNCHANGED <<install, backup, committed, txns>>,
           upd.pc \in {"undo", "undone"},
           IF upd.else = "idle" THEN upd' = Idle ELSE Goto(upd.else)
    PROVE  Inv'
<1>1. upd \in Updaters /\ upd.else \in {"idle", "abort", "rollback_failed"}
  BY DEF Inv, TypeOK, RollingBack
<1>2. upd'.pc \in {"idle", "abort", "rollback_failed"}
  BY <1>1, IdleIs, GotoDoes, StepNames
<1> QED BY <1>2, QuietStep DEF Quiet, Free

\* Nothing that the invariant speaks of changes.
LEMMA StutterStep ==
    ASSUME Inv, TypeOK', UNCHANGED <<install, plugin, backup, committed, txns, upd>>
    PROVE  Inv'
<1> USE DEF install, PendingAt, NothingPending, OnlyPending, WholeAt, Written
<1>1. SavedIsCommitted' /\ CommittedIsRecoverable'
  BY DEF Inv, SavedIsCommitted, CommittedIsRecoverable
<1>2. Recovering' /\ BeforeApply'
  BY DEF Inv, Recovering, BeforeApply
<1>3. Applying'
  BY DEF Inv, Applying
<1>4. Settled'
  BY DEF Inv, Settled
<1>5. RollingBack'
  BY DEF Inv, RollingBack
<1> QED BY <1>1, <1>2, <1>3, <1>4, <1>5 DEF Inv

LEMMA InvInit == Init => Inv
<1> SUFFICES ASSUME Init PROVE Inv
  OBVIOUS
<1>1. WholeAt(committed) /\ NothingPending
  BY DEF Init, WholeAt, NothingPending, PendingAt, Pending
<1> QED BY <1>1, TypeInit, IdleIs DEF Init, Inv, SavedIsCommitted, CommittedIsRecoverable,
        NothingPending, Recovering, BeforeApply, Applying, Settled, RollingBack

LEMMA InvStep == Inv /\ [Next]_vars => Inv'
<1> SUFFICES ASSUME Inv, [Next]_vars PROVE Inv'
  OBVIOUS
<1>0. TypeOK /\ TypeOK' /\ upd \in Updaters
  BY TypeStep DEF Inv, TypeOK
<1> USE <1>0, IdleIs, GotoDoes, StepNames, UpdaterFields
    DEF Works, Fails, End, bounds, ghosts, install, Quiet, Free, ToBackup, ToEnd
<1>1. ASSUME NEW v \in Versions, NEW c \in BOOLEAN, Begin(c, v) PROVE Inv'
  <2>1. upd'.pc = "recover" /\ txns' < MaxTxns
    BY <1>1 DEF Begin, Idle
  <2>2. SavedIsCommitted' /\ CommittedIsRecoverable'
    BY <1>1 DEF Begin, Inv, SavedIsCommitted, CommittedIsRecoverable, PendingAt, WholeAt
  <2> QED BY <2>1, <2>2 DEF Inv, Recovering, BeforeApply, Applying, Settled, RollingBack
<1>2. CASE Recover
  <2>1. ASSUME NEW t \in Txns, backup[t].state \in Pending, RollBack(t, "recover", "idle")
        PROVE  Inv'
    <3>1. txns < MaxTxns /\ UNCHANGED <<install, backup, committed, txns>>
      BY <1>2 DEF Recover, Inv, Recovering
    <3> QED BY <2>1, <3>1, RollBackBegins DEF PendingAt
  <2>2. CASE upd' = Idle
    <3>1. Quiet
      BY <1>2, <2>2 DEF Recover
    <3> QED BY <3>1, QuietStep
  <2>3. CASE Goto("check") /\ \A t \in Txns : backup[t].state \notin Pending \cup {"dir"}
    <3>1. Quiet
      BY <1>2, <2>3 DEF Recover, NothingPending, PendingAt
    <3> QED BY <3>1, QuietStep
  <2> QED BY <1>2, <2>1, <2>2, <2>3 DEF Recover
<1>3. CASE Checked
  <2>1. CASE upd' = Idle /\ UNCHANGED txns
    <3>1. Quiet
      BY <1>3, <2>1 DEF Checked
    <3> QED BY <3>1, QuietStep
  <2>2. CASE ~(upd' = Idle /\ UNCHANGED txns)
    <3> DEFINE target == IF upd.candidate THEN upd.target ELSE manifest
    <3>1. /\ txns' = txns + 1
          /\ upd' = [upd EXCEPT !.pc = "verified", !.txn = txns', !.target = target]
          /\ upd.pc = "check" /\ Verified /\ (upd.candidate => upd.target # manifest)
          /\ UNCHANGED <<install, backup, committed>>
      BY <1>3, <2>2 DEF Checked
    <3>2. /\ upd'.pc = "verified" /\ upd'.txn = txns + 1 /\ upd'.candidate = upd.candidate
          /\ upd'.target = target
      BY <3>1 DEF Updaters
    <3>3. NothingPending /\ txns < MaxTxns
      BY <3>1 DEF Inv, Recovering
    <3>4. manifest = committed
      BY <3>3 DEF Inv, CommittedIsRecoverable, WholeAt, NothingPending, PendingAt
    <3>5. txns + 1 \in Txns
      BY <3>3, UpdateAssumption DEF TypeOK, Txns
    <3>6. BeforeApply'
      BY <3>1, <3>2, <3>3, <3>4, <3>5 DEF BeforeApply, NothingPending, PendingAt
    <3>7. SavedIsCommitted' /\ CommittedIsRecoverable'
      BY <3>1 DEF Inv, SavedIsCommitted, CommittedIsRecoverable, PendingAt, WholeAt
    <3> QED BY <3>2, <3>6, <3>7 DEF Inv, Recovering, Applying, Settled, RollingBack
  <2> QED BY <2>1, <2>2
<1>4. CASE VerifyCandidate
  <2>1. Quiet
    BY <1>4 DEF VerifyCandidate, PersistOrEnd
  <2> QED BY <2>1, QuietStep
<1>5. CASE Arm
  <2>1. Quiet
    BY <1>5 DEF Arm, PersistOrEnd
  <2> QED BY <2>1, QuietStep
<1>6. CASE BeginDraining
  <2>1. Quiet
    BY <1>6 DEF BeginDraining, PersistOrEnd
  <2> QED BY <2>1, QuietStep
<1>7. CASE CloseCodex
  <2>1. Quiet
    BY <1>7 DEF CloseCodex
  <2> QED BY <2>1, QuietStep
<1>8. CASE CodexStopped
  <2>1. Quiet
    BY <1>8 DEF CodexStopped, PersistOrEnd
  <2> QED BY <2>1, QuietStep
<1>9. CASE DrainStar
  <2>1. Quiet
    BY <1>9 DEF DrainStar
  <2> QED BY <2>1, QuietStep
<1>10. CASE MakeBackup
  <2>1. CASE SetBackup(upd.txn, "dir") /\ Goto("prepare")
    <3>1. /\ upd.txn \in Txns /\ NothingPending /\ upd.candidate
          /\ upd.target # committed /\ WholeAt(committed)
      BY <1>10 DEF MakeBackup, Inv, BeforeApply, CommittedIsRecoverable, NothingPending,
         PendingAt
    <3>2. upd'.pc = "prepare" /\ KeepsJob
      BY <2>1
    <3>3. NothingPending'
      BY <2>1, <3>1, SetBackupDoes DEF TypeOK, NothingPending, PendingAt, BackupStates, Pending
    <3>4. BeforeApply'
      BY <1>10, <3>1, <3>2, <3>3 DEF MakeBackup, BeforeApply, KeepsJob
    <3>5. SavedIsCommitted' /\ CommittedIsRecoverable'
      BY <1>10, <3>1, <3>3 DEF MakeBackup, SavedIsCommitted, CommittedIsRecoverable,
         NothingPending, WholeAt
    <3> QED BY <3>2, <3>4, <3>5 DEF Inv, Recovering, Applying, Settled, RollingBack
  <2>2. CASE Fails /\ Goto("abort") /\ UNCHANGED backup
    <3>1. Quiet
      BY <1>10, <2>2 DEF MakeBackup
    <3> QED BY <3>1, QuietStep
  <2> QED BY <1>10, <2>1, <2>2 DEF MakeBackup
<1>11. CASE PrepareBackup
  <2>1. CASE /\ Goto("write")
             /\ backup' = [backup EXCEPT ![upd.txn] = [state |-> "prepared",
                                                       saved |-> manifest]]
    <3>1. /\ upd.txn \in Txns /\ NothingPending /\ upd.candidate
          /\ upd.target # committed /\ manifest = committed
      BY <1>11 DEF PrepareBackup, Inv, BeforeApply, CommittedIsRecoverable, NothingPending,
         PendingAt, WholeAt
    <3>2. upd'.pc = "write" /\ upd'.at = 1 /\ KeepsJob
      BY <2>1
    <3>3. OnlyPending(upd.txn)' /\ SavedIsCommitted' /\ CommittedIsRecoverable'
      BY <1>11, <2>1, <3>1, <3>2 DEF PrepareBackup, TypeOK, KeepsJob, NothingPending, OnlyPending,
         PendingAt, Pending, SavedIsCommitted, CommittedIsRecoverable
    <3>4. Written(upd.at, upd.target)'
      BY <3>2, UpdateAssumption DEF Written, Files
    <3>5. Applying'
      BY <1>11, <3>1, <3>2, <3>3, <3>4 DEF PrepareBackup, Applying, KeepsJob
    <3> QED BY <3>2, <3>3, <3>5 DEF Inv, Recovering, BeforeApply, Settled, RollingBack
  <2>2. CASE Fails /\ Goto("abort") /\ UNCHANGED backup
    <3>1. Quiet
      BY <1>11, <2>2 DEF PrepareBackup
    <3> QED BY <3>1, QuietStep
  <2> QED BY <1>11, <2>1, <2>2 DEF PrepareBackup
<1>12. CASE ApplyWrite
  <2>1. /\ upd.pc = "write" /\ OnlyPending(upd.txn) /\ upd.target # committed
        /\ Written(upd.at, upd.target) /\ UNCHANGED <<backup, committed, txns>>
    BY <1>12 DEF ApplyWrite, Inv, Applying
  <2>2. SavedIsCommitted' /\ CommittedIsRecoverable'
    BY <2>1 DEF Inv, SavedIsCommitted, CommittedIsRecoverable, OnlyPending, PendingAt
  <2>3. CASE Write(upd.at, upd.target) /\ upd.at = LastWrite /\ Goto("applied")
    <3>1. upd'.pc = "applied" /\ KeepsJob
      BY <2>3
    <3>2. WholeAt(upd.target)'
      BY <2>1, <2>3, <3>1, WriteAdvances DEF KeepsJob, WholeAt
    <3>3. upd.candidate
      BY <2>1 DEF Inv, Applying
    <3>4. Applying'
      BY <2>1, <3>1, <3>2, <3>3 DEF Applying, KeepsJob, OnlyPending, PendingAt
    <3> QED BY <2>2, <3>1, <3>4 DEF Inv, Recovering, BeforeApply, Settled, RollingBack
  <2>4. CASE /\ Write(upd.at, upd.target) /\ upd.at # LastWrite
             /\ upd' = [upd EXCEPT !.at = @ + 1]
    <3>1. upd'.pc = "write" /\ upd'.at = upd.at + 1 /\ KeepsJob
      BY <2>1, <2>4, NextWriteDoes
    <3>2. Written(upd.at, upd.target)'
      BY <2>1, <2>4, <3>1, WriteAdvances DEF KeepsJob, Written
    <3>3. Applying'
      BY <2>1, <3>1, <3>2 DEF Inv, Applying, KeepsJob, OnlyPending, PendingAt
    <3> QED BY <2>2, <3>1, <3>3 DEF Inv, Recovering, BeforeApply, Settled, RollingBack
  <2>5. CASE RollBack(upd.txn, "abort", "abort") /\ UNCHANGED install
    BY <2>1, <2>5, RollBackBegins DEF OnlyPending
  <2> QED BY <1>12, <2>3, <2>4, <2>5 DEF ApplyWrite
<1>13. CASE MarkApplied
  <2>1. CASE SetBackup(upd.txn, "applied") /\ Goto("repair")
    <3>1. /\ OnlyPending(upd.txn) /\ upd.target # committed /\ upd.candidate
          /\ WholeAt(upd.target) /\ UNCHANGED <<install, committed, txns>>
      BY <1>13 DEF MarkApplied, Inv, Applying
    <3>2. upd'.pc = "repair" /\ KeepsJob
      BY <2>1
    <3>3. /\ \A t \in Txns : PendingAt(t)' <=> PendingAt(t)
          /\ \A t \in Txns : backup'[t].saved = backup[t].saved
      BY <2>1, <3>1, SetBackupDoes DEF TypeOK, OnlyPending, PendingAt, BackupStates, Pending
    <3>4. OnlyPending(upd.txn)'
      BY <3>1, <3>2, <3>3 DEF OnlyPending, PendingAt, KeepsJob
    <3>5. SavedIsCommitted' /\ CommittedIsRecoverable'
      BY <3>1, <3>3 DEF Inv, SavedIsCommitted, CommittedIsRecoverable, OnlyPending, PendingAt
    <3>6. Applying'
      BY <3>1, <3>2, <3>4 DEF Applying, KeepsJob, WholeAt
    <3>7. Settled'
      BY <3>1, <3>2 DEF Settled, KeepsJob
    <3> QED BY <3>2, <3>5, <3>6, <3>7 DEF Inv, Recovering, BeforeApply, RollingBack
  <2>2. CASE Fails /\ Goto("abort") /\ UNCHANGED backup
    <3>1. Quiet
      BY <1>13, <2>2 DEF MarkApplied
    <3> QED BY <3>1, QuietStep
  <2> QED BY <1>13, <2>1, <2>2 DEF MarkApplied
<1>14. CASE Repair
  <2>1. Quiet
    BY <1>14 DEF Repair, NoManager, RemoveTree, RenderTree, RepairFails
  <2> QED BY <2>1, QuietStep
<1>15. CASE RepairFailed
  <2>1. Quiet
    BY <1>15 DEF RepairFailed, PersistAnyway
  <2> QED BY <2>1, QuietStep
<1>16. CASE Commit
  <2>1. CASE /\ SetBackup(upd.txn, "committed") /\ Goto("offline")
             /\ committed' = upd.target
    <3>1. /\ OnlyPending(upd.txn) /\ WholeAt(upd.target) /\ plugin = upd.target
          /\ UNCHANGED <<install, plugin, txns>>
      BY <1>16 DEF Commit, Inv, Applying
    <3>2. upd'.pc = "offline" /\ KeepsJob
      BY <2>1
    <3>3. NothingPending'
      BY <2>1, <3>1, SetBackupDoes DEF TypeOK, NothingPending, OnlyPending, PendingAt,
         BackupStates, Pending
    <3>4. WholeAt(committed)'
      BY <2>1, <3>1 DEF WholeAt
    <3>5. SavedIsCommitted' /\ CommittedIsRecoverable'
      BY <3>3, <3>4 DEF SavedIsCommitted, CommittedIsRecoverable, NothingPending
    <3>6. Settled'
      BY <2>1, <3>1, <3>2, <3>3, <3>4 DEF Settled, KeepsJob
    <3> QED BY <3>2, <3>5, <3>6 DEF Inv, Recovering, BeforeApply, Applying, RollingBack
  <2>2. CASE Fails /\ Goto("abort") /\ UNCHANGED <<backup, committed>>
    <3>1. Quiet
      BY <1>16, <2>2 DEF Commit
    <3> QED BY <3>1, QuietStep
  <2> QED BY <1>16, <2>1, <2>2 DEF Commit
<1>17. CASE OfflineVerified
  <2>1. Quiet
    BY <1>17 DEF OfflineVerified, PersistOrEnd
  <2> QED BY <2>1, QuietStep
<1>18. CASE Relaunch
  <2>1. Quiet
    BY <1>18 DEF Relaunch
  <2> QED BY <2>1, QuietStep
<1>19. CASE Exit
  <2>1. Quiet
    BY <1>19 DEF Exit
  <2> QED BY <2>1, QuietStep
<1>20. CASE Abort
  <2>1. Quiet
    BY <1>20 DEF Abort, PersistAnyway
  <2> QED BY <2>1, QuietStep
<1>21. CASE Revive
  <2>1. Quiet
    BY <1>21 DEF Revive, Spawn
  <2> QED BY <2>1, QuietStep
<1>22. CASE RollbackRequired
  <2>1. CASE Works /\ RollBack(upd.txn, "repair_prior", "rollback_failed")
    <3>1. OnlyPending(upd.txn) /\ upd.target # committed
      BY <1>22 DEF RollbackRequired, Inv, Applying
    <3>2. UNCHANGED <<install, backup, committed, txns>>
      BY <1>22 DEF RollbackRequired
    <3> QED BY <2>1, <3>1, <3>2, RollBackBegins DEF OnlyPending
  <2>2. CASE upd' = Idle
    <3>1. Quiet
      BY <1>22, <2>2 DEF RollbackRequired
    <3> QED BY <3>1, QuietStep
  <2> QED BY <1>22, <2>1, <2>2 DEF RollbackRequired
<1>23. CASE UndoWrite
  <2>1. /\ upd.pc = "undo" /\ upd.undo \in Txns /\ PendingAt(upd.undo)
        /\ backup[upd.undo].saved = committed /\ committed \in Versions
        /\ Written(upd.at, committed) /\ UNCHANGED <<backup, committed, txns>>
    BY <1>23 DEF UndoWrite, Inv, RollingBack, SavedIsCommitted, TypeOK
  <2>2. SavedIsCommitted' /\ CommittedIsRecoverable'
    BY <2>1 DEF Inv, SavedIsCommitted, CommittedIsRecoverable, PendingAt
  <2>3. CASE Write(upd.at, committed) /\ upd.at = LastWrite /\ Goto("undone")
    <3>1. upd'.pc = "undone" /\ KeepsJob /\ upd'.undo = upd.undo
          /\ upd'.then = upd.then /\ upd'.else = upd.else
      BY <2>3 DEF Goto, Updaters
    <3>2. WholeAt(committed)'
      BY <2>1, <2>3, WriteAdvances DEF WholeAt
    <3>3. RollingBack'
      BY <2>1, <3>1, <3>2 DEF Inv, RollingBack, KeepsJob, OnlyPending, PendingAt
    <3> QED BY <2>2, <3>1, <3>3 DEF Inv, Recovering, BeforeApply, Applying, Settled
  <2>4. CASE /\ Write(upd.at, committed) /\ upd.at # LastWrite
             /\ upd' = [upd EXCEPT !.at = @ + 1]
    <3>1. upd'.pc = "undo" /\ upd'.at = upd.at + 1 /\ KeepsJob /\ upd'.undo = upd.undo
          /\ upd'.then = upd.then /\ upd'.else = upd.else
      BY <2>1, <2>4, NextWriteDoes
    <3>2. Written(upd.at, committed)'
      BY <2>1, <2>4, <3>1, WriteAdvances DEF Written
    <3>3. RollingBack'
      BY <2>1, <3>1, <3>2 DEF Inv, RollingBack, KeepsJob, OnlyPending, PendingAt
    <3> QED BY <2>2, <3>1, <3>3 DEF Inv, Recovering, BeforeApply, Applying, Settled
  <2>5. CASE /\ UNCHANGED install
             /\ IF upd.else = "idle" THEN upd' = Idle ELSE Goto(upd.else)
    BY <2>1, <2>5, RollBackEnds
  <2> QED BY <1>23, <2>1, <2>3, <2>4, <2>5 DEF UndoWrite
<1>24. CASE Undone
  <2>1. /\ upd.pc = "undone" /\ upd.undo \in Txns /\ PendingAt(upd.undo) /\ WholeAt(committed)
        /\ UNCHANGED <<install, committed, txns>>
    BY <1>24 DEF Undone, Inv, RollingBack
  <2>2. CASE SetBackup(upd.undo, "rolled_back") /\ Goto(upd.then)
    <3>1. upd'.pc = upd.then /\ KeepsJob
      BY <2>2
    <3>2. /\ \A t \in Txns : PendingAt(t)' <=> PendingAt(t) /\ t # upd.undo
          /\ \A t \in Txns : backup'[t].saved = backup[t].saved
      BY <2>1, <2>2, SetBackupDoes DEF TypeOK, PendingAt, BackupStates, Pending
    <3>3. WholeAt(committed)'
      BY <2>1 DEF WholeAt
    <3>4. SavedIsCommitted' /\ CommittedIsRecoverable'
      BY <2>1, <3>2, <3>3 DEF Inv, SavedIsCommitted, CommittedIsRecoverable, PendingAt
    <3>5. CASE upd.then = "recover" /\ txns < MaxTxns
      BY <2>1, <3>1, <3>4, <3>5 DEF Inv, Recovering, BeforeApply, Applying, Settled, RollingBack
    <3>6. CASE upd.then = "abort"
      BY <3>1, <3>4, <3>6 DEF Inv, Recovering, BeforeApply, Applying, Settled, RollingBack
    <3>7. CASE upd.then = "repair_prior" /\ OnlyPending(upd.undo) /\ upd.target # committed
      <4>1. NothingPending'
        BY <3>2, <3>7 DEF OnlyPending, NothingPending
      <4>2. RollingBack'
        BY <2>1, <3>1, <3>3, <3>7, <4>1 DEF RollingBack, KeepsJob
      <4> QED BY <3>1, <3>4, <3>7, <4>2 DEF Inv, Recovering, BeforeApply, Applying, Settled
    <3> QED BY <2>1, <3>5, <3>6, <3>7 DEF Inv, RollingBack
  <2>3. CASE /\ UNCHANGED backup
             /\ IF upd.else = "idle" THEN upd' = Idle ELSE Goto(upd.else)
    BY <2>1, <2>3, RollBackEnds
  <2> QED BY <1>24, <2>2, <2>3 DEF Undone
<1>25. CASE RepairPrior
  <2>1. Quiet
    BY <1>25 DEF RepairPrior, RemoveTree, RenderTree, RepairFails
  <2> QED BY <2>1, QuietStep
<1>26. CASE RolledBack
  <2>1. Quiet
    BY <1>26 DEF RolledBack, PersistOrEnd
  <2> QED BY <2>1, QuietStep
<1>27. CASE RollbackFailed
  <2>1. Quiet
    BY <1>27 DEF RollbackFailed, PersistOrEnd
  <2> QED BY <2>1, QuietStep
<1>28. CASE Crash
  <2>1. Quiet
    BY <1>28 DEF Crash
  <2> QED BY <2>1, QuietStep
<1>29. CASE Reconcile
  <2>1. WholeAt(committed) => WholeAt(committed)'
    BY <1>29, ReconcileDoes DEF Reconcile, WholeAt
  <2>2. SavedIsCommitted' /\ CommittedIsRecoverable'
    BY <1>29, <2>1 DEF Reconcile, Inv, SavedIsCommitted, CommittedIsRecoverable, PendingAt
  <2>3. upd'.pc = "idle"
    BY <1>29 DEF Reconcile
  <2> QED BY <2>2, <2>3 DEF Inv, Recovering, BeforeApply, Applying, Settled, RollingBack
<1>30. CASE UserSwitchesCodex
  BY <1>30, StutterStep DEF UserSwitchesCodex
<1>31. CASE UNCHANGED vars
  BY <1>31, StutterStep DEF vars
<1> QED
  BY <1>1, <1>2, <1>3, <1>4, <1>5, <1>6, <1>7, <1>8, <1>9, <1>10, <1>11, <1>12, <1>13, <1>14,
     <1>15, <1>16, <1>17, <1>18, <1>19, <1>20, <1>21, <1>22, <1>23, <1>24, <1>25, <1>26,
     <1>27, <1>28, <1>29, <1>30, <1>31 DEF Next, UpdaterStep, TypeOK

-----------------------------------------------------------------------------
(* Theorems *)

LEMMA InvHolds == Spec => []Inv
BY InvInit, InvStep, PTL DEF Spec

\* Every variable of the updater, of the installation and of its backups keeps its
\* type: no counter passes its bound, and no backup is named that does not exist.
THEOREM UpdateTypeCorrect == Spec => []TypeOK
<1>1. Inv => TypeOK
  BY DEF Inv
<1> QED BY <1>1, InvHolds, PTL

\* Whatever write fails and wherever the updater crashes, the release last committed
\* is installed whole or a backup of exactly that release waits for the next updater.
THEOREM UpdateCommittedIsRecoverable == Spec => []CommittedIsRecoverable
<1>1. Inv => CommittedIsRecoverable
  BY DEF Inv
<1> QED BY <1>1, InvHolds, PTL

\* What a step may write into a receipt.
LEMMA ReceiptStep ==
    ASSUME Inv, [Next]_vars, NEW t \in Txns, receipts'[t] # receipts[t]
    PROVE  /\ receipts'[t] = "candidate_verified" => WholeAt(committed)
           /\ receipts'[t] \in {"offline_verified", "exited", "relaunch_failed"} =>
                 WholeAt(upd.target) /\ committed = upd.target /\ plugin = committed
           /\ receipts'[t] = "rolled_back" =>
                 WholeAt(committed) /\ committed # upd.target /\ plugin = committed
<1> DEFINE Told == /\ receipts'[t] = "candidate_verified" => upd.pc = "verified"
                   /\ receipts'[t] \in {"offline_verified", "exited", "relaunch_failed"} =>
                         upd.pc \in {"offline", "relaunch", "exit"}
                   /\ receipts'[t] = "rolled_back" => upd.pc = "rolled_back"
<1>0. receipts \in [Txns -> RestartStates]
  BY DEF Inv, TypeOK
<1>1. ASSUME VerifyCandidate PROVE Told
  BY <1>0, <1>1 DEF VerifyCandidate, PersistOrEnd, Receipt
<1>2. ASSUME Arm \/ BeginDraining \/ CodexStopped PROVE Told
  BY <1>0, <1>2 DEF Arm, BeginDraining, CodexStopped, PersistOrEnd, Receipt
<1>3. ASSUME RepairFailed \/ Abort PROVE Told
  BY <1>0, <1>3 DEF RepairFailed, Abort, PersistAnyway, Receipt
<1>4. ASSUME OfflineVerified \/ RolledBack \/ RollbackFailed PROVE Told
  BY <1>0, <1>4 DEF OfflineVerified, RolledBack, RollbackFailed, PersistOrEnd, Receipt
<1>5. ASSUME Relaunch \/ Exit \/ RollbackRequired PROVE Told
  BY <1>0, <1>5 DEF Relaunch, Exit, RollbackRequired, Receipt
<1>6. ASSUME Reconcile PROVE Told
  BY <1>0, <1>6 DEF Reconcile
<1>7. ASSUME UNCHANGED receipts PROVE Told
  BY <1>7
<1>8. Told
  BY <1>1, <1>2, <1>3, <1>4, <1>5, <1>6, <1>7 DEF Next, UpdaterStep, vars, Begin, Recover,
     Checked, CloseCodex, DrainStar, MakeBackup, PrepareBackup, ApplyWrite, MarkApplied, Repair,
     NoManager, RemoveTree, RenderTree, Commit, Revive, Spawn, UndoWrite, Undone, RepairPrior,
     Crash, UserSwitchesCodex
<1>9. upd.pc = "verified" => WholeAt(committed)
  BY DEF Inv, BeforeApply, NothingPending, PendingAt, CommittedIsRecoverable
<1>10. upd.pc \in {"offline", "relaunch", "exit"} =>
          WholeAt(upd.target) /\ committed = upd.target /\ plugin = committed
  BY DEF Inv, Settled
<1>11. upd.pc = "rolled_back" => WholeAt(committed) /\ committed # upd.target /\ plugin = committed
  BY DEF Inv, RollingBack
<1> QED BY <1>8, <1>9, <1>10, <1>11

\* A receipt tells the truth about the installation at the moment it is written: a
\* transaction is announced on the committed release, called verified or exited on its
\* own, and rolled back when files and plugin are both back.
THEOREM UpdateReceiptTellsInstallation == Spec => ReceiptTellsInstallation
<1>1. Inv /\ [Next]_vars =>
        [\A t \in Txns : receipts'[t] # receipts[t] =>
           /\ receipts'[t] = "candidate_verified" => WholeAt(committed)
           /\ receipts'[t] \in {"offline_verified", "exited", "relaunch_failed"} =>
                 WholeAt(upd.target) /\ committed = upd.target /\ plugin = committed
           /\ receipts'[t] = "rolled_back" =>
                 WholeAt(committed) /\ committed # upd.target /\ plugin = committed]_vars
  BY ReceiptStep
<1> QED BY <1>1, InvHolds, PTL DEF Spec, ReceiptTellsInstallation
=============================================================================
