---------------------------- MODULE IntegrationUpdate ----------------------------
(***************************************************************************)
(* The restart transaction of the updater: restart_codex_integration of    *)
(* crates/control/star-updater-core, the replacement, roll-back and        *)
(* recovery of the installed files in crates/adapters/star-adapter-windows *)
(* and the repair of the Codex plugin in crates/adapters/star-adapter-codex.*)
(*                                                                         *)
(* The updater closes Codex, saves the installed files, replaces them one  *)
(* by one, renders the plugin from them, commits and starts Codex again.   *)
(* Any write or start may fail, the updater may crash between two steps,   *)
(* and the user starts and quits Codex as he likes.  What survives a crash *)
(* is the installation, the plugin, the backups and the receipts.  The     *)
(* named mutex lets one updater run; a second one ends with Busy.          *)
(*                                                                         *)
(* The content of a file is the release it belongs to.  A release differs  *)
(* from another in the N files of the reviewed candidate.                  *)
(***************************************************************************)
EXTENDS Naturals, FiniteSetsExt

CONSTANTS N,            \* files an integration candidate replaces
          MaxVersion,   \* releases
          MaxTxns,      \* restart transactions
          MaxFaults,    \* writes and starts that fail
          MaxCrashes    \* updaters that crash

ASSUME UpdateAssumption ==
    /\ N \in Nat \ {0}
    /\ MaxVersion \in Nat \ {0}
    /\ {MaxTxns, MaxFaults, MaxCrashes} \subseteq Nat

VARIABLES active,       \* a runtime generation is active: the bridge is on
          files,        \* release of each installed file
          manifest,     \* release-files manifest of the install root
          controller,   \* controller install manifest
          record,       \* InstallationRecord
          plugin,       \* release the plugin was rendered from
          backup,       \* integration-backups/<operation>
          receipts,     \* newest restart receipt of each operation
          codex,        \* Codex Desktop runs
          upd,          \* the updater that holds the lease
          txns,         \* transactions so far
          faults, crashes,
          committed,    \* release of the last committed candidate
          lost          \* why the last transaction did not bring Codex back

install == <<active, files, manifest, controller, record>>
bounds == <<faults, crashes>>
ghosts == <<committed, lost>>
vars == <<install, plugin, backup, receipts, codex, upd, txns, bounds, ghosts>>

Files == 1 .. N
Versions == 1 .. MaxVersion
Txns == 1 .. MaxTxns
Torn == 0       \* a plugin whose marketplace tree is being rewritten

RestartStates == {"none", "candidate_verified", "countdown", "draining", "codex_stopped",
                  "offline_verified", "exited", "aborted", "rollback_required",
                  "rolled_back", "rollback_failed", "relaunch_failed"}
PreApply == {"candidate_verified", "countdown", "draining", "codex_stopped"}
BackupStates == {"none", "dir", "prepared", "applied", "committed", "rolled_back"}
Pending == {"prepared", "applied"}

Steps == {"idle", "recover", "check", "verified", "armed", "drain", "close", "stopped",
          "drain_star", "mkdir", "prepare", "write", "applied", "repair", "render",
          "commit", "offline", "relaunch", "exit", "abort", "revive", "required",
          "undo", "undone", "repair_prior", "render_prior", "rolled_back",
          "rollback_failed", "rollback_relaunch", "repair_failed"}

\* The updater: its step, its transaction, the candidate it applies (the installed
\* release for a mere repair), the next write, the backup it rolls back, and where
\* that leads when it succeeds and when it fails.
Idle == [pc |-> "idle", txn |-> 0, candidate |-> FALSE, target |-> 1, at |-> 1,
         undo |-> 0, then |-> "idle", else |-> "idle"]

Init ==
    /\ active \in BOOLEAN
    /\ files = [f \in Files |-> 1]
    /\ manifest = 1 /\ record = 1 /\ plugin = 1
    /\ controller = [version |-> 1, bridge |-> active]
    /\ backup = [t \in Txns |-> [state |-> "none", saved |-> 1]]
    /\ receipts = [t \in Txns |-> "none"]
    /\ codex = TRUE
    /\ upd = Idle
    /\ txns = 0 /\ faults = 0 /\ crashes = 0
    /\ committed = 1
    /\ lost = "none"

-----------------------------------------------------------------------------
(* Steps shared by the phases *)

Goto(pc) == upd' = [upd EXCEPT !.pc = pc, !.at = 1]
End(why) == upd' = Idle /\ lost' = why

Works == UNCHANGED bounds
Fails == faults < MaxFaults /\ faults' = faults + 1 /\ UNCHANGED crashes

\* InstallationManager::status: a controller manifest without the bridge passes.
Verified ==
    /\ \A f \in Files : files[f] = manifest
    /\ record = manifest
    /\ controller.version = manifest

Receipt(state) == receipts' = [receipts EXCEPT ![upd.txn] = state]
SetBackup(t, state) == backup' = [backup EXCEPT ![t].state = state]

\* persist_receipt(..)?: a write that fails ends the updater where it stands.
PersistOrEnd(from, state, to) ==
    /\ upd.pc = from
    /\ \/ Works /\ Receipt(state) /\ Goto(to) /\ UNCHANGED lost
       \/ Fails /\ End("receipt") /\ UNCHANGED receipts
    /\ UNCHANGED <<install, plugin, backup, codex, txns, committed>>

\* let _ = persist_receipt(..)
PersistAnyway(from, state, to) ==
    /\ upd.pc = from
    /\ (Works /\ Receipt(state)) \/ (Fails /\ UNCHANGED receipts)
    /\ Goto(to)
    /\ UNCHANGED <<install, plugin, backup, codex, txns, ghosts>>

\* The writes of a replacement by release v, in order: the files, the manifest, and
\* then those of finalize and activate_runtime_bridge.
LastWrite == N + 4
Write(i, v) ==
    /\ files' = IF i <= N THEN [files EXCEPT ![i] = v] ELSE files
    /\ manifest' = IF i = N + 1 THEN v ELSE manifest
    /\ controller' = CASE i = N + 2 -> [version |-> v, bridge |-> FALSE]
                       [] i = N + 4 -> [controller EXCEPT !.bridge = active]
                       [] OTHER -> controller
    /\ record' = IF i = N + 3 THEN v ELSE record
    /\ UNCHANGED active

-----------------------------------------------------------------------------
(* Before Codex is closed *)

\* restart_codex_integration on a free lease, for the candidate of another release
\* or to repair the integration of the installed one.
Begin(candidate, v) ==
    /\ upd = Idle /\ txns < MaxTxns
    /\ upd' = [Idle EXCEPT !.pc = "recover", !.candidate = candidate, !.target = v]
    /\ lost' = "none"
    /\ UNCHANGED <<install, plugin, backup, receipts, codex, txns, bounds, committed>>

RollBack(t, then, else) ==
    upd' = [upd EXCEPT !.pc = "undo", !.at = 1, !.undo = t, !.then = then, !.else = else]

\* recover_interrupted_codex_integration_candidates: a directory without
\* backup.v1.json is an error, whichever entries come before it.
Recover ==
    /\ upd.pc = "recover"
    /\ \/ \E t \in Txns : backup[t].state \in Pending /\ RollBack(t, "recover", "idle")
       \/ (\E t \in Txns : backup[t].state = "dir") /\ upd' = Idle
       \/ (\A t \in Txns : backup[t].state \notin Pending \cup {"dir"}) /\ Goto("check")
    /\ UNCHANGED <<install, plugin, backup, receipts, codex, txns, bounds, ghosts>>

\* status, the review of the candidate and the census: the transaction starts only
\* on a verified installation with Codex running, and with a candidate that differs.
Checked ==
    /\ upd.pc = "check"
    /\ IF Verified /\ codex /\ (upd.candidate => upd.target # manifest)
       THEN /\ txns' = txns + 1
            /\ upd' = [upd EXCEPT !.pc = "verified", !.txn = txns + 1,
                              !.target = IF upd.candidate THEN @ ELSE manifest]
       ELSE upd' = Idle /\ UNCHANGED txns
    /\ UNCHANGED <<install, plugin, backup, receipts, codex, bounds, ghosts>>

VerifyCandidate == PersistOrEnd("verified", "candidate_verified", "armed")
Arm == PersistOrEnd("armed", "countdown", "drain")
BeginDraining == PersistOrEnd("drain", "draining", "close")

\* close_codex_desktop: graceful, then by force; it fails when the census does or
\* when Codex does not go away in time.
CloseCodex ==
    /\ upd.pc = "close"
    /\ \/ Works /\ codex' = FALSE /\ Goto("stopped")
       \/ Fails /\ codex' \in {FALSE, codex} /\ Goto("abort")
    /\ UNCHANGED <<install, plugin, backup, receipts, txns, ghosts>>

CodexStopped == PersistOrEnd("stopped", "codex_stopped", "drain_star")

\* The Controller and the other Star processes of this root end or are terminated.
DrainStar ==
    /\ upd.pc = "drain_star"
    /\ \/ Works /\ Goto(IF upd.candidate THEN "mkdir" ELSE "repair")
       \/ Fails /\ Goto("abort")
    /\ UNCHANGED <<install, plugin, backup, receipts, codex, txns, ghosts>>

-----------------------------------------------------------------------------
(* apply_codex_integration_candidate *)

MakeBackup ==
    /\ upd.pc = "mkdir"
    /\ \/ Works /\ SetBackup(upd.txn, "dir") /\ Goto("prepare")
       \/ Fails /\ Goto("abort") /\ UNCHANGED backup
    /\ UNCHANGED <<install, plugin, receipts, codex, txns, ghosts>>

\* Faulty variant of PrepareBackup: backup.v1.json is left for later.
PrepareUnrecorded ==
    /\ upd.pc = "prepare"
    /\ Goto("write")
    /\ UNCHANGED <<install, plugin, backup, receipts, codex, txns, bounds, ghosts>>

\* The files are copied, then backup.v1.json names them.
PrepareBackup ==
    /\ upd.pc = "prepare"
    /\ \/ /\ Works /\ Goto("write")
          /\ backup' = [backup EXCEPT ![upd.txn] = [state |-> "prepared",
                                                    saved |-> manifest]]
       \/ Fails /\ Goto("abort") /\ UNCHANGED backup
    /\ UNCHANGED <<install, plugin, receipts, codex, txns, ghosts>>

\* apply_candidate_files.  If it fails, the result of the roll-back is ignored.
ApplyWrite ==
    /\ upd.pc = "write"
    /\ \/ /\ Works /\ Write(upd.at, upd.target)
          /\ IF upd.at = LastWrite THEN Goto("applied")
             ELSE upd' = [upd EXCEPT !.at = @ + 1]
       \/ Fails /\ RollBack(upd.txn, "abort", "abort") /\ UNCHANGED install
    /\ UNCHANGED <<plugin, backup, receipts, codex, txns, ghosts>>

MarkApplied ==
    /\ upd.pc = "applied"
    /\ \/ Works /\ SetBackup(upd.txn, "applied") /\ Goto("repair")
       \/ Fails /\ Goto("abort") /\ UNCHANGED backup
    /\ UNCHANGED <<install, plugin, receipts, codex, txns, ghosts>>

-----------------------------------------------------------------------------
(* CodexIntegrationManager::repair, of the new release or of the prior one *)

RepairFails(prior) ==
    Goto(IF prior THEN "rollback_failed"
         ELSE IF upd.candidate THEN "required" ELSE "repair_failed")

\* Codex must not run; the old marketplace tree is removed.
RemoveTree(from, to, prior) ==
    /\ upd.pc = from
    /\ \/ Works /\ ~codex /\ Verified /\ plugin' = Torn /\ Goto(to)
       \/ Works /\ (codex \/ ~Verified) /\ RepairFails(prior) /\ UNCHANGED plugin
       \/ Fails /\ plugin' \in {plugin, Torn} /\ RepairFails(prior)
    /\ UNCHANGED <<install, backup, receipts, codex, txns, ghosts>>

\* The tree is rendered from the installed template and registered.
RenderTree(from, to, prior) ==
    /\ upd.pc = from
    /\ \/ Works /\ plugin' = manifest /\ Goto(to)
       \/ Fails /\ RepairFails(prior) /\ UNCHANGED plugin
    /\ UNCHANGED <<install, backup, receipts, codex, txns, ghosts>>

\* CodexIntegrationManager::for_current_user fails: the transaction is aborted.
NoManager ==
    /\ upd.pc = "repair"
    /\ Fails /\ Goto("abort")
    /\ UNCHANGED <<install, plugin, backup, receipts, codex, txns, ghosts>>

Repair ==
    \/ NoManager
    \/ RemoveTree("repair", "render", FALSE)
    \/ RenderTree("render", IF upd.candidate THEN "commit" ELSE "offline", FALSE)

\* Faulty variant of RepairPrior: the files are back, so the plugin must be.
RepairPriorSkipped ==
    /\ upd.pc = "repair_prior"
    /\ Goto("rolled_back")
    /\ UNCHANGED <<install, plugin, backup, receipts, codex, txns, bounds, ghosts>>

RepairPrior ==
    \/ RemoveTree("repair_prior", "render_prior", TRUE)
    \/ RenderTree("render_prior", "rolled_back", TRUE)

\* A mere repair has nothing to roll back.
RepairFailed == PersistAnyway("repair_failed", "rollback_required", "revive")

-----------------------------------------------------------------------------
(* Success *)

\* commit_codex_integration_candidate
Commit ==
    /\ upd.pc = "commit"
    /\ \/ /\ Works /\ SetBackup(upd.txn, "committed") /\ Goto("offline")
          /\ committed' = upd.target
       \/ Fails /\ Goto("abort") /\ UNCHANGED <<backup, committed>>
    /\ UNCHANGED <<install, plugin, receipts, codex, txns, lost>>

OfflineVerified == PersistOrEnd("offline", "offline_verified", "relaunch")

Relaunch ==
    /\ upd.pc = "relaunch"
    /\ \/ Works /\ codex' = TRUE /\ Goto("exit") /\ UNCHANGED <<receipts, lost>>
       \/ /\ Fails /\ End("spawn") /\ UNCHANGED codex
          /\ Receipt("relaunch_failed") \/ UNCHANGED receipts
    /\ UNCHANGED <<install, plugin, backup, txns, committed>>

Exit ==
    /\ upd.pc = "exit"
    /\ \/ Works /\ Receipt("exited")
       \/ Fails /\ UNCHANGED receipts
    /\ upd' = Idle
    /\ UNCHANGED <<install, plugin, backup, codex, txns, ghosts>>

-----------------------------------------------------------------------------
(* Failure *)

\* relaunch_after_failure, and the spawn at the end of rollback_and_relaunch.
Spawn(from) ==
    /\ upd.pc = from
    /\ \/ Works /\ codex' = TRUE /\ upd' = Idle /\ UNCHANGED lost
       \/ Fails /\ End("spawn") /\ UNCHANGED codex
    /\ UNCHANGED <<install, plugin, backup, receipts, txns, committed>>

\* abort_and_relaunch
Abort == PersistAnyway("abort", "aborted", "revive")
Revive == Spawn("revive") \/ Spawn("rollback_relaunch")

\* rollback_and_relaunch
RollbackRequired ==
    /\ upd.pc = "required"
    /\ \/ Works /\ Receipt("rollback_required") /\ UNCHANGED lost
          /\ RollBack(upd.txn, "repair_prior", "rollback_failed")
       \/ Fails /\ End("receipt") /\ UNCHANGED receipts
    /\ UNCHANGED <<install, plugin, backup, codex, txns, committed>>

\* rollback_codex_integration_candidate, in the order of the replacement.
UndoWrite ==
    /\ upd.pc = "undo"
    /\ \/ /\ Works /\ Write(upd.at, backup[upd.undo].saved)
          /\ IF upd.at = LastWrite THEN Goto("undone")
             ELSE upd' = [upd EXCEPT !.at = @ + 1]
       \/ /\ Fails /\ UNCHANGED install
          /\ IF upd.else = "idle" THEN upd' = Idle ELSE Goto(upd.else)
    /\ UNCHANGED <<plugin, backup, receipts, codex, txns, ghosts>>

Undone ==
    /\ upd.pc = "undone"
    /\ \/ Works /\ SetBackup(upd.undo, "rolled_back") /\ Goto(upd.then)
       \/ /\ Fails /\ UNCHANGED backup
          /\ IF upd.else = "idle" THEN upd' = Idle ELSE Goto(upd.else)
    /\ UNCHANGED <<install, plugin, receipts, codex, txns, ghosts>>

RolledBack == PersistOrEnd("rolled_back", "rolled_back", "rollback_relaunch")

\* Faulty variant of RollbackFailed: the receipt is all that is left to do.
RollbackFailedEnds ==
    /\ upd.pc = "rollback_failed"
    /\ Works /\ Receipt("rollback_failed") /\ upd' = Idle
    /\ UNCHANGED <<install, plugin, backup, codex, txns, ghosts>>

RollbackFailed == PersistOrEnd("rollback_failed", "rollback_failed", "revive")

-----------------------------------------------------------------------------
(* What happens around the transaction *)

\* The updater dies; the system releases its mutex.
Crash ==
    /\ upd # Idle /\ crashes < MaxCrashes
    /\ crashes' = crashes + 1
    /\ End("crash")
    /\ UNCHANGED <<install, plugin, backup, receipts, codex, txns, faults, committed>>

\* reconcile_installed_runtime: the newest receipt, if it stopped before the apply,
\* becomes aborted; then the bridge may be written again for a verified installation.
Reconcile ==
    /\ upd = Idle
    /\ LET written == {t \in Txns : receipts[t] # "none"}
           stale == {t \in written : t = Max(written) /\ receipts[t] \in PreApply}
       IN  receipts' = [t \in Txns |-> IF t \in stale THEN "aborted" ELSE receipts[t]]
    /\ controller' \in {controller} \cup
           (IF Verified /\ active THEN {[version |-> manifest, bridge |-> TRUE]} ELSE {})
    /\ UNCHANGED <<active, files, manifest, record, plugin, backup, codex, upd, txns,
                   bounds, ghosts>>

\* The user starts or quits Codex.
UserSwitchesCodex ==
    /\ codex' = ~codex
    /\ UNCHANGED <<install, plugin, backup, receipts, upd, txns, bounds, ghosts>>

-----------------------------------------------------------------------------
(* Specification *)

UpdaterStep ==
    \/ Recover \/ Checked
    \/ VerifyCandidate \/ Arm \/ BeginDraining \/ CloseCodex \/ CodexStopped \/ DrainStar
    \/ MakeBackup \/ PrepareBackup \/ ApplyWrite \/ MarkApplied
    \/ Repair \/ RepairFailed \/ Commit \/ OfflineVerified \/ Relaunch \/ Exit
    \/ Abort \/ Revive
    \/ RollbackRequired \/ UndoWrite \/ Undone \/ RepairPrior \/ RolledBack
    \/ RollbackFailed

Next ==
    \/ \E v \in Versions : Begin(TRUE, v)
    \/ Begin(FALSE, manifest)
    \/ UpdaterStep
    \/ Crash
    \/ Reconcile
    \/ UserSwitchesCodex

Spec == Init /\ [][Next]_vars

\* The updater goes on until it ends or crashes; its waits have deadlines.  Nothing
\* makes a user start an update, or start or quit Codex.
FairSpec == Spec /\ WF_vars(UpdaterStep)

-----------------------------------------------------------------------------
(* Properties *)

Backups == [state : BackupStates, saved : Versions]
Updaters == [pc : Steps, txn : 0 .. MaxTxns, candidate : BOOLEAN, target : Versions,
             at : 1 .. LastWrite, undo : 0 .. MaxTxns, then : Steps, else : Steps]

TypeOK ==
    /\ active \in BOOLEAN /\ codex \in BOOLEAN
    /\ files \in [Files -> Versions]
    /\ {manifest, record, committed} \subseteq Versions
    /\ controller \in [version : Versions, bridge : BOOLEAN]
    /\ plugin \in Versions \cup {Torn}
    /\ backup \in [Txns -> Backups]
    /\ receipts \in [Txns -> RestartStates]
    /\ upd \in Updaters
    /\ txns \in 0 .. MaxTxns /\ faults \in 0 .. MaxFaults /\ crashes \in 0 .. MaxCrashes
    /\ lost \in {"none", "crash", "spawn", "receipt"}

WholeAt(v) ==
    /\ \A f \in Files : files[f] = v
    /\ {manifest, record} = {v}
    /\ controller = [version |-> v, bridge |-> active]

\* At every moment, whatever failed or crashed before, the installation is the one
\* last committed, with its bridge, or there is a backup of exactly that one which
\* the next updater will restore.
CommittedIsRecoverable ==
    \/ WholeAt(committed)
    \/ \E t \in Txns : backup[t].state \in Pending /\ backup[t].saved = committed

\* The receipts tell what is installed.  A transaction is announced only on the
\* whole installation last committed, never on the remains of an earlier one; it is
\* called verified or exited when its own release is installed and committed and the
\* plugin was rendered from it, and rolled back when files and plugin are both back.
ReceiptTellsInstallation ==
    [][\A t \in Txns : receipts'[t] # receipts[t] =>
         /\ receipts'[t] = "candidate_verified" => WholeAt(committed)
         /\ receipts'[t] \in {"offline_verified", "exited", "relaunch_failed"} =>
               WholeAt(upd.target) /\ committed = upd.target /\ plugin = committed
         /\ receipts'[t] = "rolled_back" =>
               WholeAt(committed) /\ committed # upd.target /\ plugin = committed]_vars

\* A transaction that closed Codex brings it back, on success, abort and roll-back
\* alike, unless the updater crashes, Codex cannot be started or a receipt cannot be
\* written.
ClosedCodexComesBack == upd.pc = "stopped" ~> codex \/ lost # "none"

\* aborted: stopped before the apply, the installation as it was.
AbortedIsUnchanged ==
    [][\A t \in Txns : receipts[t] # "aborted" /\ receipts'[t] = "aborted" =>
         WholeAt(committed)]_vars

\* An updater that stopped before the commit is rolled back by the next one: the
\* recovery never turns a transaction away for what an earlier one left behind.
RecoveryGoesOn == [][Recover => upd' # Idle]_vars

\* Once Codex was closed, every way to give up brings it back.
AbortBringsCodexBack == upd.pc = "stopped" ~> codex \/ lost \in {"crash", "spawn"}
=============================================================================
