------------------------------- MODULE PatchApply -------------------------------
(***************************************************************************)
(* Applying an approved patch to the user's working files, and taking it   *)
(* back: apply_patch_v2, recover_applied_patch_v2 and recover_patch_v2 of  *)
(* crates/control/star-application, the older apply_patch of the same      *)
(* service, and the file adapters of crates/control/star-execution they    *)
(* call.                                                                   *)
(*                                                                         *)
(* A patch replaces N files one after the other, each atomically.  While a *)
(* command runs the user may edit any of the files, any replacement may    *)
(* fail, and the controller may stop between two steps; what survives is   *)
(* the files, the PatchSet in the repository and the newest revision of    *)
(* each PatchApplication.  command_guard lets one command run at a time.   *)
(*                                                                         *)
(* A file's content is what its hash tells apart: the bytes the patch was  *)
(* made from, the bytes it leads to, or anything else ("edited", also an   *)
(* unreadable file).  Gates, scans and plans are external: only their      *)
(* verdict is modelled.  A `?` that ends a command without another durable *)
(* write is the action Stop, as is a crash.                                *)
(***************************************************************************)
EXTENDS Naturals, Sequences, FiniteSets

CONSTANTS N,          \* files of the patch, in the order of its operations
          MaxEdits,   \* edits of the user
          MaxApps,    \* PatchApplications of the patch
          Stops       \* commands may stop half-way

ASSUME PatchAssumption ==
    /\ N \in Nat \ {0}
    /\ {MaxEdits, MaxApps} \subseteq Nat
    /\ Stops \in BOOLEAN

VARIABLES files,      \* content of each file
          legacy,     \* prepared by prepare_patch: only the older apply_patch takes it
          status,     \* PatchSet.status in the repository
          apps,       \* newest durable revision of each PatchApplication
          worktree,   \* newest durable WorktreeDecision
          cmd,        \* the command that holds command_guard
          edits,      \* edits so far
          touched     \* files the user has edited

vars == <<files, legacy, status, apps, worktree, cmd, edits, touched>>
durable == <<legacy, status, apps, worktree>>
user == <<edits, touched>>

Files == 1 .. N
Contents == {"before", "after", "edited"}

Statuses == {"proposed", "applied", "failed", "partially_applied", "reverted"}
Worktrees == {"selected", "retained_for_recovery", "discarded"}
AppStates == {"requested", "preflighted", "applying", "applied", "partially_applied",
              "outcome_unknown", "awaiting_human_review", "recovery_required",
              "reverted", "isolated_discarded", "recovery_blocked"}
Applications == [state : AppStates, permit : BOOLEAN, receipts : BOOLEAN]

Ops == {"none", "apply_v1", "apply_v2", "recover", "discard"}
Steps == {"idle", "observe", "observed", "pre_gate", "preflight", "start", "prepare",
          "check", "replace", "undo_check", "undo_replace", "settle", "settled",
          "failed", "rolled_back", "record", "applied", "verify", "verified", "post",
          "finish", "announce", "recover_prepare", "restore", "redo_check",
          "redo_replace", "recovered", "blocked", "record_recovery", "discarding",
          "record_discard"}

\* A command: the step it is at and the file of that step, the contents its last
\* observation saw, whether its roll-back has been complete so far and where the
\* roll-back leads, the application it works on, and the files the user has
\* edited since the command turned to the current file.
Idle == [op |-> "none", pc |-> "idle", at |-> 1, seen |-> {}, whole |-> TRUE,
         then |-> "idle", app |-> 0, late |-> {}]

Init ==
    /\ files = [i \in Files |-> "before"]
    /\ legacy \in BOOLEAN
    /\ status = "proposed"
    /\ apps = <<>>
    /\ worktree \in {"selected", "retained_for_recovery"}
    /\ cmd = Idle
    /\ edits = 0
    /\ touched = {}

-----------------------------------------------------------------------------
(* Steps shared by the commands *)

Goto(pc) == cmd' = [cmd EXCEPT !.pc = pc, !.at = 1, !.seen = {}, !.late = {}]
TurnTo(pc, i) == cmd' = [cmd EXCEPT !.pc = pc, !.at = i, !.late = {}]
Finish == cmd' = Idle

Persist(state) ==
    apps' = [apps EXCEPT ![cmd.app].state = state]

\* One file of observe_patch_set_v2, which gives up at the first unknown content.
Observe(from, to) ==
    /\ cmd.pc = from
    /\ LET seen == cmd.seen \cup {files[cmd.at]}
       IN  cmd' = IF cmd.at = N \/ files[cmd.at] = "edited"
                  THEN [cmd EXCEPT !.pc = to, !.seen = seen]
                  ELSE [cmd EXCEPT !.at = @ + 1, !.seen = seen]
    /\ UNCHANGED <<files, durable, user>>

AllBefore == cmd.seen = {"before"}
AllAfter == cmd.seen = {"after"}
Mixed == cmd.seen = {"before", "after"}

\* replace_file_atomic succeeded: a ReplaceFileW over whatever is there now.
Replaced(content) == files' = [files EXCEPT ![cmd.at] = content]

-----------------------------------------------------------------------------
(* Commands start *)

Begin(op, pc, app) ==
    /\ cmd = Idle
    /\ cmd' = [Idle EXCEPT !.op = op, !.pc = pc, !.app = app]
    /\ UNCHANGED <<files, durable, user>>

\* apply_patch of the older lifecycle takes a proposed patch set.
ApplyV1 == /\ legacy /\ status = "proposed"
           /\ Begin("apply_v1", "prepare", 0)

ApplyV2 == /\ ~legacy /\ Len(apps) < MaxApps
           /\ worktree \in {"selected", "retained_for_recovery"}
           /\ Begin("apply_v2", "observe", 0)

\* recover_patch_v2, with the strategy the caller names.
RecoverV2(a) == apps[a].permit /\ Begin("recover", "observe", a)
Discard(a) == worktree = "retained_for_recovery" /\ Begin("discard", "observe", a)

\* The first observation decides whether the command may go on; apply_patch_v2
\* then files a new PatchApplication.
Observed ==
    /\ cmd.pc = "observed"
    /\ \/ /\ cmd.op = "apply_v2" /\ AllBefore
          /\ apps' = Append(apps, [state |-> "requested", permit |-> FALSE,
                                   receipts |-> FALSE])
          /\ cmd' = [cmd EXCEPT !.pc = "pre_gate", !.app = Len(apps) + 1]
       \/ cmd.op = "recover" /\ AllAfter /\ Goto("recover_prepare") /\ UNCHANGED apps
       \/ cmd.op = "discard" /\ AllBefore /\ Goto("discarding") /\ UNCHANGED apps
       \/ /\ IF cmd.op = "recover" THEN ~AllAfter ELSE ~AllBefore
          /\ Finish /\ UNCHANGED apps
    /\ UNCHANGED <<files, legacy, status, worktree, user>>

-----------------------------------------------------------------------------
(* apply_patch_v2 up to the first write *)

\* The pre-apply gate blocks, asks for a human, cannot be executed, or passes.
PreGate ==
    /\ cmd.pc = "pre_gate"
    /\ Finish \/ Goto("preflight")
    /\ UNCHANGED <<files, durable, user>>

\* The permit is issued and recorded.
Preflight ==
    /\ cmd.pc = "preflight"
    /\ apps' = [apps EXCEPT ![cmd.app].state = "preflighted", ![cmd.app].permit = TRUE]
    /\ Goto("start")
    /\ UNCHANGED <<files, legacy, status, worktree, user>>

\* Faulty variant of StartApplying: the intent to write stays in memory.
StartUnrecorded ==
    /\ cmd.pc = "start"
    /\ Goto("prepare")
    /\ UNCHANGED <<files, durable, user>>

\* The permit is consumed, and the intent to write recorded before any write.
StartApplying ==
    /\ cmd.pc = "start"
    /\ Persist("applying") /\ Goto("prepare")
    /\ UNCHANGED <<files, legacy, status, worktree, user>>

-----------------------------------------------------------------------------
(* ExactFileSourceMutationAdapter::apply, and the same loops of apply_patch *)

\* Every file must hold the bytes the patch was made from.  If one does not, the
\* older command ends and v2 looks at what is there.
Prepare ==
    /\ cmd.pc = "prepare"
    /\ IF files[cmd.at] # "before"
       THEN IF cmd.op = "apply_v1" THEN Finish ELSE Goto("settle")
       ELSE IF cmd.at = N THEN Goto("check") ELSE TurnTo("prepare", cmd.at + 1)
    /\ UNCHANGED <<files, durable, user>>

RollBackFrom(i, then) ==
    cmd' = [cmd EXCEPT !.pc = "undo_check", !.at = i, !.whole = TRUE, !.then = then,
                       !.late = {}]
GiveUp == RollBackFrom(cmd.at - 1, IF cmd.op = "apply_v1" THEN "failed" ELSE "settle")

\* Faulty variant of Check: the file is not read again after the first loop.
CheckNothing ==
    /\ cmd.pc = "check"
    /\ cmd' = [cmd EXCEPT !.pc = "replace"]
    /\ UNCHANGED <<files, durable, user>>

\* The file is read again just before it is replaced.
Check ==
    /\ cmd.pc = "check"
    /\ IF files[cmd.at] = "before" THEN cmd' = [cmd EXCEPT !.pc = "replace"] ELSE GiveUp
    /\ UNCHANGED <<files, durable, user>>

Replace ==
    /\ cmd.pc = "replace"
    /\ \/ /\ Replaced("after")
          /\ IF cmd.at = N THEN Goto("applied") ELSE TurnTo("check", cmd.at + 1)
       \/ GiveUp /\ UNCHANGED files
    /\ UNCHANGED <<durable, user>>

\* rollback_originals and rollback_applied: every file, in reverse order, but
\* only over the bytes the patch itself has written.
NextUndo(whole) ==
    cmd' = [cmd EXCEPT !.pc = "undo_check", !.at = @ - 1, !.whole = @ /\ whole,
                       !.late = {}]

UndoCheck ==
    /\ cmd.pc = "undo_check"
    /\ IF cmd.at = 0 THEN Goto(cmd.then)
       ELSE IF files[cmd.at] = "after" THEN cmd' = [cmd EXCEPT !.pc = "undo_replace"]
       ELSE NextUndo(FALSE)
    /\ UNCHANGED <<files, durable, user>>

UndoReplace ==
    /\ cmd.pc = "undo_replace"
    /\ \/ Replaced("before") /\ NextUndo(TRUE)
       \/ UNCHANGED files /\ NextUndo(FALSE)
    /\ UNCHANGED <<durable, user>>

-----------------------------------------------------------------------------
(* The older lifecycle after the adapter *)

SaveStatus(s) == status' = s /\ UNCHANGED <<files, legacy, apps, worktree, user>>

\* The failure carries the patch set, which is saved.
FailedV1 ==
    /\ cmd.pc = "failed"
    /\ SaveStatus(IF cmd.whole THEN "failed" ELSE "partially_applied")
    /\ Finish

\* Validation after the write passes, or rollback_applied takes the patch back.
PostV1 ==
    /\ cmd.pc = "post" /\ cmd.op = "apply_v1"
    /\ Finish \/ RollBackFrom(N, "rolled_back")
    /\ UNCHANGED <<files, durable, user>>

\* Faulty variant of RolledBackV1: the roll-back is taken to have worked.
RolledBackAlways ==
    /\ cmd.pc = "rolled_back"
    /\ SaveStatus("reverted")
    /\ Finish

\* `rollback_applied(..).map_err(apply_failure)?`: a roll-back that is not
\* complete returns before its patch set is saved.
RolledBackV1 ==
    /\ cmd.pc = "rolled_back"
    /\ SaveStatus(IF cmd.whole THEN "reverted" ELSE status)
    /\ Finish

-----------------------------------------------------------------------------
(* apply_patch_v2 after the adapter *)

\* The adapter failed: the files are observed again and decide the status.
Settled ==
    /\ cmd.pc = "settled"
    /\ SaveStatus(IF AllBefore THEN "failed" ELSE IF AllAfter THEN "applied"
                  ELSE "partially_applied")
    /\ cmd' = [cmd EXCEPT !.pc = "record"]

RecordFailure ==
    /\ cmd.pc = "record"
    /\ apps' = [apps EXCEPT
                  ![cmd.app].state = IF AllBefore THEN "reverted"
                                     ELSE IF AllAfter THEN "recovery_required"
                                     ELSE IF Mixed THEN "partially_applied"
                                     ELSE "outcome_unknown",
                  ![cmd.app].receipts = TRUE]
    /\ Finish
    /\ UNCHANGED <<files, legacy, status, worktree, user>>

\* Every file has been replaced; both lifecycles save the status at once.
Applied ==
    /\ cmd.pc = "applied"
    /\ SaveStatus("applied")
    /\ Goto(IF cmd.op = "apply_v1" THEN "post" ELSE "verify")

Verified ==
    /\ cmd.pc = "verified"
    /\ Goto(IF AllAfter THEN "post" ELSE "recover_prepare")
    /\ UNCHANGED <<files, durable, user>>

\* Scan, reverse patch, replan and post-apply gate: any of them may call for recovery.
PostV2 ==
    /\ cmd.pc = "post" /\ cmd.op = "apply_v2"
    /\ Goto("finish") \/ Goto("recover_prepare")
    /\ UNCHANGED <<files, durable, user>>

FinishV2 ==
    /\ cmd.pc = "finish"
    /\ SaveStatus("applied")
    /\ Goto("announce")

\* The last revision is written, or its write fails and the patch is taken back.
Announce ==
    /\ cmd.pc = "announce"
    /\ \/ /\ \E state \in {"applied", "awaiting_human_review"} :
                apps' = [apps EXCEPT ![cmd.app].state = state, ![cmd.app].receipts = TRUE]
          /\ Finish
       \/ Goto("recover_prepare") /\ UNCHANGED apps
    /\ UNCHANGED <<files, legacy, status, worktree, user>>

-----------------------------------------------------------------------------
(* recover_patch_set_v2, called after a failed gate or by recover_patch_v2 *)

Blocked(whole) == cmd' = [cmd EXCEPT !.pc = "blocked", !.at = 1, !.whole = whole,
                                     !.late = {}]

RecoverPrepare ==
    /\ cmd.pc = "recover_prepare"
    /\ IF files[cmd.at] # "after" THEN Blocked(TRUE)
       ELSE IF cmd.at = N THEN Goto("restore") ELSE TurnTo("recover_prepare", cmd.at + 1)
    /\ UNCHANGED <<files, durable, user>>

\* The files are put back without being read again.
Restore ==
    /\ cmd.pc = "restore"
    /\ \/ /\ Replaced("before")
          /\ IF cmd.at = N THEN Goto("recovered") ELSE TurnTo("restore", cmd.at + 1)
       \/ TurnTo("redo_check", cmd.at - 1) /\ UNCHANGED files
    /\ UNCHANGED <<durable, user>>

\* A failure puts the patch on again, in reverse order; `all` stops at the first
\* file that is not as the recovery left it or cannot be replaced.
RedoCheck ==
    /\ cmd.pc = "redo_check"
    /\ IF cmd.at = 0 THEN Blocked(TRUE)
       ELSE IF files[cmd.at] = "before" THEN cmd' = [cmd EXCEPT !.pc = "redo_replace"]
       ELSE Blocked(FALSE)
    /\ UNCHANGED <<files, durable, user>>

RedoReplace ==
    /\ cmd.pc = "redo_replace"
    /\ \/ Replaced("after") /\ TurnTo("redo_check", cmd.at - 1)
       \/ UNCHANGED files /\ Blocked(FALSE)
    /\ UNCHANGED <<durable, user>>

Recovered ==
    /\ cmd.pc = "recovered"
    /\ SaveStatus("reverted")
    /\ cmd' = [cmd EXCEPT !.pc = "record_recovery", !.then = "recovered"]

\* recover_patch_v2 only returns the error; recover_applied_patch_v2 goes on.
RecoveryBlocked ==
    /\ cmd.pc = "blocked"
    /\ IF cmd.op = "recover"
       THEN Finish /\ UNCHANGED <<files, durable, user>>
       ELSE /\ SaveStatus(IF cmd.whole THEN "applied" ELSE "partially_applied")
            /\ cmd' = [cmd EXCEPT !.pc = "record_recovery", !.then = "blocked"]

RecordRecovery ==
    /\ cmd.pc = "record_recovery"
    /\ apps' = [apps EXCEPT
                  ![cmd.app].state = IF cmd.then = "recovered" THEN "reverted"
                                     ELSE "recovery_blocked",
                  ![cmd.app].receipts = TRUE]
    /\ Finish
    /\ UNCHANGED <<files, legacy, status, worktree, user>>

-----------------------------------------------------------------------------
(* recover_patch_v2 with discard_isolated *)

\* git removes the worktree, and the decision is recorded.
DiscardWorktree ==
    /\ cmd.pc = "discarding"
    /\ \/ worktree' = "discarded" /\ Goto("record_discard")
       \/ Finish /\ UNCHANGED worktree
    /\ UNCHANGED <<files, legacy, status, apps, user>>

RecordDiscard ==
    /\ cmd.pc = "record_discard"
    /\ Persist(IF apps[cmd.app].receipts THEN "reverted" ELSE "isolated_discarded")
    /\ Finish
    /\ UNCHANGED <<files, legacy, status, worktree, user>>

-----------------------------------------------------------------------------
(* The user, and the end of a command *)

UserEdits(i, content) ==
    /\ edits < MaxEdits /\ content # files[i]
    /\ files' = [files EXCEPT ![i] = content]
    /\ edits' = edits + 1
    /\ touched' = touched \cup {i}
    /\ cmd' = IF cmd = Idle THEN cmd ELSE [cmd EXCEPT !.late = @ \cup {i}]
    /\ UNCHANGED durable

\* A crash of the controller, or an error returned before the next durable write.
Stop ==
    /\ Stops /\ cmd # Idle
    /\ Finish
    /\ UNCHANGED <<files, durable, user>>

ApplyStep ==
    \/ ApplyV1 \/ ApplyV2 \/ Observe("observe", "observed") \/ Observed
    \/ PreGate \/ Preflight \/ StartApplying
    \/ Prepare \/ Check \/ Replace \/ UndoCheck \/ UndoReplace
    \/ FailedV1 \/ PostV1 \/ RolledBackV1
    \/ Observe("settle", "settled") \/ Settled \/ RecordFailure
    \/ Applied \/ Observe("verify", "verified") \/ Verified
    \/ PostV2 \/ FinishV2 \/ Announce

RecoverStep ==
    \/ \E a \in DOMAIN apps : RecoverV2(a) \/ Discard(a)
    \/ RecoverPrepare \/ Restore \/ RedoCheck \/ RedoReplace
    \/ Recovered \/ RecoveryBlocked \/ RecordRecovery
    \/ DiscardWorktree \/ RecordDiscard

Next ==
    \/ ApplyStep
    \/ RecoverStep
    \/ \E i \in Files, content \in Contents : UserEdits(i, content)
    \/ Stop

Spec == Init /\ [][Next]_vars

-----------------------------------------------------------------------------
(* Properties *)

Commands == [op : Ops, pc : Steps, at : 0 .. N, seen : SUBSET Contents, whole : BOOLEAN,
             then : Steps, app : 0 .. MaxApps, late : SUBSET Files]

TypeOK ==
    /\ files \in [Files -> Contents]
    /\ legacy \in BOOLEAN
    /\ status \in Statuses
    /\ apps \in Seq(Applications) /\ Len(apps) <= MaxApps
    /\ worktree \in Worktrees
    /\ cmd \in Commands /\ cmd.app <= Len(apps)
    /\ edits \in 0 .. MaxEdits
    /\ touched \in SUBSET Files

\* Files that only Star-Control has written.
Ours == Files \ touched
Latest == apps[Len(apps)].state

\* Whatever the moment of a crash, a file that carries the patch is announced: the
\* newest application has recorded its intent to write before the first file is
\* replaced, and is not recorded as taken back while the patch is on a file.
EffectIsAnnounced ==
    ~legacy /\ (\E i \in Ours : files[i] = "after") =>
        /\ apps # <<>>
        /\ Latest \notin {"requested", "preflighted", "reverted", "isolated_discarded"}

\* A patch that is recorded as reverted is on no file, and one that is recorded as
\* applied is on all of them at the moment of the record, except where the user
\* has written himself: failed roll-backs and torn writes are never called either.
VerdictIsWhole ==
    [][ /\ \A a \in DOMAIN apps : apps'[a].state # apps[a].state =>
             /\ apps'[a].state = "reverted" => \A i \in Ours : files[i] = "before"
             /\ apps'[a].state \in {"applied", "awaiting_human_review"}
                    => \A i \in Ours : files[i] = "after"
        /\ status' # status =>
             /\ status' \in {"reverted", "failed"} => \A i \in Ours : files[i] = "before"
             /\ status' = "applied" => \A i \in Ours : files[i] = "after" ]_vars

\* No step that applies the patch or rolls it back, and none that puts it on
\* again, overwrites an edit of the user that was there when the step's turn came.
EditsSurvive ==
    [][ \A i \in Files : files[i] = "edited" /\ files'[i] # "edited" /\ edits' = edits
            => cmd.pc = "restore" \/ i \in cmd.late ]_vars

\* The same of explicit recovery.
RecoveryKeepsEdits ==
    [][ \A i \in Files : files[i] = "edited" /\ files'[i] # "edited" /\ edits' = edits
            => i \in cmd.late ]_vars

\* Between commands, a patch that is on some files only is not called applied.
PartialIsNotHidden ==
    cmd = Idle /\ status = "applied" => \A i \in Ours : files[i] = "after"
=============================================================================
