---------------------------- MODULE PatchApplyProofs ----------------------------
(***************************************************************************)
(* Proofs about PatchApply for any number of files, edits and              *)
(* applications.                                                           *)
(*                                                                         *)
(* The properties are about files that the user has left alone.  Inv says  *)
(* what each step of a command knows of them: which of them carry the      *)
(* patch up to the file the step is at, what an observation still means    *)
(* when its verdict is used, and that the application a command writes for *)
(* has recorded its intent.                                                *)
(***************************************************************************)
EXTENDS PatchApply, SequenceTheorems, TLAPS

OursAre(content) == \A i \in Ours : files[i] = content
Announced ==
    /\ apps # <<>>
    /\ Latest \notin {"requested", "preflighted", "reverted", "isolated_discarded"}

\* Which command a step belongs to, and the application it works on.
Observing == {"observe", "observed"}
Gating == {"pre_gate", "preflight", "start"}
Writing == {"prepare", "check", "replace", "undo_check", "undo_replace", "applied", "post"}
Settling == {"settle", "settled", "record", "verify", "verified", "finish", "announce"}
Recovering == {"recover_prepare", "restore", "redo_check", "redo_replace", "recovered",
               "blocked", "record_recovery"}
Discarding == {"discarding", "record_discard"}

WhoseStep ==
    /\ legacy => apps = <<>>
    /\ cmd.op = "apply_v1" => legacy /\ cmd.pc \in Writing \cup {"failed", "rolled_back"}
    /\ cmd.op = "apply_v2" => ~legacy /\ cmd.pc \in Observing \cup Gating \cup Writing \cup Settling
                                                    \cup Recovering
    /\ cmd.op = "recover" => cmd.pc \in Observing \cup Recovering
    /\ cmd.op = "discard" => cmd.pc \in Observing \cup Discarding
    /\ cmd.op = "none" => cmd.pc = "idle"
    /\ cmd.op \in {"recover", "discard"} => cmd.app \in DOMAIN apps
    /\ cmd.op = "apply_v2" /\ cmd.pc \in Observing => Len(apps) < MaxApps
    /\ cmd.op = "apply_v2" /\ cmd.pc \notin Observing =>
          /\ cmd.app = Len(apps) /\ cmd.app \in DOMAIN apps
          /\ cmd.pc \notin Gating => apps[cmd.app].state = "applying"
    /\ cmd.pc \in {"undo_check", "undo_replace"} =>
          cmd.then \in IF cmd.op = "apply_v1" THEN {"failed", "rolled_back"} ELSE {"settle"}
    /\ cmd.pc \notin {"undo_check", "redo_check"} => cmd.at # 0

\* What an observation saw.
Observations ==
    /\ cmd.pc \in {"observe", "settle", "verify"} =>
          \A i \in Ours : i < cmd.at => files[i] \in cmd.seen
    /\ cmd.pc \in {"observed", "settled", "verified", "record"} =>
          "edited" \in cmd.seen \/ \A i \in Ours : files[i] \in cmd.seen

\* How far the patch has been put on, or taken back.
Progress ==
    /\ cmd.pc \in Gating \cup Discarding \cup {"recovered"} => OursAre("before")
    /\ cmd.pc = "prepare" => \A i \in Ours : cmd.op = "apply_v2" \/ i < cmd.at => files[i] = "before"
    /\ cmd.pc \in {"check", "replace"} =>
          \A i \in Ours : files[i] = IF i < cmd.at THEN "after" ELSE "before"
    /\ cmd.pc \in {"undo_check", "undo_replace"} /\ cmd.whole =>
          \A i \in Ours : i > cmd.at => files[i] = "before"
    /\ cmd.pc \in {"failed", "rolled_back"} /\ cmd.whole => OursAre("before")
    /\ cmd.pc \in {"applied", "post", "verify", "verified", "finish", "announce",
                   "recover_prepare"} => OursAre("after")
    /\ cmd.pc = "restore" =>
          \A i \in Ours : files[i] = IF i < cmd.at THEN "before" ELSE "after"
    /\ cmd.pc \in {"redo_check", "redo_replace"} =>
          \A i \in Ours : i > cmd.at => files[i] = "after"
    /\ cmd.pc = "blocked" /\ cmd.whole => OursAre("after")
    /\ cmd.pc = "record_recovery" /\ cmd.then = "recovered" => OursAre("before")

\* A file that was checked is as it was, or the user has edited it since.
Checked ==
    /\ cmd.pc \in {"replace", "redo_replace"} =>
          files[cmd.at] = "before" \/ cmd.at \in cmd.late
    /\ cmd.pc = "undo_replace" => files[cmd.at] = "after" \/ cmd.at \in cmd.late

\* A recovery that may put the patch on again takes it off an announced application.
RecoversAnnounced ==
    cmd.pc \in {"recover_prepare", "restore", "redo_check", "redo_replace"} /\ Ours # {} =>
        Announced

\* The inductive invariant.
Inv ==
    /\ TypeOK
    /\ EffectIsAnnounced
    /\ WhoseStep /\ Observations /\ Progress /\ Checked /\ RecoversAnnounced
-----------------------------------------------------------------------------
(* What the steps shared by the commands do *)

LEMMA StepNames ==
    \A p \in {"idle", "observe", "observed", "pre_gate", "preflight", "start", "prepare",
              "check", "replace", "undo_check", "undo_replace", "settle", "settled",
              "failed", "rolled_back", "record", "applied", "verify", "verified", "post",
              "finish", "announce", "recover_prepare", "restore", "redo_check",
              "redo_replace", "recovered", "blocked", "record_recovery", "discarding",
              "record_discard"} : p \in Steps
BY DEF Steps

LEMMA CommandFields ==
    ASSUME cmd \in Commands
    PROVE  /\ cmd.op \in Ops /\ cmd.pc \in Steps /\ cmd.at \in 0 .. N
           /\ cmd.seen \in SUBSET Contents /\ cmd.whole \in BOOLEAN /\ cmd.then \in Steps
           /\ cmd.app \in 0 .. MaxApps /\ cmd.late \in SUBSET Files
BY DEF Commands

LEMMA IdleIs ==
    /\ Idle \in Commands
    /\ Idle.op = "none" /\ Idle.pc = "idle" /\ Idle.at = 1 /\ Idle.app = 0
<1>1. 1 \in 0 .. N /\ 0 \in 0 .. MaxApps
  BY PatchAssumption
<1> QED BY <1>1 DEF Idle, Commands, Ops, Steps

\* The command stays the same, and so does its application.
SameJob == cmd'.op = cmd.op /\ cmd'.app = cmd.app

LEMMA GotoDoes ==
    ASSUME cmd \in Commands, NEW p \in Steps, Goto(p)
    PROVE  /\ cmd' \in Commands /\ SameJob
           /\ cmd'.pc = p /\ cmd'.at = 1 /\ cmd'.seen = {} /\ cmd'.late = {}
           /\ cmd'.whole = cmd.whole /\ cmd'.then = cmd.then
<1>1. 1 \in 0 .. N
  BY PatchAssumption
<1> QED BY <1>1 DEF Goto, Commands, SameJob

LEMMA TurnToDoes ==
    ASSUME cmd \in Commands, NEW p \in Steps, NEW i \in 0 .. N, TurnTo(p, i)
    PROVE  /\ cmd' \in Commands /\ SameJob
           /\ cmd'.pc = p /\ cmd'.at = i /\ cmd'.late = {}
           /\ cmd'.whole = cmd.whole /\ cmd'.then = cmd.then
BY DEF TurnTo, Commands, SameJob

LEMMA RollBackFromDoes ==
    ASSUME cmd \in Commands, NEW p \in Steps, NEW i \in 0 .. N, RollBackFrom(i, p)
    PROVE  /\ cmd' \in Commands /\ SameJob
           /\ cmd'.pc = "undo_check" /\ cmd'.at = i /\ cmd'.whole = TRUE /\ cmd'.then = p
BY StepNames DEF RollBackFrom, Commands, SameJob

LEMMA NextUndoDoes ==
    ASSUME cmd \in Commands, cmd.at # 0, NEW w \in BOOLEAN, NextUndo(w)
    PROVE  /\ cmd' \in Commands /\ SameJob
           /\ cmd'.pc = "undo_check" /\ cmd'.at = cmd.at - 1 /\ cmd'.then = cmd.then
           /\ cmd'.whole <=> cmd.whole /\ w
<1> DEFINE v == cmd.whole /\ w
<1>1. cmd.at - 1 \in 0 .. N /\ v \in BOOLEAN
  BY CommandFields, PatchAssumption
<1>2. cmd' = [cmd EXCEPT !.pc = "undo_check", !.at = cmd.at - 1, !.whole = v, !.late = {}]
  BY DEF NextUndo, Commands
<1> HIDE DEF v
<1>3. /\ cmd' \in Commands /\ SameJob
      /\ cmd'.pc = "undo_check" /\ cmd'.at = cmd.at - 1 /\ cmd'.then = cmd.then
      /\ cmd'.whole = v
  BY <1>1, <1>2, StepNames DEF Commands, SameJob
<1> QED BY <1>3 DEF v

LEMMA BlockedDoes ==
    ASSUME cmd \in Commands, NEW w \in BOOLEAN, Blocked(w)
    PROVE  /\ cmd' \in Commands /\ SameJob
           /\ cmd'.pc = "blocked" /\ cmd'.at = 1 /\ cmd'.whole = w
<1>1. 1 \in 0 .. N
  BY PatchAssumption
<1> QED BY <1>1, StepNames DEF Blocked, Commands, SameJob

LEMMA PcDoes ==
    ASSUME cmd \in Commands, NEW p \in Steps, cmd' = [cmd EXCEPT !.pc = p]
    PROVE  /\ cmd' \in Commands /\ SameJob
           /\ cmd'.pc = p /\ cmd'.at = cmd.at /\ cmd'.seen = cmd.seen /\ cmd'.late = cmd.late
           /\ cmd'.whole = cmd.whole /\ cmd'.then = cmd.then
BY DEF Commands, SameJob

LEMMA PcThenDoes ==
    ASSUME cmd \in Commands, NEW p \in Steps, NEW q \in Steps,
           cmd' = [cmd EXCEPT !.pc = p, !.then = q]
    PROVE  /\ cmd' \in Commands /\ SameJob
           /\ cmd'.pc = p /\ cmd'.at = cmd.at /\ cmd'.then = q
BY DEF Commands, SameJob

\* The application of the command is recorded in state s, the others stay.
Records(s) ==
    /\ apps' \in Seq(Applications) /\ Len(apps') = Len(apps)
    /\ apps'[cmd.app].state = s
    /\ \A a \in DOMAIN apps : a # cmd.app => apps'[a] = apps[a]

LEMMA RecordsDoes ==
    ASSUME apps \in Seq(Applications), cmd.app \in DOMAIN apps, NEW s \in AppStates,
           \/ apps' = [apps EXCEPT ![cmd.app].state = s]
           \/ apps' = [apps EXCEPT ![cmd.app].state = s, ![cmd.app].permit = TRUE]
           \/ apps' = [apps EXCEPT ![cmd.app].state = s, ![cmd.app].receipts = TRUE]
    PROVE  Records(s)
<1>1. apps[cmd.app] \in Applications
  BY ElementOfSeq
<1>2. PICK r \in Applications : apps' = [apps EXCEPT ![cmd.app] = r] /\ r.state = s
  <2>1. CASE apps' = [apps EXCEPT ![cmd.app].state = s]
    <3> DEFINE r == [apps[cmd.app] EXCEPT !.state = s]
    <3>1. r \in Applications /\ r.state = s
      BY <1>1 DEF Applications
    <3> QED BY <2>1, <3>1
  <2>2. CASE apps' = [apps EXCEPT ![cmd.app].state = s, ![cmd.app].permit = TRUE]
    <3> DEFINE r == [apps[cmd.app] EXCEPT !.state = s, !.permit = TRUE]
    <3>1. r \in Applications /\ r.state = s
      BY <1>1 DEF Applications
    <3> QED BY <2>2, <3>1
  <2>3. CASE apps' = [apps EXCEPT ![cmd.app].state = s, ![cmd.app].receipts = TRUE]
    <3> DEFINE r == [apps[cmd.app] EXCEPT !.state = s, !.receipts = TRUE]
    <3>1. r \in Applications /\ r.state = s
      BY <1>1 DEF Applications
    <3> QED BY <2>3, <3>1
  <2> QED BY <2>1, <2>2, <2>3
<1>3. cmd.app \in 1 .. Len(apps)
  OBVIOUS
<1>4. apps' \in Seq(Applications) /\ Len(apps') = Len(apps)
  BY <1>2, <1>3, ExceptSeq
<1> QED BY <1>2, <1>4 DEF Records
-----------------------------------------------------------------------------
(* Steps that change neither the files nor what is recorded of an application *)

To(pc) == SameJob /\ cmd'.pc = pc /\ cmd'.at = 1

Starts ==
    \/ /\ legacy /\ cmd'.op = "apply_v1" /\ cmd'.pc = "prepare" /\ cmd'.at = 1
       /\ cmd'.app = 0
    \/ /\ cmd'.op \in {"apply_v2", "recover", "discard"} /\ cmd'.pc = "observe" /\ cmd'.at = 1
       /\ cmd'.op # "apply_v2" => cmd'.app \in DOMAIN apps
       /\ cmd'.op = "apply_v2" => ~legacy /\ Len(apps) < MaxApps /\ cmd'.app = 0

Observes ==
    /\ SameJob /\ cmd'.seen = cmd.seen \cup {files[cmd.at]}
    /\ \/ /\ cmd.pc \in {"observe", "settle", "verify"} /\ cmd'.pc = cmd.pc
          /\ cmd.at # N /\ cmd'.at = cmd.at + 1
       \/ /\ cmd'.at = cmd.at /\ (cmd.at = N \/ files[cmd.at] = "edited")
          /\ \/ cmd.pc = "observe" /\ cmd'.pc = "observed"
             \/ cmd.pc = "settle" /\ cmd'.pc = "settled"
             \/ cmd.pc = "verify" /\ cmd'.pc = "verified"

Prepares ==
    \/ cmd.pc = "observed" /\ cmd.op = "discard" /\ AllBefore /\ To("discarding")
    \/ cmd.pc = "discarding" /\ To("record_discard")
    \/ cmd.pc = "pre_gate" /\ To("preflight")
    \/ cmd.pc = "prepare" /\ cmd.op = "apply_v2" /\ To("settle")
    \/ cmd.pc = "prepare" /\ files[cmd.at] = "before" /\ cmd.at = N /\ To("check")
    \/ /\ cmd.pc = "prepare" /\ files[cmd.at] = "before" /\ cmd.at # N
       /\ SameJob /\ cmd'.pc = "prepare" /\ cmd'.at = cmd.at + 1
    \/ /\ cmd.pc = "check" /\ files[cmd.at] = "before"
       /\ SameJob /\ cmd'.pc = "replace" /\ cmd'.at = cmd.at

\* cmd.then at the start of a roll-back.
Leads(then) == then \in IF cmd.op = "apply_v1" THEN {"failed", "rolled_back"} ELSE {"settle"}

Undoes ==
    /\ SameJob
    /\ \/ /\ cmd.pc \in {"check", "replace"} /\ cmd'.pc = "undo_check"
          /\ cmd'.at = cmd.at - 1 /\ Leads(cmd'.then)
       \/ /\ cmd.pc = "post" /\ cmd.op = "apply_v1" /\ cmd'.pc = "undo_check"
          /\ cmd'.at = N /\ Leads(cmd'.then)
       \/ /\ cmd.pc = "undo_check" /\ cmd.at = 0 /\ cmd'.pc = cmd.then /\ cmd'.at = 1
          /\ cmd'.whole = cmd.whole
       \/ /\ cmd.pc = "undo_check" /\ cmd.at # 0 /\ files[cmd.at] = "after"
          /\ cmd'.pc = "undo_replace" /\ cmd'.at = cmd.at /\ cmd'.whole = cmd.whole
          /\ cmd'.then = cmd.then
       \/ /\ cmd.pc \in {"undo_check", "undo_replace"} /\ cmd.at # 0
          /\ cmd'.pc = "undo_check" /\ cmd'.at = cmd.at - 1 /\ ~cmd'.whole
          /\ cmd'.then = cmd.then

Settles ==
    \/ cmd.pc = "settled" /\ SameJob /\ cmd'.pc = "record" /\ cmd'.seen = cmd.seen
       /\ cmd'.at = cmd.at
    \/ cmd.pc = "applied" /\ To(IF cmd.op = "apply_v1" THEN "post" ELSE "verify")
    \/ cmd.pc = "verified" /\ (To("post") \/ To("recover_prepare"))
    \/ cmd.pc = "post" /\ cmd.op = "apply_v2" /\ (To("finish") \/ To("recover_prepare"))
    \/ cmd.pc = "finish" /\ To("announce")
    \/ cmd.pc = "announce" /\ To("recover_prepare")
    \/ cmd.pc = "observed" /\ cmd.op = "recover" /\ AllAfter /\ To("recover_prepare")

Recovers ==
    /\ SameJob
    /\ \/ cmd.pc = "recover_prepare" /\ cmd'.pc = "blocked" /\ cmd'.at = 1
       \/ cmd.pc = "recover_prepare" /\ cmd'.pc = "restore" /\ cmd'.at = 1
       \/ cmd.pc = "recover_prepare" /\ cmd'.pc = "recover_prepare" /\ cmd'.at = cmd.at + 1
       \/ cmd.pc = "restore" /\ cmd'.pc = "redo_check" /\ cmd'.at = cmd.at - 1
       \/ cmd.pc = "redo_check" /\ cmd.at = 0 /\ cmd'.pc = "blocked" /\ cmd'.at = 1
       \/ /\ cmd.pc = "redo_check" /\ cmd.at # 0 /\ files[cmd.at] = "before"
          /\ cmd'.pc = "redo_replace" /\ cmd'.at = cmd.at
       \/ cmd.pc \in {"redo_check", "redo_replace"} /\ cmd'.pc = "blocked" /\ cmd'.at = 1
          /\ ~cmd'.whole
       \/ /\ cmd.pc = "recovered" /\ cmd'.pc = "record_recovery" /\ cmd'.at = cmd.at
          /\ cmd'.then = "recovered"
       \/ /\ cmd.pc = "blocked" /\ cmd'.pc = "record_recovery" /\ cmd'.at = cmd.at
          /\ cmd'.then = "blocked"

Quiet ==
    /\ UNCHANGED <<files, legacy, apps, edits, touched>>
    /\ status' \in Statuses /\ worktree' \in Worktrees
Moves == cmd' = Idle \/ Starts \/ Observes \/ Prepares \/ Undoes \/ Settles \/ Recovers

LEMMA AppBounds ==
    ASSUME apps \in Seq(Applications), Len(apps) <= MaxApps, NEW a \in DOMAIN apps
    PROVE  a \in 0 .. MaxApps /\ a <= Len(apps) /\ apps # <<>>
BY PatchAssumption

LEMMA QuietStep ==
    ASSUME Inv, cmd' \in Commands, Quiet, Moves
    PROVE  Inv'
<1> USE PatchAssumption, CommandFields, IdleIs
    DEF Quiet, SameJob, To, AllBefore, AllAfter, Files, Ours, OursAre, Observing, Gating, Writing,
        Settling, Recovering, Discarding
<1>0. cmd \in Commands /\ cmd' \in Commands
  BY DEF Inv, TypeOK
<1>b. TypeOK'
  <2>1. cmd'.app <= Len(apps)
    BY <1>0, LenProperties, AppBounds DEF Inv, TypeOK, Moves, Starts, Observes, Prepares, Undoes,
       Settles, Recovers
  <2> QED BY <2>1 DEF Inv, TypeOK
<1>1. EffectIsAnnounced'
  BY DEF Inv, EffectIsAnnounced, Latest
<1>a. cmd.pc \in {"observed", "verified"} =>
          /\ AllBefore => \A i \in Ours : files[i] = "before"
          /\ AllAfter => \A i \in Ours : files[i] = "after"
  BY DEF Inv, Observations
<1>2. CASE cmd' = Idle
  <2>1. WhoseStep'
    BY <1>0, <1>2 DEF Inv, WhoseStep
  <2>2. Observations'
    BY <1>0, <1>2 DEF Inv, TypeOK, WhoseStep, Observations
  <2>3. Progress'
    BY <1>0, <1>2 DEF Inv, TypeOK, WhoseStep, Observations, Progress
  <2>4. Checked'
    BY <1>0, <1>2 DEF Inv, WhoseStep, Checked
  <2>5. RecoversAnnounced'
    BY <1>0, <1>2 DEF Inv, WhoseStep, EffectIsAnnounced, RecoversAnnounced, Observations, Announced,
       Latest
  <2> QED BY <1>b, <1>1, <2>1, <2>2, <2>3, <2>4, <2>5 DEF Inv
<1>3. CASE Starts
  <2>1. WhoseStep'
    BY <1>0, <1>3 DEF Inv, WhoseStep, Starts
  <2>2. Observations'
    BY <1>0, <1>3 DEF Inv, TypeOK, WhoseStep, Observations, Starts
  <2>3. Progress'
    BY <1>0, <1>3 DEF Progress, Starts
  <2>4. Checked'
    BY <1>0, <1>3 DEF Inv, WhoseStep, Checked, Starts
  <2>5. RecoversAnnounced'
    BY <1>0, <1>3 DEF Inv, WhoseStep, EffectIsAnnounced, RecoversAnnounced, Observations, Announced,
       Latest, Starts
  <2> QED BY <1>b, <1>1, <2>1, <2>2, <2>3, <2>4, <2>5 DEF Inv
<1>4. CASE Observes
  <2>1. WhoseStep'
    BY <1>0, <1>4 DEF Inv, WhoseStep, Observes
  <2>2. Observations'
    BY <1>0, <1>4 DEF Inv, TypeOK, WhoseStep, Observations, Observes
  <2>3. Progress'
    BY <1>0, <1>4 DEF Inv, TypeOK, WhoseStep, Observations, Progress, Observes
  <2>4. Checked'
    BY <1>0, <1>4 DEF Inv, WhoseStep, Checked, Observes
  <2>5. RecoversAnnounced'
    BY <1>0, <1>4 DEF Inv, WhoseStep, EffectIsAnnounced, RecoversAnnounced, Observations, Announced,
       Latest, Observes
  <2> QED BY <1>b, <1>1, <2>1, <2>2, <2>3, <2>4, <2>5 DEF Inv
<1>5. CASE Prepares
  <2>1. WhoseStep'
    BY <1>0, <1>5 DEF Inv, WhoseStep, Prepares
  <2>2. Observations'
    BY <1>0, <1>5 DEF Inv, TypeOK, WhoseStep, Observations, Prepares
  <2>3. Progress'
    BY <1>0, <1>a, <1>5, SMTT(30) DEF Inv, WhoseStep, Progress, Prepares
  <2>4. Checked'
    BY <1>0, <1>5 DEF Inv, WhoseStep, Checked, Prepares
  <2>5. RecoversAnnounced'
    BY <1>0, <1>5 DEF Inv, WhoseStep, EffectIsAnnounced, RecoversAnnounced, Observations, Announced,
       Latest, Prepares
  <2> QED BY <1>b, <1>1, <2>1, <2>2, <2>3, <2>4, <2>5 DEF Inv
<1>6. CASE Undoes
  <2>1. WhoseStep'
    BY <1>0, <1>6 DEF Inv, WhoseStep, Undoes, Leads
  <2>2. Observations'
    BY <1>0, <1>6 DEF Inv, TypeOK, WhoseStep, Observations, Undoes, Leads
  <2>3. Progress'
    BY <1>0, <1>a, <1>6, SMTT(30) DEF Inv, WhoseStep, Progress, Undoes, Leads
  <2>4. Checked'
    BY <1>0, <1>6 DEF Inv, WhoseStep, Checked, Undoes, Leads
  <2>5. RecoversAnnounced'
    BY <1>0, <1>6 DEF Inv, WhoseStep, EffectIsAnnounced, RecoversAnnounced, Observations, Announced,
       Latest, Undoes, Leads
  <2> QED BY <1>b, <1>1, <2>1, <2>2, <2>3, <2>4, <2>5 DEF Inv
<1>7. CASE Settles
  <2>1. WhoseStep'
    BY <1>0, <1>7 DEF Inv, WhoseStep, Settles
  <2>2. Observations'
    BY <1>0, <1>7 DEF Inv, TypeOK, WhoseStep, Observations, Settles
  <2>3. Progress'
    BY <1>0, <1>a, <1>7, SMTT(30) DEF Inv, WhoseStep, Progress, Settles
  <2>4. Checked'
    BY <1>0, <1>7 DEF Inv, WhoseStep, Checked, Settles
  <2>5. RecoversAnnounced'
    <3>1. CASE cmd.pc = "observed" /\ cmd.op = "recover" /\ AllAfter
      <4>1. cmd.app \in DOMAIN apps /\ ~legacy
        BY <3>1 DEF Inv, WhoseStep
      <4>2. Ours # {} => Announced
        BY <1>a, <3>1, <4>1 DEF Inv, EffectIsAnnounced, Announced
      <4> QED BY <4>2 DEF RecoversAnnounced, Announced, Latest
    <3>2. CASE cmd.pc \in {"verified", "post", "announce"} /\ cmd.op # "apply_v1"
      <4>1. cmd.op = "apply_v2"
        BY <1>0, <3>2 DEF Inv, WhoseStep, Ops
      <4>2. Announced
        BY <3>2, <4>1 DEF Inv, WhoseStep, Announced, Latest
      <4> QED BY <4>2 DEF RecoversAnnounced, Announced, Latest
    <3>3. CASE cmd'.pc # "recover_prepare"
      BY <1>0, <1>7, <3>3 DEF Settles, RecoversAnnounced
    <3> QED BY <1>7, <3>1, <3>2, <3>3 DEF Settles, Inv, WhoseStep
  <2> QED BY <1>b, <1>1, <2>1, <2>2, <2>3, <2>4, <2>5 DEF Inv
<1>8. CASE Recovers
  <2>1. WhoseStep'
    BY <1>0, <1>8 DEF Inv, WhoseStep, Recovers
  <2>2. Observations'
    BY <1>0, <1>8 DEF Inv, TypeOK, WhoseStep, Observations, Recovers
  <2>3. Progress'
    BY <1>0, <1>a, <1>8, SMTT(30) DEF Inv, WhoseStep, Progress, Recovers
  <2>4. Checked'
    BY <1>0, <1>8 DEF Inv, WhoseStep, Checked, Recovers
  <2>5. RecoversAnnounced'
    BY <1>0, <1>8 DEF Inv, WhoseStep, EffectIsAnnounced, RecoversAnnounced, Observations, Announced,
       Latest, Recovers
  <2> QED BY <1>b, <1>1, <2>1, <2>2, <2>3, <2>4, <2>5 DEF Inv
<1> QED BY <1>2, <1>3, <1>4, <1>5, <1>6, <1>7, <1>8 DEF Moves
-----------------------------------------------------------------------------
(* Type correctness *)

LEMMA ObserveDoes ==
    ASSUME cmd \in Commands, files \in [Files -> Contents], cmd.at # 0, NEW p, NEW q \in Steps,
           Observe(p, q)
    PROVE  /\ cmd' \in Commands /\ SameJob /\ cmd'.seen = cmd.seen \cup {files[cmd.at]}
           /\ \/ cmd'.pc = cmd.pc /\ cmd.at # N /\ cmd'.at = cmd.at + 1
              \/ cmd'.pc = q /\ cmd'.at = cmd.at /\ (cmd.at = N \/ files[cmd.at] = "edited")
<1>1. cmd.seen \cup {files[cmd.at]} \in SUBSET Contents
  BY CommandFields, PatchAssumption DEF Files
<1>2. CASE cmd.at = N \/ files[cmd.at] = "edited"
  BY <1>1, <1>2 DEF Observe, Commands, SameJob
<1>3. CASE ~(cmd.at = N \/ files[cmd.at] = "edited")
  <2>1. cmd.at + 1 \in 0 .. N
    BY <1>3, CommandFields, PatchAssumption
  <2>2. cmd' = [cmd EXCEPT !.at = cmd.at + 1, !.seen = cmd.seen \cup {files[cmd.at]}]
    BY <1>3 DEF Observe, Commands
  <2> QED BY <1>1, <1>3, <2>1, <2>2 DEF Commands, SameJob
<1> QED BY <1>2, <1>3

LEMMA AtBounds ==
    ASSUME cmd \in Commands
    PROVE  /\ N \in 0 .. N
           /\ cmd.at # N => cmd.at + 1 \in 0 .. N
           /\ cmd.at # 0 => cmd.at - 1 \in 0 .. N
BY CommandFields, PatchAssumption

LEMMA TurnNextDoes ==
    ASSUME cmd \in Commands, cmd.at # N, NEW p \in Steps, TurnTo(p, cmd.at + 1)
    PROVE  SameJob /\ cmd'.pc = p /\ cmd'.at = cmd.at + 1
BY AtBounds, TurnToDoes

LEMMA TurnBackDoes ==
    ASSUME cmd \in Commands, cmd.at # 0, NEW p \in Steps, TurnTo(p, cmd.at - 1)
    PROVE  SameJob /\ cmd'.pc = p /\ cmd'.at = cmd.at - 1
BY AtBounds, TurnToDoes

LEMMA LenFits ==
    ASSUME apps \in Seq(Applications), Len(apps) < MaxApps
    PROVE  Len(apps) + 1 \in 0 .. MaxApps
BY PatchAssumption, LenProperties

LEMMA CommandStep ==
    ASSUME Inv, [Next]_vars
    PROVE  cmd' \in Commands
<1>0. /\ cmd \in Commands /\ WhoseStep
      /\ files \in [Files -> Contents] /\ apps \in Seq(Applications) /\ Len(apps) \in 0 .. MaxApps
      /\ Len(apps) <= MaxApps
  BY LenProperties, PatchAssumption DEF Inv, TypeOK
<1> USE <1>0, PatchAssumption, CommandFields, StepNames, IdleIs, GotoDoes, TurnToDoes,
        RollBackFromDoes, NextUndoDoes, BlockedDoes, PcDoes, PcThenDoes, ObserveDoes
    DEF Finish
<1>a. /\ N \in 0 .. N
      /\ cmd.at # N => cmd.at + 1 \in 0 .. N
      /\ cmd.at # 0 => cmd.at - 1 \in 0 .. N
  BY AtBounds
<1>b. cmd.pc \notin {"undo_check", "redo_check"} => cmd.at # 0
  BY DEF WhoseStep
<1>1. CASE ApplyV1
  BY <1>1 DEF ApplyV1, Begin, Idle, Commands, Ops
<1>2. CASE ApplyV2
  BY <1>2 DEF ApplyV2, Begin, Idle, Commands, Ops
<1>3. CASE Observe("observe", "observed")
  <2>1. cmd.at # 0
    BY <1>3 DEF Observe, WhoseStep
  <2> QED BY <1>3, <2>1
<1>4. CASE Observed
  <2>1. CASE cmd' = [cmd EXCEPT !.pc = "pre_gate", !.app = Len(apps) + 1] /\ cmd.op = "apply_v2"
    <3>1. Len(apps) < MaxApps
      BY <1>4, <2>1 DEF Observed, WhoseStep, Observing
    <3>2. Len(apps) + 1 \in 0 .. MaxApps
      BY <3>1, LenFits
    <3> QED BY <2>1, <3>2 DEF Commands
  <2> QED BY <1>4, <2>1 DEF Observed
<1>5. CASE PreGate
  BY <1>5 DEF PreGate
<1>6. CASE Preflight
  BY <1>6 DEF Preflight
<1>7. CASE StartApplying
  BY <1>7 DEF StartApplying
<1>8. CASE Prepare
  BY <1>a, <1>b, <1>8 DEF Prepare
<1>9. CASE Check
  BY <1>a, <1>b, <1>9 DEF Check, GiveUp
<1>10. CASE Replace
  BY <1>a, <1>b, <1>10 DEF Replace, GiveUp
<1>11. CASE UndoCheck
  BY <1>11 DEF UndoCheck, WhoseStep
<1>12. CASE UndoReplace
  BY <1>12 DEF UndoReplace, WhoseStep
<1>13. CASE FailedV1
  BY <1>13 DEF FailedV1
<1>14. CASE PostV1
  BY <1>a, <1>14 DEF PostV1
<1>15. CASE RolledBackV1
  BY <1>15 DEF RolledBackV1
<1>16. CASE Observe("settle", "settled")
  <2>1. cmd.at # 0
    BY <1>16 DEF Observe, WhoseStep
  <2> QED BY <1>16, <2>1
<1>17. CASE Settled
  BY <1>17 DEF Settled
<1>18. CASE RecordFailure
  BY <1>18 DEF RecordFailure
<1>19. CASE Applied
  BY <1>19 DEF Applied
<1>20. CASE Observe("verify", "verified")
  <2>1. cmd.at # 0
    BY <1>20 DEF Observe, WhoseStep
  <2> QED BY <1>20, <2>1
<1>21. CASE Verified
  BY <1>21 DEF Verified
<1>22. CASE PostV2
  BY <1>22 DEF PostV2
<1>23. CASE FinishV2
  BY <1>23 DEF FinishV2
<1>24. CASE Announce
  BY <1>24 DEF Announce
<1>25. CASE RecoverPrepare
  BY <1>a, <1>b, <1>25 DEF RecoverPrepare
<1>26. CASE Restore
  BY <1>a, <1>b, <1>26 DEF Restore
<1>27. CASE RedoCheck
  BY <1>27 DEF RedoCheck, WhoseStep
<1>28. CASE RedoReplace
  BY <1>a, <1>b, <1>28 DEF RedoReplace
<1>29. CASE Recovered
  BY <1>29 DEF Recovered
<1>30. CASE RecoveryBlocked
  BY <1>30 DEF RecoveryBlocked
<1>31. CASE RecordRecovery
  BY <1>31 DEF RecordRecovery
<1>32. CASE DiscardWorktree
  BY <1>32 DEF DiscardWorktree
<1>33. CASE RecordDiscard
  BY <1>33 DEF RecordDiscard
<1>34. CASE Stop
  BY <1>34 DEF Stop
<1>35. CASE UNCHANGED vars
  BY <1>35 DEF vars
<1>36. ASSUME NEW a \in DOMAIN apps, RecoverV2(a) \/ Discard(a) PROVE cmd' \in Commands
  <2>1. a \in 0 .. MaxApps
    BY <1>36, AppBounds
  <2>2. \E op \in Ops : cmd' = [Idle EXCEPT !.op = op, !.pc = "observe", !.app = a]
    BY <1>36 DEF RecoverV2, Discard, Begin, Ops
  <2>3. PICK op \in Ops : cmd' = [Idle EXCEPT !.op = op, !.pc = "observe", !.app = a]
    BY <2>2
  <2> QED BY <2>1, <2>3 DEF Commands
<1>37. ASSUME NEW i \in Files, NEW c \in Contents, UserEdits(i, c) PROVE cmd' \in Commands
  BY <1>37 DEF UserEdits, Commands
<1> QED
  BY <1>1, <1>2, <1>3, <1>4, <1>5, <1>6, <1>7, <1>8, <1>9, <1>10, <1>11, <1>12, <1>13, <1>14, <1>15,
     <1>16, <1>17, <1>18, <1>19, <1>20, <1>21, <1>22, <1>23, <1>24, <1>25, <1>26, <1>27, <1>28, <1>29,
     <1>30, <1>31, <1>32, <1>33, <1>34, <1>35, <1>36, <1>37 DEF Next, ApplyStep, RecoverStep
-----------------------------------------------------------------------------
(* Steps that record something of an application *)

Bad == {"requested", "preflighted", "reverted", "isolated_discarded"}

LEMMA RecordStep ==
    ASSUME Inv, cmd' \in Commands, cmd.app \in DOMAIN apps, NEW s, Records(s),
           UNCHANGED <<files, legacy, status, worktree, user>>,
           \/ cmd' = Idle /\ (s \in Bad => OursAre("before"))
           \/ cmd.pc = "preflight" /\ To("start") /\ s = "preflighted"
           \/ cmd.pc = "start" /\ To("prepare") /\ s = "applying"
    PROVE  Inv'
<1> USE DEF user, Gating, Ours, OursAre
<1>0. /\ cmd \in Commands /\ apps \in Seq(Applications) /\ Len(apps) <= MaxApps
      /\ Len(apps) \in Nat /\ DOMAIN apps = 1 .. Len(apps) /\ DOMAIN apps' = 1 .. Len(apps)
      /\ cmd.app \in 1 .. Len(apps) /\ Len(apps') = Len(apps)
  BY LenProperties DEF Inv, TypeOK, Records
<1>1. TypeOK'
  <2>1. cmd'.app <= Len(apps)
    BY <1>0, IdleIs DEF To, SameJob
  <2> QED BY <1>0, <2>1 DEF Inv, TypeOK, Records
<1>2. cmd.op = "apply_v2" /\ cmd.pc \in {"preflight", "start"} => cmd.app = Len(apps)
  BY DEF Inv, WhoseStep, Observing
<1>3. cmd.pc \in {"preflight", "start"} => OursAre("before") /\ cmd.op = "apply_v2"
  BY <1>0, CommandFields DEF Inv, Progress, WhoseStep, Ops, Observing, Writing, Recovering,
     Discarding, Settling
<1>4. EffectIsAnnounced'
  <2>1. apps' # <<>>
    BY <1>0
  <2>2. CASE cmd.app = Len(apps)
    BY <1>0, <1>3, <2>1, <2>2 DEF Inv, EffectIsAnnounced, Latest, Records, Bad
  <2>3. CASE cmd.app # Len(apps)
    <3>1. apps'[Len(apps')] = apps[Len(apps)] /\ apps # <<>>
      BY <1>0, <2>3 DEF Records
    <3> QED BY <2>1, <3>1 DEF Inv, EffectIsAnnounced, Latest
  <2> QED BY <2>2, <2>3
<1>5. legacy' => apps' = <<>>
  BY <1>0 DEF Inv, WhoseStep
<1>6. CASE cmd' = Idle
  BY <1>0, <1>1, <1>4, <1>5, <1>6, IdleIs DEF Inv, WhoseStep, Observations, Progress, Checked,
     RecoversAnnounced, Discarding
<1>7. CASE cmd.pc = "preflight" /\ To("start")
  <2>1. /\ cmd'.pc = "start" /\ cmd'.op = "apply_v2" /\ cmd'.app = Len(apps')
        /\ cmd'.app \in DOMAIN apps' /\ cmd'.at # 0
    BY <1>0, <1>2, <1>3, <1>7 DEF To, SameJob
  <2>2. WhoseStep'
    BY <1>5, <2>1 DEF Inv, WhoseStep, Observing
  <2> QED BY <1>1, <1>3, <1>4, <1>7, <2>1, <2>2 DEF Inv, Observations, Progress, Checked,
     RecoversAnnounced, Discarding
<1>8. CASE cmd.pc = "start" /\ To("prepare") /\ s = "applying"
  <2>1. /\ cmd'.pc = "prepare" /\ cmd'.op = "apply_v2" /\ cmd'.app = Len(apps')
        /\ cmd'.app \in DOMAIN apps' /\ cmd'.at # 0 /\ apps'[cmd'.app].state = "applying"
    BY <1>0, <1>2, <1>3, <1>8 DEF To, SameJob, Records
  <2>2. WhoseStep'
    BY <1>5, <2>1 DEF Inv, WhoseStep, Observing, Writing
  <2> QED BY <1>1, <1>3, <1>4, <1>8, <2>1, <2>2 DEF Inv, Observations, Progress, Checked,
     RecoversAnnounced, Discarding
<1> QED BY <1>6, <1>7, <1>8

LEMMA RequestStep ==
    ASSUME Inv, cmd' \in Commands, cmd.pc = "observed", cmd.op = "apply_v2", AllBefore,
           apps' = Append(apps, [state |-> "requested", permit |-> FALSE, receipts |-> FALSE]),
           cmd' = [cmd EXCEPT !.pc = "pre_gate", !.app = Len(apps) + 1],
           UNCHANGED <<files, legacy, status, worktree, user>>
    PROVE  Inv'
<1> DEFINE r == [state |-> "requested", permit |-> FALSE, receipts |-> FALSE]
<1> USE DEF user, Gating, Ours, OursAre
<1>0. /\ cmd \in Commands /\ apps \in Seq(Applications) /\ Len(apps) \in Nat
      /\ Len(apps) < MaxApps
  BY LenProperties DEF Inv, TypeOK, WhoseStep, Observing
<1>1. r \in Applications
  BY DEF Applications, AppStates
<1>2. /\ apps' \in Seq(Applications) /\ Len(apps') = Len(apps) + 1 /\ apps' # <<>>
      /\ DOMAIN apps' = 1 .. Len(apps) + 1
  <2>1. apps' = Append(apps, r)
    OBVIOUS
  <2> HIDE DEF r
  <2>2. apps' \in Seq(Applications) /\ Len(apps') = Len(apps) + 1 /\ apps' # <<>>
    BY <1>0, <1>1, <2>1, AppendProperties
  <2> QED BY <2>2, LenProperties
<1>3. cmd'.pc = "pre_gate" /\ cmd'.op = "apply_v2" /\ cmd'.at = cmd.at /\ cmd'.app = Len(apps')
  BY <1>0, <1>2 DEF Commands
<1>4. TypeOK'
  <2>1. Len(apps') <= MaxApps /\ cmd'.app <= Len(apps')
    BY <1>0, <1>2, <1>3, PatchAssumption
  <2> QED BY <1>2, <2>1 DEF Inv, TypeOK
<1>5. \A i \in Ours : files[i] = "before"
  BY DEF Inv, Observations, AllBefore
<1>6. EffectIsAnnounced'
  BY <1>5 DEF EffectIsAnnounced
<1>7. ~legacy /\ cmd.at # 0
  <2>1. cmd.at # 0
    BY DEF Inv, WhoseStep
  <2>2. ~legacy
    BY DEF Inv, WhoseStep
  <2> QED BY <2>1, <2>2
<1>8. WhoseStep'
  <2>1. cmd'.app \in DOMAIN apps'
    BY <1>0, <1>2, <1>3
  <2> QED BY <1>2, <1>3, <1>7, <2>1 DEF WhoseStep, Observing
<1> QED BY <1>3, <1>4, <1>5, <1>6, <1>8 DEF Inv, Observations, Progress, Checked,
     RecoversAnnounced, Discarding
-----------------------------------------------------------------------------
(* Steps that write a file *)

LEMMA WriteStep ==
    ASSUME Inv, cmd' \in Commands, UNCHANGED <<legacy, status, apps, worktree, user>>, SameJob,
           \/ /\ cmd.pc = "replace" /\ Replaced("after")
              /\ \/ cmd.at = N /\ cmd'.pc = "applied" /\ cmd'.at = 1
                 \/ cmd.at # N /\ cmd'.pc = "check" /\ cmd'.at = cmd.at + 1
           \/ /\ cmd.pc = "undo_replace" /\ Replaced("before") /\ cmd'.pc = "undo_check"
              /\ cmd'.at = cmd.at - 1 /\ cmd'.whole = cmd.whole /\ cmd'.then = cmd.then
           \/ /\ cmd.pc = "restore" /\ Replaced("before")
              /\ \/ cmd.at = N /\ cmd'.pc = "recovered" /\ cmd'.at = 1
                 \/ cmd.at # N /\ cmd'.pc = "restore" /\ cmd'.at = cmd.at + 1
           \/ /\ cmd.pc = "redo_replace" /\ Replaced("after") /\ cmd'.pc = "redo_check"
              /\ cmd'.at = cmd.at - 1
    PROVE  Inv'
<1> USE PatchAssumption DEF user, Replaced, SameJob, Files, Ours, OursAre
<1>0. /\ cmd \in Commands /\ files \in [Files -> Contents] /\ cmd.at \in 0 .. N /\ cmd.at # 0
      /\ cmd.at \in Files /\ cmd.op \in Ops
  BY CommandFields DEF Inv, TypeOK, WhoseStep
<1>1. /\ files' \in [Files -> Contents]
      /\ \A i \in Files : i # cmd.at => files'[i] = files[i]
      /\ cmd.pc \in {"replace", "redo_replace"} => files'[cmd.at] = "after"
      /\ cmd.pc \in {"undo_replace", "restore"} => files'[cmd.at] = "before"
  BY <1>0 DEF Contents
<1>2. TypeOK'
  BY <1>0, <1>1 DEF Inv, TypeOK
<1>3. EffectIsAnnounced'
  <2>1. CASE cmd.op = "apply_v1"
    BY <2>1 DEF Inv, WhoseStep, EffectIsAnnounced
  <2>2. CASE cmd.op = "apply_v2"
    BY <2>2 DEF Inv, WhoseStep, EffectIsAnnounced, Latest, Observing, Gating
  <2>3. CASE cmd.op = "recover"
    <3>1. Ours # {} => Announced
      BY <2>3 DEF Inv, WhoseStep, RecoversAnnounced, Observing, Recovering
    <3> QED BY <3>1 DEF Announced, EffectIsAnnounced, Latest
  <2>4. CASE cmd.op \in {"discard", "none"}
    BY <2>4 DEF Inv, WhoseStep, Observing, Discarding
  <2> QED BY <1>0, <2>1, <2>2, <2>3, <2>4 DEF Ops
<1>4. WhoseStep'
  BY <1>0 DEF Inv, WhoseStep, Observing, Gating, Writing, Settling, Recovering, Discarding
<1>5. Observations' /\ Checked'
  BY DEF Observations, Checked
<1>6. Progress'
  BY <1>0, <1>1 DEF Inv, Progress, Gating, Discarding
<1>7. RecoversAnnounced'
  BY DEF Inv, RecoversAnnounced, Announced, Latest
<1> QED BY <1>2, <1>3, <1>4, <1>5, <1>6, <1>7 DEF Inv

LEMMA EditStep ==
    ASSUME Inv, cmd' \in Commands, NEW i \in Files, NEW c \in Contents, UserEdits(i, c)
    PROVE  Inv'
<1> USE DEF durable, Ours, OursAre
<1>0. /\ cmd \in Commands /\ files \in [Files -> Contents] /\ touched \in SUBSET Files
      /\ UNCHANGED <<legacy, apps>> /\ edits \in 0 .. MaxEdits /\ edits < MaxEdits
  BY DEF Inv, TypeOK, UserEdits
<1>1. /\ files' \in [Files -> Contents] /\ touched' = touched \cup {i}
      /\ \A j \in Files : j # i => files'[j] = files[j]
  BY <1>0 DEF UserEdits
<1>2. Ours' \subseteq Ours /\ \A j \in Ours' : files'[j] = files[j]
  BY <1>1
<1>3. /\ cmd'.op = cmd.op /\ cmd'.app = cmd.app /\ cmd'.pc = cmd.pc /\ cmd'.at = cmd.at
      /\ cmd'.seen = cmd.seen /\ cmd'.whole = cmd.whole /\ cmd'.then = cmd.then
      /\ cmd.pc # "idle" => cmd'.late = cmd.late \cup {i}
  BY <1>0, IdleIs DEF UserEdits, Commands
<1>4. TypeOK'
  <2>1. edits' \in 0 .. MaxEdits
    BY <1>0, PatchAssumption DEF UserEdits
  <2> QED BY <1>0, <1>1, <1>3, <2>1 DEF Inv, TypeOK, UserEdits
<1>5. EffectIsAnnounced'
  BY <1>0, <1>2 DEF Inv, EffectIsAnnounced, Latest
<1>6. WhoseStep'
  BY <1>0, <1>3 DEF Inv, WhoseStep
<1>7. Observations'
  BY <1>2, <1>3 DEF Inv, Observations
<1>8. Progress'
  BY <1>2, <1>3 DEF Inv, Progress
<1>9. Checked'
  BY <1>0, <1>1, <1>3, CommandFields, PatchAssumption DEF Inv, WhoseStep, Checked, Files
<1>10. RecoversAnnounced'
  BY <1>0, <1>2, <1>3 DEF Inv, RecoversAnnounced, Announced, Latest
<1> QED BY <1>4, <1>5, <1>6, <1>7, <1>8, <1>9, <1>10 DEF Inv
-----------------------------------------------------------------------------
(* The inductive step *)

LEMMA StutterStep ==
    ASSUME Inv, UNCHANGED <<files, legacy, status, apps, worktree, cmd, edits, touched>>
    PROVE  Inv'
<1> USE DEF Ours, OursAre
<1>1. TypeOK' /\ EffectIsAnnounced'
  BY DEF Inv, TypeOK, EffectIsAnnounced, Latest
<1>2. WhoseStep'
  BY DEF Inv, WhoseStep
<1>3. Observations' /\ Checked'
  BY DEF Inv, Observations, Checked
<1>4. Progress'
  BY DEF Inv, Progress
<1>5. RecoversAnnounced'
  BY DEF Inv, RecoversAnnounced, Announced, Latest
<1> QED BY <1>1, <1>2, <1>3, <1>4, <1>5 DEF Inv

LEMMA TypeInit == Init => TypeOK
BY IdleIs, PatchAssumption, EmptySeq DEF Init, TypeOK, Contents, Statuses, Worktrees

LEMMA InvInit == Init => Inv
<1> SUFFICES ASSUME Init PROVE Inv
  OBVIOUS
<1>1. cmd.pc = "idle" /\ cmd.op = "none" /\ cmd.at = 1 /\ TypeOK
  BY IdleIs, TypeInit DEF Init
<1>2. EffectIsAnnounced
  BY DEF Init, EffectIsAnnounced, Ours
<1> QED BY <1>1, <1>2 DEF Init, Inv, WhoseStep, Observations, Progress, Checked,
        RecoversAnnounced, Gating, Discarding, Observing

LEMMA InvStep == Inv /\ [Next]_vars => Inv'
<1> SUFFICES ASSUME Inv, [Next]_vars PROVE Inv'
  OBVIOUS
<1>0. /\ cmd \in Commands /\ cmd' \in Commands /\ files \in [Files -> Contents]
      /\ status \in Statuses /\ worktree \in Worktrees /\ apps \in Seq(Applications)
  BY CommandStep DEF Inv, TypeOK
<1>a. /\ N \in 0 .. N
      /\ cmd.at # N => cmd.at + 1 \in 0 .. N
      /\ cmd.at # 0 => cmd.at - 1 \in 0 .. N
  BY <1>0, AtBounds
<1>b. cmd.pc \notin {"undo_check", "redo_check"} => cmd.at # 0
  BY DEF Inv, WhoseStep
<1>c. cmd.op # "none" /\ cmd.op # "apply_v1" /\ cmd.pc \in Gating \cup Settling \cup Recovering
         \cup Discarding => cmd.app \in DOMAIN apps
  BY <1>0, CommandFields DEF Inv, WhoseStep, Ops, Gating, Settling, Recovering, Discarding,
     Observing
<1>d. cmd.pc \in Gating \cup Settling \cup Recovering \cup Discarding =>
         cmd.op # "none" /\ cmd.op # "apply_v1"
  BY DEF Inv, WhoseStep, Gating, Settling, Recovering, Discarding, Writing
<1> USE <1>0, <1>a, <1>b, CommandFields, StepNames, IdleIs, GotoDoes,
        RollBackFromDoes, NextUndoDoes, BlockedDoes, PcDoes, PcThenDoes
    DEF Finish, SaveStatus, durable, user, Statuses, Worktrees, To
<1>1. CASE ApplyV1
  <2>1. Quiet
    BY <1>1 DEF ApplyV1, Quiet, Begin
  <2>2. cmd'.op = "apply_v1" /\ cmd'.pc = "prepare" /\ cmd'.at = 1 /\ cmd'.app = 0
    BY <1>1 DEF ApplyV1, Begin, Idle
  <2>3. Starts
    BY <1>1, <2>2 DEF ApplyV1, Starts
  <2> QED BY <2>1, <2>3, QuietStep DEF Moves
<1>2. CASE ApplyV2
  <2>1. Quiet
    BY <1>2 DEF ApplyV2, Quiet, Begin
  <2>2. cmd'.op = "apply_v2" /\ cmd'.pc = "observe" /\ cmd'.at = 1 /\ cmd'.app = 0
    BY <1>2 DEF ApplyV2, Begin, Idle
  <2>3. Starts
    BY <1>2, <2>2 DEF ApplyV2, Starts
  <2> QED BY <2>1, <2>3, QuietStep DEF Moves
<1>3. CASE Observe("observe", "observed")
  <2>1. Quiet
    BY <1>3 DEF Observe, Quiet
  <2>2. cmd.pc = "observe" /\ cmd.at # 0
    BY <1>3 DEF Observe
  <2>a. /\ SameJob /\ cmd'.seen = cmd.seen \cup {files[cmd.at]}
        /\ \/ cmd'.pc = cmd.pc /\ cmd.at # N /\ cmd'.at = cmd.at + 1
           \/ /\ cmd'.pc = "observed" /\ cmd'.at = cmd.at
              /\ cmd.at = N \/ files[cmd.at] = "edited"
    BY <1>3, <2>2, ObserveDoes
  <2>3. Observes
    BY <2>2, <2>a DEF Observes
  <2> QED BY <2>1, <2>3, QuietStep DEF Moves
<1>4. CASE Observed
  <2>1. CASE UNCHANGED apps /\ ~(cmd.op = "apply_v2" /\ AllBefore)
    <3>1. Quiet
      BY <1>4, <2>1 DEF Observed, Quiet
    <3>2. Moves
      BY <1>4, <2>1 DEF Observed, Moves, Prepares, Settles
    <3> QED BY <3>1, <3>2, QuietStep
  <2>2. CASE cmd.op = "apply_v2" /\ AllBefore
    BY <1>4, <2>2, RequestStep DEF Observed
  <2> QED BY <1>4, <2>1, <2>2 DEF Observed
<1>5. CASE PreGate
  <2>1. Quiet
    BY <1>5 DEF PreGate, Quiet
  <2>2. Moves
    BY <1>5 DEF PreGate, Moves, Prepares
  <2> QED BY <2>1, <2>2, QuietStep
<1>6. CASE Preflight
  <2>1. cmd.app \in DOMAIN apps /\ UNCHANGED <<files, legacy, status, worktree, user>>
    BY <1>c, <1>d, <1>6 DEF Preflight, Gating, Settling, Recovering, Discarding
  <2>2. Records("preflighted")
    BY <1>6, <2>1, RecordsDoes DEF Preflight, AppStates
  <2> QED BY <1>6, <2>1, <2>2, RecordStep DEF Preflight
<1>7. CASE StartApplying
  <2>1. cmd.app \in DOMAIN apps /\ UNCHANGED <<files, legacy, status, worktree, user>>
    BY <1>c, <1>d, <1>7 DEF StartApplying, Gating, Settling, Recovering, Discarding
  <2>2. Records("applying")
    BY <1>7, <2>1, RecordsDoes DEF StartApplying, Persist, AppStates
  <2> QED BY <1>7, <2>1, <2>2, RecordStep DEF StartApplying
<1>8. CASE Prepare
  <2>0. cmd.op \in {"apply_v1", "apply_v2"}
    BY <1>8 DEF Prepare, Inv, WhoseStep, Ops, Observing, Recovering, Discarding
  <2>1. Quiet
    BY <1>8 DEF Prepare, Quiet
  <2>2. Moves
    BY <1>8, <2>0, TurnNextDoes DEF Prepare, Moves, Prepares
  <2> QED BY <2>1, <2>2, QuietStep
<1>9. CASE Check
  <2>1. Quiet
    BY <1>9 DEF Check, Quiet, GiveUp, RollBackFrom
  <2>2. Moves
    BY <1>9 DEF Check, Moves, Prepares, Undoes, Leads, GiveUp
  <2> QED BY <2>1, <2>2, QuietStep
<1>10. CASE Replace
  <2>1. CASE Replaced("after") /\ IF cmd.at = N THEN Goto("applied") ELSE TurnTo("check", cmd.at + 1)
    <3>1. UNCHANGED <<legacy, status, apps, worktree, user>> /\ cmd.pc = "replace" /\ SameJob
      BY <1>10, <2>1, TurnNextDoes DEF Replace
    <3>2. \/ cmd.at = N /\ cmd'.pc = "applied" /\ cmd'.at = 1
          \/ cmd.at # N /\ cmd'.pc = "check" /\ cmd'.at = cmd.at + 1
      BY <2>1, TurnNextDoes
    <3> QED BY <2>1, <3>1, <3>2, WriteStep
  <2>2. CASE GiveUp /\ UNCHANGED files
    <3>1. Quiet
      BY <1>10, <2>2 DEF Replace, Quiet
    <3>2. Moves
      BY <1>10, <2>2 DEF Replace, Moves, Undoes, Leads, GiveUp
    <3> QED BY <3>1, <3>2, QuietStep
  <2> QED BY <1>10, <2>1, <2>2 DEF Replace
<1>11. CASE UndoCheck
  <2>1. Quiet
    BY <1>11 DEF UndoCheck, Quiet
  <2>2. Moves
    BY <1>11 DEF UndoCheck, Moves, Undoes
  <2> QED BY <2>1, <2>2, QuietStep
<1>12. CASE UndoReplace
  <2>0. cmd.at # 0 /\ cmd.pc = "undo_replace"
    BY <1>12 DEF UndoReplace
  <2>1. CASE Replaced("before") /\ NextUndo(TRUE)
    <3>1. cmd'.pc = "undo_check" /\ cmd'.at = cmd.at - 1 /\ cmd'.then = cmd.then /\ SameJob
      BY <2>0, <2>1
    <3>2. cmd'.whole = cmd.whole
      BY <2>0, <2>1, NextUndoDoes, CommandFields DEF Commands, NextUndo
    <3>3. UNCHANGED <<legacy, status, apps, worktree, user>>
      BY <1>12 DEF UndoReplace
    <3> QED BY <2>0, <2>1, <3>1, <3>2, <3>3, WriteStep
  <2>2. CASE UNCHANGED files /\ NextUndo(FALSE)
    <3>1. Quiet
      BY <1>12, <2>2 DEF UndoReplace, Quiet
    <3>2. Moves
      BY <2>0, <2>2 DEF Moves, Undoes
    <3> QED BY <3>1, <3>2, QuietStep
  <2> QED BY <1>12, <2>1, <2>2 DEF UndoReplace
<1>13. CASE FailedV1
  <2>1. Quiet
    BY <1>13 DEF FailedV1, Quiet
  <2>2. Moves
    BY <1>13 DEF FailedV1, Moves
  <2> QED BY <2>1, <2>2, QuietStep
<1>14. CASE PostV1
  <2>1. Quiet
    BY <1>14 DEF PostV1, Quiet
  <2>2. Moves
    BY <1>14 DEF PostV1, Moves, Undoes, Leads
  <2> QED BY <2>1, <2>2, QuietStep
<1>15. CASE RolledBackV1
  <2>1. Quiet
    BY <1>15 DEF RolledBackV1, Quiet
  <2>2. Moves
    BY <1>15 DEF RolledBackV1, Moves
  <2> QED BY <2>1, <2>2, QuietStep
<1>16. CASE Observe("settle", "settled")
  <2>1. Quiet
    BY <1>16 DEF Observe, Quiet
  <2>2. cmd.pc = "settle" /\ cmd.at # 0
    BY <1>16 DEF Observe
  <2>a. /\ SameJob /\ cmd'.seen = cmd.seen \cup {files[cmd.at]}
        /\ \/ cmd'.pc = cmd.pc /\ cmd.at # N /\ cmd'.at = cmd.at + 1
           \/ /\ cmd'.pc = "settled" /\ cmd'.at = cmd.at
              /\ cmd.at = N \/ files[cmd.at] = "edited"
    BY <1>16, <2>2, ObserveDoes
  <2>3. Observes
    BY <2>2, <2>a DEF Observes
  <2> QED BY <2>1, <2>3, QuietStep DEF Moves
<1>17. CASE Settled
  <2>1. Quiet
    BY <1>17 DEF Settled, Quiet
  <2>2. Moves
    BY <1>17 DEF Settled, Moves, Settles
  <2> QED BY <2>1, <2>2, QuietStep
<1>18. CASE RecordFailure
  <2>1. cmd.app \in DOMAIN apps /\ UNCHANGED <<files, legacy, status, worktree, user>>
    BY <1>c, <1>d, <1>18 DEF RecordFailure, Gating, Settling, Recovering, Discarding
  <2> DEFINE s == IF AllBefore THEN "reverted" ELSE IF AllAfter THEN "recovery_required"
                  ELSE IF Mixed THEN "partially_applied" ELSE "outcome_unknown"
  <2>2. s \in AppStates /\ (s \in Bad => AllBefore)
    BY DEF AppStates, Bad
  <2>3. Records(s)
    BY <1>18, <2>1, <2>2, RecordsDoes DEF RecordFailure
  <2>4. AllBefore => OursAre("before")
    BY <1>18 DEF RecordFailure, Inv, Observations, AllBefore, OursAre
  <2> QED BY <1>18, <2>1, <2>2, <2>3, <2>4, RecordStep DEF RecordFailure
<1>19. CASE Applied
  <2>1. Quiet
    BY <1>19 DEF Applied, Quiet
  <2>2. Moves
    BY <1>19 DEF Applied, Moves, Settles
  <2> QED BY <2>1, <2>2, QuietStep
<1>20. CASE Observe("verify", "verified")
  <2>1. Quiet
    BY <1>20 DEF Observe, Quiet
  <2>2. cmd.pc = "verify" /\ cmd.at # 0
    BY <1>20 DEF Observe
  <2>a. /\ SameJob /\ cmd'.seen = cmd.seen \cup {files[cmd.at]}
        /\ \/ cmd'.pc = cmd.pc /\ cmd.at # N /\ cmd'.at = cmd.at + 1
           \/ /\ cmd'.pc = "verified" /\ cmd'.at = cmd.at
              /\ cmd.at = N \/ files[cmd.at] = "edited"
    BY <1>20, <2>2, ObserveDoes
  <2>3. Observes
    BY <2>2, <2>a DEF Observes
  <2> QED BY <2>1, <2>3, QuietStep DEF Moves
<1>21. CASE Verified
  <2>1. Quiet
    BY <1>21 DEF Verified, Quiet
  <2>2. Moves
    BY <1>21 DEF Verified, Moves, Settles
  <2> QED BY <2>1, <2>2, QuietStep
<1>22. CASE PostV2
  <2>1. Quiet
    BY <1>22 DEF PostV2, Quiet
  <2>2. Moves
    BY <1>22 DEF PostV2, Moves, Settles
  <2> QED BY <2>1, <2>2, QuietStep
<1>23. CASE FinishV2
  <2>1. Quiet
    BY <1>23 DEF FinishV2, Quiet
  <2>2. Moves
    BY <1>23 DEF FinishV2, Moves, Settles
  <2> QED BY <2>1, <2>2, QuietStep
<1>24. CASE Announce
  <2>1. ASSUME NEW s \in {"applied", "awaiting_human_review"},
               apps' = [apps EXCEPT ![cmd.app].state = s, ![cmd.app].receipts = TRUE], Finish
        PROVE  Inv'
    <3>1. cmd.app \in DOMAIN apps /\ UNCHANGED <<files, legacy, status, worktree, user>>
      BY <1>c, <1>d, <1>24 DEF Announce, Settling
    <3>2. Records(s) /\ s \notin Bad
      BY <2>1, <3>1, RecordsDoes DEF AppStates, Bad
    <3> QED BY <2>1, <3>1, <3>2, RecordStep
  <2>2. CASE Goto("recover_prepare") /\ UNCHANGED apps
    <3>1. Quiet
      BY <1>24, <2>2 DEF Announce, Quiet
    <3>2. Moves
      BY <1>24, <2>2 DEF Announce, Moves, Settles
    <3> QED BY <3>1, <3>2, QuietStep
  <2> QED BY <1>24, <2>1, <2>2 DEF Announce
<1>25. CASE RecoverPrepare
  <2>1. Quiet
    BY <1>25 DEF RecoverPrepare, Quiet
  <2>2. Moves
    BY <1>25, TurnNextDoes DEF RecoverPrepare, Moves, Recovers
  <2> QED BY <2>1, <2>2, QuietStep
<1>26. CASE Restore
  <2>1. CASE Replaced("before") /\ IF cmd.at = N THEN Goto("recovered") ELSE TurnTo("restore", cmd.at + 1)
    <3>1. UNCHANGED <<legacy, status, apps, worktree, user>> /\ cmd.pc = "restore" /\ SameJob
      BY <1>26, <2>1, TurnNextDoes DEF Restore
    <3>2. \/ cmd.at = N /\ cmd'.pc = "recovered" /\ cmd'.at = 1
          \/ cmd.at # N /\ cmd'.pc = "restore" /\ cmd'.at = cmd.at + 1
      BY <2>1, TurnNextDoes
    <3> QED BY <2>1, <3>1, <3>2, WriteStep
  <2>2. CASE TurnTo("redo_check", cmd.at - 1) /\ UNCHANGED files
    <3>1. Quiet
      BY <1>26, <2>2 DEF Restore, Quiet
    <3>2. Moves
      BY <1>26, <2>2, TurnBackDoes DEF Restore, Moves, Recovers
    <3> QED BY <3>1, <3>2, QuietStep
  <2> QED BY <1>26, <2>1, <2>2 DEF Restore
<1>27. CASE RedoCheck
  <2>1. Quiet
    BY <1>27 DEF RedoCheck, Quiet
  <2>2. Moves
    BY <1>27 DEF RedoCheck, Moves, Recovers
  <2> QED BY <2>1, <2>2, QuietStep
<1>28. CASE RedoReplace
  <2>1. CASE Replaced("after") /\ TurnTo("redo_check", cmd.at - 1)
    <3>1. UNCHANGED <<legacy, status, apps, worktree, user>> /\ cmd.pc = "redo_replace"
      BY <1>28 DEF RedoReplace
    <3>2. SameJob /\ cmd'.pc = "redo_check" /\ cmd'.at = cmd.at - 1
      BY <2>1, <3>1, TurnBackDoes
    <3> QED BY <2>1, <3>1, <3>2, WriteStep
  <2>2. CASE UNCHANGED files /\ Blocked(FALSE)
    <3>1. Quiet
      BY <1>28, <2>2 DEF RedoReplace, Quiet
    <3>2. Moves
      BY <1>28, <2>2 DEF RedoReplace, Moves, Recovers
    <3> QED BY <3>1, <3>2, QuietStep
  <2> QED BY <1>28, <2>1, <2>2 DEF RedoReplace
<1>29. CASE Recovered
  <2>1. Quiet
    BY <1>29 DEF Recovered, Quiet
  <2>2. /\ SameJob /\ cmd'.pc = "record_recovery" /\ cmd'.at = cmd.at
        /\ cmd'.then = "recovered"
    BY <1>29, PcThenDoes DEF Recovered
  <2> QED BY <1>29, <2>1, <2>2, QuietStep DEF Recovered, Moves, Recovers
<1>30. CASE RecoveryBlocked
  <2>1. Quiet
    BY <1>30 DEF RecoveryBlocked, Quiet
  <2>2. CASE cmd' = Idle
    BY <2>1, <2>2, QuietStep DEF Moves
  <2>3. CASE cmd' = [cmd EXCEPT !.pc = "record_recovery", !.then = "blocked"]
    <3>1. /\ SameJob /\ cmd'.pc = "record_recovery" /\ cmd'.at = cmd.at
          /\ cmd'.then = "blocked"
      BY <2>3, PcThenDoes
    <3> QED BY <1>30, <2>1, <3>1, QuietStep DEF RecoveryBlocked, Moves, Recovers
  <2> QED BY <1>30, <2>2, <2>3 DEF RecoveryBlocked
<1>31. CASE RecordRecovery
  <2>1. cmd.app \in DOMAIN apps /\ UNCHANGED <<files, legacy, status, worktree, user>>
    BY <1>c, <1>d, <1>31 DEF RecordRecovery, Gating, Settling, Recovering, Discarding
  <2> DEFINE s == IF cmd.then = "recovered" THEN "reverted" ELSE "recovery_blocked"
  <2>2. s \in AppStates /\ (s \in Bad => cmd.then = "recovered")
    BY DEF AppStates, Bad
  <2>3. Records(s)
    BY <1>31, <2>1, <2>2, RecordsDoes DEF RecordRecovery
  <2>4. cmd.then = "recovered" => OursAre("before")
    BY <1>31 DEF RecordRecovery, Inv, Progress
  <2> QED BY <1>31, <2>1, <2>2, <2>3, <2>4, RecordStep DEF RecordRecovery
<1>32. CASE DiscardWorktree
  <2>1. Quiet
    BY <1>32 DEF DiscardWorktree, Quiet
  <2>2. Moves
    BY <1>32 DEF DiscardWorktree, Moves, Prepares
  <2> QED BY <2>1, <2>2, QuietStep
<1>33. CASE RecordDiscard
  <2>1. cmd.app \in DOMAIN apps /\ UNCHANGED <<files, legacy, status, worktree, user>>
    BY <1>c, <1>d, <1>33 DEF RecordDiscard, Gating, Settling, Recovering, Discarding
  <2> DEFINE s == IF apps[cmd.app].receipts THEN "reverted" ELSE "isolated_discarded"
  <2>2. s \in AppStates
    BY DEF AppStates
  <2>3. Records(s)
    BY <1>33, <2>1, <2>2, RecordsDoes DEF RecordDiscard, Persist
  <2>4. OursAre("before")
    BY <1>33 DEF RecordDiscard, Inv, Progress, Discarding
  <2> QED BY <1>33, <2>1, <2>3, <2>4, RecordStep DEF RecordDiscard
<1>34. CASE Stop
  <2>1. Quiet
    BY <1>34 DEF Stop, Quiet
  <2>2. Moves
    BY <1>34 DEF Stop, Moves
  <2> QED BY <2>1, <2>2, QuietStep
<1>35. ASSUME NEW a \in DOMAIN apps, RecoverV2(a) \/ Discard(a) PROVE Inv'
  <2>1. Quiet
    BY <1>35 DEF RecoverV2, Discard, Begin, Quiet
  <2>2. /\ cmd'.op \in {"recover", "discard"} /\ cmd'.pc = "observe" /\ cmd'.at = 1
        /\ cmd'.app = a
    <3>1. CASE RecoverV2(a)
      BY <3>1 DEF RecoverV2, Begin, Idle
    <3>2. CASE Discard(a)
      BY <3>2 DEF Discard, Begin, Idle
    <3> QED BY <1>35, <3>1, <3>2
  <2>3. Starts
    BY <2>2 DEF Starts
  <2> QED BY <2>1, <2>3, QuietStep DEF Moves
<1>36. ASSUME NEW i \in Files, NEW c \in Contents, UserEdits(i, c) PROVE Inv'
  BY <1>36, EditStep
<1>37. CASE UNCHANGED vars
  BY <1>37, StutterStep DEF vars
<1> QED
  BY <1>1, <1>2, <1>3, <1>4, <1>5, <1>6, <1>7, <1>8, <1>9, <1>10, <1>11, <1>12, <1>13, <1>14, 
     <1>15, <1>16, <1>17, <1>18, <1>19, <1>20, <1>21, <1>22, <1>23, <1>24, <1>25, <1>26, 
     <1>27, <1>28, <1>29, <1>30, <1>31, <1>32, <1>33, <1>34, <1>35, <1>36, <1>37 DEF Next, ApplyStep, RecoverStep
-----------------------------------------------------------------------------
(* Theorems *)

LEMMA InvHolds == Spec => []Inv
BY InvInit, InvStep, PTL DEF Spec

\* The files, the PatchSet, the applications and the command that works on them keep
\* their types: no step refers to a file or an application that does not exist.
THEOREM PatchTypeCorrect == Spec => []TypeOK
<1>1. Inv => TypeOK
  BY DEF Inv
<1> QED BY <1>1, InvHolds, PTL

\* Wherever a command stops, a patch that is on a file of an application has been
\* announced by a durable record before, and is not recorded as taken back.
THEOREM PatchEffectIsAnnounced == Spec => []EffectIsAnnounced
<1>1. Inv => EffectIsAnnounced
  BY DEF Inv
<1> QED BY <1>1, InvHolds, PTL

\* An application is called reverted or applied only if that is what the files hold.
LEMMA ApplicationVerdict ==
    ASSUME Inv, [Next]_vars, NEW a \in DOMAIN apps, apps'[a].state # apps[a].state
    PROVE  /\ apps'[a].state = "reverted" => OursAre("before")
           /\ apps'[a].state \in {"applied", "awaiting_human_review"} => OursAre("after")
<1> DEFINE Told == /\ apps'[a].state = "reverted" => OursAre("before")
                   /\ apps'[a].state \in {"applied", "awaiting_human_review"} => OursAre("after")
<1> SUFFICES Told
  OBVIOUS
<1>0. apps \in Seq(Applications) /\ a \in 1 .. Len(apps)
  BY DEF Inv, TypeOK
<1>a. ASSUME NEW s \in AppStates,
             \/ apps' = [apps EXCEPT ![cmd.app].state = s]
             \/ apps' = [apps EXCEPT ![cmd.app].state = s, ![cmd.app].permit = TRUE]
             \/ apps' = [apps EXCEPT ![cmd.app].state = s, ![cmd.app].receipts = TRUE]
      PROVE  apps'[a].state = s
  <2>1. CASE cmd.app \in DOMAIN apps
    <3>1. Records(s)
      BY <1>0, <1>a, <2>1, RecordsDoes
    <3> QED BY <1>0, <3>1 DEF Records
  <2>2. CASE cmd.app \notin DOMAIN apps
    BY <1>0, <1>a, <2>2
  <2> QED BY <2>1, <2>2
<1>1. ASSUME Observed PROVE Told
  <2>1. CASE UNCHANGED apps
    BY <2>1
  <2>2. CASE apps' = Append(apps, [state |-> "requested", permit |-> FALSE, receipts |-> FALSE])
    <3> DEFINE r == [state |-> "requested", permit |-> FALSE, receipts |-> FALSE]
    <3>1. r \in Applications
      BY DEF Applications, AppStates
    <3> HIDE DEF r
    <3>2. Append(apps, r)[a] = apps[a]
      BY <1>0, <3>1, AppendProperties
    <3> QED BY <2>2, <3>2 DEF r
  <2> QED BY <1>1, <2>1, <2>2 DEF Observed
<1>2. ASSUME Preflight PROVE Told
  <2>1. apps'[a].state = "preflighted"
    BY <1>2, <1>a DEF Preflight, AppStates
  <2> QED BY <2>1
<1>3. ASSUME StartApplying PROVE Told
  <2>1. apps'[a].state = "applying"
    BY <1>3, <1>a DEF StartApplying, Persist, AppStates
  <2> QED BY <2>1
<1>4. ASSUME RecordFailure PROVE Told
  <2> DEFINE s == IF AllBefore THEN "reverted" ELSE IF AllAfter THEN "recovery_required"
                  ELSE IF Mixed THEN "partially_applied" ELSE "outcome_unknown"
  <2>1. s \in AppStates
    BY DEF AppStates
  <2>2. apps'[a].state = s
    BY <1>4, <1>a, <2>1 DEF RecordFailure
  <2>3. AllBefore => OursAre("before")
    BY <1>4 DEF RecordFailure, Inv, Observations, AllBefore, OursAre
  <2> QED BY <2>2, <2>3
<1>5. ASSUME Announce PROVE Told
  <2>1. OursAre("after")
    BY <1>5 DEF Announce, Inv, Progress
  <2>2. CASE UNCHANGED apps
    BY <2>2
  <2>3. ASSUME NEW s \in {"applied", "awaiting_human_review"},
               apps' = [apps EXCEPT ![cmd.app].state = s, ![cmd.app].receipts = TRUE]
        PROVE  Told
    <3>1. apps'[a].state = s
      BY <1>a, <2>3 DEF AppStates
    <3> QED BY <2>1, <2>3, <3>1
  <2> QED BY <1>5, <2>2, <2>3 DEF Announce
<1>6. ASSUME RecordRecovery PROVE Told
  <2> DEFINE s == IF cmd.then = "recovered" THEN "reverted" ELSE "recovery_blocked"
  <2>1. s \in AppStates
    BY DEF AppStates
  <2>2. apps'[a].state = s
    BY <1>6, <1>a, <2>1 DEF RecordRecovery
  <2>3. cmd.then = "recovered" => OursAre("before")
    BY <1>6 DEF RecordRecovery, Inv, Progress
  <2> QED BY <2>2, <2>3
<1>7. ASSUME RecordDiscard PROVE Told
  <2> DEFINE s == IF apps[cmd.app].receipts THEN "reverted" ELSE "isolated_discarded"
  <2>1. s \in AppStates
    BY DEF AppStates
  <2>2. apps'[a].state = s
    BY <1>7, <1>a, <2>1 DEF RecordDiscard, Persist
  <2>3. OursAre("before")
    BY <1>7 DEF RecordDiscard, Inv, Progress, Discarding
  <2> QED BY <2>2, <2>3
<1>8. ASSUME UNCHANGED apps PROVE Told
  BY <1>8
<1> HIDE DEF Told
<1> QED BY <1>1, <1>2, <1>3, <1>4, <1>5, <1>6, <1>7, <1>8 DEF Next, ApplyStep, RecoverStep, vars,
     durable, SaveStatus, ApplyV1, ApplyV2, Begin, Observe, PreGate, Prepare, Check, Replace,
     UndoCheck, UndoReplace, FailedV1, PostV1, RolledBackV1, Settled, Applied, Verified, PostV2,
     FinishV2, RecoverV2, Discard, RecoverPrepare, Restore, RedoCheck, RedoReplace, Recovered,
     RecoveryBlocked, DiscardWorktree, UserEdits, Stop

\* The same of the status of the PatchSet.
LEMMA StatusVerdict ==
    ASSUME Inv, [Next]_vars, status' # status
    PROVE  /\ status' \in {"reverted", "failed"} => OursAre("before")
           /\ status' = "applied" => OursAre("after")
<1> DEFINE Told == /\ status' \in {"reverted", "failed"} => OursAre("before")
                   /\ status' = "applied" => OursAre("after")
<1> SUFFICES Told
  OBVIOUS
<1> USE DEF SaveStatus
<1>1. ASSUME FailedV1 PROVE Told
  BY <1>1 DEF FailedV1, Inv, Progress
<1>2. ASSUME RolledBackV1 PROVE Told
  BY <1>2 DEF RolledBackV1, Inv, Progress
<1>3. ASSUME Settled PROVE Told
  BY <1>3 DEF Settled, Inv, Observations, AllBefore, AllAfter, OursAre
<1>4. ASSUME Applied PROVE Told
  BY <1>4 DEF Applied, Inv, Progress
<1>5. ASSUME FinishV2 PROVE Told
  BY <1>5 DEF FinishV2, Inv, Progress
<1>6. ASSUME Recovered PROVE Told
  BY <1>6 DEF Recovered, Inv, Progress
<1>7. ASSUME RecoveryBlocked PROVE Told
  BY <1>7 DEF RecoveryBlocked, Inv, Progress, durable
<1>8. ASSUME UNCHANGED status PROVE Told
  BY <1>8
<1> HIDE DEF Told
<1> QED BY <1>1, <1>2, <1>3, <1>4, <1>5, <1>6, <1>7, <1>8 DEF Next, ApplyStep, RecoverStep, vars,
     durable, ApplyV1, ApplyV2, Begin, Observe, Observed, PreGate, Preflight, StartApplying,
     Prepare, Check, Replace, UndoCheck, UndoReplace, PostV1, RecordFailure, Verified, PostV2,
     Announce, RecoverV2, Discard, RecoverPrepare, Restore, RedoCheck, RedoReplace,
     RecordRecovery, DiscardWorktree, RecordDiscard, UserEdits, Stop

\* Neither a PatchSet nor an application is called reverted, failed or applied unless
\* the patch is on none, or on all, of the files the user has left alone.
THEOREM PatchVerdictIsWhole == Spec => VerdictIsWhole
<1>1. Inv /\ [Next]_vars =>
      [ /\ \A a \in DOMAIN apps : apps'[a].state # apps[a].state =>
             /\ apps'[a].state = "reverted" => \A i \in Ours : files[i] = "before"
             /\ apps'[a].state \in {"applied", "awaiting_human_review"}
                    => \A i \in Ours : files[i] = "after"
        /\ status' # status =>
             /\ status' \in {"reverted", "failed"} => \A i \in Ours : files[i] = "before"
             /\ status' = "applied" => \A i \in Ours : files[i] = "after" ]_vars
  BY ApplicationVerdict, StatusVerdict DEF OursAre
<1> QED BY <1>1, InvHolds, PTL DEF Spec, VerdictIsWhole

\* Only the file a step is at can lose an edit, and only one made after it was read.
LEMMA EditSurvives ==
    ASSUME Inv, [Next]_vars, NEW i \in Files, files[i] = "edited", files'[i] # "edited",
           edits' = edits
    PROVE  cmd.pc = "restore" \/ i \in cmd.late
<1>0. files \in [Files -> Contents] /\ edits \in Nat
  BY PatchAssumption DEF Inv, TypeOK
<1>1. ASSUME NEW c, Replaced(c) PROVE i = cmd.at
  BY <1>0, <1>1 DEF Replaced
<1>2. CASE Replace
  BY <1>1, <1>2 DEF Replace, Inv, Checked
<1>3. CASE UndoReplace
  BY <1>1, <1>3 DEF UndoReplace, Inv, Checked
<1>4. CASE RedoReplace
  BY <1>1, <1>4 DEF RedoReplace, Inv, Checked
<1>5. CASE Restore
  BY <1>5 DEF Restore
<1>6. CASE UNCHANGED files
  BY <1>6
<1>7. ASSUME NEW j \in Files, NEW c \in Contents, UserEdits(j, c) PROVE FALSE
  BY <1>0, <1>7 DEF UserEdits
<1> QED BY <1>2, <1>3, <1>4, <1>5, <1>6, <1>7 DEF Next, ApplyStep, RecoverStep, vars,
     durable, SaveStatus, ApplyV1, ApplyV2, Begin, Observe, Observed, PreGate, Preflight,
     StartApplying, Prepare, Check, UndoCheck, FailedV1, PostV1, RolledBackV1, Settled,
     RecordFailure, Applied, Verified, PostV2, FinishV2, Announce, RecoverV2, Discard,
     RecoverPrepare, RedoCheck, Recovered, RecoveryBlocked, RecordRecovery, DiscardWorktree,
     RecordDiscard, Stop

\* No step that applies the patch, rolls it back or puts it on again overwrites an
\* edit that was in the file when it was read for that step.
THEOREM PatchEditsSurvive == Spec => EditsSurvive
<1>1. Inv /\ [Next]_vars =>
      [ \A i \in Files : files[i] = "edited" /\ files'[i] # "edited" /\ edits' = edits
            => cmd.pc = "restore" \/ i \in cmd.late ]_vars
  BY EditSurvives
<1> QED BY <1>1, InvHolds, PTL DEF Spec, EditsSurvive
=============================================================================
