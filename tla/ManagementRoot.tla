----------------------------- MODULE ManagementRoot -----------------------------
(***************************************************************************)
(* The management root: one global store, one store per project, and the   *)
(* document active-set.json that says which generation of each is open.    *)
(* SqliteManagementRepositorySet and SqliteManagementRecovery of           *)
(* crates/infrastructure/star-state, with the registration of a project    *)
(* (crates/control/star-application) that spans two stores and the         *)
(* document, and the start of the management runtime that chooses between  *)
(* normal service and recovery.                                            *)
(*                                                                         *)
(* Every durable write is a step of its own and the controller may stop    *)
(* between any two.  writer.lock keeps a second controller out, and the    *)
(* request loop runs management commands one at a time, so at most one     *)
(* command is under way.  A store is its header (generation, the rebuild   *)
(* plan it was made by) and the rows the protocol reads; copies become     *)
(* whole only when their header is rewritten.  A project has one           *)
(* registration key.                                                       *)
(***************************************************************************)
EXTENDS Naturals, Sequences, FiniteSets, FiniteSetsExt, SequencesExt

CONSTANTS Projects,        \* projects that may be registered
          MaxGeneration,   \* the last generation number there is (u64::MAX)
          MaxPlans,        \* recovery plans
          MaxStops,        \* starts of the controller
          MaxFaults        \* stores or documents damaged from outside

ASSUME RootAssumption == /\ IsFiniteSet(Projects)
                         /\ "global" \notin Projects
                         /\ MaxGeneration \in Nat \ {0}
                         /\ {MaxPlans, MaxStops, MaxFaults} \subseteq Nat

VARIABLES active,     \* active-set.json
          disk,       \* the store files, by scope and locator
          bindings,   \* projects with a protected root binding
          backup,     \* newest verified backup set: a store for each scope
          plans,      \* recovery plans made so far
          staged,     \* plans whose staging root exists
          receipts,   \* plans with a completion receipt
          mode,       \* of the running controller
          cmd,        \* the command under way
          activated,  \* history: the plans that replaced the active set, in order
          stops, faults

vars == <<active, disk, bindings, backup, plans, staged, receipts, mode, cmd,
          activated, stops, faults>>
recovery == <<plans, staged, receipts, activated>>
budget == <<stops, faults>>

Global == "global"
Scopes == {Global} \cup Projects

\* generations/<number> of the first and of rebuilt stores, generations/<plan id>
\* of restored ones.
Generation(n) == <<"generation", n>>
PlanDir(i) == <<"plan", i>>
First == Generation(1)

OpStates == {"none", "prepared", "applying", "completed", "blocked"}
Incomplete == {"prepared", "applying"}

\* A new, empty store.  In a global store: the rows of projects and the state of
\* each registration's CoordinatedOperation; in a project store: its receipt.
Fresh == [state |-> "whole", gen |-> 1, plan |-> 0, rows |-> {},
          ops |-> [p \in Projects |-> "none"], receipt |-> FALSE]

NoSet == [kind |-> "missing", at |-> <<>>]
ActiveSet(at) == [kind |-> "set", at |-> at]

Idle == [op |-> "none", pc |-> "idle", project |-> Global, todo |-> {}, plan |-> 0,
         left |-> {}, now |-> {}]

Init ==
    /\ active = NoSet
    /\ disk = <<>>
    /\ bindings = {}
    /\ backup = <<>>
    /\ plans = <<>>
    /\ staged = {} /\ receipts = {} /\ activated = <<>>
    /\ mode = "down"
    /\ cmd = Idle
    /\ stops = 0 /\ faults = 0

-----------------------------------------------------------------------------
(* The active set *)

Exists(s, loc) == <<s, loc>> \in DOMAIN disk

\* validate_active_set_materialization: every store is there, sound and of the
\* generation named, and the set names the projects of its global store.
Materialised(at) ==
    /\ Global \in DOMAIN at
    /\ \A s \in DOMAIN at :
          /\ Exists(s, at[s].loc)
          /\ disk[<<s, at[s].loc>>].state = "whole"
          /\ disk[<<s, at[s].loc>>].gen = at[s].gen
    /\ disk[<<Global, at[Global].loc>>].rows = DOMAIN at \ {Global}

GlobalKey == <<Global, active.at[Global].loc>>
GlobalStore == disk[GlobalKey]
ProjectKey(p) == <<p, IF p \in DOMAIN active.at THEN active.at[p].loc ELSE First>>
InOps(p, state) == disk' = [disk EXCEPT ![GlobalKey].ops[p] = state]

\* write_active_set over the global store at `loc` and the stores of its rows: an
\* entry keeps its locator, a store that is not there is created.
LocatorIn(at, s) == IF s \in DOMAIN at THEN at[s].loc ELSE First
WithStores(keys) == [k \in DOMAIN disk \cup keys |-> IF k \in DOMAIN disk THEN disk[k] ELSE Fresh]
NamedStores(at, rows) == {<<s, LocatorIn(at, s)>> : s \in {Global} \cup rows}
Refreshed(at, rows, stores) ==
    ActiveSet([s \in {Global} \cup rows |->
                 [loc |-> LocatorIn(at, s), gen |-> stores[<<s, LocatorIn(at, s)>>].gen]])

Refresh(at, rows, extra) ==
    LET stores == WithStores(NamedStores(at, rows) \cup extra)
    IN  /\ disk' = stores
        /\ active' = Refreshed(at, rows, stores)

-----------------------------------------------------------------------------
(* Start and stop of the management runtime *)

RowsAt(at) == IF Exists(Global, LocatorIn(at, Global))
              THEN disk[<<Global, LocatorIn(at, Global)>>].rows ELSE {}

\* Without a document the start finds nothing to inspect and opens the first
\* generation; it fails when a store there is damaged.
Opens == CASE active.kind = "set" -> Materialised(active.at)
           [] active.kind = "missing" ->
                \A k \in NamedStores(<<>>, RowsAt(<<>>)) :
                   k \in DOMAIN disk => disk[k].state = "whole"
           [] OTHER -> FALSE

IncompleteIn(store) == {p \in Projects : store.ops[p] \in Incomplete}

\* initialize_management_runtime: normal service once the registrations found
\* incomplete are settled, otherwise recovery.
Start ==
    /\ mode = "down" /\ stops < MaxStops
    /\ stops' = stops + 1
    /\ \/ /\ Opens
          /\ Refresh(active.at, RowsAt(active.at), {})
          /\ mode' = "starting"
          /\ cmd' = [Idle EXCEPT !.op = "settle", !.pc = "next",
                        !.todo = IncompleteIn(disk'[<<Global, LocatorIn(active.at, Global)>>])]
       \/ \* the stores do not open, or something after them does not
          mode' = "recovery" /\ UNCHANGED <<active, disk, cmd>>
    /\ UNCHANGED <<bindings, backup, recovery, faults>>

\* The controller stops or is killed; what was under way is lost.
Stop ==
    /\ mode # "down"
    /\ mode' = "down" /\ cmd' = Idle
    /\ UNCHANGED <<active, disk, bindings, backup, recovery, budget>>

\* A command ends with an error; during the start that means recovery.
Fail ==
    /\ cmd # Idle
    /\ cmd' = Idle
    /\ mode' = IF mode = "starting" THEN "recovery" ELSE mode
    /\ UNCHANGED <<active, disk, bindings, backup, recovery, budget>>

\* Found at the next start: a store of the active set, or the document, is
\* damaged or lost.
Damage ==
    /\ mode = "down" /\ faults < MaxFaults
    /\ active.kind = "set"
    /\ faults' = faults + 1
    /\ \/ /\ \E s \in DOMAIN active.at :
                disk' = [disk EXCEPT ![<<s, active.at[s].loc>>].state = "damaged"]
          /\ UNCHANGED active
       \/ active' \in {NoSet, [kind |-> "garbled", at |-> <<>>]} /\ UNCHANGED disk
    /\ UNCHANGED <<bindings, backup, recovery, mode, cmd, stops>>

-----------------------------------------------------------------------------
(* Registering a project: register_project_inner, replay_registration and   *)
(* recover_incomplete_registrations_inner.                                  *)

Goto(pc) == cmd' = [cmd EXCEPT !.pc = pc]
Quiet == UNCHANGED <<bindings, backup, recovery, mode, budget>>

\* The root is bound first; a key seen before settles what is incomplete.
Register(p) ==
    /\ mode = "normal" /\ cmd = Idle
    /\ \/ /\ GlobalStore.ops[p] = "none"
          /\ bindings' = bindings \cup {p}
          /\ cmd' = [Idle EXCEPT !.op = "register", !.pc = "prepare", !.project = p]
       \/ /\ GlobalStore.ops[p] \in Incomplete
          /\ cmd' = [Idle EXCEPT !.op = "settle", !.pc = "next", !.todo = IncompleteIn(GlobalStore)]
          /\ UNCHANGED bindings
    /\ UNCHANGED <<active, disk, backup, recovery, mode, budget>>

\* The next incomplete registration; after the last one the command, or the
\* start, is done.
NextIncomplete ==
    /\ cmd.pc = "next"
    /\ \/ \E p \in cmd.todo : cmd' = [cmd EXCEPT !.pc = "open", !.project = p, !.todo = @ \ {p}]
          /\ UNCHANGED mode
       \/ cmd.todo = {} /\ cmd' = Idle /\ mode' = "normal"
    /\ UNCHANGED <<active, disk, bindings, backup, recovery, budget>>

Prepare ==
    /\ cmd.pc = "prepare"
    /\ InOps(cmd.project, "prepared") /\ Goto("open")
    /\ UNCHANGED active /\ Quiet

\* project_repository: the project store is opened, or made; the active set is
\* written only when the global store knows the project and the open repository
\* was not in the cache.
OpenStore ==
    /\ cmd.pc = "open"
    /\ LET key == ProjectKey(cmd.project)
       IN  /\ key \in DOMAIN disk => disk[key].state = "whole"
           /\ \/ /\ cmd.project \in GlobalStore.rows
                 /\ Refresh(active.at, GlobalStore.rows, {key})
              \/ /\ cmd.project \notin GlobalStore.rows \/ key \in DOMAIN disk
                 /\ disk' = WithStores({key}) /\ UNCHANGED active
    /\ Goto("commit") /\ Quiet

\* The project's root is gone, or what it declares has changed: only a retry
\* looks.
Block ==
    /\ cmd.op = "settle" /\ cmd.pc = "commit"
    /\ InOps(cmd.project, "blocked") /\ Goto("next")
    /\ UNCHANGED active /\ Quiet

CommitParticipant ==
    /\ cmd.pc = "commit"
    /\ disk' = [disk EXCEPT ![ProjectKey(cmd.project)].receipt = TRUE]
    /\ Goto("applying") /\ UNCHANGED active /\ Quiet

RecordApplying ==
    /\ cmd.pc = "applying"
    /\ InOps(cmd.project, "applying") /\ Goto("row")
    /\ UNCHANGED active /\ Quiet

\* Faulty variant of RegisterRow: the global store is not told of the project.
RegisterNoRow ==
    /\ cmd.pc = "row"
    /\ Goto("verify") /\ UNCHANGED <<active, disk>> /\ Quiet

RegisterRow ==
    /\ cmd.pc = "row"
    /\ disk' = [disk EXCEPT ![GlobalKey].rows = @ \cup {cmd.project}]
    /\ Goto("verify")
    /\ UNCHANGED active /\ Quiet

\* verify_all ends by writing the active set.
VerifyAll ==
    /\ cmd.pc = "verify"
    /\ Refresh(active.at, GlobalStore.rows, {})
    /\ Goto("complete") /\ Quiet

\* The verify_all after it writes the same active set again.
Complete ==
    /\ cmd.pc = "complete"
    /\ InOps(cmd.project, "completed")
    /\ cmd' = IF cmd.op = "settle" THEN [cmd EXCEPT !.pc = "next"] ELSE Idle
    /\ UNCHANGED active /\ Quiet

-----------------------------------------------------------------------------
(* Backup and recovery plans *)

\* plan_backup, and an apply_backup that is then refused: verify_all has written
\* the active set.
PlanBackup ==
    /\ mode = "normal" /\ cmd = Idle
    /\ \A k \in NamedStores(active.at, GlobalStore.rows) :
          k \in DOMAIN disk => disk[k].state = "whole"
    /\ Refresh(active.at, GlobalStore.rows, {})
    /\ UNCHANGED cmd /\ Quiet

\* apply_backup of a plan that still matches, so that its verify_all writes the set
\* that is there: a copy of every active store; what a stop leaves behind of one is
\* never verified.
Backup ==
    /\ mode = "normal" /\ cmd = Idle /\ Materialised(active.at)
    /\ backup' = [s \in DOMAIN active.at |-> disk[<<s, active.at[s].loc>>]]
    /\ backup' # backup
    /\ UNCHANGED <<active, disk, bindings, recovery, mode, cmd, budget>>

\* A plan whose generations are exhausted is refused.
Plan(plan) ==
    /\ mode = "recovery" /\ cmd = Idle /\ Len(plans) < MaxPlans
    /\ \A s \in DOMAIN plan.at : plan.at[s].gen <= MaxGeneration
    /\ plans' = Append(plans, plan)
    /\ UNCHANGED <<active, disk, bindings, backup, staged, receipts, mode, cmd,
                   activated, budget>>

CurrentGen(s) == IF s \in DOMAIN active.at THEN active.at[s].gen ELSE 0

PlanRestore ==
    /\ backup # <<>>
    /\ Plan([kind |-> "restore", expected |-> active, from |-> backup,
             at |-> [s \in DOMAIN backup |->
                       [loc |-> PlanDir(Len(plans) + 1),
                        gen |-> Max({backup[s].gen, CurrentGen(s)}) + 1]]])

\* next_rebuild_generation: above the active stores and everything found in a
\* generations directory.
NextGeneration ==
    1 + Max({1} \cup {active.at[s].gen : s \in DOMAIN active.at}
                \cup {k[2][2] : k \in {k \in DOMAIN disk : k[2][1] = "generation"}}
                \cup {disk[k].gen : k \in {k \in DOMAIN disk : disk[k].state = "whole"}})

\* What a rebuild from the project roots leads to.
Rebuilt == [s \in {Global} \cup bindings |->
              [Fresh EXCEPT !.rows = IF s = Global THEN bindings ELSE {},
                            !.ops = [p \in Projects |-> IF s = Global /\ p \in bindings
                                                        THEN "completed" ELSE "none"],
                            !.receipt = s # Global]]

PlanRebuild ==
    Plan([kind |-> "rebuild", expected |-> active, from |-> Rebuilt,
          at |-> [s \in DOMAIN Rebuilt |-> [loc |-> Generation(NextGeneration),
                                            gen |-> NextGeneration]]])

-----------------------------------------------------------------------------
(* Applying a plan *)

\* Faulty variant of Unoccupied: what an earlier attempt left is copied over.
UnoccupiedAlways(i) == TRUE

\* No destination of the plan exists yet.
Unoccupied(i) == \A s \in DOMAIN plans[i].at : ~Exists(s, plans[i].at[s].loc)

\* Faulty variant of Current: whatever is active may be replaced.
CurrentAlways(i) == TRUE

\* The document is the one the plan was made for.
Current(i) == active = plans[i].expected

\* apply_restore finds its set active and sound.
RestoreCompleted(i) == active = ActiveSet(plans[i].at) /\ Materialised(active.at)

\* Faulty variant of RebuildCompleted: the generation alone is compared.
RebuildCompletedByGeneration(i) ==
    /\ active.kind = "set" /\ DOMAIN active.at = DOMAIN plans[i].at
    /\ \A s \in DOMAIN active.at : active.at[s].gen = plans[i].at[s].gen
    /\ Materialised(active.at)

\* reconcile_rebuild_completion: stores of the plan's generation, made by it.
RebuildCompleted(i) ==
    /\ active.kind = "set" /\ DOMAIN active.at = DOMAIN plans[i].at
    /\ \A s \in DOMAIN active.at : active.at[s].gen = plans[i].at[s].gen
    /\ Materialised(active.at)
    /\ \A s \in DOMAIN active.at : disk[<<s, active.at[s].loc>>].plan = i

Completed(i) == IF plans[i].kind = "restore" THEN RestoreCompleted(i) ELSE RebuildCompleted(i)

WriteReceipt(i) == receipts' = receipts \cup {i}

Applying(i) == mode = "recovery" /\ cmd = Idle /\ i \notin receipts

\* The answer got lost after the activation: only the receipt is missing.
Reconcile(i) ==
    /\ Applying(i) /\ Completed(i)
    /\ WriteReceipt(i)
    /\ UNCHANGED <<active, disk, bindings, backup, plans, staged, mode, cmd, activated, budget>>

Begin(i) ==
    /\ Applying(i) /\ ~Completed(i)
    /\ Current(i) /\ Unoccupied(i)
    /\ cmd' = [Idle EXCEPT !.op = "apply", !.pc = "copy", !.plan = i,
                           !.left = DOMAIN plans[i].at]
    /\ UNCHANGED <<active, disk, bindings, backup, plans, receipts, mode, activated, budget>>

BeginRestore(i) == plans[i].kind = "restore" /\ Begin(i) /\ UNCHANGED staged

\* The roots are still the planned ones; the staging root of a plan is made once.
BeginRebuild(i) ==
    /\ plans[i].kind = "rebuild"
    /\ DOMAIN plans[i].at = {Global} \cup bindings
    /\ i \notin staged
    /\ Begin(i)
    /\ staged' = staged \cup {i}

\* copy_restore_candidate and copy_rebuild_candidate: the bytes, then the header.
Destination(s) == <<s, plans[cmd.plan].at[s].loc>>

CopyBytes(s) ==
    /\ cmd.pc = "copy" /\ cmd.now = {}
    /\ disk' = [k \in DOMAIN disk \cup {Destination(s)} |->
                  IF k = Destination(s) THEN [plans[cmd.plan].from[s] EXCEPT !.state = "partial"]
                                        ELSE disk[k]]
    /\ cmd' = [cmd EXCEPT !.left = @ \ {s}, !.now = {s}]
    /\ UNCHANGED active /\ Quiet

CopyHeader ==
    /\ cmd.pc = "copy"
    /\ \E s \in cmd.now :
          LET store == disk[Destination(s)]
              plan == plans[cmd.plan]
          IN  disk' = [disk EXCEPT ![Destination(s)] =
                         [store EXCEPT !.state = "whole", !.gen = plan.at[s].gen,
                                       !.plan = IF plan.kind = "rebuild" THEN cmd.plan
                                                                         ELSE store.plan]]
    /\ cmd' = [cmd EXCEPT !.now = {}]
    /\ UNCHANGED active /\ Quiet

\* Faulty variant of Activate: the set becomes active before its stores are whole.
ActivateUnchecked ==
    /\ cmd.pc = "copy" /\ cmd.left = {}
    /\ active' = ActiveSet(plans[cmd.plan].at)
    /\ activated' = Append(activated, cmd.plan)
    /\ Goto("receipt")
    /\ UNCHANGED <<disk, bindings, backup, plans, staged, receipts, mode, budget>>

Activate ==
    /\ cmd.pc = "copy" /\ cmd.left = {} /\ cmd.now = {}
    /\ Materialised(plans[cmd.plan].at)
    /\ active' = ActiveSet(plans[cmd.plan].at)
    /\ activated' = Append(activated, cmd.plan)
    /\ Goto("receipt")
    /\ UNCHANGED <<disk, bindings, backup, plans, staged, receipts, mode, budget>>

Receipt ==
    /\ cmd.pc = "receipt"
    /\ WriteReceipt(cmd.plan) /\ cmd' = Idle
    /\ UNCHANGED <<active, disk, bindings, backup, plans, staged, mode, activated, budget>>

-----------------------------------------------------------------------------
Next ==
    \/ Start \/ Stop \/ Fail \/ Damage
    \/ \E p \in Projects : Register(p)
    \/ NextIncomplete \/ Prepare \/ OpenStore \/ Block \/ CommitParticipant
    \/ RecordApplying \/ RegisterRow \/ VerifyAll \/ Complete
    \/ PlanBackup \/ Backup \/ PlanRestore \/ PlanRebuild
    \/ \E i \in 1 .. Len(plans) : Reconcile(i) \/ BeginRestore(i) \/ BeginRebuild(i)
    \/ \E s \in cmd.left : CopyBytes(s)
    \/ CopyHeader \/ Activate \/ Receipt

Spec == Init /\ [][Next]_vars

-----------------------------------------------------------------------------
(* Properties *)

Locators == ({"generation"} \X (1 .. MaxGeneration)) \cup ({"plan"} \X (1 .. MaxPlans))
Entries == [loc : Locators, gen : 1 .. MaxGeneration]
Stores == [state : {"whole", "partial", "damaged"}, gen : 1 .. MaxGeneration, plan : Nat,
           rows : SUBSET Projects, ops : [Projects -> OpStates], receipt : BOOLEAN]
Commands == [op : {"none", "register", "settle", "apply"},
             pc : {"idle", "next", "prepare", "open", "commit", "applying", "row", "verify",
                   "complete", "copy", "receipt"},
             project : Scopes, todo : SUBSET Projects, plan : 0 .. MaxPlans,
             left : SUBSET Scopes, now : SUBSET Scopes]

PerScope(f, V) == DOMAIN f \subseteq Scopes /\ f \in [DOMAIN f -> V]
IsDocument(d) == d.kind \in {"set", "missing", "garbled"} /\ PerScope(d.at, Entries)
IsPlan(plan) ==
    /\ plan.kind \in {"restore", "rebuild"}
    /\ IsDocument(plan.expected)
    /\ PerScope(plan.from, Stores) /\ PerScope(plan.at, Entries)
    /\ DOMAIN plan.at = DOMAIN plan.from

\* Every variable keeps its shape: the document is a set of entries, missing or
\* unreadable, a file is a store, no generation number overflows, and at most one
\* command is under way.
TypeOK ==
    /\ IsDocument(active)
    /\ DOMAIN disk \subseteq Scopes \X Locators
    /\ disk \in [DOMAIN disk -> Stores]
    /\ bindings \subseteq Projects
    /\ PerScope(backup, Stores)
    /\ plans \in Seq(Range(plans)) /\ Len(plans) <= MaxPlans
    /\ \A i \in 1 .. Len(plans) : IsPlan(plans[i])
    /\ activated \in Seq(1 .. Len(plans))
    /\ staged \cup receipts \subseteq 1 .. Len(plans)
    /\ mode \in {"down", "starting", "normal", "recovery"}
    /\ cmd \in Commands
    /\ mode = "down" => cmd = Idle
    /\ stops \in 0 .. MaxStops /\ faults \in 0 .. MaxFaults

\* Wherever the controller stops, the document names stores that were copied to
\* the end and carry the generation it says (write_active_set_document comes after
\* the last copy, apply_restore_inner and apply_rebuild_inner).
ActiveIsWhole ==
    \A s \in DOMAIN active.at :
       /\ Exists(s, active.at[s].loc)
       /\ disk[<<s, active.at[s].loc>>].state # "partial"
       /\ disk[<<s, active.at[s].loc>>].gen = active.at[s].gen

\* A registration that its global store calls completed is visible: the project
\* is in that store and in the active set, and the project's store holds the
\* receipt, whatever was interrupted, restored or rebuilt before.
CompletedIsWhole ==
    mode = "normal" =>
        \A p \in Projects : GlobalStore.ops[p] = "completed" =>
            /\ p \in GlobalStore.rows
            /\ p \in DOMAIN active.at
            /\ disk[ProjectKey(p)].receipt

\* A receipt is evidence: its plan did replace the active set, even when the
\* receipt was written by a retry that found the work done.
ReceiptIsTrue == receipts \subseteq Range(activated)

\* No plan replaces the active set twice, however often it is retried and
\* whatever happened to the document in between.
ActivatedOnce == IsInjective(activated)

\* A plan replaces only the document it was approved for: nothing that became
\* active since the plan was made is lost to it.
ReplacesWhatWasPlanned ==
    [][activated' # activated => active = plans[Last(activated')].expected]_vars

\* Damage from outside is what recovery is for: a root nobody damaged opens at the
\* next start, wherever the controller stopped.
UndamagedRootOpens == mode = "down" /\ faults = 0 => Opens

\* A start opens what the document names: the first generation, once a plan has
\* replaced it, is not opened again because the document is gone.
SupersededStaysClosed ==
    [][mode = "down" /\ mode' = "starting" /\ activated # <<>>
         => active'.at[Global].loc # First]_vars
=============================================================================
