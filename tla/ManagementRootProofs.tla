-------------------------- MODULE ManagementRootProofs --------------------------
(***************************************************************************)
(* Proofs about ManagementRoot for any set of projects and any number of   *)
(* generations, plans, stops and damaged stores.                           *)
(*                                                                         *)
(* The properties speak of the active set and of the history; what keeps   *)
(* them is in the files beside it.  Files says what every store that may   *)
(* become active again carries, the first generation above all, because a  *)
(* start without a document opens it.  Document says what the active set   *)
(* rests on, Sources that backups and plans are whole sets, Registering    *)
(* and Copying how far the command under way has come, and Landed that a   *)
(* plan that was activated has left its stores behind, which is why it     *)
(* cannot begin again.                                                     *)
(***************************************************************************)
EXTENDS ManagementRoot, SequenceTheorems, WellFoundedInduction, TLAPS

Done == Range(activated)

\* A registration that a global store calls completed is in its rows.
Sound(store) == \A p \in Projects : store.ops[p] = "completed" => p \in store.rows

\* The first generation was not copied by a plan, and the receipts its global store
\* relies on are in the project stores beside it.
Files ==
    /\ \A s \in Scopes : Exists(s, First) =>
          disk[<<s, First>>].state # "partial" /\ disk[<<s, First>>].plan = 0
    /\ \A k \in DOMAIN disk : k[1] = Global => Sound(disk[k])
    /\ Exists(Global, First) =>
          \A p \in Projects : disk[<<Global, First>>].ops[p] = "completed" =>
              Exists(p, First) /\ disk[<<p, First>>].receipt

\* What the active set names, and where its global store comes from.
Vouched ==
    \A p \in Projects : GlobalStore.ops[p] = "completed" =>
        ProjectKey(p) \in DOMAIN disk /\ disk[ProjectKey(p)].receipt

Document ==
    /\ active.kind # "set" => active.at = <<>>
    /\ active.kind = "set" =>
          /\ Global \in DOMAIN active.at
          /\ active.at[Global].loc = First => \A s \in DOMAIN active.at : active.at[s].loc = First
          /\ Vouched
          /\ GlobalStore.plan \in {0} \cup Done
          /\ active.at[Global].loc[1] = "plan" => active.at[Global].loc[2] \in Done

\* Normal service, and the start that leads to it, know the projects of the global store.
Serving ==
    mode \in {"starting", "normal"} =>
        /\ active.kind = "set"
        /\ DOMAIN active.at \subseteq {Global} \cup GlobalStore.rows
        /\ \A p \in Projects : GlobalStore.ops[p] = "completed" => p \in DOMAIN active.at

\* A set of stores that may become the active one.
GoodSource(from) ==
    /\ Global \in DOMAIN from
    /\ Sound(from[Global])
    /\ from[Global].plan \in {0} \cup Done
    /\ \A p \in Projects : from[Global].ops[p] = "completed" =>
          p \in DOMAIN from /\ from[p].receipt

\* Backups and plans: a plan has destinations of its own.
PlanOK(i) ==
    /\ GoodSource(plans[i].from)
    /\ \A s \in DOMAIN plans[i].at :
          /\ plans[i].at[s].loc # First
          /\ plans[i].at[s].loc[1] = "plan" \/ plans[i].kind = "restore" =>
                plans[i].at[s].loc = PlanDir(i)

Sources ==
    /\ backup = <<>> \/ GoodSource(backup)
    /\ \A i \in 1 .. Len(plans) : PlanOK(i)

Landed == \A i \in Done : Exists(Global, plans[i].at[Global].loc)

\* Which command a step belongs to, and in which mode it runs.
RegisterSteps == {"prepare", "open", "commit", "applying", "row", "verify", "complete"}

Shape ==
    /\ cmd.pc = "idle" => cmd = Idle
    /\ cmd.pc \in {"next"} \cup RegisterSteps => mode \in {"starting", "normal"}
    /\ cmd.pc \in RegisterSteps => cmd.project \in Projects
    /\ cmd.pc \in {"copy", "receipt"} => mode = "recovery" /\ cmd.plan \in 1 .. Len(plans)
    /\ cmd.pc = "receipt" => cmd.plan \in Done

\* How far a registration has come.
Registering ==
    /\ cmd.pc = "commit" => ProjectKey(cmd.project) \in DOMAIN disk
    /\ cmd.pc \in {"applying", "row", "verify", "complete"} =>
          ProjectKey(cmd.project) \in DOMAIN disk /\ disk[ProjectKey(cmd.project)].receipt
    /\ cmd.pc \in {"verify", "complete"} => cmd.project \in GlobalStore.rows
    /\ cmd.pc = "complete" => cmd.project \in DOMAIN active.at

\* How far a plan has been copied, away from the stores that are active.
Copying ==
    cmd.pc = "copy" =>
        /\ active = plans[cmd.plan].expected
        /\ cmd.plan \notin Done
        /\ cmd.left \cup cmd.now \subseteq DOMAIN plans[cmd.plan].at
        /\ cmd.left \cap cmd.now = {}
        /\ \A s \in cmd.left : Destination(s) \notin DOMAIN disk
        /\ \A s \in cmd.left \cup cmd.now :
              s \in DOMAIN active.at => active.at[s].loc # plans[cmd.plan].at[s].loc
        /\ \A s \in DOMAIN plans[cmd.plan].at \ cmd.left :
              /\ Destination(s) \in DOMAIN disk
              /\ disk[Destination(s)].rows = plans[cmd.plan].from[s].rows
              /\ disk[Destination(s)].ops = plans[cmd.plan].from[s].ops
              /\ disk[Destination(s)].receipt = plans[cmd.plan].from[s].receipt
              /\ disk[Destination(s)].plan \in {plans[cmd.plan].from[s].plan, cmd.plan}

\* What is durable, and what the running controller knows of it.
AtRest ==
    /\ ActiveIsWhole /\ ReceiptIsTrue /\ ActivatedOnce
    /\ Files /\ Document /\ Sources /\ Landed

\* The inductive invariant.
Inv == TypeOK /\ AtRest /\ Serving /\ Shape /\ Registering /\ Copying
-----------------------------------------------------------------------------
(* Generation numbers *)

LEMMA MaxExists ==
    ASSUME NEW S \in SUBSET (0 .. MaxGeneration), S # {}
    PROVE  Max(S) \in S /\ Max(S) \in Nat /\ \A x \in S : x <= Max(S)
<1> DEFINE T == {MaxGeneration - x : x \in S}
<1>0. MaxGeneration \in Nat /\ \A x \in S : x \in Nat /\ x <= MaxGeneration
  BY RootAssumption
<1>1. T \subseteq Nat /\ T # {}
  <2>1. \A x \in S : MaxGeneration - x \in Nat
    BY <1>0
  <2>2. T \subseteq Nat
    BY <2>1
  <2>3. T # {}
    OBVIOUS
  <2> QED BY <2>2, <2>3
<1>2. IsWellFoundedOn({ss \in Nat \X Nat : ss[1] < ss[2]}, Nat)
  BY NatLessThanWellFounded DEF OpToRel
<1>3. PICK y \in T : \A z \in T : ~(<<z, y>> \in {ss \in Nat \X Nat : ss[1] < ss[2]})
  BY <1>1, <1>2, WFMin
<1>4. \A z \in T : ~(z < y)
  BY <1>1, <1>3
<1>5. PICK m \in S : y = MaxGeneration - m
  OBVIOUS
<1>6. ASSUME NEW x \in S PROVE m >= x
  <2>1. MaxGeneration - x \in T
    OBVIOUS
  <2>2. ~(MaxGeneration - x < MaxGeneration - m)
    BY <1>4, <1>5, <2>1
  <2> QED BY <1>0, <2>2
<1> QED BY <1>0, <1>5, <1>6 DEF Max
-----------------------------------------------------------------------------
(* Initial states, and facts about the stores of a state *)

LEMMA GlobalIsNoProject == Global \notin Projects /\ Projects \subseteq Scopes /\ Global \in Scopes
  BY RootAssumption DEF Global, Scopes

LEMMA FirstIs == First \in Locators /\ First[1] = "generation" /\ First[2] = 1
<1>1. 1 \in 1 .. MaxGeneration
  BY RootAssumption
<1> QED BY <1>1 DEF First, Generation, Locators

LEMMA FreshIs ==
    /\ Fresh \in Stores
    /\ Fresh.state = "whole" /\ Fresh.gen = 1 /\ Fresh.plan = 0 /\ Fresh.rows = {}
    /\ \A p \in Projects : Fresh.ops[p] = "none"
  BY RootAssumption DEF Fresh, Stores, OpStates

LEMMA IdleIs ==
    /\ Idle \in Commands /\ Idle.pc = "idle" /\ Idle.op = "none" /\ Idle.todo = {}
    /\ Idle.left = {} /\ Idle.now = {} /\ Idle.plan = 0
<1>1. 0 \in 0 .. MaxPlans
  BY RootAssumption
<1> QED BY <1>1 DEF Idle, Commands, Scopes

LEMMA InitInv == Init => Inv
<1> SUFFICES ASSUME Init PROVE Inv
  OBVIOUS
<1>1. /\ active.kind = "missing" /\ active.at = <<>> /\ DOMAIN active.at = {}
      /\ DOMAIN disk = {} /\ DOMAIN backup = {} /\ Len(plans) = 0 /\ Done = {}
  BY DEF Init, NoSet, Done, Range
<1>2. TypeOK
  <2>1. PerScope(active.at, Entries) /\ PerScope(backup, Stores) /\ disk \in [DOMAIN disk -> Stores]
    BY <1>1 DEF Init, NoSet, PerScope
  <2>2. plans \in Seq(Range(plans)) /\ activated \in Seq(1 .. Len(plans))
    BY DEF Init
  <2> QED BY <1>1, <2>1, <2>2, RootAssumption, IdleIs DEF Init, TypeOK, IsDocument
<1>3. AtRest
  BY <1>1 DEF Init, AtRest, ActiveIsWhole, ReceiptIsTrue, ActivatedOnce, IsInjective, Files, Exists,
     Document, Sources, Landed
<1>4. Serving /\ Shape /\ Registering /\ Copying
  BY IdleIs DEF Init, Serving, Shape, Registering, Copying, RegisterSteps
<1> QED BY <1>2, <1>3, <1>4 DEF Inv

\* The global store of a set, and where the store of a project is.
LEMMA GlobalIs ==
    ASSUME Inv, active.kind = "set"
    PROVE  /\ GlobalKey \in DOMAIN disk /\ GlobalKey = <<Global, active.at[Global].loc>>
           /\ GlobalStore = disk[GlobalKey] /\ GlobalStore \in Stores
           /\ Sound(GlobalStore)
           /\ active.at[Global] \in Entries
<1>1. Global \in DOMAIN active.at
  BY DEF Inv, AtRest, Document
<1>2. GlobalKey \in DOMAIN disk /\ GlobalKey = <<Global, active.at[Global].loc>>
  BY <1>1 DEF Inv, AtRest, ActiveIsWhole, Exists, GlobalKey
<1>3. GlobalStore = disk[GlobalKey] /\ GlobalStore \in Stores
  BY <1>2 DEF GlobalStore, Inv, TypeOK
<1>4. Sound(GlobalStore)
  BY <1>2, <1>3 DEF Inv, AtRest, Files
<1>5. active.at[Global] \in Entries
  BY <1>1 DEF Inv, TypeOK, IsDocument, PerScope
<1> QED BY <1>2, <1>3, <1>4, <1>5
-----------------------------------------------------------------------------
(* A store is changed in place *)

\* What becomes of store k: nothing it vouches for is taken back, and a registration it
\* newly calls completed is whole.
Edit(k, t) ==
    /\ k \in DOMAIN disk /\ t \in Stores
    /\ disk' = [disk EXCEPT ![k] = t]
    /\ UNCHANGED <<active, backup, recovery>>
    /\ t.state \in {disk[k].state, "damaged"}
    /\ t.gen = disk[k].gen /\ t.plan = disk[k].plan
    /\ disk[k].rows \subseteq t.rows
    /\ disk[k].receipt => t.receipt
    /\ \A p \in Projects : t.ops[p] = "completed" =>
          \/ disk[k].ops[p] = "completed"
          \/ /\ active.kind = "set" /\ k = GlobalKey
             /\ p \in DOMAIN active.at /\ p \in t.rows
             /\ ProjectKey(p) \in DOMAIN disk /\ disk[ProjectKey(p)].receipt

LEMMA EditDoes ==
    ASSUME TypeOK, NEW k, NEW t, Edit(k, t)
    PROVE  /\ DOMAIN disk' = DOMAIN disk
           /\ disk' \in [DOMAIN disk -> Stores]
           /\ disk'[k] = t
           /\ \A x \in DOMAIN disk : x # k => disk'[x] = disk[x]
           /\ \A x \in DOMAIN disk :
                 /\ disk'[x].state \in {disk[x].state, "damaged"}
                 /\ disk'[x].gen = disk[x].gen /\ disk'[x].plan = disk[x].plan
                 /\ disk[x].rows \subseteq disk'[x].rows
                 /\ disk[x].receipt => disk'[x].receipt
  BY DEF Edit, TypeOK

LEMMA EditAtRest ==
    ASSUME Inv, NEW k, NEW t, Edit(k, t)
    PROVE  AtRest'
<1> USE DEF AtRest
<1>0. TypeOK /\ AtRest
  BY DEF Inv
<1>1. UNCHANGED <<active, backup, plans, receipts, activated>> /\ Done' = Done
  BY DEF Edit, recovery, Done
<1>2. /\ DOMAIN disk' = DOMAIN disk
      /\ disk'[k] = t
      /\ \A x \in DOMAIN disk : x # k => disk'[x] = disk[x]
      /\ \A x \in DOMAIN disk :
            /\ disk'[x].state \in {disk[x].state, "damaged"}
            /\ disk'[x].gen = disk[x].gen /\ disk'[x].plan = disk[x].plan
            /\ disk[x].rows \subseteq disk'[x].rows
            /\ disk[x].receipt => disk'[x].receipt
  BY <1>0, EditDoes
<1>3. ActiveIsWhole'
  BY <1>0, <1>1, <1>2 DEF ActiveIsWhole, Exists
<1>4. ReceiptIsTrue' /\ ActivatedOnce' /\ Landed' /\ Sources'
  BY <1>0, <1>1, <1>2 DEF ReceiptIsTrue, ActivatedOnce, Landed, Sources, PlanOK, GoodSource, Exists,
     Done
<1>5. \A p \in Projects : ProjectKey(p)' = ProjectKey(p) /\ ProjectKey(p) # GlobalKey
  BY <1>1, GlobalIsNoProject DEF ProjectKey, GlobalKey
<1>6. \A x \in DOMAIN disk : \A p \in Projects : disk'[x].ops[p] = "completed" =>
          \/ disk[x].ops[p] = "completed"
          \/ /\ active.kind = "set" /\ x = GlobalKey
             /\ p \in DOMAIN active.at /\ p \in disk'[x].rows
             /\ ProjectKey(p) \in DOMAIN disk /\ disk'[ProjectKey(p)].receipt
  BY <1>2 DEF Edit
<1>7. Files'
  <2>1. \A s \in Scopes : Exists(s, First)' =>
           disk'[<<s, First>>].state # "partial" /\ disk'[<<s, First>>].plan = 0
    BY <1>0, <1>2 DEF Files, Exists
  <2>2. \A x \in DOMAIN disk' : x[1] = Global => Sound(disk'[x])
    BY <1>0, <1>2, <1>6 DEF Files, Sound
  <2>3. ASSUME Exists(Global, First)', NEW p \in Projects, disk'[<<Global, First>>].ops[p] = "completed"
        PROVE  Exists(p, First)' /\ disk'[<<p, First>>].receipt
    <3>1. CASE disk[<<Global, First>>].ops[p] = "completed"
      BY <1>0, <1>2, <2>3, <3>1 DEF Files, Exists
    <3>2. CASE disk[<<Global, First>>].ops[p] # "completed"
      <4>1. /\ active.kind = "set" /\ <<Global, First>> = GlobalKey /\ p \in DOMAIN active.at
            /\ ProjectKey(p) \in DOMAIN disk /\ disk'[ProjectKey(p)].receipt
        BY <1>2, <1>6, <2>3, <3>2 DEF Exists
      <4>2. ProjectKey(p) = <<p, First>>
        BY <1>0, <4>1 DEF Document, GlobalKey, ProjectKey
      <4> QED BY <1>2, <4>1, <4>2 DEF Exists
    <3> QED BY <3>1, <3>2
  <2> QED BY <2>1, <2>2, <2>3 DEF Files
<1>8. Document'
  <2>1. ASSUME active.kind = "set" PROVE Vouched' /\ GlobalStore'.plan \in {0} \cup Done
    <3>1. GlobalKey \in DOMAIN disk /\ GlobalKey' = GlobalKey
      BY <1>1, <2>1, GlobalIs DEF GlobalKey
    <3>2. GlobalStore' = disk'[GlobalKey] /\ GlobalStore = disk[GlobalKey]
      BY <3>1 DEF GlobalStore
    <3>3. Vouched'
      BY <1>0, <1>2, <1>5, <1>6, <2>1, <3>1, <3>2 DEF Vouched, Document
    <3> QED BY <1>0, <1>2, <2>1, <3>1, <3>2, <3>3 DEF Document
  <2> QED BY <1>0, <1>1, <2>1 DEF Document
<1> QED BY <1>3, <1>4, <1>7, <1>8

LEMMA EditServing ==
    ASSUME Inv, NEW k, NEW t, Edit(k, t),
           mode' \in {"starting", "normal"} => mode \in {"starting", "normal"}
    PROVE  Serving'
<1> SUFFICES ASSUME mode \in {"starting", "normal"}
             PROVE  /\ active'.kind = "set"
                    /\ DOMAIN active'.at \subseteq {Global} \cup GlobalStore'.rows
                    /\ \A p \in Projects : GlobalStore'.ops[p] = "completed" => p \in DOMAIN active'.at
  BY DEF Serving
<1>1. TypeOK /\ Serving /\ active.kind = "set" /\ active' = active
  BY DEF Inv, Serving, Edit
<1>2. GlobalKey \in DOMAIN disk /\ GlobalKey' = GlobalKey
  BY <1>1, GlobalIs DEF GlobalKey
<1>3. GlobalStore' = disk'[GlobalKey] /\ GlobalStore = disk[GlobalKey]
  BY <1>2 DEF GlobalStore
<1>4. GlobalStore.rows \subseteq GlobalStore'.rows
  BY <1>1, <1>2, <1>3, EditDoes
<1>5. \A p \in Projects : GlobalStore'.ops[p] = "completed" =>
          GlobalStore.ops[p] = "completed" \/ p \in DOMAIN active.at
  BY <1>1, <1>2, <1>3, EditDoes DEF Edit
<1> QED BY <1>1, <1>4, <1>5 DEF Serving
-----------------------------------------------------------------------------
(* The steps of a registration that write one store *)

Steps == {"idle", "next", "prepare", "open", "commit", "applying", "row", "verify",
          "complete", "copy", "receipt"}

LEMMA GotoDoes ==
    ASSUME cmd \in Commands, NEW pc \in Steps, Goto(pc)
    PROVE  /\ cmd' \in Commands /\ cmd'.pc = pc
           /\ cmd'.op = cmd.op /\ cmd'.project = cmd.project /\ cmd'.todo = cmd.todo
           /\ cmd'.plan = cmd.plan /\ cmd'.left = cmd.left /\ cmd'.now = cmd.now
  BY DEF Goto, Commands, Steps

\* At a step of a registration the global store is there.
LEMMA RegisterStepIs ==
    ASSUME Inv, cmd.pc \in RegisterSteps
    PROVE  /\ cmd.project \in Projects /\ mode \in {"starting", "normal"} /\ mode # "down"
           /\ active.kind = "set" /\ cmd \in Commands
           /\ GlobalKey \in DOMAIN disk /\ GlobalStore = disk[GlobalKey] /\ GlobalStore \in Stores
  BY GlobalIs DEF Inv, Shape, Serving, TypeOK

LEMMA OpsEdit ==
    ASSUME Inv, active.kind = "set", NEW p \in Projects, NEW st \in OpStates, InOps(p, st),
           UNCHANGED <<active, backup, recovery>>,
           st = "completed" => /\ p \in DOMAIN active.at /\ p \in GlobalStore.rows
                               /\ ProjectKey(p) \in DOMAIN disk /\ disk[ProjectKey(p)].receipt
    PROVE  \E t : Edit(GlobalKey, t) /\ t.rows = GlobalStore.rows /\ t.receipt = GlobalStore.receipt
<1> DEFINE t == [GlobalStore EXCEPT !.ops[p] = st]
<1>1. GlobalKey \in DOMAIN disk /\ GlobalStore = disk[GlobalKey] /\ GlobalStore \in Stores
  BY GlobalIs
<1>2. /\ t \in Stores /\ t.state = GlobalStore.state /\ t.gen = GlobalStore.gen
      /\ t.plan = GlobalStore.plan /\ t.rows = GlobalStore.rows /\ t.receipt = GlobalStore.receipt
      /\ \A q \in Projects : t.ops[q] = "completed" =>
            GlobalStore.ops[q] = "completed" \/ (q = p /\ st = "completed")
  BY <1>1 DEF Stores
<1>3. disk' = [disk EXCEPT ![GlobalKey] = t]
  BY <1>1 DEF InOps
<1> HIDE DEF t
<1>4. Edit(GlobalKey, t)
  BY <1>1, <1>2, <1>3 DEF Edit
<1> QED BY <1>2, <1>4

\* A registration goes on after it has written one store.
LEMMA EditStep ==
    ASSUME Inv, NEW k, NEW t, Edit(k, t), cmd.pc \in RegisterSteps, Quiet,
           cmd' \in Commands, cmd'.pc \in Steps \ {"copy", "receipt"},
           cmd'.pc = "idle" => cmd' = Idle,
           cmd'.pc \in RegisterSteps => cmd'.project = cmd.project,
           Registering'
    PROVE  Inv'
<1>1. TypeOK /\ mode' = mode /\ mode \in {"starting", "normal"} /\ cmd.project \in Projects
  BY RegisterStepIs DEF Inv, Quiet
<1>2. TypeOK'
  <2>1. DOMAIN disk' = DOMAIN disk /\ disk' \in [DOMAIN disk -> Stores]
    BY <1>1, EditDoes
  <2> QED BY <1>1, <2>1 DEF TypeOK, Quiet, Edit, recovery, budget
<1>3. AtRest' /\ Serving'
  BY <1>1, EditAtRest, EditServing
<1>4. Shape' /\ Copying'
  BY <1>1 DEF Shape, Copying, RegisterSteps, Steps
<1> QED BY <1>2, <1>3, <1>4 DEF Inv

LEMMA PrepareKeeps ==
    ASSUME Inv, Prepare
    PROVE  Inv'
<1>1. cmd.pc = "prepare" /\ InOps(cmd.project, "prepared") /\ Goto("open") /\ UNCHANGED active /\ Quiet
  BY DEF Prepare
<1>2. PICK t : Edit(GlobalKey, t)
  BY <1>1, RegisterStepIs, OpsEdit DEF RegisterSteps, OpStates, Quiet
<1>3. cmd' \in Commands /\ cmd'.pc = "open" /\ cmd'.project = cmd.project
  BY <1>1, RegisterStepIs, GotoDoes DEF RegisterSteps, Steps
<1> QED BY <1>1, <1>2, <1>3, EditStep DEF RegisterSteps, Steps, Registering

LEMMA BlockKeeps ==
    ASSUME Inv, Block
    PROVE  Inv'
<1>1. cmd.pc = "commit" /\ InOps(cmd.project, "blocked") /\ Goto("next") /\ UNCHANGED active /\ Quiet
  BY DEF Block
<1>2. PICK t : Edit(GlobalKey, t)
  BY <1>1, RegisterStepIs, OpsEdit DEF RegisterSteps, OpStates, Quiet
<1>3. cmd' \in Commands /\ cmd'.pc = "next"
  BY <1>1, RegisterStepIs, GotoDoes DEF RegisterSteps, Steps
<1> QED BY <1>1, <1>2, <1>3, EditStep DEF RegisterSteps, Steps, Registering

\* What a step that writes the global store leaves of the registration.
LEMMA GlobalEditLeaves ==
    ASSUME Inv, NEW t, Edit(GlobalKey, t), cmd.pc \in RegisterSteps, cmd'.project = cmd.project
    PROVE  /\ ProjectKey(cmd.project)' = ProjectKey(cmd.project)
           /\ DOMAIN disk' = DOMAIN disk
           /\ ProjectKey(cmd.project) \in DOMAIN disk =>
                 disk'[ProjectKey(cmd.project)] = disk[ProjectKey(cmd.project)]
           /\ GlobalStore' = t
<1>1. cmd.project \in Projects /\ active' = active /\ TypeOK
  BY RegisterStepIs DEF Edit, Inv
<1>2. ProjectKey(cmd.project)' = ProjectKey(cmd.project) /\ ProjectKey(cmd.project) # GlobalKey
  BY <1>1, GlobalIsNoProject DEF ProjectKey, GlobalKey
<1>3. GlobalKey' = GlobalKey
  BY <1>1 DEF GlobalKey
<1>4. GlobalStore' = t
  BY <1>1, <1>3, EditDoes DEF GlobalStore
<1> QED BY <1>1, <1>2, <1>4, EditDoes

LEMMA RecordApplyingKeeps ==
    ASSUME Inv, RecordApplying
    PROVE  Inv'
<1>1. cmd.pc = "applying" /\ InOps(cmd.project, "applying") /\ Goto("row") /\ UNCHANGED active /\ Quiet
  BY DEF RecordApplying
<1>2. PICK t : Edit(GlobalKey, t)
  BY <1>1, RegisterStepIs, OpsEdit DEF RegisterSteps, OpStates, Quiet
<1>3. cmd' \in Commands /\ cmd'.pc = "row" /\ cmd'.project = cmd.project
  BY <1>1, RegisterStepIs, GotoDoes DEF RegisterSteps, Steps
<1>4. cmd.pc \in RegisterSteps
  BY <1>1 DEF RegisterSteps
<1>5. Registering'
  BY <1>1, <1>2, <1>3, <1>4, GlobalEditLeaves DEF Inv, Registering
<1> QED BY <1>1, <1>2, <1>3, <1>4, <1>5, EditStep DEF RegisterSteps, Steps

LEMMA RegisterRowKeeps ==
    ASSUME Inv, RegisterRow
    PROVE  Inv'
<1> DEFINE t == [GlobalStore EXCEPT !.rows = @ \cup {cmd.project}]
<1>1. cmd.pc = "row" /\ Goto("verify") /\ UNCHANGED active /\ Quiet
  BY DEF RegisterRow
<1>2. /\ cmd.project \in Projects /\ GlobalKey \in DOMAIN disk /\ GlobalStore = disk[GlobalKey]
      /\ GlobalStore \in Stores /\ cmd \in Commands /\ cmd.pc \in RegisterSteps
  BY <1>1, RegisterStepIs DEF RegisterSteps
<1>3. /\ t \in Stores /\ t.state = GlobalStore.state /\ t.gen = GlobalStore.gen
      /\ t.plan = GlobalStore.plan /\ t.rows = GlobalStore.rows \cup {cmd.project}
      /\ t.receipt = GlobalStore.receipt /\ t.ops = GlobalStore.ops
  BY <1>2 DEF Stores
<1>4. disk' = [disk EXCEPT ![GlobalKey] = t]
  BY <1>2 DEF RegisterRow
<1> HIDE DEF t
<1>5. Edit(GlobalKey, t)
  BY <1>1, <1>2, <1>3, <1>4 DEF Edit, Quiet
<1>6. cmd' \in Commands /\ cmd'.pc = "verify" /\ cmd'.project = cmd.project
  BY <1>1, <1>2, GotoDoes DEF Steps
<1>7. Registering'
  BY <1>1, <1>2, <1>3, <1>5, <1>6, GlobalEditLeaves DEF Inv, Registering
<1> QED BY <1>1, <1>2, <1>5, <1>6, <1>7, EditStep DEF RegisterSteps, Steps

LEMMA CommitParticipantKeeps ==
    ASSUME Inv, CommitParticipant
    PROVE  Inv'
<1> DEFINE k == ProjectKey(cmd.project)
<1> DEFINE t == [disk[k] EXCEPT !.receipt = TRUE]
<1>1. cmd.pc = "commit" /\ Goto("applying") /\ UNCHANGED active /\ Quiet
  BY DEF CommitParticipant
<1>2. cmd.project \in Projects /\ cmd \in Commands /\ cmd.pc \in RegisterSteps /\ TypeOK
  BY <1>1, RegisterStepIs DEF RegisterSteps, Inv
<1>3. k \in DOMAIN disk /\ disk[k] \in Stores
  BY <1>1, <1>2 DEF Inv, Registering, TypeOK
<1>4. /\ t \in Stores /\ t.state = disk[k].state /\ t.gen = disk[k].gen
      /\ t.plan = disk[k].plan /\ t.rows = disk[k].rows
      /\ t.receipt = TRUE /\ t.ops = disk[k].ops
  BY <1>3 DEF Stores
<1>5. disk' = [disk EXCEPT ![k] = t]
  BY <1>3 DEF CommitParticipant
<1> HIDE DEF t
<1>6. Edit(k, t)
  BY <1>1, <1>3, <1>4, <1>5 DEF Edit, Quiet
<1>7. cmd' \in Commands /\ cmd'.pc = "applying" /\ cmd'.project = cmd.project
  BY <1>1, <1>2, GotoDoes DEF Steps
<1>8. ProjectKey(cmd.project)' = k
  BY <1>1, <1>7 DEF ProjectKey
<1>9. Registering'
  BY <1>2, <1>3, <1>4, <1>6, <1>7, <1>8, EditDoes DEF Registering
<1> QED BY <1>1, <1>2, <1>6, <1>7, <1>9, EditStep DEF RegisterSteps, Steps

LEMMA CompleteKeeps ==
    ASSUME Inv, Complete
    PROVE  Inv'
<1>1. /\ cmd.pc = "complete" /\ InOps(cmd.project, "completed") /\ UNCHANGED active /\ Quiet
      /\ cmd' = Idle \/ Goto("next")
  BY DEF Complete, Goto
<1>2. /\ cmd.project \in Projects /\ cmd \in Commands /\ cmd.pc \in RegisterSteps
      /\ active.kind = "set"
  BY <1>1, RegisterStepIs DEF RegisterSteps
<1>3. PICK t : Edit(GlobalKey, t)
  BY <1>1, <1>2, OpsEdit DEF OpStates, Quiet, Inv, Registering
<1>4. cmd' \in Commands /\ (cmd' = Idle \/ cmd'.pc = "next") /\ cmd'.pc \in {"idle", "next"}
  BY <1>1, <1>2, GotoDoes, IdleIs DEF Steps
<1>5. Registering'
  BY <1>4 DEF Registering
<1> QED BY <1>1, <1>2, <1>3, <1>4, <1>5, EditStep, IdleIs DEF RegisterSteps, Steps

LEMMA DamageKeeps ==
    ASSUME Inv, Damage
    PROVE  Inv'
<1>1. /\ mode = "down" /\ active.kind = "set" /\ cmd = Idle /\ TypeOK
      /\ UNCHANGED <<bindings, backup, recovery, mode, cmd, stops>>
      /\ faults' \in 0 .. MaxFaults
  BY RootAssumption DEF Damage, Inv, TypeOK
<1>2. Serving' /\ Shape' /\ Registering' /\ Copying'
  BY <1>1, IdleIs DEF Serving, Shape, Registering, Copying, RegisterSteps
<1>3. ASSUME NEW s \in DOMAIN active.at, UNCHANGED active,
             disk' = [disk EXCEPT ![<<s, active.at[s].loc>>].state = "damaged"]
      PROVE  Inv'
  <2> DEFINE k == <<s, active.at[s].loc>>
  <2> DEFINE t == [disk[k] EXCEPT !.state = "damaged"]
  <2>1. k \in DOMAIN disk /\ disk[k] \in Stores
    BY <1>1 DEF Inv, AtRest, ActiveIsWhole, Exists, TypeOK
  <2>2. /\ t \in Stores /\ t.state = "damaged" /\ t.gen = disk[k].gen /\ t.plan = disk[k].plan
        /\ t.rows = disk[k].rows /\ t.receipt = disk[k].receipt /\ t.ops = disk[k].ops
    BY <2>1 DEF Stores
  <2>3. disk' = [disk EXCEPT ![k] = t]
    BY <1>3, <2>1
  <2> HIDE DEF t
  <2>4. Edit(k, t)
    BY <1>1, <1>3, <2>1, <2>2, <2>3 DEF Edit
  <2>5. DOMAIN disk' = DOMAIN disk /\ disk' \in [DOMAIN disk -> Stores]
    BY <1>1, <2>4, EditDoes
  <2>6. TypeOK'
    BY <1>1, <1>3, <2>5 DEF TypeOK, recovery
  <2>7. AtRest'
    BY <2>4, EditAtRest
  <2> QED BY <1>2, <2>6, <2>7 DEF Inv
<1>4. ASSUME active' \in {NoSet, [kind |-> "garbled", at |-> <<>>]}, UNCHANGED disk
      PROVE  Inv'
  <2>1. active'.kind \in {"missing", "garbled"} /\ active'.at = <<>> /\ DOMAIN active'.at = {}
    BY <1>4 DEF NoSet
  <2>2. TypeOK'
    <3>1. PerScope(active'.at, Entries)
      BY <2>1 DEF PerScope
    <3> QED BY <1>1, <1>4, <2>1, <3>1 DEF TypeOK, IsDocument, recovery
  <2>3. AtRest'
    BY <1>1, <1>4, <2>1 DEF Inv, AtRest, ActiveIsWhole, ReceiptIsTrue, ActivatedOnce, Files, Exists,
       Document, Sources, PlanOK, GoodSource, Landed, Done, recovery
  <2> QED BY <1>2, <2>2, <2>3 DEF Inv
<1> QED BY <1>3, <1>4 DEF Damage
-----------------------------------------------------------------------------
(* Steps that leave the stores and the document alone *)

LEMMA StillAtRest ==
    ASSUME Inv, UNCHANGED <<active, disk, activated>>, receipts' \subseteq Done, Sources', Landed'
    PROVE  AtRest'
<1>1. AtRest /\ Done' = Done
  BY DEF Inv, Done
<1>2. Files' /\ ActiveIsWhole' /\ ActivatedOnce' /\ ReceiptIsTrue'
  BY <1>1 DEF AtRest, Files, ActiveIsWhole, ActivatedOnce, ReceiptIsTrue, Exists, Done
<1>3. Document'
  BY <1>1 DEF AtRest, Document, Vouched, GlobalStore, GlobalKey, ProjectKey
<1> QED BY <1>2, <1>3 DEF AtRest

LEMMA StillServing ==
    ASSUME Inv, UNCHANGED <<active, disk>>,
           mode' \in {"starting", "normal"} => mode \in {"starting", "normal"}
    PROVE  Serving'
  BY DEF Inv, Serving, GlobalStore, GlobalKey

\* The command or the mode changes, or a receipt is added.
LEMMA StillStep ==
    ASSUME Inv, UNCHANGED <<active, disk, backup, plans, activated>>,
           receipts' \subseteq Done, staged' \subseteq 1 .. Len(plans), bindings' \subseteq Projects,
           mode' \in {"down", "starting", "normal", "recovery"}, cmd' \in Commands,
           mode' = "down" => cmd' = Idle,
           stops' \in 0 .. MaxStops, faults' \in 0 .. MaxFaults,
           mode' \in {"starting", "normal"} => mode \in {"starting", "normal"},
           Shape', Registering', Copying'
    PROVE  Inv'
<1>1. TypeOK /\ AtRest /\ Done' = Done
  BY DEF Inv, Done
<1>2. Sources' /\ Landed'
  BY <1>1 DEF AtRest, Sources, PlanOK, GoodSource, Landed, Exists
<1>3. Done \subseteq 1 .. Len(plans)
  BY <1>1 DEF TypeOK, Done, Range
<1>4. TypeOK'
  BY <1>1, <1>3 DEF TypeOK
<1> QED BY <1>2, <1>4, StillAtRest, StillServing DEF Inv

\* No command is under way afterwards.
LEMMA IdleSteps ==
    ASSUME cmd' = Idle
    PROVE  Shape' /\ Registering' /\ Copying'
  BY IdleIs DEF Shape, Registering, Copying, RegisterSteps

\* What the variables of a state are.
LEMMA Typed ==
    ASSUME Inv
    PROVE  /\ mode \in {"down", "starting", "normal", "recovery"} /\ cmd \in Commands
           /\ stops \in 0 .. MaxStops /\ faults \in 0 .. MaxFaults
           /\ staged \subseteq 1 .. Len(plans) /\ bindings \subseteq Projects
           /\ receipts \subseteq Done /\ Done \subseteq 1 .. Len(plans)
           /\ Len(plans) \in Nat /\ Len(plans) <= MaxPlans
           /\ mode = "down" => cmd = Idle
<1>1. receipts \subseteq Done
  BY DEF Inv, AtRest, ReceiptIsTrue, Done
<1>2. Done \subseteq 1 .. Len(plans)
  BY DEF Inv, TypeOK, Done, Range
<1> QED BY <1>1, <1>2, LenProperties DEF Inv, TypeOK

LEMMA StopKeeps ==
    ASSUME Inv, Stop
    PROVE  Inv'
<1>1. /\ cmd' = Idle /\ mode' = "down"
      /\ UNCHANGED <<active, disk, backup, plans, activated, receipts, staged, bindings, stops, faults>>
  BY DEF Stop, recovery, budget
<1> QED BY <1>1, Typed, IdleIs, IdleSteps, StillStep

LEMMA FailKeeps ==
    ASSUME Inv, Fail
    PROVE  Inv'
<1>1. /\ cmd' = Idle /\ mode' \in {"recovery", mode} /\ mode' # "starting"
      /\ UNCHANGED <<active, disk, backup, plans, activated, receipts, staged, bindings, stops, faults>>
  BY DEF Fail, recovery, budget
<1> QED BY <1>1, Typed, IdleIs, IdleSteps, StillStep

LEMMA ReceiptKeeps ==
    ASSUME Inv, Receipt
    PROVE  Inv'
<1>1. /\ cmd' = Idle /\ receipts' = receipts \cup {cmd.plan}
      /\ UNCHANGED <<active, disk, backup, plans, activated, mode, staged, bindings, stops, faults>>
  BY DEF Receipt, WriteReceipt, budget
<1>2. cmd.plan \in Done
  BY DEF Receipt, Inv, Shape
<1> QED BY <1>1, <1>2, Typed, IdleIs, IdleSteps, StillStep

\* A new command of the request loop.
LEMMA NewSettle ==
    ASSUME NEW S \in SUBSET Projects
    PROVE  LET c == [Idle EXCEPT !.op = "settle", !.pc = "next", !.todo = S]
           IN  c \in Commands /\ c.pc = "next"
  BY IdleIs DEF Commands

LEMMA NewRegister ==
    ASSUME NEW p \in Projects
    PROVE  LET c == [Idle EXCEPT !.op = "register", !.pc = "prepare", !.project = p]
           IN  c \in Commands /\ c.pc = "prepare" /\ c.project = p
  BY IdleIs, GlobalIsNoProject DEF Commands

LEMMA RegisterKeeps ==
    ASSUME Inv, NEW p \in Projects, Register(p)
    PROVE  Inv'
<1>1. /\ mode = "normal" /\ bindings' \subseteq Projects
      /\ UNCHANGED <<active, disk, backup, plans, activated, receipts, staged, mode, stops, faults>>
  BY Typed DEF Register, recovery, budget
<1>2. /\ cmd' \in Commands
      /\ cmd'.pc = "next" \/ (cmd'.pc = "prepare" /\ cmd'.project \in Projects)
  <2>1. CASE cmd' = [Idle EXCEPT !.op = "register", !.pc = "prepare", !.project = p]
    BY <2>1, NewRegister
  <2>2. CASE cmd' = [Idle EXCEPT !.op = "settle", !.pc = "next", !.todo = IncompleteIn(GlobalStore)]
    BY <2>2, NewSettle DEF IncompleteIn
  <2> QED BY <2>1, <2>2 DEF Register
<1>3. Shape' /\ Registering' /\ Copying'
  BY <1>1, <1>2 DEF Shape, Registering, Copying, RegisterSteps
<1> QED BY <1>1, <1>2, <1>3, Typed, StillStep

LEMMA NextIncompleteKeeps ==
    ASSUME Inv, NextIncomplete
    PROVE  Inv'
<1>1. /\ cmd.pc = "next" /\ mode \in {"starting", "normal"} /\ cmd \in Commands
      /\ UNCHANGED <<active, disk, backup, plans, activated, receipts, staged, bindings, stops, faults>>
  BY DEF NextIncomplete, recovery, budget, Inv, Shape, TypeOK
<1>2. ASSUME NEW p \in cmd.todo, UNCHANGED mode,
             cmd' = [cmd EXCEPT !.pc = "open", !.project = p, !.todo = @ \ {p}]
      PROVE  Inv'
  <2>1. cmd' \in Commands /\ cmd'.pc = "open" /\ cmd'.project \in Projects
    BY <1>1, <1>2 DEF Commands, Scopes
  <2>2. Shape' /\ Registering' /\ Copying'
    BY <1>1, <1>2, <2>1 DEF Shape, Registering, Copying, RegisterSteps
  <2> QED BY <1>1, <1>2, <2>1, <2>2, Typed, StillStep
<1>3. CASE cmd' = Idle /\ mode' = "normal"
  BY <1>1, <1>3, Typed, IdleIs, IdleSteps, StillStep
<1> QED BY <1>2, <1>3 DEF NextIncomplete
-----------------------------------------------------------------------------
(* Backups and plans *)

LEMMA SeqOfMore ==
    ASSUME NEW S, NEW T, S \subseteq T, NEW s \in Seq(S)
    PROVE  s \in Seq(T)
  OBVIOUS

LEMMA BackupKeeps ==
    ASSUME Inv, Backup
    PROVE  Inv'
<1>1. /\ mode = "normal" /\ cmd = Idle /\ TypeOK /\ AtRest /\ Serving /\ active.kind = "set"
      /\ backup' = [s \in DOMAIN active.at |-> disk[<<s, active.at[s].loc>>]]
      /\ UNCHANGED <<active, disk, bindings, plans, staged, receipts, activated, mode, cmd, stops, faults>>
  BY DEF Backup, recovery, budget, Inv, Serving
<1>2. PerScope(backup', Stores)
  <2>1. \A s \in DOMAIN active.at : disk[<<s, active.at[s].loc>>] \in Stores
    BY <1>1 DEF TypeOK, AtRest, ActiveIsWhole, Exists
  <2> QED BY <1>1, <2>1 DEF PerScope, TypeOK, IsDocument
<1>3. TypeOK'
  BY <1>1, <1>2 DEF TypeOK
<1>4. Done' = Done /\ receipts \subseteq Done
  BY <1>1, Typed DEF Done
<1>5. GoodSource(backup)'
  <2>1. Global \in DOMAIN active.at /\ backup'[Global] = GlobalStore
    BY <1>1 DEF AtRest, Document, GlobalStore, GlobalKey
  <2>2. Sound(GlobalStore) /\ GlobalStore.plan \in {0} \cup Done
    BY <1>1, GlobalIs DEF AtRest, Document
  <2>3. ASSUME NEW p \in Projects, GlobalStore.ops[p] = "completed"
        PROVE  p \in DOMAIN active.at /\ backup'[p].receipt
    <3>1. p \in DOMAIN active.at
      BY <1>1, <2>3 DEF Serving
    <3>2. disk[ProjectKey(p)].receipt /\ ProjectKey(p) = <<p, active.at[p].loc>>
      BY <1>1, <2>3, <3>1 DEF AtRest, Document, Vouched, ProjectKey
    <3> QED BY <1>1, <3>1, <3>2
  <2> QED BY <1>1, <1>4, <2>1, <2>2, <2>3 DEF GoodSource, Sound
<1>6. Sources' /\ Landed'
  BY <1>1, <1>4, <1>5 DEF AtRest, Sources, PlanOK, GoodSource, Landed, Exists
<1>7. AtRest' /\ Serving'
  BY <1>1, <1>4, <1>6, StillAtRest, StillServing
<1> QED BY <1>1, <1>3, <1>7, IdleSteps DEF Inv

\* A plan from a good source to destinations of its own.
LEMMA PlanStep ==
    ASSUME Inv, NEW plan, Plan(plan), IsPlan(plan), GoodSource(plan.from),
           \A s \in DOMAIN plan.at :
              /\ plan.at[s].loc # First
              /\ plan.at[s].loc[1] = "plan" \/ plan.kind = "restore" =>
                    plan.at[s].loc = PlanDir(Len(plans) + 1)
    PROVE  Inv'
<1>1. /\ mode = "recovery" /\ cmd = Idle /\ TypeOK /\ AtRest /\ plans' = Append(plans, plan)
      /\ Len(plans) < MaxPlans
      /\ UNCHANGED <<active, disk, bindings, backup, staged, receipts, activated, mode, cmd, stops, faults>>
  BY DEF Plan, budget, Inv
<1>2. /\ plans \in Seq(Range(plans)) /\ Len(plans) \in Nat /\ Len(plans') = Len(plans) + 1
      /\ \A i \in 1 .. Len(plans) : plans'[i] = plans[i]
      /\ plans'[Len(plans) + 1] = plan
  BY <1>1, LenProperties, AppendProperties DEF TypeOK
<1>3. 1 .. Len(plans') = (1 .. Len(plans)) \cup {Len(plans) + 1} /\ Len(plans') <= MaxPlans
  BY <1>1, <1>2, RootAssumption
<1>4. Done' = Done /\ Done \subseteq 1 .. Len(plans) /\ receipts \subseteq Done
  BY <1>1, Typed DEF Done
<1>5. TypeOK'
  <2>1. plans' \in Seq(Range(plans'))
    <3>1. plans' \in Seq(Range(plans) \cup {plan})
      BY <1>1, <1>2, SeqOfMore, AppendProperties
    <3> QED BY <3>1, SeqOfRange
  <2>2. activated' \in Seq(1 .. Len(plans'))
    BY <1>1, <1>3, SeqOfMore DEF TypeOK
  <2>3. \A i \in 1 .. Len(plans') : IsPlan(plans'[i])
    BY <1>1, <1>2, <1>3 DEF TypeOK
  <2>4. staged' \cup receipts' \subseteq 1 .. Len(plans')
    BY <1>1, <1>3 DEF TypeOK
  <2> QED BY <1>1, <1>3, <2>1, <2>2, <2>3, <2>4 DEF TypeOK
<1>7. Sources'
  <2>1. \A i \in 1 .. Len(plans) : PlanOK(i)'
    BY <1>1, <1>2, <1>4 DEF AtRest, Sources, PlanOK, GoodSource, Sound
  <2>2. \A i \in {Len(plans) + 1} : PlanOK(i)'
    BY <1>2, <1>4 DEF PlanOK, GoodSource, Sound
  <2>3. backup' = <<>> \/ GoodSource(backup)'
    BY <1>1, <1>4 DEF AtRest, Sources, GoodSource, Sound
  <2> QED BY <1>3, <2>1, <2>2, <2>3 DEF Sources
<1>8. Landed'
  BY <1>1, <1>2, <1>4 DEF AtRest, Landed, Exists
<1>9. AtRest' /\ Serving'
  BY <1>1, <1>4, <1>7, <1>8, StillAtRest, StillServing
<1> QED BY <1>1, <1>5, <1>9, IdleSteps DEF Inv

LEMMA PlanRestoreKeeps ==
    ASSUME Inv, PlanRestore
    PROVE  Inv'
<1> DEFINE at == [s \in DOMAIN backup |->
                    [loc |-> PlanDir(Len(plans) + 1),
                     gen |-> Max({backup[s].gen, CurrentGen(s)}) + 1]]
           plan == [kind |-> "restore", expected |-> active, from |-> backup, at |-> at]
<1>1. backup # <<>> /\ Plan(plan) /\ TypeOK /\ AtRest
  BY DEF PlanRestore, Inv, AtRest, Sources
<1>2. GoodSource(backup)
  BY <1>1 DEF AtRest, Sources
<1>3. \A s \in DOMAIN at : at[s].gen <= MaxGeneration
  BY <1>1 DEF Plan
<1>4. PlanDir(Len(plans) + 1) \in Locators /\ PlanDir(Len(plans) + 1) # First
  <2>1. Len(plans) + 1 \in 1 .. MaxPlans
    BY <1>1, Typed, RootAssumption DEF Plan
  <2> QED BY <2>1, FirstIs DEF PlanDir, Locators
<1>5. ASSUME NEW s \in DOMAIN backup
      PROVE  Max({backup[s].gen, CurrentGen(s)}) \in 0 .. MaxGeneration
  <2>1. backup[s] \in Stores
    BY <1>1 DEF TypeOK, PerScope
  <2>2. backup[s].gen \in 0 .. MaxGeneration
    BY <2>1, RootAssumption DEF Stores
  <2>3. s \in DOMAIN active.at => active.at[s] \in Entries
    BY <1>1 DEF TypeOK, IsDocument, PerScope
  <2>4. CurrentGen(s) \in 0 .. MaxGeneration
    BY <2>3, RootAssumption DEF CurrentGen, Entries
  <2> DEFINE S == {backup[s].gen, CurrentGen(s)}
  <2>5. S \in SUBSET (0 .. MaxGeneration) /\ S # {}
    BY <2>2, <2>4
  <2>6. Max(S) \in S
    BY <2>5, MaxExists
  <2> QED BY <2>2, <2>4, <2>6
<1>6. \A s \in DOMAIN backup : at[s] \in Entries
  <2> SUFFICES ASSUME NEW s \in DOMAIN backup PROVE at[s] \in Entries
    OBVIOUS
  <2> DEFINE m == Max({backup[s].gen, CurrentGen(s)})
  <2>1. at[s] = [loc |-> PlanDir(Len(plans) + 1), gen |-> m + 1]
    OBVIOUS
  <2>2. m \in 0 .. MaxGeneration /\ at[s].gen <= MaxGeneration
    BY <1>3, <1>5
  <2> HIDE DEF m, at
  <2>3. m + 1 \in 1 .. MaxGeneration
    BY <2>1, <2>2, RootAssumption
  <2> QED BY <1>4, <2>1, <2>3 DEF Entries
<1>7. IsPlan(plan)
  BY <1>1, <1>6 DEF IsPlan, TypeOK, PerScope
<1>8. \A s \in DOMAIN plan.at : plan.at[s].loc = PlanDir(Len(plans) + 1)
  OBVIOUS
<1>9. plan.from = backup
  OBVIOUS
<1> HIDE DEF plan
<1> QED BY <1>1, <1>2, <1>4, <1>7, <1>8, <1>9, PlanStep

\* next_rebuild_generation finds a number that no store bears.
LEMMA NextGenerationIs ==
    ASSUME Inv
    PROVE  NextGeneration \in Nat /\ NextGeneration > 1
<1> DEFINE A == {active.at[s].gen : s \in DOMAIN active.at}
           B == {k[2][2] : k \in {k \in DOMAIN disk : k[2][1] = "generation"}}
           C == {disk[k].gen : k \in {k \in DOMAIN disk : disk[k].state = "whole"}}
           S == {1} \cup A \cup B \cup C
<1>0. TypeOK /\ 1 .. MaxGeneration \subseteq 0 .. MaxGeneration
  BY RootAssumption DEF Inv
<1>1. A \subseteq 1 .. MaxGeneration
  <2>1. \A s \in DOMAIN active.at : active.at[s] \in Entries
    BY <1>0 DEF TypeOK, IsDocument, PerScope
  <2> QED BY <2>1 DEF Entries
<1>2. B \subseteq 1 .. MaxGeneration
  <2>1. \A k \in DOMAIN disk : k[2] \in Locators
    BY <1>0 DEF TypeOK
  <2>2. \A l \in Locators : l[1] = "generation" => l[2] \in 1 .. MaxGeneration
    BY DEF Locators
  <2> QED BY <2>1, <2>2
<1>3. C \subseteq 1 .. MaxGeneration
  <2>1. \A k \in DOMAIN disk : disk[k] \in Stores
    BY <1>0 DEF TypeOK
  <2> QED BY <2>1 DEF Stores
<1>4. S \in SUBSET (0 .. MaxGeneration) /\ 1 \in S
  <2>1. 1 \in 0 .. MaxGeneration
    BY RootAssumption
  <2> HIDE DEF A, B, C
  <2> QED BY <1>0, <1>1, <1>2, <1>3, <2>1
<1>5. NextGeneration = 1 + Max(S)
  BY DEF NextGeneration
<1> HIDE DEF S
<1>6. Max(S) \in Nat /\ 1 <= Max(S)
  BY <1>4, MaxExists
<1> QED BY <1>5, <1>6

LEMMA RebuiltIs ==
    ASSUME Inv
    PROVE  /\ DOMAIN Rebuilt = {Global} \cup bindings
           /\ \A s \in DOMAIN Rebuilt : Rebuilt[s] \in Stores
           /\ GoodSource(Rebuilt)
<1>1. bindings \subseteq Projects
  BY Typed
<1>2. DOMAIN Rebuilt = {Global} \cup bindings
  BY DEF Rebuilt
<1>3. ASSUME NEW s \in {Global} \cup bindings
      PROVE  /\ Rebuilt[s] \in Stores /\ Rebuilt[s].plan = 0
             /\ Rebuilt[s].rows = IF s = Global THEN bindings ELSE {}
             /\ Rebuilt[s].receipt = (s # Global)
             /\ \A p \in Projects : Rebuilt[s].ops[p] = "completed" => s = Global /\ p \in bindings
  <2> DEFINE rows == IF s = Global THEN bindings ELSE {}
             ops == [p \in Projects |-> IF s = Global /\ p \in bindings THEN "completed" ELSE "none"]
  <2>1. Rebuilt[s] = [Fresh EXCEPT !.rows = rows, !.ops = ops, !.receipt = s # Global]
    BY DEF Rebuilt
  <2>2. rows \subseteq Projects /\ ops \in [Projects -> OpStates]
    BY <1>1 DEF OpStates
  <2>3. \A p \in Projects : ops[p] = "completed" => s = Global /\ p \in bindings
    OBVIOUS
  <2> HIDE DEF rows, ops
  <2>4. /\ Rebuilt[s] \in Stores /\ Rebuilt[s].plan = 0 /\ Rebuilt[s].rows = rows
        /\ Rebuilt[s].receipt = (s # Global) /\ Rebuilt[s].ops = ops
    BY <2>1, <2>2, FreshIs DEF Stores
  <2> QED BY <2>3, <2>4 DEF rows
<1>4. GoodSource(Rebuilt)
  BY <1>1, <1>2, <1>3, GlobalIsNoProject DEF GoodSource, Sound
<1> QED BY <1>2, <1>3, <1>4

LEMMA PlanRebuildKeeps ==
    ASSUME Inv, PlanRebuild
    PROVE  Inv'
<1> DEFINE e == [loc |-> Generation(NextGeneration), gen |-> NextGeneration]
           at == [s \in DOMAIN Rebuilt |-> e]
           plan == [kind |-> "rebuild", expected |-> active, from |-> Rebuilt, at |-> at]
<1>1. Plan(plan) /\ TypeOK
  BY Zenon DEF PlanRebuild, Inv
<1>2. /\ Global \in DOMAIN Rebuilt /\ DOMAIN Rebuilt \subseteq Scopes
      /\ \A s \in DOMAIN Rebuilt : Rebuilt[s] \in Stores
      /\ GoodSource(Rebuilt)
  BY RebuiltIs, Typed, GlobalIsNoProject
<1>3. at[Global].gen <= MaxGeneration
  BY <1>1, <1>2 DEF Plan
<1>4. NextGeneration \in Nat /\ NextGeneration > 1 /\ NextGeneration <= MaxGeneration
  BY <1>2, <1>3, NextGenerationIs
<1>5. NextGeneration \in 1 .. MaxGeneration
  BY <1>4, RootAssumption
<1>6. e \in Entries /\ e.loc # First /\ e.loc[1] = "generation"
  BY <1>4, <1>5, FirstIs DEF Entries, Locators, Generation
<1> HIDE DEF e
<1>7. /\ plan.kind = "rebuild" /\ plan.expected = active /\ plan.from = Rebuilt /\ plan.at = at
      /\ DOMAIN at = DOMAIN Rebuilt /\ at \in [DOMAIN Rebuilt -> Entries]
      /\ \A s \in DOMAIN at : at[s] = e
  BY <1>6
<1>8. Rebuilt \in [DOMAIN Rebuilt -> Stores]
  <2>1. Rebuilt = [s \in DOMAIN Rebuilt |-> Rebuilt[s]]
    BY DEF Rebuilt
  <2> QED BY <1>2, <2>1
<1> HIDE DEF plan, at
<1>9. IsPlan(plan)
  BY <1>1, <1>2, <1>7, <1>8 DEF IsPlan, TypeOK, PerScope
<1> QED BY <1>1, <1>2, <1>6, <1>7, <1>9, PlanStep

-----------------------------------------------------------------------------
(* Applying a plan *)

\* A plan, its source and its destinations.
LEMMA PlanIs ==
    ASSUME Inv, NEW i \in 1 .. Len(plans)
    PROVE  /\ IsPlan(plans[i]) /\ PlanOK(i)
           /\ DOMAIN plans[i].at = DOMAIN plans[i].from /\ DOMAIN plans[i].at \subseteq Scopes
           /\ Global \in DOMAIN plans[i].at
           /\ \A s \in DOMAIN plans[i].at : plans[i].at[s] \in Entries /\ plans[i].from[s] \in Stores
<1>1. IsPlan(plans[i]) /\ PlanOK(i)
  BY DEF Inv, TypeOK, AtRest, Sources
<1> QED BY <1>1 DEF IsPlan, PlanOK, GoodSource, PerScope

\* apply_restore and reconcile_rebuild_completion recognise only work that was done.
LEMMA CompletedIsDone ==
    ASSUME Inv, NEW i \in 1 .. Len(plans), Completed(i)
    PROVE  i \in Done
<1>1. AtRest /\ PlanOK(i) /\ Global \in DOMAIN plans[i].at
  BY PlanIs DEF Inv
<1>2. CASE plans[i].kind = "restore"
  <2>1. active.kind = "set" /\ active.at = plans[i].at
    BY <1>2 DEF Completed, RestoreCompleted, ActiveSet
  <2>2. active.at[Global].loc = PlanDir(i)
    BY <1>1, <1>2, <2>1 DEF PlanOK
  <2>3. active.at[Global].loc[1] = "plan" /\ active.at[Global].loc[2] = i
    BY <2>2 DEF PlanDir
  <2> QED BY <1>1, <2>1, <2>3 DEF AtRest, Document
<1>3. CASE plans[i].kind # "restore"
  <2>1. active.kind = "set" /\ Global \in DOMAIN active.at /\ GlobalStore.plan = i
    BY <1>3 DEF Completed, RebuildCompleted, Materialised, GlobalStore, GlobalKey
  <2> QED BY <1>1, <2>1 DEF AtRest, Document
<1> QED BY <1>2, <1>3

LEMMA ReconcileKeeps ==
    ASSUME Inv, NEW i \in 1 .. Len(plans), Reconcile(i)
    PROVE  Inv'
<1>1. /\ cmd = Idle /\ receipts' = receipts \cup {i} /\ Completed(i)
      /\ UNCHANGED <<active, disk, backup, plans, activated, mode, cmd, staged, bindings, stops, faults>>
  BY DEF Reconcile, Applying, WriteReceipt, budget
<1>2. i \in Done
  BY <1>1, CompletedIsDone
<1> QED BY <1>1, <1>2, Typed, IdleIs, IdleSteps, StillStep

\* A plan begins only when none of its stores exists, so it was never activated.
LEMMA BeginKeeps ==
    ASSUME Inv, NEW i \in 1 .. Len(plans), Begin(i), staged' \subseteq 1 .. Len(plans)
    PROVE  Inv'
<1>1. /\ mode = "recovery" /\ Current(i) /\ Unoccupied(i)
      /\ cmd' = [Idle EXCEPT !.op = "apply", !.pc = "copy", !.plan = i, !.left = DOMAIN plans[i].at]
      /\ UNCHANGED <<active, disk, bindings, backup, plans, receipts, mode, activated, stops, faults>>
  BY DEF Begin, Applying, budget
<1>2. DOMAIN plans[i].at \subseteq Scopes /\ Global \in DOMAIN plans[i].at
  BY PlanIs
<1>3. i \in 0 .. MaxPlans
  BY Typed, RootAssumption
<1>4. /\ cmd' \in Commands /\ cmd'.pc = "copy" /\ cmd'.plan = i /\ cmd'.left = DOMAIN plans[i].at
      /\ cmd'.now = {}
  BY <1>1, <1>2, <1>3, IdleIs DEF Commands
<1>5. i \notin Done
  BY <1>1, <1>2 DEF Inv, AtRest, Landed, Unoccupied
<1>6. ActiveIsWhole
  BY DEF Inv, AtRest
<1>7. Copying'
  <2>1. \A s \in DOMAIN plans[i].at : Destination(s)' = <<s, plans[i].at[s].loc>>
    BY <1>1, <1>4 DEF Destination
  <2>2. \A s \in DOMAIN plans[i].at : <<s, plans[i].at[s].loc>> \notin DOMAIN disk
    BY <1>1 DEF Unoccupied, Exists
  <2>3. \A s \in DOMAIN plans[i].at : s \in DOMAIN active.at => active.at[s].loc # plans[i].at[s].loc
    BY <1>6, <2>2 DEF ActiveIsWhole, Exists
  <2>4. active = plans[i].expected /\ Done' = Done
    BY <1>1 DEF Current, Done
  <2> QED BY <1>1, <1>4, <1>5, <2>1, <2>2, <2>3, <2>4 DEF Copying
<1>8. Shape' /\ Registering'
  BY <1>1, <1>4 DEF Shape, Registering, RegisterSteps
<1> QED BY <1>1, <1>4, <1>7, <1>8, Typed, StillStep

LEMMA BeginRestoreKeeps ==
    ASSUME Inv, NEW i \in 1 .. Len(plans), BeginRestore(i)
    PROVE  Inv'
  BY Typed, BeginKeeps DEF BeginRestore

LEMMA BeginRebuildKeeps ==
    ASSUME Inv, NEW i \in 1 .. Len(plans), BeginRebuild(i)
    PROVE  Inv'
<1>1. Begin(i) /\ staged' \subseteq 1 .. Len(plans)
  BY Typed DEF BeginRebuild
<1> QED BY <1>1, BeginKeeps

\* A store of the plan is written, away from the active set and the first generation.
LEMMA CopyStep ==
    ASSUME Inv, cmd.pc = "copy", NEW s \in cmd.left \cup cmd.now, NEW t \in Stores,
           DOMAIN disk' = DOMAIN disk \cup {Destination(s)},
           disk' \in [DOMAIN disk' -> Stores],
           disk'[Destination(s)] = t,
           \A x \in DOMAIN disk : x # Destination(s) => disk'[x] = disk[x],
           t.rows = plans[cmd.plan].from[s].rows, t.ops = plans[cmd.plan].from[s].ops,
           t.receipt = plans[cmd.plan].from[s].receipt,
           t.plan \in {plans[cmd.plan].from[s].plan, cmd.plan},
           cmd' \in Commands, cmd'.pc = "copy", cmd'.plan = cmd.plan,
           cmd'.left = cmd.left \ {s}, cmd'.now \subseteq {s},
           UNCHANGED active, Quiet
    PROVE  Inv'
<1> DEFINE i == cmd.plan
           d == Destination(s)
<1>0. /\ TypeOK /\ AtRest /\ Copying /\ mode = "recovery" /\ i \in 1 .. Len(plans)
      /\ UNCHANGED <<bindings, backup, plans, staged, receipts, activated, mode, stops, faults>>
      /\ Done' = Done
  BY DEF Inv, Shape, Quiet, recovery, budget, Done
<1>1. /\ s \in DOMAIN plans[i].at /\ d = <<s, plans[i].at[s].loc>> /\ s \in Scopes
      /\ plans[i].at[s].loc \in Locators /\ plans[i].at[s].loc # First
      /\ s \in DOMAIN active.at => active.at[s].loc # plans[i].at[s].loc
  <2>1. s \in DOMAIN plans[i].at /\ (s \in DOMAIN active.at => active.at[s].loc # plans[i].at[s].loc)
    BY <1>0 DEF Copying
  <2>2. /\ plans[i].at[s] \in Entries /\ s \in Scopes /\ PlanOK(i)
    BY <1>0, <2>1, PlanIs
  <2> QED BY <2>1, <2>2 DEF Destination, Entries, PlanOK
<1>2. TypeOK'
  <2>1. DOMAIN disk' \subseteq Scopes \X Locators
    BY <1>0, <1>1 DEF TypeOK
  <2> QED BY <1>0, <2>1 DEF TypeOK
<1>3. \A x \in Scopes : <<x, First>> # d
  BY <1>1
<1>4. \A x \in DOMAIN active.at : <<x, active.at[x].loc>> # d
  BY <1>1
<1>5. \A p \in Projects : ProjectKey(p)' = ProjectKey(p) /\ ProjectKey(p) # d
  BY <1>1, <1>3, <1>4 DEF ProjectKey
<1>6. ActiveIsWhole'
  BY <1>0, <1>4 DEF AtRest, ActiveIsWhole, Exists
<1>7. Files'
  <2>1. \A x \in Scopes : /\ Exists(x, First)' = Exists(x, First)
                          /\ Exists(x, First) => disk'[<<x, First>>] = disk[<<x, First>>]
    BY <1>3 DEF Exists
  <2>2. \A x \in DOMAIN disk' : x[1] = Global => Sound(disk'[x])
    <3>1. s = Global => Sound(t)
      BY <1>0, PlanIs DEF PlanOK, GoodSource, Sound
    <3> QED BY <1>0, <1>1, <3>1 DEF AtRest, Files
  <2> QED BY <1>0, <2>1, <2>2, GlobalIsNoProject DEF AtRest, Files
<1>8. Document'
  <2>1. ASSUME active.kind = "set" PROVE GlobalStore' = GlobalStore
    BY <1>0, <1>4, <2>1, GlobalIs DEF AtRest, Document, GlobalStore, GlobalKey
  <2>2. active.kind = "set" => Vouched'
    BY <1>0, <1>5, <2>1 DEF AtRest, Document, Vouched
  <2> QED BY <1>0, <2>1, <2>2 DEF AtRest, Document
<1>9. Sources' /\ Landed' /\ ReceiptIsTrue' /\ ActivatedOnce'
  BY <1>0 DEF AtRest, Sources, PlanOK, GoodSource, Landed, Exists, ReceiptIsTrue, ActivatedOnce, Done
<1>10. Copying'
  <2>1. \A x \in DOMAIN plans[i].at : Destination(x)' = Destination(x) /\ (Destination(x) = d => x = s)
    BY <1>0, <1>1 DEF Destination
  <2>2. \A x \in cmd'.left : Destination(x)' \notin DOMAIN disk'
    BY <1>0, <2>1 DEF Copying
  <2>3. \A x \in DOMAIN plans[i].at \ cmd'.left :
           /\ Destination(x)' \in DOMAIN disk'
           /\ disk'[Destination(x)].rows = plans[i].from[x].rows
           /\ disk'[Destination(x)].ops = plans[i].from[x].ops
           /\ disk'[Destination(x)].receipt = plans[i].from[x].receipt
           /\ disk'[Destination(x)].plan \in {plans[i].from[x].plan, i}
    <3> SUFFICES ASSUME NEW x \in DOMAIN plans[i].at \ cmd'.left
                 PROVE  /\ Destination(x) \in DOMAIN disk'
                        /\ disk'[Destination(x)].rows = plans[i].from[x].rows
                        /\ disk'[Destination(x)].ops = plans[i].from[x].ops
                        /\ disk'[Destination(x)].receipt = plans[i].from[x].receipt
                        /\ disk'[Destination(x)].plan \in {plans[i].from[x].plan, i}
      BY <2>1
    <3>1. CASE x = s
      BY <3>1
    <3>2. CASE x # s
      BY <1>0, <2>1, <3>2 DEF Copying
    <3> QED BY <3>1, <3>2
  <2>4. /\ active' = plans'[i].expected /\ i \notin Done'
        /\ cmd'.left \cup cmd'.now \subseteq DOMAIN plans[i].at
        /\ cmd'.left \cap cmd'.now = {}
        /\ \A x \in cmd'.left \cup cmd'.now :
              x \in DOMAIN active'.at => active'.at[x].loc # plans[i].at[x].loc
    BY <1>0, <1>1 DEF Copying
  <2>5. \A x \in DOMAIN plans[i].at \ cmd'.left : Destination(x)' = Destination(x)
    BY <2>1
  <2> HIDE DEF i
  <2>6. cmd'.plan = i /\ plans' = plans
    BY <1>0 DEF i
  <2> QED BY <2>2, <2>3, <2>4, <2>5, <2>6 DEF Copying
<1>11. Serving' /\ Shape' /\ Registering'
  BY <1>0 DEF Serving, Shape, Registering, RegisterSteps
<1> QED BY <1>2, <1>6, <1>7, <1>8, <1>9, <1>10, <1>11 DEF Inv, AtRest

LEMMA CopyBytesKeeps ==
    ASSUME Inv, NEW s \in cmd.left, CopyBytes(s)
    PROVE  Inv'
<1> DEFINE from == plans[cmd.plan].from[s]
           t == [from EXCEPT !.state = "partial"]
           d == Destination(s)
<1>1. /\ cmd.pc = "copy" /\ UNCHANGED active /\ Quiet /\ TypeOK
      /\ disk' = [k \in DOMAIN disk \cup {d} |-> IF k = d THEN t ELSE disk[k]]
      /\ cmd' = [cmd EXCEPT !.left = @ \ {s}, !.now = {s}]
  BY DEF CopyBytes, Inv
<1>2. from \in Stores /\ s \in Scopes
  BY <1>1, PlanIs DEF Inv, Shape, Copying
<1>3. /\ t \in Stores /\ t.rows = from.rows /\ t.ops = from.ops /\ t.receipt = from.receipt
      /\ t.plan = from.plan
  BY <1>2 DEF Stores
<1> HIDE DEF t, from, d
<1>4. /\ DOMAIN disk' = DOMAIN disk \cup {d} /\ disk' \in [DOMAIN disk' -> Stores]
      /\ disk'[d] = t /\ \A x \in DOMAIN disk : x # d => disk'[x] = disk[x]
  BY <1>1, <1>3 DEF TypeOK
<1>5. /\ cmd' \in Commands /\ cmd'.pc = "copy" /\ cmd'.plan = cmd.plan
      /\ cmd'.left = cmd.left \ {s} /\ cmd'.now = {s}
  BY <1>1, <1>2 DEF TypeOK, Commands
<1> QED BY <1>1, <1>3, <1>4, <1>5, CopyStep DEF from, d

LEMMA CopyHeaderKeeps ==
    ASSUME Inv, CopyHeader
    PROVE  Inv'
<1>1. PICK s \in cmd.now :
          disk' = [disk EXCEPT ![Destination(s)] =
                     [disk[Destination(s)] EXCEPT
                        !.state = "whole", !.gen = plans[cmd.plan].at[s].gen,
                        !.plan = IF plans[cmd.plan].kind = "rebuild" THEN cmd.plan
                                 ELSE disk[Destination(s)].plan]]
  BY DEF CopyHeader
<1> DEFINE from == plans[cmd.plan].from[s]
           gen == plans[cmd.plan].at[s].gen
           d == Destination(s)
           made == IF plans[cmd.plan].kind = "rebuild" THEN cmd.plan ELSE disk[d].plan
           t == [disk[d] EXCEPT !.state = "whole", !.gen = gen, !.plan = made]
<1>2. /\ cmd.pc = "copy" /\ UNCHANGED active /\ Quiet /\ TypeOK /\ cmd \in Commands
      /\ cmd' = [cmd EXCEPT !.now = {}] /\ cmd.plan \in 1 .. Len(plans) /\ cmd.plan \in Nat
  BY Typed DEF CopyHeader, Inv, TypeOK, Shape
<1>3. /\ s \in DOMAIN plans[cmd.plan].at /\ s \notin cmd.left /\ d \in DOMAIN disk /\ disk[d] \in Stores
      /\ disk[d].rows = from.rows /\ disk[d].ops = from.ops /\ disk[d].receipt = from.receipt
      /\ disk[d].plan \in {from.plan, cmd.plan}
  BY <1>2 DEF Inv, Copying, TypeOK
<1>4. gen \in 1 .. MaxGeneration
  BY <1>2, <1>3, PlanIs DEF Entries
<1>5. disk' = [disk EXCEPT ![d] = t]
  BY <1>1, <1>3
<1>6. made \in Nat /\ made \in {from.plan, cmd.plan}
  BY <1>2, <1>3 DEF Stores
<1> HIDE DEF from, gen, d, made
<1>7. /\ t \in Stores /\ t.rows = from.rows /\ t.ops = from.ops /\ t.receipt = from.receipt
      /\ t.plan = made
  BY <1>3, <1>4, <1>6 DEF Stores
<1> HIDE DEF t
<1>8. /\ DOMAIN disk' = DOMAIN disk \cup {d} /\ disk' \in [DOMAIN disk' -> Stores]
      /\ disk'[d] = t /\ \A x \in DOMAIN disk : x # d => disk'[x] = disk[x]
  BY <1>2, <1>3, <1>5, <1>7 DEF TypeOK
<1>9. /\ cmd' \in Commands /\ cmd'.pc = "copy" /\ cmd'.plan = cmd.plan
      /\ cmd'.left = cmd.left \ {s} /\ cmd'.now = {}
  BY <1>2, <1>3 DEF Commands
<1> QED BY <1>2, <1>6, <1>7, <1>8, <1>9, CopyStep DEF from, d

\* The plan's stores are whole when the document that names them is written.
LEMMA ActivateKeeps ==
    ASSUME Inv, Activate
    PROVE  Inv'
<1> DEFINE i == cmd.plan
           at == plans[i].at
           from == plans[i].from
<1>1. /\ cmd.pc = "copy" /\ cmd.left = {} /\ cmd.now = {} /\ Materialised(at)
      /\ active' = ActiveSet(at) /\ activated' = Append(activated, i) /\ Goto("receipt")
      /\ UNCHANGED <<disk, bindings, backup, plans, staged, receipts, mode, stops, faults>>
  BY DEF Activate, budget
<1>2. /\ TypeOK /\ AtRest /\ mode = "recovery" /\ i \in 1 .. Len(plans) /\ i \notin Done
      /\ \A s \in DOMAIN at :
            /\ Destination(s) \in DOMAIN disk
            /\ disk[Destination(s)].ops = from[s].ops
            /\ disk[Destination(s)].receipt = from[s].receipt
            /\ disk[Destination(s)].plan \in {from[s].plan, i}
      /\ \A s \in DOMAIN at : Destination(s) = <<s, at[s].loc>>
  BY <1>1 DEF Inv, Shape, Copying, Destination
<1>3. /\ IsPlan(plans[i]) /\ PlanOK(i) /\ DOMAIN at = DOMAIN from /\ Global \in DOMAIN at
  BY <1>2, PlanIs
<1>4. active'.kind = "set" /\ active'.at = at
  BY <1>1 DEF ActiveSet
<1>5. /\ cmd' \in Commands /\ cmd'.pc = "receipt" /\ cmd'.plan = i
  BY <1>1, <1>2, GotoDoes DEF TypeOK, Steps
<1>6. /\ activated \in Seq(1 .. Len(plans)) /\ activated' \in Seq(1 .. Len(plans))
      /\ Len(activated) \in Nat /\ Len(activated') = Len(activated) + 1
      /\ \A n \in 1 .. Len(activated) : activated'[n] = activated[n]
      /\ activated'[Len(activated) + 1] = i
      /\ DOMAIN activated = 1 .. Len(activated) /\ DOMAIN activated' = 1 .. Len(activated')
  BY <1>1, <1>2, AppendProperties, LenProperties DEF TypeOK
<1>7. Done' = Done \cup {i}
  <2>1. 1 .. Len(activated') = (1 .. Len(activated)) \cup {Len(activated) + 1}
    BY <1>6
  <2> QED BY <1>6, <2>1 DEF Done, Range
<1>8. TypeOK'
  BY <1>1, <1>2, <1>3, <1>4, <1>5, <1>6 DEF TypeOK, IsPlan, IsDocument
<1>9. ActiveIsWhole'
  BY <1>1, <1>4 DEF ActiveIsWhole, Materialised, Exists
<1>10. ReceiptIsTrue'
  BY <1>1, <1>2, <1>7 DEF AtRest, ReceiptIsTrue, Done
<1>11. ActivatedOnce'
  <2>1. \A n \in 1 .. Len(activated) : activated[n] # i
    BY <1>2, <1>6 DEF Done, Range
  <2>2. \A a, b \in 1 .. Len(activated) : activated[a] = activated[b] => a = b
    BY <1>2, <1>6 DEF AtRest, ActivatedOnce, IsInjective
  <2>3. \A a \in 1 .. Len(activated') : a \in 1 .. Len(activated) \/ a = Len(activated) + 1
    BY <1>6
  <2> QED BY <1>6, <2>1, <2>2, <2>3 DEF ActivatedOnce, IsInjective
<1>12. Files'
  BY <1>1, <1>2 DEF AtRest, Files, Exists
<1>13. Document'
  <2>1. GlobalKey' = Destination(Global) /\ GlobalStore' = disk[Destination(Global)]
    BY <1>1, <1>2, <1>3, <1>4 DEF GlobalStore, GlobalKey
  <2>2. at[Global].loc # First /\ (at[Global].loc[1] = "plan" => at[Global].loc[2] = i)
    BY <1>3 DEF PlanOK, PlanDir
  <2>3. GoodSource(from)
    BY <1>3 DEF PlanOK
  <2>4. GlobalStore'.plan \in {0} \cup Done'
    BY <1>2, <1>3, <1>7, <2>1, <2>3 DEF GoodSource
  <2>5. Vouched'
    <3> SUFFICES ASSUME NEW p \in Projects, GlobalStore'.ops[p] = "completed"
                 PROVE  ProjectKey(p)' \in DOMAIN disk' /\ disk'[ProjectKey(p)'].receipt
      BY DEF Vouched
    <3>1. p \in DOMAIN at /\ from[p].receipt
      BY <1>2, <1>3, <2>1, <2>3 DEF GoodSource
    <3>2. ProjectKey(p)' = Destination(p)
      BY <1>2, <1>4, <3>1 DEF ProjectKey
    <3> QED BY <1>1, <1>2, <3>1, <3>2
  <2> QED BY <1>3, <1>4, <1>7, <2>2, <2>4, <2>5 DEF Document
<1>14. Sources'
  BY <1>1, <1>2, <1>7 DEF AtRest, Sources, PlanOK, GoodSource
<1>15. Landed'
  BY <1>1, <1>2, <1>3, <1>7 DEF AtRest, Landed, Exists
<1>16. Serving' /\ Shape' /\ Registering' /\ Copying'
  BY <1>1, <1>2, <1>5, <1>7 DEF Serving, Shape, Registering, Copying, RegisterSteps
<1> QED BY <1>8, <1>9, <1>10, <1>11, <1>12, <1>13, <1>14, <1>15, <1>16 DEF Inv, AtRest
-----------------------------------------------------------------------------
(* Writing the active set anew *)

\* What a refresh of the active set leaves on disk and in the document.
LEMMA RefreshDoes ==
    ASSUME Inv, NEW rows \in SUBSET Projects, NEW extra \in SUBSET (Scopes \X Locators),
           Refresh(active.at, rows, extra)
    PROVE  /\ DOMAIN disk \subseteq DOMAIN disk' /\ DOMAIN disk' \subseteq Scopes \X Locators
           /\ disk' \in [DOMAIN disk' -> Stores] /\ extra \subseteq DOMAIN disk'
           /\ \A x \in DOMAIN disk : disk'[x] = disk[x]
           /\ \A x \in DOMAIN disk' : x \notin DOMAIN disk => disk'[x] = Fresh
           /\ active'.kind = "set" /\ DOMAIN active'.at = {Global} \cup rows
           /\ PerScope(active'.at, Entries)
           /\ \A s \in {Global} \cup rows :
                 /\ active'.at[s].loc = LocatorIn(active.at, s)
                 /\ <<s, LocatorIn(active.at, s)>> \in DOMAIN disk'
                 /\ active'.at[s].gen = disk'[<<s, LocatorIn(active.at, s)>>].gen
<1> DEFINE keys == NamedStores(active.at, rows) \cup extra
           at == [s \in {Global} \cup rows |->
                    [loc |-> LocatorIn(active.at, s),
                     gen |-> disk'[<<s, LocatorIn(active.at, s)>>].gen]]
<1>1. TypeOK
  BY DEF Inv
<1>2. disk' = [k \in DOMAIN disk \cup keys |-> IF k \in DOMAIN disk THEN disk[k] ELSE Fresh]
  BY DEF Refresh, WithStores
<1>3. active' = ActiveSet(at)
  BY DEF Refresh, Refreshed
<1>4. \A s \in Scopes : LocatorIn(active.at, s) \in Locators
  BY <1>1, FirstIs DEF LocatorIn, TypeOK, IsDocument, PerScope, Entries
<1>5. {Global} \cup rows \subseteq Scopes
  BY GlobalIsNoProject
<1>6. keys \subseteq Scopes \X Locators
  BY <1>4, <1>5 DEF NamedStores
<1>7. \A s \in {Global} \cup rows : <<s, LocatorIn(active.at, s)>> \in keys
  BY DEF NamedStores
<1>8. extra \subseteq keys
  OBVIOUS
<1> HIDE DEF keys
<1>9. /\ DOMAIN disk' = DOMAIN disk \cup keys
      /\ \A x \in DOMAIN disk : disk'[x] = disk[x]
      /\ \A x \in DOMAIN disk' : x \notin DOMAIN disk => disk'[x] = Fresh
  BY <1>2
<1>10. disk' \in [DOMAIN disk' -> Stores]
  BY <1>1, <1>2, FreshIs DEF TypeOK
<1>11. DOMAIN disk' \subseteq Scopes \X Locators
  BY <1>1, <1>6, <1>9 DEF TypeOK
<1>12. active'.kind = "set" /\ active'.at = at
  BY <1>3 DEF ActiveSet
<1>13. ASSUME NEW s \in {Global} \cup rows
       PROVE  disk'[<<s, LocatorIn(active.at, s)>>].gen \in 1 .. MaxGeneration
  BY <1>7, <1>9, <1>10 DEF Stores
<1>14. at \in [{Global} \cup rows -> Entries]
  BY <1>4, <1>5, <1>13 DEF Entries
<1>15. PerScope(active'.at, Entries)
  BY <1>5, <1>12, <1>14 DEF PerScope
<1> QED BY <1>7, <1>8, <1>9, <1>10, <1>11, <1>12, <1>15

\* The refreshed set rests on the same global store, or on a new one without a document.
LEMMA RefreshAtRest ==
    ASSUME Inv, active.kind \in {"set", "missing"}, NEW extra \in SUBSET (Scopes \X Locators),
           Refresh(active.at, RowsAt(active.at), extra), UNCHANGED <<backup, recovery>>
    PROVE  /\ AtRest'
           /\ active'.kind = "set" /\ DOMAIN active'.at = {Global} \cup GlobalStore'.rows
           /\ \A p \in Projects : GlobalStore'.ops[p] = "completed" => p \in DOMAIN active'.at
           /\ active.kind = "set" => GlobalStore' = GlobalStore
<1> DEFINE rows == RowsAt(active.at)
           g == LocatorIn(active.at, Global)
<1>0. /\ TypeOK /\ AtRest /\ Done' = Done
      /\ UNCHANGED <<backup, plans, receipts, activated>>
  BY DEF Inv, recovery, Done
<1>1. rows \in SUBSET Projects
  BY <1>0 DEF RowsAt, Exists, TypeOK, Stores
<1>2. /\ DOMAIN disk \subseteq DOMAIN disk'
      /\ \A x \in DOMAIN disk : disk'[x] = disk[x]
      /\ \A x \in DOMAIN disk' : x \notin DOMAIN disk => disk'[x] = Fresh
      /\ active'.kind = "set" /\ DOMAIN active'.at = {Global} \cup rows
      /\ \A s \in {Global} \cup rows :
            /\ active'.at[s].loc = LocatorIn(active.at, s)
            /\ <<s, LocatorIn(active.at, s)>> \in DOMAIN disk'
            /\ active'.at[s].gen = disk'[<<s, LocatorIn(active.at, s)>>].gen
  BY <1>1, RefreshDoes
<1>3. GlobalStore' = disk'[<<Global, g>>] /\ <<Global, g>> \in DOMAIN disk' /\ active'.at[Global].loc = g
  BY <1>2 DEF GlobalStore, GlobalKey
<1>4. active.kind = "missing" => active.at = <<>> /\ DOMAIN active.at = {}
  BY <1>0 DEF AtRest, Document
<1>5. active.kind = "missing" => \A s : LocatorIn(active.at, s) = First
  BY <1>4 DEF LocatorIn
<1>6. active.kind = "set" => /\ Global \in DOMAIN active.at /\ g = active.at[Global].loc
                             /\ <<Global, g>> \in DOMAIN disk /\ GlobalStore = disk[<<Global, g>>]
  BY <1>0, GlobalIs DEF AtRest, Document, LocatorIn
<1>7. active.kind = "set" => GlobalStore' = GlobalStore
  BY <1>2, <1>3, <1>6
<1>8. rows = GlobalStore'.rows
  BY <1>2, <1>3, FreshIs DEF RowsAt, Exists
<1>9. \A x \in DOMAIN disk' : x[1] = Global => Sound(disk'[x])
  <2>1. Sound(Fresh)
    BY FreshIs DEF Sound
  <2> QED BY <1>0, <1>2, <2>1 DEF AtRest, Files
<1>10. \A p \in Projects : GlobalStore'.ops[p] = "completed" => p \in rows
  BY <1>3, <1>8, <1>9 DEF Sound
<1>11. ActiveIsWhole'
  <2> SUFFICES ASSUME NEW s \in {Global} \cup rows
               PROVE  disk'[<<s, LocatorIn(active.at, s)>>].state # "partial"
    BY <1>2 DEF ActiveIsWhole, Exists
  <2>1. s \in Scopes
    BY <1>1, GlobalIsNoProject
  <2>2. CASE <<s, LocatorIn(active.at, s)>> \notin DOMAIN disk
    BY <1>2, <2>2, FreshIs
  <2>3. CASE <<s, LocatorIn(active.at, s)>> \in DOMAIN disk /\ s \in DOMAIN active.at
    BY <1>0, <1>2, <2>3 DEF AtRest, ActiveIsWhole, LocatorIn
  <2>4. CASE <<s, LocatorIn(active.at, s)>> \in DOMAIN disk /\ s \notin DOMAIN active.at
    BY <1>0, <1>2, <2>1, <2>4 DEF AtRest, Files, Exists, LocatorIn
  <2> QED BY <2>2, <2>3, <2>4
<1>12. Files'
  <2>1. \A s \in Scopes : Exists(s, First)' =>
           disk'[<<s, First>>].state # "partial" /\ disk'[<<s, First>>].plan = 0
    BY <1>0, <1>2, FreshIs DEF AtRest, Files, Exists
  <2>2. ASSUME Exists(Global, First)', NEW p \in Projects, disk'[<<Global, First>>].ops[p] = "completed"
        PROVE  Exists(p, First)' /\ disk'[<<p, First>>].receipt
    <3>1. <<Global, First>> \in DOMAIN disk /\ disk'[<<Global, First>>] = disk[<<Global, First>>]
      BY <1>2, <2>2, FreshIs DEF Exists
    <3>2. <<p, First>> \in DOMAIN disk /\ disk[<<p, First>>].receipt
      BY <1>0, <2>2, <3>1 DEF AtRest, Files, Exists
    <3> QED BY <1>2, <3>2 DEF Exists
  <2> QED BY <1>9, <2>1, <2>2 DEF Files
<1>13. Vouched'
  <2> SUFFICES ASSUME NEW p \in Projects, GlobalStore'.ops[p] = "completed"
               PROVE  ProjectKey(p)' \in DOMAIN disk' /\ disk'[ProjectKey(p)'].receipt
    BY DEF Vouched
  <2>1. ProjectKey(p)' = <<p, LocatorIn(active.at, p)>> /\ ProjectKey(p) = <<p, LocatorIn(active.at, p)>>
    BY <1>2, <1>10 DEF ProjectKey, LocatorIn
  <2>2. CASE active.kind = "set"
    BY <1>0, <1>2, <1>7, <2>1, <2>2 DEF AtRest, Document, Vouched
  <2>3. CASE active.kind = "missing"
    <3>1. GlobalStore' = disk'[<<Global, First>>] /\ <<Global, First>> \in DOMAIN disk'
      BY <1>3, <1>5, <2>3
    <3>2. ProjectKey(p)' = <<p, First>>
      BY <1>5, <2>1, <2>3
    <3> QED BY <1>12, <3>1, <3>2 DEF Files, Exists
  <2> QED BY <2>2, <2>3
<1>14. GlobalStore'.plan \in {0} \cup Done
  <2>1. CASE active.kind = "set"
    BY <1>0, <1>7, <2>1 DEF AtRest, Document
  <2>2. CASE active.kind = "missing"
    BY <1>3, <1>5, <1>12, <2>2, GlobalIsNoProject DEF Files, Exists
  <2> QED BY <2>1, <2>2
<1>15. g = First => \A s \in {Global} \cup rows : LocatorIn(active.at, s) = First
  <2>1. CASE active.kind = "set"
    BY <1>0, <1>6, <2>1 DEF AtRest, Document, LocatorIn
  <2> QED BY <1>5, <2>1
<1>16. g[1] = "plan" => g[2] \in Done
  BY <1>0, <1>5, <1>6, FirstIs DEF AtRest, Document
<1>17. Document'
  BY <1>0, <1>2, <1>3, <1>13, <1>14, <1>15, <1>16 DEF Document
<1>18. Sources' /\ Landed' /\ ReceiptIsTrue' /\ ActivatedOnce'
  BY <1>0, <1>2 DEF AtRest, Sources, PlanOK, GoodSource, Landed, Exists, ReceiptIsTrue,
     ActivatedOnce, Done
<1> QED BY <1>2, <1>7, <1>8, <1>10, <1>11, <1>12, <1>17, <1>18 DEF AtRest

\* A step that refreshes the active set and then goes on.
LEMMA RefreshStep ==
    ASSUME Inv, active.kind \in {"set", "missing"}, NEW extra \in SUBSET (Scopes \X Locators),
           Refresh(active.at, RowsAt(active.at), extra), UNCHANGED <<bindings, backup, recovery, faults>>,
           stops' \in 0 .. MaxStops, mode' \in {"starting", "normal"}, cmd' \in Commands,
           cmd'.pc \in {"next"} \cup RegisterSteps \/ cmd' = Idle,
           cmd'.pc \in RegisterSteps => cmd'.project \in Projects,
           Registering'
    PROVE  Inv'
<1>1. TypeOK
  BY DEF Inv
<1>2. RowsAt(active.at) \in SUBSET Projects
  BY <1>1 DEF RowsAt, Exists, TypeOK, Stores
<1>3. TypeOK'
  <2>1. /\ DOMAIN disk' \subseteq Scopes \X Locators /\ disk' \in [DOMAIN disk' -> Stores]
        /\ active'.kind = "set" /\ PerScope(active'.at, Entries)
    BY <1>2, RefreshDoes
  <2> QED BY <1>1, <2>1 DEF TypeOK, IsDocument, recovery
<1>4. AtRest' /\ Serving'
  BY RefreshAtRest DEF Serving
<1>5. Shape' /\ Copying'
  BY IdleSteps DEF Shape, Copying, RegisterSteps
<1> QED BY <1>3, <1>4, <1>5 DEF Inv

LEMMA StartKeeps ==
    ASSUME Inv, Start
    PROVE  Inv'
<1>1. /\ mode = "down" /\ cmd = Idle /\ stops' \in 0 .. MaxStops
      /\ UNCHANGED <<bindings, backup, recovery, faults>>
  BY Typed, RootAssumption DEF Start
<1>2. ASSUME Opens, Refresh(active.at, RowsAt(active.at), {}), mode' = "starting",
             cmd' = [Idle EXCEPT !.op = "settle", !.pc = "next",
                       !.todo = IncompleteIn(disk'[<<Global, LocatorIn(active.at, Global)>>])]
      PROVE  Inv'
  <2>1. active.kind \in {"set", "missing"}
    BY <1>2 DEF Opens, Inv, TypeOK, IsDocument
  <2>2. cmd' \in Commands /\ cmd'.pc = "next"
    BY <1>2, NewSettle DEF IncompleteIn
  <2>3. Registering' /\ {} \in SUBSET (Scopes \X Locators) /\ cmd'.pc \notin RegisterSteps
    BY <2>2 DEF Registering, RegisterSteps
  <2> QED BY <1>1, <1>2, <2>1, <2>2, <2>3, RefreshStep
<1>3. ASSUME mode' = "recovery", UNCHANGED <<active, disk, cmd>>
      PROVE  Inv'
  BY <1>1, <1>3, Typed, IdleIs, IdleSteps, StillStep DEF recovery
<1> QED BY <1>2, <1>3 DEF Start

\* The rows a registration refreshes the active set for.
LEMMA RowsOfSet ==
    ASSUME Inv, active.kind = "set"
    PROVE  RowsAt(active.at) = GlobalStore.rows
<1>1. Global \in DOMAIN active.at
  BY DEF Inv, AtRest, Document
<1>2. LocatorIn(active.at, Global) = active.at[Global].loc
  BY <1>1 DEF LocatorIn
<1> QED BY <1>2, GlobalIs DEF RowsAt, Exists, GlobalKey

\* An empty store is made beside the others, if it is not there yet.
LEMMA NewStoreStep ==
    ASSUME Inv, active.kind = "set", NEW key \in Projects \X Locators,
           disk' = WithStores({key}), UNCHANGED <<active, bindings, backup, recovery, mode, budget>>,
           cmd' \in Commands, mode # "down", Shape', Registering', Copying'
    PROVE  Inv'
<1>1. /\ TypeOK /\ AtRest /\ Serving /\ Done' = Done
      /\ UNCHANGED <<active, bindings, backup, plans, staged, receipts, activated, mode, stops, faults>>
  BY DEF Inv, recovery, budget, Done
<1>2. /\ DOMAIN disk' = DOMAIN disk \cup {key}
      /\ \A x \in DOMAIN disk : disk'[x] = disk[x]
      /\ \A x \in DOMAIN disk' : x \notin DOMAIN disk => disk'[x] = Fresh
  BY DEF WithStores
<1>3. TypeOK'
  <2>1. disk' \in [DOMAIN disk' -> Stores]
    BY <1>1, FreshIs DEF WithStores, TypeOK
  <2> QED BY <1>1, <1>2, <2>1, GlobalIsNoProject DEF TypeOK
<1>4. GlobalKey' = GlobalKey /\ GlobalKey \in DOMAIN disk /\ GlobalStore' = GlobalStore
  BY <1>1, <1>2, GlobalIs DEF GlobalKey, GlobalStore
<1>5. ActiveIsWhole' /\ Landed'
  <2>1. ASSUME NEW s \in DOMAIN active.at
        PROVE  /\ <<s, active.at[s].loc>> \in DOMAIN disk'
               /\ disk'[<<s, active.at[s].loc>>].state # "partial"
               /\ disk'[<<s, active.at[s].loc>>].gen = active.at[s].gen
    <3>1. /\ <<s, active.at[s].loc>> \in DOMAIN disk
          /\ disk[<<s, active.at[s].loc>>].state # "partial"
          /\ disk[<<s, active.at[s].loc>>].gen = active.at[s].gen
      BY <1>1 DEF AtRest, ActiveIsWhole, Exists
    <3> QED BY <1>2, <3>1
  <2>2. Landed'
    BY <1>1, <1>2 DEF AtRest, Landed, Exists
  <2> QED BY <1>1, <2>1, <2>2 DEF ActiveIsWhole, Exists
<1>6. Files'
  <2>1. ASSUME NEW s \in Scopes, <<s, First>> \in DOMAIN disk'
        PROVE  disk'[<<s, First>>].state # "partial" /\ disk'[<<s, First>>].plan = 0
    <3>1. CASE <<s, First>> \in DOMAIN disk
      <4>1. disk[<<s, First>>].state # "partial" /\ disk[<<s, First>>].plan = 0
        BY <1>1, <3>1 DEF AtRest, Files, Exists
      <4> QED BY <1>2, <3>1, <4>1
    <3>2. CASE <<s, First>> \notin DOMAIN disk
      BY <1>2, <2>1, <3>2, FreshIs
    <3> QED BY <3>1, <3>2
  <2>2. \A x \in DOMAIN disk' : x[1] = Global => x \in DOMAIN disk
    BY <1>2, GlobalIsNoProject
  <2>3. \A x \in DOMAIN disk' : x[1] = Global => Sound(disk'[x])
    BY <1>1, <1>2, <2>2 DEF AtRest, Files
  <2>4. Exists(Global, First)' => Exists(Global, First) /\ disk'[<<Global, First>>] = disk[<<Global, First>>]
    BY <1>2, <2>2 DEF Exists
  <2>5. Exists(Global, First)' =>
           \A p \in Projects : disk'[<<Global, First>>].ops[p] = "completed" =>
               Exists(p, First)' /\ disk'[<<p, First>>].receipt
    BY <1>1, <1>2, <2>4 DEF AtRest, Files, Exists
  <2> QED BY <2>1, <2>3, <2>5 DEF Files, Exists
<1>7. Document'
  <2>1. \A p \in Projects : ProjectKey(p)' = ProjectKey(p)
    BY <1>1 DEF ProjectKey
  <2>2. Vouched'
    BY <1>1, <1>2, <1>4, <2>1 DEF AtRest, Document, Vouched
  <2> QED BY <1>1, <1>4, <2>2 DEF AtRest, Document
<1>8. Sources' /\ ReceiptIsTrue' /\ ActivatedOnce'
  BY <1>1 DEF AtRest, Sources, PlanOK, GoodSource, ReceiptIsTrue, ActivatedOnce, Done
<1>9. Serving'
  BY <1>1, <1>4 DEF Serving
<1> QED BY <1>3, <1>5, <1>6, <1>7, <1>8, <1>9 DEF Inv, AtRest

LEMMA OpenStoreKeeps ==
    ASSUME Inv, OpenStore
    PROVE  Inv'
<1> DEFINE key == ProjectKey(cmd.project)
<1>1. /\ cmd.pc = "open" /\ Goto("commit") /\ Quiet
      /\ \/ Refresh(active.at, GlobalStore.rows, {key})
         \/ disk' = WithStores({key}) /\ active' = active
  BY DEF OpenStore
<1>2. /\ cmd.project \in Projects /\ mode \in {"starting", "normal"} /\ active.kind = "set"
      /\ cmd \in Commands /\ TypeOK /\ GlobalStore \in Stores
  BY <1>1, RegisterStepIs DEF RegisterSteps, Inv
<1>3. cmd' \in Commands /\ cmd'.pc = "commit" /\ cmd'.project = cmd.project
  BY <1>1, <1>2, GotoDoes DEF Steps
<1>4. key = <<cmd.project, LocatorIn(active.at, cmd.project)>>
  BY DEF ProjectKey, LocatorIn
<1>5. {key} \in SUBSET (Scopes \X Locators)
  BY <1>2, <1>4, FirstIs, GlobalIsNoProject DEF LocatorIn, TypeOK, IsDocument, PerScope, Entries
<1>6. key \in Projects \X Locators
  BY <1>2, <1>4, FirstIs, GlobalIsNoProject DEF LocatorIn, TypeOK, IsDocument, PerScope, Entries
<1> HIDE DEF key
<1>7. CASE Refresh(active.at, GlobalStore.rows, {key})
  <2>1. Refresh(active.at, RowsAt(active.at), {key})
    BY <1>2, <1>7, RowsOfSet
  <2>2. Registering'
    <3>1. GlobalStore.rows \in SUBSET Projects
      BY <1>2 DEF Stores
    <3>2. /\ key \in DOMAIN disk' /\ DOMAIN active'.at = {Global} \cup GlobalStore.rows
          /\ \A s \in {Global} \cup GlobalStore.rows : active'.at[s].loc = LocatorIn(active.at, s)
      BY <1>5, <1>7, <3>1, RefreshDoes
    <3>3. DOMAIN active.at \subseteq {Global} \cup GlobalStore.rows
      BY <1>2 DEF Inv, Serving
    <3>4. ProjectKey(cmd.project)' = key
      BY <1>3, <1>4, <3>2, <3>3 DEF ProjectKey, LocatorIn
    <3> QED BY <1>3, <3>2, <3>4 DEF Registering
  <2> QED BY <1>1, <1>2, <1>3, <1>5, <2>1, <2>2, RefreshStep, Typed DEF Quiet, RegisterSteps, budget
<1>8. CASE disk' = WithStores({key}) /\ active' = active
  <2>1. ProjectKey(cmd.project)' = key /\ key \in DOMAIN disk'
    BY <1>3, <1>8 DEF key, ProjectKey, WithStores
  <2>2. Shape' /\ Registering' /\ Copying'
    BY <1>1, <1>2, <1>3, <2>1 DEF Quiet, Shape, Registering, Copying, RegisterSteps
  <2> QED BY <1>1, <1>2, <1>3, <1>6, <1>8, <2>2, NewStoreStep DEF Quiet
<1> QED BY <1>1, <1>7, <1>8

LEMMA PlanBackupKeeps ==
    ASSUME Inv, PlanBackup
    PROVE  Inv'
<1>1. /\ mode = "normal" /\ cmd = Idle /\ cmd' = Idle /\ Quiet
      /\ Refresh(active.at, GlobalStore.rows, {})
  BY DEF PlanBackup
<1>2. active.kind = "set"
  BY <1>1 DEF Inv, Serving
<1>3. Refresh(active.at, RowsAt(active.at), {}) /\ {} \in SUBSET (Scopes \X Locators)
  BY <1>1, <1>2, RowsOfSet
<1>4. Registering' /\ cmd' \in Commands /\ cmd'.pc \notin RegisterSteps
  BY <1>1, IdleSteps, IdleIs DEF RegisterSteps
<1> QED BY <1>1, <1>2, <1>3, <1>4, RefreshStep, Typed DEF Quiet, budget

LEMMA VerifyAllKeeps ==
    ASSUME Inv, VerifyAll
    PROVE  Inv'
<1> DEFINE key == ProjectKey(cmd.project)
<1>1. cmd.pc = "verify" /\ Refresh(active.at, GlobalStore.rows, {}) /\ Goto("complete") /\ Quiet
  BY DEF VerifyAll
<1>2. /\ cmd.project \in Projects /\ mode \in {"starting", "normal"} /\ active.kind = "set"
      /\ cmd \in Commands /\ GlobalStore \in Stores
  BY <1>1, RegisterStepIs DEF RegisterSteps
<1>3. cmd' \in Commands /\ cmd'.pc = "complete" /\ cmd'.project = cmd.project
  BY <1>1, <1>2, GotoDoes DEF Steps
<1>4. Refresh(active.at, RowsAt(active.at), {}) /\ {} \in SUBSET (Scopes \X Locators)
  BY <1>1, <1>2, RowsOfSet
<1>5. Registering'
  <2>1. GlobalStore.rows \in SUBSET Projects
    BY <1>2 DEF Stores
  <2>2. /\ DOMAIN disk \subseteq DOMAIN disk' /\ \A x \in DOMAIN disk : disk'[x] = disk[x]
        /\ DOMAIN active'.at = {Global} \cup GlobalStore.rows
        /\ \A s \in {Global} \cup GlobalStore.rows : active'.at[s].loc = LocatorIn(active.at, s)
    BY <1>1, <1>4, <2>1, RefreshDoes
  <2>3. key \in DOMAIN disk /\ disk[key].receipt /\ cmd.project \in GlobalStore.rows
    BY <1>1 DEF Inv, Registering
  <2>4. key = <<cmd.project, LocatorIn(active.at, cmd.project)>>
    BY DEF ProjectKey, LocatorIn
  <2>5. ProjectKey(cmd.project)' = key
    BY <1>3, <2>2, <2>3, <2>4 DEF ProjectKey
  <2>6. GlobalStore' = GlobalStore
    BY <1>2, <1>4, <1>1, RefreshAtRest DEF Quiet
  <2> QED BY <1>3, <2>2, <2>3, <2>5, <2>6 DEF Registering
<1> QED BY <1>1, <1>2, <1>3, <1>4, <1>5, RefreshStep, Typed DEF Quiet, RegisterSteps, budget
-----------------------------------------------------------------------------
(* The invariant, and the theorems *)

LEMMA StutterKeeps ==
    ASSUME Inv, UNCHANGED vars
    PROVE  Inv'
<1>1. UNCHANGED <<active, disk, bindings, backup, plans, staged, receipts, mode, cmd, activated,
                  stops, faults>>
  BY DEF vars
<1>2. Shape' /\ Registering' /\ Copying'
  BY <1>1 DEF Inv, Shape, Registering, Copying, ProjectKey, GlobalStore, GlobalKey, Destination, Done
<1> QED BY <1>1, <1>2, Typed, StillStep

LEMMA InvStep ==
    ASSUME Inv, [Next]_vars
    PROVE  Inv'
<1>1. CASE Start
  BY <1>1, StartKeeps
<1>2. CASE Stop
  BY <1>2, StopKeeps
<1>3. CASE Fail
  BY <1>3, FailKeeps
<1>4. CASE Damage
  BY <1>4, DamageKeeps
<1>5. CASE \E p \in Projects : Register(p)
  BY <1>5, RegisterKeeps
<1>6. CASE NextIncomplete
  BY <1>6, NextIncompleteKeeps
<1>7. CASE Prepare
  BY <1>7, PrepareKeeps
<1>8. CASE OpenStore
  BY <1>8, OpenStoreKeeps
<1>9. CASE Block
  BY <1>9, BlockKeeps
<1>10. CASE CommitParticipant
  BY <1>10, CommitParticipantKeeps
<1>11. CASE RecordApplying
  BY <1>11, RecordApplyingKeeps
<1>12. CASE RegisterRow
  BY <1>12, RegisterRowKeeps
<1>13. CASE VerifyAll
  BY <1>13, VerifyAllKeeps
<1>14. CASE Complete
  BY <1>14, CompleteKeeps
<1>15. CASE Backup
  BY <1>15, BackupKeeps
<1>16. CASE PlanRestore
  BY <1>16, PlanRestoreKeeps
<1>17. CASE PlanRebuild
  BY <1>17, PlanRebuildKeeps
<1>18. CASE \E i \in 1 .. Len(plans) : Reconcile(i) \/ BeginRestore(i) \/ BeginRebuild(i)
  BY <1>18, ReconcileKeeps, BeginRestoreKeeps, BeginRebuildKeeps
<1>19. CASE \E s \in cmd.left : CopyBytes(s)
  BY <1>19, CopyBytesKeeps
<1>20. CASE CopyHeader
  BY <1>20, CopyHeaderKeeps
<1>21. CASE Activate
  BY <1>21, ActivateKeeps
<1>22. CASE Receipt
  BY <1>22, ReceiptKeeps
<1>23. CASE PlanBackup
  BY <1>23, PlanBackupKeeps
<1>24. CASE UNCHANGED vars
  BY <1>24, StutterKeeps
<1> QED BY <1>1, <1>2, <1>3, <1>4, <1>5, <1>6, <1>7, <1>8, <1>9, <1>10, <1>11, <1>12, <1>13, <1>14,
           <1>15, <1>16, <1>17, <1>18, <1>19, <1>20, <1>21, <1>22, <1>23, <1>24 DEF Next

\* The inductive invariant holds of every behaviour.
THEOREM InvHolds == Spec => []Inv
<1>1. Init => Inv
  BY InitInv
<1>2. Inv /\ [Next]_vars => Inv'
  BY InvStep
<1> QED BY <1>1, <1>2, PTL DEF Spec

\* Every variable of the management root keeps its shape for any number of projects,
\* plans, stops and faults; no generation number passes the last one there is, because
\* a plan that would is refused.
THEOREM RootTypeCorrect == Spec => []TypeOK
<1>1. Inv => TypeOK
  BY DEF Inv
<1> QED BY <1>1, InvHolds, PTL

\* Wherever the controller stops while it registers, backs up, restores or rebuilds, the
\* document names stores that were copied to the end and are of the generation it says.
THEOREM RootActiveIsWhole == Spec => []ActiveIsWhole
<1>1. Inv => ActiveIsWhole
  BY DEF Inv, AtRest
<1> QED BY <1>1, InvHolds, PTL

\* In normal service a registration called completed is visible in the global store, the
\* active set and the project's own store, whatever was interrupted before.
THEOREM RootCompletedIsWhole == Spec => []CompletedIsWhole
<1>1. ASSUME Inv PROVE CompletedIsWhole
  <2> SUFFICES ASSUME mode = "normal", NEW p \in Projects, GlobalStore.ops[p] = "completed"
               PROVE  /\ p \in GlobalStore.rows /\ p \in DOMAIN active.at
                      /\ disk[ProjectKey(p)].receipt
    BY DEF CompletedIsWhole
  <2>1. active.kind = "set" /\ p \in DOMAIN active.at
    BY <1>1 DEF Inv, Serving
  <2>2. p \in GlobalStore.rows
    BY <1>1, <2>1, GlobalIs DEF Sound
  <2>3. disk[ProjectKey(p)].receipt
    BY <1>1, <2>1 DEF Inv, AtRest, Document, Vouched
  <2> QED BY <2>1, <2>2, <2>3
<1> QED BY <1>1, InvHolds, PTL

\* A receipt is written only for a plan that did replace the active set, also when a retry
\* finds the work done and writes what the lost attempt did not.
THEOREM RootReceiptIsTrue == Spec => []ReceiptIsTrue
<1>1. Inv => ReceiptIsTrue
  BY DEF Inv, AtRest
<1> QED BY <1>1, InvHolds, PTL

\* No plan replaces the active set twice, however often it is tried and whatever became of
\* the document in between: its stores are still there, and a plan begins only without them.
THEOREM RootActivatedOnce == Spec => []ActivatedOnce
<1>1. Inv => ActivatedOnce
  BY DEF Inv, AtRest
<1> QED BY <1>1, InvHolds, PTL

\* A plan replaces the document it was made for: nothing activated or registered between
\* the check at its start and the write at its end is lost.
THEOREM RootReplacesWhatWasPlanned == Spec => ReplacesWhatWasPlanned
<1>1. ASSUME Inv, [Next]_vars, activated' # activated
      PROVE  active = plans[Last(activated')].expected
  <2>1. Activate
    BY <1>1 DEF Next, vars, recovery, Quiet, Start, Stop, Fail, Damage, Register, NextIncomplete,
       Prepare,
       OpenStore, Block, CommitParticipant, RecordApplying, RegisterRow, VerifyAll, Complete, PlanBackup,
       Backup,
       PlanRestore, PlanRebuild, Plan, Reconcile, BeginRestore, BeginRebuild, Begin, CopyBytes,
       CopyHeader, Receipt
  <2>2. active = plans[cmd.plan].expected
    BY <1>1, <2>1 DEF Activate, Inv, Copying
  <2>3. activated \in Seq(1 .. Len(plans)) /\ cmd.plan \in 1 .. Len(plans)
    BY <1>1, <2>1 DEF Inv, TypeOK, Shape, Activate
  <2>4. activated' = Append(activated, cmd.plan)
    BY <2>1 DEF Activate
  <2>5. Last(activated') = cmd.plan
    BY <2>3, <2>4, AppendProperties, LenProperties DEF Last
  <2> QED BY <2>2, <2>5
<1>2. Inv /\ [Next]_vars => (activated' # activated => active = plans[Last(activated')].expected)
  BY <1>1
<1> QED BY <1>2, InvHolds, PTL DEF Spec, ReplacesWhatWasPlanned
=============================================================================
