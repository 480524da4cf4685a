------------------------------- MODULE TrustStore -------------------------------
(***************************************************************************)
(* Trust in tool packages (apps/star-controller/src/trust_store.rs) and    *)
(* where the controller relies on it: the request loop that grants,        *)
(* revokes and admits invocations by the store in memory, and the worker   *)
(* of an operation that loads the durable store again just before it       *)
(* starts a process.                                                       *)
(*                                                                         *)
(* The loop handles one request at a time, and begins every request with   *)
(* the automatic grants of the personal_auto profile.  Workers run beside  *)
(* it.  A package is what record_matches_package compares, abstracted to a *)
(* version; the probe of a candidate goes through the same lease as an     *)
(* invocation and is not kept apart from one.  Of an operation the module  *)
(* keeps what a revoke does to it: the cancel on its record, the token of  *)
(* its worker, and how far its process is.                                 *)
(***************************************************************************)
EXTENDS Naturals, FiniteSets

CONSTANTS Packages,     \* package ids
          Release,      \* the packages of the release source; the others are the user's
          Ops,          \* operations
          MaxVersion,   \* versions of a package
          MaxFaults,    \* writes of the trust or the Operation store that fail
          MaxStops,     \* ends of the controller
          Renames,      \* a new version of a package has new tool ids
          None          \* no record

ASSUME TrustAssumption ==
    /\ Release \subseteq Packages
    /\ MaxVersion \in Nat \ {0}
    /\ {MaxFaults, MaxStops} \subseteq Nat
    /\ Renames \in BOOLEAN

VARIABLES version,    \* the package the registry holds under each id
          mem,        \* TrustStore.file of the running controller
          disk,       \* tool-trust.v1.json
          loop,       \* the request loop: phase and automatic grants to make
          ops,        \* operations of the tools
          late,       \* the expiry of the grants that have one is past
          faults,     \* failed writes so far
          stops,      \* ends of the controller so far
          allowed,    \* what somebody asked to trust since the last revoke
          answered,   \* the last trust command answered with success
          met,        \* live cancellable operations whose package a revoke with
                      \* cancel_running, answered with success, has met
          doomed      \* those of them the answer lists as cancelled

history == <<allowed, answered, met, doomed>>
vars == <<version, mem, disk, loop, ops, late, faults, stops, history>>

Versions == 1 .. MaxVersion
Records == [version : Versions, expires : BOOLEAN, dead : BOOLEAN]
Files == [records : [Packages -> Records \cup {None}], revoked : SUBSET Packages]
OpStates == {"unused", "queued", "starting", "leased", "running", "ended"}
Unused == [state |-> "unused", pkg |-> None, ver |-> 1, stoppable |-> FALSE,
           intent |-> "none", cancel |-> FALSE]
Over == [Unused EXCEPT !.state = "ended"]

\* The keys and values of the state.
TypeOK ==
    /\ version \in [Packages -> Versions]
    /\ mem \in Files /\ disk.file \in Files /\ disk.legacy \in BOOLEAN
    /\ loop \in [phase : {"down", "idle", "scan", "handle"}, grants : SUBSET Packages]
    /\ ops \in [Ops -> [state : OpStates, pkg : Packages \cup {None}, ver : Versions,
                        stoppable : BOOLEAN, intent : {"none", "asked", "sealed"},
                        cancel : BOOLEAN]]
    /\ late \in BOOLEAN /\ faults \in 0 .. MaxFaults /\ stops \in 0 .. MaxStops
    /\ allowed \in [Packages -> SUBSET (Versions \X BOOLEAN)]
    /\ answered \in [Packages -> {"none", "granted", "revoked"}]
    /\ met \subseteq Ops /\ doomed \subseteq met

Empty == [records |-> [p \in Packages |-> None], revoked |-> {}]

\* TrustStore::load.  The older format knew manifest hashes only: its packages are loaded
\* as revoked.  The file itself stays as it is until the next write.
Load(d) ==
    IF d.legacy
    THEN [records |-> [p \in Packages |-> None],
          revoked |-> d.file.revoked \cup {p \in Packages : d.file.records[p] # None}]
    ELSE d.file

\* Init: no file, or the file of an older release that trusted some of the packages.
Init ==
    /\ version = [p \in Packages |-> 1]
    /\ \/ disk = [file |-> Empty, legacy |-> FALSE]
       \/ \E old \in SUBSET Packages :
             disk = [file |-> [Empty EXCEPT !.records = [p \in Packages |->
                                 IF p \in old
                                 THEN [version |-> 1, expires |-> FALSE, dead |-> FALSE]
                                 ELSE None]],
                     legacy |-> TRUE]
    /\ mem = Load(disk)
    /\ loop = [phase |-> "idle", grants |-> {}]
    /\ ops = [o \in Ops |-> Unused]
    /\ late = FALSE /\ faults = 0 /\ stops = 0
    /\ allowed = [p \in Packages |-> {}]
    /\ answered = [p \in Packages |-> IF p \in Load(disk).revoked THEN "revoked" ELSE "none"]
    /\ met = {} /\ doomed = {}

\* TrustStore::state of package p at version v.
State(f, p, v) ==
    IF p \in f.revoked \/ f.records[p] = None THEN "untrusted"
    ELSE IF f.records[p].dead \/ f.records[p].version # v THEN "untrusted"
    ELSE IF f.records[p].expires /\ late THEN "expired" ELSE "trusted"

\* effective_trust_state.
Effective(p) ==
    IF p \in mem.revoked THEN "untrusted"
    ELSE IF p \in Release THEN "trusted" ELSE State(mem, p, version[p])

Failed(n) == faults' = faults + n /\ faults' <= MaxFaults

\* TrustStore::persist of file f: it is written; or a call up to the rename fails; or the
\* access list cannot be set after the rename.
Persist(f, ok) ==
    LET written == [file |-> f, legacy |-> FALSE]
    IN  disk' \in IF ok THEN {written} ELSE {disk, written}

\* The record the command asks for is already there.
SameGrant(p, expires) ==
    /\ p \notin mem.revoked /\ mem.records[p] # None
    /\ mem.records[p].expires = expires /\ mem.records[p].version = version[p]

Granted(p, expires) ==
    [records |-> [mem.records EXCEPT ![p] = [version |-> version[p], expires |-> expires,
                                             dead |-> FALSE]],
     revoked |-> mem.revoked \ {p}]

\* TrustStore::grant: memory changes before the file, and an equal record is an answer.
\* `asked` is for the books only: the profile's own grant counts where no revoke stands.
Grant(p, expires, ok, asked) ==
    /\ expires => ~late
    /\ IF SameGrant(p, expires)
       THEN ok /\ UNCHANGED <<mem, disk, faults>>
       ELSE /\ mem' = Granted(p, expires)
            /\ Persist(Granted(p, expires), ok) /\ Failed(IF ok THEN 0 ELSE 1)
    /\ allowed' = IF asked \/ answered[p] # "revoked" \/ allowed[p] # {}
                  THEN [allowed EXCEPT ![p] = @ \cup {<<version[p], expires>>}] ELSE allowed
    /\ answered' = [answered EXCEPT ![p] = IF ok /\ (asked \/ answered[p] # "revoked") THEN "granted" ELSE @]

-----------------------------------------------------------------------------
\* The request loop.

\* Faulty variant of Candidates: a revoked package is a candidate too.
CandidatesEvenRevoked ==
    {p \in Packages \ Release : State(mem, p, version[p]) # "trusted"}

\* The packages personal_auto trusts by itself.
Candidates ==
    {p \in Packages \ Release : p \notin mem.revoked /\ State(mem, p, version[p]) # "trusted"}

\* A request arrives; under personal_auto the scan of the registry lists the automatic
\* grants.  The profile is read again for every request.
Receive ==
    /\ loop.phase = "idle"
    /\ \E granted \in {Candidates, {}} : loop' = [phase |-> "scan", grants |-> granted]
    /\ UNCHANGED <<version, mem, disk, ops, late, faults, stops, history>>

AutoGrant(p) ==
    /\ loop.phase = "scan" /\ p \in loop.grants
    /\ \E ok \in BOOLEAN : Grant(p, FALSE, ok, FALSE)
    /\ loop' = [loop EXCEPT !.grants = @ \ {p}]
    /\ UNCHANGED <<version, ops, late, stops, met, doomed>>

Scanned ==
    /\ loop.phase = "scan" /\ loop.grants = {}
    /\ loop' = [loop EXCEPT !.phase = "handle"]
    /\ UNCHANGED <<version, mem, disk, ops, late, faults, stops, history>>

Handled == loop.phase = "handle" /\ loop' = [loop EXCEPT !.phase = "idle"]

\* tool.trust for the candidate the caller named by its hash.
Trust(p, expires) ==
    /\ Handled
    /\ \E ok \in BOOLEAN : Grant(p, expires, ok, TRUE)
    /\ UNCHANGED <<version, ops, late, stops, met, doomed>>

Active(o) == ops[o].state \in {"queued", "starting", "leased", "running"}

\* nonterminal_for_tools of the tool ids the registry lists for the package now.
OfPackage(p) ==
    {o \in Ops : /\ Active(o) /\ ops[o].intent # "sealed"
                 /\ ops[o].pkg = p /\ (Renames => ops[o].ver = version[p])}

\* OperationStore::request_cancel: a cancellable operation is sealed at once while it is
\* queued; otherwise, and if it has been asked before, only the request is on record.
Intent(o) ==
    IF ops[o].intent # "none" THEN ops[o].intent
    ELSE IF ops[o].stoppable /\ ops[o].state = "queued" THEN "sealed" ELSE "asked"

\* The operations of the set whose request has to be written.
Unasked(set) == {o \in set : ops[o].intent = "none"}

\* Faulty variant of Cancelling: the tokens are left alone.
CancellingRecordsOnly(set, lost) ==
    [o \in Ops |-> IF o \in set THEN [ops[o] EXCEPT !.intent = Intent(o)] ELSE ops[o]]

\* request_cancel for each operation of the set, and the token of the cancellable ones;
\* where the write fails the request stays in memory, but the error is dropped by .ok()
\* and with it the token.
Cancelling(set, lost) ==
    [o \in Ops |-> IF o \in set
                   THEN [ops[o] EXCEPT !.intent = Intent(o),
                                       !.cancel = @ \/ (ops[o].stoppable /\ o \notin lost)]
                   ELSE ops[o]]

Revoked(p) ==
    [records |-> IF mem.records[p] = None THEN mem.records
                 ELSE [mem.records EXCEPT ![p].dead = TRUE],
     revoked |-> mem.revoked \cup {p}]

Stoppable(set) == {o \in set : ops[o].stoppable}

\* The operations of the package that are not over, whatever the registry lists.
AliveOf(p) == {o \in Ops : Active(o) /\ ops[o].intent # "sealed" /\ ops[o].pkg = p}

\* tool.revoke: the store, then the running operations when the caller asks for it.  The
\* answer is a success whatever became of the operations, and lists those whose request
\* is on record as cancelled.
Revoke(p, cancelRunning) ==
    /\ Handled
    /\ mem' = Revoked(p)
    /\ \/ /\ Persist(Revoked(p), TRUE)
          /\ \E lost \in SUBSET Unasked(OfPackage(p)) :
                /\ ~cancelRunning => lost = {}
                /\ Failed(Cardinality(lost))
                /\ ops' = IF cancelRunning THEN Cancelling(OfPackage(p), lost) ELSE ops
                /\ met' = IF cancelRunning THEN met \cup Stoppable(AliveOf(p)) ELSE met
                /\ doomed' = IF cancelRunning THEN doomed \cup Stoppable(OfPackage(p) \ lost) ELSE doomed
          /\ allowed' = [allowed EXCEPT ![p] = {}]
          /\ answered' = [answered EXCEPT ![p] = "revoked"]
       \/ /\ Persist(Revoked(p), FALSE) /\ Failed(1)
          /\ UNCHANGED <<ops, history>>
    /\ UNCHANGED <<version, late, stops>>

\* An invocation, or the approval that lets a waiting one go on: the package is trusted
\* now, and its worker keeps a copy of it.
Invoke(o, p, stoppable) ==
    /\ Handled /\ ops[o].state = "unused"
    /\ Effective(p) = "trusted"
    /\ ops' = [ops EXCEPT ![o] = [state |-> "queued", pkg |-> p, ver |-> version[p],
                                  stoppable |-> stoppable, intent |-> "none", cancel |-> FALSE]]
    /\ UNCHANGED <<version, mem, disk, late, faults, stops, history>>

\* A request without an effect on trust, or one that is refused.
Other ==
    /\ Handled
    /\ UNCHANGED <<version, mem, disk, ops, late, faults, stops, history>>

-----------------------------------------------------------------------------
\* The workers.

Moves(o, s) ==
    /\ ops' = [ops EXCEPT ![o] = IF s = "ended" THEN Over ELSE [@ EXCEPT !.state = s]]
    /\ met' = IF s = "ended" THEN met \ {o} ELSE met
    /\ doomed' = doomed \cap met'
    /\ UNCHANGED <<version, mem, disk, loop, late, faults, stops, allowed, answered>>

\* process_start_trust_lease.
Authorized(o) ==
    ops[o].pkg \in Release \/ State(Load(disk), ops[o].pkg, ops[o].ver) = "trusted"

\* The concurrency gate lets the worker through, and the record says starting if it can.
Begin(o) == ops[o].state = "queued" /\ Moves(o, "starting")

Lease(o) ==
    /\ ops[o].state = "starting"
    /\ Moves(o, IF Authorized(o) THEN "leased" ELSE "ended")

\* The worker gives up in the queue, or while it prepares the process.
GiveUp(o) == ops[o].state \in {"queued", "starting"} /\ Moves(o, "ended")

\* The launcher looks at the token before it creates the process, and the start observer
\* refuses one whose operation is sealed.
Launch(o) ==
    /\ ops[o].state = "leased"
    /\ Moves(o, IF ops[o].cancel \/ ops[o].intent = "sealed" THEN "ended" ELSE "running")

Exit(o) == ops[o].state = "running" /\ Moves(o, "ended")

\* The launcher's loop sees the token and terminates the Job: the process is over, even
\* where something outside the Job keeps its pipe open and the worker waiting.
Kill(o) == ops[o].state = "running" /\ ops[o].cancel /\ Moves(o, "ended")

-----------------------------------------------------------------------------
\* The user's files, the clock and the controller's life.

\* The demand scan finds a new version of a package.
Update(p) ==
    /\ loop.phase = "idle" /\ version[p] < MaxVersion
    /\ version' = [version EXCEPT ![p] = @ + 1]
    /\ UNCHANGED <<mem, disk, loop, ops, late, faults, stops, history>>

Expire ==
    /\ ~late /\ late' = TRUE
    /\ UNCHANGED <<version, mem, disk, loop, ops, faults, stops, history>>

\* The controller ends, and the operation store seals what is open.  A crash ends the
\* processes with their Jobs; after a shutdown, which sets every token it may, the
\* launchers of running processes go on.
Stop ==
    /\ loop.phase # "down" /\ stops < MaxStops
    /\ stops' = stops + 1
    /\ loop' = [phase |-> "down", grants |-> {}]
    /\ \E left \in SUBSET {o \in Ops : ops[o].state = "running"} :
          /\ loop.phase = "scan" => left = {}
          /\ ops' = [o \in Ops |->
                IF o \in left THEN [ops[o] EXCEPT !.intent = "sealed", !.cancel = ops[o].stoppable]
                ELSE IF Active(o) THEN Over ELSE ops[o]]
          /\ met' = met \cap left /\ doomed' = doomed \cap left
    /\ mem' = Empty
    /\ UNCHANGED <<version, disk, late, faults, allowed, answered>>

Start ==
    /\ loop.phase = "down"
    /\ mem' = Load(disk)
    /\ loop' = [phase |-> "idle", grants |-> {}]
    /\ UNCHANGED <<version, disk, ops, late, faults, stops, history>>

Next ==
    \/ Receive \/ Scanned \/ Other \/ Expire \/ Stop \/ Start
    \/ \E p \in Packages :
          \/ AutoGrant(p) \/ Update(p)
          \/ \E b \in BOOLEAN : Trust(p, b) \/ Revoke(p, b) \/ \E o \in Ops : Invoke(o, p, b)
    \/ \E o \in Ops : Begin(o) \/ Lease(o) \/ GiveUp(o) \/ Launch(o) \/ Exit(o) \/ Kill(o)

Spec == Init /\ [][Next]_vars

(***************************************************************************)
(* A worker in the queue is let through or times out, and the launcher     *)
(* takes its steps; the wait loop that polls the token runs until the      *)
(* process is over.  Nothing makes a process exit.                         *)
(***************************************************************************)
FairSpec ==
    /\ Spec
    /\ \A o \in Ops : WF_vars(Begin(o) \/ Lease(o) \/ GiveUp(o)) /\ WF_vars(Launch(o)) /\ WF_vars(Kill(o))

-----------------------------------------------------------------------------
Authorizes(o) == ops[o].state = "starting" /\ ops'[o].state = "leased"

(***************************************************************************)
(* A user's package gets a lease to start a process only for a version     *)
(* that somebody asked to trust after the last revoke answered with        *)
(* success (a tool.trust, or the profile where no revoke stands), and not  *)
(* past the expiry that came with every such request.  Updates, failed     *)
(* writes, the older file format and ends of the controller do not bring a *)
(* revoked or expired package back.                                        *)
(***************************************************************************)
StartsOnlyWhatWasAllowed ==
    [][\A o \in Ops : Authorizes(o) /\ ops[o].pkg \notin Release =>
          \E expires \in BOOLEAN : /\ <<ops[o].ver, expires>> \in allowed[ops[o].pkg]
                                   /\ expires => ~late]_vars

(***************************************************************************)
(* The process of every cancellable operation that the answer to a revoke  *)
(* lists as cancelled ends, or never starts: the queued ones, those        *)
(* between lease and launch and those a shutdown overtakes included.       *)
(***************************************************************************)
RevokeEndsRunning == \A o \in Ops : (o \in doomed) ~> ~Active(o)

(***************************************************************************)
(* A revoke with cancel_running that was answered with success reaches     *)
(* every cancellable operation of the package that is alive: its token is  *)
(* set, or it can no longer start.                                         *)
(***************************************************************************)
RevokeReachesRunning ==
    \A o \in met : Active(o) => ops[o].cancel \/ ops[o].intent = "sealed"

(***************************************************************************)
(* After a revoke that was answered with success no package gets a lease   *)
(* until somebody asks to trust it again.  process_start_trust_lease does  *)
(* not look at the store for packages of the release source.               *)
(***************************************************************************)
RevokedNeverStarts ==
    [][\A o \in Ops : Authorizes(o) => ~(answered[ops[o].pkg] = "revoked"
                                         /\ allowed[ops[o].pkg] = {})]_vars

(***************************************************************************)
(* A grant that was answered with success is in the file.  A write that    *)
(* fails leaves the record in memory, and the repeated command answers     *)
(* from there.                                                             *)
(***************************************************************************)
GrantIsDurable ==
    \A p \in Packages : answered[p] = "granted" =>
        p \notin Load(disk).revoked /\ Load(disk).records[p] # None
=============================================================================
