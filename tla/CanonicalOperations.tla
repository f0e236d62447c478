------------------------- MODULE CanonicalOperations -------------------------
(***************************************************************************)
(* The operations an operator runs from the shell beside the server        *)
(* (tools/canonical_core_operations.py): the bootstrap of the identity,    *)
(* the read of a source into a file, the verification of a bundle, and the *)
(* acceptance of phase one, which proves every claim it makes by counting  *)
(* the rows.  They run beside each other, beside administrators who revoke *)
(* and enroll devices, and beside the worker that dispatches intents.      *)
(* Backup and restore are in Recovery.                                     *)
(***************************************************************************)
EXTENDS Naturals, Sequences, FiniteSets

CONSTANTS
    Runs,        \* commands started from the shell
    Commands,    \* what a bootstrap may ask for: a user, a workspace, a device, its kind
    MaxFaults    \* bound: failures of the database, the object store and Temporal

VARIABLES
    graphs,      \* the committed identities: user, workspace and first device
    rejections,  \* runs whose rejection is audited
    seeded,      \* identities whose workspace has its signed empty policy
    intents,     \* per acceptance run: the two intents of its source, once published
    started,     \* acceptance runs whose ingestion workflow exists
    output,      \* the file a read writes: 0, or the run that created it
    run,         \* per run: what it does and where it stands
    faults

vars == <<graphs, rejections, seeded, intents, started, output, run, faults>>

data == <<graphs, rejections, seeded, intents, started, output>>

Kinds == {"neo4j", "qdrant"}

Ops == {"bootstrap", "read", "verify", "acceptance"}

Worker == 0

NoGraph == 0

Answers == {"none", "created", "existing", "conflict", "unavailable", "integrity",
            "refused", "syntax", "timeout", "ok"}

NotStarted ==
    [op |-> "none", command |-> CHOOSE c \in Commands : TRUE, pc |-> "idle", open |-> {},
     users |-> 0, spaces |-> 0, devices |-> 0, step |-> 0, graph |-> NoGraph,
     counts |-> <<>>, fresh |-> FALSE, answer |-> "none", events |-> 0]

Init ==
    /\ graphs = <<>> /\ rejections = {} /\ seeded = {} /\ started = {} /\ output = 0
    /\ intents = [r \in Runs |-> [k \in Kinds |-> [state |-> "none", lease |-> Worker]]]
    /\ run = [r \in Runs |-> NotStarted]
    /\ faults = 0

Fault == faults < MaxFaults /\ faults' = faults + 1

-----------------------------------------------------------------------------
(* A command: its gates, what it opens, how it ends.                       *)

\* The acceptance builds an identity of its own, under names nobody else has.
Synthetic(r) == [user |-> 10 + r, space |-> 10 + r, device |-> 1, kind |-> "system"]

\* What a command opens, in this order; a verification works offline.
Needs(op) ==
    CASE op = "bootstrap"  -> <<"engine">>
      [] op = "read"       -> <<"engine", "objects">>
      [] op = "verify"     -> <<>>
      [] op = "acceptance" -> <<"engine", "objects", "temporal">>

\* The acceptance runs in a local or a test environment only.
Start(r) ==
    /\ run[r].pc = "idle"
    /\ \E op \in Ops : \E command \in IF op = "acceptance" THEN {Synthetic(r)} ELSE Commands :
          \E local \in BOOLEAN :
             run' = [run EXCEPT ![r] =
                       [@ EXCEPT !.op = op, !.command = command,
                                 !.pc = IF op = "acceptance" /\ ~local THEN "closing" ELSE "opening",
                                 !.answer = IF op = "acceptance" /\ ~local THEN "refused" ELSE "none"]]
    /\ UNCHANGED <<data, faults>>

\* A failure of the acceptance is emitted and counted; whatever happens, what is open is
\* closed next.
Ending(row, answer) ==
    [row EXCEPT !.pc = "closing", !.answer = answer,
                !.events = IF row.op = "acceptance" /\ row.step > 0 THEN @ + 1 ELSE @]

End(r, answer) == run' = [run EXCEPT ![r] = Ending(@, answer)]

OpenFailed(row) == Ending(row, "unavailable")

Opened(r) == Cardinality(run[r].open)

Open(r) ==
    /\ run[r].pc = "opening" /\ Opened(r) < Len(Needs(run[r].op))
    /\ \/ /\ run' = [run EXCEPT ![r].open = @ \cup {Needs(run[r].op)[Opened(r) + 1]}]
          /\ UNCHANGED faults
       \/ /\ Fault
          /\ run' = [run EXCEPT ![r] = OpenFailed(@)]
    /\ UNCHANGED data

Begin(r) ==
    /\ run[r].pc = "opening" /\ Opened(r) = Len(Needs(run[r].op))
    /\ run' = [run EXCEPT ![r].pc = CASE run[r].op = "bootstrap"  -> "lock"
                                      [] run[r].op = "acceptance" -> "step"
                                      [] OTHER                    -> "body",
                          ![r].step = IF run[r].op = "acceptance" THEN 1 ELSE 0]
    /\ UNCHANGED <<data, faults>>

\* The object store and the engine are closed on every path, and failures of that are not heard.
CloseAll(r) ==
    /\ run[r].pc = "closing"
    /\ run' = [run EXCEPT ![r].pc = "done", ![r].open = {}]
    /\ UNCHANGED <<data, faults>>

\* The bound on the whole command cancels it wherever it stands: the transaction that is
\* open is rolled back, and nothing is emitted.
TimeOut(r) ==
    /\ run[r].pc \notin {"idle", "closing", "done"}
    /\ Fault
    /\ run' = [run EXCEPT ![r].pc = "closing", ![r].answer = "timeout"]
    /\ UNCHANGED data

\* What the shell is told.
ExitCode(answer) ==
    CASE answer \in {"created", "existing", "ok"} -> "ok"
      [] answer \in {"conflict", "integrity"}     -> "contract"
      [] answer = "refused"                       -> "config"
      [] answer = "syntax"                        -> "cli"
      [] answer \in {"unavailable", "timeout"}    -> "busy"
      [] OTHER                                    -> "running"

-----------------------------------------------------------------------------
(* The bootstrap of an identity.                                           *)

\* The lock is on the names of the user and of the workspace.
LockKey(r) == <<run[r].command.user, run[r].command.space>>

Transaction == {"users", "spaces", "devices", "decide"}

LockFree(r) == \A s \in Runs \ {r} : run[s].pc \in Transaction => LockKey(s) # LockKey(r)

Lock(r) ==
    /\ run[r].pc = "lock" /\ LockFree(r)
    /\ run' = [run EXCEPT ![r].pc = "users"]
    /\ UNCHANGED <<data, faults>>

\* Whether the first identity still has its one active device of that name and kind.
Hydrated == IF graphs # <<>> /\ graphs[1].intact THEN 1 ELSE NoGraph

\* Three statements of a READ COMMITTED transaction: each one sees what is committed when
\* it starts, and an identity is committed whole.
ReadIdentityState(r) ==
    /\ \/ run[r].pc = "users"
          /\ run' = [run EXCEPT ![r].pc = "spaces", ![r].users = Len(graphs)]
       \/ run[r].pc = "spaces"
          /\ run' = [run EXCEPT ![r].pc = "devices", ![r].spaces = Len(graphs)]
       \/ run[r].pc = "devices"
          /\ run' = [run EXCEPT ![r].pc = "decide", ![r].devices = Len(graphs),
                                ![r].graph = Hydrated]
    /\ UNCHANGED <<data, faults>>

IsEmpty(row) == row.users = 0 /\ row.spaces = 0 /\ row.devices = 0

\* Exactly one user and one workspace, of the names and with the device the command asks
\* for; the device was read active, and the only one of its name and kind.
IsReplay(row) ==
    /\ row.users = 1 /\ row.spaces = 1 /\ row.devices >= 1
    /\ graphs[1].command = row.command /\ row.graph = 1

\* Back to the flow the bootstrap is a step of, or the end of the command.
Return(row, answer, g) ==
    CASE row.op = "bootstrap" -> [row EXCEPT !.pc = "closing", !.answer = answer, !.graph = g]
      [] answer = (IF row.step = 1 THEN "created" ELSE "existing") ->
            [row EXCEPT !.pc = "step", !.step = @ + 1, !.graph = g]
      [] answer \in {"created", "existing"} -> Ending(row, "integrity")
      [] OTHER -> Ending(row, answer)

Identity(r) == [command |-> run[r].command, owner |-> r, intact |-> TRUE]

\* The names of users and of workspaces are unique.
NamesFree(c) ==
    \A i \in DOMAIN graphs : graphs[i].command.user # c.user /\ graphs[i].command.space # c.space

\* Nothing was there: user, workspace, device, audit, policy state and draft in one
\* transaction. Its answer may be lost after it committed.
CreateIdentity(r) ==
    /\ run[r].pc = "decide" /\ IsEmpty(run[r])
    /\ \/ /\ NamesFree(run[r].command)
          /\ graphs' = Append(graphs, Identity(r))
          /\ \/ run' = [run EXCEPT ![r] = Return(@, "created", Len(graphs) + 1)] /\ UNCHANGED faults
             \/ Fault /\ run' = [run EXCEPT ![r] = Return(@, "unavailable", NoGraph)]
       \/ /\ ~NamesFree(run[r].command)
          /\ run' = [run EXCEPT ![r] = Return(@, "unavailable", NoGraph)]
          /\ UNCHANGED <<graphs, faults>>
    /\ UNCHANGED <<rejections, seeded, intents, started, output>>

ClassifyExistingIdentity(r) ==
    /\ run[r].pc = "decide" /\ ~IsEmpty(run[r])
    /\ run' = [run EXCEPT ![r] = IF IsReplay(@) THEN Return(@, "existing", 1)
                                 ELSE [@ EXCEPT !.pc = "reject"]]
    /\ UNCHANGED <<data, faults>>

\* The workspace a rejection can be recorded under: the one that has the name asked for.
Trusted(row) == \E i \in 1 .. row.spaces : graphs[i].command.space = row.command.space

AuditFailed(row) == Return(row, "unavailable", NoGraph)

\* The transaction is rolled back. The rejection is audited in a transaction of its own,
\* whose failure replaces the conflict; without a workspace it is only emitted.
RecordConflictRejection(r) ==
    /\ run[r].pc = "reject"
    /\ \/ /\ rejections' = IF Trusted(run[r]) THEN rejections \cup {r} ELSE rejections
          /\ run' = [run EXCEPT ![r] = Return(@, "conflict", NoGraph)]
          /\ UNCHANGED faults
       \/ /\ Trusted(run[r]) /\ Fault
          /\ rejections' \in {rejections, rejections \cup {r}}
          /\ run' = [run EXCEPT ![r] = AuditFailed(@)]
    /\ UNCHANGED <<graphs, seeded, intents, started, output>>

\* The database fails before anything is committed.
TransactionFails(r) ==
    /\ run[r].pc \in Transaction \cup {"lock"}
    /\ Fault
    /\ run' = [run EXCEPT ![r] = Return(@, "unavailable", NoGraph)]
    /\ UNCHANGED data

-----------------------------------------------------------------------------
(* A read into a file, and an offline verification.                        *)

\* The file is created exclusively, and never written over.
WriteExclusiveOutputFile(r) ==
    IF output = 0 THEN output' = r /\ End(r, "ok") ELSE UNCHANGED output /\ End(r, "syntax")

\* The bytes are read and verified before the file is touched.
ReadCurrentSource(r) ==
    /\ run[r].pc = "body" /\ run[r].op = "read"
    /\ \/ WriteExclusiveOutputFile(r) /\ UNCHANGED faults
       \/ Fault /\ End(r, "unavailable") /\ UNCHANGED output
    /\ UNCHANGED <<graphs, rejections, seeded, intents, started>>

\* The ports of an offline verification that must stay unused fail when they are called.
VerifyBundle(r) ==
    /\ run[r].pc = "body" /\ run[r].op = "verify"
    /\ \E answer \in {"ok", "integrity"} : End(r, answer)
    /\ UNCHANGED <<data, faults>>

-----------------------------------------------------------------------------
(* The acceptance of phase one.                                            *)

Flow == <<"bootstrap", "count", "bootstrap", "recount", "seed", "publish", "count", "read",
          "republish", "recount", "claim", "start", "start", "acknowledge", "acknowledge",
          "recount">>

At(r, name) == run[r].pc = "step" /\ run[r].step <= Len(Flow) /\ Flow[run[r].step] = name

Advance(r) == run' = [run EXCEPT ![r].step = @ + 1]

CompletionAudits == Len(graphs)

RejectionAudits == Cardinality(rejections)

\* The rows of the canonical tables; the ones of device enrollments are in `intact'.
TableCounts ==
    <<Len(graphs), CompletionAudits + RejectionAudits, Cardinality(seeded),
      Cardinality({i \in DOMAIN graphs : ~graphs[i].intact}),
      Cardinality({r \in Runs : \E k \in Kinds : intents[r][k].state # "none"})>>

AcceptBootstrap(r) ==
    /\ At(r, "bootstrap")
    /\ run' = [run EXCEPT ![r].pc = "lock", ![r].graph = NoGraph]
    /\ UNCHANGED <<data, faults>>

AcceptCount(r) ==
    /\ At(r, "count")
    /\ run' = [run EXCEPT ![r].counts = TableCounts, ![r].step = @ + 1]
    /\ UNCHANGED <<data, faults>>

AcceptRecount(r) ==
    /\ At(r, "recount")
    /\ IF run[r].counts = TableCounts THEN Advance(r) ELSE End(r, "integrity")
    /\ UNCHANGED <<data, faults>>

\* Revision one of the workspace, signed by a key of this process.
SeedSignedPolicy(r) ==
    /\ At(r, "seed")
    /\ seeded' = seeded \cup {run[r].graph}
    /\ Advance(r)
    /\ UNCHANGED <<graphs, rejections, intents, started, output, faults>>

\* The source, its first version and an intent per projection; the answer may be lost.
AcceptPublish(r) ==
    /\ At(r, "publish") /\ run[r].graph \in seeded
    /\ intents' = [intents EXCEPT ![r] = [k \in Kinds |-> [state |-> "pending", lease |-> Worker]]]
    /\ \/ Advance(r) /\ UNCHANGED faults
       \/ Fault /\ End(r, "unavailable")
    /\ UNCHANGED <<graphs, rejections, seeded, started, output>>

\* The published bytes, and the original answer of the same command.
AcceptReplay(r) ==
    /\ At(r, "read") \/ At(r, "republish")
    /\ Advance(r)
    /\ UNCHANGED <<data, faults>>

Pending == {<<s, k>> \in Runs \X Kinds : intents[s][k].state = "pending"}

Own(r) == {r} \X Kinds

ClaimedExactly(r) == Pending = Own(r)

\* The claim takes whatever is pending, of any workspace.
AcceptClaim(r) ==
    /\ At(r, "claim")
    /\ intents' = [s \in Runs |-> [k \in Kinds |->
                     IF <<s, k>> \in Pending THEN [state |-> "leased", lease |-> r]
                     ELSE intents[s][k]]]
    /\ IF ClaimedExactly(r) THEN Advance(r) ELSE End(r, "integrity")
    /\ UNCHANGED <<graphs, rejections, seeded, started, output, faults>>

\* Both intents name one workflow: the first start makes it, the second one meets it.
AcceptStart(r) ==
    /\ At(r, "start")
    /\ started' = started \cup {r}
    /\ IF Flow[run[r].step - 1] = "claim"
       THEN run' = [run EXCEPT ![r].fresh = r \notin started, ![r].step = @ + 1]
       ELSE IF run[r].fresh THEN Advance(r) ELSE End(r, "integrity")
    /\ UNCHANGED <<graphs, rejections, seeded, intents, output, faults>>

Holds(r, k) == intents[r][k] = [state |-> "leased", lease |-> r]

Acknowledged(r, k) == Holds(r, k)

AcceptAcknowledge(r) ==
    /\ At(r, "acknowledge")
    /\ LET k == IF Flow[run[r].step - 1] = "start" THEN "neo4j" ELSE "qdrant" IN
       /\ intents' = IF Holds(r, k) THEN [intents EXCEPT ![r][k].state = "dispatched"] ELSE intents
       /\ IF Acknowledged(r, k) THEN Advance(r) ELSE End(r, "integrity")
    /\ UNCHANGED <<graphs, rejections, seeded, started, output, faults>>

AcceptComplete(r) ==
    /\ run[r].pc = "step" /\ run[r].step = Len(Flow) + 1
    /\ End(r, "ok")
    /\ UNCHANGED <<data, faults>>

\* Any collaborator fails.
AcceptFails(r) ==
    /\ run[r].pc = "step" /\ run[r].step <= Len(Flow)
    /\ Fault
    /\ End(r, "unavailable")
    /\ UNCHANGED data

-----------------------------------------------------------------------------
(* Beside the commands.                                                    *)

\* An administrator revokes the first device, or another one of its name is enrolled;
\* neither reaches a device of the kind `system'.
DisturbIdentity(i) ==
    /\ graphs[i].intact /\ graphs[i].command.kind # "system"
    /\ graphs' = [graphs EXCEPT ![i].intact = FALSE]
    /\ UNCHANGED <<rejections, seeded, intents, started, output, run, faults>>

\* The worker takes an intent, starts its workflow and acknowledges it.
WorkerDispatches(r, k) ==
    /\ \/ /\ intents[r][k].state = "pending"
          /\ intents' = [intents EXCEPT ![r][k] = [state |-> "leased", lease |-> Worker]]
          /\ UNCHANGED started
       \/ /\ intents[r][k] = [state |-> "leased", lease |-> Worker]
          /\ intents' = [intents EXCEPT ![r][k].state = "dispatched"]
          /\ started' = started \cup {r}
    /\ UNCHANGED <<graphs, rejections, seeded, output, run, faults>>

\* A lease that ran out is returned by the worker, whoever held it.
ReclaimLease(r, k) ==
    /\ intents[r][k].state = "leased" /\ Fault
    /\ intents' = [intents EXCEPT ![r][k] = [state |-> "pending", lease |-> Worker]]
    /\ UNCHANGED <<graphs, rejections, seeded, started, output, run>>

-----------------------------------------------------------------------------

BootstrapStep(r) ==
    \/ Lock(r) \/ ReadIdentityState(r) \/ CreateIdentity(r) \/ ClassifyExistingIdentity(r)
    \/ RecordConflictRejection(r) \/ TransactionFails(r)

AcceptanceStep(r) ==
    \/ AcceptBootstrap(r) \/ AcceptCount(r) \/ AcceptRecount(r) \/ SeedSignedPolicy(r)
    \/ AcceptPublish(r) \/ AcceptReplay(r) \/ AcceptClaim(r) \/ AcceptStart(r)
    \/ AcceptAcknowledge(r) \/ AcceptComplete(r) \/ AcceptFails(r)

CommandStep(r) ==
    \/ Start(r) \/ Open(r) \/ Begin(r) \/ CloseAll(r) \/ TimeOut(r)
    \/ ReadCurrentSource(r) \/ VerifyBundle(r)

\* Every command has ended: what goes on beside them may end too.
Rest == (\A r \in Runs : run[r].pc = "done") /\ UNCHANGED vars

Next ==
    \/ Rest
    \/ \E r \in Runs : BootstrapStep(r) \/ AcceptanceStep(r) \/ CommandStep(r)
    \/ \E i \in DOMAIN graphs : DisturbIdentity(i)
    \/ \E r \in Runs, k \in Kinds : WorkerDispatches(r, k) \/ ReclaimLease(r, k)

Spec == Init /\ [][Next]_vars

-----------------------------------------------------------------------------

TypeOK ==
    /\ rejections \subseteq Runs /\ started \subseteq Runs
    /\ seeded \subseteq DOMAIN graphs
    /\ output \in {0} \cup Runs
    /\ \A r \in Runs : run[r].answer \in Answers /\ run[r].graph \in 0 .. Len(graphs)
    /\ intents \in [Runs -> [Kinds -> [state : {"none", "pending", "leased", "dispatched"},
                                       lease : {Worker} \cup Runs]]]
    /\ faults \in 0 .. MaxFaults

Ended(r, answers) == run[r].pc = "done" /\ run[r].answer \in answers

\* A bootstrap that reports an identity names one that is committed with what was asked:
\* made by itself, or, for a replay, by another. No two runs report to have made the same.
BootstrapTrue ==
    \A r \in Runs :
        /\ Ended(r, {"created", "existing"}) =>
              /\ graphs[run[r].graph].command = run[r].command
              /\ (run[r].answer = "created") = (graphs[run[r].graph].owner = r)
        /\ \A s \in Runs \ {r} :
              Ended(r, {"created"}) /\ Ended(s, {"created"}) => run[r].graph # run[s].graph

\* A command is told of a conflict only when one exists: somebody else's identity, or its
\* own with another device than the one it was made with. Never because two runs of one
\* command met. And a conflict under a known workspace is always in the audit.
ConflictTrue ==
    \A r \in Runs : Ended(r, {"conflict"}) =>
        /\ \E i \in DOMAIN graphs : graphs[i].command # run[r].command \/ ~graphs[i].intact
        /\ Trusted(run[r]) => r \in rejections

\* An acceptance that reports success made the identity it reports, under a policy, and
\* both intents of its source were dispatched by itself, to the one workflow it started.
AcceptanceTrue ==
    \A r \in Runs : run[r].op = "acceptance" /\ Ended(r, {"ok"}) =>
        /\ graphs[run[r].graph].owner = r /\ run[r].graph \in seeded
        /\ r \in started
        /\ \A k \in Kinds : intents[r][k] = [state |-> "dispatched", lease |-> r]

\* Every command closes what it opened; an acceptance that began tells its end once,
\* unless the bound on the command cut it off, and a refused one touched nothing.
EndsOnce ==
    \A r \in Runs : run[r].pc = "done" =>
        /\ run[r].open = {} /\ ExitCode(run[r].answer) # "running"
        /\ run[r].events = IF run[r].op = "acceptance" /\ run[r].step > 0
                              /\ run[r].answer # "timeout" THEN 1 ELSE 0
        /\ ExitCode(run[r].answer) = "ok" /\ run[r].op = "read" => output = r

\* Of all committed identities no two share a user or a workspace.
NamesUnique ==
    \A i, j \in DOMAIN graphs : i # j =>
        /\ graphs[i].command.user # graphs[j].command.user
        /\ graphs[i].command.space # graphs[j].command.space

CoreSafe ==
    TypeOK /\ BootstrapTrue /\ ConflictTrue /\ AcceptanceTrue /\ EndsOnce /\ NamesUnique
=============================================================================
