------------------------------ MODULE LocalStack ------------------------------
(***************************************************************************)
(* The tool that operates the local service stack: it creates the set of    *)
(* credential files, starts, checks, stops and resets the containers, and   *)
(* runs the disposable smoke contract.  Commands run one at a time (the     *)
(* tool takes no lock), each a sequence of steps, and the process may die   *)
(* between any two of them.  Containers change on their own.                *)
(*                                                                         *)
(* A credential file is the generation of the bootstrap that wrote it, 0   *)
(* when it is absent; a volume is the generation it was initialised with.   *)
(***************************************************************************)
EXTENDS Naturals, Sequences, FiniteSets, SequencesExt

CONSTANTS MaxGeneration,  \* bootstraps that write credentials
          MaxFaults       \* crashes and container failures

VARIABLES files,       \* the managed credential files
          directory,   \* the credential directory exists
          keys,        \* it also holds application keys
          leftover,    \* a dead bootstrap left its staging directory behind
          volumes,     \* the project's volumes, by service
          alien,       \* the project owns a volume the stack does not know
          containers,  \* the runtime services
          initializer, \* the initializer container
          markers,     \* the services whose volume holds the smoke marker
          minted,      \* generations written so far
          cmd,         \* the command that runs, or the last one
          faults

vars == <<files, directory, keys, leftover, volumes, alien, containers, initializer,
          markers, minted, cmd, faults>>
secretVars == <<files, directory, keys, leftover, minted>>
engineVars == <<volumes, alien, containers, initializer, markers>>

Files == {"redis_acl", "redis_application_password", "postgres_admin_password"}

ProbeServices == <<"postgresql", "redis">>
Services == Range(ProbeServices)

-----------------------------------------------------------------------------
(* Credentials.                                                            *)

ContentsValid(f) == f["redis_acl"] = f["redis_application_password"]

SecretSetState(f) ==
    IF \A x \in Files : f[x] = 0      THEN "missing"
    ELSE IF \E x \in Files : f[x] = 0 THEN "partial"
    ELSE IF ContentsValid(f)          THEN "complete"
    ELSE "invalid"

NoFiles == [x \in Files |-> 0]
BuildSecretContents(g) == [x \in Files |-> g]

-----------------------------------------------------------------------------
(* What the engine reports.                                                *)

Up(s) == containers[s] \in {"starting", "healthy", "unhealthy"}

AggregateState ==
    LET present == {s \in Services : containers[s] # "absent"}
        Some(state) == \E s \in present : containers[s] = state
    IN IF present = {} /\ initializer = "absent" THEN "absent"
       ELSE IF initializer = "failed" \/ Some("unhealthy") THEN "degraded"
       ELSE IF initializer = "done" /\ \A s \in Services : containers[s] = "healthy" THEN "ready"
       ELSE IF present # {} /\ \A s \in present : containers[s] = "exited" THEN "stopped"
       ELSE IF ~Some("exited") /\ (present # {} \/ initializer = "running") THEN "starting"
       ELSE "degraded"

\* A probe reaches the service and the volume accepts the mounted credentials.
Answers(s) ==
    containers[s] = "healthy" /\ volumes[s] # 0 /\ \A x \in Files : files[x] = volumes[s]

ProjectVolumes == {s \in Services : volumes[s] # 0}

ResetResolves == ~alien /\ ProjectVolumes \in {{}, Services}

-----------------------------------------------------------------------------
(* Commands as sequences of steps.                                         *)

CheckPrerequisites == <<"project", "prerequisites">>
BootstrapProgram == <<"inspect", "stage", "install", "recheck">>
ConfigProgram == CheckPrerequisites \o <<"ports", "secrets", "images">>
Startup == <<"images", "compose_up", "wait", "probe">>
UpProgram == CheckPrerequisites \o <<"ports", "secrets">> \o Startup
StatusProgram == CheckPrerequisites \o <<"status">>
VerifyProgram == CheckPrerequisites \o <<"present", "probe", "ready">>
DownProgram == CheckPrerequisites \o <<"compose_down">>
ResetProgram ==
    <<"confirm">> \o CheckPrerequisites
        \o <<"resolve", "compose_down", "resolve_again", "remove", "list_empty">>
RotateProgram == ResetProgram \o <<"removable", "unlink">>

RepeatUp == VerifyProgram \o Startup
RedisProgram ==
    <<"redis_stop">> \o CheckPrerequisites \o <<"present", "outage", "redis_start", "wait">>
        \o VerifyProgram
MarkedProgram ==
    <<"mark">> \o DownProgram \o UpProgram \o VerifyProgram \o <<"check_marks">>
        \o RepeatUp \o VerifyProgram \o RedisProgram
SmokeProgram ==
    ResetProgram \o BootstrapProgram \o <<"stamp">> \o ConfigProgram
        \o UpProgram \o VerifyProgram \o MarkedProgram

ResetAfter == ResetProgram \o <<"inventory", "same_secrets">>

Program(op) ==
    CASE op = "bootstrap" -> <<"project">> \o BootstrapProgram
      [] op = "config"    -> ConfigProgram
      [] op = "up"        -> UpProgram
      [] op = "status"    -> StatusProgram
      [] op = "verify"    -> VerifyProgram
      [] op = "down"      -> DownProgram
      [] op = "reset"     -> ResetProgram
      [] op = "rotate"    -> RotateProgram
      [] op = "smoke"     -> SmokeProgram

Ops == {"bootstrap", "config", "up", "status", "verify", "down", "reset", "rotate", "smoke"}

Step == Head(cmd.todo)
Idle == cmd.todo = <<>>

NewCommand(op) ==
    [op |-> op, todo |-> Program(op), phase |-> "main", marked |-> FALSE, failed |-> FALSE,
     resolved |-> {}, seen |-> "absent", probed |-> 0, staged |-> 0, stamp |-> NoFiles,
     result |-> "running"]

Over(c, result) ==
    [c EXCEPT !.todo = <<>>, !.result = result, !.resolved = {}, !.seen = "absent",
              !.probed = 0, !.staged = 0]

\* The end of the smoke contract: the marker is removed if one was made, then the
\* project is reset, whatever failed before.
Cleanup(c) ==
    IF c.marked THEN [c EXCEPT !.phase = "cleanup", !.todo = <<"unmark">>]
                ELSE [c EXCEPT !.phase = "reset", !.todo = ResetAfter]

\* A failure of the contract.  While redis is down by intent it is started again
\* first; a failure of that recovery ends the contract.
SmokeFails(c) ==
    CASE c.phase = "main" ->
           LET d == [c EXCEPT !.failed = TRUE, !.marked = Len(c.todo) <= Len(MarkedProgram)]
           IN IF Len(c.todo) <= Len(RedisProgram)
                THEN [d EXCEPT !.phase = "restart", !.todo = <<"redis_start", "wait">>]
                ELSE Cleanup(d)
      [] c.phase = "restart" -> [c EXCEPT !.phase = "recover", !.todo = VerifyProgram]
      [] c.phase = "cleanup" -> [c EXCEPT !.phase = "reset", !.todo = ResetAfter, !.failed = TRUE]
      [] OTHER -> Over(c, "failed")

Aborted(c) ==
    IF c.op = "smoke" THEN SmokeFails([c EXCEPT !.probed = 0]) ELSE Over(c, "failed")

\* The end of a phase of the contract.
SmokeContinues(c) ==
    CASE c.phase = "main"    -> Cleanup([c EXCEPT !.marked = TRUE])
      [] c.phase = "restart" -> [c EXCEPT !.phase = "recover", !.todo = VerifyProgram]
      [] c.phase = "recover" -> Cleanup(c)
      [] c.phase = "cleanup" -> [c EXCEPT !.phase = "reset", !.todo = ResetAfter]
      [] c.phase = "reset"   -> Over(c, IF c.failed THEN "failed" ELSE "ok")

After(c, n) ==
    IF Len(c.todo) > n THEN [c EXCEPT !.todo = SubSeq(@, n + 1, Len(@))]
    ELSE IF c.op = "smoke" THEN SmokeContinues(c)
    ELSE Over(c, "ok")

Advanced(c) == After(c, 1)

Execute(op) ==
    /\ Idle /\ op \in Ops
    /\ cmd' = NewCommand(op)
    /\ UNCHANGED <<secretVars, engineVars, faults>>

-----------------------------------------------------------------------------
(* Checks: a step that reads and refuses.  Each may also fail for a reason  *)
(* outside this state: no engine, a port taken, a timeout, a mismatch.      *)

PortsAvailable == \A s \in Services : ~Up(s)

RequireCompleteSecretSet == SecretSetState(files) = "complete"

NothingLeft == ProjectVolumes = {} /\ ~alien

ProjectAbsent == AggregateState = "absent" /\ NothingLeft

\* The outage check wants the probe of redis, and no earlier one, to fail.
OutageSeen == ~Answers("redis") /\ Answers("postgresql")

SecretsUnchanged == cmd.stamp = NoFiles \/ (RequireCompleteSecretSet /\ cmd.stamp = files)

Demand(step) ==
    CASE step = "ports"        -> PortsAvailable
      [] step = "secrets"      -> RequireCompleteSecretSet
      [] step = "recheck"      -> RequireCompleteSecretSet
      [] step = "wait"         -> AggregateState = "ready"
      [] step = "ready"        -> cmd.seen = "ready"
      [] step = "outage"       -> OutageSeen
      [] step = "list_empty"   -> NothingLeft
      [] step = "inventory"    -> ProjectAbsent
      [] step = "check_marks"  -> markers = Services /\ \A s \in Services : Answers(s)
      [] step = "same_secrets" -> SecretsUnchanged
      [] step \in {"project", "confirm", "prerequisites", "images"} -> TRUE
      [] OTHER -> FALSE

Checks == {"project", "confirm", "prerequisites", "images", "ports", "secrets", "recheck",
           "wait", "ready", "outage", "list_empty", "inventory", "check_marks", "same_secrets"}

CheckPasses ==
    /\ ~Idle /\ Step \in Checks /\ Demand(Step)
    /\ cmd' = Advanced(cmd)
    /\ UNCHANGED <<secretVars, engineVars, faults>>

\* Any step that only looks may raise.
CheckFails ==
    /\ ~Idle /\ Step \in Checks \cup {"present", "status", "probe", "resolve", "resolve_again", "stamp", "removable", "inspect"}
    /\ cmd' = Aborted(cmd)
    /\ UNCHANGED <<secretVars, engineVars, faults>>

\* The aggregate state is read before the probes run and judged after them.
ReadStackStatus ==
    /\ ~Idle /\ Step \in {"present", "status"}
    /\ cmd' = IF Step = "present" /\ AggregateState = "absent"
                THEN Aborted(cmd)
                ELSE Advanced([cmd EXCEPT !.seen = AggregateState])
    /\ UNCHANGED <<secretVars, engineVars, faults>>

RunSemanticProbe ==
    /\ ~Idle /\ Step = "probe" /\ Answers(ProbeServices[cmd.probed + 1])
    /\ cmd' = IF cmd.probed + 1 = Len(ProbeServices)
                THEN Advanced([cmd EXCEPT !.probed = 0])
                ELSE [cmd EXCEPT !.probed = @ + 1]
    /\ UNCHANGED <<secretVars, engineVars, faults>>

\* The fingerprint the smoke contract compares at its end.
SmokeSecretFingerprint ==
    /\ ~Idle /\ Step = "stamp" /\ RequireCompleteSecretSet
    /\ cmd' = Advanced([cmd EXCEPT !.stamp = files])
    /\ UNCHANGED <<secretVars, engineVars, faults>>

-----------------------------------------------------------------------------
(* bootstrap_secret_set.                                                   *)

InspectSecretSet ==
    /\ ~Idle /\ Step = "inspect"
    /\ cmd' = CASE SecretSetState(files) = "complete" -> After(cmd, Len(BootstrapProgram))
                [] SecretSetState(files) = "missing"  -> Advanced(cmd)
                [] OTHER                              -> Aborted(cmd)
    /\ UNCHANGED <<secretVars, engineVars, faults>>

\* All files are written and flushed in a staging directory of their own.
StageSecrets ==
    /\ ~Idle /\ Step = "stage" /\ minted < MaxGeneration
    /\ minted' = minted + 1
    /\ cmd' = Advanced([cmd EXCEPT !.staged = minted + 1])
    /\ UNCHANGED <<files, directory, keys, leftover, engineVars, faults>>

StagingFails ==
    /\ ~Idle /\ Step = "stage"
    /\ cmd' = Aborted(cmd)
    /\ UNCHANGED <<secretVars, engineVars, faults>>

\* Without a credential directory the staging directory becomes it.
InstallDirectory ==
    /\ ~Idle /\ Step = "install" /\ ~directory
    /\ files' = BuildSecretContents(cmd.staged) /\ directory' = TRUE
    /\ cmd' = Advanced([cmd EXCEPT !.staged = 0])
    /\ UNCHANGED <<keys, leftover, minted, engineVars, faults>>

\* Otherwise the files are renamed into it one by one.
InstallFile(x) ==
    /\ ~Idle /\ Step = "install" /\ directory /\ files[x] = 0
    /\ files' = [files EXCEPT ![x] = cmd.staged]
    /\ cmd' = IF \A y \in Files : files'[y] # 0 THEN Advanced([cmd EXCEPT !.staged = 0]) ELSE cmd
    /\ UNCHANGED <<directory, keys, leftover, minted, engineVars, faults>>

\* A failed installation takes back what it installed, as far as it can.
RollBack ==
    /\ ~Idle /\ Step = "install" /\ faults < MaxFaults
    /\ \E kept \in {{}} \cup {{x} : x \in Files} :
           files' = [x \in Files |-> IF x \in kept THEN files[x] ELSE 0]
    /\ cmd' = Aborted([cmd EXCEPT !.staged = 0]) /\ faults' = faults + 1
    /\ UNCHANGED <<directory, keys, leftover, minted, engineVars>>

-----------------------------------------------------------------------------
(* Compose.                                                                *)

\* Missing volumes are created with the mounted credentials.
Initialised(created) ==
    [s \in Services |-> IF s \in created /\ volumes[s] = 0
                          THEN files["postgres_admin_password"] ELSE volumes[s]]

ComposeUp ==
    /\ ~Idle /\ Step = "compose_up"
    /\ volumes' = Initialised(Services)
    /\ containers' = [s \in Services |-> "healthy"] /\ initializer' = "done"
    /\ cmd' = Advanced(cmd)
    /\ UNCHANGED <<alien, markers, secretVars, faults>>

\* The client fails or is killed at its deadline with any part of the work done.
ComposeUpFails ==
    /\ ~Idle /\ Step = "compose_up"
    /\ \E created \in SUBSET Services, i \in {initializer, "running"} :
           /\ volumes' = Initialised(created)
           /\ \E started \in SUBSET (created \cup ProjectVolumes) :
                  containers' = [s \in Services |-> IF s \in started THEN "starting"
                                                    ELSE containers[s]]
           /\ initializer' = i
    /\ cmd' = Aborted(cmd)
    /\ UNCHANGED <<alien, markers, secretVars, faults>>

ComposeDown ==
    /\ ~Idle /\ Step = "compose_down"
    /\ containers' = [s \in Services |-> "absent"] /\ initializer' = "absent"
    /\ cmd' = Advanced(cmd)
    /\ UNCHANGED <<volumes, alien, markers, secretVars, faults>>

ComposeDownFails ==
    /\ ~Idle /\ Step = "compose_down"
    /\ \E gone \in SUBSET Services :
           containers' = [s \in Services |-> IF s \in gone THEN "absent" ELSE containers[s]]
    /\ cmd' = Aborted(cmd)
    /\ UNCHANGED <<volumes, alien, initializer, markers, secretVars, faults>>

-----------------------------------------------------------------------------
(* reset_stack and remove_secret_set_after_reset.                          *)

\* Exactly the known volumes, or none; a rotation wants some to delete.
ResolveResetVolumes ==
    /\ ~Idle /\ Step = "resolve" /\ ResetResolves
    /\ cmd' = IF cmd.op = "rotate" /\ ProjectVolumes = {}
                THEN Aborted(cmd)
                ELSE Advanced([cmd EXCEPT !.resolved = ProjectVolumes])
    /\ UNCHANGED <<secretVars, engineVars, faults>>

ResolveAgain ==
    /\ ~Idle /\ Step = "resolve_again" /\ ResetResolves
    /\ cmd' = IF ProjectVolumes = cmd.resolved THEN Advanced(cmd) ELSE Aborted(cmd)
    /\ UNCHANGED <<secretVars, engineVars, faults>>

\* One volume at a time; the engine refuses one that a container uses.  A volume
\* taken in the list may be gone although its removal was reported as failed.
RemoveVolume(s) ==
    /\ ~Idle /\ Step = "remove" /\ s \in cmd.resolved /\ containers[s] = "absent"
    /\ volumes' = [volumes EXCEPT ![s] = 0] /\ markers' = markers \ {s}
    /\ cmd' \in {[cmd EXCEPT !.resolved = @ \ {s}], Aborted(cmd)}
    /\ UNCHANGED <<alien, containers, initializer, secretVars, faults>>

RemovalDone ==
    /\ ~Idle /\ Step = "remove"
    /\ cmd' = IF cmd.resolved = {} THEN Advanced(cmd) ELSE Aborted(cmd)
    /\ UNCHANGED <<secretVars, engineVars, faults>>

RemovableSecrets ==
    /\ ~Idle /\ Step = "removable"
    /\ cmd' = CASE SecretSetState(files) = "missing"  -> After(cmd, 2)
                [] SecretSetState(files) = "complete" -> Advanced(cmd)
                [] OTHER                              -> Aborted(cmd)
    /\ UNCHANGED <<secretVars, engineVars, faults>>

\* The files are unlinked one by one; the directory goes with the last one unless
\* it holds application keys.
UnlinkSecret(x) ==
    /\ ~Idle /\ Step = "unlink" /\ files[x] # 0
    /\ files' = [files EXCEPT ![x] = 0]
    /\ directory' = (files' # NoFiles \/ keys)
    /\ cmd' = IF files' = NoFiles THEN Advanced(cmd) ELSE cmd
    /\ UNCHANGED <<keys, leftover, minted, engineVars, faults>>

UnlinkFails ==
    /\ ~Idle /\ Step = "unlink" /\ faults < MaxFaults
    /\ cmd' = Aborted(cmd) /\ faults' = faults + 1
    /\ UNCHANGED <<secretVars, engineVars>>

-----------------------------------------------------------------------------
(* The markers and the redis outage of the smoke contract.                 *)

CreateSmokeMarkers ==
    /\ ~Idle /\ Step = "mark"
    /\ \/ /\ \A s \in Services : Answers(s)
          /\ markers' = Services /\ cmd' = Advanced(cmd)
       \/ \* what a failed creation could not take back stays
          /\ markers' \in SUBSET {s \in Services : containers[s] # "absent"}
          /\ cmd' = Aborted(cmd)
    /\ UNCHANGED <<volumes, alien, containers, initializer, secretVars, faults>>

RemoveSmokeMarkers ==
    /\ ~Idle /\ Step = "unmark"
    /\ \/ /\ \A s \in Services : Answers(s)
          /\ markers' = {} /\ cmd' = Advanced(cmd)
       \/ /\ markers' \in SUBSET markers
          /\ cmd' = Aborted(cmd)
    /\ UNCHANGED <<volumes, alien, containers, initializer, secretVars, faults>>

StopSmokeRedis ==
    /\ ~Idle /\ Step = "redis_stop"
    /\ \/ containers' = [containers EXCEPT !["redis"] = "exited"] /\ cmd' = Advanced(cmd)
       \/ containers' \in {containers, [containers EXCEPT !["redis"] = "exited"]}
          /\ cmd' = Aborted(cmd)
    /\ UNCHANGED <<volumes, alien, initializer, markers, secretVars, faults>>

StartSmokeRedis ==
    /\ ~Idle /\ Step = "redis_start"
    /\ \/ /\ containers["redis"] # "absent"
          /\ containers' = [containers EXCEPT !["redis"] = IF Up("redis") THEN @ ELSE "starting"]
          /\ cmd' = Advanced(cmd)
       \/ UNCHANGED containers /\ cmd' = Aborted(cmd)
    /\ UNCHANGED <<volumes, alien, initializer, markers, secretVars, faults>>

-----------------------------------------------------------------------------
(* The engine on its own, and the death of the tool.                       *)

ContainerSettles(s) ==
    /\ containers[s] = "starting"
    /\ containers' = [containers EXCEPT ![s] = "healthy"]
    /\ UNCHANGED <<volumes, alien, initializer, markers, secretVars, cmd, faults>>

ContainerFails(s) ==
    /\ containers[s] \in {"starting", "healthy"} /\ faults < MaxFaults
    /\ \E to \in {"unhealthy", "exited"} : containers' = [containers EXCEPT ![s] = to]
    /\ faults' = faults + 1
    /\ UNCHANGED <<volumes, alien, initializer, markers, secretVars, cmd>>

InitializerSettles ==
    /\ initializer = "running"
    /\ initializer' \in {"done", "failed"}
    /\ UNCHANGED <<volumes, alien, containers, markers, secretVars, cmd, faults>>

\* A staging directory outlives its process.
Dies ==
    /\ ~Idle /\ faults < MaxFaults
    /\ cmd' = Over(cmd, "died") /\ faults' = faults + 1
    /\ leftover' = (leftover \/ cmd.staged # 0)
    /\ UNCHANGED <<files, directory, keys, minted, engineVars>>

-----------------------------------------------------------------------------
Init ==
    /\ files = NoFiles /\ keys \in BOOLEAN /\ directory = keys /\ leftover = FALSE
    /\ volumes = [s \in Services |-> 0] /\ alien \in BOOLEAN
    /\ containers = [s \in Services |-> "absent"] /\ initializer = "absent"
    /\ markers = {} /\ minted = 0 /\ faults = 0
    /\ cmd = Over(NewCommand("status"), "ok")

SecretStep ==
    \/ InspectSecretSet \/ StageSecrets \/ StagingFails \/ InstallDirectory \/ RollBack
    \/ \E x \in Files : InstallFile(x) \/ UnlinkSecret(x)
    \/ RemovableSecrets \/ UnlinkFails \/ SmokeSecretFingerprint

StackStep ==
    \/ CheckPasses \/ CheckFails \/ ReadStackStatus \/ RunSemanticProbe
    \/ ComposeUp \/ ComposeUpFails \/ ComposeDown \/ ComposeDownFails
    \/ ResolveResetVolumes \/ ResolveAgain \/ RemovalDone
    \/ \E s \in Services : RemoveVolume(s)

SmokeStep == CreateSmokeMarkers \/ RemoveSmokeMarkers \/ StopSmokeRedis \/ StartSmokeRedis

EngineStep ==
    \/ \E s \in Services : ContainerSettles(s) \/ ContainerFails(s)
    \/ InitializerSettles

Next ==
    \/ \E op \in Ops : Execute(op)
    \/ SecretStep \/ StackStep \/ SmokeStep \/ EngineStep \/ Dies

Spec == Init /\ [][Next]_vars

-----------------------------------------------------------------------------
Phases == {"main", "restart", "recover", "cleanup", "reset"}

\* Types of the files, the engine and the command.
TypeOK ==
    /\ files \in [Files -> 0 .. MaxGeneration] /\ minted \in 0 .. MaxGeneration
    /\ directory \in BOOLEAN /\ keys \in BOOLEAN /\ leftover \in BOOLEAN /\ alien \in BOOLEAN
    /\ volumes \in [Services -> 0 .. MaxGeneration]
    /\ containers \in [Services -> {"absent", "starting", "healthy", "unhealthy", "exited"}]
    /\ initializer \in {"absent", "running", "done", "failed"} /\ markers \subseteq Services
    /\ cmd.op \in Ops /\ cmd.phase \in Phases /\ faults \in 0 .. MaxFaults

\* A volume that exists can still be opened: every credential file is there and of
\* the generation the volume was initialised with, whatever command died half-way
\* (reset_stack, remove_secret_set_after_reset, bootstrap_secret_set).
Paired == \A s \in ProjectVolumes, x \in Files : files[x] = volumes[s]

\* What a finished command reports is so: nothing of a reset project is left, a
\* rotation left no credentials, and a passed smoke run kept the ones it began with.
TrueReports ==
    Idle /\ cmd.result = "ok" =>
        /\ cmd.op \in {"reset", "rotate", "smoke"} => ProjectAbsent /\ markers = {}
        /\ cmd.op = "rotate" => SecretSetState(files) = "missing"
        /\ cmd.op = "bootstrap" => RequireCompleteSecretSet
        /\ cmd.op = "smoke" => RequireCompleteSecretSet /\ cmd.stamp = files /\ ~cmd.failed

\* A smoke run that ends, other than by dying, has tried to reset its project,
\* unless redis could not be brought back.
SmokeResets ==
    Idle /\ cmd.op = "smoke" /\ cmd.result # "died" => cmd.phase \in {"reset", "recover"}

\* The credential directory never loses the application keys kept in it.
KeysKept == keys \/ files # NoFiles => directory

StackSafe == TypeOK /\ Paired /\ TrueReports /\ SmokeResets /\ KeysKept

\* Only a reset deletes a volume, and only one that it took in a list of exactly the
\* stack's own volumes, with its container gone; data is never initialised anew over it.
VolumesKept ==
    [][\A s \in Services : volumes[s] # 0 /\ volumes'[s] # volumes[s] =>
           /\ volumes'[s] = 0 /\ containers[s] = "absent" /\ ~alien
           /\ Step = "remove" /\ cmd.op \in {"reset", "rotate", "smoke"}]_vars
=============================================================================
