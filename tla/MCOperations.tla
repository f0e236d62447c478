---------------------------- MODULE MCOperations -----------------------------
(*****************************************************************************)
(* TLC instances of what runs beside the server: the commands of the local   *)
(* service stack and of the canonical core, the live bootstrap, the          *)
(* reconciliation of sources with a revised policy, and the stores in        *)
(* memory of the offline runtime.                                            *)
(*                                                                           *)
(* The components share no variable, so one of them runs in each             *)
(* behaviour: the initial state picks which, and the others stay where       *)
(* they began. A property of a component holds of every behaviour that is    *)
(* about it.                                                                 *)
(*****************************************************************************)
EXTENDS PolicyReconciliation, Sequences, TLC

VARIABLES part,  \* the component this behaviour is about
          files, directory, keys, leftover, volumes, alien, containers, initializer,
          markers, minted, cmd, stackFaults,
          graphs, rejections, seeded, coreIntents, started, output, run, coreFaults,
          world, accepted, script, phase, result, liveFaults,
          now, grant, device, family, refresh, access, polls, creation, odAudits,
          revision, sessions, factors, codes, bucket, proven, changes

scanVars == <<rules, sources, evaluations, transitions, intents, audits, leases, flows,
              lost, writes, claims, faults>>
stackVars == <<files, directory, keys, leftover, volumes, alien, containers, initializer,
               markers, minted, cmd, stackFaults>>
coreVars == <<graphs, rejections, seeded, coreIntents, started, output, run, coreFaults>>
liveVars == <<world, accepted, script, phase, result, liveFaults>>
offlinedeviceVars == <<now, grant, device, family, refresh, access, polls, creation,
                       odAudits>>
offlineaccountVars == <<revision, sessions, factors, codes, bucket, proven, changes>>
operationsVars == <<part, scanVars, stackVars, coreVars, liveVars, offlinedeviceVars, offlineaccountVars>>

Stack == INSTANCE LocalStack WITH
        MaxGeneration <- 2, MaxFaults <- 1, faults <- stackFaults

\* One identity, the same names with another device, and another workspace of the user.
CoreCommands ==
    {[user |-> 1, space |-> 1, device |-> 1, kind |-> "obsidian"],
     [user |-> 1, space |-> 1, device |-> 2, kind |-> "obsidian"],
     [user |-> 1, space |-> 2, device |-> 1, kind |-> "system"]}

Core == INSTANCE CanonicalOperations WITH
        Runs <- {1, 2}, Commands <- CoreCommands, MaxFaults <- 1, intents <- coreIntents,
        faults <- coreFaults

Live == INSTANCE LiveAcceptance WITH
        MaxFaults <- 2, faults <- liveFaults

OfflineDevice == INSTANCE OfflineDevices WITH
        Grants <- {1, 2}, MaxGeneration <- 2, Rotations <- {1, 2}, MaxNow <- 2,
        GrantLife <- 1, AccessLife <- 1, RefreshLife <- 1, FamilyLife <- 2,
        PollInterval <- 1, MaxPollInterval <- 2, Window <- 2, LockTime <- 1, Threshold <- 2,
        audits <- odAudits

OfflineAccount == INSTANCE OfflineAccounts WITH
        Sessions <- {1, 2}, Enrollments <- {1, 2}, MaxChanges <- 2, MaxSecret <- 2,
        MaxIssue <- 2, MaxStep <- 2, Threshold <- 2

-----------------------------------------------------------------------------
OperationsInit ==
    /\ part \in {"reconciliation", "stack", "core", "live", "offline devices", "offline accounts"}
    /\ Init
    /\ Stack!Init
    /\ Core!Init
    /\ Live!Init
    /\ OfflineDevice!Init
    /\ OfflineAccount!Init
    \* a component at rest needs one of its initial states
    /\ part = "stack" \/ (~keys /\ ~alien)
    /\ part # "reconciliation" => sources = [s \in Sources |-> NoSource]
    \* a scan with nothing to find is left out
    /\ part = "reconciliation" => \E s \in Sources : sources[s] = OldSource

Runs(p) == part = p /\ UNCHANGED part

ScanIdle == UNCHANGED <<stackVars, coreVars, liveVars, offlinedeviceVars, offlineaccountVars>>
StackIdle == UNCHANGED <<scanVars, coreVars, liveVars, offlinedeviceVars, offlineaccountVars>>
CoreIdle == UNCHANGED <<scanVars, stackVars, liveVars, offlinedeviceVars, offlineaccountVars>>
LiveIdle == UNCHANGED <<scanVars, stackVars, coreVars, offlinedeviceVars, offlineaccountVars>>
OfflineDeviceIdle == UNCHANGED <<scanVars, stackVars, coreVars, liveVars, offlineaccountVars>>
OfflineAccountIdle == UNCHANGED <<scanVars, stackVars, coreVars, liveVars, offlinedeviceVars>>

ScanStep == Runs("reconciliation") /\ Next /\ ScanIdle
StackStep == Runs("stack") /\ Stack!Next /\ StackIdle
CoreStep == Runs("core") /\ Core!Next /\ CoreIdle
LiveStep == Runs("live") /\ Live!Next /\ LiveIdle
OfflineDeviceStep == Runs("offline devices") /\ OfflineDevice!Next /\ OfflineDeviceIdle
OfflineAccountStep == Runs("offline accounts") /\ OfflineAccount!Next /\ OfflineAccountIdle

OperationsNext == ScanStep \/ StackStep \/ CoreStep \/ LiveStep \/ OfflineDeviceStep \/ OfflineAccountStep

OperationsSpec == OperationsInit /\ [][OperationsNext]_operationsVars

\* Dispatchers differ in nothing but their names.
DispatcherSymmetry == Permutations(Dispatchers)

-----------------------------------------------------------------------------
\* The local stack: a volume can always be opened with the credentials on disk,
\* and a finished command reports what is so. The commands of the shell: an
\* identity is made once and told truly, a conflict is never invented, an
\* acceptance that passed is so. The live bootstrap: success means everything
\* is there, and no code is asked for twice. The stores in memory: one lineage
\* per live family and every transition audited once. One entry per session,
\* one factor in force, codes of its latest issue.
OperationsSafe ==
    /\ part = "stack" => Stack!StackSafe
    /\ part = "core" => Core!CoreSafe
    /\ part = "live" => Live!LiveSafe
    /\ part = "offline devices" => OfflineDevice!OfflineSafe
    /\ part = "offline accounts" => OfflineAccount!AccountsSafe

\* Only a reset removes a volume of the stack; a terminal reconciliation stays
\* so; the stores in memory keep the contract of the device ports, and a change
\* of the credential closes the other sessions.
OperationsSteps ==
    /\ Stack!VolumesKept
    /\ TerminalIsFinal
    /\ [][part = "offline devices" => OfflineDevice!ContractStep]_operationsVars
    /\ OfflineAccount!AccountSteps

=============================================================================
