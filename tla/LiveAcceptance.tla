---------------------------- MODULE LiveAcceptance ----------------------------
(***************************************************************************)
(* The guarded bootstrap of a disposable stack for the live journey of the *)
(* plugin (tools/obsidian_live_acceptance_bootstrap.py): a script of child *)
(* commands, each of which may fail or be cut off, run again until it      *)
(* succeeds.  A TOTP code is taken once, in the step of thirty seconds it  *)
(* belongs to, so the script waits for a fresh step between two uses.      *)
(***************************************************************************)
EXTENDS Naturals, Sequences, FiniteSets

CONSTANT
    MaxFaults    \* bound: children that fail or are cut off

VARIABLES
    world,       \* what the children have made: migrated, identity, credential, key, totp, policy
    accepted,    \* whether the server took a code: never, now (of this time step) or past
    script,      \* where the script stands: its step, its mode, the code it activated with
    phase,       \* the status file of the journey: none, of this run, or of an older one
    result,      \* the retained outcome of the last run
    faults

vars == <<world, accepted, script, phase, result, faults>>

Facts == {"migrated", "identity", "credential", "key", "totp", "policy", "journey"}

Script(pc, only) == [pc |-> pc, only |-> only, used |-> "never"]

Init ==
    /\ world = {} /\ accepted = "never"
    /\ script = Script("idle", FALSE)
    /\ phase = "none" /\ result = [state |-> "none", phase |-> "none"]
    /\ faults = 0

Fault == faults < MaxFaults /\ faults' = faults + 1

\* The child commands in order, and what each one makes when it has not been made.
Order == <<"guard", "status", "migrate", "identity", "credential", "key", "preflight",
           "activate", "again", "fresh", "policy", "measure", "settled", "journey", "finish">>

Makes == [migrate |-> "migrated", identity |-> "identity", credential |-> "credential",
          key |-> "key"]

Position(pc) == CHOOSE i \in 1 .. Len(Order) : Order[i] = pc

Following(pc) == Order[Position(pc) + 1]

Goto(pc) == script' = [script EXCEPT !.pc = pc]

\* The outcome is replaced whole, with the phase the status file names.
WriteFinalResult(state) == result' = [state |-> state, phase |-> phase]

\* One closed failure ends the run.
FailRun == Goto("idle") /\ WriteFinalResult("error")

-----------------------------------------------------------------------------

RunLiveAcceptance ==
    /\ script.pc = "idle" /\ result.state # "complete"
    /\ \E only \in BOOLEAN : script' = Script("guard", only)
    /\ phase' = IF phase = "own" THEN "old" ELSE phase
    /\ UNCHANGED <<world, accepted, result, faults>>

\* Only a disposable project of a CI run, whose stack is ready, is touched.
CheckStack ==
    /\ script.pc \in {"guard", "status"}
    /\ \/ Goto(Following(script.pc)) /\ UNCHANGED <<result, faults>>
       \/ Fault /\ FailRun
    /\ UNCHANGED <<world, accepted, phase>>

\* A child that makes what is not there yet; one that is run again finds its work done.
\* It may fail before or after.
RunChild ==
    /\ script.pc \in DOMAIN Makes
    /\ \/ /\ world' = world \cup {Makes[script.pc]}
          /\ Goto(Following(script.pc)) /\ UNCHANGED <<result, faults>>
       \/ /\ Fault /\ FailRun
          /\ world' \in {world, world \cup {Makes[script.pc]}}
    /\ UNCHANGED <<accepted, phase>>

\* The helper can compute a code exactly when the factor is active.
TotpPreflight ==
    /\ script.pc \in {"preflight", "again"}
    /\ \/ /\ "totp" \in world
          /\ Goto(IF script.pc = "preflight" THEN "policy" ELSE "fresh")
          /\ UNCHANGED <<result, faults>>
       \/ /\ "totp" \notin world /\ script.pc = "preflight"
          /\ Goto("activate") /\ UNCHANGED <<result, faults>>
       \/ /\ script.pc = "again" /\ Fault /\ FailRun
    /\ UNCHANGED <<world, accepted, phase>>

\* Login, enrollment and verification over HTTP: the code is of the step the clock showed,
\* the server takes it in that step or the next, and its answer may be lost.
ActivateTotp ==
    /\ script.pc = "activate"
    /\ \/ /\ script.used = "never"
          /\ script' = [script EXCEPT !.used = "now"]
          /\ UNCHANGED <<world, accepted, result, faults>>
       \/ /\ script.used # "never"
          /\ world' = world \cup {"totp"} /\ accepted' = script.used
          /\ \/ Goto("again") /\ UNCHANGED <<result, faults>>
             \/ Fault /\ FailRun
       \/ /\ Fault /\ FailRun /\ UNCHANGED <<world, accepted>>
    /\ UNCHANGED phase

StepPassed(used) == used # "now"

WaitForUnusedTotpStep ==
    /\ script.pc \in {"fresh", "settled"} /\ StepPassed(script.used)
    /\ Goto(IF script.pc = "settled" /\ script.only THEN "finish" ELSE Following(script.pc))
    /\ phase' = IF script.pc = "settled" /\ script.only THEN "none" ELSE phase
    /\ UNCHANGED <<world, accepted, result, faults>>

\* A login of a child: a code is taken once, and the child has only the one of this step.
CodeFits == accepted # "now"

\* The policy is published by a helper that signs in with a code of its own; the step is
\* measured when the helper is back.
PublishPolicy ==
    /\ script.pc = "policy"
    /\ \/ /\ CodeFits /\ accepted' = "now"
          /\ world' = world \cup {"policy"}
          /\ Goto("measure") /\ UNCHANGED <<result, faults>>
       \/ ~CodeFits /\ FailRun /\ UNCHANGED <<world, accepted, faults>>
       \/ /\ Fault /\ FailRun
          /\ UNCHANGED world /\ accepted' \in {accepted} \cup (IF CodeFits THEN {"now"} ELSE {})
    /\ UNCHANGED phase

MeasurePolicyStep ==
    /\ script.pc = "measure"
    /\ script' = [script EXCEPT !.pc = "settled", !.used = "now"]
    /\ UNCHANGED <<world, accepted, phase, result, faults>>

\* The status file of an earlier journey is removed before this one starts; its own is
\* removed afterwards unless it is asked to be kept.
RunWdioJourney ==
    /\ script.pc = "journey"
    /\ \/ /\ CodeFits /\ accepted' = "now"
          /\ world' = world \cup {"journey"} /\ phase' \in {"none", "own"}
          /\ Goto("finish") /\ UNCHANGED <<result, faults>>
       \/ /\ Fault /\ phase' \in {"none", "own"}
          /\ Goto("idle") /\ result' = [state |-> "error", phase |-> phase']
          /\ accepted' \in {accepted} \cup (IF CodeFits THEN {"now"} ELSE {})
          /\ UNCHANGED world

Finish ==
    /\ script.pc = "finish"
    /\ Goto("idle") /\ WriteFinalResult("complete")
    /\ UNCHANGED <<world, accepted, phase, faults>>

\* The script is killed between two children.
Killed ==
    /\ script.pc # "idle" /\ Fault
    /\ Goto("idle")
    /\ UNCHANGED <<world, accepted, phase, result>>

Aged(when) == IF when = "now" THEN "past" ELSE when

\* The next time step begins.
Tick ==
    /\ "now" \in {accepted, script.used}
    /\ accepted' = Aged(accepted) /\ script' = [script EXCEPT !.used = Aged(@)]
    /\ UNCHANGED <<world, phase, result, faults>>

Rest ==
    /\ script.pc = "idle" /\ result.state = "complete" /\ UNCHANGED vars

Next ==
    \/ RunLiveAcceptance \/ CheckStack \/ RunChild \/ TotpPreflight \/ ActivateTotp
    \/ WaitForUnusedTotpStep \/ PublishPolicy \/ MeasurePolicyStep \/ RunWdioJourney
    \/ Finish \/ Killed \/ Tick \/ Rest

Spec == Init /\ [][Next]_vars

-----------------------------------------------------------------------------

TypeOK ==
    /\ world \subseteq Facts /\ {accepted, script.used} \subseteq {"never", "now", "past"}
    /\ script.pc \in {"idle"} \cup {Order[i] : i \in 1 .. Len(Order)}
    /\ {phase, result.phase} \subseteq {"none", "own", "old"}
    /\ result.state \in {"none", "error", "complete"}

\* A run that reports success left everything the journey needs, and names no phase of an
\* earlier run that failed.
CompleteTrue ==
    result.state = "complete" =>
        /\ Facts \ {"journey"} \subseteq world
        /\ result.phase # "old"

\* A run that activated the factor itself never asks with a code that was taken: its own
\* waits are enough, however long a child took and wherever the steps of the clock fall.
OwnCodesFresh ==
    /\ script.pc = "policy" /\ script.used # "never" => CodeFits
    /\ script.pc = "journey" => CodeFits

LiveSafe == TypeOK /\ CompleteTrue /\ OwnCodesFresh
=============================================================================
