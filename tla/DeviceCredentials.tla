-------------------------- MODULE DeviceCredentials --------------------------
(***************************************************************************)
(* How a device comes to a credential and keeps it.                        *)
(*                                                                         *)
(* The owner approves a pending grant in the browser; the device polls and *)
(* exchanges it for a token family (device_authorization_store.py), then   *)
(* rotates its refresh token for ever new generations                      *)
(* (device_token_store.py).  A rotated token that comes back is a sign of  *)
(* theft and ends the family, unless it is the replay of the rotation that *)
(* was committed last, which is answered again.                            *)
(*                                                                         *)
(* The plugin keeps one durable secret record and one durable setting,     *)
(* written one after the other; its requests may be lost, may time out and *)
(* still be served, and the plugin may die anywhere (token-session.ts,     *)
(* device-authorization.ts).  A device, its family and its tokens are      *)
(* named after the grant they came from; a generation names its token.     *)
(***************************************************************************)
EXTENDS Naturals, FiniteSets

CONSTANTS
    Grants,         \* grants the device may ask for, 1 .. n
    MaxLive,        \* pending grants of one client instance
    MaxGeneration,  \* bound on rotations
    Rotations,      \* rotation ids the plugin draws from
    Slots,          \* requests under way at once
    MaxFaults       \* bound on lost answers, crashes and expiries

ASSUME GrantsAssumption == Grants \subseteq Nat \ {0}
ASSUME SlotsAssumption  == Slots \subseteq Nat
ASSUME RotationsAssumption == Rotations \subseteq Nat \ {0}
ASSUME BoundsAssumption == MaxLive \in Nat /\ MaxGeneration \in Nat \ {0} /\ MaxFaults \in Nat

VARIABLES
    grant,      \* per grant: its row, and the pacing bucket of its polls
    device,     \* per grant: the status of its device row
    family,     \* per grant: the token family
    refresh,    \* per grant and generation: the refresh token row
    access,     \* per grant and generation: the access token row
    req,        \* requests under way
    record,     \* the plugin's secret record, durable
    setting,    \* the plugin's pending grant, or 0, durable
    memory,     \* the access token in the plugin's memory
    started,    \* the plugin has reconciled its two durable places since it started
    stale,      \* per grant: a request was served after the device had moved on
    faults

tokens == <<device, family, refresh, access>>
plugin == <<record, setting, memory, started>>
vars   == <<grant, tokens, req, plugin, stale, faults>>

Generations == 1 .. MaxGeneration

-------------------------------------------------------------------------------
NoToken  == [state |-> "none", rotation |-> 0, successor |-> 0]
NoFamily == [state |-> "none", generation |-> 0, reason |-> "none", expired |-> FALSE]
NoGrant  == [state |-> "none", expired |-> FALSE, claimed |-> 0, locked |-> FALSE,
             approved |-> FALSE, denied |-> FALSE, exchanged |-> FALSE]

NoRecord == [state |-> "none", grant |-> 0, generation |-> 0, rotation |-> 0]
Cleared  == [NoRecord EXCEPT !.state = "cleared"]
NoAccess == [grant |-> 0, generation |-> 0]

Free == [kind |-> "free", grant |-> 0, generation |-> 0, rotation |-> 0,
         pc |-> "done", answer |-> "none", waited |-> FALSE]

Init ==
    /\ grant = [g \in Grants |-> NoGrant]
    /\ device = [g \in Grants |-> "none"]
    /\ family = [g \in Grants |-> NoFamily]
    /\ refresh = [g \in Grants |-> [n \in Generations |-> NoToken]]
    /\ access = [g \in Grants |-> [n \in Generations |-> "none"]]
    /\ req = [s \in Slots |-> Free]
    /\ record = NoRecord /\ setting = 0 /\ memory = NoAccess /\ started = FALSE
    /\ stale = [g \in Grants |-> FALSE]
    /\ faults = 0

Fault == faults < MaxFaults /\ faults' = faults + 1

Answer(s, answer) ==
    req' = [req EXCEPT ![s] = IF @.waited THEN [@ EXCEPT !.pc = "done", !.answer = answer] ELSE Free]

-------------------------------------------------------------------------------
(* The grant.                                                              *)

\* Grants of this client instance that are still open.
LiveGrants == {g \in Grants : grant[g].state = "pending" /\ ~grant[g].expired}

InsertPending(g, claimed) == grant' = [grant EXCEPT ![g] = [NoGrant EXCEPT !.state = "pending",
                                                                         !.claimed = claimed]]

\* Mutant: a decision is taken whatever the grant has become.
Undecided(g) == grant[g].state # "none"

\* Only a pending grant whose ten minutes are not over can be decided.
Decidable(g) == grant[g].state = "pending" /\ ~grant[g].expired

TerminalTransition(g, decision) ==
    /\ Decidable(g)
    /\ grant' = [grant EXCEPT ![g].state = decision,
                              ![g].approved = @ \/ decision = "approved",
                              ![g].denied = @ \/ decision = "denied"]
    /\ UNCHANGED <<tokens, req, plugin, stale, faults>>

ApproveGrant(g) == TerminalTransition(g, "approved")

DenyGrant(g) == TerminalTransition(g, "denied")

GrantExpires(g) ==
    /\ grant[g].state \in {"pending", "approved"} /\ ~grant[g].expired
    /\ Fault
    /\ grant' = [grant EXCEPT ![g].expired = TRUE]
    /\ UNCHANGED <<tokens, req, plugin, stale>>

\* The pacing bucket of a grant opens again after its interval.
PollWindowOpens(g) ==
    /\ grant[g].locked
    /\ grant' = [grant EXCEPT ![g].locked = FALSE]
    /\ UNCHANGED <<tokens, req, plugin, stale, faults>>

\* The first transaction of a poll: too early is told to slow down.
PacePoll(s) ==
    LET g == req[s].grant
    IN  /\ req[s].kind = "poll" /\ req[s].pc = "sent"
        /\ IF grant[g].locked
           THEN Answer(s, "slow_down") /\ UNCHANGED grant
           ELSE /\ grant' = [grant EXCEPT ![g].locked = TRUE]
                /\ req' = [req EXCEPT ![s].pc = "paced"]
        /\ UNCHANGED <<tokens, plugin, stale, faults>>

\* What an exchange that was committed is answered with: the same tokens, as long as
\* they are still the family's first generation.
ReplayExchange(g) ==
    IF refresh[g][1].state = "active" /\ family[g].generation = 1 THEN "granted" ELSE "state_invalid"

PollVerdict(g) ==
    CASE grant[g].state = "denied"                           -> "denied"
      [] grant[g].state = "pending" /\ ~grant[g].expired     -> "pending"
      [] grant[g].state = "exchanged"                        -> ReplayExchange(g)
      [] grant[g].state = "approved" /\ ~grant[g].expired    -> "exchange"
      [] OTHER                                               -> "expired"

\* Both tokens of the exchange are derived from the grant: a replay derives the same.
FirstToken == [NoToken EXCEPT !.state = "active"]

\* Device, family and first tokens come into being with the exchange of the grant.
CommitFirstExchange(g) ==
    /\ grant' = [grant EXCEPT ![g].state = "exchanged", ![g].exchanged = TRUE]
    /\ device' = [device EXCEPT ![g] = "active"]
    /\ family' = [family EXCEPT ![g] = [NoFamily EXCEPT !.state = "active", !.generation = 1]]
    /\ refresh' = [refresh EXCEPT ![g][1] = FirstToken]
    /\ access' = [access EXCEPT ![g][1] = "active"]

\* The second transaction of a poll, under the lock of the grant.
PollExchange(s) ==
    LET g == req[s].grant
    IN  /\ req[s].kind = "poll" /\ req[s].pc = "paced"
        /\ IF PollVerdict(g) = "exchange"
           THEN CommitFirstExchange(g) /\ Answer(s, "granted")
           ELSE UNCHANGED <<grant, tokens>> /\ Answer(s, PollVerdict(g))
        /\ UNCHANGED <<plugin, stale, faults>>

-------------------------------------------------------------------------------
(* The token family.                                                       *)

\* Every active token of the family.
RevokeTokens(g) ==
    /\ refresh' = [refresh EXCEPT ![g] = [n \in Generations |->
                      IF @[n].state = "active" THEN [@[n] EXCEPT !.state = "revoked"] ELSE @[n]]]
    /\ access' = [access EXCEPT ![g] = [n \in Generations |->
                      IF @[n] \in {"active", "expired"} THEN "revoked" ELSE @[n]]]

RevokedFamily(g, reason) ==
    [family EXCEPT ![g].state = "revoked", ![g].reason = reason]

\* Confirmed reuse ends the family and the device, once.
RevokeForReuse(g) ==
    IF family[g].state = "revoked" THEN UNCHANGED tokens
    ELSE /\ family' = RevokedFamily(g, "token_reuse")
         /\ RevokeTokens(g)
         /\ device' = [device EXCEPT ![g] = "revoked"]

\* What the presentation of generation n under a rotation id is.
ClassifyPresentation(g, n, rotation) ==
    LET token == refresh[g][n]
    IN  IF family[g].state = "revoked" THEN "reuse"
        ELSE CASE token.state = "revoked" -> "reuse"
               [] token.state = "rotated" ->
                      IF /\ n < MaxGeneration /\ refresh[g][n + 1].rotation = rotation
                         /\ refresh[g][n + 1].state = "active" /\ family[g].generation = n + 1
                      THEN "replay" ELSE "reuse"
               [] OTHER -> IF family[g].generation # n \/ family[g].expired THEN "reuse" ELSE "rotate"

\* The successor is derived from its predecessor and the rotation id.
Successor(rotation) == [NoToken EXCEPT !.state = "active", !.rotation = rotation]

\* The predecessor is rotated, its successors are inserted and the family advances.
CommitNewRotation(g, n, rotation) ==
    /\ refresh' = [refresh EXCEPT ![g][n].state = "rotated", ![g][n].successor = n + 1,
                                  ![g][n + 1] = Successor(rotation)]
    /\ access' = [access EXCEPT ![g][n + 1] = "active"]
    /\ family' = [family EXCEPT ![g].generation = n + 1]
    /\ device' = device

\* The committed successor is derived once more and answered; no row changes.
ReplayRotation == UNCHANGED tokens

\* The refresh transaction, under the locks of the token and of its family.
RefreshRotation(s) ==
    LET r    == req[s]
        kind == ClassifyPresentation(r.grant, r.generation, r.rotation)
    IN  /\ r.kind = "refresh" /\ r.pc = "sent"
        /\ kind = "rotate" => r.generation < MaxGeneration
        /\ CASE kind = "rotate" -> CommitNewRotation(r.grant, r.generation, r.rotation)
                                   /\ Answer(s, "rotated")
             [] kind = "replay" -> ReplayRotation /\ Answer(s, "rotated")
             [] kind = "reuse"  -> RevokeForReuse(r.grant) /\ Answer(s, "reuse")
        /\ stale' = [stale EXCEPT ![r.grant] = @ \/ r.generation + 1 < family[r.grant].generation]
        /\ UNCHANGED <<grant, plugin, faults>>

\* The device revokes its own family; a token that is not current is reuse here too.
RevokeCurrentRefresh(s) ==
    LET g == req[s].grant
        n == req[s].generation
    IN  /\ req[s].kind = "revoke" /\ req[s].pc = "sent"
        /\ CASE family[g].state = "revoked" \/ refresh[g][n].state = "revoked" ->
                    UNCHANGED tokens /\ Answer(s, "device_revoked")
             [] family[g].state # "revoked" /\ refresh[g][n].state # "revoked"
                /\ (refresh[g][n].state = "rotated" \/ family[g].generation # n) ->
                    RevokeForReuse(g) /\ Answer(s, "reuse")
             [] OTHER ->
                    /\ family' = RevokedFamily(g, "self_revoked") /\ RevokeTokens(g)
                    /\ device' = device /\ Answer(s, "revoked")
        /\ stale' = [stale EXCEPT ![g] = @ \/ n < family[g].generation]
        /\ UNCHANGED <<grant, plugin, faults>>

\* A grant that names the revoked device is denied with it.
DenyClaims(g) ==
    [h \in Grants |-> IF grant[h].claimed = g /\ grant[h].state \in {"pending", "approved"}
                      THEN [grant[h] EXCEPT !.state = "denied", !.denied = TRUE] ELSE grant[h]]

AdminRevokeDevice(g) ==
    /\ device[g] = "active"
    /\ device' = [device EXCEPT ![g] = "revoked"]
    /\ family' = IF family[g].state = "active" THEN RevokedFamily(g, "admin_revoked") ELSE family
    /\ RevokeTokens(g)
    /\ grant' = DenyClaims(g)
    /\ UNCHANGED <<req, plugin, stale, faults>>

\* Thirty days without a refresh, or ninety in all.
FamilyExpires(g) ==
    /\ family[g].state = "active" /\ ~family[g].expired
    /\ Fault
    /\ family' = [family EXCEPT ![g].expired = TRUE]
    /\ UNCHANGED <<grant, device, refresh, access, req, plugin, stale>>

AccessExpires(g, n) ==
    /\ access[g][n] = "active" /\ memory = [grant |-> g, generation |-> n]
    /\ access' = [access EXCEPT ![g][n] = "expired"]
    /\ UNCHANGED <<grant, device, family, refresh, req, plugin, stale, faults>>

\* Every request of the device is let in by its access token alone.
Authenticates(g, n) ==
    /\ access[g][n] = "active" /\ device[g] = "active"
    /\ family[g].state = "active" /\ ~family[g].expired

-------------------------------------------------------------------------------
(* The plugin.                                                             *)

Waits(k)    == \E s \in Slots : req[s].kind = k /\ req[s].waited
FreeSlot(s) == req[s].kind = "free" /\ \A t \in Slots : req[t].kind = "free" => s <= t
Send(s, r)  == req' = [req EXCEPT ![s] = [r EXCEPT !.pc = "sent", !.waited = TRUE]]
Got(s, k)   == req[s].kind = k /\ req[s].waited /\ req[s].pc = "done"
Forget(s)   == req' = [req EXCEPT ![s] = Free]

\* The two durable places after a start: the record decides, the setting follows.
Startup ==
    /\ ~started
    /\ started' = TRUE
    /\ CASE record.state = "pending" /\ setting # record.grant ->
                record' = Cleared /\ setting' = 0
         [] record.state = "pending" /\ setting = record.grant -> UNCHANGED <<record, setting>>
         [] OTHER -> setting' = 0 /\ UNCHANGED record
    /\ UNCHANGED <<grant, tokens, req, memory, stale, faults>>

\* A new login, claiming the device the plugin was before; the answer may be lost.
StartLogin ==
    /\ started /\ setting = 0 /\ record.state \in {"none", "cleared"}
    /\ Cardinality(LiveGrants) < MaxLive
    /\ \E g \in Grants, claimed \in {0} \cup {h \in Grants : device[h] # "none"} :
          /\ grant[g].state = "none" /\ \A h \in Grants : grant[h].state = "none" => g <= h
          /\ InsertPending(g, claimed)
          /\ \/ record' = [NoRecord EXCEPT !.state = "pending", !.grant = g] /\ UNCHANGED faults
             \/ Fault /\ record' = record
    /\ UNCHANGED <<tokens, req, setting, memory, started, stale>>

\* The setting is written after the record.
PersistSetting ==
    /\ started /\ record.state = "pending" /\ setting = 0
    /\ setting' = record.grant
    /\ UNCHANGED <<grant, tokens, req, record, memory, started, stale, faults>>

Poll ==
    /\ started /\ setting # 0 /\ record.state = "pending" /\ ~Waits("poll")
    /\ \E s \in Slots : FreeSlot(s) /\ Send(s, [Free EXCEPT !.kind = "poll", !.grant = setting])
    /\ UNCHANGED <<grant, tokens, plugin, stale, faults>>

Credentials(g, n) == [state |-> "active", grant |-> g, generation |-> n, rotation |-> 0]

TerminateLogin == record' = Cleared /\ setting' = 0

\* The exchange is durable before the setting forgets the grant.
OnPoll(s) ==
    /\ Got(s, "poll")
    /\ Forget(s)
    /\ CASE setting = 0 -> UNCHANGED <<record, setting, memory>>
         [] setting # 0 /\ req[s].answer = "granted" ->
                /\ record' = Credentials(req[s].grant, 1)
                /\ memory' = [grant |-> req[s].grant, generation |-> 1]
                /\ UNCHANGED setting
         [] setting # 0 /\ req[s].answer \in {"denied", "expired", "state_invalid"} ->
                TerminateLogin /\ UNCHANGED memory
         [] OTHER -> UNCHANGED <<record, setting, memory>>
    /\ UNCHANGED <<grant, tokens, started, stale, faults>>

\* The setting is cleared once the record is no longer pending.
FinishLogin ==
    /\ started /\ record.state \in {"active", "cleared"} /\ setting # 0
    /\ setting' = 0
    /\ UNCHANGED <<grant, tokens, req, record, memory, started, stale, faults>>

\* The user gives the login up; a credential that already arrived is kept.
CancelLogin ==
    /\ started /\ setting # 0 /\ record.state = "pending"
    /\ TerminateLogin
    /\ UNCHANGED <<grant, tokens, req, memory, started, stale, faults>>

\* Mutant: every attempt draws an id of its own.
FreshRotations == Rotations

\* The rotation id an interrupted refresh left behind is used again.
RotationIds == IF record.rotation # 0 THEN {record.rotation} ELSE Rotations

\* After a start there is no access token; later one, until a call with it is refused.
NeedsAccess == memory # NoAccess => ~Authenticates(memory.grant, memory.generation)

\* Single flight; the rotation id is durable before the request leaves.
Refresh ==
    /\ started /\ record.state = "active" /\ setting = 0 /\ ~Waits("refresh") /\ NeedsAccess
    /\ record.generation < MaxGeneration
    /\ \E s \in Slots, rotation \in RotationIds :
          /\ FreeSlot(s)
          /\ record' = [record EXCEPT !.rotation = rotation]
          /\ Send(s, [Free EXCEPT !.kind = "refresh", !.grant = record.grant,
                                  !.generation = record.generation, !.rotation = rotation])
    /\ UNCHANGED <<grant, tokens, setting, memory, started, stale, faults>>

\* The record is written over whatever it has become meanwhile.
OnRefresh(s) ==
    /\ Got(s, "refresh")
    /\ Forget(s)
    /\ IF req[s].answer = "rotated"
       THEN /\ record' = Credentials(req[s].grant, req[s].generation + 1)
            /\ memory' = [grant |-> req[s].grant, generation |-> req[s].generation + 1]
       ELSE record' = Cleared /\ memory' = NoAccess
    /\ UNCHANGED <<grant, tokens, setting, started, stale, faults>>

Disconnect ==
    /\ started /\ record.state = "active" /\ ~Waits("revoke")
    /\ \E s \in Slots :
          FreeSlot(s) /\ Send(s, [Free EXCEPT !.kind = "revoke", !.grant = record.grant,
                                              !.generation = record.generation])
    /\ UNCHANGED <<grant, tokens, plugin, stale, faults>>

OnDisconnect(s) ==
    /\ Got(s, "revoke")
    /\ Forget(s)
    /\ record' = Cleared /\ memory' = NoAccess
    /\ UNCHANGED <<grant, tokens, setting, started, stale, faults>>

\* The network gives no answer: the request may still be served.
NoAnswer(s) ==
    /\ req[s].waited
    /\ Fault
    /\ req' = [req EXCEPT ![s] = IF @.pc = "done" THEN Free ELSE [@ EXCEPT !.waited = FALSE]]
    /\ UNCHANGED <<grant, tokens, plugin, stale>>

Crash ==
    /\ started
    /\ Fault
    /\ started' = FALSE /\ memory' = NoAccess
    /\ req' = [s \in Slots |-> IF req[s].pc = "done" THEN Free ELSE [req[s] EXCEPT !.waited = FALSE]]
    /\ UNCHANGED <<grant, tokens, record, setting, stale>>

\* What one request of the device does to the server.
ExchangeGrant(s) == PacePoll(s) \/ PollExchange(s)

ServerStep(s) == ExchangeGrant(s) \/ RefreshRotation(s) \/ RevokeCurrentRefresh(s)

Owner == \E g \in Grants : ApproveGrant(g) \/ DenyGrant(g) \/ AdminRevokeDevice(g)

Time == \E g \in Grants :
    GrantExpires(g) \/ PollWindowOpens(g) \/ FamilyExpires(g) \/ \E n \in Generations : AccessExpires(g, n)

PluginStep ==
    \/ Startup \/ StartLogin \/ PersistSetting \/ Poll \/ FinishLogin \/ CancelLogin
    \/ Refresh \/ Disconnect
    \/ \E s \in Slots : OnPoll(s) \/ OnRefresh(s) \/ OnDisconnect(s)

\* Every grant of the instance was used up and the device is logged out.
Exhausted ==
    /\ started /\ record.state \in {"none", "cleared"} /\ setting = 0
    /\ \A g \in Grants : grant[g].state # "none"
    /\ \A s \in Slots : req[s] = Free
    /\ UNCHANGED vars

Next ==
    \/ PluginStep \/ Owner \/ Time \/ Crash \/ Exhausted
    \/ \E s \in Slots : ServerStep(s) \/ NoAnswer(s)

Spec == Init /\ [][Next]_vars

-------------------------------------------------------------------------------
GrantRows == [state : {"none", "pending", "approved", "denied", "exchanged"}, expired : BOOLEAN,
              claimed : Grants \cup {0}, locked : BOOLEAN, approved : BOOLEAN, denied : BOOLEAN,
              exchanged : BOOLEAN]
Families  == [state : {"none", "active", "revoked"}, generation : 0 .. MaxGeneration,
              reason : {"none", "token_reuse", "self_revoked", "admin_revoked"}, expired : BOOLEAN]
Tokens    == [state : {"none", "active", "rotated", "revoked"}, rotation : Rotations \cup {0},
              successor : 0 .. MaxGeneration]
Requests  == [kind : {"free", "poll", "refresh", "revoke"}, grant : Grants \cup {0},
              generation : 0 .. MaxGeneration, rotation : Rotations \cup {0},
              pc : {"sent", "paced", "done"}, waited : BOOLEAN,
              answer : {"none", "slow_down", "pending", "denied", "expired", "state_invalid",
                        "granted", "rotated", "reuse", "device_revoked", "revoked"}]
Records   == [state : {"none", "pending", "active", "cleared"}, grant : Grants \cup {0},
              generation : 0 .. MaxGeneration, rotation : Rotations \cup {0}]

\* The shapes of the rows, of the requests and of what the plugin keeps.
TypeOK ==
    /\ grant \in [Grants -> GrantRows]
    /\ device \in [Grants -> {"none", "active", "revoked"}]
    /\ family \in [Grants -> Families]
    /\ refresh \in [Grants -> [Generations -> Tokens]]
    /\ access \in [Grants -> [Generations -> {"none", "active", "expired", "revoked"}]]
    /\ req \in [Slots -> Requests]
    /\ record \in Records /\ setting \in Grants \cup {0} /\ started \in BOOLEAN
    /\ memory \in [grant : Grants \cup {0}, generation : 0 .. MaxGeneration]
    /\ stale \in [Grants -> BOOLEAN]
    /\ faults \in 0 .. MaxFaults

\* The checks of the tables (ck_device_authorization_grants__state_matrix and
\* __exchange_links, ck_device_tokens__state_lineage, ck_device_token_families__*).
GrantRow(g) ==
    LET row == grant[g]
    IN  /\ row.state = "pending"   <=> ~row.approved /\ ~row.denied /\ ~row.exchanged
        /\ row.state = "approved"  <=> row.approved /\ ~row.denied /\ ~row.exchanged
        /\ row.state = "denied"    <=> row.denied /\ ~row.exchanged
        /\ row.state = "exchanged" <=> row.exchanged /\ ~row.denied
        /\ row.exchanged => row.approved /\ device[g] # "none" /\ family[g].state # "none"
                               /\ refresh[g][1] # NoToken /\ access[g][1] # "none"

TokenRow(g, n) ==
    LET row == refresh[g][n]
    IN  /\ row.successor # 0 => row.state = "rotated" /\ refresh[g][row.successor] # NoToken
        /\ n > 1 => row.rotation # 0 /\ refresh[g][n - 1].successor = n
        /\ access[g][n] # "none"

FamilyRow(g) ==
    /\ family[g].generation >= 1 /\ device[g] # "none"
    /\ \A m, n \in Generations :
          refresh[g][m].state = "active" /\ refresh[g][n].state = "active" => m = n

\* Every row the transitions leave behind is one its table admits, links included.
RowsAdmitted ==
    \A g \in Grants :
        /\ grant[g].state # "none" => GrantRow(g)
        /\ grant[g].state = "exchanged" <=> device[g] # "none"
        /\ device[g] # "none" <=> family[g].state # "none"
        /\ family[g].state # "none" => FamilyRow(g)
        /\ \A n \in Generations : refresh[g][n] # NoToken => TokenRow(g, n)

\* A live family has exactly one active refresh token, its current generation; every
\* earlier one was rotated into the next (one lineage, never two).
OneLineage ==
    \A g \in Grants : family[g].state = "active" =>
        \A n \in Generations :
            /\ refresh[g][n].state = "active" <=> n = family[g].generation
            /\ refresh[g][n].state = "rotated" <=> n < family[g].generation

\* Revocation, whoever asked for it and whatever rotation or exchange ran beside it,
\* leaves no token of the device that would let a request in or rotate.
RevokedIsDead ==
    \A g \in Grants : device[g] = "revoked" \/ family[g].state = "revoked" =>
        /\ family[g].state = "revoked"
        /\ \A n \in Generations : refresh[g][n].state # "active" /\ access[g][n] \notin {"active", "expired"}

\* A device that follows the protocol is never taken for a thief: lost answers and
\* crashes are healed by the durable rotation id.  Only a family that had expired, or a
\* request so late that the device had already moved on, ends in a confirmed reuse.
HonestNeverAccused ==
    \A g \in Grants : family[g].reason = "token_reuse" => family[g].expired \/ stale[g]

\* What was decided about a grant stands: a denied one never becomes a device, not even
\* by a poll that was under way, and an approved one cannot be taken back or approved anew.
DecisionStands ==
    [][\A g \in Grants :
          /\ grant[g].state = "denied" => grant'[g].state = "denied" /\ device'[g] = "none"
          /\ grant[g].state = "exchanged" => grant'[g].state = "exchanged"]_vars

\* Revoking a device also closes the door a re-login for it had left open.
ClaimsDieWithDevice ==
    [][\A g \in Grants : device[g] = "active" /\ device'[g] = "revoked" /\ family'[g].reason = "admin_revoked"
          => \A h \in Grants : grant[h].claimed = g => grant'[h].state \notin {"pending", "approved"}]_vars

\* One lineage per live family, nothing usable after a revocation, and no honest
\* device accused of a reuse.
DeviceSafe == TypeOK /\ RowsAdmitted /\ OneLineage /\ RevokedIsDead /\ HonestNeverAccused

Stage(g) ==
    CASE grant[g].state = "none"                    -> "none"
      [] grant[g].state \in {"pending", "approved"} -> "open"
      [] grant[g].state = "denied"                  -> "denied"
      [] grant[g].state = "exchanged" -> IF family[g].state = "active" THEN "live" ELSE "ended"

Contract == INSTANCE DeviceContract WITH
    stage <- [g \in Grants |-> Stage(g)], generation <- [g \in Grants |-> family[g].generation]

\* The database stores keep the promises of the ports, plugin and faults included.
ImplementsContract == Contract!Spec

\* A decision about a grant stands, and a revoked device takes its claims along.
DeviceSteps == DecisionStands /\ ClaimsDieWithDevice
=============================================================================
