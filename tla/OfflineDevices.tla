--------------------------- MODULE OfflineDevices ----------------------------
(***************************************************************************)
(* The stores in memory that stand in for the device tables in the offline *)
(* runtime (authentication_composition.py: OfflineDeviceAuthorizationStore *)
(* and OfflineDeviceTokenStore).  They are two objects with a lock each    *)
(* over one set of rows; no method awaits while it holds its lock, so each *)
(* call is one step.  Callers may present anything they were ever given:   *)
(* an old generation, another rotation id, a call that comes late.         *)
(***************************************************************************)
EXTENDS Naturals, FiniteSets

CONSTANTS
    Grants,         \* grants, and the devices and families named after them
    MaxGeneration,  \* bound on rotations
    Rotations,      \* rotation ids a caller may present
    MaxNow,         \* bound on the clock
    GrantLife, AccessLife, RefreshLife, FamilyLife,   \* lifetimes, in ticks
    PollInterval, MaxPollInterval,                    \* pacing of polls, in ticks
    Window, LockTime, Threshold                       \* the throttle of grant creation

VARIABLES
    now,        \* the offline clock
    grant,      \* device_grant_rows
    device,     \* device_rows
    family,     \* device_family_rows
    refresh,    \* device_token_rows of kind refresh, by generation
    access,     \* device_token_rows of kind access, by generation
    polls,      \* the grant_poll bucket of each polling credential
    creation,   \* the grant_creation bucket of the client
    audits      \* how often each audit action was appended

rows == <<grant, device, family, refresh, access>>
vars == <<now, rows, polls, creation, audits>>

Generations == 1 .. MaxGeneration

-------------------------------------------------------------------------------
NoGrant  == [state |-> "none", expires |-> 0, claimed |-> 0]
NoFamily == [state |-> "none", generation |-> 0, inactivity |-> 0, absolute |-> 0, reason |-> "none"]
NoToken  == [state |-> "none", rotation |-> 0, expires |-> 0]
NoBucket == [started |-> 0, count |-> 0, until |-> 0, open |-> FALSE]

Init ==
    /\ now = 0
    /\ grant = [g \in Grants |-> NoGrant]
    /\ device = [g \in Grants |-> "none"]
    /\ family = [g \in Grants |-> NoFamily]
    /\ refresh = [g \in Grants |-> [n \in Generations |-> NoToken]]
    /\ access = [g \in Grants |-> [n \in Generations |-> NoToken]]
    /\ polls = [g \in Grants |-> NoBucket]
    /\ creation = [NoBucket EXCEPT !.count = 1, !.open = TRUE]   \* an earlier grant of the client
    /\ audits = [approved |-> 0, denied |-> 0, registered |-> 0, reuse |-> 0, self |-> 0, revoked |-> 0]

Tick == now < MaxNow /\ now' = now + 1 /\ UNCHANGED <<rows, polls, creation, audits>>

Audit(action) == audits' = [audits EXCEPT ![action] = @ + 1]

Least(a, b) == IF a < b THEN a ELSE b

-------------------------------------------------------------------------------
(* Grants.                                                                 *)

Locked(bucket) == bucket.open /\ bucket.until > now

\* The bucket one more attempt leaves: an elapsed window starts over, a lock holds.
NextAttempt(bucket) ==
    IF ~bucket.open \/ now >= bucket.started + Window
    THEN [started |-> now, count |-> 1, until |-> 0, open |-> TRUE]
    ELSE IF Locked(bucket) THEN bucket
    ELSE [bucket EXCEPT !.count = @ + 1,
                        !.until = IF bucket.count + 1 >= Threshold THEN now + LockTime ELSE 0]

\* The attempt that closes the lock is still admitted.
CreationAdmitted == ~Locked(NextAttempt(creation)) \/ ~Locked(creation)

InsertPendingGrant(g, claimed) ==
    /\ grant[g].state = "none" /\ \A h \in Grants : grant[h].state = "none" => g <= h
    /\ CreationAdmitted
    /\ creation' = NextAttempt(creation)
    /\ grant' = [grant EXCEPT ![g] = [state |-> "pending", expires |-> now + GrantLife,
                                      claimed |-> claimed]]
    /\ UNCHANGED <<now, device, family, refresh, access, polls, audits>>

\* resolve_terminal_rejection_code: the state is looked at before the clock.
Decidable(g) == grant[g].state = "pending" /\ now < grant[g].expires

TerminalTransition(g, decision) ==
    /\ Decidable(g)
    /\ grant' = [grant EXCEPT ![g].state = decision]
    /\ Audit(decision)
    /\ UNCHANGED <<now, device, family, refresh, access, polls, creation>>

ApproveGrant(g) == TerminalTransition(g, "approved")

DenyGrant(g) == TerminalTransition(g, "denied")

Power(n) == IF n = 1 THEN 2 ELSE 4

\* A poll before its time is told how long it was too early, and the deadline moves
\* to a doubled interval, still counted from the poll that opened the window.
PaceGrantPoll(g) ==
    LET bucket == polls[g]
        level  == IF bucket.count < 2 THEN bucket.count + 1 ELSE 2
    IN  polls' = [polls EXCEPT ![g] =
            IF Locked(bucket)
            THEN [bucket EXCEPT !.count = level,
                     !.until = bucket.started + Least(PollInterval * Power(level), MaxPollInterval)]
            ELSE [started |-> now, count |-> 0, until |-> now + PollInterval, open |-> TRUE]]

\* A replay is answered only while the first generation is the current one.
ReplayOfflineExchange(g) ==
    refresh[g][1].state = "active" /\ family[g].generation = 1

\* Mutant: a grant that was never decided is exchanged.
ExchangesPending(g) == grant[g].state \in {"approved", "pending"}

\* The clock is not looked at once the grant is approved.
Exchanges(g) == grant[g].state = "approved"

\* One device, one family and one pair of tokens.
Provision(g) ==
    /\ grant' = [grant EXCEPT ![g].state = "exchanged"]
    /\ device' = [device EXCEPT ![g] = "active"]
    /\ family' = [family EXCEPT ![g] = [state |-> "active", generation |-> 1, reason |-> "none",
                      inactivity |-> now + RefreshLife, absolute |-> now + FamilyLife]]
    /\ refresh' = [refresh EXCEPT ![g][1] = [state |-> "active", rotation |-> 0,
                                             expires |-> now + RefreshLife]]
    /\ access' = [access EXCEPT ![g][1] = [state |-> "active", rotation |-> 0,
                                           expires |-> now + AccessLife]]
    /\ Audit("registered")

\* One poll: it is paced, and one that is not too early is decided on the grant.
PollExchange(g) ==
    /\ grant[g].state # "none"
    /\ PaceGrantPoll(g)
    /\ IF ~Locked(polls[g]) /\ Exchanges(g) THEN Provision(g) ELSE UNCHANGED <<rows, audits>>
    /\ UNCHANGED <<now, creation>>

-------------------------------------------------------------------------------
(* Tokens.                                                                 *)

Revoked(tokens) ==
    [n \in Generations |-> IF tokens[n].state = "active" THEN [tokens[n] EXCEPT !.state = "revoked"]
                           ELSE tokens[n]]

RevokeTokens(g) ==
    /\ refresh' = [refresh EXCEPT ![g] = Revoked(@)]
    /\ access' = [access EXCEPT ![g] = Revoked(@)]

EndFamily(g, reason) ==
    family' = [family EXCEPT ![g].state = "revoked", ![g].reason = reason]

RevokeFamilyForReuse(g) ==
    IF family[g].state = "revoked" THEN UNCHANGED <<device, family, refresh, access, audits>>
    ELSE /\ EndFamily(g, "token_reuse")
         /\ RevokeTokens(g)
         /\ device' = [device EXCEPT ![g] = "revoked"]
         /\ Audit("reuse")

\* What the presentation of generation n under a rotation id is.
Classify(g, n, rotation) ==
    LET token == refresh[g][n]
    IN  CASE family[g].state = "revoked" \/ token.state = "revoked" -> "reuse"
          [] family[g].state # "revoked" /\ token.state = "rotated" ->
                 IF /\ refresh[g][n + 1].rotation = rotation /\ refresh[g][n + 1].state = "active"
                    /\ family[g].generation = n + 1
                 THEN "replay" ELSE "reuse"
          [] family[g].state # "revoked" /\ token.state = "active" ->
                 IF /\ family[g].generation = n /\ now < token.expires
                    /\ now < family[g].inactivity /\ now < family[g].absolute
                 THEN "rotate" ELSE "reuse"

\* The successor pair; the family's window never passes its absolute end.
Rotate(g, n, rotation) ==
    LET expires == Least(now + RefreshLife, family[g].absolute)
    IN  /\ refresh' = [refresh EXCEPT ![g][n].state = "rotated",
                          ![g][n + 1] = [state |-> "active", rotation |-> rotation, expires |-> expires]]
        /\ access' = [access EXCEPT ![g][n + 1] = [state |-> "active", rotation |-> 0,
                                                   expires |-> now + AccessLife]]
        /\ family' = [family EXCEPT ![g].generation = n + 1, ![g].inactivity = expires]
        /\ UNCHANGED <<device, audits>>

RefreshRotation(g, n, rotation) ==
    /\ refresh[g][n] # NoToken
    /\ LET kind == Classify(g, n, rotation)
       IN  \/ kind = "rotate" /\ n < MaxGeneration /\ Rotate(g, n, rotation)
           \/ kind = "reuse" /\ RevokeFamilyForReuse(g)
           \/ kind = "replay" /\ UNCHANGED <<device, family, refresh, access, audits>>
    /\ UNCHANGED <<now, grant, polls, creation>>

\* The device gives its family up; a token that is not current is reuse here too.
RevokeCurrentRefresh(g, n) ==
    /\ refresh[g][n].state \in {"active", "rotated"} /\ family[g].state = "active"
    /\ IF refresh[g][n].state = "rotated" \/ family[g].generation # n
       THEN RevokeFamilyForReuse(g)
       ELSE EndFamily(g, "self_revoked") /\ RevokeTokens(g) /\ Audit("self") /\ UNCHANGED device
    /\ UNCHANGED <<now, grant, polls, creation>>

\* Device, families, tokens and the grants that claim the device, in one step; a device
\* that is revoked already is answered as it is.
AdminRevokeDevice(g) ==
    /\ device[g] = "active"
    /\ device' = [device EXCEPT ![g] = "revoked"]
    /\ IF family[g].state = "active" THEN EndFamily(g, "admin_revoked") ELSE UNCHANGED family
    /\ RevokeTokens(g)
    /\ grant' = [h \in Grants |->
          IF grant[h].claimed = g /\ grant[h].state \in {"pending", "approved"}
          THEN [grant[h] EXCEPT !.state = "denied"] ELSE grant[h]]
    /\ Audit("revoked")
    /\ UNCHANGED <<now, polls, creation>>

\* What the owner is shown: every device that came from an exchanged grant.
ListAdminDevices == {g \in Grants : device[g] # "none" /\ grant[g].state = "exchanged"}

AuthenticateAccessToken(g, n) ==
    /\ access[g][n].state = "active" /\ now < access[g][n].expires
    /\ family[g].state # "revoked" /\ now < family[g].absolute
    /\ device[g] = "active"

-------------------------------------------------------------------------------
Next ==
    \/ Tick
    \/ \E g \in Grants :
          \/ \E claimed \in {0} \cup ListAdminDevices : InsertPendingGrant(g, claimed)
          \/ ApproveGrant(g) \/ DenyGrant(g) \/ PollExchange(g) \/ AdminRevokeDevice(g)
          \/ \E n \in Generations : \/ RevokeCurrentRefresh(g, n)
                                    \/ \E rotation \in Rotations : RefreshRotation(g, n, rotation)

Spec == Init /\ [][Next]_vars

-------------------------------------------------------------------------------
TypeOK ==
    /\ now \in 0 .. MaxNow
    /\ \A g \in Grants :
          /\ grant[g].state \in {"none", "pending", "approved", "denied", "exchanged"}
          /\ device[g] \in {"none", "active", "revoked"}
          /\ family[g].state \in {"none", "active", "revoked"}
          /\ polls[g].count \in 0 .. 2

\* One refresh token of a live family is active, its current generation; after the end
\* of the family or of the device nothing opens a door any more, and an exchange that is
\* repeated hands out a pair only while that pair is the live one.
Lineage ==
    \A g \in Grants, n \in Generations :
        /\ family[g].state = "active" => (refresh[g][n].state = "active" <=> n = family[g].generation)
        /\ family[g].state = "revoked" \/ device[g] = "revoked"
              => refresh[g][n].state # "active" /\ ~AuthenticateAccessToken(g, n)
        /\ refresh[g][n].state = "rotated" => refresh[g][n + 1].rotation \in Rotations
        /\ ReplayOfflineExchange(g) => grant[g].state = "exchanged" /\ family[g].state = "active"

\* Every committed transition was audited once: approvals and registrations, and each
\* end of a family or device under its own reason.
AuditsTell ==
    LET Ended(reason) == {g \in Grants : family[g].reason = reason}
    IN  /\ audits.registered = Cardinality(ListAdminDevices)
        /\ audits.reuse = Cardinality(Ended("token_reuse"))
        /\ audits.self = Cardinality(Ended("self_revoked"))
        /\ audits.revoked + audits.reuse = Cardinality({g \in Grants : device[g] = "revoked"})
        /\ audits.approved >= audits.registered

\* A poll is never put off beyond the ceiling, counted from the poll that was let in.
PacingBounded ==
    \A g \in Grants : polls[g].open =>
        polls[g].until - polls[g].started \in PollInterval .. MaxPollInterval

OfflineSafe == TypeOK /\ Lineage /\ AuditsTell /\ PacingBounded

Stage(g) ==
    CASE grant[g].state = "none"                  -> "none"
      [] grant[g].state \in {"pending", "approved"} -> "open"
      [] grant[g].state = "denied"                -> "denied"
      [] grant[g].state = "exchanged"             -> IF family[g].state = "active" THEN "live" ELSE "ended"

Contract == INSTANCE DeviceContract WITH
    stage <- [g \in Grants |-> Stage(g)], generation <- [g \in Grants |-> family[g].generation]

\* The stores in memory keep the promises of the ports.
ImplementsContract == Contract!Spec

\* The same of one step.
ContractStep == [Contract!Next]_(Contract!vars)
=============================================================================
