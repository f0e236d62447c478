----------------------- MODULE DeviceCredentialsProofs ------------------------
(***************************************************************************)
(* DeviceCredentials keeps what it promises, whatever the number of        *)
(* grants, rotations, requests under way and faults.                       *)
(*                                                                         *)
(* That an honest device is never accused of a reuse does not follow from  *)
(* the rows alone: it rests on what every refresh on its way carries, and  *)
(* on what the plugin will send next. Leads says it of the newest          *)
(* generation a client of a family knows: the server is at most one        *)
(* rotation ahead, and then under the very rotation id the client holds;   *)
(* no refresh still on its way is of a later generation, and one of the    *)
(* same generation carries the same id.                                    *)
(***************************************************************************)
EXTENDS DeviceCredentials, TLAPS

USE GrantsAssumption, RotationsAssumption, BoundsAssumption

Born(g) == grant[g].state = "exchanged"

Current(g) == family[g].generation

\* The flags of a grant row say how it was decided.
Flags(g) ==
    /\ grant[g].state = "none" => grant[g] = NoGrant
    /\ grant[g].state = "pending" => ~grant[g].approved /\ ~grant[g].denied /\ ~grant[g].exchanged
    /\ grant[g].state = "approved" => grant[g].approved /\ ~grant[g].denied /\ ~grant[g].exchanged
    /\ grant[g].state = "denied" => grant[g].denied /\ ~grant[g].exchanged
    /\ grant[g].state = "exchanged" => grant[g].approved /\ ~grant[g].denied /\ grant[g].exchanged

\* No rows before the exchange.
Unborn(g) ==
    /\ device[g] = "none" /\ family[g] = NoFamily
    /\ \A n \in Generations : refresh[g][n] = NoToken /\ access[g][n] = "none"

\* The rows of generation n: rotated into the next, current, or not there yet.
TokenInv(g, n) ==
    /\ n > Current(g) => refresh[g][n] = NoToken /\ access[g][n] = "none"
    /\ n <= Current(g) => access[g][n] # "none"
    /\ n <= Current(g) /\ n > 1 => refresh[g][n].rotation # 0
    /\ n < Current(g) => refresh[g][n].state = "rotated" /\ refresh[g][n].successor = n + 1
    /\ n = Current(g) => refresh[g][n].state = family[g].state /\ refresh[g][n].successor = 0
    /\ family[g].state = "revoked" => access[g][n] \notin {"active", "expired"}

\* One lineage after the exchange, ended with the device and never without a cause.
Lineage(g) ==
    /\ device[g] # "none" /\ family[g].state # "none" /\ Current(g) >= 1
    /\ device[g] = "revoked" => family[g].state = "revoked"
    /\ family[g].reason = "token_reuse" => family[g].expired \/ stale[g]
    /\ \A n \in Generations : TokenInv(g, n)

RowInv(g) ==
    /\ Flags(g)
    /\ Born(g) => Lineage(g)
    /\ ~Born(g) => Unborn(g)

Rows == \A g \in Grants : RowInv(g)

\* What a request is about exists, and what it was answered is so.
Sound(s) ==
    /\ req[s].kind = "free" => req[s] = Free
    /\ req[s].kind # "free" => req[s].grant \in Grants /\ grant[req[s].grant].state # "none"
    /\ req[s].kind \in {"refresh", "revoke"} =>
          /\ Born(req[s].grant) /\ req[s].pc # "paced"
          /\ 1 <= req[s].generation /\ req[s].generation <= Current(req[s].grant)
    /\ req[s].kind = "refresh" => req[s].rotation # 0 /\ req[s].generation < MaxGeneration
    /\ req[s].kind # "free" /\ req[s].pc = "done" => req[s].waited
    /\ req[s].kind = "poll" /\ req[s].answer = "granted" => Born(req[s].grant)
    /\ req[s].kind = "refresh" /\ req[s].answer = "rotated" =>
          Current(req[s].grant) > req[s].generation

Refreshes(s, g) == req[s].kind = "refresh" /\ req[s].grant = g
Unserved(s, g)  == Refreshes(s, g) /\ req[s].pc = "sent"
AwaitsPoll(g)   == \E s \in Slots : req[s].kind = "poll" /\ req[s].waited /\ req[s].grant = g

\* Nobody has asked for a rotation of this family.
Fresh(g) == Current(g) <= 1 /\ \A t \in Slots : ~Refreshes(t, g)

\* Generation n with this rotation id is the newest a client of the family knows.
Leads(g, n, rotation) ==
    /\ Current(g) <= n + 1
    /\ rotation # 0 /\ Current(g) = n + 1 => refresh[g][n + 1].rotation = rotation
    /\ \A t \in Slots : Unserved(t, g) => req[t].generation <= n
    /\ \A t \in Slots : Unserved(t, g) /\ req[t].generation = n => req[t].rotation = rotation
    /\ ~AwaitsPoll(g)

\* The plugin waits for one request of a kind.
Single == \A s, t \in Slots :
    req[s].waited /\ req[t].waited /\ req[s].kind = req[t].kind => s = t

\* Attempts at the same rotation carry the same id.
SameId == \A s, t \in Slots :
    /\ Unserved(s, req[s].grant) /\ Unserved(t, req[t].grant)
    /\ req[s].grant = req[t].grant /\ req[s].generation = req[t].generation
    => req[s].rotation = req[t].rotation

\* A rotation that was committed before is found under the id of every late attempt.
Recorded(s) ==
    Unserved(s, req[s].grant) /\ Current(req[s].grant) = req[s].generation + 1
    => refresh[req[s].grant][req[s].generation + 1].rotation = req[s].rotation

Awaited(s) ==
    /\ req[s].kind = "refresh" /\ req[s].waited =>
          Leads(req[s].grant, req[s].generation, req[s].rotation)
    /\ req[s].kind = "poll" /\ req[s].waited => Fresh(req[s].grant)

RequestInv ==
    /\ \A s \in Slots : Sound(s)
    /\ Single /\ SameId
    /\ \A s \in Slots : Recorded(s)
    /\ \A s \in Slots : Awaited(s)

\* What the plugin's record promises for the next request.
RecordInv ==
    /\ record.state = "active" =>
          /\ record.grant \in Grants /\ Born(record.grant)
          /\ 1 <= record.generation /\ record.generation <= Current(record.grant)
          /\ record.rotation = 0 => Current(record.grant) = record.generation
          /\ Leads(record.grant, record.generation, record.rotation)
    /\ record.state = "pending" =>
          /\ record.grant \in Grants /\ grant[record.grant].state # "none"
          /\ Fresh(record.grant) /\ setting \in {0, record.grant}

Inv == TypeOK /\ Rows /\ RequestInv /\ RecordInv
-------------------------------------------------------------------------------
(* What every step has in common: a family moves by at most one rotation,  *)
(* and only under the request that asked for it; the requests fade.        *)

Rotates(g, s) ==
    /\ Unserved(s, g) /\ Current(g) = req[s].generation
    /\ Current(g)' = req[s].generation + 1
    /\ refresh'[g][req[s].generation + 1].rotation = req[s].rotation

Moves(g) ==
    /\ Born(g) => Born(g)'
    /\ grant[g].state # "none" => grant'[g].state # "none"
    /\ \/ Current(g)' = Current(g) /\ \A n \in Generations : refresh'[g][n].rotation = refresh[g][n].rotation
       \/ ~Born(g) /\ Current(g)' = 1
       \/ \E s \in Slots : Rotates(g, s)

\* A request is forgotten, or it gets on without asking for anything new.
Follows(s) ==
    /\ req[s].kind # "free"
    /\ req'[s].kind = req[s].kind /\ req'[s].grant = req[s].grant
    /\ req'[s].generation = req[s].generation /\ req'[s].rotation = req[s].rotation
    /\ req'[s].waited => req[s].waited
    /\ req'[s].pc = "sent" => req[s].pc = "sent"
    /\ req'[s].pc = "paced" => req[s].kind = "poll"
    /\ req'[s].pc = "done" => req'[s].waited
    /\ req[s].kind = "poll" /\ req'[s].answer = "granted" => Born(req[s].grant)'
    /\ req[s].kind = "refresh" /\ req'[s].answer = "rotated" =>
          Current(req[s].grant)' > req[s].generation

Fades(s) == req'[s] = Free \/ Follows(s)

LEMMA FreeShape ==
    /\ Free \in Requests /\ Free.kind = "free" /\ ~Free.waited /\ Free.pc = "done"
    /\ Free.answer = "none" /\ Free.grant = 0 /\ Free.generation = 0 /\ Free.rotation = 0
BY DEF Free, Requests

LEMMA TypedFamily ==
    ASSUME TypeOK, NEW g \in Grants
    PROVE  /\ family[g] \in Families /\ Current(g) \in 0 .. MaxGeneration
           /\ grant[g] \in GrantRows /\ device[g] \in {"none", "active", "revoked"}
BY DEF TypeOK, Families, Current

LEMMA TypedRequest ==
    ASSUME TypeOK, NEW s \in Slots
    PROVE  /\ req[s] \in Requests /\ req[s].generation \in 0 .. MaxGeneration
           /\ req[s].rotation \in Rotations \cup {0} /\ req[s].waited \in BOOLEAN
BY DEF TypeOK, Requests

\* A family never goes back.
LEMMA Grows ==
    ASSUME TypeOK, TypeOK', Rows, NEW g \in Grants, Moves(g)
    PROVE  /\ Current(g) \in Nat /\ Current(g)' \in Nat /\ Current(g) <= Current(g)'
           /\ Born(g) => Born(g)'
<1>1. Current(g) \in Nat
    BY TypedFamily
<1>2. Current(g)' \in Nat
    BY DEF TypeOK, Families, Current
<1>3. ~Born(g) => Current(g) = 0
    BY DEF Rows, RowInv, Unborn, Current, NoFamily
<1>4. ASSUME NEW s \in Slots, Rotates(g, s) PROVE Current(g) <= Current(g)'
  <2>1. req[s].generation \in Nat
      BY TypedRequest
  <2> QED BY <1>4, <2>1 DEF Rotates
<1> QED BY <1>1, <1>2, <1>3, <1>4 DEF Moves

LEMMA FadedRequest ==
    ASSUME NEW s \in Slots, Fades(s)
    PROVE  /\ req'[s].waited => req[s].waited
           /\ req'[s].kind # "free" => Follows(s)
           /\ \A g : Refreshes(s, g)' => Refreshes(s, g)
           /\ \A g : Unserved(s, g)' =>
                 /\ Unserved(s, g) /\ req'[s].generation = req[s].generation
                 /\ req'[s].rotation = req[s].rotation
BY FreeShape DEF Fades, Follows, Refreshes, Unserved

\* What leads a family still leads it.
LEMMA LeadsOn ==
    ASSUME TypeOK, TypeOK', Rows, NEW g \in Grants, Born(g), Moves(g), NEW n \in Nat, NEW rotation,
           \A s \in Slots : Fades(s), Leads(g, n, rotation)
    PROVE  Leads(g, n, rotation)'
<1>1. ~AwaitsPoll(g)'
  <2> SUFFICES ASSUME NEW s \in Slots, req'[s].kind = "poll", req'[s].waited, req'[s].grant = g
               PROVE FALSE
      BY DEF AwaitsPoll
  <2> QED BY FadedRequest DEF Follows, Leads, AwaitsPoll
<1>2. \A t \in Slots : Unserved(t, g)' => req'[t].generation <= n
    BY FadedRequest DEF Leads
<1>3. \A t \in Slots : Unserved(t, g)' /\ req'[t].generation = n => req'[t].rotation = rotation
    BY FadedRequest DEF Leads
<1>4. /\ Current(g)' <= n + 1
      /\ rotation # 0 /\ Current(g)' = n + 1 => refresh'[g][n + 1].rotation = rotation
  <2>1. CASE Current(g)' = Current(g)
             /\ \A k \in Generations : refresh'[g][k].rotation = refresh[g][k].rotation
    <3>1. Current(g) \in 0 .. MaxGeneration
        BY TypedFamily
    <3>2. Current(g) = n + 1 => n + 1 \in Generations
        BY <3>1 DEF Generations
    <3> QED BY <2>1, <3>2 DEF Leads
  <2>2. ASSUME NEW s \in Slots, Rotates(g, s)
        PROVE /\ Current(g)' <= n + 1
              /\ Current(g)' = n + 1 => refresh'[g][n + 1].rotation = rotation
    <3>1. req[s].generation \in Nat
        BY TypedRequest
    <3>2. req[s].generation <= n /\ (req[s].generation = n => req[s].rotation = rotation)
        BY <2>2 DEF Rotates, Leads
    <3> QED BY <2>2, <3>1, <3>2 DEF Rotates
  <2> QED BY <2>1, <2>2 DEF Moves
<1> QED BY <1>1, <1>2, <1>3, <1>4 DEF Leads

LEMMA FreshOn ==
    ASSUME NEW g \in Grants, Moves(g), \A s \in Slots : Fades(s), Fresh(g)
    PROVE  Fresh(g)'
<1>1. \A t \in Slots : ~Refreshes(t, g)'
    BY FadedRequest DEF Fresh
<1>2. \A s \in Slots : ~Rotates(g, s)
    BY DEF Rotates, Unserved, Fresh
<1>3. Current(g)' <= 1
    BY <1>2 DEF Moves, Fresh
<1> QED BY <1>1, <1>3 DEF Fresh

LEMMA SoundOn ==
    ASSUME TypeOK, TypeOK', Rows, NEW s \in Slots, Sound(s), Fades(s), \A g \in Grants : Moves(g)
    PROVE  Sound(s)'
<1>1. CASE req'[s] = Free
    BY <1>1, FreeShape DEF Sound
<1>2. CASE Follows(s)
  <2>1. req[s].kind # "free" /\ req[s].grant \in Grants
      BY <1>2 DEF Follows, Sound
  <2>2. PICK g \in Grants : g = req[s].grant
      BY <2>1
  <2>3. PICK n \in 0 .. MaxGeneration : n = req[s].generation
      BY TypedRequest
  <2>4. /\ Current(g) \in Nat /\ Current(g)' \in Nat /\ Current(g) <= Current(g)'
        /\ Born(g) => Born(g)'
      BY Grows
  <2>4a. grant'[g].state # "none"
      BY <2>1, <2>2 DEF Moves, Sound
  <2>5. /\ req'[s].kind = req[s].kind /\ req'[s].grant = g /\ req'[s].generation = n
        /\ req'[s].rotation = req[s].rotation
        /\ req'[s].pc = "done" => req'[s].waited
        /\ req[s].kind = "poll" /\ req'[s].answer = "granted" => Born(g)'
        /\ req[s].kind = "refresh" /\ req'[s].answer = "rotated" => Current(g)' > n
        /\ req'[s].pc = "paced" => req[s].kind = "poll"
      BY <1>2, <2>2, <2>3 DEF Follows, Born, Current
  <2>6. req[s].kind \in {"refresh", "revoke"} =>
           Born(g)' /\ req'[s].pc # "paced" /\ 1 <= n /\ n <= Current(g)'
      BY <2>2, <2>3, <2>4, <2>5 DEF Sound
  <2>7. req[s].kind = "refresh" => req[s].rotation # 0 /\ n < MaxGeneration
      BY <2>3 DEF Sound
  <2> QED BY <2>1, <2>4a, <2>5, <2>6, <2>7 DEF Sound, Born, Current
<1> QED BY <1>1, <1>2 DEF Fades

\* The requests keep what holds of them together.
LEMMA RequestsOn ==
    ASSUME TypeOK, TypeOK', Rows, RequestInv, \A g \in Grants : Moves(g), \A s \in Slots : Fades(s)
    PROVE  RequestInv'
<1>1. \A s \in Slots : Sound(s)'
    BY SoundOn DEF RequestInv
<1>2. Single'
  <2> SUFFICES ASSUME NEW s \in Slots, NEW t \in Slots, req'[s].waited, req'[t].waited,
                      req'[s].kind = req'[t].kind
               PROVE s = t
      BY DEF Single
  <2>1. Follows(s) /\ Follows(t)
      BY FreeShape DEF Fades
  <2> QED BY <2>1 DEF Follows, RequestInv, Single
<1>3. SameId'
  <2> SUFFICES ASSUME NEW s \in Slots, NEW t \in Slots, Unserved(s, req[s].grant)',
                      Unserved(t, req[t].grant)', req'[s].grant = req'[t].grant,
                      req'[s].generation = req'[t].generation
               PROVE req'[s].rotation = req'[t].rotation
      BY DEF SameId
  <2>1. Follows(s) /\ Follows(t)
      BY FreeShape DEF Fades, Unserved, Refreshes
  <2>2. Unserved(s, req[s].grant) /\ Unserved(t, req[t].grant)
      BY <2>1 DEF Follows, Unserved, Refreshes
  <2> QED BY <2>1, <2>2 DEF Follows, RequestInv, SameId
<1>4. ASSUME NEW s \in Slots PROVE Recorded(s)'
  <2> SUFFICES ASSUME Unserved(s, req[s].grant)',
                      Current(req[s].grant)' = req'[s].generation + 1
               PROVE refresh'[req'[s].grant][req'[s].generation + 1].rotation = req'[s].rotation
      BY DEF Recorded
  <2>1. Follows(s)
      BY FreeShape DEF Fades, Unserved, Refreshes
  <2>2. Unserved(s, req[s].grant) /\ Sound(s) /\ Recorded(s)
      BY <2>1 DEF Follows, Unserved, Refreshes, RequestInv
  <2>3. req[s].grant \in Grants
      BY <2>2 DEF Sound, Unserved, Refreshes
  <2>4. PICK g \in Grants : g = req[s].grant
      BY <2>3
  <2>5. PICK n \in 0 .. MaxGeneration : n = req[s].generation
      BY TypedRequest
  <2>6. req'[s].grant = g /\ req'[s].generation = n /\ req'[s].rotation = req[s].rotation
      BY <2>1, <2>4, <2>5 DEF Follows
  <2>7. Current(g)' = n + 1
      BY <2>6 DEF Current
  <2>8. Born(g) /\ n + 1 \in Generations /\ Unserved(s, g)
      BY <2>2, <2>4, <2>5 DEF Sound, Unserved, Refreshes, Generations
  <2>9. refresh'[g][n + 1].rotation = req[s].rotation
    <3>1. CASE Current(g)' = Current(g)
               /\ \A k \in Generations : refresh'[g][k].rotation = refresh[g][k].rotation
      <4>1. refresh'[g][n + 1].rotation = refresh[g][n + 1].rotation
          BY <2>8, <3>1
      <4>2. refresh[g][n + 1].rotation = req[s].rotation
          BY <2>2, <2>4, <2>5, <2>7, <3>1 DEF Recorded
      <4> QED BY <4>1, <4>2
    <3>2. ASSUME NEW t \in Slots, Rotates(g, t) PROVE refresh'[g][n + 1].rotation = req[s].rotation
      <4>1. req[t].generation \in Nat
          BY TypedRequest
      <4>2. req[t].generation = n /\ Unserved(t, g) /\ refresh'[g][n + 1].rotation = req[t].rotation
          BY <2>7, <3>2, <4>1 DEF Rotates
      <4>3. req[t].rotation = req[s].rotation
          BY <2>4, <2>5, <2>8, <4>2 DEF RequestInv, SameId, Unserved, Refreshes
      <4> QED BY <4>2, <4>3
    <3> QED BY <2>8, <3>1, <3>2 DEF Moves
  <2> QED BY <2>6, <2>9
<1>5. ASSUME NEW s \in Slots PROVE Awaited(s)'
  <2> SUFFICES ASSUME req'[s].waited PROVE Awaited(s)'
      BY DEF Awaited
  <2>1. Follows(s)
      BY FreeShape DEF Fades
  <2>2. Sound(s) /\ Awaited(s) /\ req[s].waited
      BY <2>1 DEF RequestInv, Follows
  <2>3. req[s].grant \in Grants
      BY <2>1, <2>2 DEF Sound, Follows
  <2>4. PICK g \in Grants : g = req[s].grant
      BY <2>3
  <2>5. PICK n \in 0 .. MaxGeneration : n = req[s].generation
      BY TypedRequest
  <2>6. PICK r : r = req[s].rotation
      OBVIOUS
  <2>7. req'[s].grant = g /\ req'[s].generation = n /\ req'[s].rotation = r
           /\ req'[s].kind = req[s].kind
      BY <2>1, <2>4, <2>5, <2>6 DEF Follows
  <2>8. req[s].kind = "refresh" => Leads(g, n, r)'
    <3>1. req[s].kind = "refresh" => Born(g) /\ Leads(g, n, r)
        BY <2>2, <2>4, <2>5, <2>6 DEF Sound, Awaited
    <3>2. n \in Nat
        OBVIOUS
    <3> QED BY <3>1, <3>2, LeadsOn
  <2>9. req[s].kind = "poll" => Fresh(g)'
    <3>1. req[s].kind = "poll" => Fresh(g)
        BY <2>2, <2>4 DEF Awaited
    <3> QED BY <3>1, FreshOn
  <2>10. Leads(g, n, r)' => Leads(req[s].grant, req[s].generation, req[s].rotation)'
      BY <2>7 DEF Leads, Current, Unserved, Refreshes, AwaitsPoll
  <2>11. Fresh(g)' => Fresh(req[s].grant)'
      BY <2>7 DEF Fresh, Current, Refreshes
  <2> QED BY <2>7, <2>8, <2>9, <2>10, <2>11 DEF Awaited
<1> QED BY <1>1, <1>2, <1>3, <1>4, <1>5 DEF RequestInv

\* The record keeps its promise while the plugin does not touch it.
LEMMA RecordOn ==
    ASSUME TypeOK, TypeOK', Rows, RequestInv, RecordInv, \A g \in Grants : Moves(g),
           \A s \in Slots : Fades(s), record' = record, setting' \in {0, setting}
    PROVE  RecordInv'
<1>1. CASE record.state = "active"
  <2>1. PICK g \in Grants : g = record.grant
      BY <1>1 DEF RecordInv
  <2>2. PICK n \in 0 .. MaxGeneration : n = record.generation
      BY DEF TypeOK, Records
  <2>3. PICK r : r = record.rotation
      OBVIOUS
  <2>4. Born(g) /\ 1 <= n /\ n <= Current(g) /\ Leads(g, n, r)
           /\ (r = 0 => Current(g) = n) /\ n \in Nat
      BY <1>1, <2>1, <2>2, <2>3 DEF RecordInv
  <2>5. Leads(g, n, r)'
      BY <2>4, LeadsOn
  <2>6. Born(g)' /\ n <= Current(g)'
      BY <2>4, Grows
  <2>7. r = 0 => Current(g)' = n
    <3>1. ASSUME NEW s \in Slots, Rotates(g, s) PROVE r # 0
      <4>1. Unserved(s, g) /\ (r = 0 => req[s].generation = n)
          BY <2>4, <3>1 DEF Rotates
      <4>2. req[s].rotation # 0
          BY <4>1 DEF RequestInv, Sound, Unserved, Refreshes
      <4> QED BY <2>4, <4>1, <4>2 DEF Leads
    <3> QED BY <2>4, <3>1 DEF Moves
  <2>8. record'.grant = g /\ record'.generation = n /\ record'.rotation = r /\ record'.state = "active"
      BY <1>1, <2>1, <2>2, <2>3
  <2>9. Leads(record.grant, record.generation, record.rotation)'
      BY <2>5, <2>8 DEF Leads, Current, Unserved, Refreshes, AwaitsPoll
  <2> QED BY <2>4, <2>6, <2>7, <2>8, <2>9 DEF RecordInv, Born, Current
<1>2. CASE record.state = "pending"
  <2>1. PICK g \in Grants : g = record.grant
      BY <1>2 DEF RecordInv
  <2>2. grant[g].state # "none" /\ Fresh(g) /\ setting \in {0, g}
      BY <1>2, <2>1 DEF RecordInv
  <2>3. Fresh(g)' /\ grant'[g].state # "none"
      BY <2>2, FreshOn DEF Moves
  <2>4. record'.grant = g /\ record'.state = "pending"
      BY <1>2, <2>1
  <2> QED BY <2>2, <2>3, <2>4 DEF RecordInv, Fresh, Current, Refreshes
<1>3. CASE record.state \notin {"active", "pending"}
    BY <1>3 DEF RecordInv
<1> QED BY <1>1, <1>2, <1>3

LEMMA RecordOver == ASSUME record'.state \notin {"active", "pending"} PROVE RecordInv'
BY DEF RecordInv

-------------------------------------------------------------------------------
(* Steps that leave rows or requests alone.                                *)

LEMMA SameFades ==
    ASSUME TypeOK, TypeOK', Rows, RequestInv, \A g \in Grants : Moves(g), NEW s \in Slots,
           req'[s] = req[s]
    PROVE  Fades(s)
<1>1. Sound(s)
    BY DEF RequestInv
<1>2. CASE req[s].kind = "free"
    BY <1>1, <1>2 DEF Sound, Fades
<1>3. CASE req[s].kind # "free"
  <2>1. req[s].grant \in Grants
      BY <1>1, <1>3 DEF Sound
  <2>2. PICK g \in Grants : g = req[s].grant
      BY <2>1
  <2>3. PICK n \in 0 .. MaxGeneration : n = req[s].generation
      BY TypedRequest
  <2>4. /\ Current(g) \in Nat /\ Current(g)' \in Nat /\ Current(g) <= Current(g)'
        /\ Born(g) => Born(g)'
      BY Grows
  <2>5. req[s].kind = "poll" /\ req[s].answer = "granted" => Born(g)'
      BY <1>1, <2>2, <2>4 DEF Sound
  <2>6. req[s].kind = "refresh" /\ req[s].answer = "rotated" => Current(g)' > n
      BY <1>1, <2>2, <2>3, <2>4 DEF Sound
  <2>7. /\ req'[s].pc = "paced" => req[s].kind = "poll"
        /\ req'[s].pc = "done" => req'[s].waited
    <3>1. req[s].kind \in {"poll", "refresh", "revoke"}
        BY <1>3, TypedRequest DEF Requests
    <3> QED BY <1>1, <1>3, <3>1 DEF Sound
  <2>8. Born(req[s].grant)' <=> Born(g)'
      BY <2>2 DEF Born
  <2>9. Current(req[s].grant)' = Current(g)'
      BY <2>2 DEF Current
  <2> QED BY <1>3, <2>3, <2>5, <2>6, <2>7, <2>8, <2>9 DEF Fades, Follows
<1> QED BY <1>2, <1>3

\* A step that does not change how far a family is.
Steady == \A g \in Grants :
    /\ Born(g) => Born(g)'
    /\ grant[g].state # "none" => grant'[g].state # "none"
    /\ Current(g)' = Current(g)
    /\ \A n \in Generations : refresh'[g][n].rotation = refresh[g][n].rotation

LEMMA SteadyMoves == ASSUME Steady PROVE \A g \in Grants : Moves(g)
BY DEF Steady, Moves

LEMMA QuietMoves ==
    ASSUME UNCHANGED <<grant, device, family, refresh, access>> PROVE \A g \in Grants : Moves(g)
BY DEF Moves, Born, Current

LEMMA RowsSame ==
    ASSUME Rows, UNCHANGED <<grant, device, family, refresh, access>>,
           \A g \in Grants : stale[g] => stale'[g]
    PROVE  Rows'
<1> SUFFICES ASSUME NEW g \in Grants PROVE RowInv(g)'
    BY DEF Rows
<1>1. RowInv(g)
    BY DEF Rows
<1>2. Flags(g)' <=> Flags(g)
    BY DEF Flags
<1>3. Unborn(g)' <=> Unborn(g)
    BY DEF Unborn
<1>4. \A n \in Generations : TokenInv(g, n)' <=> TokenInv(g, n)
    BY DEF TokenInv, Current
<1>5. Lineage(g) => Lineage(g)'
    BY <1>4 DEF Lineage, Current
<1> QED BY <1>1, <1>2, <1>3, <1>5 DEF RowInv, Born

\* The plugin, or the network, changes requests and forgets nothing else.
LEMMA PluginKept ==
    ASSUME Inv, TypeOK', UNCHANGED <<grant, device, family, refresh, access, stale>>,
           \A s \in Slots : Fades(s)
    PROVE  Rows' /\ RequestInv'
<1>1. \A g \in Grants : Moves(g)
    BY QuietMoves
<1> QED BY <1>1, RowsSame, RequestsOn DEF Inv

-------------------------------------------------------------------------------
(* The plugin.                                                             *)

\* The plugin changes its durable places and no request.
LEMMA PlacesKept ==
    ASSUME Inv, UNCHANGED <<grant, tokens, req, stale>>,
           record' \in Records, setting' \in Grants \cup {0}, started' \in BOOLEAN,
           memory' = memory, faults' = faults,
           \/ record' = record /\ setting' \in {0, setting}
           \/ record'.state \notin {"active", "pending"}
    PROVE  Inv'
<1>1. TypeOK'
    BY DEF Inv, TypeOK, tokens
<1>2. \A g \in Grants : Moves(g)
    BY QuietMoves DEF tokens
<1>3. \A s \in Slots : Fades(s)
    BY <1>1, <1>2, SameFades DEF Inv
<1>4. Rows' /\ RequestInv'
    BY <1>1, <1>3, PluginKept DEF tokens
<1>5. RecordInv'
    BY <1>1, <1>2, <1>3, RecordOn, RecordOver DEF Inv
<1> QED BY <1>1, <1>4, <1>5 DEF Inv

LEMMA ClearedShape == Cleared \in Records /\ Cleared.state = "cleared"
BY DEF Cleared, NoRecord, Records

LEMMA StartupKept == Inv /\ Startup => Inv'
<1> SUFFICES ASSUME Inv, Startup PROVE Inv'
    OBVIOUS
<1>1. record \in Records /\ setting \in Grants \cup {0}
    BY DEF Inv, TypeOK
<1>2. \/ record' = record /\ setting' \in {0, setting}
      \/ record' = Cleared /\ setting' = 0
  <2>1. CASE record.state = "pending" /\ setting # record.grant
      BY <2>1 DEF Startup
  <2>2. CASE record.state = "pending" /\ setting = record.grant
      BY <2>2 DEF Startup
  <2>3. CASE record.state # "pending"
      BY <2>3 DEF Startup
  <2> QED BY <2>1, <2>2, <2>3
<1>3. /\ UNCHANGED <<grant, tokens, req, stale>> /\ started' \in BOOLEAN
      /\ memory' = memory /\ faults' = faults
    BY DEF Startup
<1> QED BY <1>1, <1>2, <1>3, ClearedShape, PlacesKept

LEMMA FinishLoginKept == Inv /\ FinishLogin => Inv'
<1> SUFFICES ASSUME Inv, FinishLogin PROVE Inv'
    OBVIOUS
<1>1. record \in Records /\ started \in BOOLEAN
    BY DEF Inv, TypeOK
<1> QED BY <1>1, PlacesKept DEF FinishLogin

LEMMA CancelLoginKept == Inv /\ CancelLogin => Inv'
<1> SUFFICES ASSUME Inv, CancelLogin PROVE Inv'
    OBVIOUS
<1>1. started \in BOOLEAN
    BY DEF Inv, TypeOK
<1> QED BY <1>1, ClearedShape, PlacesKept DEF CancelLogin, TerminateLogin

LEMMA PersistSettingKept == Inv /\ PersistSetting => Inv'
<1> SUFFICES ASSUME Inv, PersistSetting PROVE Inv'
    OBVIOUS
<1>1. UNCHANGED <<grant, device, family, refresh, access, req, record, memory, started, stale, faults>>
         /\ setting' = record.grant /\ record.state = "pending"
    BY DEF PersistSetting, tokens
<1>2. record.grant \in Grants
    BY <1>1 DEF Inv, RecordInv
<1>3. TypeOK'
    BY <1>1, <1>2 DEF Inv, TypeOK
<1>4. \A g \in Grants : Moves(g)
    BY <1>1, QuietMoves
<1>5. \A s \in Slots : Fades(s)
    BY <1>1, <1>3, <1>4, SameFades DEF Inv
<1>6. Rows' /\ RequestInv'
    BY <1>1, <1>3, <1>5, PluginKept
<1>7. Fresh(record.grant)'
    BY <1>1 DEF Inv, RecordInv, Fresh, Current, Refreshes
<1>8. RecordInv'
    BY <1>1, <1>2, <1>7 DEF Inv, RecordInv
<1> QED BY <1>3, <1>6, <1>8 DEF Inv

LEMMA StartLoginKept == Inv /\ StartLogin => Inv'
<1> SUFFICES ASSUME Inv, StartLogin PROVE Inv'
    OBVIOUS
<1>1. PICK g \in Grants, claimed \in {0} \cup {h \in Grants : device[h] # "none"} :
         /\ grant[g].state = "none" /\ InsertPending(g, claimed)
         /\ \/ record' = [NoRecord EXCEPT !.state = "pending", !.grant = g] /\ UNCHANGED faults
            \/ Fault /\ record' = record
    BY DEF StartLogin
<1>2. /\ UNCHANGED <<device, family, refresh, access, req, setting, memory, started, stale>>
      /\ setting = 0 /\ record.state \in {"none", "cleared"}
    BY DEF StartLogin, tokens
<1>3. PICK row \in GrantRows : row = [NoGrant EXCEPT !.state = "pending", !.claimed = claimed]
    BY DEF NoGrant, GrantRows
<1>4. /\ row.state = "pending" /\ ~row.approved /\ ~row.denied /\ ~row.exchanged
      /\ grant' = [grant EXCEPT ![g] = row]
    BY <1>1, <1>3 DEF InsertPending, NoGrant
<1>5. grant \in [Grants -> GrantRows]
    BY DEF Inv, TypeOK
<1>6. grant'[g] = row /\ \A h \in Grants \ {g} : grant'[h] = grant[h]
    BY <1>4, <1>5
<1>7. grant' \in [Grants -> GrantRows] /\ faults' \in 0 .. MaxFaults
  <2>1. faults \in 0 .. MaxFaults
      BY DEF Inv, TypeOK
  <2> QED BY <1>1, <1>4, <1>5, <2>1 DEF Fault
<1>8. record' \in Records /\ (record'.state = "pending" => record'.grant = g)
         /\ record'.state # "active"
  <2>1. NoRecord \in Records
      BY DEF NoRecord, Records
  <2>2. PICK m \in Records : m = NoRecord
      BY <2>1
  <2>3. PICK r \in Records : r = [m EXCEPT !.state = "pending", !.grant = g]
      BY DEF Records
  <2>3a. r = [NoRecord EXCEPT !.state = "pending", !.grant = g]
      BY <2>2, <2>3, Zenon
  <2>3b. r.grant = g /\ r.state = "pending"
      BY <2>3 DEF Records
  <2>4. record \in Records
      BY DEF Inv, TypeOK
  <2> QED BY <1>1, <1>2, <2>3, <2>3a, <2>3b, <2>4
<1>9. TypeOK'
    BY <1>2, <1>7, <1>8 DEF Inv, TypeOK
<1>10. Rows'
  <2> SUFFICES ASSUME NEW h \in Grants PROVE RowInv(h)'
      BY DEF Rows
  <2>1. RowInv(h) /\ RowInv(g)
      BY DEF Inv, Rows
  <2>2. CASE h = g
    <3>1. Unborn(g)
        BY <1>1, <2>1 DEF RowInv, Born
    <3>2. Unborn(g)' /\ Flags(g)' /\ ~Born(g)'
        BY <1>2, <1>4, <1>6, <3>1 DEF Unborn, Flags, Born
    <3> QED BY <2>2, <3>2 DEF RowInv
  <2>3. CASE h # g
    <3>1. grant'[h] = grant[h]
        BY <1>6, <2>3
    <3>2. (Flags(h)' <=> Flags(h)) /\ (Unborn(h)' <=> Unborn(h)) /\ (Born(h)' <=> Born(h))
        BY <1>2, <3>1 DEF Flags, Unborn, Born
    <3>3. Lineage(h)' <=> Lineage(h)
        BY <1>2 DEF Lineage, TokenInv, Current
    <3> QED BY <2>1, <3>2, <3>3 DEF RowInv
  <2> QED BY <2>2, <2>3
<1>11. \A h \in Grants : Moves(h)
    BY <1>1, <1>2, <1>4, <1>6 DEF Moves, Born, Current
<1>12. \A s \in Slots : Fades(s)
    BY <1>2, <1>9, <1>11, SameFades DEF Inv
<1>13. RequestInv'
    BY <1>9, <1>11, <1>12, RequestsOn DEF Inv
<1>14. Fresh(g)'
  <2>1. Current(g) = 0
      BY <1>1 DEF Inv, Rows, RowInv, Unborn, Born, Current, NoFamily
  <2>2. \A t \in Slots : ~Refreshes(t, g)
      BY <1>1 DEF Inv, RequestInv, Sound, Refreshes, Born
  <2> QED BY <1>2, <2>1, <2>2 DEF Fresh, Current, Refreshes
<1>15. RecordInv'
    BY <1>2, <1>4, <1>6, <1>8, <1>14 DEF RecordInv, Fresh, Current, Refreshes
<1> QED BY <1>9, <1>10, <1>13, <1>15 DEF Inv

-------------------------------------------------------------------------------
(* A request of the plugin leaves.                                         *)

\* Slot s, free before, holds request q now; the rows are as they were.
Leaves(s, q) ==
    /\ UNCHANGED <<grant, device, family, refresh, access>>
    /\ req[s].kind = "free" /\ req' = [req EXCEPT ![s] = q]
    /\ q.pc = "sent" /\ q.waited /\ q.kind # "free" /\ q.answer = "none"

LEMMA Placed ==
    ASSUME TypeOK, NEW s \in Slots, NEW q \in Requests, req' = [req EXCEPT ![s] = q]
    PROVE  /\ req'[s] = q /\ req' \in [Slots -> Requests]
           /\ \A t \in Slots : t # s => req'[t] = req[t]
BY DEF TypeOK

LEMMA LeadsSent ==
    ASSUME TypeOK, NEW s \in Slots, NEW q \in Requests, Leaves(s, q),
           NEW g \in Grants, NEW n \in Nat, NEW rotation, Leads(g, n, rotation),
           q.kind = "refresh" /\ q.grant = g =>
              q.generation <= n /\ (q.generation = n => q.rotation = rotation),
           q.kind = "poll" => q.grant # g
    PROVE  Leads(g, n, rotation)'
<1>1. req'[s] = q /\ \A t \in Slots : t # s => req'[t] = req[t]
    BY Placed DEF Leaves
<1>2. Current(g)' = Current(g) /\ refresh' = refresh
    BY DEF Leaves, Current
<1>3. ~AwaitsPoll(g)'
  <2> SUFFICES ASSUME NEW t \in Slots, req'[t].kind = "poll", req'[t].waited, req'[t].grant = g
               PROVE FALSE
      BY DEF AwaitsPoll
  <2>1. t # s /\ req'[t] = req[t]
      BY <1>1
  <2> QED BY <2>1 DEF Leads, AwaitsPoll
<1>4. ASSUME NEW t \in Slots, Unserved(t, g)'
      PROVE req'[t].generation <= n /\ (req'[t].generation = n => req'[t].rotation = rotation)
  <2>1. CASE t = s
      BY <1>1, <1>4, <2>1 DEF Unserved, Refreshes
  <2>2. CASE t # s
    <3>1. req'[t] = req[t]
        BY <1>1, <2>2
    <3> QED BY <1>4, <3>1 DEF Unserved, Refreshes, Leads
  <2> QED BY <2>1, <2>2
<1> QED BY <1>2, <1>3, <1>4 DEF Leads

LEMMA SentKept ==
    ASSUME Inv, NEW s \in Slots, NEW q \in Requests, Leaves(s, q), q.grant \in Grants,
           grant[q.grant].state # "none",
           \A t \in Slots : req[t].waited => req[t].kind # q.kind,
           q.kind \in {"refresh", "revoke"} =>
              Born(q.grant) /\ 1 <= q.generation /\ q.generation <= Current(q.grant),
           q.kind = "refresh" => /\ q.rotation # 0 /\ q.generation < MaxGeneration
                                 /\ Leads(q.grant, q.generation, q.rotation),
           q.kind = "poll" => Fresh(q.grant)
    PROVE  RequestInv'
<1> USE DEF Leaves
<1>1. TypeOK /\ RequestInv
    BY DEF Inv
<1>2. req'[s] = q /\ \A t \in Slots : t # s => req'[t] = req[t]
    BY <1>1, Placed
<1>3. q.generation \in Nat /\ q.grant \in Grants
    BY DEF Requests
<1>4. \A g : (Born(g)' <=> Born(g)) /\ Current(g)' = Current(g)
    BY DEF Born, Current
<1>5. ASSUME NEW t \in Slots PROVE Sound(t)'
  <2>1. CASE t = s
      BY <1>2, <1>4, <2>1 DEF Sound, Born, Current
  <2>2. CASE t # s
    <3>1. req'[t] = req[t] /\ Sound(t)
        BY <1>1, <1>2, <2>2 DEF RequestInv
    <3> QED BY <3>1 DEF Sound, Born, Current
  <2> QED BY <2>1, <2>2
<1>6. Single'
  <2> SUFFICES ASSUME NEW t \in Slots, NEW u \in Slots, req'[t].waited, req'[u].waited,
                      req'[t].kind = req'[u].kind
               PROVE t = u
      BY DEF Single
  <2>1. t # s => req'[t] = req[t]
      BY <1>2
  <2>2. u # s => req'[u] = req[u]
      BY <1>2
  <2> QED BY <1>1, <1>2, <2>1, <2>2 DEF RequestInv, Single
<1>7. ASSUME NEW t \in Slots, Unserved(t, q.grant), req[t].generation = q.generation, q.kind = "refresh"
      PROVE req[t].rotation = q.rotation
    BY <1>7 DEF Leads
<1>8. SameId'
  <2> SUFFICES ASSUME NEW t \in Slots, NEW u \in Slots, Unserved(t, req[t].grant)',
                      Unserved(u, req[u].grant)', req'[t].grant = req'[u].grant,
                      req'[t].generation = req'[u].generation
               PROVE req'[t].rotation = req'[u].rotation
      BY DEF SameId
  <2>1. t # s => req'[t] = req[t] /\ Unserved(t, req[t].grant)
      BY <1>2 DEF Unserved, Refreshes
  <2>2. u # s => req'[u] = req[u] /\ Unserved(u, req[u].grant)
      BY <1>2 DEF Unserved, Refreshes
  <2>3. t = s \/ u = s => q.kind = "refresh"
      BY <1>2 DEF Unserved, Refreshes
  <2>4. CASE t # s /\ u # s
      BY <1>1, <2>1, <2>2, <2>4 DEF RequestInv, SameId
  <2>5. CASE t = s /\ u # s
    <3>1. Unserved(u, q.grant) /\ req[u].generation = q.generation
        BY <1>2, <2>2, <2>5 DEF Unserved, Refreshes
    <3> QED BY <1>2, <1>7, <2>2, <2>3, <2>5, <3>1
  <2>6. CASE u = s /\ t # s
    <3>1. Unserved(t, q.grant) /\ req[t].generation = q.generation
        BY <1>2, <2>1, <2>6 DEF Unserved, Refreshes
    <3> QED BY <1>2, <1>7, <2>1, <2>3, <2>6, <3>1
  <2> QED BY <2>4, <2>5, <2>6
<1>9. ASSUME NEW t \in Slots PROVE Recorded(t)'
  <2>1. CASE t # s
    <3>1. req'[t] = req[t] /\ Recorded(t)
        BY <1>1, <1>2, <2>1 DEF RequestInv
    <3> QED BY <3>1 DEF Recorded, Unserved, Refreshes, Current
  <2>2. CASE t = s
    <3>1. q.kind = "refresh" /\ Current(q.grant) = q.generation + 1
             => refresh[q.grant][q.generation + 1].rotation = q.rotation
        BY DEF Leads
    <3> QED BY <1>2, <2>2, <3>1 DEF Recorded, Unserved, Refreshes, Current
  <2> QED BY <2>1, <2>2
<1>10. ASSUME NEW t \in Slots, req'[t].kind = "refresh", req'[t].waited
       PROVE Leads(req[t].grant, req[t].generation, req[t].rotation)'
  <2>1. PICK r : r = req'[t]
      OBVIOUS
  <2>2. r.grant \in Grants /\ r.generation \in Nat /\ Leads(r.grant, r.generation, r.rotation)
           /\ (q.kind = "refresh" => t = s) /\ (q.kind = "poll" => q.grant # r.grant)
    <3>1. CASE t = s
        BY <1>2, <1>3, <1>10, <2>1, <3>1
    <3>2. CASE t # s
      <4>1. r = req[t] /\ Sound(t) /\ Awaited(t)
          BY <1>1, <1>2, <2>1, <3>2 DEF RequestInv
      <4>2. r.grant \in Grants /\ Leads(r.grant, r.generation, r.rotation) /\ Refreshes(t, r.grant)
          BY <1>10, <2>1, <4>1 DEF Sound, Awaited, Refreshes
      <4>3. r.generation \in Nat
          BY <1>1, <4>1, TypedRequest
      <4>4. q.kind = "poll" => q.grant # r.grant
          BY <4>2 DEF Fresh
      <4>5. q.kind # "refresh"
          BY <1>10, <2>1, <4>1
      <4> QED BY <4>2, <4>3, <4>4, <4>5
    <3> QED BY <3>1, <3>2
  <2>3. PICK g \in Grants : g = r.grant
      BY <2>2
  <2>4. PICK n \in Nat : n = r.generation
      BY <2>2
  <2>5. PICK id : id = r.rotation
      OBVIOUS
  <2>6. q.kind = "refresh" => q = r
      BY <1>2, <2>1, <2>2
  <2>7. Leads(g, n, id)'
    <3>1. Leads(g, n, id) /\ (q.kind = "poll" => q.grant # g)
        BY <2>2, <2>3, <2>4, <2>5
    <3>2. q.kind = "refresh" => q.generation = n /\ q.rotation = id
        BY <2>4, <2>5, <2>6
    <3>3. q.kind = "refresh" /\ q.grant = g =>
             q.generation <= n /\ (q.generation = n => q.rotation = id)
        BY <3>2
    <3> HIDE DEF Leaves
    <3>4. TypeOK /\ Leaves(s, q)
        BY <1>1
    <3>5. q.kind = "poll" => q.grant # g
        BY <3>1
    <3>6. Leads(g, n, id)
        BY <3>1
    <3> QED BY <3>3, <3>4, <3>5, <3>6, LeadsSent
  <2> QED BY <2>1, <2>3, <2>4, <2>5, <2>7 DEF Leads, Current, Unserved, Refreshes, AwaitsPoll
<1>11. ASSUME NEW t \in Slots, req'[t].kind = "poll", req'[t].waited PROVE Fresh(req[t].grant)'
  <2>1. CASE t = s
    <3>1. Fresh(q.grant) /\ req'[t].grant = q.grant /\ q.kind = "poll"
        BY <1>2, <1>11, <2>1
    <3>2. \A u \in Slots : ~Refreshes(u, q.grant)'
        BY <1>2, <3>1 DEF Fresh, Refreshes
    <3> QED BY <3>1, <3>2 DEF Fresh, Refreshes, Current
  <2>2. CASE t # s
    <3>1. req'[t] = req[t] /\ Fresh(req[t].grant)
        BY <1>1, <1>2, <1>11, <2>2 DEF RequestInv, Awaited
    <3>2. q.kind = "refresh" => q.grant # req[t].grant
        BY <1>11, <3>1 DEF Leads, AwaitsPoll
    <3>3. \A u \in Slots : ~Refreshes(u, req[t].grant)'
        BY <1>2, <3>1, <3>2 DEF Fresh, Refreshes
    <3> QED BY <3>1, <3>3 DEF Fresh, Refreshes, Current
  <2> QED BY <2>1, <2>2
<1> QED BY <1>5, <1>6, <1>8, <1>9, <1>10, <1>11 DEF RequestInv, Awaited

\* The record of a plugin that sent what the record speaks of.
LEMMA RecordSent ==
    ASSUME Inv, NEW s \in Slots, NEW q \in Requests, Leaves(s, q), RecordInv,
           record' = record, setting' = setting,
           record.state = "pending" => q.kind # "refresh",
           record.state = "active" => q.kind = "revoke"
    PROVE  RecordInv'
<1> USE DEF Leaves
<1>1. TypeOK /\ RecordInv
    BY DEF Inv
<1>2. req'[s] = q /\ \A t \in Slots : t # s => req'[t] = req[t]
    BY <1>1, Placed
<1>3. CASE record.state = "active"
  <2>1. PICK g \in Grants : g = record.grant
      BY <1>1, <1>3 DEF RecordInv
  <2>2. PICK n \in 0 .. MaxGeneration : n = record.generation
      BY <1>1 DEF TypeOK, Records
  <2>3. PICK r : r = record.rotation
      OBVIOUS
  <2>4. Leads(g, n, r) /\ n \in Nat
      BY <1>1, <1>3, <2>1, <2>2, <2>3 DEF RecordInv
  <2>5. Leads(g, n, r)'
      BY <1>1, <1>3, <2>4, LeadsSent
  <2>6. Leads(record.grant, record.generation, record.rotation)'
      BY <2>1, <2>2, <2>3, <2>5 DEF Leads, Current, Unserved, Refreshes, AwaitsPoll
  <2> QED BY <1>1, <1>3, <2>6 DEF RecordInv, Born, Current
<1>4. CASE record.state = "pending"
  <2>1. \A u \in Slots : Refreshes(u, record.grant)' => Refreshes(u, record.grant)
      BY <1>2, <1>4 DEF Refreshes
  <2> QED BY <1>1, <1>4, <2>1 DEF RecordInv, Fresh, Current
<1>5. CASE record.state \notin {"active", "pending"}
    BY <1>5, RecordOver
<1> QED BY <1>3, <1>4, <1>5

LEMMA SentTypes ==
    ASSUME Inv, NEW s \in Slots, NEW q \in Requests, Leaves(s, q), record' \in Records,
           UNCHANGED <<setting, memory, started, stale, faults>>
    PROVE  TypeOK' /\ Rows'
<1>1. req' \in [Slots -> Requests]
    BY Placed DEF Inv, Leaves
<1>2. TypeOK'
    BY <1>1 DEF Inv, TypeOK, Leaves
<1>3. Rows'
    BY RowsSame DEF Inv, Leaves
<1> QED BY <1>2, <1>3

LEMMA PollKept == Inv /\ Poll => Inv'
<1> SUFFICES ASSUME Inv, Poll PROVE Inv'
    OBVIOUS
<1>1. PICK s \in Slots : FreeSlot(s) /\ Send(s, [Free EXCEPT !.kind = "poll", !.grant = setting])
    BY DEF Poll
<1>2. /\ setting # 0 /\ record.state = "pending" /\ ~Waits("poll")
      /\ UNCHANGED <<grant, device, family, refresh, access>>
      /\ UNCHANGED <<record, setting, memory, started, stale, faults>>
    BY DEF Poll, tokens, plugin
<1>3. PICK g \in Grants : g = setting
    BY <1>2 DEF Inv, TypeOK
<1>4. PICK f \in Requests : f = Free
    BY FreeShape
<1>5. PICK p \in Requests : p = [f EXCEPT !.kind = "poll", !.grant = g]
    BY DEF Requests
<1>6. p.kind = "poll" /\ p.grant = g /\ p.answer = "none"
    BY <1>4, <1>5, FreeShape DEF Requests
<1>7. PICK q \in Requests : q = [p EXCEPT !.pc = "sent", !.waited = TRUE]
    BY DEF Requests
<1>8. q.kind = "poll" /\ q.grant = g /\ q.answer = "none" /\ q.pc = "sent" /\ q.waited
    BY <1>6, <1>7 DEF Requests
<1>9. p = [Free EXCEPT !.kind = "poll", !.grant = setting]
    BY <1>3, <1>4, <1>5, Zenon
<1>10. req' = [req EXCEPT ![s] = q]
    BY <1>1, <1>7, <1>9, Zenon DEF Send
<1>11. Leaves(s, q)
    BY <1>1, <1>2, <1>8, <1>10 DEF Leaves, FreeSlot
<1>12. Fresh(g) /\ grant[g].state # "none"
    BY <1>2, <1>3 DEF Inv, RecordInv
<1>13. RequestInv'
    BY <1>2, <1>8, <1>11, <1>12, SentKept DEF Waits
<1>14. RecordInv'
    BY <1>2, <1>8, <1>11, RecordSent DEF Inv
<1>15. TypeOK' /\ Rows'
    BY <1>2, <1>11, SentTypes DEF Inv, TypeOK
<1> QED BY <1>13, <1>14, <1>15 DEF Inv

LEMMA DisconnectKept == Inv /\ Disconnect => Inv'
<1> SUFFICES ASSUME Inv, Disconnect PROVE Inv'
    OBVIOUS
<1>1. PICK s \in Slots :
         FreeSlot(s) /\ Send(s, [Free EXCEPT !.kind = "revoke", !.grant = record.grant,
                                             !.generation = record.generation])
    BY DEF Disconnect
<1>2. /\ record.state = "active" /\ ~Waits("revoke")
      /\ UNCHANGED <<grant, device, family, refresh, access>>
      /\ UNCHANGED <<record, setting, memory, started, stale, faults>>
    BY DEF Disconnect, tokens, plugin
<1>3. PICK g \in Grants : g = record.grant
    BY <1>2 DEF Inv, RecordInv
<1>4. PICK n \in 0 .. MaxGeneration : n = record.generation
    BY DEF Inv, TypeOK, Records
<1>5. PICK f \in Requests : f = Free
    BY FreeShape
<1>6. PICK p \in Requests : p = [f EXCEPT !.kind = "revoke", !.grant = g, !.generation = n]
    BY DEF Requests
<1>7. p.kind = "revoke" /\ p.grant = g /\ p.generation = n /\ p.answer = "none"
    BY <1>5, <1>6, FreeShape DEF Requests
<1>8. PICK q \in Requests : q = [p EXCEPT !.pc = "sent", !.waited = TRUE]
    BY DEF Requests
<1>9. /\ q.kind = "revoke" /\ q.grant = g /\ q.generation = n /\ q.answer = "none"
      /\ q.pc = "sent" /\ q.waited
    BY <1>7, <1>8 DEF Requests
<1>10. p = [Free EXCEPT !.kind = "revoke", !.grant = record.grant, !.generation = record.generation]
    BY <1>3, <1>4, <1>5, <1>6, Zenon
<1>11. req' = [req EXCEPT ![s] = q]
    BY <1>1, <1>8, <1>10, Zenon DEF Send
<1>12. Leaves(s, q)
    BY <1>1, <1>2, <1>9, <1>11 DEF Leaves, FreeSlot
<1>13. Born(g) /\ 1 <= n /\ n <= Current(g)
    BY <1>2, <1>3, <1>4 DEF Inv, RecordInv
<1>14. RequestInv'
    BY <1>2, <1>9, <1>12, <1>13, SentKept DEF Waits, Born
<1>15. RecordInv'
    BY <1>2, <1>9, <1>12, RecordSent DEF Inv
<1>16. TypeOK' /\ Rows'
    BY <1>2, <1>12, SentTypes DEF Inv, TypeOK
<1> QED BY <1>14, <1>15, <1>16 DEF Inv

\* The rotation id is durable before the request leaves: an attempt after a lost
\* answer carries the id of the attempt before it.
LEMMA RefreshKept == Inv /\ Refresh => Inv'
<1> SUFFICES ASSUME Inv, Refresh PROVE Inv'
    OBVIOUS
<1>1. PICK s \in Slots, id \in RotationIds :
         /\ FreeSlot(s)
         /\ record' = [record EXCEPT !.rotation = id]
         /\ Send(s, [Free EXCEPT !.kind = "refresh", !.grant = record.grant,
                                 !.generation = record.generation, !.rotation = id])
    BY DEF Refresh
<1>2. /\ record.state = "active" /\ ~Waits("refresh") /\ record.generation < MaxGeneration
      /\ UNCHANGED <<grant, device, family, refresh, access>>
      /\ UNCHANGED <<setting, memory, started, stale, faults>>
    BY DEF Refresh, tokens
<1>3. PICK g \in Grants : g = record.grant
    BY <1>2 DEF Inv, RecordInv
<1>4. PICK n \in 0 .. MaxGeneration : n = record.generation
    BY DEF Inv, TypeOK, Records
<1>5. record \in Records /\ TypeOK /\ n \in Nat
    BY DEF Inv, TypeOK
<1>6. id \in Rotations /\ (record.rotation # 0 => id = record.rotation)
  <2>1. record.rotation \in Rotations \cup {0}
      BY <1>5 DEF Records
  <2> QED BY <2>1 DEF RotationIds
<1>7. /\ Born(g) /\ 1 <= n /\ n <= Current(g) /\ Leads(g, n, record.rotation)
      /\ record.rotation = 0 => Current(g) = n
    BY <1>2, <1>3, <1>4 DEF Inv, RecordInv
<1>8. Current(g) \in Nat /\ id # 0
    BY <1>5, <1>6, TypedFamily
<1>9. ASSUME NEW t \in Slots, Unserved(t, g), req[t].generation = n PROVE req[t].rotation = id
  <2>1. req[t].rotation = record.rotation
      BY <1>7, <1>9 DEF Leads
  <2>2. req[t].rotation # 0
      BY <1>9 DEF Inv, RequestInv, Sound, Unserved, Refreshes
  <2> QED BY <1>6, <2>1, <2>2
<1>10. Leads(g, n, id)
  <2>1. Current(g) = n + 1 => record.rotation # 0
      BY <1>5, <1>7, <1>8
  <2>2. Current(g) = n + 1 => refresh[g][n + 1].rotation = id
      BY <1>6, <1>7, <2>1 DEF Leads
  <2> QED BY <1>7, <1>9, <2>2 DEF Leads
<1>11. PICK f \in Requests : f = Free
    BY FreeShape
<1>12. PICK p \in Requests :
          p = [f EXCEPT !.kind = "refresh", !.grant = g, !.generation = n, !.rotation = id]
    BY <1>6 DEF Requests
<1>13. /\ p.kind = "refresh" /\ p.grant = g /\ p.generation = n /\ p.rotation = id
       /\ p.answer = "none"
    BY <1>11, <1>12, FreeShape DEF Requests
<1>14. PICK q \in Requests : q = [p EXCEPT !.pc = "sent", !.waited = TRUE]
    BY DEF Requests
<1>15. /\ q.kind = "refresh" /\ q.grant = g /\ q.generation = n /\ q.rotation = id
       /\ q.answer = "none" /\ q.pc = "sent" /\ q.waited
    BY <1>13, <1>14 DEF Requests
<1>16. p = [Free EXCEPT !.kind = "refresh", !.grant = record.grant,
                        !.generation = record.generation, !.rotation = id]
    BY <1>3, <1>4, <1>11, <1>12, Zenon
<1>17. req' = [req EXCEPT ![s] = q]
    BY <1>1, <1>14, <1>16, Zenon DEF Send
<1>18. Leaves(s, q)
    BY <1>1, <1>2, <1>15, <1>17 DEF Leaves, FreeSlot
<1>19. n < MaxGeneration
    BY <1>2, <1>4
<1>20. RequestInv'
    BY <1>2, <1>7, <1>8, <1>10, <1>15, <1>18, <1>19, SentKept DEF Waits, Born
<1>21. /\ record' \in Records /\ record'.state = "active" /\ record'.grant = g
       /\ record'.generation = n /\ record'.rotation = id
    BY <1>1, <1>2, <1>3, <1>4, <1>5, <1>6 DEF Records
<1>22. TypeOK' /\ Rows'
    BY <1>2, <1>18, <1>21, SentTypes
<1>23. Leads(g, n, id)'
    BY <1>5, <1>10, <1>15, <1>18, LeadsSent
<1>24. Leads(record.grant, record.generation, record.rotation)'
    BY <1>21, <1>23 DEF Leads, Current, Unserved, Refreshes, AwaitsPoll
<1>25. Born(g)' /\ Current(g)' = Current(g)
    BY <1>2, <1>7 DEF Born, Current
<1>26. RecordInv'
    BY <1>7, <1>8, <1>21, <1>24, <1>25 DEF RecordInv, Born, Current
<1> QED BY <1>20, <1>22, <1>26 DEF Inv
-------------------------------------------------------------------------------
(* An answer arrives, or none does.                                        *)

\* Requests are dropped or not waited for any more; the rows are as they were.
LEMMA DroppedKept ==
    ASSUME Inv, UNCHANGED <<grant, device, family, refresh, access, stale>>,
           req' \in [Slots -> Requests], \A s \in Slots : Fades(s),
           record' \in Records, setting' \in Grants \cup {0}, started' \in BOOLEAN,
           memory' \in [grant : Grants \cup {0}, generation : 0 .. MaxGeneration],
           faults' \in 0 .. MaxFaults
    PROVE  /\ TypeOK' /\ Rows' /\ RequestInv'
           /\ record' = record /\ setting' \in {0, setting} => RecordInv'
<1>1. TypeOK'
    BY DEF Inv, TypeOK
<1>2. Rows' /\ RequestInv'
    BY <1>1, PluginKept
<1>3. \A g \in Grants : Moves(g)
    BY QuietMoves
<1> QED BY <1>1, <1>2, <1>3, RecordOn DEF Inv

LEMMA ForgetFades ==
    ASSUME Inv, NEW s \in Slots, Forget(s), UNCHANGED <<grant, device, family, refresh, access>>
    PROVE  /\ req' \in [Slots -> Requests] /\ \A t \in Slots : Fades(t)
           /\ req'[s] = Free /\ \A t \in Slots : t # s => req'[t] = req[t]
<1>1. req' = [req EXCEPT ![s] = Free]
    BY DEF Forget
<1>2. TypeOK /\ req \in [Slots -> Requests] /\ Free \in Requests
    BY FreeShape DEF Inv, TypeOK
<1>3. /\ req' \in [Slots -> Requests] /\ req'[s] = Free
      /\ \A t \in Slots : t # s => req'[t] = req[t]
    BY <1>1, <1>2
<1>4. ASSUME NEW t \in Slots, t # s PROVE Fades(t)
  <2>1. req'[t] = req[t] /\ Sound(t)
      BY <1>3, <1>4 DEF Inv, RequestInv
  <2>2. req[t].kind \in {"free", "poll", "refresh", "revoke"}
      BY <1>2, TypedRequest DEF Requests
  <2> QED BY <2>1, <2>2 DEF Fades, Follows, Sound, Born, Current
<1> QED BY <1>3, <1>4 DEF Fades

\* After request s was forgotten nobody awaits another one of its kind.
LEMMA Lonely ==
    ASSUME Inv, NEW s \in Slots, Forget(s), UNCHANGED <<grant, device, family, refresh, access>>,
           req[s].waited, NEW t \in Slots, req'[t].waited, req'[t].kind = req[s].kind
    PROVE  FALSE
<1>1. req'[s] = Free /\ (t # s => req'[t] = req[t])
    BY ForgetFades
<1>2. t # s /\ req'[t] = req[t]
    BY <1>1, FreeShape
<1> QED BY <1>2 DEF Inv, RequestInv, Single

LEMMA OnPollKept == ASSUME Inv, NEW s \in Slots, OnPoll(s) PROVE Inv'
<1>1. /\ req[s].kind = "poll" /\ req[s].waited /\ Forget(s)
      /\ UNCHANGED <<grant, device, family, refresh, access, started, stale, faults>>
    BY DEF OnPoll, Got, tokens
<1>2. /\ TypeOK /\ req[s] \in Requests /\ record \in Records /\ setting \in Grants \cup {0}
      /\ memory \in [grant : Grants \cup {0}, generation : 0 .. MaxGeneration]
      /\ started \in BOOLEAN /\ faults \in 0 .. MaxFaults
    BY TypedRequest DEF Inv, TypeOK
<1>3. /\ req' \in [Slots -> Requests] /\ \A t \in Slots : Fades(t)
      /\ req'[s] = Free /\ \A t \in Slots : t # s => req'[t] = req[t]
    BY <1>1, ForgetFades
<1>4. CASE setting # 0 /\ req[s].answer = "granted"
  <2>1. /\ record' = Credentials(req[s].grant, 1)
        /\ memory' = [grant |-> req[s].grant, generation |-> 1] /\ setting' = setting
      BY <1>4 DEF OnPoll
  <2>2. PICK g \in Grants : g = req[s].grant
      BY <1>1 DEF Inv, RequestInv, Sound
  <2>3. Born(g) /\ Fresh(g)
      BY <1>1, <1>4, <2>2 DEF Inv, RequestInv, Sound, Awaited
  <2>4. Current(g) = 1
    <3>1. Current(g) >= 1 /\ Current(g) <= 1
        BY <2>3 DEF Inv, Rows, RowInv, Lineage, Fresh
    <3>2. Current(g) \in Nat
        BY <1>2, TypedFamily
    <3> QED BY <3>1, <3>2
  <2>5. /\ record' \in Records /\ record'.state = "active" /\ record'.grant = g
        /\ record'.generation = 1 /\ record'.rotation = 0
      BY <2>1, <2>2 DEF Credentials, Records
  <2>6. memory' \in [grant : Grants \cup {0}, generation : 0 .. MaxGeneration]
      BY <2>1, <2>2
  <2>7. TypeOK' /\ Rows' /\ RequestInv'
      BY <1>1, <1>2, <1>3, <2>1, <2>5, <2>6, DroppedKept
  <2>8. \A t \in Slots : ~Refreshes(t, g)'
      BY <1>3, <2>3, FadedRequest DEF Fresh
  <2>9. ~AwaitsPoll(g)'
      BY <1>1, Lonely DEF AwaitsPoll
  <2>10. Current(g)' = 1 /\ Born(g)'
      BY <1>1, <2>3, <2>4 DEF Current, Born
  <2>11. Leads(record.grant, record.generation, record.rotation)'
      BY <2>5, <2>8, <2>9, <2>10 DEF Leads, Current, Unserved, Refreshes, AwaitsPoll
  <2>12. RecordInv'
      BY <2>5, <2>10, <2>11 DEF RecordInv, Born, Current
  <2> QED BY <2>7, <2>12 DEF Inv
<1>5. CASE setting # 0 /\ req[s].answer \in {"denied", "expired", "state_invalid"}
  <2>1. record' = Cleared /\ setting' = 0 /\ memory' = memory
      BY <1>5 DEF OnPoll, TerminateLogin
  <2>2. record' \in Records /\ record'.state \notin {"active", "pending"}
      BY <2>1, ClearedShape
  <2>3. TypeOK' /\ Rows' /\ RequestInv'
      BY <1>1, <1>2, <1>3, <2>1, <2>2, DroppedKept
  <2>4. RecordInv'
      BY <2>2, RecordOver
  <2> QED BY <2>3, <2>4 DEF Inv
<1>6. CASE setting = 0 \/ req[s].answer \notin {"granted", "denied", "expired", "state_invalid"}
  <2>1. UNCHANGED <<record, setting, memory>>
    <3>1. CASE setting = 0
        BY <3>1 DEF OnPoll
    <3>2. CASE setting # 0
        BY <1>6, <3>2 DEF OnPoll
    <3> QED BY <3>1, <3>2
  <2>2. TypeOK' /\ Rows' /\ RequestInv' /\ RecordInv'
      BY <1>1, <1>2, <1>3, <2>1, DroppedKept
  <2> QED BY <2>2 DEF Inv
<1> QED BY <1>4, <1>5, <1>6

LEMMA OnRefreshKept == ASSUME Inv, NEW s \in Slots, OnRefresh(s) PROVE Inv'
<1>1. /\ req[s].kind = "refresh" /\ req[s].waited /\ Forget(s)
      /\ UNCHANGED <<grant, device, family, refresh, access, setting, started, stale, faults>>
    BY DEF OnRefresh, Got, tokens
<1>2. /\ TypeOK /\ req[s] \in Requests /\ setting \in Grants \cup {0}
      /\ started \in BOOLEAN /\ faults \in 0 .. MaxFaults
    BY TypedRequest DEF Inv, TypeOK
<1>3. /\ req' \in [Slots -> Requests] /\ \A t \in Slots : Fades(t)
      /\ req'[s] = Free /\ \A t \in Slots : t # s => req'[t] = req[t]
    BY <1>1, ForgetFades
<1>4. CASE req[s].answer = "rotated"
  <2>1. PICK g \in Grants : g = req[s].grant
      BY <1>1 DEF Inv, RequestInv, Sound
  <2>2. PICK n \in 0 .. MaxGeneration : n = req[s].generation
      BY <1>2, TypedRequest
  <2>3. PICK id : id = req[s].rotation
      OBVIOUS
  <2>4. Born(g) /\ n < MaxGeneration /\ Current(g) > n /\ Leads(g, n, id)
      BY <1>1, <1>4, <2>1, <2>2, <2>3 DEF Inv, RequestInv, Sound, Awaited
  <2>5. Current(g) = n + 1 /\ n + 1 \in 0 .. MaxGeneration /\ n \in Nat
    <3>1. Current(g) \in Nat
        BY <1>2, TypedFamily
    <3> QED BY <2>4, <3>1 DEF Leads
  <2>6. record' = Credentials(g, n + 1) /\ memory' = [grant |-> g, generation |-> n + 1]
      BY <1>4, <2>1, <2>2 DEF OnRefresh
  <2>7. /\ record' \in Records /\ record'.state = "active" /\ record'.grant = g
        /\ record'.generation = n + 1 /\ record'.rotation = 0
      BY <2>5, <2>6 DEF Credentials, Records
  <2>8. memory' \in [grant : Grants \cup {0}, generation : 0 .. MaxGeneration]
      BY <2>5, <2>6
  <2>9. TypeOK' /\ Rows' /\ RequestInv'
      BY <1>1, <1>2, <1>3, <2>7, <2>8, DroppedKept
  <2>10. \A t \in Slots : Unserved(t, g)' => req'[t].generation \in Nat /\ req'[t].generation <= n
    <3> SUFFICES ASSUME NEW t \in Slots, Unserved(t, g)'
                 PROVE req'[t].generation \in Nat /\ req'[t].generation <= n
        OBVIOUS
    <3>1. Unserved(t, g) /\ req'[t].generation = req[t].generation
        BY <1>3, FadedRequest
    <3>2. req[t].generation \in Nat
        BY <1>2, TypedRequest
    <3> QED BY <2>4, <3>1, <3>2 DEF Leads
  <2>11. ~AwaitsPoll(g)'
    <3> SUFFICES ASSUME NEW t \in Slots, req'[t].kind = "poll", req'[t].waited, req'[t].grant = g
                 PROVE FALSE
        BY DEF AwaitsPoll
    <3>1. req'[t] = req[t]
        BY <1>3, FreeShape
    <3> QED BY <2>4, <3>1 DEF Leads, AwaitsPoll
  <2>12. Current(g)' = n + 1 /\ Born(g)'
      BY <1>1, <2>4, <2>5 DEF Current, Born
  <2>13. Leads(g, n + 1, 0)'
    <3>1. \A t \in Slots : Unserved(t, g)' => req'[t].generation <= n + 1 /\ req'[t].generation # n + 1
        BY <2>5, <2>10
    <3> QED BY <2>5, <2>11, <2>12, <3>1 DEF Leads
  <2>14. Leads(record.grant, record.generation, record.rotation)'
      BY <2>7, <2>13 DEF Leads, Current, Unserved, Refreshes, AwaitsPoll
  <2>15. RecordInv'
      BY <2>5, <2>7, <2>12, <2>14 DEF RecordInv, Born, Current
  <2> QED BY <2>9, <2>15 DEF Inv
<1>5. CASE req[s].answer # "rotated"
  <2>1. record' = Cleared /\ memory' = NoAccess
      BY <1>5 DEF OnRefresh
  <2>2. record' \in Records /\ record'.state \notin {"active", "pending"}
      BY <2>1, ClearedShape
  <2>3. memory' \in [grant : Grants \cup {0}, generation : 0 .. MaxGeneration]
      BY <2>1 DEF NoAccess
  <2>4. TypeOK' /\ Rows' /\ RequestInv'
      BY <1>1, <1>2, <1>3, <2>2, <2>3, DroppedKept
  <2>5. RecordInv'
      BY <2>2, RecordOver
  <2> QED BY <2>4, <2>5 DEF Inv
<1> QED BY <1>4, <1>5

LEMMA OnDisconnectKept == ASSUME Inv, NEW s \in Slots, OnDisconnect(s) PROVE Inv'
<1>1. /\ Forget(s) /\ record' = Cleared /\ memory' = NoAccess
      /\ UNCHANGED <<grant, device, family, refresh, access, setting, started, stale, faults>>
    BY DEF OnDisconnect, tokens
<1>2. setting \in Grants \cup {0} /\ started \in BOOLEAN /\ faults \in 0 .. MaxFaults
    BY DEF Inv, TypeOK
<1>3. req' \in [Slots -> Requests] /\ \A t \in Slots : Fades(t)
    BY <1>1, ForgetFades
<1>4. record' \in Records /\ record'.state \notin {"active", "pending"}
    BY <1>1, ClearedShape
<1>5. memory' \in [grant : Grants \cup {0}, generation : 0 .. MaxGeneration]
    BY <1>1 DEF NoAccess
<1>6. TypeOK' /\ Rows' /\ RequestInv'
    BY <1>1, <1>2, <1>3, <1>4, <1>5, DroppedKept
<1> QED BY <1>4, <1>6, RecordOver DEF Inv

\* What happens to a request nobody waits for any more.
Unwaited(s) ==
    \/ req'[s] = Free
    \/ req[s].pc # "done" /\ req'[s] = [req[s] EXCEPT !.waited = FALSE]

LEMMA UnwaitedFades ==
    ASSUME Inv, NEW s \in Slots, Unwaited(s), UNCHANGED <<grant, device, family, refresh, access>>
    PROVE  req'[s] \in Requests /\ Fades(s)
<1>1. req[s] \in Requests /\ Sound(s) /\ TypeOK
    BY TypedRequest DEF Inv, RequestInv
<1>2. CASE req'[s] = Free
    BY <1>2, FreeShape DEF Fades
<1>3. CASE req[s].pc # "done" /\ req'[s] = [req[s] EXCEPT !.waited = FALSE]
  <2>1. req[s].kind # "free"
      BY <1>1, <1>3, FreeShape DEF Sound
  <2>2. req'[s] \in Requests
      BY <1>1, <1>3 DEF Requests
  <2>3. /\ req'[s].kind = req[s].kind /\ req'[s].grant = req[s].grant
        /\ req'[s].generation = req[s].generation /\ req'[s].rotation = req[s].rotation
        /\ ~req'[s].waited /\ req'[s].pc = req[s].pc /\ req'[s].answer = req[s].answer
      BY <1>1, <1>3 DEF Requests
  <2>4. req[s].kind \in {"poll", "refresh", "revoke"}
      BY <1>1, <2>1 DEF Requests
  <2> QED BY <1>1, <1>3, <2>1, <2>2, <2>3, <2>4 DEF Fades, Follows, Sound, Born, Current
<1> QED BY <1>2, <1>3 DEF Unwaited

LEMMA NoAnswerKept == ASSUME Inv, NEW s \in Slots, NoAnswer(s) PROVE Inv'
<1>1. /\ UNCHANGED <<grant, device, family, refresh, access, record, setting, memory, started, stale>>
      /\ faults < MaxFaults /\ faults' = faults + 1
      /\ req' = [req EXCEPT ![s] = IF @.pc = "done" THEN Free ELSE [@ EXCEPT !.waited = FALSE]]
    BY DEF NoAnswer, Fault, tokens, plugin
<1>2. /\ req \in [Slots -> Requests] /\ record \in Records /\ setting \in Grants \cup {0}
      /\ memory \in [grant : Grants \cup {0}, generation : 0 .. MaxGeneration]
      /\ started \in BOOLEAN /\ faults \in 0 .. MaxFaults
    BY DEF Inv, TypeOK
<1>3. faults' \in 0 .. MaxFaults
    BY <1>1, <1>2
<1>4. /\ req' = [t \in Slots |-> req'[t]] /\ \A t \in Slots : t # s => req'[t] = req[t]
      /\ req'[s] = IF req[s].pc = "done" THEN Free ELSE [req[s] EXCEPT !.waited = FALSE]
    BY <1>1, <1>2
<1>5. Unwaited(s)
    BY <1>4 DEF Unwaited
<1>6. req'[s] \in Requests /\ Fades(s)
    BY <1>1, <1>5, UnwaitedFades
<1>7. req' \in [Slots -> Requests]
    BY <1>1, <1>2, <1>4, <1>6
<1>8. TypeOK'
    BY <1>1, <1>2, <1>3, <1>7 DEF Inv, TypeOK
<1>9. \A g \in Grants : Moves(g)
    BY <1>1, QuietMoves
<1>10. \A t \in Slots : Fades(t)
    BY <1>4, <1>6, <1>8, <1>9, SameFades DEF Inv
<1>11. TypeOK' /\ Rows' /\ RequestInv' /\ RecordInv'
    BY <1>1, <1>2, <1>3, <1>7, <1>10, DroppedKept
<1> QED BY <1>11 DEF Inv

LEMMA CrashKept == Inv /\ Crash => Inv'
<1> SUFFICES ASSUME Inv, Crash PROVE Inv'
    OBVIOUS
<1>1. /\ UNCHANGED <<grant, device, family, refresh, access, record, setting, stale>>
      /\ faults < MaxFaults /\ faults' = faults + 1 /\ started' = FALSE /\ memory' = NoAccess
      /\ req' = [s \in Slots |-> IF req[s].pc = "done" THEN Free ELSE [req[s] EXCEPT !.waited = FALSE]]
    BY DEF Crash, Fault, tokens
<1>2. record \in Records /\ setting \in Grants \cup {0} /\ faults \in 0 .. MaxFaults
    BY DEF Inv, TypeOK
<1>3. faults' \in 0 .. MaxFaults
    BY <1>1, <1>2
<1>4. memory' \in [grant : Grants \cup {0}, generation : 0 .. MaxGeneration]
    BY <1>1 DEF NoAccess
<1>5. \A s \in Slots : Unwaited(s)
    BY <1>1 DEF Unwaited
<1>6. \A s \in Slots : req'[s] \in Requests /\ Fades(s)
    BY <1>1, <1>5, UnwaitedFades
<1>7. req' \in [Slots -> Requests]
    BY <1>1, <1>6
<1>8. TypeOK' /\ Rows' /\ RequestInv' /\ RecordInv'
    BY <1>1, <1>2, <1>3, <1>4, <1>6, <1>7, DroppedKept
<1> QED BY <1>8 DEF Inv
-------------------------------------------------------------------------------
(* The grant.                                                              *)

\* A decision, or the passing of time, changes how far grants are and nothing else.
Decided ==
    /\ grant' \in [Grants -> GrantRows]
    /\ \A g \in Grants :
          /\ Flags(g)' /\ (Born(g)' <=> Born(g))
          /\ grant[g].state # "none" => grant'[g].state # "none"

LEMMA DecidedMoves ==
    ASSUME Rows, Decided, UNCHANGED <<device, family, refresh, access>>,
           \A g \in Grants : stale[g] => stale'[g]
    PROVE  Rows' /\ \A g \in Grants : Moves(g)
<1>1. ASSUME NEW g \in Grants PROVE RowInv(g)'
  <2>1. RowInv(g) /\ Flags(g)' /\ (Born(g)' <=> Born(g))
      BY DEF Rows, Decided
  <2>2. Unborn(g)' <=> Unborn(g)
      BY DEF Unborn
  <2>3. \A n \in Generations : TokenInv(g, n)' <=> TokenInv(g, n)
      BY DEF TokenInv, Current
  <2>4. Lineage(g) => Lineage(g)'
      BY <2>3 DEF Lineage, Current
  <2> QED BY <2>1, <2>2, <2>4 DEF RowInv
<1>2. ASSUME NEW g \in Grants PROVE Moves(g)
    BY DEF Moves, Decided, Current
<1> QED BY <1>1, <1>2 DEF Rows

LEMMA DecidedKept ==
    ASSUME Inv, Decided,
           UNCHANGED <<device, family, refresh, access, req, record, setting, memory, started, stale>>,
           faults' \in 0 .. MaxFaults
    PROVE  Inv'
<1>1. TypeOK'
    BY DEF Inv, TypeOK, Decided
<1>2. Rows' /\ \A g \in Grants : Moves(g)
    BY DecidedMoves DEF Inv
<1>3. \A s \in Slots : Fades(s)
    BY <1>1, <1>2, SameFades DEF Inv
<1>4. RequestInv' /\ RecordInv'
    BY <1>1, <1>2, <1>3, RequestsOn, RecordOn DEF Inv
<1> QED BY <1>1, <1>2, <1>4 DEF Inv

\* One grant row changes.
LEMMA OneDecided ==
    ASSUME Inv, NEW g \in Grants, NEW row \in GrantRows, grant' = [grant EXCEPT ![g] = row],
           Flags(g)', row.state = "exchanged" <=> Born(g), row.state # "none"
    PROVE  Decided
<1>1. grant \in [Grants -> GrantRows] /\ \A h \in Grants : Flags(h)
    BY DEF Inv, TypeOK, Rows, RowInv
<1>2. /\ grant' \in [Grants -> GrantRows] /\ grant'[g] = row
      /\ \A h \in Grants : h # g => grant'[h] = grant[h]
    BY <1>1
<1>3. ASSUME NEW h \in Grants
      PROVE /\ Flags(h)' /\ (Born(h)' <=> Born(h))
            /\ grant[h].state # "none" => grant'[h].state # "none"
  <2>1. CASE h = g
      BY <1>2, <2>1 DEF Born
  <2>2. CASE h # g
      BY <1>1, <1>2, <2>2 DEF Flags, Born
  <2> QED BY <2>1, <2>2
<1> QED BY <1>2, <1>3 DEF Decided

LEMMA TransitionKept ==
    ASSUME Inv, NEW g \in Grants, NEW decision \in {"approved", "denied"},
           TerminalTransition(g, decision)
    PROVE  Inv'
<1>1. /\ UNCHANGED <<device, family, refresh, access, req, record, setting, memory, started, stale, faults>>
      /\ grant[g].state = "pending"
      /\ grant' = [grant EXCEPT ![g].state = decision,
                                ![g].approved = @ \/ decision = "approved",
                                ![g].denied = @ \/ decision = "denied"]
    BY DEF TerminalTransition, Decidable, tokens, plugin
<1>2. /\ TypeOK /\ grant \in [Grants -> GrantRows] /\ Flags(g) /\ grant[g] \in GrantRows
      /\ faults \in 0 .. MaxFaults
    BY TypedFamily DEF Inv, Rows, RowInv, TypeOK
<1>3. ~grant[g].approved /\ ~grant[g].denied /\ ~grant[g].exchanged
    BY <1>1, <1>2 DEF Flags
<1>4. PICK yes \in BOOLEAN : yes = (decision = "approved")
    OBVIOUS
<1>5. PICK no \in BOOLEAN : no = (decision = "denied")
    OBVIOUS
<1>6. PICK row \in GrantRows : row = [grant[g] EXCEPT !.state = decision, !.approved = yes, !.denied = no]
    BY <1>2 DEF GrantRows
<1>7. /\ row.state = decision /\ (row.approved <=> decision = "approved")
      /\ (row.denied <=> decision = "denied") /\ ~row.exchanged
    BY <1>2, <1>3, <1>4, <1>5, <1>6 DEF GrantRows
<1>8. grant' = [grant EXCEPT ![g] = row]
    BY <1>1, <1>2, <1>3, <1>4, <1>5, <1>6 DEF GrantRows
<1>9. grant'[g] = row
    BY <1>2, <1>8
<1>10. Flags(g)' /\ ~Born(g)
    BY <1>1, <1>7, <1>9 DEF Flags, Born
<1>11. Decided
    BY <1>7, <1>8, <1>10, OneDecided
<1> QED BY <1>1, <1>2, <1>11, DecidedKept

LEMMA GrantExpiresKept == ASSUME Inv, NEW g \in Grants, GrantExpires(g) PROVE Inv'
<1>1. /\ UNCHANGED <<device, family, refresh, access, req, record, setting, memory, started, stale>>
      /\ grant[g].state # "none" /\ faults < MaxFaults /\ faults' = faults + 1
      /\ grant' = [grant EXCEPT ![g].expired = TRUE]
    BY DEF GrantExpires, Fault, tokens, plugin
<1>2. TypeOK /\ Flags(g) /\ grant[g] \in GrantRows /\ faults \in 0 .. MaxFaults
    BY TypedFamily DEF Inv, Rows, RowInv, TypeOK
<1>3. PICK row \in GrantRows : row = [grant[g] EXCEPT !.expired = TRUE]
    BY <1>2 DEF GrantRows
<1>4. /\ row.state = grant[g].state /\ row.approved = grant[g].approved
      /\ row.denied = grant[g].denied /\ row.exchanged = grant[g].exchanged
    BY <1>2, <1>3 DEF GrantRows
<1>5. grant' = [grant EXCEPT ![g] = row] /\ grant'[g] = row
    BY <1>1, <1>2, <1>3 DEF TypeOK
<1>6. Flags(g)'
    BY <1>1, <1>2, <1>4, <1>5 DEF Flags
<1>7. Decided
    BY <1>1, <1>4, <1>5, <1>6, OneDecided DEF Born
<1>8. faults' \in 0 .. MaxFaults
    BY <1>1, <1>2
<1> QED BY <1>1, <1>7, <1>8, DecidedKept

LEMMA LockShape ==
    ASSUME Inv, NEW g \in Grants, NEW b \in BOOLEAN, grant' = [grant EXCEPT ![g].locked = b],
           grant[g].state # "none"
    PROVE  Decided
<1>1. TypeOK /\ Flags(g) /\ grant[g] \in GrantRows
    BY TypedFamily DEF Inv, Rows, RowInv
<1>2. PICK row \in GrantRows : row = [grant[g] EXCEPT !.locked = b]
    BY <1>1 DEF GrantRows
<1>3. /\ row.state = grant[g].state /\ row.approved = grant[g].approved
      /\ row.denied = grant[g].denied /\ row.exchanged = grant[g].exchanged
    BY <1>1, <1>2 DEF GrantRows
<1>4. grant' = [grant EXCEPT ![g] = row] /\ grant'[g] = row
    BY <1>1, <1>2 DEF TypeOK
<1>5. Flags(g)'
    BY <1>1, <1>3, <1>4 DEF Flags
<1> QED BY <1>3, <1>4, <1>5, OneDecided DEF Born

LEMMA WindowKept == ASSUME Inv, NEW g \in Grants, PollWindowOpens(g) PROVE Inv'
<1>1. /\ UNCHANGED <<device, family, refresh, access, req, record, setting, memory, started, stale, faults>>
      /\ grant[g].locked /\ grant' = [grant EXCEPT ![g].locked = FALSE]
    BY DEF PollWindowOpens, tokens, plugin
<1>2. grant[g].state # "none"
    BY <1>1 DEF Inv, Rows, RowInv, Flags, NoGrant
<1>3. faults' \in 0 .. MaxFaults
    BY <1>1 DEF Inv, TypeOK
<1> QED BY <1>1, <1>2, <1>3, LockShape, DecidedKept

-------------------------------------------------------------------------------
(* The token family.                                                       *)

\* Every row of another family is as it was.
Elsewhere(g) == \A h \in Grants : h # g =>
    /\ Flags(h)' /\ (Born(h)' <=> Born(h))
    /\ device'[h] = device[h] /\ family'[h] = family[h]
    /\ refresh'[h] = refresh[h] /\ access'[h] = access[h]
    /\ stale[h] => stale'[h]

LEMMA ElsewhereKept ==
    ASSUME Rows, NEW g \in Grants, RowInv(g)', Elsewhere(g)
    PROVE  Rows'
<1> SUFFICES ASSUME NEW h \in Grants, h # g PROVE RowInv(h)'
    BY DEF Rows
<1>1. /\ Flags(h)' /\ (Born(h)' <=> Born(h)) /\ RowInv(h)
      /\ device'[h] = device[h] /\ family'[h] = family[h]
      /\ refresh'[h] = refresh[h] /\ access'[h] = access[h]
      /\ stale[h] => stale'[h]
    BY DEF Elsewhere, Rows
<1>2. Unborn(h)' <=> Unborn(h)
    BY <1>1 DEF Unborn
<1>3. \A n \in Generations : TokenInv(h, n)' <=> TokenInv(h, n)
    BY <1>1 DEF TokenInv, Current
<1>4. Lineage(h) => Lineage(h)'
    BY <1>1, <1>3 DEF Lineage, Current
<1> QED BY <1>1, <1>2, <1>4 DEF RowInv

\* The tokens of an ended family: none is left that would be accepted.
LEMMA TokensEnd ==
    ASSUME TypeOK, NEW g \in Grants, RevokeTokens(g)
    PROVE  /\ refresh' \in [Grants -> [Generations -> Tokens]]
           /\ access' \in [Grants -> [Generations -> {"none", "active", "expired", "revoked"}]]
           /\ \A h \in Grants : h # g => refresh'[h] = refresh[h] /\ access'[h] = access[h]
           /\ \A n \in Generations :
                 /\ refresh'[g][n].state = IF refresh[g][n].state = "active" THEN "revoked"
                                           ELSE refresh[g][n].state
                 /\ refresh[g][n].state # "active" => refresh'[g][n] = refresh[g][n]
                 /\ refresh'[g][n].rotation = refresh[g][n].rotation
                 /\ refresh'[g][n].successor = refresh[g][n].successor
                 /\ access'[g][n] = IF access[g][n] \in {"active", "expired"} THEN "revoked"
                                    ELSE access[g][n]
<1>1. /\ refresh \in [Grants -> [Generations -> Tokens]]
      /\ access \in [Grants -> [Generations -> {"none", "active", "expired", "revoked"}]]
    BY DEF TypeOK
<1>2. PICK ended : ended = [n \in Generations |->
                      IF refresh[g][n].state = "active" THEN [refresh[g][n] EXCEPT !.state = "revoked"]
                      ELSE refresh[g][n]]
    OBVIOUS
<1>3. refresh' = [refresh EXCEPT ![g] = ended]
    BY <1>2 DEF RevokeTokens
<1>4. ASSUME NEW n \in Generations
      PROVE /\ ended[n] \in Tokens
            /\ ended[n].state = IF refresh[g][n].state = "active" THEN "revoked" ELSE refresh[g][n].state
            /\ refresh[g][n].state # "active" => ended[n] = refresh[g][n]
            /\ ended[n].rotation = refresh[g][n].rotation
            /\ ended[n].successor = refresh[g][n].successor
  <2>1. refresh[g][n] \in Tokens
      BY <1>1
  <2>2. ended[n] = IF refresh[g][n].state = "active" THEN [refresh[g][n] EXCEPT !.state = "revoked"]
                   ELSE refresh[g][n]
      BY <1>2
  <2> QED BY <2>1, <2>2 DEF Tokens
<1>5. ended \in [Generations -> Tokens]
    BY <1>2, <1>4
<1>6. /\ refresh' \in [Grants -> [Generations -> Tokens]] /\ refresh'[g] = ended
      /\ \A h \in Grants : h # g => refresh'[h] = refresh[h]
    BY <1>1, <1>3, <1>5
<1>7. PICK shut : shut = [n \in Generations |->
                      IF access[g][n] \in {"active", "expired"} THEN "revoked" ELSE access[g][n]]
    OBVIOUS
<1>8. access' = [access EXCEPT ![g] = shut]
    BY <1>7 DEF RevokeTokens
<1>9. \A n \in Generations :
         /\ shut[n] \in {"none", "active", "expired", "revoked"}
         /\ shut[n] = IF access[g][n] \in {"active", "expired"} THEN "revoked" ELSE access[g][n]
    BY <1>1, <1>7
<1>10. shut \in [Generations -> {"none", "active", "expired", "revoked"}]
    BY <1>7, <1>9
<1>11. /\ access' \in [Grants -> [Generations -> {"none", "active", "expired", "revoked"}]]
       /\ access'[g] = shut /\ \A h \in Grants : h # g => access'[h] = access[h]
    BY <1>1, <1>8, <1>10
<1> QED BY <1>4, <1>6, <1>9, <1>11

LEMMA LineageEnds ==
    ASSUME TypeOK, NEW g \in Grants, Lineage(g), RevokeTokens(g),
           family'[g].state = "revoked", family'[g].generation = family[g].generation,
           family'[g].reason = "token_reuse" => family'[g].expired \/ stale'[g],
           device'[g] # "none"
    PROVE  Lineage(g)'
<1>1. Current(g)' = Current(g) /\ Current(g) \in Nat /\ Current(g) >= 1
    BY TypedFamily DEF Current, Lineage
<1>2. ASSUME NEW n \in Generations PROVE TokenInv(g, n)'
  <2>1. /\ refresh'[g][n].state = IF refresh[g][n].state = "active" THEN "revoked" ELSE refresh[g][n].state
        /\ refresh[g][n].state # "active" => refresh'[g][n] = refresh[g][n]
        /\ refresh'[g][n].rotation = refresh[g][n].rotation
        /\ refresh'[g][n].successor = refresh[g][n].successor
        /\ access'[g][n] = IF access[g][n] \in {"active", "expired"} THEN "revoked" ELSE access[g][n]
      BY TokensEnd
  <2>2. TokenInv(g, n) /\ family[g].state \in {"active", "revoked"}
      BY TypedFamily DEF Lineage, Families
  <2>3. n > Current(g) => refresh'[g][n] = NoToken /\ access'[g][n] = "none"
      BY <2>1, <2>2 DEF TokenInv, NoToken
  <2>4. n <= Current(g) => access'[g][n] # "none" /\ (n > 1 => refresh'[g][n].rotation # 0)
      BY <2>1, <2>2 DEF TokenInv
  <2>5. n < Current(g) => refresh'[g][n].state = "rotated" /\ refresh'[g][n].successor = n + 1
      BY <2>1, <2>2 DEF TokenInv
  <2>6. n = Current(g) => refresh'[g][n].state = "revoked" /\ refresh'[g][n].successor = 0
      BY <2>1, <2>2 DEF TokenInv
  <2>7. access'[g][n] \notin {"active", "expired"}
      BY <2>1
  <2> QED BY <1>1, <2>3, <2>4, <2>5, <2>6, <2>7 DEF TokenInv, Current
<1> QED BY <1>1, <1>2 DEF Lineage, Current

LEMMA SameDecided == Inv /\ grant' = grant => Decided
BY DEF Inv, TypeOK, Rows, RowInv, Decided, Flags, Born

\* A family ends: with its device, for a reuse, or by the device itself.
LEMMA EndKept ==
    ASSUME Inv, NEW g \in Grants, Born(g), Decided, RevokeTokens(g),
           family' \in [Grants -> Families],
           \A h \in Grants : h # g => family'[h] = family[h] /\ device'[h] = device[h],
           family'[g].state = "revoked", family'[g].generation = family[g].generation,
           family'[g].reason = "token_reuse" => family'[g].expired \/ stale'[g],
           device'[g] # "none", \A h \in Grants : stale[h] => stale'[h]
    PROVE  Rows' /\ \A h \in Grants : Moves(h)
<1>1. TypeOK /\ Rows /\ RowInv(g)
    BY DEF Inv, Rows
<1>2. Lineage(g)'
    BY <1>1, LineageEnds DEF RowInv
<1>3. Flags(g)' /\ Born(g)'
    BY DEF Decided
<1>4. RowInv(g)'
    BY <1>2, <1>3 DEF RowInv
<1>5. Elsewhere(g)
    BY <1>1, TokensEnd DEF Elsewhere, Decided
<1>6. Rows'
    BY <1>1, <1>4, <1>5, ElsewhereKept
<1>7. ASSUME NEW h \in Grants PROVE Moves(h)
  <2>1. Current(h)' = Current(h)
      BY DEF Current
  <2>2. \A n \in Generations : refresh'[h][n].rotation = refresh[h][n].rotation
      BY <1>1, TokensEnd
  <2>3. (Born(h) => Born(h)') /\ (grant[h].state # "none" => grant'[h].state # "none")
      BY DEF Decided
  <2> QED BY <2>1, <2>2, <2>3 DEF Moves
<1> QED BY <1>6, <1>7

\* A step of the rows that no request takes part in.
LEMMA RowStepKept ==
    ASSUME Inv, TypeOK', Rows', \A g \in Grants : Moves(g), UNCHANGED <<req, record, setting>>
    PROVE  Inv'
<1>1. \A s \in Slots : Fades(s)
    BY SameFades DEF Inv
<1> QED BY <1>1, RequestsOn, RecordOn DEF Inv

LEMMA RevokedShape ==
    ASSUME TypeOK, NEW g \in Grants, NEW reason \in {"token_reuse", "self_revoked", "admin_revoked"},
           family' = RevokedFamily(g, reason)
    PROVE  /\ family' \in [Grants -> Families]
           /\ \A h \in Grants : h # g => family'[h] = family[h]
           /\ family'[g].state = "revoked" /\ family'[g].reason = reason
           /\ family'[g].generation = family[g].generation /\ family'[g].expired = family[g].expired
<1>1. family \in [Grants -> Families] /\ family[g] \in Families
    BY DEF TypeOK
<1>2. PICK row \in Families : row = [family[g] EXCEPT !.state = "revoked", !.reason = reason]
    BY <1>1 DEF Families
<1>3. family' = [family EXCEPT ![g] = row]
    BY <1>1, <1>2 DEF RevokedFamily
<1>4. family'[g] = row /\ \A h \in Grants : h # g => family'[h] = family[h]
    BY <1>1, <1>3
<1>5. family' \in [Grants -> Families]
    BY <1>1, <1>3
<1>6. /\ row.state = "revoked" /\ row.reason = reason
      /\ row.generation = family[g].generation /\ row.expired = family[g].expired
    BY <1>1, <1>2 DEF Families
<1> QED BY <1>4, <1>5, <1>6

LEMMA AdminRevokeKept == ASSUME Inv, NEW g \in Grants, AdminRevokeDevice(g) PROVE Inv'
<1>1. /\ UNCHANGED <<req, record, setting, memory, started, stale, faults>>
      /\ device[g] = "active" /\ device' = [device EXCEPT ![g] = "revoked"] /\ RevokeTokens(g)
      /\ family' = IF family[g].state = "active" THEN RevokedFamily(g, "admin_revoked") ELSE family
      /\ grant' = DenyClaims(g)
    BY DEF AdminRevokeDevice, plugin
<1>2. /\ TypeOK /\ grant \in [Grants -> GrantRows] /\ family \in [Grants -> Families]
      /\ device \in [Grants -> {"none", "active", "revoked"}]
    BY DEF Inv, TypeOK
<1>3. Born(g) /\ Lineage(g)
    BY <1>1 DEF Inv, Rows, RowInv, Unborn
<1>4. Decided
  <2>1. ASSUME NEW h \in Grants
        PROVE /\ grant'[h] \in GrantRows /\ Flags(h)' /\ (Born(h)' <=> Born(h))
              /\ grant[h].state # "none" => grant'[h].state # "none"
    <3>1. grant'[h] = IF grant[h].claimed = g /\ grant[h].state \in {"pending", "approved"}
                      THEN [grant[h] EXCEPT !.state = "denied", !.denied = TRUE] ELSE grant[h]
        BY <1>1 DEF DenyClaims
    <3>2. Flags(h) /\ grant[h] \in GrantRows
        BY <1>2 DEF Inv, Rows, RowInv
    <3>3. CASE grant[h].claimed = g /\ grant[h].state \in {"pending", "approved"}
      <4>1. PICK row \in GrantRows : row = [grant[h] EXCEPT !.state = "denied", !.denied = TRUE]
          BY <3>2 DEF GrantRows
      <4>2. row.state = "denied" /\ row.denied /\ row.exchanged = grant[h].exchanged
          BY <3>2, <4>1 DEF GrantRows
      <4>3. grant'[h] = row
          BY <3>1, <3>3, <4>1
      <4>4. ~grant[h].exchanged
          BY <3>2, <3>3 DEF Flags
      <4> QED BY <3>3, <4>2, <4>3, <4>4 DEF Flags, Born
    <3>4. CASE ~(grant[h].claimed = g /\ grant[h].state \in {"pending", "approved"})
      <4>1. grant'[h] = grant[h]
          BY <3>1, <3>4
      <4> QED BY <3>2, <4>1 DEF Flags, Born
    <3> QED BY <3>3, <3>4
  <2>2. grant' = [h \in Grants |-> grant'[h]]
      BY <1>1 DEF DenyClaims
  <2>3. grant' \in [Grants -> GrantRows]
      BY <2>1, <2>2
  <2> QED BY <2>1, <2>3 DEF Decided
<1>5. /\ family' \in [Grants -> Families] /\ \A h \in Grants : h # g => family'[h] = family[h]
      /\ family'[g].state = "revoked" /\ family'[g].generation = family[g].generation
      /\ family'[g].reason = "token_reuse" => family'[g].expired \/ stale'[g]
  <2>1. CASE family[g].state = "active"
      BY <1>1, <1>2, <2>1, RevokedShape
  <2>2. CASE family[g].state # "active"
    <3>1. family' = family
        BY <1>1, <2>2
    <3>2. family[g].state = "revoked"
        BY <1>2, <1>3, <2>2 DEF Lineage, Families
    <3> QED BY <1>1, <1>2, <1>3, <3>1, <3>2 DEF Lineage
  <2> QED BY <2>1, <2>2
<1>6. /\ device' \in [Grants -> {"none", "active", "revoked"}] /\ device'[g] = "revoked"
      /\ \A h \in Grants : h # g => device'[h] = device[h]
    BY <1>1, <1>2
<1>7. Rows' /\ \A h \in Grants : Moves(h)
    BY <1>1, <1>3, <1>4, <1>5, <1>6, EndKept
<1>8. /\ refresh' \in [Grants -> [Generations -> Tokens]]
      /\ access' \in [Grants -> [Generations -> {"none", "active", "expired", "revoked"}]]
    BY <1>1, <1>2, TokensEnd
<1>9. TypeOK'
    BY <1>1, <1>2, <1>4, <1>5, <1>6, <1>8 DEF TypeOK, Decided
<1> QED BY <1>1, <1>7, <1>9, RowStepKept

\* Every row of a family but the family's own flags is as it was.
LEMMA FamilyExpiresKept == ASSUME Inv, NEW g \in Grants, FamilyExpires(g) PROVE Inv'
<1>1. /\ UNCHANGED <<grant, device, refresh, access, req, record, setting, memory, started, stale>>
      /\ family[g].state = "active" /\ faults < MaxFaults /\ faults' = faults + 1
      /\ family' = [family EXCEPT ![g].expired = TRUE]
    BY DEF FamilyExpires, Fault, plugin
<1>2. /\ TypeOK /\ family \in [Grants -> Families] /\ family[g] \in Families /\ faults \in 0 .. MaxFaults
    BY DEF Inv, TypeOK
<1>3. PICK row \in Families : row = [family[g] EXCEPT !.expired = TRUE]
    BY <1>2 DEF Families
<1>4. /\ row.state = family[g].state /\ row.generation = family[g].generation
      /\ row.reason = family[g].reason /\ row.expired
    BY <1>2, <1>3 DEF Families
<1>5. family' = [family EXCEPT ![g] = row]
    BY <1>1, <1>2, <1>3
<1>6. /\ family' \in [Grants -> Families] /\ family'[g] = row
      /\ \A h \in Grants : h # g => family'[h] = family[h]
    BY <1>2, <1>5
<1>7. faults' \in 0 .. MaxFaults
    BY <1>1, <1>2
<1>8. TypeOK'
    BY <1>1, <1>2, <1>6, <1>7 DEF TypeOK
<1>9. ASSUME NEW h \in Grants
      PROVE Current(h)' = Current(h) /\ family'[h].state = family[h].state
    BY <1>4, <1>6 DEF Current
<1>10. Flags(g) /\ Born(g) /\ Lineage(g)
    BY <1>1 DEF Inv, Rows, RowInv, Unborn, NoFamily
<1>11. Lineage(g)'
  <2>1. \A n \in Generations : TokenInv(g, n)' <=> TokenInv(g, n)
      BY <1>1, <1>9 DEF TokenInv
  <2> QED BY <1>1, <1>4, <1>6, <1>9, <1>10, <2>1 DEF Lineage
<1>12. Flags(g)' /\ Born(g)'
    BY <1>1, <1>10 DEF Flags, Born
<1>13. RowInv(g)'
    BY <1>11, <1>12 DEF RowInv
<1>14. Elsewhere(g)
    BY <1>1, <1>6 DEF Elsewhere, Inv, Rows, RowInv, Flags, Born
<1>15. Rows'
    BY <1>13, <1>14, ElsewhereKept DEF Inv
<1>16. \A h \in Grants : Moves(h)
    BY <1>1, <1>9 DEF Moves, Born
<1> QED BY <1>1, <1>8, <1>15, <1>16, RowStepKept

LEMMA AccessExpiresKept ==
    ASSUME Inv, NEW g \in Grants, NEW n \in Generations, AccessExpires(g, n) PROVE Inv'
<1>1. /\ UNCHANGED <<grant, device, family, refresh, req, record, setting, memory, started, stale, faults>>
      /\ access[g][n] = "active" /\ access' = [access EXCEPT ![g][n] = "expired"]
    BY DEF AccessExpires, plugin
<1>2. /\ TypeOK /\ access \in [Grants -> [Generations -> {"none", "active", "expired", "revoked"}]]
    BY DEF Inv, TypeOK
<1>3. /\ access' \in [Grants -> [Generations -> {"none", "active", "expired", "revoked"}]]
      /\ \A h \in Grants : h # g => access'[h] = access[h]
      /\ access'[g][n] = "expired" /\ \A k \in Generations : k # n => access'[g][k] = access[g][k]
    BY <1>1, <1>2
<1>4. TypeOK'
    BY <1>1, <1>2, <1>3 DEF TypeOK
<1>5. Flags(g) /\ Born(g) /\ Lineage(g)
    BY <1>1 DEF Inv, Rows, RowInv, Unborn
<1>6. ASSUME NEW k \in Generations PROVE TokenInv(g, k)'
  <2>1. TokenInv(g, k)
      BY <1>5 DEF Lineage
  <2>2. CASE k # n
      BY <1>1, <1>3, <2>1, <2>2 DEF TokenInv, Current
  <2>3. CASE k = n
      BY <1>1, <1>3, <2>1, <2>3 DEF TokenInv, Current
  <2> QED BY <2>2, <2>3
<1>7. Lineage(g)'
    BY <1>1, <1>5, <1>6 DEF Lineage, Current
<1>8. RowInv(g)'
    BY <1>1, <1>5, <1>7 DEF RowInv, Flags, Born
<1>9. Elsewhere(g)
    BY <1>1, <1>3 DEF Elsewhere, Inv, Rows, RowInv, Flags, Born
<1>10. Rows'
    BY <1>8, <1>9, ElsewhereKept DEF Inv
<1>11. \A h \in Grants : Moves(h)
    BY <1>1 DEF Moves, Born, Current
<1> QED BY <1>1, <1>4, <1>10, <1>11, RowStepKept

-------------------------------------------------------------------------------
(* The server answers a request.                                           *)

Answers == {"slow_down", "pending", "denied", "expired", "state_invalid", "granted", "rotated",
            "reuse", "device_revoked", "revoked"}

\* Whoever waits gets the answer, and it is true of the rows the step leaves.
LEMMA AnswerFades ==
    ASSUME TypeOK, NEW s \in Slots, NEW answer, Answer(s, answer), req[s].kind # "free",
           answer \in Answers,
           NEW g, g = req[s].grant,
           req[s].kind = "poll" /\ answer = "granted" => Born(g)',
           req[s].kind = "refresh" /\ answer = "rotated" => Current(g)' > req[s].generation
    PROVE  /\ req' \in [Slots -> Requests] /\ Fades(s)
           /\ \A t \in Slots : t # s => req'[t] = req[t]
<1>1. req \in [Slots -> Requests] /\ req[s] \in Requests
    BY DEF TypeOK
<1>2. PICK q : q = IF req[s].waited THEN [req[s] EXCEPT !.pc = "done", !.answer = answer] ELSE Free
    OBVIOUS
<1>3. req' = [req EXCEPT ![s] = q]
    BY <1>2 DEF Answer
<1>4. CASE ~req[s].waited
  <2>1. q = Free
      BY <1>2, <1>4
  <2> QED BY <1>1, <1>3, <2>1, FreeShape DEF Fades
<1>5. CASE req[s].waited
  <2>1. q = [req[s] EXCEPT !.pc = "done", !.answer = answer]
      BY <1>2, <1>5
  <2>3. /\ q \in Requests /\ q.kind = req[s].kind /\ q.grant = req[s].grant
        /\ q.generation = req[s].generation /\ q.rotation = req[s].rotation
        /\ q.waited = req[s].waited /\ q.pc = "done" /\ q.answer = answer
      BY <1>1, <2>1 DEF Requests, Answers
  <2>4. /\ req' \in [Slots -> Requests] /\ req'[s] = q
        /\ \A t \in Slots : t # s => req'[t] = req[t]
      BY <1>1, <1>3, <2>3
  <2>5. Follows(s)
      BY <1>5, <2>3, <2>4 DEF Follows, Born, Current
  <2> QED BY <2>4, <2>5 DEF Fades
<1> QED BY <1>4, <1>5

\* A step of the server on one request.
LEMMA ServerKept ==
    ASSUME Inv, TypeOK', Rows', \A g \in Grants : Moves(g), NEW s \in Slots, Fades(s),
           \A t \in Slots : t # s => req'[t] = req[t], UNCHANGED <<record, setting>>
    PROVE  Inv'
<1>1. \A t \in Slots : Fades(t)
    BY SameFades DEF Inv
<1> QED BY <1>1, RequestsOn, RecordOn DEF Inv

\* The pacing of a poll changes its grant's bucket and the poll alone.
LEMMA PacePollKept == ASSUME Inv, NEW s \in Slots, PacePoll(s) PROVE Inv'
<1>1. PICK g \in Grants : g = req[s].grant
    BY DEF PacePoll, Inv, RequestInv, Sound
<1>2. /\ req[s].kind = "poll" /\ req[s].pc = "sent"
      /\ UNCHANGED <<device, family, refresh, access, record, setting, memory, started, stale, faults>>
      /\ IF grant[g].locked
         THEN Answer(s, "slow_down") /\ UNCHANGED grant
         ELSE /\ grant' = [grant EXCEPT ![g].locked = TRUE]
              /\ req' = [req EXCEPT ![s].pc = "paced"]
    BY <1>1 DEF PacePoll, tokens, plugin
<1>3. TypeOK /\ Sound(s) /\ grant[g].state # "none" /\ req[s] \in Requests
    BY <1>1, <1>2, TypedRequest DEF Inv, RequestInv, Sound
<1>4. Decided /\ req' \in [Slots -> Requests] /\ Fades(s) /\ \A t \in Slots : t # s => req'[t] = req[t]
  <2>1. CASE grant[g].locked
    <3>1. Decided
        BY <1>2, <2>1, SameDecided
    <3>2. "slow_down" \in Answers
        BY DEF Answers
    <3> QED BY <1>1, <1>2, <1>3, <2>1, <3>1, <3>2, AnswerFades
  <2>2. CASE ~grant[g].locked
    <3>1. Decided
        BY <1>2, <1>3, <2>2, LockShape
    <3>2. PICK q \in Requests : q = [req[s] EXCEPT !.pc = "paced"]
        BY <1>3 DEF Requests
    <3>3. /\ q.kind = "poll" /\ q.grant = req[s].grant /\ q.generation = req[s].generation
          /\ q.rotation = req[s].rotation /\ q.waited = req[s].waited /\ q.pc = "paced"
          /\ q.answer = req[s].answer
        BY <1>2, <1>3, <3>2 DEF Requests
    <3>4. req' = [req EXCEPT ![s] = q]
        BY <1>2, <1>3, <2>2, <3>2 DEF TypeOK
    <3>5. req' \in [Slots -> Requests] /\ req'[s] = q /\ \A t \in Slots : t # s => req'[t] = req[t]
        BY <1>3, <3>4, Placed
    <3>6. Born(g) => Born(g)'
        BY <3>1 DEF Decided
    <3>7. q.answer = "granted" => Born(req[s].grant)'
        BY <1>1, <1>2, <1>3, <3>3, <3>5, <3>6 DEF Sound, Born
    <3> QED BY <1>2, <1>3, <3>1, <3>3, <3>5, <3>7 DEF Fades, Follows
  <2> QED BY <2>1, <2>2
<1>5. TypeOK'
    BY <1>2, <1>3, <1>4 DEF TypeOK, Decided
<1>6. Rows' /\ \A h \in Grants : Moves(h)
    BY <1>2, <1>4, DecidedMoves DEF Inv
<1> QED BY <1>2, <1>4, <1>5, <1>6, ServerKept

\* The rows a first exchange brings into being.
LEMMA ExchangeRows ==
    ASSUME Inv, NEW g \in Grants, grant[g].state = "approved", CommitFirstExchange(g), stale' = stale
    PROVE  /\ grant' \in [Grants -> GrantRows] /\ device' \in [Grants -> {"none", "active", "revoked"}]
           /\ family' \in [Grants -> Families] /\ refresh' \in [Grants -> [Generations -> Tokens]]
           /\ access' \in [Grants -> [Generations -> {"none", "active", "expired", "revoked"}]]
           /\ Rows' /\ \A h \in Grants : Moves(h)
           /\ Born(g)' /\ \A h \in Grants : h # g => grant'[h] = grant[h] /\ family'[h] = family[h]
           /\ family'[g].state = "active" /\ Current(g)' = 1
<1>1. /\ TypeOK /\ grant \in [Grants -> GrantRows] /\ device \in [Grants -> {"none", "active", "revoked"}]
      /\ family \in [Grants -> Families] /\ refresh \in [Grants -> [Generations -> Tokens]]
      /\ access \in [Grants -> [Generations -> {"none", "active", "expired", "revoked"}]]
      /\ grant[g] \in GrantRows /\ Flags(g)
    BY DEF Inv, TypeOK, Rows, RowInv
<1>2. Unborn(g) /\ ~Born(g)
    BY DEF Inv, Rows, RowInv, Born
<1>3. PICK row \in GrantRows : row = [grant[g] EXCEPT !.state = "exchanged", !.exchanged = TRUE]
    BY <1>1 DEF GrantRows
<1>4. /\ row.state = "exchanged" /\ row.exchanged /\ row.approved = grant[g].approved
      /\ row.denied = grant[g].denied
    BY <1>1, <1>3 DEF GrantRows
<1>5. grant' = [grant EXCEPT ![g] = row]
    BY <1>1, <1>3 DEF CommitFirstExchange, GrantRows
<1>6a. NoFamily \in Families
    BY DEF NoFamily, Families
<1>6. PICK m \in Families : m = NoFamily
    BY <1>6a
<1>7a. 1 \in 0 .. MaxGeneration
    OBVIOUS
<1>7. PICK fam \in Families : fam = [m EXCEPT !.state = "active", !.generation = 1]
    BY <1>7a DEF Families
<1>8. fam = [NoFamily EXCEPT !.state = "active", !.generation = 1]
    BY <1>6, <1>7, Zenon
<1>9. fam.state = "active" /\ fam.generation = 1 /\ fam.reason = "none"
    BY <1>6, <1>7 DEF Families, NoFamily
<1>10. family' = [family EXCEPT ![g] = fam]
    BY <1>8 DEF CommitFirstExchange
<1>11. /\ FirstToken \in Tokens /\ FirstToken.state = "active" /\ FirstToken.rotation = 0
       /\ FirstToken.successor = 0
    BY DEF FirstToken, NoToken, Tokens
<1>12. PICK token \in Tokens : token = FirstToken
    BY <1>11
<1>13. refresh' = [refresh EXCEPT ![g][1] = token]
    BY <1>12 DEF CommitFirstExchange
<1>14. 1 \in Generations
    BY DEF Generations
<1>15. /\ grant' \in [Grants -> GrantRows] /\ grant'[g] = row
       /\ \A h \in Grants : h # g => grant'[h] = grant[h]
    BY <1>1, <1>5
<1>16. /\ family' \in [Grants -> Families] /\ family'[g] = fam
       /\ \A h \in Grants : h # g => family'[h] = family[h]
    BY <1>1, <1>10
<1>17. /\ device' \in [Grants -> {"none", "active", "revoked"}] /\ device'[g] = "active"
       /\ \A h \in Grants : h # g => device'[h] = device[h]
    BY <1>1 DEF CommitFirstExchange
<1>18. /\ refresh' \in [Grants -> [Generations -> Tokens]] /\ refresh'[g][1] = token
       /\ \A n \in Generations : n # 1 => refresh'[g][n] = refresh[g][n]
       /\ \A h \in Grants : h # g => refresh'[h] = refresh[h]
    BY <1>1, <1>13, <1>14
<1>19. /\ access' \in [Grants -> [Generations -> {"none", "active", "expired", "revoked"}]]
       /\ access'[g][1] = "active"
       /\ \A n \in Generations : n # 1 => access'[g][n] = access[g][n]
       /\ \A h \in Grants : h # g => access'[h] = access[h]
    BY <1>1, <1>14 DEF CommitFirstExchange
<1>20. Current(g)' = 1 /\ Born(g)'
    BY <1>4, <1>9, <1>15, <1>16 DEF Current, Born
<1>21. ASSUME NEW n \in Generations PROVE TokenInv(g, n)'
  <2>1. n \in Nat /\ n >= 1
      BY DEF Generations
  <2>2. CASE n = 1
      BY <1>9, <1>11, <1>12, <1>16, <1>18, <1>19, <1>20, <2>2 DEF TokenInv
  <2>3. CASE n # 1
      BY <1>2, <1>9, <1>16, <1>18, <1>19, <1>20, <2>1, <2>3 DEF TokenInv, Unborn
  <2> QED BY <2>2, <2>3
<1>22. Lineage(g)'
    BY <1>9, <1>16, <1>17, <1>20, <1>21 DEF Lineage
<1>23. Flags(g)'
    BY <1>1, <1>4, <1>15 DEF Flags
<1>24. RowInv(g)'
    BY <1>20, <1>22, <1>23 DEF RowInv
<1>25. Elsewhere(g)
  <2> SUFFICES ASSUME NEW h \in Grants, h # g
               PROVE Flags(h)' /\ (Born(h)' <=> Born(h))
      BY <1>15, <1>16, <1>17, <1>18, <1>19 DEF Elsewhere
  <2>1. grant'[h] = grant[h] /\ Flags(h)
      BY <1>15 DEF Inv, Rows, RowInv
  <2> QED BY <2>1 DEF Flags, Born
<1>26. Rows'
    BY <1>24, <1>25, ElsewhereKept DEF Inv
<1>27. ASSUME NEW h \in Grants PROVE Moves(h)
  <2>1. CASE h = g
      BY <1>2, <1>4, <1>15, <1>20, <2>1 DEF Moves
  <2>2. CASE h # g
      BY <1>15, <1>16, <1>18, <2>2 DEF Moves, Born, Current
  <2> QED BY <2>1, <2>2
<1> QED BY <1>9, <1>15, <1>16, <1>17, <1>18, <1>19, <1>20, <1>26, <1>27

LEMMA VerdictShape ==
    ASSUME Inv, NEW g \in Grants
    PROVE  /\ PollVerdict(g) = "exchange" => grant[g].state = "approved"
           /\ PollVerdict(g) = "granted" => Born(g)
           /\ PollVerdict(g) # "exchange" => PollVerdict(g) \in Answers
<1>1. grant[g].state \in {"none", "pending", "approved", "denied", "exchanged"}
    BY TypedFamily DEF Inv, GrantRows
<1>2. ReplayExchange(g) \in {"granted", "state_invalid"}
    BY DEF ReplayExchange
<1>3. CASE grant[g].state = "denied"
    BY <1>3 DEF PollVerdict, Answers
<1>4. CASE grant[g].state = "pending"
    BY <1>4 DEF PollVerdict, Answers
<1>5. CASE grant[g].state = "exchanged"
    BY <1>2, <1>5 DEF PollVerdict, Answers, Born
<1>6. CASE grant[g].state = "approved"
    BY <1>6 DEF PollVerdict, Answers
<1>7. CASE grant[g].state = "none"
    BY <1>7 DEF PollVerdict, Answers
<1> QED BY <1>1, <1>3, <1>4, <1>5, <1>6, <1>7

LEMMA PollExchangeKept == ASSUME Inv, NEW s \in Slots, PollExchange(s) PROVE Inv'
<1>1. PICK g \in Grants : g = req[s].grant
    BY DEF PollExchange, Inv, RequestInv, Sound
<1>2. /\ req[s].kind = "poll"
      /\ UNCHANGED <<record, setting, memory, started, stale, faults>>
      /\ IF PollVerdict(g) = "exchange"
         THEN CommitFirstExchange(g) /\ Answer(s, "granted")
         ELSE UNCHANGED <<grant, device, family, refresh, access>> /\ Answer(s, PollVerdict(g))
    BY <1>1 DEF PollExchange, tokens, plugin
<1>3. TypeOK
    BY DEF Inv
<1>4. CASE PollVerdict(g) = "exchange"
  <2>1. grant[g].state = "approved"
      BY <1>4, VerdictShape
  <2>2. CommitFirstExchange(g) /\ Answer(s, "granted") /\ stale' = stale
      BY <1>2, <1>4
  <2>3. /\ grant' \in [Grants -> GrantRows] /\ device' \in [Grants -> {"none", "active", "revoked"}]
        /\ family' \in [Grants -> Families] /\ refresh' \in [Grants -> [Generations -> Tokens]]
        /\ access' \in [Grants -> [Generations -> {"none", "active", "expired", "revoked"}]]
        /\ Rows' /\ Born(g)' /\ \A h \in Grants : Moves(h)
      BY <2>1, <2>2, ExchangeRows
  <2>4. "granted" \in Answers
      BY DEF Answers
  <2>5. req' \in [Slots -> Requests] /\ Fades(s) /\ \A t \in Slots : t # s => req'[t] = req[t]
      BY <1>1, <1>2, <1>3, <2>2, <2>3, <2>4, AnswerFades
  <2>6. TypeOK'
      BY <1>2, <1>3, <2>3, <2>5 DEF TypeOK
  <2> QED BY <1>2, <2>3, <2>5, <2>6, ServerKept
<1>5. CASE PollVerdict(g) # "exchange"
  <2>1. UNCHANGED <<grant, device, family, refresh, access>> /\ Answer(s, PollVerdict(g))
      BY <1>2, <1>5
  <2>2. PollVerdict(g) \in Answers /\ (PollVerdict(g) = "granted" => Born(g)')
      BY <1>5, <2>1, VerdictShape DEF Born
  <2>3. PICK a \in Answers : a = PollVerdict(g)
      BY <2>2
  <2>4. req' \in [Slots -> Requests] /\ Fades(s) /\ \A t \in Slots : t # s => req'[t] = req[t]
      BY <1>1, <1>2, <1>3, <2>1, <2>2, <2>3, AnswerFades
  <2>5. TypeOK'
      BY <1>2, <1>3, <2>1, <2>4 DEF TypeOK
  <2>6. Rows' /\ \A h \in Grants : Moves(h)
      BY <1>2, <2>1, RowsSame, QuietMoves DEF Inv
  <2> QED BY <1>2, <2>4, <2>5, <2>6, ServerKept
<1> QED BY <1>4, <1>5

\* What a presentation of a token the family once issued can be.
LEMMA ClassifyShape ==
    ASSUME Inv, NEW g \in Grants, Born(g), NEW n \in Generations, n <= Current(g), NEW rotation
    PROVE  /\ ClassifyPresentation(g, n, rotation) \in {"rotate", "replay", "reuse"}
           /\ ClassifyPresentation(g, n, rotation) = "rotate" =>
                 family[g].state = "active" /\ Current(g) = n
           /\ ClassifyPresentation(g, n, rotation) = "replay" => Current(g) = n + 1
           /\ ClassifyPresentation(g, n, rotation) = "reuse" /\ family[g].state # "revoked" =>
                 \/ Current(g) = n /\ family[g].expired
                 \/ Current(g) > n + 1
                 \/ Current(g) = n + 1 /\ refresh[g][n + 1].rotation # rotation
<1>1. Lineage(g) /\ TypeOK
    BY DEF Inv, Rows, RowInv
<1>2. Current(g) \in 0 .. MaxGeneration /\ family[g].state \in {"active", "revoked"}
    BY <1>1, TypedFamily DEF Lineage, Families
<1>3. n \in Nat /\ TokenInv(g, n)
    BY <1>1 DEF Lineage, Generations
<1>4. CASE family[g].state = "revoked"
    BY <1>4 DEF ClassifyPresentation
<1>5. CASE family[g].state = "active" /\ n = Current(g)
  <2>1. refresh[g][n].state = "active"
      BY <1>3, <1>5 DEF TokenInv
  <2>2. ClassifyPresentation(g, n, rotation) =
           IF family[g].generation # n \/ family[g].expired THEN "reuse" ELSE "rotate"
      BY <1>5, <2>1 DEF ClassifyPresentation
  <2> QED BY <1>5, <2>2 DEF Current
<1>6. CASE family[g].state = "active" /\ n < Current(g)
  <2>1. refresh[g][n].state = "rotated"
      BY <1>3, <1>6 DEF TokenInv
  <2>2. ClassifyPresentation(g, n, rotation) =
           IF /\ n < MaxGeneration /\ refresh[g][n + 1].rotation = rotation
              /\ refresh[g][n + 1].state = "active" /\ family[g].generation = n + 1
           THEN "replay" ELSE "reuse"
      BY <1>6, <2>1 DEF ClassifyPresentation
  <2>3. Current(g) = n + 1 => refresh[g][n + 1].state = "active"
    <3>1. n + 1 \in Generations
        BY <1>2, <1>3, <1>6 DEF Generations
    <3> QED BY <1>1, <1>6, <3>1 DEF Lineage, TokenInv
  <2>4. n < MaxGeneration
      BY <1>2, <1>3, <1>6
  <2> QED BY <1>2, <1>3, <1>6, <2>2, <2>3, <2>4 DEF Current
<1> QED BY <1>2, <1>3, <1>4, <1>5, <1>6

\* The rows of a rotation.
LEMMA RotationRows ==
    ASSUME Inv, NEW g \in Grants, Born(g), NEW n \in Generations, n < MaxGeneration, Current(g) = n,
           family[g].state = "active", NEW rotation \in Rotations, CommitNewRotation(g, n, rotation),
           grant' = grant, \A h \in Grants : stale[h] => stale'[h]
    PROVE  /\ family' \in [Grants -> Families] /\ refresh' \in [Grants -> [Generations -> Tokens]]
           /\ access' \in [Grants -> [Generations -> {"none", "active", "expired", "revoked"}]]
           /\ Rows' /\ Current(g)' = n + 1 /\ refresh'[g][n + 1].rotation = rotation
           /\ family'[g].state = "active"
           /\ \A h \in Grants : h # g => refresh'[h] = refresh[h] /\ family'[h] = family[h]
<1>1. /\ TypeOK /\ family \in [Grants -> Families] /\ refresh \in [Grants -> [Generations -> Tokens]]
      /\ access \in [Grants -> [Generations -> {"none", "active", "expired", "revoked"}]]
      /\ Flags(g) /\ Lineage(g) /\ family[g] \in Families /\ refresh[g][n] \in Tokens
    BY DEF Inv, TypeOK, Rows, RowInv
<1>2. n \in Nat /\ n >= 1 /\ n + 1 \in Generations /\ n + 1 \in 0 .. MaxGeneration /\ n # n + 1
    BY DEF Generations
<1>3. PICK old \in Tokens : old = [refresh[g][n] EXCEPT !.state = "rotated", !.successor = n + 1]
    BY <1>1, <1>2 DEF Tokens
<1>4. /\ old.state = "rotated" /\ old.successor = n + 1 /\ old.rotation = refresh[g][n].rotation
    BY <1>1, <1>3 DEF Tokens
<1>5. /\ Successor(rotation) \in Tokens /\ Successor(rotation).state = "active"
      /\ Successor(rotation).rotation = rotation /\ Successor(rotation).successor = 0
  <2>1. NoToken \in Tokens /\ NoToken.successor = 0
      BY DEF NoToken, Tokens
  <2>2. PICK m \in Tokens : m = NoToken
      BY <2>1
  <2>3. PICK t \in Tokens : t = [m EXCEPT !.state = "active", !.rotation = rotation]
      BY DEF Tokens
  <2>4. t = Successor(rotation)
      BY <2>2, <2>3, Zenon DEF Successor
  <2>5. t.state = "active" /\ t.rotation = rotation /\ t.successor = 0
      BY <2>1, <2>2, <2>3 DEF Tokens
  <2> QED BY <2>4, <2>5
<1>6. PICK new \in Tokens : new = Successor(rotation)
    BY <1>5
<1>7. refresh' = [refresh EXCEPT ![g][n] = old, ![g][n + 1] = new]
    BY <1>1, <1>2, <1>3, <1>6 DEF CommitNewRotation
<1>8. /\ refresh' \in [Grants -> [Generations -> Tokens]]
      /\ refresh'[g][n] = old /\ refresh'[g][n + 1] = new
      /\ \A k \in Generations : k # n /\ k # n + 1 => refresh'[g][k] = refresh[g][k]
      /\ \A h \in Grants : h # g => refresh'[h] = refresh[h]
    BY <1>1, <1>2, <1>7
<1>9. /\ access' \in [Grants -> [Generations -> {"none", "active", "expired", "revoked"}]]
      /\ access'[g][n + 1] = "active"
      /\ \A k \in Generations : k # n + 1 => access'[g][k] = access[g][k]
      /\ \A h \in Grants : h # g => access'[h] = access[h]
    BY <1>1, <1>2 DEF CommitNewRotation
<1>10. PICK row \in Families : row = [family[g] EXCEPT !.generation = n + 1]
    BY <1>1, <1>2 DEF Families
<1>11. /\ row.generation = n + 1 /\ row.state = "active" /\ row.reason = family[g].reason
       /\ row.expired = family[g].expired
    BY <1>1, <1>10 DEF Families
<1>12. family' = [family EXCEPT ![g] = row]
    BY <1>1, <1>10 DEF CommitNewRotation
<1>13. /\ family' \in [Grants -> Families] /\ family'[g] = row
       /\ \A h \in Grants : h # g => family'[h] = family[h]
    BY <1>1, <1>12
<1>14. device' = device
    BY DEF CommitNewRotation
<1>15. Current(g)' = n + 1
    BY <1>11, <1>13 DEF Current
<1>16. ASSUME NEW k \in Generations PROVE TokenInv(g, k)'
  <2>1. TokenInv(g, k) /\ k \in Nat /\ k >= 1
      BY <1>1 DEF Lineage, Generations
  <2>2. CASE k = n + 1
      BY <1>2, <1>5, <1>6, <1>8, <1>9, <1>11, <1>13, <1>15, <2>1, <2>2 DEF TokenInv
  <2>3. CASE k = n
      BY <1>2, <1>4, <1>8, <1>9, <1>11, <1>13, <1>15, <2>1, <2>3 DEF TokenInv
  <2>4. CASE k < n
      BY <1>2, <1>8, <1>9, <1>11, <1>13, <1>15, <2>1, <2>4 DEF TokenInv
  <2>5. CASE k > n + 1
      BY <1>2, <1>8, <1>9, <1>11, <1>13, <1>15, <2>1, <2>5 DEF TokenInv
  <2> QED BY <1>2, <2>1, <2>2, <2>3, <2>4, <2>5
<1>17. Lineage(g)'
    BY <1>1, <1>2, <1>11, <1>13, <1>14, <1>15, <1>16 DEF Lineage
<1>18. RowInv(g)'
    BY <1>1, <1>17 DEF RowInv, Flags, Born
<1>19. Elsewhere(g)
  <2> SUFFICES ASSUME NEW h \in Grants, h # g PROVE Flags(h)' /\ (Born(h)' <=> Born(h))
      BY <1>8, <1>9, <1>13, <1>14 DEF Elsewhere
  <2> QED BY DEF Inv, Rows, RowInv, Flags, Born
<1>20. Rows'
    BY <1>18, <1>19, ElsewhereKept DEF Inv
<1> QED BY <1>5, <1>6, <1>8, <1>9, <1>11, <1>13, <1>15, <1>20

LEMMA RefreshRotationKept == ASSUME Inv, NEW s \in Slots, RefreshRotation(s) PROVE Inv'
<1>1. PICK g \in Grants : g = req[s].grant
    BY DEF RefreshRotation, Inv, RequestInv, Sound
<1>2. PICK n \in 0 .. MaxGeneration : n = req[s].generation
    BY TypedRequest DEF Inv
<1>3. PICK id \in Rotations \cup {0} : id = req[s].rotation
    BY TypedRequest DEF Inv
<1>4. PICK kind : kind = ClassifyPresentation(g, n, id)
    OBVIOUS
<1>5. /\ req[s].kind = "refresh" /\ req[s].pc = "sent"
      /\ kind = "rotate" => n < MaxGeneration
      /\ UNCHANGED <<grant, record, setting, memory, started, faults>>
      /\ stale' = [stale EXCEPT ![g] = @ \/ n + 1 < family[g].generation]
    BY <1>1, <1>2, <1>3, <1>4 DEF RefreshRotation, plugin
<1>6. /\ kind = "rotate" => CommitNewRotation(g, n, id) /\ Answer(s, "rotated")
      /\ kind = "replay" => ReplayRotation /\ Answer(s, "rotated")
      /\ kind = "reuse" => RevokeForReuse(g) /\ Answer(s, "reuse")
    BY <1>1, <1>2, <1>3, <1>4 DEF RefreshRotation
<1>7. /\ TypeOK /\ Born(g) /\ 1 <= n /\ n <= Current(g) /\ id # 0 /\ n \in Generations
      /\ Unserved(s, g) /\ Current(g) \in Nat
      /\ Current(g) = n + 1 => refresh[g][n + 1].rotation = id
  <2>1. TypeOK /\ Sound(s) /\ Recorded(s)
      BY DEF Inv, RequestInv
  <2>2. Unserved(s, g)
      BY <1>1, <1>5 DEF Unserved, Refreshes
  <2>3. Born(g) /\ 1 <= n /\ n <= Current(g) /\ id # 0
      BY <1>1, <1>2, <1>3, <1>5, <2>1 DEF Sound
  <2>4. Current(g) = n + 1 => refresh[g][n + 1].rotation = id
      BY <1>1, <1>2, <1>3, <2>1, <2>2 DEF Recorded
  <2>5. Current(g) \in Nat
      BY <2>1, TypedFamily
  <2> QED BY <2>1, <2>2, <2>3, <2>4, <2>5 DEF Generations
<1>8. /\ kind \in {"rotate", "replay", "reuse"}
      /\ kind = "rotate" => family[g].state = "active" /\ Current(g) = n
      /\ kind = "replay" => Current(g) = n + 1
      /\ kind = "reuse" /\ family[g].state # "revoked" =>
            (Current(g) = n /\ family[g].expired) \/ Current(g) > n + 1
    BY <1>4, <1>7, ClassifyShape
<1>9. /\ stale' \in [Grants -> BOOLEAN] /\ \A h \in Grants : stale[h] => stale'[h]
      /\ Current(g) > n + 1 => stale'[g]
    BY <1>5, <1>7 DEF TypeOK, Current
<1>10. "rotated" \in Answers /\ "reuse" \in Answers
    BY DEF Answers
<1>11. CASE kind = "rotate"
  <2>1. CommitNewRotation(g, n, id) /\ Answer(s, "rotated") /\ n < MaxGeneration /\ id \in Rotations
           /\ grant' = grant
      BY <1>5, <1>6, <1>7, <1>11
  <2>2. /\ family' \in [Grants -> Families] /\ refresh' \in [Grants -> [Generations -> Tokens]]
        /\ access' \in [Grants -> [Generations -> {"none", "active", "expired", "revoked"}]]
        /\ Rows' /\ Current(g)' = n + 1 /\ refresh'[g][n + 1].rotation = id
        /\ \A h \in Grants : h # g => refresh'[h] = refresh[h] /\ family'[h] = family[h]
      BY <1>7, <1>8, <1>9, <1>11, <2>1, RotationRows
  <2>3. req' \in [Slots -> Requests] /\ Fades(s) /\ \A t \in Slots : t # s => req'[t] = req[t]
    <3>1. Current(g)' > req[s].generation
        BY <1>2, <2>2
    <3> QED BY <1>1, <1>5, <1>7, <1>10, <2>1, <3>1, AnswerFades
  <2>4. TypeOK'
      BY <1>5, <1>7, <1>9, <2>1, <2>2, <2>3 DEF TypeOK, CommitNewRotation
  <2>5. ASSUME NEW h \in Grants PROVE Moves(h)
    <3>1. CASE h = g
      <4>1. Rotates(g, s)
          BY <1>2, <1>3, <1>7, <1>8, <1>11, <2>2 DEF Rotates
      <4> QED BY <2>1, <3>1, <4>1 DEF Moves, Born
    <3>2. CASE h # g
        BY <2>1, <2>2, <3>2 DEF Moves, Born, Current
    <3> QED BY <3>1, <3>2
  <2> QED BY <1>5, <2>2, <2>3, <2>4, <2>5, ServerKept
<1>12. CASE kind = "replay" \/ (kind = "reuse" /\ family[g].state = "revoked")
  <2>1. UNCHANGED <<grant, device, family, refresh, access>>
      BY <1>5, <1>6, <1>12 DEF ReplayRotation, RevokeForReuse, tokens
  <2>2. PICK a \in Answers : Answer(s, a) /\ (a = "rotated" => kind = "replay")
      BY <1>6, <1>10, <1>12
  <2>3. req' \in [Slots -> Requests] /\ Fades(s) /\ \A t \in Slots : t # s => req'[t] = req[t]
    <3>1. a = "rotated" => Current(g)' > req[s].generation
        BY <1>2, <1>7, <1>8, <2>1, <2>2 DEF Current
    <3> QED BY <1>1, <1>5, <1>7, <2>2, <3>1, AnswerFades
  <2>4. TypeOK'
      BY <1>5, <1>7, <1>9, <2>1, <2>3 DEF TypeOK
  <2>5. Rows' /\ \A h \in Grants : Moves(h)
      BY <1>9, <2>1, RowsSame, QuietMoves DEF Inv
  <2> QED BY <1>5, <2>3, <2>4, <2>5, ServerKept
<1>13. CASE kind = "reuse" /\ family[g].state # "revoked"
  <2>1. /\ family' = RevokedFamily(g, "token_reuse") /\ RevokeTokens(g)
        /\ device' = [device EXCEPT ![g] = "revoked"] /\ Answer(s, "reuse")
      BY <1>6, <1>13 DEF RevokeForReuse
  <2>2. /\ family' \in [Grants -> Families] /\ \A h \in Grants : h # g => family'[h] = family[h]
        /\ family'[g].state = "revoked" /\ family'[g].reason = "token_reuse"
        /\ family'[g].generation = family[g].generation /\ family'[g].expired = family[g].expired
      BY <1>7, <2>1, RevokedShape
  <2>3. /\ device' \in [Grants -> {"none", "active", "revoked"}] /\ device'[g] = "revoked"
        /\ \A h \in Grants : h # g => device'[h] = device[h]
      BY <1>7, <2>1 DEF TypeOK
  <2>4. family'[g].expired \/ stale'[g]
      BY <1>8, <1>9, <1>13, <2>2
  <2>5. Decided
      BY <1>5, SameDecided
  <2>6. Rows' /\ \A h \in Grants : Moves(h)
      BY <1>7, <1>9, <2>1, <2>2, <2>3, <2>4, <2>5, EndKept
  <2>7. req' \in [Slots -> Requests] /\ Fades(s) /\ \A t \in Slots : t # s => req'[t] = req[t]
      BY <1>1, <1>5, <1>7, <1>10, <2>1, AnswerFades
  <2>8. /\ refresh' \in [Grants -> [Generations -> Tokens]]
        /\ access' \in [Grants -> [Generations -> {"none", "active", "expired", "revoked"}]]
      BY <1>7, <2>1, TokensEnd
  <2>9. TypeOK'
      BY <1>5, <1>7, <1>9, <2>2, <2>3, <2>7, <2>8 DEF TypeOK
  <2> QED BY <1>5, <2>6, <2>7, <2>9, ServerKept
<1> QED BY <1>8, <1>11, <1>12, <1>13

LEMMA RevokeCurrentKept == ASSUME Inv, NEW s \in Slots, RevokeCurrentRefresh(s) PROVE Inv'
<1>1. PICK g \in Grants : g = req[s].grant
    BY DEF RevokeCurrentRefresh, Inv, RequestInv, Sound
<1>2. PICK n \in 0 .. MaxGeneration : n = req[s].generation
    BY TypedRequest DEF Inv
<1>3. /\ req[s].kind = "revoke"
      /\ UNCHANGED <<grant, record, setting, memory, started, faults>>
      /\ stale' = [stale EXCEPT ![g] = @ \/ n < family[g].generation]
    BY <1>1, <1>2 DEF RevokeCurrentRefresh, plugin
<1>4. /\ TypeOK /\ Born(g) /\ 1 <= n /\ n <= Current(g) /\ n \in Generations /\ Current(g) \in Nat
      /\ family[g].state \in {"active", "revoked"}
      /\ n = Current(g) => refresh[g][n].state = family[g].state
  <2>1. TypeOK /\ Sound(s)
      BY DEF Inv, RequestInv
  <2>2. Born(g) /\ 1 <= n /\ n <= Current(g)
      BY <1>1, <1>2, <1>3, <2>1 DEF Sound
  <2>3. Current(g) \in Nat /\ n \in Generations
      BY <2>1, <2>2, TypedFamily DEF Generations
  <2>4. Lineage(g)
      BY <2>2 DEF Inv, Rows, RowInv
  <2>5. family[g].state \in {"active", "revoked"}
      BY <2>1, <2>4, TypedFamily DEF Lineage, Families
  <2> QED BY <2>1, <2>2, <2>3, <2>4, <2>5 DEF Lineage, TokenInv
<1>5. /\ stale' \in [Grants -> BOOLEAN] /\ \A h \in Grants : stale[h] => stale'[h]
      /\ Current(g) > n => stale'[g]
    BY <1>3, <1>4 DEF TypeOK, Current
<1>6. "device_revoked" \in Answers /\ "reuse" \in Answers /\ "revoked" \in Answers
    BY DEF Answers
<1>7. Decided
    BY <1>3, SameDecided
<1>8. CASE family[g].state = "revoked" \/ refresh[g][n].state = "revoked"
  <2>1. UNCHANGED <<device, family, refresh, access>> /\ Answer(s, "device_revoked")
      BY <1>1, <1>2, <1>8 DEF RevokeCurrentRefresh, tokens
  <2>2. req' \in [Slots -> Requests] /\ Fades(s) /\ \A t \in Slots : t # s => req'[t] = req[t]
      BY <1>1, <1>3, <1>4, <1>6, <2>1, AnswerFades
  <2>3. TypeOK'
      BY <1>3, <1>4, <1>5, <2>1, <2>2 DEF TypeOK
  <2>4. Rows' /\ \A h \in Grants : Moves(h)
      BY <1>3, <1>5, <2>1, RowsSame, QuietMoves DEF Inv
  <2> QED BY <1>3, <2>2, <2>3, <2>4, ServerKept
<1>9. CASE ~(family[g].state = "revoked" \/ refresh[g][n].state = "revoked")
  <2>1. PICK reason \in {"token_reuse", "self_revoked"}, a \in Answers :
           /\ family' = RevokedFamily(g, reason) /\ RevokeTokens(g) /\ Answer(s, a)
           /\ reason = "token_reuse" => stale'[g]
           /\ device' = IF reason = "token_reuse" THEN [device EXCEPT ![g] = "revoked"] ELSE device
           /\ a # "rotated"
    <3>1. CASE refresh[g][n].state = "rotated" \/ family[g].generation # n
      <4>1. RevokeForReuse(g) /\ Answer(s, "reuse")
          BY <1>1, <1>2, <1>9, <3>1 DEF RevokeCurrentRefresh
      <4>2. /\ family' = RevokedFamily(g, "token_reuse") /\ RevokeTokens(g)
            /\ device' = [device EXCEPT ![g] = "revoked"]
          BY <1>9, <4>1 DEF RevokeForReuse
      <4>3. stale'[g]
          BY <1>4, <1>5, <1>9, <3>1 DEF Current
      <4> QED BY <1>6, <4>1, <4>2, <4>3
    <3>2. CASE ~(refresh[g][n].state = "rotated" \/ family[g].generation # n)
      <4>1. /\ family' = RevokedFamily(g, "self_revoked") /\ RevokeTokens(g)
            /\ device' = device /\ Answer(s, "revoked")
          BY <1>1, <1>2, <1>9, <3>2 DEF RevokeCurrentRefresh
      <4> QED BY <1>6, <4>1
    <3> QED BY <3>1, <3>2
  <2>2. /\ family' \in [Grants -> Families] /\ \A h \in Grants : h # g => family'[h] = family[h]
        /\ family'[g].state = "revoked" /\ family'[g].reason = reason
        /\ family'[g].generation = family[g].generation /\ family'[g].expired = family[g].expired
      BY <1>4, <2>1, RevokedShape
  <2>3. /\ device' \in [Grants -> {"none", "active", "revoked"}] /\ device'[g] # "none"
        /\ \A h \in Grants : h # g => device'[h] = device[h]
    <3>1. device \in [Grants -> {"none", "active", "revoked"}]
        BY <1>4 DEF TypeOK
    <3>2. device[g] # "none"
        BY <1>4 DEF Inv, Rows, RowInv, Lineage
    <3> QED BY <2>1, <3>1, <3>2
  <2>4. Rows' /\ \A h \in Grants : Moves(h)
      BY <1>4, <1>5, <1>7, <2>1, <2>2, <2>3, EndKept
  <2>5. req' \in [Slots -> Requests] /\ Fades(s) /\ \A t \in Slots : t # s => req'[t] = req[t]
      BY <1>1, <1>3, <1>4, <2>1, AnswerFades
  <2>6. /\ refresh' \in [Grants -> [Generations -> Tokens]]
        /\ access' \in [Grants -> [Generations -> {"none", "active", "expired", "revoked"}]]
      BY <1>4, <2>1, TokensEnd
  <2>7. TypeOK'
      BY <1>3, <1>4, <1>5, <2>2, <2>3, <2>5, <2>6 DEF TypeOK
  <2> QED BY <1>3, <2>4, <2>5, <2>7, ServerKept
<1> QED BY <1>8, <1>9

-------------------------------------------------------------------------------
(* Every step keeps the invariant.                                         *)

LEMMA InitInv == Init => Inv
<1> SUFFICES ASSUME Init PROVE Inv
    OBVIOUS
<1>1. TypeOK
  <2>1. NoGrant \in GrantRows
      BY DEF NoGrant, GrantRows
  <2>2. NoFamily \in Families
      BY DEF NoFamily, Families
  <2>3. NoToken \in Tokens
      BY DEF NoToken, Tokens
  <2>4. NoRecord \in Records
      BY DEF NoRecord, Records
  <2>5. NoAccess \in [grant : Grants \cup {0}, generation : 0 .. MaxGeneration]
      BY DEF NoAccess
  <2>6. Free \in Requests
      BY FreeShape
  <2>7. /\ grant \in [Grants -> GrantRows] /\ family \in [Grants -> Families]
        /\ req \in [Slots -> Requests] /\ stale \in [Grants -> BOOLEAN]
        /\ device \in [Grants -> {"none", "active", "revoked"}]
      BY <2>1, <2>2, <2>6 DEF Init
  <2>8. refresh \in [Grants -> [Generations -> Tokens]]
      BY <2>3 DEF Init
  <2>9. access \in [Grants -> [Generations -> {"none", "active", "expired", "revoked"}]]
      BY DEF Init
  <2>10. record \in Records /\ setting \in Grants \cup {0} /\ started \in BOOLEAN
      BY <2>4 DEF Init
  <2>11. memory \in [grant : Grants \cup {0}, generation : 0 .. MaxGeneration]
      BY <2>5 DEF Init
  <2>12. faults \in 0 .. MaxFaults
      BY DEF Init
  <2> QED BY <2>7, <2>8, <2>9, <2>10, <2>11, <2>12 DEF TypeOK
<1>2. Rows
  <2> SUFFICES ASSUME NEW g \in Grants PROVE RowInv(g)
      BY DEF Rows
  <2>1. grant[g] = NoGrant /\ grant[g].state = "none"
      BY DEF Init, NoGrant
  <2>2. Unborn(g)
      BY DEF Init, Unborn
  <2> QED BY <2>1, <2>2 DEF RowInv, Flags, Born
<1>3. \A s \in Slots : req[s] = Free
    BY DEF Init
<1>4. RequestInv
    BY <1>3, FreeShape
       DEF RequestInv, Sound, Single, SameId, Recorded, Awaited, Unserved, Refreshes
<1>5. RecordInv
    BY DEF Init, RecordInv, NoRecord
<1> QED BY <1>1, <1>2, <1>4, <1>5 DEF Inv

LEMMA StutterKept == Inv /\ UNCHANGED vars => Inv'
<1> SUFFICES ASSUME Inv, UNCHANGED vars PROVE Inv'
    OBVIOUS
<1>1. UNCHANGED <<grant, device, family, refresh, access, req, record, setting, memory, started,
                  stale, faults>>
    BY DEF vars, tokens, plugin
<1>2. TypeOK'
    BY <1>1 DEF Inv, TypeOK
<1>3. Rows' /\ \A g \in Grants : Moves(g)
    BY <1>1, RowsSame, QuietMoves DEF Inv
<1> QED BY <1>1, <1>2, <1>3, RowStepKept

LEMMA NextInv == Inv /\ [Next]_vars => Inv'
<1> SUFFICES ASSUME Inv, [Next]_vars PROVE Inv'
    OBVIOUS
<1>1. CASE UNCHANGED vars
    BY <1>1, StutterKept
<1>2. CASE PluginStep
  <2>1. CASE Startup
      BY <2>1, StartupKept
  <2>2. CASE StartLogin
      BY <2>2, StartLoginKept
  <2>3. CASE PersistSetting
      BY <2>3, PersistSettingKept
  <2>4. CASE Poll
      BY <2>4, PollKept
  <2>5. CASE FinishLogin
      BY <2>5, FinishLoginKept
  <2>6. CASE CancelLogin
      BY <2>6, CancelLoginKept
  <2>7. CASE Refresh
      BY <2>7, RefreshKept
  <2>8. CASE Disconnect
      BY <2>8, DisconnectKept
  <2>9. ASSUME NEW s \in Slots, OnPoll(s) PROVE Inv'
      BY <2>9, OnPollKept
  <2>10. ASSUME NEW s \in Slots, OnRefresh(s) PROVE Inv'
      BY <2>10, OnRefreshKept
  <2>11. ASSUME NEW s \in Slots, OnDisconnect(s) PROVE Inv'
      BY <2>11, OnDisconnectKept
  <2> QED BY <1>2, <2>1, <2>2, <2>3, <2>4, <2>5, <2>6, <2>7, <2>8, <2>9, <2>10, <2>11 DEF PluginStep
<1>3. ASSUME NEW g \in Grants, ApproveGrant(g) \/ DenyGrant(g) \/ AdminRevokeDevice(g) PROVE Inv'
    BY <1>3, TransitionKept, AdminRevokeKept DEF ApproveGrant, DenyGrant
<1>4. ASSUME NEW g \in Grants, GrantExpires(g) \/ PollWindowOpens(g) \/ FamilyExpires(g) PROVE Inv'
    BY <1>4, GrantExpiresKept, WindowKept, FamilyExpiresKept
<1>5. ASSUME NEW g \in Grants, NEW n \in Generations, AccessExpires(g, n) PROVE Inv'
    BY <1>5, AccessExpiresKept
<1>6. CASE Crash
    BY <1>6, CrashKept
<1>7. CASE Exhausted
    BY <1>7, StutterKept DEF Exhausted
<1>8. ASSUME NEW s \in Slots, ServerStep(s) PROVE Inv'
    BY <1>8, PacePollKept, PollExchangeKept, RefreshRotationKept, RevokeCurrentKept
       DEF ServerStep, ExchangeGrant
<1>9. ASSUME NEW s \in Slots, NoAnswer(s) PROVE Inv'
    BY <1>9, NoAnswerKept
<1> QED BY <1>1, <1>2, <1>3, <1>4, <1>5, <1>6, <1>7, <1>8, <1>9 DEF Next, Owner, Time

\* What the rows, the requests on their way and the plugin's record have in common holds
\* in every reachable state, whatever is lost, late or interrupted.
THEOREM InvHolds == Spec => []Inv
<1>1. Init => Inv
    BY InitInv
<1>2. Inv /\ [Next]_vars => Inv'
    BY NextInv
<1> QED BY <1>1, <1>2, PTL DEF Spec

-------------------------------------------------------------------------------
(* What the invariant says of the rows.                                    *)

LEMMA BornRows ==
    ASSUME Inv, NEW g \in Grants, Born(g)
    PROVE  /\ Current(g) \in Nat /\ 1 <= Current(g) /\ Current(g) <= MaxGeneration
           /\ device[g] # "none" /\ family[g].state \in {"active", "revoked"}
           /\ \A n \in Generations :
                 /\ n \in Nat /\ 1 <= n /\ TokenInv(g, n)
                 /\ refresh[g][n].state = "active" => n = Current(g) /\ family[g].state = "active"
                 /\ refresh[g][n] # NoToken <=> n <= Current(g)
<1>1. TypeOK /\ Lineage(g)
    BY DEF Inv, Rows, RowInv
<1>2. Current(g) \in 0 .. MaxGeneration /\ family[g].state \in {"active", "revoked"}
    BY <1>1, TypedFamily DEF Lineage, Families
<1>3. NoToken.state = "none"
    BY DEF NoToken
<1>4. ASSUME NEW n \in Generations
      PROVE /\ n \in Nat /\ 1 <= n /\ TokenInv(g, n)
            /\ refresh[g][n].state = "active" => n = Current(g) /\ family[g].state = "active"
            /\ refresh[g][n] # NoToken <=> n <= Current(g)
    BY <1>1, <1>2, <1>3 DEF Lineage, TokenInv, Generations
<1> QED BY <1>1, <1>2, <1>4 DEF Lineage

LEMMA InvSafe == Inv => DeviceSafe
<1> SUFFICES ASSUME Inv PROVE DeviceSafe
    OBVIOUS
<1>1. ASSUME NEW g \in Grants PROVE Flags(g) /\ (~Born(g) => Unborn(g)) /\ grant[g] \in GrantRows
    BY DEF Inv, Rows, RowInv, TypeOK
<1>2. NoToken.state = "none" /\ NoFamily.state = "none" /\ NoFamily.reason = "none"
    BY DEF NoToken, NoFamily
<1>3. RowsAdmitted
  <2> SUFFICES ASSUME NEW g \in Grants
               PROVE /\ grant[g].state # "none" => GrantRow(g)
                     /\ grant[g].state = "exchanged" <=> device[g] # "none"
                     /\ device[g] # "none" <=> family[g].state # "none"
                     /\ family[g].state # "none" => FamilyRow(g)
                     /\ \A n \in Generations : refresh[g][n] # NoToken => TokenRow(g, n)
      BY DEF RowsAdmitted
  <2>1. CASE ~Born(g)
    <3>1. GrantRow(g) \/ grant[g].state = "none"
        BY <1>1, <2>1 DEF Flags, GrantRow, Born, GrantRows
    <3> QED BY <1>1, <1>2, <2>1, <3>1 DEF Unborn, Born
  <2>2. CASE Born(g)
    <3>1. 1 \in Generations
        BY DEF Generations
    <3>2. refresh[g][1] # NoToken /\ access[g][1] # "none"
        BY <2>2, <3>1, BornRows DEF TokenInv
    <3>3. device[g] # "none" /\ family[g].state # "none" /\ family[g].generation >= 1
        BY <2>2, BornRows DEF Current
    <3>4. GrantRow(g)
        BY <1>1, <2>2, <3>2, <3>3 DEF GrantRow, Flags, Born
    <3>5. FamilyRow(g)
        BY <2>2, <3>3, BornRows DEF FamilyRow
    <3>6. ASSUME NEW n \in Generations, refresh[g][n] # NoToken PROVE TokenRow(g, n)
      <4>1. n \in Nat /\ 1 <= n /\ n <= Current(g) /\ TokenInv(g, n)
               /\ Current(g) \in Nat /\ Current(g) <= MaxGeneration
          BY <2>2, <3>6, BornRows
      <4>2. refresh[g][n].successor # 0 =>
               refresh[g][n].state = "rotated" /\ refresh[g][refresh[g][n].successor] # NoToken
        <5> SUFFICES ASSUME refresh[g][n].successor # 0
                     PROVE refresh[g][n].state = "rotated" /\ refresh[g][refresh[g][n].successor] # NoToken
            OBVIOUS
        <5>1. n < Current(g) /\ refresh[g][n].successor = n + 1 /\ refresh[g][n].state = "rotated"
            BY <4>1 DEF TokenInv
        <5>2. n + 1 \in Generations /\ n + 1 <= Current(g)
            BY <4>1, <5>1 DEF Generations
        <5>3. refresh[g][n + 1] # NoToken
            BY <2>2, <5>2, BornRows
        <5> QED BY <5>1, <5>3
      <4>3. n > 1 => refresh[g][n].rotation # 0 /\ refresh[g][n - 1].successor = n
        <5> SUFFICES ASSUME n > 1
                     PROVE refresh[g][n].rotation # 0 /\ refresh[g][n - 1].successor = n
            OBVIOUS
        <5>1. n - 1 \in Generations /\ n - 1 < Current(g)
            BY <4>1 DEF Generations
        <5>2. TokenInv(g, n - 1)
            BY <2>2, <5>1, BornRows
        <5>3. refresh[g][n - 1].successor = (n - 1) + 1
            BY <5>1, <5>2 DEF TokenInv
        <5> QED BY <4>1, <5>3 DEF TokenInv
      <4>4. access[g][n] # "none"
          BY <4>1 DEF TokenInv
      <4> QED BY <4>2, <4>3, <4>4 DEF TokenRow
    <3> QED BY <2>2, <3>3, <3>4, <3>5, <3>6 DEF Born
  <2> QED BY <2>1, <2>2
<1>4. OneLineage
  <2> SUFFICES ASSUME NEW g \in Grants, family[g].state = "active", NEW n \in Generations
               PROVE /\ refresh[g][n].state = "active" <=> n = family[g].generation
                     /\ refresh[g][n].state = "rotated" <=> n < family[g].generation
      BY DEF OneLineage
  <2>1. Born(g)
      BY <1>1, <1>2 DEF Unborn
  <2>2. Current(g) \in Nat /\ n \in Nat /\ TokenInv(g, n)
      BY <2>1, BornRows
  <2> QED BY <1>2, <2>2 DEF TokenInv, Current
<1>5. RevokedIsDead
  <2> SUFFICES ASSUME NEW g \in Grants, device[g] = "revoked" \/ family[g].state = "revoked"
               PROVE /\ family[g].state = "revoked"
                     /\ \A n \in Generations : refresh[g][n].state # "active"
                                               /\ access[g][n] \notin {"active", "expired"}
      BY DEF RevokedIsDead
  <2>1. Born(g) /\ family[g].state = "revoked"
      BY <1>1, <1>2 DEF Unborn, Inv, Rows, RowInv, Lineage
  <2> QED BY <2>1, BornRows DEF TokenInv
<1>6. HonestNeverAccused
    BY <1>1, <1>2 DEF HonestNeverAccused, Unborn, Inv, Rows, RowInv, Lineage
<1>7. TypeOK
    BY DEF Inv
<1> QED BY <1>3, <1>4, <1>5, <1>6, <1>7 DEF DeviceSafe

\* The rows are always ones their tables admit, a live family is one lineage with one
\* usable token, nothing of a revoked device lets a request in, and a device that follows
\* the protocol is never accused of a reuse.
THEOREM DeviceSafeHolds == Spec => []DeviceSafe
<1>1. Inv => DeviceSafe
    BY InvSafe
<1> QED BY <1>1, InvHolds, PTL

-------------------------------------------------------------------------------
(* The stores keep the contract of the ports.                              *)

Stages == \A g \in Grants :
    /\ Stage(g) = "none" <=> grant[g].state = "none"
    /\ Stage(g) = "open" <=> grant[g].state \in {"pending", "approved"}
    /\ Stage(g) = "denied" <=> grant[g].state = "denied"
    /\ Stage(g) = "live" <=> Born(g) /\ family[g].state = "active"
    /\ Stage(g) = "ended" <=> Born(g) /\ family[g].state # "active"
    /\ ~Born(g) => Current(g) = 0 /\ family[g].state = "none"
    /\ Born(g) => Current(g) \in Nat /\ family[g].state \in {"active", "revoked"}

LEMMA StagesHold == Inv => Stages
<1> SUFFICES ASSUME Inv, NEW g \in Grants
             PROVE /\ Stage(g) = "none" <=> grant[g].state = "none"
                   /\ Stage(g) = "open" <=> grant[g].state \in {"pending", "approved"}
                   /\ Stage(g) = "denied" <=> grant[g].state = "denied"
                   /\ Stage(g) = "live" <=> Born(g) /\ family[g].state = "active"
                   /\ Stage(g) = "ended" <=> Born(g) /\ family[g].state # "active"
                   /\ ~Born(g) => Current(g) = 0 /\ family[g].state = "none"
                   /\ Born(g) => Current(g) \in Nat /\ family[g].state \in {"active", "revoked"}
    BY DEF Stages
<1>1. grant[g].state \in {"none", "pending", "approved", "denied", "exchanged"}
    BY TypedFamily DEF Inv, GrantRows
<1>2. ~Born(g) => Current(g) = 0 /\ family[g].state = "none"
    BY DEF Inv, Rows, RowInv, Unborn, NoFamily, Current
<1>3. Born(g) => Current(g) \in Nat /\ family[g].state \in {"active", "revoked"}
    BY BornRows
<1>4. CASE grant[g].state = "none"
    BY <1>2, <1>3, <1>4 DEF Stage, Born
<1>5. CASE grant[g].state = "pending"
    BY <1>2, <1>3, <1>5 DEF Stage, Born
<1>6. CASE grant[g].state = "approved"
    BY <1>2, <1>3, <1>6 DEF Stage, Born
<1>7. CASE grant[g].state = "denied"
    BY <1>2, <1>3, <1>7 DEF Stage, Born
<1>8. CASE grant[g].state = "exchanged"
    BY <1>2, <1>3, <1>8 DEF Stage, Born
<1> QED BY <1>1, <1>4, <1>5, <1>6, <1>7, <1>8

\* One grant seen through the contract.
Stays(g) == Stage(g)' = Stage(g) /\ Current(g)' = Current(g)

From(g, a, b) == Stage(g) = a /\ Stage(g)' = b

LEMMA ContractTerms ==
    ASSUME NEW g \in Grants
    PROVE  /\ Contract!Same(g) <=> Stays(g)
           /\ Contract!Open(g) <=> From(g, "none", "open") /\ Current(g)' = 0
           /\ Contract!Deny(g) <=> From(g, "open", "denied") /\ Current(g)' = 0
           /\ Contract!Provision(g) <=> From(g, "open", "live") /\ Current(g)' = 1
           /\ Contract!Rotate(g) <=> From(g, "live", "live") /\ Current(g)' = Current(g) + 1
           /\ Contract!End(g) <=> From(g, "live", "ended") /\ Current(g)' = Current(g)
BY DEF Contract!Same, Contract!Open, Contract!Deny, Contract!Provision, Contract!Rotate, Contract!End,
       Contract!To, Stays, From, Current

ContractStep == Contract!Next \/ UNCHANGED Contract!vars

LEMMA AllStay == ASSUME \A g \in Grants : Stays(g) PROVE ContractStep
BY DEF ContractStep, Contract!vars, Stays, Current

\* One grant moves, and grants that were open may be denied with it.
LEMMA OneMoves ==
    ASSUME NEW g \in Grants, \A h \in Grants : h # g => Stays(h),
           \/ From(g, "none", "open") /\ Current(g)' = 0
           \/ From(g, "open", "live") /\ Current(g)' = 1
           \/ From(g, "live", "live") /\ Current(g)' = Current(g) + 1
    PROVE  ContractStep
<1>1. Contract!Open(g) \/ Contract!Provision(g) \/ Contract!Rotate(g)
    BY ContractTerms
<1>2. \A h \in Grants \ {g} : Contract!Same(h)
    BY ContractTerms
<1> QED BY <1>1, <1>2 DEF ContractStep, Contract!Next, Contract!Step

LEMMA OneEnds ==
    ASSUME NEW g \in Grants,
           \/ From(g, "live", "ended") /\ Current(g)' = Current(g)
           \/ Stays(g)
           \/ From(g, "open", "denied") /\ Current(g)' = 0,
           \A h \in Grants : h # g => Stays(h) \/ (From(h, "open", "denied") /\ Current(h)' = 0)
    PROVE  ContractStep
<1>1. Contract!End(g) \/ Contract!Same(g) \/ Contract!Deny(g)
    BY ContractTerms
<1>2. \A h \in Grants \ {g} : Contract!Same(h) \/ Contract!Deny(h)
    BY ContractTerms
<1> QED BY <1>1, <1>2 DEF ContractStep, Contract!Next, Contract!Revoke

\* How far a grant and its family are is what the contract sees of them.
LEMMA StayShape ==
    ASSUME Stages, Stages', NEW g \in Grants, Current(g)' = Current(g),
           grant'[g].state = grant[g].state, family'[g].state = family[g].state
    PROVE  Stays(g)
BY DEF Stages, Stays, Stage

LEMMA FamilyAndGrantSame ==
    ASSUME Stages, Stages', UNCHANGED <<grant, family>> PROVE ContractStep
<1>1. \A g \in Grants : Stays(g)
    BY StayShape DEF Current
<1> QED BY <1>1, AllStay

\* Rows change that the contract does not see.
LEMMA HiddenChange ==
    ASSUME Stages, Stages', \A g \in Grants : grant'[g].state = grant[g].state,
           \A g \in Grants : Current(g)' = Current(g) /\ family'[g].state = family[g].state
    PROVE  ContractStep
<1>1. \A g \in Grants : Stays(g)
    BY StayShape
<1> QED BY <1>1, AllStay

LEMMA GrantFieldHidden ==
    ASSUME TypeOK, NEW g \in Grants, NEW b \in BOOLEAN,
           grant' = [grant EXCEPT ![g].locked = b] \/ grant' = [grant EXCEPT ![g].expired = b]
    PROVE  \A h \in Grants : grant'[h].state = grant[h].state
<1>1. grant \in [Grants -> GrantRows] /\ grant[g] \in GrantRows
    BY DEF TypeOK
<1> QED BY <1>1 DEF GrantRows

LEMMA LoginContract ==
    ASSUME Inv, Stages, Stages', StartLogin PROVE ContractStep
<1>1. PICK g \in Grants, claimed \in {0} \cup {h \in Grants : device[h] # "none"} :
         grant[g].state = "none" /\ InsertPending(g, claimed)
    BY DEF StartLogin
<1>2. PICK row : row = [NoGrant EXCEPT !.state = "pending", !.claimed = claimed]
    OBVIOUS
<1>3. row.state = "pending"
    BY <1>2 DEF NoGrant
<1>4. grant' = [grant EXCEPT ![g] = row]
    BY <1>1, <1>2 DEF InsertPending
<1>5. grant'[g].state = "pending" /\ \A h \in Grants : h # g => grant'[h] = grant[h]
    BY <1>3, <1>4 DEF Inv, TypeOK
<1>6. family' = family
    BY DEF StartLogin, tokens
<1>7. \A h \in Grants : h # g => Stays(h)
    BY <1>5, <1>6, StayShape DEF Current
<1>8. From(g, "none", "open") /\ Current(g)' = 0
    BY <1>1, <1>5, <1>6 DEF Stages, From, Born, Current
<1> QED BY <1>7, <1>8, OneMoves

LEMMA TransitionContract ==
    ASSUME Inv, Stages, Stages', NEW g \in Grants, NEW decision \in {"approved", "denied"},
           TerminalTransition(g, decision)
    PROVE  ContractStep
<1>1. grant[g].state = "pending" /\ family' = family
    BY DEF TerminalTransition, Decidable, tokens
<1>2. grant'[g].state = decision /\ \A h \in Grants : h # g => grant'[h] = grant[h]
  <2>1. grant \in [Grants -> GrantRows] /\ grant[g] \in GrantRows
      BY DEF Inv, TypeOK
  <2> QED BY <2>1 DEF TerminalTransition, GrantRows
<1>3. \A h \in Grants : h # g => Stays(h)
    BY <1>1, <1>2, StayShape DEF Current
<1>4. CASE decision = "approved"
  <2>1. Stays(g)
      BY <1>1, <1>2, <1>4 DEF Stages, Stays, Born, Current
  <2> QED BY <1>3, <2>1, AllStay
<1>5. CASE decision = "denied"
  <2>1. From(g, "open", "denied") /\ Current(g)' = 0
      BY <1>1, <1>2, <1>5 DEF Stages, From, Born, Current
  <2>2. \A h \in Grants : h # g => Stays(h) \/ (From(h, "open", "denied") /\ Current(h)' = 0)
      BY <1>3
  <2> QED BY <2>1, <2>2, OneEnds
<1> QED BY <1>4, <1>5

LEMMA FamilyExpiresContract ==
    ASSUME Inv, Stages, Stages', NEW g \in Grants, FamilyExpires(g) PROVE ContractStep
<1>1. family \in [Grants -> Families] /\ family[g] \in Families
    BY DEF Inv, TypeOK
<1>2. family' = [family EXCEPT ![g].expired = TRUE] /\ grant' = grant
    BY DEF FamilyExpires
<1>3. \A h \in Grants : Current(h)' = Current(h) /\ family'[h].state = family[h].state
    BY <1>1, <1>2 DEF Families, Current
<1> QED BY <1>2, <1>3, HiddenChange

\* The end of a family is one the contract knows, once.
LEMMA EndContract ==
    ASSUME Inv, Stages, Stages', NEW g \in Grants, Born(g), Born(g)',
           family'[g].state = "revoked", Current(g)' = Current(g),
           \A h \in Grants : h # g => family'[h] = family[h],
           \A h \in Grants : h # g =>
              \/ grant'[h].state = grant[h].state
              \/ grant[h].state \in {"pending", "approved"} /\ grant'[h].state = "denied"
    PROVE  ContractStep
<1>1. From(g, "live", "ended") \/ Stays(g)
    BY DEF Stages, From, Stays
<1>2. ASSUME NEW h \in Grants, h # g
      PROVE Stays(h) \/ (From(h, "open", "denied") /\ Current(h)' = 0)
  <2>1. CASE grant'[h].state = grant[h].state
    <3>1. Current(h)' = Current(h) /\ family'[h].state = family[h].state
        BY <1>2 DEF Current
    <3>2. Stays(h)
        BY <2>1, <3>1, StayShape
    <3> QED BY <3>2
  <2>2. CASE grant[h].state \in {"pending", "approved"} /\ grant'[h].state = "denied"
      BY <1>2, <2>2 DEF Stages, From, Born, Current
  <2> QED BY <1>2, <2>1, <2>2
<1> QED BY <1>1, <1>2, OneEnds

LEMMA ReuseContract ==
    ASSUME Inv, Stages, Stages', NEW g \in Grants, Born(g), RevokeForReuse(g), grant' = grant
    PROVE  ContractStep
<1>1. CASE family[g].state = "revoked"
    BY <1>1, FamilyAndGrantSame DEF RevokeForReuse, tokens
<1>2. CASE family[g].state # "revoked"
  <2>1. family' = RevokedFamily(g, "token_reuse") /\ TypeOK
      BY <1>2 DEF RevokeForReuse, Inv
  <2>2. family'[g].state = "revoked" /\ family'[g].generation = family[g].generation
           /\ \A h \in Grants : h # g => family'[h] = family[h]
      BY <2>1, RevokedShape
  <2> QED BY <2>2, EndContract DEF Born, Current
<1> QED BY <1>1, <1>2

LEMMA AdminContract ==
    ASSUME Inv, Stages, Stages', NEW g \in Grants, AdminRevokeDevice(g) PROVE ContractStep
<1>1. /\ device[g] = "active" /\ TypeOK
      /\ family' = IF family[g].state = "active" THEN RevokedFamily(g, "admin_revoked") ELSE family
      /\ grant' = DenyClaims(g)
    BY DEF AdminRevokeDevice, Inv
<1>2. Born(g)
    BY <1>1 DEF Inv, Rows, RowInv, Unborn
<1>3. ASSUME NEW h \in Grants
      PROVE \/ grant'[h].state = grant[h].state
            \/ grant[h].state \in {"pending", "approved"} /\ grant'[h].state = "denied"
  <2>1. grant[h] \in GrantRows
      BY <1>1, TypedFamily
  <2>2. grant'[h] = IF grant[h].claimed = g /\ grant[h].state \in {"pending", "approved"}
                    THEN [grant[h] EXCEPT !.state = "denied", !.denied = TRUE] ELSE grant[h]
      BY <1>1 DEF DenyClaims
  <2> QED BY <2>1, <2>2 DEF GrantRows
<1>4. Born(g)'
    BY <1>2, <1>3 DEF Born
<1>5. family[g].state \in {"active", "revoked"}
    BY <1>2, BornRows
<1>6. /\ family'[g].state = "revoked" /\ family'[g].generation = family[g].generation
      /\ \A h \in Grants : h # g => family'[h] = family[h]
    BY <1>1, <1>5, RevokedShape
<1> QED BY <1>2, <1>3, <1>4, <1>6, EndContract DEF Current

LEMMA PollContract ==
    ASSUME Inv, Stages, Stages', NEW s \in Slots, PacePoll(s) \/ PollExchange(s) PROVE ContractStep
<1>1. PICK g \in Grants : g = req[s].grant
    BY DEF PacePoll, PollExchange, Inv, RequestInv, Sound
<1>2. CASE PacePoll(s)
  <2>1. /\ family' = family /\ TypeOK
        /\ grant' = grant \/ grant' = [grant EXCEPT ![g].locked = TRUE]
      BY <1>1, <1>2 DEF PacePoll, tokens, Inv
  <2>2. \A h \in Grants : grant'[h].state = grant[h].state
      BY <2>1, GrantFieldHidden
  <2> QED BY <2>1, <2>2, HiddenChange DEF Current
<1>3. CASE PollExchange(s)
  <2>1. CASE PollVerdict(g) = "exchange"
    <3>1. CommitFirstExchange(g) /\ stale' = stale
        BY <1>1, <1>3, <2>1 DEF PollExchange
    <3>2. grant[g].state = "approved"
        BY <2>1, VerdictShape
    <3>3. /\ Born(g)' /\ family'[g].state = "active" /\ Current(g)' = 1
          /\ \A h \in Grants : h # g => grant'[h] = grant[h] /\ family'[h] = family[h]
        BY <3>1, <3>2, ExchangeRows
    <3>4. From(g, "open", "live")
        BY <3>2, <3>3 DEF Stages, From
    <3>5. \A h \in Grants : h # g => Stays(h)
        BY <3>3, StayShape DEF Current
    <3> QED BY <3>3, <3>4, <3>5, OneMoves
  <2>2. CASE PollVerdict(g) # "exchange"
    <3>1. UNCHANGED <<grant, family>>
        BY <1>1, <1>3, <2>2 DEF PollExchange, tokens
    <3> QED BY <3>1, FamilyAndGrantSame
  <2> QED BY <2>1, <2>2
<1> QED BY <1>2, <1>3

LEMMA RefreshContract ==
    ASSUME Inv, Stages, Stages', NEW s \in Slots, RefreshRotation(s) PROVE ContractStep
<1>1. PICK g \in Grants : g = req[s].grant
    BY DEF RefreshRotation, Inv, RequestInv, Sound
<1>2. PICK n \in 0 .. MaxGeneration : n = req[s].generation
    BY TypedRequest DEF Inv
<1>3. PICK id \in Rotations \cup {0} : id = req[s].rotation
    BY TypedRequest DEF Inv
<1>4. PICK kind : kind = ClassifyPresentation(g, n, id)
    OBVIOUS
<1>5. /\ req[s].kind = "refresh" /\ (kind = "rotate" => n < MaxGeneration) /\ grant' = grant
      /\ stale' = [stale EXCEPT ![g] = @ \/ n + 1 < family[g].generation]
      /\ kind = "rotate" => CommitNewRotation(g, n, id)
      /\ kind = "replay" => ReplayRotation
      /\ kind = "reuse" => RevokeForReuse(g)
    BY <1>1, <1>2, <1>3, <1>4 DEF RefreshRotation
<1>6. /\ TypeOK /\ Born(g) /\ 1 <= n /\ n <= Current(g) /\ id \in Rotations /\ n \in Generations
    BY <1>1, <1>2, <1>3, <1>5 DEF Inv, RequestInv, Sound, Generations
<1>7. /\ kind \in {"rotate", "replay", "reuse"}
      /\ kind = "rotate" => family[g].state = "active" /\ Current(g) = n
    BY <1>4, <1>6, ClassifyShape
<1>8. \A h \in Grants : stale[h] => stale'[h]
    BY <1>5, <1>6 DEF TypeOK
<1>9. CASE kind = "rotate"
  <2>1. /\ Current(g)' = n + 1 /\ family'[g].state = "active"
        /\ \A h \in Grants : h # g => refresh'[h] = refresh[h] /\ family'[h] = family[h]
      BY <1>5, <1>6, <1>7, <1>8, <1>9, RotationRows
  <2>2. From(g, "live", "live") /\ Current(g)' = Current(g) + 1
      BY <1>5, <1>6, <1>7, <1>9, <2>1 DEF Stages, From, Born
  <2>3. \A h \in Grants : h # g => Stays(h)
      BY <1>5, <2>1, StayShape DEF Current
  <2> QED BY <2>2, <2>3, OneMoves
<1>10. CASE kind = "replay"
    BY <1>5, <1>10, FamilyAndGrantSame DEF ReplayRotation, tokens
<1>11. CASE kind = "reuse"
    BY <1>5, <1>6, <1>11, ReuseContract
<1> QED BY <1>7, <1>9, <1>10, <1>11

LEMMA RevokeContract ==
    ASSUME Inv, Stages, Stages', NEW s \in Slots, RevokeCurrentRefresh(s) PROVE ContractStep
<1>1. PICK g \in Grants : g = req[s].grant
    BY DEF RevokeCurrentRefresh, Inv, RequestInv, Sound
<1>2. /\ req[s].kind = "revoke" /\ grant' = grant
      /\ \/ UNCHANGED tokens
         \/ RevokeForReuse(g)
         \/ family' = RevokedFamily(g, "self_revoked")
    BY <1>1 DEF RevokeCurrentRefresh
<1>3. Born(g) /\ TypeOK
    BY <1>1, <1>2 DEF Inv, RequestInv, Sound
<1>4. CASE UNCHANGED tokens
    BY <1>2, <1>4, FamilyAndGrantSame DEF tokens
<1>5. CASE RevokeForReuse(g)
    BY <1>2, <1>3, <1>5, ReuseContract
<1>6. CASE family' = RevokedFamily(g, "self_revoked")
  <2>1. family'[g].state = "revoked" /\ family'[g].generation = family[g].generation
           /\ \A h \in Grants : h # g => family'[h] = family[h]
      BY <1>3, <1>6, RevokedShape
  <2>2. Born(g)' /\ Current(g)' = Current(g)
      BY <1>2, <1>3, <2>1 DEF Born, Current
  <2> QED BY <1>2, <1>3, <2>1, <2>2, EndContract
<1> QED BY <1>2, <1>4, <1>5, <1>6

\* What the plugin does by itself changes no row but a new grant's.
LEMMA PluginQuiet ==
    ASSUME PluginStep, ~StartLogin PROVE UNCHANGED <<grant, device, family>>
BY DEF PluginStep, Startup, PersistSetting, Poll, FinishLogin, CancelLogin, Refresh, Disconnect,
       OnPoll, OnRefresh, OnDisconnect, tokens

LEMMA NextContract ==
    ASSUME Inv, Inv', [Next]_vars PROVE ContractStep
<1>1. Stages
    BY StagesHold
<1>2. Stages'
    BY StagesHold, PTL
<1> USE <1>1, <1>2
<1>3. CASE UNCHANGED vars \/ Crash \/ Exhausted
    BY <1>3, FamilyAndGrantSame DEF vars, tokens, Crash, Exhausted
<1>4. CASE PluginStep
    BY <1>4, LoginContract, PluginQuiet, FamilyAndGrantSame
<1>5. ASSUME NEW g \in Grants, ApproveGrant(g) \/ DenyGrant(g) \/ AdminRevokeDevice(g)
      PROVE ContractStep
    BY <1>5, TransitionContract, AdminContract DEF ApproveGrant, DenyGrant
<1>6. ASSUME NEW g \in Grants, GrantExpires(g) \/ PollWindowOpens(g) PROVE ContractStep
  <2>1. family' = family /\ TypeOK
        /\ (grant' = [grant EXCEPT ![g].locked = FALSE] \/ grant' = [grant EXCEPT ![g].expired = TRUE])
      BY <1>6 DEF GrantExpires, PollWindowOpens, tokens, Inv
  <2>2. \A h \in Grants : grant'[h].state = grant[h].state
      BY <2>1, GrantFieldHidden
  <2> QED BY <2>1, <2>2, HiddenChange DEF Current
<1>7. ASSUME NEW g \in Grants, FamilyExpires(g) PROVE ContractStep
    BY <1>7, FamilyExpiresContract
<1>8. ASSUME NEW g \in Grants, NEW n \in Generations, AccessExpires(g, n) PROVE ContractStep
    BY <1>8, FamilyAndGrantSame DEF AccessExpires
<1>9. ASSUME NEW s \in Slots, ServerStep(s) PROVE ContractStep
    BY <1>9, PollContract, RefreshContract, RevokeContract DEF ServerStep, ExchangeGrant
<1>10. ASSUME NEW s \in Slots, NoAnswer(s) PROVE ContractStep
    BY <1>10, FamilyAndGrantSame DEF NoAnswer, tokens
<1> QED BY <1>3, <1>4, <1>5, <1>6, <1>7, <1>8, <1>9, <1>10 DEF Next, Owner, Time

LEMMA InitContract == Init => Contract!Init
<1> SUFFICES ASSUME Init PROVE Contract!Init
    OBVIOUS
<1>1. \A g \in Grants : grant[g].state = "none" /\ family[g].generation = 0
    BY DEF Init, NoGrant, NoFamily
<1>2. \A g \in Grants : Stage(g) = "none"
    BY <1>1 DEF Stage
<1> QED BY <1>1, <1>2 DEF Contract!Init

\* The stores, the plugin and the faults between them keep the contract of the ports: a
\* grant is decided once and becomes at most one family, the family advances generation
\* by generation, and what has ended never comes back.
THEOREM ContractImplemented == Spec => ImplementsContract
<1>1. Inv /\ Inv' /\ [Next]_vars => [Contract!Next]_(Contract!vars)
    BY NextContract DEF ContractStep
<1> QED BY <1>1, InvHolds, InitContract, PTL DEF Spec, ImplementsContract, Contract!Spec

-------------------------------------------------------------------------------
(* What a step may never do.                                               *)

LEMMA DecisionStep ==
    ASSUME Inv, Inv', [Next]_vars, NEW g \in Grants
    PROVE  /\ grant[g].state = "denied" => grant'[g].state = "denied" /\ device'[g] = "none"
           /\ grant[g].state = "exchanged" => grant'[g].state = "exchanged"
<1>1. Stages
    BY StagesHold
<1>2. Stages'
    BY StagesHold, PTL
<1>3. ContractStep
    BY NextContract
<1>4. \/ \A h \in Grants : Stays(h)
      \/ \E h \in Grants :
            /\ Contract!Open(h) \/ Contract!Provision(h) \/ Contract!Rotate(h)
               \/ Contract!End(h) \/ Contract!Same(h) \/ Contract!Deny(h)
            /\ \A k \in Grants \ {h} : Contract!Same(k) \/ Contract!Deny(k)
  <2>1. UNCHANGED Contract!vars => \A h \in Grants : Stays(h)
      BY DEF Contract!vars, Stays, Current
  <2> QED BY <1>3, <2>1 DEF ContractStep, Contract!Next, Contract!Step, Contract!Revoke
<1>5. /\ Stage(g) = "denied" => Stage(g)' = "denied"
      /\ Stage(g) \in {"live", "ended"} => Stage(g)' \in {"live", "ended"}
  <2>1. CASE \A h \in Grants : Stays(h)
      BY <2>1 DEF Stays
  <2>2. ASSUME NEW h \in Grants,
               \/ Contract!Open(h) \/ Contract!Provision(h) \/ Contract!Rotate(h)
               \/ Contract!End(h) \/ Contract!Same(h) \/ Contract!Deny(h),
               \A k \in Grants \ {h} : Contract!Same(k) \/ Contract!Deny(k)
        PROVE /\ Stage(g) = "denied" => Stage(g)' = "denied"
              /\ Stage(g) \in {"live", "ended"} => Stage(g)' \in {"live", "ended"}
    <3>1. CASE h = g
        BY <2>2, <3>1, ContractTerms DEF Stays, From
    <3>2. CASE h # g
        BY <2>2, <3>2, ContractTerms DEF Stays, From
    <3> QED BY <3>1, <3>2
  <2> QED BY <1>4, <2>1, <2>2
<1>6. grant[g].state = "denied" => grant'[g].state = "denied"
    BY <1>1, <1>2, <1>5 DEF Stages
<1>7. grant[g].state = "exchanged" => grant'[g].state = "exchanged"
    BY <1>1, <1>2, <1>5 DEF Stages, Born
<1>8. grant'[g].state = "denied" => device'[g] = "none"
    BY DEF Inv, Rows, RowInv, Unborn, Born
<1> QED BY <1>6, <1>7, <1>8

\* Only the owner's revocation ends a device and names itself as the reason.
LEMMA ReuseIsNotAdmin ==
    ASSUME TypeOK, NEW g \in Grants, NEW h \in Grants, RevokeForReuse(h),
           device[g] = "active", device'[g] = "revoked"
    PROVE  family'[g].reason = "token_reuse"
<1>1. family[h].state # "revoked"
    BY DEF RevokeForReuse, tokens
<1>2. family' = RevokedFamily(h, "token_reuse") /\ device' = [device EXCEPT ![h] = "revoked"]
    BY <1>1 DEF RevokeForReuse
<1>3. h = g
    BY <1>2 DEF TypeOK
<1> QED BY <1>2, <1>3, RevokedShape

LEMMA ClaimsStep ==
    ASSUME Inv, [Next]_vars, NEW g \in Grants, device[g] = "active", device'[g] = "revoked",
           family'[g].reason = "admin_revoked", NEW h \in Grants, grant[h].claimed = g
    PROVE  grant'[h].state \notin {"pending", "approved"}
<1>1. TypeOK
    BY DEF Inv
<1>2. device' # device
    OBVIOUS
<1>3. ASSUME NEW k \in Grants, AdminRevokeDevice(k)
      PROVE grant'[h].state \notin {"pending", "approved"}
  <2>1. k = g
      BY <1>1, <1>3 DEF AdminRevokeDevice, TypeOK
  <2>2. grant'[h] = IF grant[h].claimed = g /\ grant[h].state \in {"pending", "approved"}
                    THEN [grant[h] EXCEPT !.state = "denied", !.denied = TRUE] ELSE grant[h]
      BY <1>3, <2>1 DEF AdminRevokeDevice, DenyClaims
  <2>3. grant[h] \in GrantRows
      BY <1>1, TypedFamily
  <2> QED BY <2>2, <2>3 DEF GrantRows
<1>4. ASSUME NEW s \in Slots, RefreshRotation(s) PROVE FALSE
  <2>1. PICK k \in Grants : k = req[s].grant
      BY <1>4 DEF RefreshRotation, Inv, RequestInv, Sound
  <2>2. PICK n \in 0 .. MaxGeneration : n = req[s].generation
      BY <1>1, TypedRequest
  <2>3. PICK id \in Rotations \cup {0} : id = req[s].rotation
      BY <1>1, TypedRequest
  <2>4. Born(k) /\ n <= Current(k) /\ n \in Generations
      BY <1>4, <2>1, <2>2 DEF RefreshRotation, Inv, RequestInv, Sound, Generations
  <2>5. ClassifyPresentation(k, n, id) \in {"rotate", "replay", "reuse"}
      BY <2>4, ClassifyShape
  <2>6. device' = device \/ RevokeForReuse(k)
      BY <1>4, <2>1, <2>2, <2>3, <2>5
         DEF RefreshRotation, CommitNewRotation, ReplayRotation, tokens
  <2> QED BY <1>1, <1>2, <2>6, ReuseIsNotAdmin
<1>5. ASSUME NEW s \in Slots, RevokeCurrentRefresh(s) PROVE FALSE
  <2>1. PICK k \in Grants : k = req[s].grant
      BY <1>5 DEF RevokeCurrentRefresh, Inv, RequestInv, Sound
  <2>2. device' = device \/ RevokeForReuse(k)
      BY <1>5, <2>1 DEF RevokeCurrentRefresh, tokens
  <2> QED BY <1>1, <1>2, <2>2, ReuseIsNotAdmin
<1>6. ASSUME NEW s \in Slots, PollExchange(s) PROVE FALSE
  <2>1. PICK k \in Grants : k = req[s].grant
      BY <1>6 DEF PollExchange, Inv, RequestInv, Sound
  <2>2. device' = device \/ device' = [device EXCEPT ![k] = "active"]
      BY <1>6, <2>1 DEF PollExchange, CommitFirstExchange, tokens
  <2> QED BY <1>1, <2>2 DEF TypeOK
<1>7. ~PluginStep
  <2>1. StartLogin => device' = device
      BY DEF StartLogin, tokens
  <2> QED BY <1>2, <2>1, PluginQuiet
<1>8. ~UNCHANGED vars /\ ~Crash /\ ~Exhausted
    BY <1>2 DEF vars, tokens, Crash, Exhausted
<1>9. \A k \in Grants :
         /\ ~ApproveGrant(k) /\ ~DenyGrant(k) /\ ~GrantExpires(k) /\ ~PollWindowOpens(k)
         /\ ~FamilyExpires(k) /\ \A n \in Generations : ~AccessExpires(k, n)
    BY <1>2 DEF ApproveGrant, DenyGrant, TerminalTransition, GrantExpires, PollWindowOpens,
                FamilyExpires, AccessExpires, tokens
<1>10. \A s \in Slots : ~PacePoll(s) /\ ~NoAnswer(s)
    BY <1>2 DEF PacePoll, NoAnswer, tokens
<1> QED BY <1>3, <1>4, <1>5, <1>6, <1>7, <1>8, <1>9, <1>10
        DEF Next, Owner, Time, ServerStep, ExchangeGrant

\* A denied grant never becomes a device and an exchanged one is never taken back; with a
\* device the owner revokes, every grant that claimed to be that device is closed.
THEOREM DeviceStepsHold == Spec => DeviceSteps
<1>1. Inv /\ Inv' /\ [Next]_vars =>
         [\A g \in Grants :
             /\ grant[g].state = "denied" => grant'[g].state = "denied" /\ device'[g] = "none"
             /\ grant[g].state = "exchanged" => grant'[g].state = "exchanged"]_vars
    BY DecisionStep
<1>2. Inv /\ [Next]_vars =>
         [\A g \in Grants : device[g] = "active" /\ device'[g] = "revoked"
                            /\ family'[g].reason = "admin_revoked"
             => \A h \in Grants : grant[h].claimed = g
                   => grant'[h].state \notin {"pending", "approved"}]_vars
    BY ClaimsStep
<1> QED BY <1>1, <1>2, InvHolds, PTL DEF Spec, DeviceSteps, DecisionStands, ClaimsDieWithDevice
=============================================================================
