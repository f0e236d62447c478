------------------------ MODULE SmallFileUploadProofs ------------------------
(***************************************************************************)
(* SmallFileUpload keeps what it promises, whatever the number of requests *)
(* at the server, of faults and of policy revisions.                       *)
(*                                                                         *)
(* SmallSafe is not inductive: it speaks of closed events and of the row,  *)
(* and both depend on what the requests on their way carry. Inv adds what  *)
(* a request has learned at each of its stages: the revision it is bound   *)
(* to was authorized, an answer "result" was given on a closed row, and an *)
(* orphan has no answer anybody reads.                                     *)
(***************************************************************************)
EXTENDS SmallFileUpload, TLAPS

PreflightStages == {"authorize", "frozen", "captured", "base", "reserve", "reserve_conflict",
                    "reserve_unchanged", "unchanged"}
ReceiveStages   == {"resolve", "store", "publish", "record", "reject"}
CaptureStages   == {"resolve", "store", "observe", "capture", "reject"}

Answers == Errors \cup {"none", "excluded", "result", "conflict", "grant", "capture_grant",
                        "expired", "captured"}

Requests ==
    [kind : {"free", "preflight", "receive", "capture"},
     pc : PreflightStages \cup ReceiveStages \cup CaptureStages \cup {"done"},
     token : Tokens \cup {0}, revision : 0 .. MaxRevision, answer : Answers]

EventRows  == [state : EventStates, operation : Tokens \cup {0}, receipt : 0 .. MaxVersion]
PassStates == [waits : Slots \cup {0}, seen : EventStates \cup {"none"}, barrier : BOOLEAN]

Types ==
    /\ kind \in {"create", "update", "unchanged"}
    /\ row \in Rows(Tokens, Revisions, Versions)
    /\ revision \in Revisions /\ excluded \in BOOLEAN
    /\ source \in [version : 0 .. MaxVersion, gone : BOOLEAN]
    /\ published \in 0 .. MaxVersion /\ captured \in BOOLEAN
    /\ req \in [Slots -> Requests]
    /\ event \in EventRows
    /\ pass \in PassStates
    /\ file \in {"frozen", "changed", "missing"}

USE SlotsAssumption, BoundsAssumption

\* The row is absent or one its table admits; the revision it is bound to allowed the
\* file; and it is closed by the publication, or by the verdict that nothing changed.
RowInv ==
    /\ row = Absent \/ OperationRow(row)
    /\ row.revision <= revision
    /\ row.revision = revision => ~excluded
    /\ Terminal(row) => IF kind = "unchanged"
                        THEN ~row.changed /\ row.result = Base
                        ELSE row.changed /\ row.result = published
    /\ published # 0 => kind # "unchanged" /\ Terminal(row)

\* What a request has learned, by its stage.
Staged(s) ==
    /\ req[s].kind = "free" => req[s] = Free
    /\ req[s].kind = "preflight" => req[s].pc \in PreflightStages \cup {"done"}
    /\ req[s].kind = "receive" => req[s].pc \in ReceiveStages \cup {"done"}
    /\ req[s].kind = "capture" => req[s].pc \in CaptureStages \cup {"done"}
    /\ req[s].revision <= revision
    /\ req[s].revision = revision => ~excluded
    /\ req[s].pc \notin {"authorize", "resolve", "done"} => req[s].revision # 0
    /\ req[s].kind \in {"receive", "capture"} => req[s].token # 0
    /\ req[s].kind = "receive" => kind # "unchanged"
    /\ req[s].pc \in {"reserve_unchanged", "unchanged"} => kind = "unchanged"
    /\ req[s].pc = "reserve" => kind # "unchanged"
    /\ req[s].pc = "record" => published # 0
    /\ req[s].pc = "reject" => req[s].answer \in Errors

\* What an answer says is so, and stays so.
Answered(s) ==
    /\ req[s].kind # "free" /\ req[s].pc = "done" => pass.waits = s
    /\ req[s].answer = "integrity" => pass.waits # s
    /\ req[s].answer = "result" => Terminal(row)
    /\ req[s].answer \in {"conflict", "captured"} => captured
    /\ req[s].answer = "occupied" => kind = "create"
    /\ req[s].answer = "mismatch" => revision > 1
    /\ req[s].answer = "grant" => kind # "unchanged"
    /\ req[s].answer \in {"grant", "capture_grant"} => req[s].token # 0

RequestsInv == \A s \in Slots : Staged(s) /\ Answered(s)

\* The journal event on the device.
EventInv ==
    /\ pass.waits # 0 => ~Closed
    /\ kind = "unchanged" => event.operation = 0
    /\ event.state = "committed" => published # 0 /\ event.receipt = published
    /\ event.state = "no_change" => kind = "unchanged" /\ event.receipt = Base
    /\ ConflictRetained
    /\ IntegrityVerdict

Inv == Types /\ RowInv /\ RequestsInv /\ EventInv
-------------------------------------------------------------------------------
(* What every step has in common: verdicts, results and conflicts stay, and a *)
(* revision keeps its meaning. A step works on one request.                   *)

Grows ==
    /\ kind' = kind
    /\ revision' \in Revisions /\ revision <= revision'
    /\ revision' = revision => excluded' = excluded
    /\ captured => captured'
    /\ published # 0 => published' = published
    /\ Terminal(row) => Terminal(row')

Others(s) == \A t \in Slots : t # s => req'[t] = req[t]

Waiting(s) == pass'.waits = pass.waits \/ (pass.waits \in {0, s} /\ pass'.waits \in {0, s})

\* Another request keeps what it has learned.
LEMMA OtherKept ==
    ASSUME Types, NEW t \in Slots, Staged(t), Answered(t), Grows, req'[t] = req[t],
           pass'.waits = t <=> pass.waits = t
    PROVE  Staged(t)' /\ Answered(t)'
<1>1. /\ req[t] \in Requests /\ revision \in Nat /\ revision' \in Nat /\ req[t].revision \in Nat
    BY DEF Types, Requests, Grows, Revisions
<1>2. Staged(t)'
  <2>1. req[t].revision <= revision' /\ (req[t].revision = revision' => ~excluded')
      BY <1>1 DEF Staged, Grows
  <2>2. req[t].pc = "record" => published' # 0
      BY <1>1 DEF Staged, Grows
  <2> QED BY <2>1, <2>2 DEF Staged, Grows
<1>3. Answered(t)'
  <2>1. Terminal(row)' <=> Terminal(row')
      BY DEF Terminal
  <2>2. req[t].answer = "mismatch" => revision' > 1
      BY <1>1 DEF Answered, Grows
  <2> QED BY <2>1, <2>2 DEF Answered, Grows
<1> QED BY <1>2, <1>3

LEMMA RequestsKept ==
    ASSUME Types, RequestsInv, NEW s \in Slots, Grows, Others(s), Waiting(s),
           pass.waits \in {0, s} \/ pass'.waits = pass.waits,
           Staged(s)', Answered(s)'
    PROVE  RequestsInv'
<1> SUFFICES ASSUME NEW t \in Slots, t # s PROVE Staged(t)' /\ Answered(t)'
    BY DEF RequestsInv
<1>1. pass'.waits = t <=> pass.waits = t
    BY DEF Waiting
<1> QED BY <1>1, OtherKept DEF RequestsInv, Others

LEMMA RequestsSame ==
    ASSUME Types, RequestsInv, Grows, req' = req, pass' = pass
    PROVE  RequestsInv'
<1> SUFFICES ASSUME NEW t \in Slots PROVE Staged(t)' /\ Answered(t)'
    BY DEF RequestsInv
<1> QED BY OtherKept DEF RequestsInv

\* A step that leaves the journal event alone.
LEMMA EventSame ==
    ASSUME Types, RowInv, EventInv, Grows, event' = event, pass'.waits \in {0, pass.waits},
           file # "frozen" => file' # "frozen"
    PROVE  EventInv'
<1>1. revision \in Nat /\ revision' \in Nat
    BY DEF Types, Grows, Revisions
<1>2. IntegrityVerdict'
    BY <1>1 DEF EventInv, IntegrityVerdict, Grows
<1>3. ConflictRetained'
    BY DEF EventInv, ConflictRetained, Grows
<1>4. event.state = "committed" => published' # 0 /\ event.receipt = published'
    BY DEF EventInv, Grows
<1> QED BY <1>2, <1>3, <1>4 DEF EventInv, Grows, Closed, Pending

\* The three ways a step moves its request.
LEMMA GotoKept ==
    ASSUME Types, RequestsInv, NEW s \in Slots, req[s].kind # "free", NEW p,
           p \in PreflightStages \cup ReceiveStages \cup CaptureStages,
           Goto(s, p), Grows, pass' = pass, req[s].revision # 0,
           req[s].kind = "preflight" => p \in PreflightStages,
           req[s].kind = "receive" => p \in ReceiveStages,
           req[s].kind = "capture" => p \in CaptureStages,
           req[s].answer \notin {"integrity"} \/ pass.waits # s,
           p \in {"reserve_unchanged", "unchanged"} => kind = "unchanged",
           p = "reserve" => kind # "unchanged",
           p = "record" => published' # 0,
           p # "reject"
    PROVE  RequestsInv' /\ req' \in [Slots -> Requests]
<1>1. req[s] \in Requests /\ req \in [Slots -> Requests] /\ Staged(s) /\ Answered(s)
    BY DEF Types, RequestsInv
<1>2. req' = [req EXCEPT ![s].pc = p]
    BY DEF Goto
<1>3. /\ req'[s].pc = p /\ req'[s].kind = req[s].kind /\ req'[s].token = req[s].token
      /\ req'[s].revision = req[s].revision /\ req'[s].answer = req[s].answer
    BY <1>1, <1>2 DEF Requests
<1>4. req' \in [Slots -> Requests]
    BY <1>1, <1>2 DEF Requests
<1>5. Others(s) /\ Waiting(s)
    BY <1>1, <1>2 DEF Others, Waiting
<1>6. revision \in Nat /\ revision' \in Nat /\ req[s].revision \in Nat
    BY <1>1 DEF Types, Grows, Revisions, Requests
<1>7. req[s].revision <= revision' /\ (req[s].revision = revision' => ~excluded')
    BY <1>1, <1>6 DEF Staged, Grows
<1>8. Staged(s)'
    BY <1>1, <1>3, <1>7 DEF Staged, Grows, PreflightStages, ReceiveStages, CaptureStages
<1>9. Answered(s)'
  <2>1. Terminal(row)' <=> Terminal(row')
      BY DEF Terminal
  <2>2. req[s].answer = "mismatch" => revision' > 1
      BY <1>1, <1>6 DEF Answered, Grows
  <2> QED BY <1>1, <1>3, <2>1, <2>2 DEF Answered, Grows, PreflightStages, ReceiveStages, CaptureStages
<1> QED BY <1>4, <1>5, <1>8, <1>9, RequestsKept
\* What an answer a request may give has to be true when it is given.
Truthful(s, a) ==
    /\ a \in Answers \ {"none", "grant", "capture_grant"}
    /\ a = "integrity" => pass.waits # s
    /\ a = "result" => Terminal(row')
    /\ a \in {"conflict", "captured"} => captured'
    /\ a = "occupied" => kind = "create"
    /\ a = "mismatch" => revision' > 1

LEMMA AnswerKept ==
    ASSUME Types, RequestsInv, NEW s \in Slots, req[s].kind # "free", NEW a,
           Answer(s, a), Truthful(s, a), Grows, pass' = pass
    PROVE  RequestsInv' /\ req' \in [Slots -> Requests]
<1>1. req[s] \in Requests /\ req \in [Slots -> Requests] /\ Staged(s) /\ Answered(s)
    BY DEF Types, RequestsInv
<1>2. Free \in Requests /\ Free.kind = "free" /\ Free.pc = "done" /\ Free.revision = 0
          /\ Free.answer = "none"
    BY DEF Free, Requests, Answers
<1>3. Others(s) /\ Waiting(s)
    BY <1>1 DEF Answer, Others, Waiting
<1>4. revision \in Nat /\ revision' \in Nat /\ revision' # 0 /\ req[s].revision \in Nat
    BY <1>1 DEF Types, Grows, Revisions, Requests
<1>5. CASE pass.waits = s
  <2>1. PICK q \in Requests : q = [req[s] EXCEPT !.pc = "done", !.answer = a]
      BY <1>1 DEF Requests, Truthful
  <2>2. req' = [req EXCEPT ![s] = q]
      BY <1>5, <2>1 DEF Answer
  <2>3. req'[s] = q /\ req' \in [Slots -> Requests]
      BY <1>1, <2>2
  <2>4. /\ q.pc = "done" /\ q.answer = a /\ q.kind = req[s].kind
        /\ q.token = req[s].token /\ q.revision = req[s].revision
      BY <1>1, <2>1 DEF Requests
  <2>5. req[s].revision <= revision' /\ (req[s].revision = revision' => ~excluded')
      BY <1>1, <1>4 DEF Staged, Grows
  <2>6. Staged(s)'
      BY <1>1, <2>3, <2>4, <2>5 DEF Staged, Grows
  <2>7. Terminal(row)' <=> Terminal(row')
      BY DEF Terminal
  <2>8. Answered(s)'
      BY <1>1, <1>5, <2>3, <2>4, <2>7 DEF Answered, Truthful, Grows
  <2> QED BY <1>3, <2>3, <2>6, <2>8, RequestsKept
<1>6. CASE pass.waits # s
  <2>1. req' = [req EXCEPT ![s] = Free]
      BY <1>6 DEF Answer
  <2>2. req'[s] = Free /\ req' \in [Slots -> Requests]
      BY <1>1, <1>2, <2>1
  <2>3. Staged(s)' /\ Answered(s)'
      BY <1>2, <1>4, <2>2 DEF Staged, Answered
  <2> QED BY <1>3, <2>2, <2>3, RequestsKept
<1> QED BY <1>5, <1>6

\* A grant carries the token it grants.
LEMMA GrantKept ==
    ASSUME Types, RequestsInv, NEW s \in Slots, req[s].kind = "preflight",
           NEW a \in {"grant", "capture_grant"}, NEW t \in Tokens, t # 0,
           AnswerToken(s, a, t), a = "grant" => kind # "unchanged", Grows, pass' = pass
    PROVE  RequestsInv' /\ req' \in [Slots -> Requests]
<1>1. req[s] \in Requests /\ req \in [Slots -> Requests] /\ Staged(s) /\ Answered(s)
    BY DEF Types, RequestsInv
<1>2. Free \in Requests /\ Free.kind = "free" /\ Free.pc = "done" /\ Free.revision = 0
          /\ Free.answer = "none"
    BY DEF Free, Requests, Answers
<1>3. Others(s) /\ Waiting(s)
    BY <1>1 DEF AnswerToken, Others, Waiting
<1>4. revision \in Nat /\ revision' \in Nat /\ revision' # 0 /\ req[s].revision \in Nat
    BY <1>1 DEF Types, Grows, Revisions, Requests
<1>5. CASE pass.waits = s
  <2>1. PICK p \in Requests : p = [req[s] EXCEPT !.pc = "done"]
      BY <1>1 DEF Requests
  <2>1a. PICK r \in Requests : r = [p EXCEPT !.answer = a]
      BY DEF Requests, Answers
  <2>2. PICK q \in Requests : q = [r EXCEPT !.token = t]
      BY DEF Requests
  <2>2a. q = [req[s] EXCEPT !.pc = "done", !.answer = a, !.token = t]
      BY <2>1, <2>1a, <2>2
  <2>3. req' = [req EXCEPT ![s] = q]
      BY <1>1, <1>5, <2>2a DEF AnswerToken
  <2>4. req'[s] = q /\ req' \in [Slots -> Requests]
      BY <1>1, <2>2, <2>3
  <2>5. /\ q.pc = "done" /\ q.answer = a /\ q.kind = "preflight"
        /\ q.token = t /\ q.revision = req[s].revision
      BY <1>1, <2>1, <2>1a, <2>2 DEF Requests
  <2>6. req[s].revision <= revision' /\ (req[s].revision = revision' => ~excluded')
      BY <1>1, <1>4 DEF Staged, Grows
  <2>7. Staged(s)'
      BY <1>1, <2>4, <2>5, <2>6 DEF Staged, Grows
  <2>8. Answered(s)'
      BY <1>1, <1>5, <2>4, <2>5 DEF Answered, Grows
  <2> QED BY <1>3, <2>4, <2>7, <2>8, RequestsKept
<1>6. CASE pass.waits # s
  <2>1. req' = [req EXCEPT ![s] = Free]
      BY <1>6 DEF AnswerToken
  <2>2. req'[s] = Free /\ req' \in [Slots -> Requests]
      BY <1>1, <1>2, <2>1
  <2>3. Staged(s)' /\ Answered(s)'
      BY <1>2, <1>4, <2>2 DEF Staged, Answered
  <2> QED BY <1>3, <2>2, <2>3, RequestsKept
<1> QED BY <1>5, <1>6

\* A request that learns a token or a revision on its way.
LEMMA LearnsKept ==
    ASSUME Types, RequestsInv, NEW s \in Slots, req[s].kind # "free", NEW q \in Requests,
           req' = [req EXCEPT ![s] = q], q.kind = req[s].kind, q.answer = req[s].answer,
           q.token # 0 \/ q.token = req[s].token,
           Staged(s)', Grows, pass' = pass, q.pc # "done"
    PROVE  RequestsInv' /\ req' \in [Slots -> Requests]
<1>1. req \in [Slots -> Requests] /\ Answered(s) /\ req'[s] = q
    BY DEF Types, RequestsInv
<1>2. Others(s) /\ Waiting(s) /\ req' \in [Slots -> Requests]
    BY <1>1 DEF Others, Waiting
<1>3. Terminal(row)' <=> Terminal(row')
    BY DEF Terminal
<1>4. Answered(s)'
  <2>1. revision \in Nat /\ revision' \in Nat
      BY DEF Types, Grows, Revisions
  <2>2. q.answer = "mismatch" => revision' > 1
      BY <1>1, <2>1 DEF Answered, Grows
  <2>3. q.answer \in {"grant", "capture_grant"} => q.token # 0
      BY <1>1 DEF Answered
  <2> QED BY <1>1, <1>3, <2>2, <2>3 DEF Answered, Grows
<1> QED BY <1>2, <1>4, RequestsKept

\* A rejection is closed by the row first; its reason becomes the answer.
LEMMA RejectKept ==
    ASSUME Types, RequestsInv, NEW s \in Slots, req[s].kind \in {"receive", "capture"}, NEW a,
           Reject(s, a), a \in Errors, Truthful(s, a), Grows, pass' = pass,
           req[s].revision # 0
    PROVE  RequestsInv' /\ req' \in [Slots -> Requests]
<1>1. req[s] \in Requests /\ req \in [Slots -> Requests] /\ Staged(s) /\ Answered(s)
    BY DEF Types, RequestsInv
<1>2. PICK q \in Requests : q = [req[s] EXCEPT !.pc = "reject", !.answer = a]
    BY <1>1 DEF Requests, Truthful, ReceiveStages
<1>3. req' = [req EXCEPT ![s] = q]
    BY <1>1, <1>2 DEF Reject
<1>4. /\ req'[s] = q /\ req' \in [Slots -> Requests]
      /\ q.pc = "reject" /\ q.answer = a /\ q.kind = req[s].kind
      /\ q.token = req[s].token /\ q.revision = req[s].revision
    BY <1>1, <1>2, <1>3 DEF Requests
<1>5. Others(s) /\ Waiting(s)
    BY <1>1, <1>3 DEF Others, Waiting
<1>6. revision \in Nat /\ revision' \in Nat /\ req[s].revision \in Nat
    BY <1>1 DEF Types, Grows, Revisions, Requests
<1>7. req[s].revision <= revision' /\ (req[s].revision = revision' => ~excluded')
    BY <1>1, <1>6 DEF Staged, Grows
<1>8. Staged(s)'
    BY <1>1, <1>4, <1>7 DEF Staged, Grows, ReceiveStages, CaptureStages
<1>9. Terminal(row)' <=> Terminal(row')
    BY DEF Terminal
<1>10. Answered(s)'
    BY <1>1, <1>4, <1>9 DEF Answered, Truthful, Grows, Errors
<1> QED BY <1>4, <1>5, <1>8, <1>10, RequestsKept

-------------------------------------------------------------------------------
(* The row.                                                                *)

\* The row keeps its invariant while nothing but the row moves.
RowMoves == UNCHANGED <<kind, revision, excluded, published>>

LEMMA RowShape ==
    ASSUME Types, RowInv
    PROVE  /\ row.state \in OperationStates /\ row.token \in Tokens \cup {0}
           /\ row.revision \in Nat /\ row.result \in Versions \cup {0}
           /\ row.changed \in BOOLEAN
           /\ row.state = "absent" => row = Absent
           /\ row.state # "absent" => OperationRow(row)
BY DEF Types, RowInv, Rows, OperationRow, Absent, OperationStates, Revisions

LEMMA AbsentShape ==
    /\ Absent.state = "absent" /\ Absent.token = 0 /\ Absent.revision = 0
    /\ Absent.result = 0 /\ Absent.error = "none" /\ Absent.changed = FALSE
BY DEF Absent

LEMMA FreshExists ==
    ASSUME Types
    PROVE  FreshToken \in Tokens /\ FreshToken # 0
<1>1. row.token \in Tokens \cup {0} /\ event.operation \in Tokens \cup {0}
    BY DEF Types, EventRows, Rows
<1>2. [s \in Slots |-> req[s].token] \in [Slots -> Tokens \cup {0}]
    BY DEF Types, Requests
<1>3. PICK held \in [Slots -> Tokens \cup {0}] : held = [s \in Slots |-> req[s].token]
    BY <1>2
<1>4. PICK t \in Tokens : t # row.token /\ t # event.operation /\ \A s \in Slots : t # held[s]
  <2>1. \A a, b \in Tokens \cup {0} : \A h \in [Slots -> Tokens \cup {0}] :
           \E u \in Tokens : u # a /\ u # b /\ \A s \in Slots : u # h[s]
      BY TokensAssumption
  <2>2. \A b \in Tokens \cup {0} : \A h \in [Slots -> Tokens \cup {0}] :
           \E u \in Tokens : u # row.token /\ u # b /\ \A s \in Slots : u # h[s]
      BY <1>1, <2>1, Zenon
  <2>3. \A h \in [Slots -> Tokens \cup {0}] :
           \E u \in Tokens : u # row.token /\ u # event.operation /\ \A s \in Slots : u # h[s]
      BY <1>1, <2>2, Zenon
  <2> QED BY <1>3, <2>3, Zenon
<1>5. \A s \in Slots : t # req[s].token
    BY <1>3, <1>4
<1> QED BY <1>4, <1>5, TokensAssumption DEF FreshToken

\* A row that is not closed is not the result of a publication.
LEMMA OpenRow ==
    ASSUME Types, RowInv, ~Terminal(row)
    PROVE  published = 0
BY DEF RowInv

\* The ways a row moves without closing.
LEMMA RowReplaced ==
    ASSUME Types, RowInv, RowMoves, captured => captured', ~Terminal(row),
           row' \in Rows(Tokens, Revisions, Versions), OperationRow(row'),
           row'.state # "committed", row'.revision <= revision,
           row'.revision = revision => ~excluded
    PROVE  RowInv' /\ Grows
<1>1. published = 0
    BY OpenRow
<1>2. ~Terminal(row') /\ ~Terminal(row)'
    BY DEF Terminal
<1>3. OperationRow(row)'
    BY DEF OperationRow
<1>4. RowInv'
    BY <1>1, <1>2, <1>3 DEF RowInv, RowMoves
<1> QED BY <1>2, <1>4 DEF Grows, RowMoves, Types, Revisions

LEMMA RowUntouched ==
    ASSUME Types, RowInv, RowMoves, row' = row, captured => captured'
    PROVE  RowInv' /\ Grows
<1>1. RowInv'
    BY DEF RowInv, RowMoves, OperationRow, Terminal
<1> QED BY <1>1 DEF Grows, RowMoves, Types, Revisions

LEMMA ReserveKept ==
    ASSUME Types, RowInv, RowMoves, captured' = captured, NEW r \in 1 .. MaxRevision,
           r <= revision, r = revision => ~excluded, row' = Reserve(row, FreshToken, r)
    PROVE  /\ RowInv' /\ Grows /\ row' \in Rows(Tokens, Revisions, Versions)
           /\ ReserveGrants(row) => row'.token \in Tokens /\ row'.token # 0
<1>1. FreshToken \in Tokens /\ FreshToken # 0
    BY FreshExists
<1>2. row \in Rows(Tokens, Revisions, Versions)
    BY DEF Types
<1>3. CASE row.state = "committed"
  <2>1. row' = row
      BY <1>3 DEF Reserve
  <2> QED BY <1>2, <1>3, <2>1, RowUntouched DEF ReserveGrants
<1>4. CASE row.state = "absent"
  <2>1. row' = [Absent EXCEPT !.state = "pending", !.token = FreshToken, !.revision = r]
      BY <1>4 DEF Reserve, Insert
  <2>2. /\ row'.state = "pending" /\ row'.token = FreshToken /\ row'.revision = r
        /\ row'.result = 0 /\ row'.error = "none"
      BY <2>1 DEF Absent
  <2>3. row' = [state |-> "pending", token |-> FreshToken, revision |-> r, expired |-> FALSE,
                result |-> 0, changed |-> FALSE, error |-> "none"]
      BY <2>1 DEF Absent
  <2>3a. row' \in Rows(Tokens, Revisions, Versions)
      BY <1>1, <2>3 DEF Rows, OperationStates, Revisions, Errors
  <2>4. OperationRow(row')
      BY <1>1, <2>2 DEF OperationRow
  <2> QED BY <1>1, <1>4, <2>2, <2>3a, <2>4, RowReplaced DEF Terminal, Grows
<1>5. CASE row.state = "receiving"
  <2>1. row' = [row EXCEPT !.revision = r]
      BY <1>5 DEF Reserve, RebindRevision
  <2>2. row' \in Rows(Tokens, Revisions, Versions) /\ OperationRow(row) /\ row'.revision = r
      BY <1>2, <1>5, <2>1, RowShape DEF Rows, Revisions
  <2>3. OperationRow(row') /\ row'.state = "receiving"
      BY <1>2, <1>5, <2>1, <2>2 DEF OperationRow, Rows
  <2> QED BY <1>5, <2>2, <2>3, RowReplaced DEF Terminal, ReserveGrants, Grows
<1>6. CASE row.state \in {"pending", "failed"}
  <2>1. row' = RotateToken(row, FreshToken, r)
      BY <1>6 DEF Reserve
  <2>2. /\ row'.state = "pending" /\ row'.token = FreshToken /\ row'.revision = r
        /\ row'.result = row.result /\ row'.error = "none"
      BY <1>2, <2>1 DEF RotateToken, Rows
  <2>3. row' \in Rows(Tokens, Revisions, Versions)
      BY <1>1, <1>2, <2>1 DEF RotateToken, Rows, OperationStates, Revisions, Errors
  <2>4. OperationRow(row')
      BY <1>1, <1>6, <2>2, RowShape DEF OperationRow
  <2> QED BY <1>1, <1>6, <2>2, <2>3, <2>4, RowReplaced DEF Terminal, Grows
<1> QED BY <1>3, <1>4, <1>5, <1>6, RowShape DEF OperationStates

LEMMA ClaimKept ==
    ASSUME Types, RowInv, RowMoves, captured' = captured, NEW t, row' = ResolveClaims(row, t),
           t # 0
    PROVE  RowInv' /\ Grows /\ row' \in Rows(Tokens, Revisions, Versions)
<1>1. row \in Rows(Tokens, Revisions, Versions)
    BY DEF Types
<1>2. CASE Resolve(row, t) = "bound"
  <2>1. row.token = t /\ row.state \in {"pending", "receiving"}
      BY <1>2, RowShape, AbsentShape DEF Resolve, Terminal, OperationStates
  <2>2. row' = [row EXCEPT !.state = "receiving"]
      BY <1>2 DEF ResolveClaims, ReceiveClaim
  <2>3. /\ row'.state = "receiving" /\ row'.token = row.token /\ row'.revision = row.revision
        /\ row'.result = row.result /\ row'.error = row.error
      BY <1>1, <2>2 DEF Rows
  <2>4. row' \in Rows(Tokens, Revisions, Versions)
      BY <1>1, <2>2 DEF Rows, OperationStates
  <2>5. OperationRow(row')
      BY <2>1, <2>3, RowShape DEF OperationRow
  <2>6. row'.revision <= revision /\ (row'.revision = revision => ~excluded)
      BY <2>3 DEF RowInv
  <2> QED BY <2>1, <2>3, <2>4, <2>5, <2>6, RowReplaced DEF Terminal, Grows
<1>3. CASE Resolve(row, t) # "bound"
  <2>1. row' = row
      BY <1>3 DEF ResolveClaims
  <2> QED BY <1>1, <2>1, RowUntouched
<1> QED BY <1>2, <1>3

LEMMA FailureKept ==
    ASSUME Types, RowInv, RowMoves, captured' = captured, NEW t, NEW r, NEW e \in Errors,
           row' = BoundFailure(row, t, r, e)
    PROVE  RowInv' /\ Grows /\ row' \in Rows(Tokens, Revisions, Versions)
<1>1. row \in Rows(Tokens, Revisions, Versions)
    BY DEF Types
<1>2. CASE row' = row
    BY <1>1, <1>2, RowUntouched
<1>3. CASE row' = RecordFailure(row, e) /\ row.state = "receiving"
  <2>1. row' = [row EXCEPT !.state = "failed", !.error = e]
      BY <1>3 DEF RecordFailure
  <2>2. /\ row'.state = "failed" /\ row'.token = row.token /\ row'.revision = row.revision
        /\ row'.result = row.result /\ row'.error = e
      BY <1>1, <2>1 DEF Rows
  <2>3. row' \in Rows(Tokens, Revisions, Versions) /\ e # "none"
      BY <1>1, <2>1 DEF Rows, OperationStates, Errors
  <2>4. OperationRow(row')
      BY <1>3, <2>2, <2>3, RowShape DEF OperationRow
  <2>5. row'.revision <= revision /\ (row'.revision = revision => ~excluded)
      BY <2>2 DEF RowInv
  <2> QED BY <1>3, <2>2, <2>3, <2>4, <2>5, RowReplaced DEF Terminal, Grows
<1> QED BY <1>2, <1>3 DEF BoundFailure
-------------------------------------------------------------------------------
(* The preflight.                                                          *)

\* A step of the server that publishes nothing.
LEMMA ServerKept ==
    ASSUME Inv, Grows, RowInv', RequestsInv', req' \in [Slots -> Requests],
           row' \in Rows(Tokens, Revisions, Versions), captured' \in BOOLEAN,
           UNCHANGED <<kind, revision, excluded, source, published, device>>
    PROVE  Inv'
<1>1. Types'
    BY DEF Inv, Types, device
<1>2. EventInv'
    BY EventSame DEF Inv, device
<1> QED BY <1>1, <1>2 DEF Inv

\* A step of the server that reads only.
LEMMA ReadKept ==
    ASSUME Inv, UNCHANGED <<kind, server>>
    PROVE  RowInv' /\ Grows /\ row' \in Rows(Tokens, Revisions, Versions) /\ captured' \in BOOLEAN
           /\ revision' = revision /\ row' = row /\ captured' = captured
<1>1. row' = row /\ RowMoves /\ captured' = captured
    BY DEF server, RowMoves
<1>2. RowInv' /\ Grows
    BY <1>1, RowUntouched DEF Inv
<1> QED BY <1>1, <1>2 DEF Inv, Types, RowMoves

LEMMA Learned ==
    ASSUME Inv, NEW s \in Slots
    PROVE  /\ Types /\ RowInv /\ RequestsInv /\ EventInv
           /\ req[s] \in Requests /\ Staged(s) /\ Answered(s)
           /\ revision \in Nat /\ revision # 0 /\ s # 0
BY DEF Inv, Types, RequestsInv, Revisions

LEMMA AuthorizeKept ==
    ASSUME Inv, NEW s \in Slots, PreflightAuthorize(s)
    PROVE  Inv'
<1>1. /\ At(s, "preflight", "authorize") /\ UNCHANGED <<kind, server, device, faults>>
      /\ UNCHANGED <<kind, server>> /\ pass' = pass
      /\ UNCHANGED <<kind, revision, excluded, source, published, device>>
    BY DEF PreflightAuthorize, device, server
<1>2. /\ RowInv' /\ Grows /\ row' \in Rows(Tokens, Revisions, Versions)
      /\ captured' \in BOOLEAN /\ row' = row /\ revision' = revision
    BY <1>1, ReadKept
<1>3. /\ Types /\ RequestsInv /\ req[s] \in Requests /\ Staged(s) /\ Answered(s)
      /\ revision \in Nat /\ revision # 0 /\ req[s].kind = "preflight"
    BY <1>1, Learned DEF At
<1>4. CASE excluded
  <2>1. Answer(s, "excluded") /\ Truthful(s, "excluded")
      BY <1>1, <1>4 DEF PreflightAuthorize, Truthful, Answers
  <2>2. RequestsInv' /\ req' \in [Slots -> Requests]
      BY <1>1, <1>2, <1>3, <2>1, AnswerKept
  <2> QED BY <1>1, <1>2, <2>2, ServerKept
<1>5. CASE ~excluded
  <2>1. req' = [req EXCEPT ![s].pc = "frozen", ![s].revision = revision]
      BY <1>5 DEF PreflightAuthorize
  <2>1a. revision \in 0 .. MaxRevision
      BY DEF Inv, Types, Revisions
  <2>1b. [req[s] EXCEPT !.pc = "frozen", !.revision = revision] \in Requests
      BY <1>3, <2>1a DEF Requests, PreflightStages
  <2>2. PICK q \in Requests : q = [req[s] EXCEPT !.pc = "frozen", !.revision = revision]
      BY <2>1b
  <2>3. req' = [req EXCEPT ![s] = q]
      BY <1>3, <2>1, <2>2 DEF Types, Requests
  <2>4. /\ req'[s] = q /\ req' \in [Slots -> Requests]
        /\ q.pc = "frozen" /\ q.revision = revision /\ q.kind = "preflight"
        /\ q.token = req[s].token /\ q.answer = req[s].answer
      BY <1>3, <2>2, <2>3 DEF Types, Requests
  <2>5. Others(s) /\ Waiting(s)
      BY <1>1, <2>3, <1>3 DEF Others, Waiting, Types
  <2>6. Staged(s)'
      BY <1>1, <1>2, <1>3, <1>5, <2>4 DEF Staged, PreflightStages
  <2>7. Terminal(row)' <=> Terminal(row)
      BY <1>2 DEF Terminal
  <2>8. Answered(s)'
      BY <1>1, <1>2, <1>3, <2>4, <2>7 DEF Answered, Grows
  <2>9. RequestsInv'
      BY <1>1, <1>2, <1>3, <2>5, <2>6, <2>8, RequestsKept
  <2> QED BY <1>1, <1>2, <2>4, <2>9, ServerKept
<1> QED BY <1>4, <1>5

LEMMA ReplayKept ==
    ASSUME Inv, NEW s \in Slots, PreflightReplay(s)
    PROVE  Inv'
<1>1. /\ At(s, "preflight", "frozen")
      /\ UNCHANGED <<kind, server>> /\ pass' = pass
      /\ UNCHANGED <<kind, revision, excluded, source, published, device>>
    BY DEF PreflightReplay, device, server
<1>2. /\ RowInv' /\ Grows /\ row' \in Rows(Tokens, Revisions, Versions)
      /\ captured' \in BOOLEAN /\ row' = row
    BY <1>1, ReadKept
<1>3. /\ Types /\ RequestsInv /\ Staged(s) /\ Answered(s)
      /\ req[s].kind = "preflight" /\ req[s].pc = "frozen" /\ req[s].revision # 0
    BY <1>1, Learned DEF At, Staged
<1>4. CASE Terminal(row)
  <2>1. Answer(s, "result") /\ Truthful(s, "result")
      BY <1>2, <1>4 DEF PreflightReplay, Truthful, Answers, Terminal, Grows
  <2>2. RequestsInv' /\ req' \in [Slots -> Requests]
      BY <1>1, <1>2, <1>3, <2>1, AnswerKept
  <2> QED BY <1>1, <1>2, <2>2, ServerKept
<1>5. CASE ~Terminal(row)
  <2>1. PICK p \in {"reserve", "captured"} : Goto(s, p) /\ (p = "reserve" => kind # "unchanged")
      BY <1>5 DEF PreflightReplay
  <2>2. req[s].answer # "integrity" \/ pass.waits # s
      BY <1>3 DEF Answered
  <2>3. RequestsInv' /\ req' \in [Slots -> Requests]
      BY <1>1, <1>2, <1>3, <2>1, <2>2, GotoKept DEF PreflightStages
  <2> QED BY <1>1, <1>2, <2>3, ServerKept
<1> QED BY <1>4, <1>5

LEMMA CapturedKept ==
    ASSUME Inv, NEW s \in Slots, PreflightCaptured(s)
    PROVE  Inv'
<1>1. /\ At(s, "preflight", "captured")
      /\ UNCHANGED <<kind, server>> /\ pass' = pass
      /\ UNCHANGED <<kind, revision, excluded, source, published, device>>
    BY DEF PreflightCaptured, device, server
<1>2. /\ RowInv' /\ Grows /\ row' \in Rows(Tokens, Revisions, Versions)
      /\ captured' \in BOOLEAN /\ captured' = captured
    BY <1>1, ReadKept
<1>3. /\ Types /\ RequestsInv /\ Staged(s) /\ Answered(s)
      /\ req[s].kind = "preflight" /\ req[s].pc = "captured" /\ req[s].revision # 0
    BY <1>1, Learned DEF At, Staged
<1>4. CASE captured
  <2>1. Answer(s, "conflict") /\ Truthful(s, "conflict")
      BY <1>2, <1>4 DEF PreflightCaptured, Truthful, Answers
  <2>2. RequestsInv' /\ req' \in [Slots -> Requests]
      BY <1>1, <1>2, <1>3, <2>1, AnswerKept
  <2> QED BY <1>1, <1>2, <2>2, ServerKept
<1>5. CASE ~captured
  <2>1. Goto(s, "base")
      BY <1>5 DEF PreflightCaptured
  <2>2. req[s].answer # "integrity" \/ pass.waits # s
      BY <1>3 DEF Answered
  <2>3. RequestsInv' /\ req' \in [Slots -> Requests]
      BY <1>1, <1>2, <1>3, <2>1, <2>2, GotoKept DEF PreflightStages
  <2> QED BY <1>1, <1>2, <2>3, ServerKept
<1> QED BY <1>4, <1>5

LEMMA BaseKept ==
    ASSUME Inv, NEW s \in Slots, PreflightBase(s)
    PROVE  Inv'
<1>1. /\ At(s, "preflight", "base")
      /\ UNCHANGED <<kind, server>> /\ pass' = pass
      /\ UNCHANGED <<kind, revision, excluded, source, published, device>>
    BY DEF PreflightBase, device, server
<1>2. /\ RowInv' /\ Grows /\ row' \in Rows(Tokens, Revisions, Versions)
      /\ captured' \in BOOLEAN
    BY <1>1, ReadKept
<1>3. /\ Types /\ RequestsInv /\ Staged(s) /\ Answered(s)
      /\ req[s].kind = "preflight" /\ req[s].pc = "base" /\ req[s].revision # 0
    BY <1>1, Learned DEF At, Staged
<1>4. PICK p \in {"reserve", "reserve_conflict", "reserve_unchanged"} :
         /\ Goto(s, p) /\ (p = "reserve" => kind # "unchanged")
         /\ p = "reserve_unchanged" => kind = "unchanged"
    BY DEF PreflightBase
<1>5. req[s].answer # "integrity" \/ pass.waits # s
    BY <1>3 DEF Answered
<1>6. RequestsInv' /\ req' \in [Slots -> Requests]
    BY <1>1, <1>2, <1>3, <1>4, <1>5, GotoKept DEF PreflightStages
<1> QED BY <1>1, <1>2, <1>6, ServerKept

LEMMA PreflightReserveKept ==
    ASSUME Inv, NEW s \in Slots, PreflightReserve(s)
    PROVE  Inv'
<1>1. /\ UNCHANGED <<kind, revision, excluded, source, published, device>>
      /\ captured' = captured /\ RowMoves /\ pass' = pass
      /\ row' = Reserve(row, FreshToken, req[s].revision)
      /\ req[s].kind = "preflight" /\ req[s].kind # "free" /\ req[s].pc # "done"
      /\ req[s].pc \in {"reserve", "reserve_conflict", "reserve_unchanged"}
    BY DEF PreflightReserve, RowMoves, device
<1>2. /\ Types /\ RowInv /\ RequestsInv /\ req[s] \in Requests /\ Staged(s) /\ Answered(s)
      /\ captured' \in BOOLEAN
    BY <1>1, Learned DEF Types
<1>3. /\ req[s].revision \in 1 .. MaxRevision /\ req[s].revision <= revision
      /\ req[s].revision = revision => ~excluded
    BY <1>1, <1>2 DEF Staged, Requests
<1>4. /\ RowInv' /\ Grows /\ row' \in Rows(Tokens, Revisions, Versions)
      /\ ReserveGrants(row) => row'.token \in Tokens /\ row'.token # 0
    BY <1>1, <1>2, <1>3, ReserveKept
<1>5. CASE ~ReserveGrants(row)
  <2>1. Answer(s, "state_invalid") /\ Truthful(s, "state_invalid")
      BY <1>5 DEF PreflightReserve, Truthful, Answers, Errors
  <2>2. RequestsInv' /\ req' \in [Slots -> Requests]
      BY <1>1, <1>2, <1>4, <2>1, AnswerKept
  <2> QED BY <1>1, <1>2, <1>4, <2>2, ServerKept
<1>6. CASE ReserveGrants(row) /\ req[s].pc \in {"reserve", "reserve_conflict"}
  <2>1. PICK a \in {"grant", "capture_grant"} :
           /\ AnswerToken(s, a, row'.token)
           /\ a = "grant" => req[s].pc = "reserve"
      BY <1>6 DEF PreflightReserve
  <2>2. a = "grant" => kind # "unchanged"
      BY <1>2, <2>1 DEF Staged
  <2>3. PICK t \in Tokens : t = row'.token /\ t # 0
      BY <1>4, <1>6
  <2>4. AnswerToken(s, a, t)
      BY <2>1, <2>3
  <2>5. RequestsInv' /\ req' \in [Slots -> Requests]
      BY <1>1, <1>2, <1>4, <2>2, <2>3, <2>4, GrantKept
  <2> QED BY <1>1, <1>2, <1>4, <2>5, ServerKept
<1>7. CASE ReserveGrants(row) /\ req[s].pc = "reserve_unchanged"
  <2>1. PICK t \in Tokens : t = row'.token /\ t # 0
      BY <1>4, <1>7
  <2>2. req' = [req EXCEPT ![s].pc = "unchanged", ![s].token = t]
      BY <1>7, <2>1 DEF PreflightReserve
  <2>3. PICK p \in Requests : p = [req[s] EXCEPT !.pc = "unchanged"]
      BY <1>2 DEF Requests, PreflightStages
  <2>4. PICK q \in Requests : q = [p EXCEPT !.token = t]
      BY DEF Requests
  <2>5. req' = [req EXCEPT ![s] = q]
      BY <1>2, <2>2, <2>3, <2>4 DEF Types, Requests
  <2>6. /\ q.pc = "unchanged" /\ q.token = t /\ q.kind = req[s].kind
        /\ q.revision = req[s].revision /\ q.answer = req[s].answer
      BY <1>2, <2>3, <2>4 DEF Requests
  <2>7. req'[s] = q
      BY <1>2, <2>5 DEF Types
  <2>8. Staged(s)'
      BY <1>1, <1>2, <1>7, <2>6, <2>7 DEF Staged, PreflightStages
  <2>9. RequestsInv' /\ req' \in [Slots -> Requests]
      BY <1>1, <1>2, <1>4, <2>1, <2>5, <2>6, <2>8, LearnsKept
  <2> QED BY <1>1, <1>2, <1>4, <2>9, ServerKept
<1> QED BY <1>1, <1>5, <1>6, <1>7

\* The verdict that nothing changed closes the row of a preflight that holds a token.
LEMMA UnchangedKept ==
    ASSUME Inv, NEW s \in Slots, PreflightUnchanged(s)
    PROVE  Inv'
<1>1. /\ UNCHANGED <<kind, revision, excluded, source, published, device>>
      /\ UNCHANGED <<kind, revision, excluded, published>>
      /\ captured' = captured /\ RowMoves /\ pass' = pass
      /\ req[s].kind # "free" /\ req[s].pc = "unchanged"
    BY DEF PreflightUnchanged, RowMoves, device, At
<1>2. /\ Types /\ RowInv /\ RequestsInv /\ req[s] \in Requests /\ Staged(s) /\ Answered(s)
      /\ captured' \in BOOLEAN /\ kind = "unchanged"
      /\ row \in Rows(Tokens, Revisions, Versions)
    BY <1>1, Learned DEF Types, Staged
<1>3. CASE PreflightResultAccepted(row, req[s].token)
  <2>1. row' = RecordResult(row, Base, FALSE) /\ Answer(s, "result") /\ row.state = "pending"
      BY <1>3 DEF PreflightUnchanged, PreflightResultAccepted
  <2>2. PICK r : r = [row EXCEPT !.state = "committed"]
      OBVIOUS
  <2>3. PICK u : u = [r EXCEPT !.result = Base]
      OBVIOUS
  <2>4. row' = [u EXCEPT !.changed = FALSE]
      BY <2>1, <2>2, <2>3 DEF RecordResult
  <2>5. r \in Rows(Tokens, Revisions, Versions)
      BY <1>2, <2>2 DEF Rows, OperationStates
  <2>6. u \in Rows(Tokens, Revisions, Versions)
      BY <2>5, <2>3 DEF Rows, Versions, Base
  <2>7. row' \in Rows(Tokens, Revisions, Versions)
      BY <2>6, <2>4 DEF Rows
  <2>8. /\ row'.state = "committed" /\ row'.result = Base /\ row'.changed = FALSE
        /\ row'.token = row.token /\ row'.revision = row.revision /\ row'.error = row.error
      BY <1>2, <2>2, <2>3, <2>4, <2>5, <2>6 DEF Rows
  <2>9. OperationRow(row) /\ published = 0 /\ ~Terminal(row)
      BY <1>2, <2>1, RowShape, OpenRow DEF Terminal
  <2>9a. row.error = "none" /\ row.revision >= 1 /\ row.token # 0
      BY <2>1, <2>9 DEF OperationRow
  <2>10. OperationRow(row') /\ Terminal(row')
      BY <2>8, <2>9a DEF OperationRow, Terminal, Base
  <2>11. RowInv'
      <3>1. OperationRow(row)' /\ Terminal(row)'
          BY <2>10 DEF OperationRow, Terminal
      <3> QED BY <1>1, <1>2, <2>8, <2>9, <3>1 DEF RowInv
  <2>12. Grows
      BY <1>1, <1>2, <2>10 DEF Grows, Types, Revisions
  <2>13. Truthful(s, "result")
      BY <2>10 DEF Truthful, Answers
  <2>14. RequestsInv' /\ req' \in [Slots -> Requests]
      BY <1>1, <1>2, <2>1, <2>12, <2>13, AnswerKept
  <2> QED BY <1>1, <1>2, <2>7, <2>11, <2>12, <2>14, ServerKept
<1>4. CASE ~PreflightResultAccepted(row, req[s].token)
  <2>1. row' = row /\ Answer(s, "retry")
      BY <1>4 DEF PreflightUnchanged
  <2>2. Truthful(s, "retry")
      BY DEF Truthful, Answers, Errors
  <2>3. RowInv' /\ Grows
      BY <1>1, <1>2, <2>1, RowUntouched
  <2>4. RequestsInv' /\ req' \in [Slots -> Requests]
      BY <1>1, <1>2, <2>1, <2>2, <2>3, AnswerKept
  <2> QED BY <1>1, <1>2, <2>1, <2>3, <2>4, ServerKept
<1> QED BY <1>3, <1>4
-------------------------------------------------------------------------------
(* The content and the conflict candidate.                                 *)

LEMMA BindKept ==
    ASSUME Inv, NEW s \in Slots, Bind(s)
    PROVE  Inv'
<1>1. /\ UNCHANGED <<kind, revision, excluded, source, published, device>>
      /\ captured' = captured /\ RowMoves /\ pass' = pass
      /\ req[s].kind \in {"receive", "capture"} /\ req[s].pc = "resolve"
      /\ req[s].kind # "free"
      /\ row' = ResolveClaims(row, req[s].token)
    BY DEF Bind, RowMoves, device
<1>2. /\ Types /\ RowInv /\ RequestsInv /\ req[s] \in Requests /\ Staged(s) /\ Answered(s)
      /\ captured' \in BOOLEAN /\ req[s].token # 0
      /\ row \in Rows(Tokens, Revisions, Versions)
    BY <1>1, Learned DEF Types, Staged
<1>3. RowInv' /\ Grows /\ row' \in Rows(Tokens, Revisions, Versions)
    BY <1>1, <1>2, ClaimKept
<1>4. CASE Resolve(row, req[s].token) = "bound"
  <2>1. req' = [req EXCEPT ![s].pc = "store", ![s].revision = row.revision]
      BY <1>4 DEF Bind
  <2>2. row.token = req[s].token /\ row.state # "absent"
      BY <1>2, <1>4, RowShape, AbsentShape DEF Resolve
  <2>3. /\ row.revision \in 1 .. MaxRevision /\ row.revision <= revision
        /\ row.revision = revision => ~excluded
      BY <1>2, <2>2, RowShape DEF RowInv, Rows, Revisions, OperationRow
  <2>4. PICK p \in Requests : p = [req[s] EXCEPT !.pc = "store"]
      BY <1>2 DEF Requests, ReceiveStages
  <2>4a. row.revision \in 0 .. MaxRevision
      BY <2>3
  <2>4b. [p EXCEPT !.revision = row.revision] \in Requests
      BY <2>4, <2>4a DEF Requests
  <2>5. PICK q \in Requests : q = [p EXCEPT !.revision = row.revision]
      BY <2>4b
  <2>6. req' = [req EXCEPT ![s] = q]
      BY <1>2, <2>1, <2>4, <2>5 DEF Types, Requests
  <2>7. /\ q.pc = "store" /\ q.token = req[s].token /\ q.kind = req[s].kind
        /\ q.revision = row.revision /\ q.answer = req[s].answer
      BY <1>2, <2>3, <2>4, <2>5 DEF Requests
  <2>8. req'[s] = q
      BY <1>2, <2>6 DEF Types
  <2>9. Staged(s)'
      BY <1>1, <1>2, <2>3, <2>7, <2>8 DEF Staged, ReceiveStages, CaptureStages
  <2>10. RequestsInv' /\ req' \in [Slots -> Requests]
      BY <1>1, <1>2, <1>3, <2>6, <2>7, <2>9, LearnsKept
  <2> QED BY <1>1, <1>2, <1>3, <2>10, ServerKept
<1>5. CASE Resolve(row, req[s].token) # "bound"
  <2>1. PICK a \in {"result", "not_found", "state_invalid", "expired"} :
           Answer(s, a) /\ (a = "result" => Terminal(row))
      BY <1>5 DEF Bind, Resolve
  <2>2. Terminal(row) => Terminal(row')
      BY <1>3 DEF Grows
  <2>3. Truthful(s, a)
      BY <2>1, <2>2 DEF Truthful, Answers, Errors
  <2>4. RequestsInv' /\ req' \in [Slots -> Requests]
      BY <1>1, <1>2, <1>3, <2>1, <2>3, AnswerKept
  <2> QED BY <1>1, <1>2, <1>3, <2>4, ServerKept
<1> QED BY <1>4, <1>5

\* The stream ends early only for a device that no longer waits.
LEMMA StreamKept ==
    ASSUME Inv, NEW s \in Slots, StoreStream(s)
    PROVE  Inv'
<1>1. /\ UNCHANGED <<kind, revision, excluded, source, published, device>>
      /\ UNCHANGED <<kind, server>> /\ pass' = pass
      /\ req[s].kind \in {"receive", "capture"} /\ req[s].pc = "store"
      /\ req[s].kind # "free"
    BY DEF StoreStream, device, server
<1>2. /\ Types /\ RequestsInv /\ Staged(s) /\ Answered(s) /\ req[s].revision # 0
    BY <1>1, Learned DEF Staged
<1>3. /\ RowInv' /\ Grows /\ row' \in Rows(Tokens, Revisions, Versions)
      /\ captured' \in BOOLEAN
    BY <1>1, ReadKept
<1>4. CASE Goto(s, IF req[s].kind = "receive" THEN "publish" ELSE "observe")
  <2>1. PICK p \in {"publish", "observe"} :
           /\ Goto(s, p) /\ (req[s].kind = "receive" => p = "publish")
           /\ req[s].kind = "capture" => p = "observe"
      BY <1>4
  <2>2. req[s].answer # "integrity" \/ pass.waits # s
      BY <1>2 DEF Answered
  <2>3. RequestsInv' /\ req' \in [Slots -> Requests]
      BY <1>1, <1>2, <1>3, <2>1, <2>2, GotoKept DEF ReceiveStages, CaptureStages
  <2> QED BY <1>1, <1>3, <2>3, ServerKept
<1>5. CASE pass.waits # s /\ Reject(s, "integrity")
  <2>1. Truthful(s, "integrity") /\ "integrity" \in Errors
      BY <1>5 DEF Truthful, Answers, Errors
  <2>2. RequestsInv' /\ req' \in [Slots -> Requests]
      BY <1>1, <1>2, <1>3, <1>5, <2>1, RejectKept
  <2> QED BY <1>1, <1>3, <2>2, ServerKept
<1> QED BY <1>4, <1>5 DEF StoreStream

LEMMA FenceShape ==
    ASSUME Types, RowInv, NEW t, NEW r, t # 0
    PROVE  /\ Fence(row, t, r) \in {"held", "not_found", "mismatch", "state_invalid"}
           /\ Fence(row, t, r) = "held" => /\ row.token = t /\ row.revision = r
                                          /\ row.state \in {"receiving", "committed"}
           /\ Fence(row, t, r) = "mismatch" => row.revision # r /\ row.revision >= 1
<1>1. row.token = t => row.revision >= 1
    BY RowShape, AbsentShape DEF OperationRow
<1> QED BY <1>1 DEF Fence, BoundMatches

\* The publication is the one step that publishes, and it does so under a revision
\* that allows the file.
LEMMA PublishKept ==
    ASSUME Inv, NEW s \in Slots, Publish(s)
    PROVE  Inv' /\ (published' # published => ~excluded)
<1>1. /\ UNCHANGED <<kind, revision, excluded, device>> /\ captured' = captured
      /\ pass' = pass /\ req[s].kind = "receive" /\ req[s].pc = "publish"
      /\ req[s].kind # "free"
    BY DEF Publish, device, At
<1>2. /\ Types /\ RowInv /\ RequestsInv /\ EventInv /\ req[s] \in Requests
      /\ Staged(s) /\ Answered(s) /\ req[s].revision # 0 /\ req[s].token # 0
      /\ kind # "unchanged" /\ captured' \in BOOLEAN
      /\ row \in Rows(Tokens, Revisions, Versions) /\ revision \in Nat
    BY <1>1, Learned DEF Staged, Types
<1>3. PICK t, r : t = req[s].token /\ r = req[s].revision
    OBVIOUS
<1>4. r \in 1 .. MaxRevision /\ r <= revision /\ (r = revision => ~excluded) /\ t # 0
    BY <1>2, <1>3 DEF Staged, Requests
<1>5. PICK f \in {"held", "not_found", "mismatch", "state_invalid"} :
         /\ f = Fence(row, t, r)
         /\ f = "held" => /\ row.token = t /\ row.revision = r
                         /\ row.state \in {"receiving", "committed"}
         /\ f = "mismatch" => row.revision # r /\ row.revision >= 1
    BY <1>2, <1>4, FenceShape
<1>6. CASE f # "held"
  <2>1. Reject(s, f) /\ UNCHANGED <<row, source, published>>
      BY <1>3, <1>5, <1>6 DEF Publish
  <2>2. RowMoves /\ UNCHANGED <<kind, revision, excluded, source, published, device>>
      BY <1>1, <2>1 DEF RowMoves
  <2>3. RowInv' /\ Grows
      BY <1>1, <1>2, <2>1, <2>2, RowUntouched
  <2>4. f = "mismatch" => revision' > 1
      <3>1. row.revision \in Nat /\ row.revision <= revision /\ revision' = revision
          BY <1>1, <1>2, RowShape DEF RowInv
      <3> QED BY <1>2, <1>4, <1>5, <3>1
  <2>5. f \in Errors /\ Truthful(s, f)
      BY <1>5, <1>6, <2>4 DEF Truthful, Answers, Errors
  <2>6. RequestsInv' /\ req' \in [Slots -> Requests]
      BY <1>1, <1>2, <2>1, <2>3, <2>5, RejectKept
  <2> QED BY <1>1, <1>2, <2>1, <2>2, <2>3, <2>6, ServerKept
<1>7. CASE f = "held" /\ ~PolicyCurrent(s)
  <2>1. Answer(s, "retry") /\ UNCHANGED <<row, source, published>>
      BY <1>3, <1>5, <1>7 DEF Publish
  <2>2. RowMoves /\ UNCHANGED <<kind, revision, excluded, source, published, device>>
      BY <1>1, <2>1 DEF RowMoves
  <2>3. RowInv' /\ Grows
      BY <1>1, <1>2, <2>1, <2>2, RowUntouched
  <2>4. Truthful(s, "retry")
      BY DEF Truthful, Answers, Errors
  <2>5. RequestsInv' /\ req' \in [Slots -> Requests]
      BY <1>1, <1>2, <2>1, <2>3, <2>4, AnswerKept
  <2> QED BY <1>1, <1>2, <2>1, <2>2, <2>3, <2>5, ServerKept
<1>8. CASE f = "held" /\ PolicyCurrent(s) /\ published = 0 /\ ~Publishable(s)
  <2>1. PICK e \in {"occupied", "retry"} :
           /\ Reject(s, e) /\ UNCHANGED <<row, source, published>>
           /\ e = "occupied" => kind = "create"
      BY <1>3, <1>5, <1>8 DEF Publish
  <2>2. RowMoves /\ UNCHANGED <<kind, revision, excluded, source, published, device>>
      BY <1>1, <2>1 DEF RowMoves
  <2>3. RowInv' /\ Grows
      BY <1>1, <1>2, <2>1, <2>2, RowUntouched
  <2>4. e \in Errors /\ Truthful(s, e)
      BY <2>1 DEF Truthful, Answers, Errors
  <2>5. RequestsInv' /\ req' \in [Slots -> Requests]
      BY <1>1, <1>2, <2>1, <2>3, <2>4, RejectKept
  <2> QED BY <1>1, <1>2, <2>1, <2>2, <2>3, <2>5, ServerKept
\* Either publication closes the row with the published version.
<1>9. ASSUME f = "held", PolicyCurrent(s), NEW v \in Versions, published' = v,
             published = 0 \/ published = v, published = 0 => row.state = "receiving",
             row' = BoundResult(row, t, r, v, TRUE), Goto(s, "record"),
             source' \in [version : 0 .. MaxVersion, gone : BOOLEAN]
      PROVE  Inv' /\ ~excluded
  <2>1. v # 0
      BY DEF Versions
  <2>2. published # 0 => row.state = "committed" /\ row.result = v /\ row.changed = TRUE
      BY <1>2, <1>9 DEF RowInv, Terminal, Types
  <2>3. row.token = t /\ row.revision = r /\ BoundResultAccepted(row, t, r, v, TRUE)
      BY <1>5, <1>9, <2>2 DEF BoundResultAccepted, BoundMatches
  <2>4. row' = RecordResult(row, v, TRUE)
      BY <1>9, <2>3 DEF BoundResult
  <2>5. PICK a \in Rows(Tokens, Revisions, Versions) : a = [row EXCEPT !.state = "committed"]
      BY <1>2 DEF Rows, OperationStates
  <2>6. PICK b \in Rows(Tokens, Revisions, Versions) : b = [a EXCEPT !.result = v]
      BY <2>5 DEF Rows
  <2>7. row' = [b EXCEPT !.changed = TRUE]
      BY <2>4, <2>5, <2>6 DEF RecordResult
  <2>8. /\ row'.state = "committed" /\ row'.result = v /\ row'.changed = TRUE
        /\ row'.token = t /\ row'.revision = r /\ row'.error = row.error
        /\ row' \in Rows(Tokens, Revisions, Versions)
      BY <1>2, <2>3, <2>5, <2>6, <2>7 DEF Rows
  <2>9. OperationRow(row) /\ row.state \in {"receiving", "committed"}
      BY <1>2, <1>5, <1>9, RowShape
  <2>10. row.error = "none" /\ row.revision >= 1
      BY <2>9 DEF OperationRow
  <2>11. OperationRow(row') /\ Terminal(row')
      BY <1>4, <2>1, <2>3, <2>8, <2>10 DEF OperationRow, Terminal
  <2>12. OperationRow(row)' /\ Terminal(row)'
      BY <2>11 DEF OperationRow, Terminal
  <2>13. r = revision /\ ~excluded
      BY <1>3, <1>4, <1>9 DEF PolicyCurrent
  <2>13a. /\ row'.revision <= revision' /\ (row'.revision = revision' => ~excluded')
          /\ row'.changed /\ row'.result = published' /\ kind' # "unchanged"
      BY <1>1, <1>2, <1>4, <1>9, <2>8, <2>13
  <2>14. RowInv'
      BY <2>12, <2>13a DEF RowInv
  <2>14a. revision' \in Revisions /\ revision <= revision'
      BY <1>1, <1>2 DEF Types, Revisions
  <2>14b. published # 0 => published' = published
      BY <1>9
  <2>15. Grows
      BY <1>1, <2>11, <2>14a, <2>14b DEF Grows
  <2>16. req[s].answer # "integrity" \/ pass.waits # s
      BY <1>2 DEF Answered
  <2>17. RequestsInv' /\ req' \in [Slots -> Requests]
      BY <1>1, <1>2, <1>9, <2>1, <2>15, <2>16, GotoKept DEF ReceiveStages
  <2>18. EventInv'
      BY <1>1, <1>2, <2>15, EventSame DEF device
  <2>19. v \in 0 .. MaxVersion
      BY DEF Versions
  <2>20. Types'
      BY <1>1, <1>2, <1>9, <2>8, <2>17, <2>19 DEF Types, device
  <2> QED BY <2>13, <2>14, <2>17, <2>18, <2>20 DEF Inv
<1>10. CASE f = "held" /\ PolicyCurrent(s) /\ published # 0
  <2>1. /\ row' = BoundResult(row, t, r, published, TRUE) /\ Goto(s, "record")
        /\ UNCHANGED <<source, published>>
      BY <1>3, <1>5, <1>10 DEF Publish
  <2>2. published \in Versions /\ source' \in [version : 0 .. MaxVersion, gone : BOOLEAN]
      BY <1>2, <1>10, <2>1 DEF Types, Versions
  <2> QED BY <1>9, <1>10, <2>1, <2>2
<1>11. CASE f = "held" /\ PolicyCurrent(s) /\ published = 0 /\ Publishable(s)
  <2>1. /\ published' = source.version + 1
        /\ source' = [source EXCEPT !.version = @ + 1]
        /\ row' = BoundResult(row, t, r, published', TRUE)
        /\ Goto(s, "record")
      BY <1>3, <1>5, <1>11 DEF Publish
  <2>2. /\ source \in [version : 0 .. MaxVersion, gone : BOOLEAN]
        /\ source.version \in {0, 1}
      BY <1>2, <1>11 DEF Types, Publishable, CurrentBase, Base
  <2>3. PICK v \in Versions : v = source.version + 1
      BY <2>2 DEF Versions
  <2>4. source' \in [version : 0 .. MaxVersion, gone : BOOLEAN]
      BY <2>1, <2>2, <2>3 DEF Versions
  <2>5. row.state = "receiving"
      <3>1. ~Terminal(row)
          <4>1. SUFFICES ASSUME Terminal(row) PROVE FALSE
              OBVIOUS
          <4>2. row.result = 0
              BY <1>2, <1>11, <4>1 DEF RowInv
          <4>3. OperationRow(row)
              BY <1>2, <4>1, RowShape DEF Terminal
          <4> QED BY <4>1, <4>2, <4>3 DEF OperationRow, Terminal
      <3> QED BY <1>5, <1>11, <3>1 DEF Terminal
  <2>6. published' = v /\ row' = BoundResult(row, t, r, v, TRUE)
      BY <2>1, <2>3
  <2> QED BY <1>9, <1>11, <2>1, <2>3, <2>4, <2>5, <2>6
<1> QED BY <1>6, <1>7, <1>8, <1>10, <1>11

\* The second record finds the row closed with the version it records.
LEMMA RecordTerminalKept ==
    ASSUME Inv, NEW s \in Slots, RecordTerminal(s)
    PROVE  Inv'
<1>1. /\ UNCHANGED <<kind, revision, excluded, source, published, device>>
      /\ captured' = captured /\ RowMoves /\ pass' = pass
      /\ req[s].kind = "receive" /\ req[s].pc = "record" /\ req[s].kind # "free"
    BY DEF RecordTerminal, RowMoves, device, At
<1>2. /\ Types /\ RowInv /\ RequestsInv /\ Staged(s) /\ published # 0
      /\ captured' \in BOOLEAN /\ row \in Rows(Tokens, Revisions, Versions)
    BY <1>1, Learned DEF Staged, Types
<1>3. /\ Terminal(row) /\ row.state = "committed" /\ row.result = published
      /\ row.changed = TRUE
    BY <1>2 DEF RowInv, Terminal, Types, Rows
<1>4. row' = row
  <2>1. CASE row' = RecordResult(row, published, TRUE)
    <3>1. row = [row EXCEPT !.state = "committed"]
        BY <1>2, <1>3 DEF Rows
    <3>2. row = [row EXCEPT !.result = published]
        BY <1>2, <1>3 DEF Rows
    <3>3. row = [row EXCEPT !.changed = TRUE]
        BY <1>2, <1>3 DEF Rows
    <3>4. row' = [[[row EXCEPT !.state = "committed"] EXCEPT !.result = published]
                     EXCEPT !.changed = TRUE]
        BY <2>1 DEF RecordResult
    <3> QED BY <3>1, <3>2, <3>3, <3>4, Zenon
  <2> QED BY <2>1 DEF RecordTerminal, BoundResult
<1>5. PICK a \in {"result", "retry"} : Answer(s, a)
    BY DEF RecordTerminal
<1>6. Truthful(s, a)
    BY <1>3, <1>4 DEF Truthful, Answers, Errors, Terminal
<1>7. RowInv' /\ Grows
    BY <1>1, <1>2, <1>4, RowUntouched
<1>8. RequestsInv' /\ req' \in [Slots -> Requests]
    BY <1>1, <1>2, <1>5, <1>6, <1>7, AnswerKept
<1> QED BY <1>1, <1>2, <1>4, <1>7, <1>8, ServerKept

LEMMA ObserveKept ==
    ASSUME Inv, NEW s \in Slots, ObserveRemote(s)
    PROVE  Inv'
<1>1. /\ UNCHANGED <<kind, revision, excluded, source, published, device>>
      /\ UNCHANGED <<kind, server>> /\ pass' = pass
      /\ req[s].kind = "capture" /\ req[s].pc = "observe" /\ req[s].kind # "free"
    BY DEF ObserveRemote, device, server, At
<1>2. /\ Types /\ RequestsInv /\ Staged(s) /\ Answered(s) /\ req[s].revision # 0
    BY <1>1, Learned DEF Staged
<1>3. /\ RowInv' /\ Grows /\ row' \in Rows(Tokens, Revisions, Versions)
      /\ captured' \in BOOLEAN
    BY <1>1, ReadKept
<1>4. CASE Goto(s, "capture")
  <2>1. req[s].answer # "integrity" \/ pass.waits # s
      BY <1>2 DEF Answered
  <2>2. RequestsInv' /\ req' \in [Slots -> Requests]
      BY <1>1, <1>2, <1>3, <1>4, <2>1, GotoKept DEF CaptureStages
  <2> QED BY <1>1, <1>3, <2>2, ServerKept
<1>5. CASE Reject(s, "state_invalid")
  <2>1. Truthful(s, "state_invalid") /\ "state_invalid" \in Errors
      BY DEF Truthful, Answers, Errors
  <2>2. RequestsInv' /\ req' \in [Slots -> Requests]
      BY <1>1, <1>2, <1>3, <1>5, <2>1, RejectKept
  <2> QED BY <1>1, <1>3, <2>2, ServerKept
<1> QED BY <1>4, <1>5 DEF ObserveRemote

LEMMA CandidateKept ==
    ASSUME Inv, NEW s \in Slots, Capture(s)
    PROVE  Inv'
<1>1. /\ UNCHANGED <<kind, revision, excluded, source, published, device>>
      /\ row' = row /\ RowMoves /\ pass' = pass
      /\ req[s].kind = "capture" /\ req[s].pc = "capture" /\ req[s].kind # "free"
      /\ captured => captured'
    BY DEF Capture, device, RowMoves, At
<1>2. /\ Types /\ RowInv /\ RequestsInv /\ Staged(s) /\ req[s].revision # 0
      /\ row \in Rows(Tokens, Revisions, Versions) /\ captured' \in BOOLEAN
    BY <1>1, Learned DEF Staged, Types, Capture
<1>3. RowInv' /\ Grows
    BY <1>1, <1>2, RowUntouched
<1>4. CASE excluded
  <2>1. Reject(s, "retry") /\ Truthful(s, "retry") /\ "retry" \in Errors
      BY <1>4 DEF Capture, Truthful, Answers, Errors
  <2>2. RequestsInv' /\ req' \in [Slots -> Requests]
      BY <1>1, <1>2, <1>3, <2>1, RejectKept
  <2> QED BY <1>1, <1>2, <1>3, <2>2, ServerKept
<1>5. CASE ~excluded
  <2>1. Answer(s, "captured") /\ Truthful(s, "captured")
      BY <1>5 DEF Capture, Truthful, Answers
  <2>2. RequestsInv' /\ req' \in [Slots -> Requests]
      BY <1>1, <1>2, <1>3, <2>1, AnswerKept
  <2> QED BY <1>1, <1>2, <1>3, <2>2, ServerKept
<1> QED BY <1>4, <1>5

\* The reason of a rejection was true when the request learned it, and still is.
LEMMA PersistKept ==
    ASSUME Inv, NEW s \in Slots, PersistRejection(s), req[s].kind \in {"receive", "capture"}
    PROVE  Inv'
<1>1. /\ UNCHANGED <<kind, revision, excluded, source, published, device>>
      /\ captured' = captured /\ RowMoves /\ pass' = pass
      /\ req[s].pc = "reject" /\ req[s].kind # "free"
    BY DEF PersistRejection, RowMoves, device
<1>2. /\ Types /\ RowInv /\ RequestsInv /\ Answered(s) /\ req[s].answer \in Errors
      /\ captured' \in BOOLEAN
    BY <1>1, Learned DEF Staged, Types
<1>3. PICK e \in Errors : e = req[s].answer
    BY <1>2
<1>4. row' = BoundFailure(row, req[s].token, req[s].revision, e) /\ Answer(s, e)
    BY <1>3 DEF PersistRejection
<1>5. RowInv' /\ Grows /\ row' \in Rows(Tokens, Revisions, Versions)
    BY <1>1, <1>2, <1>4, FailureKept
<1>6. Truthful(s, e)
    BY <1>1, <1>2, <1>3 DEF Answered, Truthful, Answers, Errors
<1>7. RequestsInv' /\ req' \in [Slots -> Requests]
    BY <1>1, <1>2, <1>4, <1>5, <1>6, AnswerKept
<1> QED BY <1>1, <1>2, <1>5, <1>7, ServerKept

LEMMA DropKept ==
    ASSUME Inv, NEW s \in Slots, Drop(s)
    PROVE  Inv'
<1>1. /\ UNCHANGED <<kind, revision, excluded, source, published, device>>
      /\ UNCHANGED <<kind, server>> /\ pass' = pass /\ req[s].kind # "free"
    BY DEF Drop, device, server
<1>2. /\ RowInv' /\ Grows /\ row' \in Rows(Tokens, Revisions, Versions)
      /\ captured' \in BOOLEAN
    BY <1>1, ReadKept
<1>3. Types /\ RequestsInv
    BY Learned
<1>4. Answer(s, "retry") /\ Truthful(s, "retry")
    BY DEF Drop, Truthful, Answers, Errors
<1>5. RequestsInv' /\ req' \in [Slots -> Requests]
    BY <1>1, <1>2, <1>3, <1>4, AnswerKept
<1> QED BY <1>1, <1>2, <1>5, ServerKept

LEMMA ServerStepKept ==
    ASSUME Inv, NEW s \in Slots, ServerStep(s)
    PROVE  Inv' /\ (published' # published => ~excluded)
<1>1. CASE Preflight(s)
  <2>1. Inv'
      BY <1>1, AuthorizeKept, ReplayKept, CapturedKept, BaseKept, PreflightReserveKept,
         UnchangedKept DEF Preflight
  <2>2. published' = published
      BY <1>1 DEF Preflight, PreflightAuthorize, PreflightReplay, PreflightCaptured, PreflightBase,
         PreflightReserve, PreflightUnchanged, server
  <2> QED BY <2>1, <2>2
<1>2. CASE Receive(s)
  <2>1. CASE Publish(s)
      BY <2>1, PublishKept
  <2>2. CASE ~Publish(s)
    <3>1. Inv'
        BY <1>2, <2>2, BindKept, StreamKept, RecordTerminalKept, PersistKept DEF Receive
    <3>2. published' = published
        BY <1>2, <2>2 DEF Receive, Bind, StoreStream, RecordTerminal, PersistRejection, server
    <3> QED BY <3>1, <3>2
  <2> QED BY <2>1, <2>2
<1>3. CASE ReceiveCandidate(s)
  <2>1. Inv'
      BY <1>3, BindKept, StreamKept, ObserveKept, CandidateKept, PersistKept
      DEF ReceiveCandidate
  <2>2. published' = published
      BY <1>3 DEF ReceiveCandidate, Bind, StoreStream, ObserveRemote, Capture, PersistRejection,
         server
  <2> QED BY <2>1, <2>2
<1> QED BY <1>1, <1>2, <1>3 DEF ServerStep
-------------------------------------------------------------------------------
(* The rest of the system.                                                 *)

LEMMA EnvironmentKept ==
    ASSUME Inv, Grows, RowInv', row' \in Rows(Tokens, Revisions, Versions),
           source' \in [version : 0 .. MaxVersion, gone : BOOLEAN], excluded' \in BOOLEAN,
           UNCHANGED <<published, captured, req, event, pass>>,
           file' \in {"frozen", "changed", "missing"}, file # "frozen" => file' # "frozen"
    PROVE  Inv'
<1>1. Types'
    BY DEF Inv, Types, Grows
<1>2. RequestsInv'
    BY RequestsSame DEF Inv
<1>3. EventInv'
    BY EventSame DEF Inv
<1> QED BY <1>1, <1>2, <1>3 DEF Inv

LEMMA PolicyKept ==
    ASSUME Inv, PublishPolicy
    PROVE  Inv'
<1>1. /\ revision' = revision + 1 /\ revision < MaxRevision /\ excluded' \in BOOLEAN
      /\ UNCHANGED <<kind, row, source, published, captured, req, event, pass, file>>
    BY DEF PublishPolicy, device
<1>2. Types /\ RowInv /\ revision \in Revisions /\ revision' \in Revisions
    BY <1>1 DEF Inv, Types, Revisions
<1>3. Grows
    BY <1>1, <1>2 DEF Grows, Revisions, Terminal
<1>4. /\ row.revision <= revision' /\ row.revision # revision'
    BY <1>1, <1>2, RowShape DEF RowInv, Revisions
<1>5. RowInv'
    BY <1>1, <1>2, <1>4, <1>3 DEF RowInv, OperationRow, Terminal
<1> QED BY <1>1, <1>2, <1>3, <1>5, EnvironmentKept DEF Types

\* What happens to the source, to the expiry of the row and to the file.
LEMMA OutsideKept ==
    ASSUME Inv, OtherWrite \/ OtherDelete \/ ExpireOperation \/ EditFile
    PROVE  Inv'
<1>1. /\ UNCHANGED <<kind, revision, excluded, published, captured, req, event, pass>>
      /\ RowMoves /\ captured' = captured
    BY DEF OtherWrite, OtherDelete, ExpireOperation, EditFile, device, server, RowMoves
<1>2. Types /\ RowInv /\ excluded' \in BOOLEAN
    BY <1>1 DEF Inv, Types
<1>3. source' \in [version : 0 .. MaxVersion, gone : BOOLEAN]
  <2>1. source \in [version : 0 .. MaxVersion, gone : BOOLEAN]
      BY <1>2 DEF Types
  <2>2. CASE OtherWrite
      BY <2>1, <2>2 DEF OtherWrite
  <2>3. CASE OtherDelete
      BY <2>1, <2>3 DEF OtherDelete
  <2> QED BY <2>1, <2>2, <2>3 DEF ExpireOperation, EditFile, server
<1>4. file' \in {"frozen", "changed", "missing"} /\ (file # "frozen" => file' # "frozen")
    BY <1>2 DEF OtherWrite, OtherDelete, ExpireOperation, EditFile, device, Types
<1>5. RowInv' /\ Grows /\ row' \in Rows(Tokens, Revisions, Versions)
  <2>1. CASE row' = row
      BY <1>1, <1>2, <2>1, RowUntouched DEF Types
  <2>2. CASE ExpireOperation
    <3>1. /\ row' = [row EXCEPT !.expired = TRUE] /\ row.state = "pending"
          /\ row \in Rows(Tokens, Revisions, Versions) /\ OperationRow(row)
        BY <1>2, <2>2, RowShape DEF ExpireOperation, Types
    <3>2. /\ row' \in Rows(Tokens, Revisions, Versions) /\ row'.state = row.state
          /\ row'.token = row.token /\ row'.revision = row.revision
          /\ row'.result = row.result /\ row'.error = row.error
        BY <3>1 DEF Rows
    <3>3. OperationRow(row')
        BY <3>1, <3>2 DEF OperationRow
    <3>4. row'.revision <= revision /\ (row'.revision = revision => ~excluded)
        BY <1>2, <3>2 DEF RowInv
    <3> QED BY <1>1, <1>2, <3>1, <3>2, <3>3, <3>4, RowReplaced DEF Terminal
  <2> QED BY <2>1, <2>2 DEF OtherWrite, OtherDelete, EditFile, server
<1> QED BY <1>1, <1>2, <1>3, <1>4, <1>5, EnvironmentKept
-------------------------------------------------------------------------------
(* The device.                                                             *)

\* A step of the device leaves the server alone.
LEMMA DeviceKept ==
    ASSUME Inv, UNCHANGED <<kind, server, file>>, RequestsInv', req' \in [Slots -> Requests],
           event' \in EventRows, pass' \in PassStates, EventInv'
    PROVE  Inv'
<1>1. RowInv' /\ row' \in Rows(Tokens, Revisions, Versions)
    BY ReadKept
<1>2. Types'
    BY <1>1 DEF Inv, Types, server
<1> QED BY <1>1, <1>2 DEF Inv

\* The device reads an answer, or sends a request.
LEMMA FreedKept ==
    ASSUME Inv, NEW s \in Slots, UNCHANGED <<kind, server>>, req' = [req EXCEPT ![s] = Free],
           pass'.waits = 0, pass.waits \in {0, s}
    PROVE  RequestsInv' /\ req' \in [Slots -> Requests]
<1>1. /\ Types /\ RequestsInv /\ req \in [Slots -> Requests] /\ s # 0
      /\ revision \in Nat /\ revision # 0
    BY Learned DEF Types
<1>2. /\ Free \in Requests /\ Free.kind = "free" /\ Free.pc = "done" /\ Free.revision = 0
      /\ Free.answer = "none"
    BY DEF Free, Requests, Answers
<1>3. Grows /\ revision' = revision
    BY ReadKept
<1>4. req'[s] = Free /\ req' \in [Slots -> Requests] /\ Others(s) /\ Waiting(s)
    BY <1>1, <1>2 DEF Others, Waiting
<1>5. Staged(s)' /\ Answered(s)'
    BY <1>1, <1>2, <1>3, <1>4 DEF Staged, Answered
<1> QED BY <1>1, <1>3, <1>4, <1>5, RequestsKept

LEMMA SentKept ==
    ASSUME Inv, NEW s \in Slots, UNCHANGED <<kind, server>>, NEW k, NEW t \in Tokens \cup {0},
           k \in {"preflight", "receive", "capture"}, k # "preflight" => t # 0,
           k = "receive" => kind # "unchanged", req' = [req EXCEPT ![s] = Request(k, t)],
           pass'.waits = s, pass.waits \in {0, s}
    PROVE  RequestsInv' /\ req' \in [Slots -> Requests]
<1>1. /\ Types /\ RequestsInv /\ req \in [Slots -> Requests] /\ s # 0
      /\ revision \in Nat /\ revision # 0
    BY Learned DEF Types
<1>2. PICK p \in {"authorize", "resolve"} :
         p = (IF k = "preflight" THEN "authorize" ELSE "resolve")
    OBVIOUS
<1>3. PICK q : q = [kind |-> k, pc |-> p, token |-> t, revision |-> 0, answer |-> "none"]
    OBVIOUS
<1>4. q = Request(k, t)
  <2>1. PICK a : a = [kind |-> k, pc |-> "done", token |-> 0, revision |-> 0, answer |-> "none"]
      OBVIOUS
  <2>2. PICK b : b = [kind |-> k, pc |-> "done", token |-> t, revision |-> 0, answer |-> "none"]
      OBVIOUS
  <2>3. a = [Free EXCEPT !.kind = k]
      BY <2>1 DEF Free
  <2>4. b = [a EXCEPT !.token = t]
      BY <2>1, <2>2
  <2>5. q = [b EXCEPT !.pc = p]
      BY <1>3, <2>2
  <2> QED BY <1>2, <2>3, <2>4, <2>5 DEF Request
<1>5. q \in Requests
    BY <1>2, <1>3 DEF Requests, Answers, PreflightStages, ReceiveStages
<1>6. /\ q.kind = k /\ q.pc = p /\ q.token = t /\ q.revision = 0 /\ q.answer = "none"
    BY <1>3
<1>7. req'[s] = q /\ req' \in [Slots -> Requests] /\ Others(s) /\ Waiting(s)
    BY <1>1, <1>4, <1>5 DEF Others, Waiting
<1>8. Grows /\ revision' = revision /\ kind' = kind
    BY ReadKept
<1>9. Staged(s)'
    BY <1>1, <1>2, <1>6, <1>7, <1>8 DEF Staged, PreflightStages, ReceiveStages, CaptureStages
<1>10. Answered(s)'
    BY <1>2, <1>6, <1>7, <1>8 DEF Answered
<1> QED BY <1>1, <1>7, <1>8, <1>9, <1>10, RequestsKept

\* A pass ends: nothing is waited for.
LEMMA EndedKept ==
    ASSUME Inv, NEW s \in Slots, pass.waits \in {0, s}, UNCHANGED <<kind, server, file>>,
           req' = [req EXCEPT ![s] = Free], pass' \in PassStates, pass'.waits = 0,
           event' \in EventRows, EventInv'
    PROVE  Inv'
<1>1. RequestsInv' /\ req' \in [Slots -> Requests]
    BY FreedKept
<1> QED BY <1>1, DeviceKept

LEMMA DeviceShape ==
    ASSUME Inv
    PROVE  event \in EventRows /\ pass \in PassStates /\ Idle \in PassStates /\ Idle.waits = 0
<1>1. event \in EventRows /\ pass \in PassStates
    BY DEF Inv, Types, EventRows, PassStates
<1>2. PICK p \in PassStates : p = [pass EXCEPT !.waits = 0]
    BY <1>1 DEF PassStates
<1>3. PICK q \in PassStates : q = [p EXCEPT !.seen = "none"]
    BY <1>2 DEF PassStates
<1>4. Idle = q /\ q.waits = 0
    BY <1>1, <1>2, <1>3 DEF Idle, PassStates
<1> QED BY <1>1, <1>3, <1>4

LEMMA RetryKept ==
    ASSUME Inv, NEW s \in Slots, pass.waits = s, UNCHANGED <<kind, server, file>>,
           ScheduleRetry(s)
    PROVE  Inv'
<1>1. /\ event' = [event EXCEPT !.state = "waiting_retry"] /\ pass' = Idle
      /\ req' = [req EXCEPT ![s] = Free]
    BY DEF ScheduleRetry
<1>2. event \in EventRows /\ pass' \in PassStates /\ pass'.waits = 0
    BY <1>1, DeviceShape
<1>3. /\ event' \in EventRows /\ event'.state = "waiting_retry"
      /\ event'.operation = event.operation
    BY <1>1, <1>2 DEF EventRows, EventStates, Pending
<1>4. EventInv'
    BY <1>2, <1>3 DEF Inv, EventInv, ConflictRetained, IntegrityVerdict
<1> QED BY <1>1, <1>2, <1>3, <1>4, EndedKept

LEMMA CloseKept ==
    ASSUME Inv, NEW s \in Slots, pass.waits = s, UNCHANGED <<kind, server, file>>,
           NEW state \in {"excluded_policy", "blocked_conflict", "integrity_failed"},
           CloseEvent(s, state),
           state = "blocked_conflict" => kind = "create" \/ captured \/ file # "frozen",
           state = "integrity_failed" => file # "frozen" \/ revision > 1
    PROVE  Inv'
<1>1. /\ event' = [event EXCEPT !.state = state]
      /\ pass' = [Idle EXCEPT !.barrier = (state = "blocked_conflict")]
      /\ req' = [req EXCEPT ![s] = Free]
    BY DEF CloseEvent
<1>2. /\ event \in EventRows /\ Idle \in PassStates /\ Idle.waits = 0
    BY DeviceShape
<1>3. pass' \in PassStates /\ pass'.waits = 0
    BY <1>1, <1>2 DEF PassStates
<1>4. /\ event' \in EventRows /\ event'.state = state
      /\ event'.operation = event.operation
    BY <1>1, <1>2 DEF EventRows, EventStates
<1>5. EventInv'
    BY <1>3, <1>4 DEF Inv, EventInv, ConflictRetained, IntegrityVerdict, server
<1> QED BY <1>1, <1>3, <1>4, <1>5, EndedKept

\* The receipt is read from a closed row.
LEMMA ReceiptKept ==
    ASSUME Inv, NEW s \in Slots, pass.waits = s, UNCHANGED <<kind, server, file>>,
           Terminal(row), PersistReceipt(s)
    PROVE  Inv'
<1>1. /\ event' = [event EXCEPT !.state = IF row.changed THEN "committed" ELSE "no_change",
                                !.receipt = row.result]
      /\ pass' = Idle /\ req' = [req EXCEPT ![s] = Free]
    BY DEF PersistReceipt
<1>2. event \in EventRows /\ pass' \in PassStates /\ pass'.waits = 0
    BY <1>1, DeviceShape
<1>3. /\ Types /\ RowInv /\ row.result \in Versions /\ row.changed \in BOOLEAN
      /\ published' = published /\ kind' = kind
  <2>1. OperationRow(row) /\ row.result \in Versions \cup {0} /\ row.changed \in BOOLEAN
      BY RowShape, AbsentShape DEF Inv, Terminal
  <2> QED BY <2>1 DEF OperationRow, Terminal, Inv, server
<1>4. PICK state \in {"committed", "no_change"} :
         /\ state = (IF row.changed THEN "committed" ELSE "no_change")
         /\ state = "committed" => row.changed
         /\ state = "no_change" => ~row.changed
    OBVIOUS
<1>5. PICK e \in EventRows : e = [event EXCEPT !.state = state]
    BY <1>2, <1>4 DEF EventRows, EventStates
<1>6. event' = [e EXCEPT !.receipt = row.result]
    BY <1>1, <1>4, <1>5
<1>7. row.result \in 0 .. MaxVersion
    BY <1>3 DEF Versions
<1>8. /\ event' \in EventRows /\ event'.state = state /\ event'.receipt = row.result
      /\ event'.operation = event.operation
    BY <1>2, <1>4, <1>5, <1>6, <1>7 DEF EventRows
<1>9. state = "committed" => published # 0 /\ row.result = published
    BY <1>3, <1>4 DEF RowInv, Versions
<1>10. state = "no_change" => kind = "unchanged" /\ row.result = Base
    BY <1>3, <1>4 DEF RowInv
<1>11. EventInv'
    BY <1>2, <1>3, <1>4, <1>8, <1>9, <1>10 DEF Inv, EventInv, ConflictRetained, IntegrityVerdict
<1> QED BY <1>1, <1>2, <1>8, <1>11, EndedKept

\* A grant was given to an event that changes something.
LEMMA ContentKept ==
    ASSUME Inv, NEW s \in Slots, pass.waits = s, UNCHANGED <<kind, server, file>>,
           NEW t \in Tokens, t # 0, kind # "unchanged", StreamContent(s, t)
    PROVE  Inv'
<1>1. PICK u : u = [event EXCEPT !.state = "uploading"]
    OBVIOUS
<1>2. PICK v : v = [u EXCEPT !.operation = t]
    OBVIOUS
<1>3. v = [event EXCEPT !.state = "uploading", !.operation = t]
    BY <1>1, <1>2
<1>4. event \in EventRows /\ pass \in PassStates /\ Idle \in PassStates /\ Idle.waits = 0
    BY DeviceShape
<1>5. u \in EventRows
    BY <1>1, <1>4 DEF EventRows, EventStates, Pending
<1>6. v \in EventRows /\ v.state = "uploading"
    BY <1>1, <1>2, <1>4, <1>5 DEF EventRows
<1>7. CASE file = "frozen"
  <2>1. event' = v /\ req' = [req EXCEPT ![s] = Request("receive", t)] /\ pass' = pass
      BY <1>3, <1>7 DEF StreamContent
  <2>2. RequestsInv' /\ req' \in [Slots -> Requests]
      BY <2>1, SentKept
  <2>3. EventInv'
      BY <1>6, <2>1 DEF Inv, EventInv, ConflictRetained, IntegrityVerdict, Closed, Pending
  <2> QED BY <1>4, <1>6, <2>1, <2>2, <2>3, DeviceKept
<1>8. CASE file # "frozen"
  <2>1. PICK state \in {"deferred_lifecycle", "integrity_failed"} :
           state = (IF file = "missing" THEN "deferred_lifecycle" ELSE "integrity_failed")
      OBVIOUS
  <2>2. /\ event' = [v EXCEPT !.state = state] /\ req' = [req EXCEPT ![s] = Free]
        /\ pass' = Idle
      BY <1>3, <1>8, <2>1 DEF StreamContent
  <2>3. event' \in EventRows /\ event'.state = state
      BY <1>6, <2>1, <2>2 DEF EventRows, EventStates
  <2>4. EventInv'
      BY <1>4, <1>8, <2>1, <2>2, <2>3 DEF Inv, EventInv, ConflictRetained, IntegrityVerdict
  <2> QED BY <1>4, <2>2, <2>3, <2>4, EndedKept
<1> QED BY <1>7, <1>8

\* The candidate of a conflict; a file that changed needs none.
LEMMA StreamCandidateKept ==
    ASSUME Inv, NEW s \in Slots, pass.waits = s, UNCHANGED <<kind, server, file>>,
           req[s].token # 0, StreamConflictCandidate(s)
    PROVE  Inv'
<1>1. CASE file = "frozen"
  <2>1. /\ req' = [req EXCEPT ![s] = Request("capture", req[s].token)]
        /\ UNCHANGED <<event, pass>>
      BY <1>1 DEF StreamConflictCandidate
  <2>2. PICK t \in Tokens \cup {0} : t = req[s].token
      BY Learned DEF Requests
  <2>3. RequestsInv' /\ req' \in [Slots -> Requests]
      BY <2>1, <2>2, SentKept
  <2>4. EventInv'
      BY <2>1 DEF Inv, EventInv, ConflictRetained, IntegrityVerdict, Closed, server
  <2>5. event' \in EventRows /\ pass' \in PassStates
      BY <2>1, DeviceShape
  <2> QED BY <2>3, <2>4, <2>5, DeviceKept
<1>2. CASE file # "frozen"
  <2>1. CloseEvent(s, "blocked_conflict")
      BY <1>2 DEF StreamConflictCandidate
  <2> QED BY <1>2, <2>1, CloseKept
<1> QED BY <1>1, <1>2

LEMMA FailureAnswered ==
    ASSUME Inv, NEW s \in Slots, pass.waits = s, UNCHANGED <<kind, server, file>>, OnFailure(s)
    PROVE  Inv'
<1>1. Answered(s)
    BY Learned
<1>2. PICK f \in {"integrity_failed", "blocked_conflict", "retry"} :
         /\ f = WireFailure(req[s].answer)
         /\ f = "integrity_failed" => req[s].answer \in {"integrity", "mismatch"}
         /\ f = "blocked_conflict" => req[s].answer = "occupied"
    BY DEF WireFailure
<1>3. CASE f = "retry"
    BY <1>2, <1>3, RetryKept DEF OnFailure
<1>4. CASE f # "retry"
  <2>1. CloseEvent(s, f)
      BY <1>2, <1>4 DEF OnFailure
  <2>2. f = "blocked_conflict" => kind = "create"
      BY <1>1, <1>2 DEF Answered
  <2>3. f = "integrity_failed" => revision > 1
      BY <1>1, <1>2 DEF Answered
  <2> QED BY <1>2, <1>4, <2>1, <2>2, <2>3, CloseKept
<1> QED BY <1>3, <1>4

LEMMA OnPreflightKept ==
    ASSUME Inv, NEW s \in Slots, OnPreflight(s)
    PROVE  Inv'
<1>1. UNCHANGED <<kind, server, file>> /\ pass.waits = s
    BY DEF OnPreflight, Got
<1>2. Answered(s) /\ EventInv /\ event.operation \in Tokens \cup {0}
      /\ req[s].token \in Tokens \cup {0}
    BY Learned, DeviceShape DEF EventRows, Requests
<1>3. CASE req[s].answer = "excluded"
  <2>1. CloseEvent(s, "excluded_policy")
      BY <1>3 DEF OnPreflight
  <2> QED BY <1>1, <2>1, CloseKept
<1>4. CASE req[s].answer = "conflict"
  <2>1. CloseEvent(s, "blocked_conflict") /\ captured
      BY <1>2, <1>4 DEF OnPreflight, Answered
  <2> QED BY <1>1, <2>1, CloseKept
<1>5. CASE req[s].answer = "capture_grant"
  <2>1. StreamConflictCandidate(s) /\ req[s].token # 0
      BY <1>2, <1>5 DEF OnPreflight, Answered
  <2> QED BY <1>1, <2>1, StreamCandidateKept
<1>6. CASE req[s].answer = "result"
  <2>1. PersistReceipt(s) /\ Terminal(row)
      BY <1>2, <1>6 DEF OnPreflight, Answered
  <2> QED BY <1>1, <2>1, ReceiptKept
<1>7. CASE req[s].answer = "grant"
  <2>1. StreamContent(s, req[s].token) /\ req[s].token # 0 /\ kind # "unchanged"
      BY <1>2, <1>7 DEF OnPreflight, Answered
  <2>2. PICK t \in Tokens : t = req[s].token
      BY <1>2, <2>1
  <2> QED BY <1>1, <2>1, <2>2, ContentKept
<1>8. CASE req[s].answer = "state_invalid" /\ ClaimedResume
  <2>1. StreamContent(s, event.operation) /\ event.operation # 0
      BY <1>8 DEF OnPreflight, ClaimedResume
  <2>2. kind # "unchanged"
      BY <1>2, <2>1 DEF EventInv
  <2>3. PICK t \in Tokens : t = event.operation
      BY <1>2, <2>1
  <2> QED BY <1>1, <2>1, <2>2, <2>3, ContentKept
<1>9. CASE req[s].answer = "state_invalid" /\ ~ClaimedResume
  <2>1. ScheduleRetry(s)
      BY <1>9 DEF OnPreflight
  <2> QED BY <1>1, <2>1, RetryKept
<1>10. CASE OnFailure(s)
    BY <1>1, <1>10, FailureAnswered
<1> QED BY <1>3, <1>4, <1>5, <1>6, <1>7, <1>8, <1>9, <1>10 DEF OnPreflight

LEMMA OnContentKept ==
    ASSUME Inv, NEW s \in Slots, OnReceive(s) \/ OnCapture(s)
    PROVE  Inv'
<1>1. UNCHANGED <<kind, server, file>> /\ pass.waits = s
    BY DEF OnReceive, OnCapture, Got
<1>2. Answered(s)
    BY Learned
<1>3. CASE OnReceive(s) /\ req[s].answer = "result"
  <2>1. PersistReceipt(s) /\ Terminal(row)
      BY <1>2, <1>3 DEF OnReceive, Answered
  <2> QED BY <1>1, <2>1, ReceiptKept
<1>4. CASE OnCapture(s) /\ req[s].answer = "captured"
  <2>1. CloseEvent(s, "blocked_conflict") /\ captured
      BY <1>2, <1>4 DEF OnCapture, Answered
  <2> QED BY <1>1, <2>1, CloseKept
<1>5. CASE OnFailure(s)
    BY <1>1, <1>5, FailureAnswered
<1> QED BY <1>3, <1>4, <1>5 DEF OnReceive, OnCapture

LEMMA RunPassKept ==
    ASSUME Inv, RunPass
    PROVE  Inv'
<1>1. PICK s \in Slots :
         /\ req' = [req EXCEPT ![s] = Request("preflight", 0)]
         /\ pass' = [pass EXCEPT !.waits = s, !.seen = event.state]
    BY DEF RunPass
<1>2. /\ UNCHANGED <<kind, server, file>> /\ pass.waits = 0 /\ ~Closed
      /\ event' = [event EXCEPT !.state = IF @ \in {"queued", "waiting_retry"}
                                          THEN "preflight" ELSE @]
    BY DEF RunPass
<1>3. event \in EventRows /\ pass \in PassStates
    BY DeviceShape
<1>4. PICK p \in PassStates : p = [pass EXCEPT !.waits = s]
    BY <1>3 DEF PassStates
<1>5. pass' = [p EXCEPT !.seen = event.state]
    BY <1>1, <1>4
<1>6. pass' \in PassStates /\ pass'.waits = s
    BY <1>3, <1>4, <1>5 DEF PassStates, EventRows
<1>7. RequestsInv' /\ req' \in [Slots -> Requests]
    BY <1>1, <1>2, <1>6, SentKept
<1>8. /\ event' \in EventRows /\ event'.state \in Pending
      /\ event'.operation = event.operation
    BY <1>2, <1>3 DEF EventRows, EventStates, Pending, Closed
<1>9. EventInv'
    BY <1>2, <1>8 DEF Inv, EventInv, ConflictRetained, IntegrityVerdict, Closed, Pending
<1> QED BY <1>2, <1>6, <1>7, <1>8, <1>9, DeviceKept

\* A request the device left behind keeps what it has learned; an answer is lost.
LEMMA AbandonKept ==
    ASSUME Inv, NEW s \in Slots, pass.waits = s, pass' = Idle, UNCHANGED <<kind, server>>,
           req' = [req EXCEPT ![s] = IF @.pc = "done" THEN Free ELSE @]
    PROVE  RequestsInv' /\ req' \in [Slots -> Requests]
<1>1. pass'.waits = 0
    BY DeviceShape
<1>2. /\ Types /\ RequestsInv /\ req \in [Slots -> Requests] /\ s # 0 /\ Staged(s)
      /\ Answered(s) /\ req[s] \in Requests
    BY Learned DEF Types
<1>3. CASE req[s].pc = "done"
  <2>1. req' = [req EXCEPT ![s] = Free]
      BY <1>3
  <2> QED BY <1>1, <2>1, FreedKept
<1>4. CASE req[s].pc # "done"
  <2>1. req' = req
      BY <1>2, <1>4
  <2>2. Grows /\ revision' = revision /\ kind' = kind /\ captured' = captured
        /\ published' = published /\ excluded' = excluded
      BY ReadKept DEF server
  <2>3. Others(s) /\ Waiting(s)
      BY <1>1, <2>1 DEF Others, Waiting
  <2>4. Staged(s)'
      BY <1>2, <2>1, <2>2 DEF Staged
  <2>5. Terminal(row) => Terminal(row)'
      BY ReadKept DEF Terminal
  <2>6. Answered(s)'
      BY <1>1, <1>2, <1>4, <2>1, <2>2, <2>5 DEF Answered
  <2> QED BY <1>2, <2>1, <2>2, <2>3, <2>4, <2>6, RequestsKept
<1> QED BY <1>3, <1>4

LEMMA AbandonedKept ==
    ASSUME Inv, Timeout \/ Crash
    PROVE  Inv'
<1>1. PICK s \in Slots : s = pass.waits
    BY DeviceShape DEF Timeout, Crash, PassStates
<1>2. /\ UNCHANGED <<kind, server, file>> /\ pass' = Idle
      /\ req' = [req EXCEPT ![s] = IF @.pc = "done" THEN Free ELSE @]
    BY <1>1 DEF Timeout, Crash
<1>3. RequestsInv' /\ req' \in [Slots -> Requests]
    BY <1>1, <1>2, AbandonKept
<1>4. event \in EventRows /\ pass' \in PassStates /\ pass'.waits = 0
    BY <1>2, DeviceShape
<1>5. event' = [event EXCEPT !.state = "waiting_retry"] \/ event' = event
    BY DEF Timeout, Crash
<1>6. /\ event' \in EventRows /\ event'.operation = event.operation
      /\ event'.state = "waiting_retry" \/ event' = event
    BY <1>4, <1>5 DEF EventRows, EventStates, Pending
<1>7. EventInv'
    BY <1>2, <1>4, <1>6 DEF Inv, EventInv, ConflictRetained, IntegrityVerdict, server
<1> QED BY <1>2, <1>3, <1>4, <1>6, <1>7, DeviceKept
-------------------------------------------------------------------------------
(* What is proved.                                                         *)

LEMMA InitInv == Init => Inv
<1> SUFFICES ASSUME Init PROVE Inv
    OBVIOUS
<1>1. Absent \in Rows(Tokens, Revisions, Versions) /\ Absent.revision = 0 /\ Absent.state = "absent"
    BY DEF Absent, Rows, OperationStates
<1>2. Free \in Requests /\ Free.kind = "free" /\ Free.pc = "done" /\ Free.revision = 0
          /\ Free.answer = "none"
    BY DEF Free, Requests, Answers
<1>3. Types
  <2>1. source \in [version : 0 .. MaxVersion, gone : BOOLEAN]
      BY DEF Init, Base
  <2>2. event \in EventRows
      BY DEF Init, EventRows, EventStates, Pending
  <2>3. pass \in PassStates
      BY DEF Init, PassStates
  <2>4. req \in [Slots -> Requests]
      BY <1>2 DEF Init
  <2>5. 1 \in Revisions /\ 0 \in 0 .. MaxVersion
      BY DEF Revisions
  <2> QED BY <1>1, <2>1, <2>2, <2>3, <2>4, <2>5 DEF Init, Types
<1>4. RowInv
    BY <1>1 DEF Init, RowInv, Terminal
<1>5. RequestsInv
    BY <1>2 DEF Init, RequestsInv, Staged, Answered
<1>6. EventInv
    BY DEF Init, EventInv, Closed, ConflictRetained, IntegrityVerdict, Pending
<1> QED BY <1>3, <1>4, <1>5, <1>6 DEF Inv

LEMMA StutterInv == Inv /\ UNCHANGED vars => Inv'
<1> SUFFICES ASSUME Inv, UNCHANGED vars PROVE Inv'
    OBVIOUS
<1>1. /\ UNCHANGED <<kind, row, revision, excluded, source, published, captured, req, event,
                    pass, file>>
      /\ RowMoves /\ captured' = captured
    BY DEF vars, server, device, RowMoves
<1>2. Types /\ RowInv
    BY DEF Inv
<1>3. RowInv' /\ Grows
    BY <1>1, <1>2, RowUntouched
<1> QED BY <1>1, <1>2, <1>3, EnvironmentKept DEF Types

LEMMA NextInv == Inv /\ [Next]_vars => Inv' /\ (published' # published => ~excluded)
<1> SUFFICES ASSUME Inv, [Next]_vars PROVE Inv' /\ (published' # published => ~excluded)
    OBVIOUS
<1>1. CASE DeviceStep
  <2>1. Inv'
      BY <1>1, RunPassKept, OnPreflightKept, OnContentKept DEF DeviceStep
  <2>2. published' = published
      BY <1>1 DEF DeviceStep, RunPass, OnPreflight, OnReceive, OnCapture, server
  <2> QED BY <2>1, <2>2
<1>2. CASE \E s \in Slots : ServerStep(s)
    BY <1>2, ServerStepKept
<1>3. CASE Environment
  <2>1. Inv'
      BY <1>3, PolicyKept, OutsideKept, AbandonedKept, DropKept DEF Environment
  <2>2. published' = published
      BY <1>3 DEF Environment, PublishPolicy, OtherWrite, OtherDelete, ExpireOperation, EditFile,
         Timeout, Crash, Drop, server
  <2> QED BY <2>1, <2>2
<1>4. CASE UNCHANGED vars
  <2>1. published' = published
      BY <1>4 DEF vars, server
  <2> QED BY <1>4, <2>1, StutterInv
<1> QED BY <1>1, <1>2, <1>3, <1>4 DEF Next, Done

\* The inductive invariant: what the row says was published, what each request has
\* learned is so, and the journal event was closed for the reason it gives.
THEOREM InvHolds == Spec => []Inv
<1>1. Inv /\ [Next]_vars => Inv'
    BY NextInv
<1> QED BY InitInv, <1>1, PTL DEF Spec

\* A version exists for the event exactly when its row says so, the receipt of the
\* device names it, and a conflict or a lost integrity was really one: with any number
\* of orphaned requests, timeouts, crashes and policy revisions.
THEOREM SmallSafeHolds == Spec => []SmallSafe
<1>1. Inv => SmallSafe
  <2> SUFFICES ASSUME Inv PROVE SmallSafe
      OBVIOUS
  <2>1. Types /\ RowInv /\ RequestsInv /\ EventInv
      BY DEF Inv
  <2>2. row # Absent => OperationRow(row)
      BY <2>1 DEF RowInv
  <2>3. TypeOK
    <3>1. row.state # "absent" => row.token # 0
        BY <2>1, <2>2, RowShape DEF OperationRow, Absent
    <3>2. source.version \in 0 .. MaxVersion /\ event.state \in EventStates
          /\ event.operation \in Tokens \cup {0} /\ pass.waits \in Slots \cup {0}
        BY <2>1 DEF Types, EventRows, PassStates
    <3>3. \A s \in Slots : req[s].kind \in {"free", "preflight", "receive", "capture"}
        BY <2>1 DEF Types, Requests
    <3> QED BY <2>1, <3>1, <3>2, <3>3 DEF TypeOK, Types
  <2>4. FencedPublication
    <3>1. Terminal(row) => row.result # 0
        BY <2>1, RowShape, AbsentShape DEF Terminal, OperationRow
    <3>2. row.changed \in BOOLEAN /\ published \in Nat
        BY <2>1, RowShape DEF Types
    <3> QED BY <2>1, <3>1, <3>2 DEF RowInv, FencedPublication
  <2>5. ReceiptTrue
      BY <2>1 DEF RowInv, EventInv, ReceiptTrue
  <2> QED BY <2>1, <2>2, <2>3, <2>4, <2>5 DEF SmallSafe, EventInv
<1> QED BY InvHolds, <1>1, PTL

\* A version is published only while the active policy allows the file, whichever
\* request publishes it.
THEOREM PublishedAsAllowedHolds == Spec => PublishedAsAllowed
<1>1. Inv /\ [Next]_vars => [published' # published => ~excluded]_vars
    BY NextInv
<1> QED BY InvHolds, <1>1, PTL DEF Spec, PublishedAsAllowed
=============================================================================
