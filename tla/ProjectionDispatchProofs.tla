----------------------- MODULE ProjectionDispatchProofs -----------------------
(***************************************************************************)
(* The outbox of ProjectionDispatch, for every set of events and workers,  *)
(* every batch limit and any number of faults: leases are counted exactly  *)
(* once, a row never claims more of a workflow than happened, and a        *)
(* settled row stays as it is.                                             *)
(*                                                                         *)
(* A worker learns the workflow's state in one step and writes the row in  *)
(* another, so the invariant also says what a task at work has learnt      *)
(* ("TaskTrue") and that a lease token is never given twice ("RowOK" and   *)
(* "TokensUnique"): what a stale worker has learnt stays true of its       *)
(* workflow, and its write meets a row with another token.                 *)
(***************************************************************************)
EXTENDS ProjectionDispatch, FiniteSetTheorems, TLAPS

-------------------------------------------------------------------------------
(* The inductive invariant.                                                *)

Statuses == {"absent", "pending", "leased", "dispatched", "terminal"}
Row == [status : Statuses, token : Nat, attempts : Nat, ready : BOOLEAN, expired : BOOLEAN,
        error : BOOLEAN]
TaskRecord ==
    [id : SourceIntents \ Transitions, token : Nat,
     step : {"start", "acknowledge", "release", "terminal"}]
Flow == {"none", "running", "completed", "failed"}

Shapes ==
    /\ intents \in [Ids -> Row]
    /\ flows \in [Events -> Flow]
    /\ work \in [Dispatchers -> [pc : {"reclaim", "claim", "dispatch"}, tasks : SUBSET TaskRecord]]
    /\ token \in Nat
    /\ granted \in [Ids -> Nat]

\* A row that n leases were granted on, when tokens up to top have been given.
RowOK(id, row, n, top) ==
    /\ (row.status = "leased") <=> (row.token # 0)
    /\ row.status = "absent" => row = Absent
    /\ row.status = "terminal" => row.error
    /\ row.token <= top
    /\ row.attempts + (IF row.status = "leased" THEN 1 ELSE 0) = n
    /\ id \in Transitions => row = Inserted

\* What a row may claim of its workflow.
ClaimOK(row, flow) ==
    /\ row.status = "dispatched" => flow # "none"
    /\ row.status = "terminal" => flow = "failed"

TokensUnique ==
    \A a, b \in Ids : intents[a].token = intents[b].token /\ a # b => intents[a].token = 0

\* What a task at work has learnt of its workflow.
TaskOK(task, flow) ==
    /\ task.step = "acknowledge" => flow # "none"
    /\ task.step = "terminal" => flow = "failed"

TaskTrue == \A d \in Dispatchers : \A task \in work[d].tasks : TaskOK(task, flows[task.id[1]])

RowsOK == \A id \in Ids : RowOK(id, intents[id], granted[id], token)
ClaimsOK == \A id \in SourceIntents : ClaimOK(intents[id], flows[id[1]])

Inv == Shapes /\ RowsOK /\ TokensUnique /\ ClaimsOK /\ TaskTrue

-------------------------------------------------------------------------------
(* The statements.                                                         *)

LEMMA RowFields ==
    /\ Inserted.status = "pending" /\ Inserted.token = 0 /\ Inserted.attempts = 0
    /\ Absent.status = "absent" /\ Absent.token = 0 /\ Absent.attempts = 0
    /\ Absent \in Row /\ Inserted \in Row
<1>1. /\ Absent.status = "absent" /\ Absent.token = 0 /\ Absent.attempts = 0
      /\ Absent \in Row
  BY DEF Absent, Row, Statuses
<1>2. Inserted = [[Absent EXCEPT !.status = "pending"] EXCEPT !.ready = TRUE]
  BY DEF Inserted
<1>3. PICK x : x = [Absent EXCEPT !.status = "pending"]
  OBVIOUS
<1>4. x \in Row /\ x.status = "pending" /\ x.token = 0 /\ x.attempts = 0
  BY <1>1, <1>3 DEF Row, Statuses
<1>5. Inserted = [x EXCEPT !.ready = TRUE]
  BY <1>2, <1>3
<1>6. Inserted \in Row /\ Inserted.status = "pending" /\ Inserted.token = 0 /\ Inserted.attempts = 0
  BY <1>4, <1>5 DEF Row
<1> QED
  BY <1>1, <1>6

\* What ends a lease counts the attempt and takes the token away.
Ends(row, after, status) ==
    /\ after \in Row /\ after.status = status /\ after.token = 0
    /\ after.attempts = row.attempts + 1
    /\ status = "terminal" => after.error

LEMMA EndedFields ==
    ASSUME NEW row \in Row, NEW status \in {"pending", "dispatched", "terminal"}
    PROVE  /\ Ended(row, status) \in Row /\ Ended(row, status).status = status
           /\ Ended(row, status).token = 0 /\ Ended(row, status).attempts = row.attempts + 1
<1>1. PICK a : a = [row EXCEPT !.status = status]
  OBVIOUS
<1>2. a \in Row /\ a.status = status /\ a.attempts = row.attempts
  BY <1>1 DEF Row, Statuses
<1>3. PICK b : b = [a EXCEPT !.token = 0]
  OBVIOUS
<1>4. b \in Row /\ b.status = status /\ b.token = 0 /\ b.attempts = row.attempts
  BY <1>2, <1>3 DEF Row
<1>5. PICK c : c = [b EXCEPT !.attempts = row.attempts + 1]
  OBVIOUS
<1>6. c \in Row /\ c.status = status /\ c.token = 0 /\ c.attempts = row.attempts + 1
  <2>1. row.attempts + 1 \in Nat
    BY DEF Row
  <2> QED
    BY <1>4, <1>5, <2>1 DEF Row
<1>7. Ended(row, status) = [c EXCEPT !.expired = FALSE]
  BY <1>1, <1>3, <1>5 DEF Ended
<1> QED
  BY <1>6, <1>7 DEF Row

LEMMA EndsFields ==
    ASSUME NEW row \in Row
    PROVE  /\ Ends(row, ReclaimLease(row), "pending") /\ Ends(row, ReleaseRetry(row), "pending")
           /\ Ends(row, MarkTerminal(row), "terminal")
           /\ Ends(row, AcknowledgeDispatched(row), "dispatched")
<1>1. ASSUME NEW r \in Row
      PROVE  /\ BackingOff(r) \in Row /\ BackingOff(r).status = r.status
             /\ BackingOff(r).token = r.token /\ BackingOff(r).attempts = r.attempts
  <2>1. PICK x : x = [r EXCEPT !.ready = FALSE]
    OBVIOUS
  <2>2. /\ x \in Row /\ x.status = r.status /\ x.token = r.token /\ x.attempts = r.attempts
        /\ BackingOff(r) = [x EXCEPT !.error = TRUE]
    BY <2>1 DEF Row, BackingOff
  <2> QED
    BY <2>2 DEF Row
<1>2. ASSUME NEW r \in Row, NEW b \in BOOLEAN
      PROVE  /\ [r EXCEPT !.error = b] \in Row /\ [r EXCEPT !.error = b].status = r.status
             /\ [r EXCEPT !.error = b].token = r.token /\ [r EXCEPT !.error = b].error = b
             /\ [r EXCEPT !.error = b].attempts = r.attempts
  BY DEF Row
<1>3. Ends(row, ReclaimLease(row), "pending") /\ Ends(row, ReleaseRetry(row), "pending")
  <2>1. PICK x : x = Ended(row, "pending")
    OBVIOUS
  <2>2. x \in Row /\ x.status = "pending" /\ x.token = 0 /\ x.attempts = row.attempts + 1
    BY <2>1, EndedFields
  <2> QED
    BY <1>1, <2>1, <2>2 DEF Ends, ReclaimLease, ReleaseRetry
<1>4. Ends(row, MarkTerminal(row), "terminal")
  <2>1. PICK x : x = Ended(row, "terminal")
    OBVIOUS
  <2>2. MarkTerminal(row) = [x EXCEPT !.error = TRUE]
    BY <2>1 DEF MarkTerminal
  <2>3. x \in Row /\ x.status = "terminal" /\ x.token = 0 /\ x.attempts = row.attempts + 1
    BY <2>1, EndedFields
  <2>4. /\ MarkTerminal(row) \in Row /\ MarkTerminal(row).status = "terminal"
        /\ MarkTerminal(row).token = 0 /\ MarkTerminal(row).attempts = row.attempts + 1
    BY <1>2, <2>2, <2>3
  <2>5. MarkTerminal(row).error
    BY <2>2, <2>3 DEF Row
  <2> QED
    BY <2>4, <2>5 DEF Ends
<1>5. Ends(row, AcknowledgeDispatched(row), "dispatched")
  <2>1. PICK x : x = Ended(row, "dispatched")
    OBVIOUS
  <2>2. AcknowledgeDispatched(row) = [x EXCEPT !.error = FALSE]
    BY <2>1 DEF AcknowledgeDispatched
  <2>3. x \in Row /\ x.status = "dispatched" /\ x.token = 0 /\ x.attempts = row.attempts + 1
    BY <2>1, EndedFields
  <2>4. /\ AcknowledgeDispatched(row) \in Row /\ AcknowledgeDispatched(row).status = "dispatched"
        /\ AcknowledgeDispatched(row).token = 0
        /\ AcknowledgeDispatched(row).attempts = row.attempts + 1
    BY <1>2, <2>2, <2>3
  <2> QED
    BY <2>4 DEF Ends
<1> QED
  BY <1>3, <1>4, <1>5

LEMMA LeaseFields ==
    ASSUME NEW row \in Row, NEW t \in Nat
    PROVE  /\ LeaseUpdate(row, t) \in Row
           /\ LeaseUpdate(row, t).status = "leased" /\ LeaseUpdate(row, t).token = t
           /\ LeaseUpdate(row, t).attempts = row.attempts
BY DEF LeaseUpdate, Row, Statuses

LEMMA SourceIsId ==
    /\ \A id \in SourceIntents : id \in Ids /\ id[1] \in Events
    /\ \A id \in Ids : Origin(id) = "source_event" => id \in SourceIntents \ Transitions
    /\ \A e \in Events, k \in Kinds : <<e, k>> \in Ids
    /\ IsFiniteSet(Ids)
<1>1. IsFiniteSet(Kinds) /\ IsFiniteSet(Transitions)
  <2>1. IsFiniteSet({"qdrant"}) /\ IsFiniteSet({"neo4j"}) /\ IsFiniteSet({<<Revision, "qdrant">>})
    BY FS_Singleton
  <2>2. Kinds = {"qdrant"} \cup {"neo4j"}
    BY DEF Kinds
  <2> QED
    BY <2>1, <2>2, FS_Union DEF Transitions
<1>2. IsFiniteSet(Ids)
  BY <1>1, EventsAssumption, FS_Product, FS_Union DEF Ids, SourceIntents
<1> QED
  BY <1>2 DEF SourceIntents, Ids, Origin

-------------------------------------------------------------------------------
(* The kinds of a step.                                                    *)

\* No row but those in a set changes, and these end a lease.
LEMMA RowsEnd ==
    ASSUME Inv, NEW S \in SUBSET Ids, intents' \in [Ids -> Row], UNCHANGED <<token, granted>>,
           \A id \in Ids \ S : intents'[id] = intents[id],
           \A id \in S :
              /\ intents[id].status = "leased"
              /\ \E status \in {"pending", "dispatched", "terminal"} :
                    /\ Ends(intents[id], intents'[id], status)
                    /\ id \in SourceIntents => ClaimOK([status |-> status], flows'[id[1]]),
           \A id \in SourceIntents : ClaimOK(intents[id], flows[id[1]])
                                       => ClaimOK(intents[id], flows'[id[1]])
    PROVE  RowsOK' /\ TokensUnique' /\ ClaimsOK'
<1>0. Shapes /\ RowsOK /\ TokensUnique /\ ClaimsOK
  BY DEF Inv
<1>1. ASSUME NEW id \in S
      PROVE  /\ RowOK(id, intents'[id], granted[id], token)
             /\ id \in SourceIntents => ClaimOK(intents'[id], flows'[id[1]])
             /\ intents'[id].token = 0
  <2>1. PICK status \in {"pending", "dispatched", "terminal"} :
              /\ Ends(intents[id], intents'[id], status)
              /\ id \in SourceIntents => ClaimOK([status |-> status], flows'[id[1]])
    OBVIOUS
  <2>2. RowOK(id, intents[id], granted[id], token) /\ intents[id].status = "leased"
    BY <1>0 DEF RowsOK
  <2>3. id \notin Transitions
    BY <2>2, RowFields DEF RowOK
  <2>4. intents[id].attempts + 1 = granted[id]
    BY <2>2 DEF RowOK
  <2>5. RowOK(id, intents'[id], granted[id], token)
    BY <1>0, <2>1, <2>3, <2>4 DEF Ends, RowOK, Shapes
  <2>6. id \in SourceIntents => ClaimOK(intents'[id], flows'[id[1]])
    BY <2>1 DEF Ends, ClaimOK
  <2> QED
    BY <2>1, <2>5, <2>6 DEF Ends
<1>2. RowsOK'
  BY <1>0, <1>1 DEF RowsOK
<1>3. TokensUnique'
  BY <1>0, <1>1 DEF TokensUnique
<1>4. ClaimsOK'
  BY <1>0, <1>1, SourceIsId DEF ClaimsOK
<1> QED
  BY <1>2, <1>3, <1>4

\* Rows stay where they are.
LEMMA RowsStay ==
    ASSUME Inv, UNCHANGED <<intents, token, granted>>,
           \A id \in SourceIntents : ClaimOK(intents[id], flows[id[1]])
                                       => ClaimOK(intents[id], flows'[id[1]])
    PROVE  RowsOK' /\ TokensUnique' /\ ClaimsOK'
BY DEF Inv, RowsOK, TokensUnique, ClaimsOK

\* A workflow only moves on.
Onward(e) == flows[e] = "none" \/ flows'[e] = flows[e] \/ (flows[e] = "running" /\ flows'[e] # "none")

LEMMA OnwardKeeps ==
    ASSUME NEW e, Onward(e)
    PROVE  /\ \A row : ClaimOK(row, flows[e]) => ClaimOK(row, flows'[e])
           /\ \A task : TaskOK(task, flows[e]) => TaskOK(task, flows'[e])
BY DEF Onward, ClaimOK, TaskOK

\* Worker d's tasks change and nobody else's.
LEMMA TasksKeep ==
    ASSUME Inv, NEW d \in Dispatchers, NEW w,
           w \in [pc : {"reclaim", "claim", "dispatch"}, tasks : SUBSET TaskRecord],
           work' = [work EXCEPT ![d] = w],
           \A e \in Events : Onward(e),
           \A task \in w.tasks : task \in work[d].tasks \/ TaskOK(task, flows'[task.id[1]])
    PROVE  /\ work' \in [Dispatchers -> [pc : {"reclaim", "claim", "dispatch"},
                                          tasks : SUBSET TaskRecord]]
           /\ TaskTrue'
<1>0. Shapes /\ TaskTrue
  BY DEF Inv
<1>1. \A task \in TaskRecord : task.id[1] \in Events
  BY SourceIsId DEF TaskRecord
<1>2. ASSUME NEW c \in Dispatchers, NEW task \in work[c].tasks
      PROVE  TaskOK(task, flows'[task.id[1]])
  BY <1>0, <1>1, OnwardKeeps DEF TaskTrue, Shapes
<1>3. ASSUME NEW c \in Dispatchers, NEW task \in work'[c].tasks
      PROVE  TaskOK(task, flows'[task.id[1]])
  BY <1>0, <1>2 DEF Shapes
<1> QED
  BY <1>0, <1>3 DEF Shapes, TaskTrue

\* One row changes its flags.
LEMMA FlagKeeps ==
    ASSUME Inv, NEW id \in Ids, NEW r \in Row, intents' = [intents EXCEPT ![id] = r],
           r.status = intents[id].status, r.token = intents[id].token,
           r.attempts = intents[id].attempts, r.error = intents[id].error,
           intents[id].status # "absent", intents[id] # Inserted,
           UNCHANGED <<flows, work, token, granted>>
    PROVE  Inv'
<1>0. Shapes /\ RowsOK /\ TokensUnique /\ ClaimsOK /\ TaskTrue
  BY DEF Inv
<1>1. Shapes' /\ \A x \in Ids : intents'[x] = IF x = id THEN r ELSE intents[x]
  BY <1>0 DEF Shapes
<1>2. RowsOK'
  <2>1. RowOK(id, r, granted[id], token)
    BY <1>0 DEF RowsOK, RowOK
  <2> QED
    BY <1>0, <1>1, <2>1 DEF RowsOK
<1>3. TokensUnique'
  BY <1>0, <1>1 DEF TokensUnique
<1>4. ClaimsOK'
  <2>1. ASSUME NEW x \in SourceIntents
        PROVE  ClaimOK(intents'[x], flows[x[1]])
    BY <1>0, <1>1, SourceIsId DEF ClaimsOK, ClaimOK
  <2> QED
    BY <2>1 DEF ClaimsOK
<1>5. TaskTrue'
  BY <1>0 DEF TaskTrue
<1> QED
  BY <1>1, <1>2, <1>3, <1>4, <1>5 DEF Inv

\* Tasks change, rows do not.
LEMMA WorkKeeps ==
    ASSUME Inv, NEW d \in Dispatchers, NEW w,
           w \in [pc : {"reclaim", "claim", "dispatch"}, tasks : SUBSET TaskRecord],
           work' = [work EXCEPT ![d] = w], UNCHANGED <<intents, token, granted>>,
           flows' \in [Events -> Flow], \A e \in Events : Onward(e),
           \A task \in w.tasks : task \in work[d].tasks \/ TaskOK(task, flows'[task.id[1]])
    PROVE  Inv'
<1>1. RowsOK' /\ TokensUnique' /\ ClaimsOK'
  BY RowsStay, OnwardKeeps, SourceIsId
<1>2. Shapes' /\ TaskTrue'
  <2>1. /\ work' \in [Dispatchers -> [pc : {"reclaim", "claim", "dispatch"},
                                      tasks : SUBSET TaskRecord]]
        /\ TaskTrue'
    BY TasksKeep
  <2> QED
    BY <2>1 DEF Inv, Shapes
<1> QED
  BY <1>1, <1>2 DEF Inv

\* The new state of a worker whose task goes on or ends.
LEMMA StepFields ==
    ASSUME Inv, NEW d \in Dispatchers, NEW task \in work[d].tasks,
           NEW step \in {"acknowledge", "release", "terminal"}
    PROVE  /\ task \in TaskRecord /\ task.id \in SourceIntents /\ task.id \in Ids
           /\ task.id[1] \in Events
           /\ [task EXCEPT !.step = step] \in TaskRecord
           /\ [task EXCEPT !.step = step].step = step /\ [task EXCEPT !.step = step].id = task.id
           /\ Done(d, task) =>
                work' = [work EXCEPT ![d] = [pc |-> work[d].pc, tasks |-> work[d].tasks \ {task}]]
           /\ work[d].pc \in {"reclaim", "claim", "dispatch"}
           /\ work[d].tasks \subseteq TaskRecord
<1>1. work[d] \in [pc : {"reclaim", "claim", "dispatch"}, tasks : SUBSET TaskRecord]
  BY DEF Inv, Shapes
<1>2. /\ work[d] = [pc |-> work[d].pc, tasks |-> work[d].tasks]
      /\ work[d].pc \in {"reclaim", "claim", "dispatch"} /\ work[d].tasks \subseteq TaskRecord
  BY <1>1
<1>3. task \in TaskRecord
  BY <1>2
<1>4. task.id \in SourceIntents
  BY <1>3 DEF TaskRecord
<1>5. /\ [task EXCEPT !.step = step] \in TaskRecord
      /\ [task EXCEPT !.step = step].step = step /\ [task EXCEPT !.step = step].id = task.id
  BY <1>3 DEF TaskRecord
<1>6. \A S : [work[d] EXCEPT !.tasks = S] = [pc |-> work[d].pc, tasks |-> S]
  BY <1>2
<1>8. Done(d, task) =>
        work' = [work EXCEPT ![d] = [work[d] EXCEPT !.tasks = work[d].tasks \ {task}]]
  BY DEF Done
<1> QED
  BY <1>2, <1>3, <1>4, <1>5, <1>6, <1>8, SourceIsId


-------------------------------------------------------------------------------
(* The actions.                                                            *)

LEMMA PublishKeeps ==
    ASSUME Inv, NEW e \in Events, PublishEvent(e)
    PROVE  Inv'
<1>0. Shapes /\ RowsOK /\ TokensUnique /\ ClaimsOK /\ TaskTrue
  BY DEF Inv
<1>1. /\ intents' = [id \in Ids |-> IF id[1] = e THEN Inserted ELSE intents[id]]
      /\ \A k \in Kinds : intents[<<e, k>>] = Absent
      /\ UNCHANGED <<flows, work, token, granted>>
  BY DEF PublishEvent
<1>2. Shapes'
  BY <1>0, <1>1, RowFields DEF Shapes
<1>3. ASSUME NEW id \in Ids, id[1] = e
      PROVE  intents[id] = Absent
  <2>1. id \in SourceIntents => \E k \in Kinds : id = <<e, k>>
    BY <1>3 DEF SourceIntents
  <2>2. id \in Transitions => id = <<e, "qdrant">> /\ "qdrant" \in Kinds
    BY <1>3 DEF Transitions, Kinds
  <2> QED
    BY <1>1, <2>1, <2>2 DEF Ids
<1>4. RowsOK'
  <2>1. ASSUME NEW id \in Ids
        PROVE  RowOK(id, intents'[id], granted[id], token)
    <3>1. RowOK(id, intents[id], granted[id], token) /\ token \in Nat /\ granted[id] \in Nat
      BY <1>0 DEF RowsOK, Shapes
    <3>2. CASE id[1] = e
      <4>1. intents'[id] = Inserted /\ intents[id] = Absent
        BY <1>1, <1>3, <3>2
      <4> QED
        BY <3>1, <4>1, RowFields DEF RowOK
    <3>3. CASE id[1] # e
      BY <1>1, <3>1, <3>3
    <3> QED
      BY <3>2, <3>3
  <2> QED
    BY <1>1, <2>1 DEF RowsOK
<1>5. TokensUnique'
  BY <1>0, <1>1, RowFields DEF TokensUnique
<1>6. ClaimsOK'
  BY <1>0, <1>1, RowFields, SourceIsId DEF ClaimsOK, ClaimOK
<1>7. TaskTrue'
  BY <1>0, <1>1 DEF TaskTrue
<1> QED
  BY <1>2, <1>4, <1>5, <1>6, <1>7 DEF Inv

\* Backoffs end and leases run out.
LEMMA TimeKeeps ==
    ASSUME Inv, NEW id \in Ids, BackoffEnds(id) \/ LeaseRunsOut(id)
    PROVE  Inv'
<1>0. intents[id] \in Row /\ RowOK(id, intents[id], granted[id], token) /\ intents \in [Ids -> Row]
  BY DEF Inv, Shapes, RowsOK
<1>1. CASE BackoffEnds(id)
  <2>1. PICK r : r = [intents[id] EXCEPT !.ready = TRUE]
    OBVIOUS
  <2>2. /\ intents' = [intents EXCEPT ![id] = r]
        /\ intents[id].status = "pending" /\ ~intents[id].ready
        /\ UNCHANGED <<flows, work, token, granted>>
    BY <1>1, <2>1 DEF BackoffEnds
  <2>3. /\ r \in Row /\ r.status = intents[id].status /\ r.token = intents[id].token
        /\ r.attempts = intents[id].attempts /\ r.error = intents[id].error
    BY <1>0, <2>1 DEF Row
  <2>4. Inserted.ready
    BY DEF Inserted, Absent
  <2> QED
    BY <2>2, <2>3, <2>4, FlagKeeps
<1>2. CASE LeaseRunsOut(id)
  <2>1. PICK r : r = [intents[id] EXCEPT !.expired = TRUE]
    OBVIOUS
  <2>2. /\ intents' = [intents EXCEPT ![id] = r]
        /\ intents[id].status = "leased"
        /\ UNCHANGED <<flows, work, token, granted>>
    BY <1>2, <2>1 DEF LeaseRunsOut
  <2>3. /\ r \in Row /\ r.status = intents[id].status /\ r.token = intents[id].token
        /\ r.attempts = intents[id].attempts /\ r.error = intents[id].error
    BY <1>0, <2>1 DEF Row
  <2> QED
    BY <2>2, <2>3, RowFields, FlagKeeps
<1> QED
  BY <1>1, <1>2

LEMMA ReclaimKeeps ==
    ASSUME Inv, NEW d \in Dispatchers, ReclaimExpired(d)
    PROVE  Inv'
<1>0. Shapes
  BY DEF Inv
<1>1. /\ intents' = [id \in Ids |->
                       IF id \in ExpiredLeases THEN ReclaimLease(intents[id]) ELSE intents[id]]
      /\ work' = [work EXCEPT ![d].pc = "claim"]
      /\ UNCHANGED <<flows, token, granted>>
  BY DEF ReclaimExpired
<1>2. ASSUME NEW id \in ExpiredLeases
      PROVE  /\ id \in Ids /\ intents[id].status = "leased"
             /\ Ends(intents[id], intents'[id], "pending")
  <2>1. id \in Ids /\ intents[id].status = "leased" /\ intents[id] \in Row
    BY <1>0, <1>2 DEF ExpiredLeases, Shapes
  <2>2. Ends(intents[id], ReclaimLease(intents[id]), "pending")
    BY <2>1, EndsFields
  <2> QED
    BY <1>1, <1>2, <2>1, <2>2
<1>3. intents' \in [Ids -> Row]
  BY <1>0, <1>1, <1>2 DEF Shapes, Ends
<1>4. RowsOK' /\ TokensUnique' /\ ClaimsOK'
  <2>1. ClaimOK([status |-> "pending"], flows'[<<1>>]) /\ \A f : ClaimOK([status |-> "pending"], f)
    BY DEF ClaimOK
  <2>2. ExpiredLeases \in SUBSET Ids
    BY <1>2
  <2>3. \A id \in Ids \ ExpiredLeases : intents'[id] = intents[id]
    BY <1>1
  <2> QED
    BY <1>1, <1>2, <1>3, <2>1, <2>2, <2>3, RowsEnd
<1>5. PICK w : w = [work[d] EXCEPT !.pc = "claim"]
  OBVIOUS
<1>6. /\ w \in [pc : {"reclaim", "claim", "dispatch"}, tasks : SUBSET TaskRecord]
      /\ w.tasks = work[d].tasks /\ work' = [work EXCEPT ![d] = w]
  BY <1>0, <1>1, <1>5 DEF Shapes
<1>7. \A e \in Events : Onward(e)
  BY <1>1 DEF Onward
<1>8. /\ work' \in [Dispatchers -> [pc : {"reclaim", "claim", "dispatch"},
                                    tasks : SUBSET TaskRecord]]
      /\ TaskTrue'
  BY <1>6, <1>7, TasksKeep
<1> QED
  BY <1>0, <1>1, <1>3, <1>4, <1>8 DEF Inv, Shapes

\* Every claimed row gets a token of its own, above all earlier ones.
LEMMA ClaimKeeps ==
    ASSUME Inv, NEW d \in Dispatchers, ClaimBatch(d)
    PROVE  Inv'
<1>0. Shapes /\ RowsOK /\ TokensUnique /\ ClaimsOK /\ TaskTrue
  BY DEF Inv
<1>b. PICK batch \in SUBSET {id \in Ids : ClaimAvailable(id)} :
        /\ \E order \in [batch -> 1 .. Cardinality(batch)] :
              /\ \A a, b \in batch : a # b => order[a] # order[b]
              /\ intents' = [id \in Ids |-> IF id \in batch
                               THEN LeaseUpdate(intents[id], token + order[id]) ELSE intents[id]]
              /\ work' = [work EXCEPT ![d] =
                            [pc |-> "dispatch",
                             tasks |-> {Leased(id, token + order[id]) : id \in batch}]]
        /\ token' = token + Cardinality(batch)
        /\ granted' = [id \in Ids |-> granted[id] + IF id \in batch THEN 1 ELSE 0]
        /\ flows' = flows
  BY DEF ClaimBatch
<1>1. PICK order \in [batch -> 1 .. Cardinality(batch)] :
        /\ \A a, b \in batch : a # b => order[a] # order[b]
        /\ intents' = [id \in Ids |-> IF id \in batch
                         THEN LeaseUpdate(intents[id], token + order[id]) ELSE intents[id]]
        /\ work' = [work EXCEPT ![d] =
                      [pc |-> "dispatch", tasks |-> {Leased(id, token + order[id]) : id \in batch}]]
  BY <1>b
<1>2. Cardinality(batch) \in Nat
  BY SourceIsId, FS_Subset, FS_CardinalityType
<1>3. ASSUME NEW id \in batch
      PROVE  /\ id \in Ids /\ id \in SourceIntents \ Transitions
             /\ intents[id].status = "pending" /\ intents[id] \in Row
             /\ token + order[id] \in Nat /\ token < token + order[id]
             /\ token + order[id] <= token'
  <2>1. id \in Ids /\ ClaimAvailable(id) /\ order[id] \in 1 .. Cardinality(batch)
    OBVIOUS
  <2> QED
    BY <1>0, <1>b, <1>1, <1>2, <2>1, SourceIsId DEF ClaimAvailable, Shapes
<1>4. ASSUME NEW id \in batch, NEW r, r = LeaseUpdate(intents[id], token + order[id])
      PROVE  /\ intents'[id] = r /\ r \in Row /\ r.status = "leased"
             /\ r.token = token + order[id] /\ r.attempts = intents[id].attempts
  BY <1>1, <1>3, <1>4, LeaseFields
<1>5. \A id \in Ids \ batch : intents'[id] = intents[id] /\ granted'[id] = granted[id]
  BY <1>0, <1>b, <1>1 DEF Shapes
<1>6. \A id \in batch : granted'[id] = granted[id] + 1
  BY <1>0, <1>b, <1>3 DEF Shapes
<1>7. token' \in Nat /\ token <= token' /\ granted' \in [Ids -> Nat] /\ intents' \in [Ids -> Row]
  <2>1. \A id \in Ids : intents'[id] \in Row
    BY <1>0, <1>4, <1>5 DEF Shapes
  <2>2. token' \in Nat /\ token <= token' /\ granted' \in [Ids -> Nat]
    BY <1>0, <1>b, <1>2 DEF Shapes
  <2> QED
    BY <1>1, <2>1, <2>2
<1>8. RowsOK'
  <2>1. ASSUME NEW id \in Ids
        PROVE  RowOK(id, intents'[id], granted'[id], token')
    <3>1. RowOK(id, intents[id], granted[id], token)
          /\ token \in Nat /\ granted[id] \in Nat /\ intents[id] \in Row
      BY <1>0 DEF RowsOK, Shapes
    <3>2. CASE id \in batch
      <4>1. PICK r : r = LeaseUpdate(intents[id], token + order[id])
        OBVIOUS
      <4>2. intents[id].attempts = granted[id]
        BY <1>3, <3>1, <3>2 DEF RowOK, Row
      <4>3. RowOK(id, r, granted[id] + 1, token')
        BY <1>3, <1>4, <3>1, <3>2, <4>1, <4>2 DEF RowOK, Row
      <4> QED
        BY <1>4, <1>6, <3>2, <4>1, <4>3
    <3>3. CASE id \notin batch
      <4>1. intents[id].token <= token'
        BY <1>7, <3>1 DEF RowOK, Row
      <4> QED
        BY <1>5, <3>1, <3>3, <4>1 DEF RowOK
    <3> QED
      BY <3>2, <3>3
  <2> QED
    BY <2>1 DEF RowsOK
<1>9. TokensUnique'
  <2> SUFFICES ASSUME NEW a \in Ids, NEW b \in Ids, intents'[a].token = intents'[b].token, a # b
               PROVE  intents'[a].token = 0
    BY DEF TokensUnique
  <2>1. ASSUME NEW id \in Ids
        PROVE  IF id \in batch
               THEN /\ intents'[id].token = token + order[id] /\ order[id] \in Nat
                    /\ intents'[id].token > token
               ELSE intents'[id].token <= token /\ intents'[id].token \in Nat
    <3>1. intents[id] \in Row /\ RowOK(id, intents[id], granted[id], token) /\ token \in Nat
      BY <1>0 DEF RowsOK, Shapes
    <3>2. CASE id \in batch
      <4>1. PICK r : r = LeaseUpdate(intents[id], token + order[id])
        OBVIOUS
      <4>2. order[id] \in Nat /\ order[id] >= 1
        BY <1>2, <3>2
      <4> QED
        BY <1>4, <3>1, <3>2, <4>1, <4>2
    <3>3. CASE id \notin batch
      BY <1>5, <3>1, <3>3 DEF RowOK, Row
    <3> QED
      BY <3>2, <3>3
  <2>2. CASE a \in batch /\ b \in batch
    <3>0. intents'[a].token = token + order[a] /\ intents'[b].token = token + order[b]
      BY <2>1, <2>2
    <3>a. order[a] \in Nat /\ order[b] \in Nat /\ token \in Nat
      BY <1>0, <2>1, <2>2 DEF Shapes
    <3>b. token + order[a] = token + order[b]
      BY <3>0
    <3>1. order[a] = order[b]
      BY <3>a, <3>b
    <3> QED
      BY <1>1, <2>2, <3>1
  <2>3. CASE a \notin batch /\ b \notin batch
    BY <1>0, <1>5, <2>3 DEF TokensUnique
  <2>4. CASE (a \in batch /\ b \notin batch) \/ (a \notin batch /\ b \in batch)
    BY <1>0, <2>1, <2>4 DEF Shapes
  <2> QED
    BY <2>2, <2>3, <2>4
<1>10. ClaimsOK'
  <2>1. ASSUME NEW id \in SourceIntents
        PROVE  ClaimOK(intents'[id], flows[id[1]])
    <3>1. id \in Ids
      BY SourceIsId
    <3>2. id \in batch => intents'[id].status = "leased"
      BY <1>4
    <3> QED
      BY <1>0, <1>5, <3>1, <3>2 DEF ClaimsOK, ClaimOK
  <2> QED
    BY <1>b, <2>1 DEF ClaimsOK
<1>11. /\ work' \in [Dispatchers -> [pc : {"reclaim", "claim", "dispatch"},
                                     tasks : SUBSET TaskRecord]]
       /\ TaskTrue'
  <2>1. PICK w : w = [pc |-> "dispatch", tasks |-> {Leased(id, token + order[id]) : id \in batch}]
    OBVIOUS
  <2>2. \A task \in w.tasks : task \in TaskRecord /\ task.step = "start"
    BY <1>3, <2>1 DEF Leased, TaskRecord
  <2>3. w \in [pc : {"reclaim", "claim", "dispatch"}, tasks : SUBSET TaskRecord]
    BY <2>1, <2>2
  <2>4. \A task \in w.tasks : TaskOK(task, flows'[task.id[1]])
    BY <2>2 DEF TaskOK
  <2>5. \A e \in Events : Onward(e)
    BY <1>b DEF Onward
  <2> QED
    BY <1>1, <2>1, <2>3, <2>4, <2>5, TasksKeep
<1> QED
  BY <1>0, <1>b, <1>7, <1>8, <1>9, <1>10, <1>11 DEF Inv, Shapes

\* A task starts its workflow, or finds it, or does not hear.
LEMMA StartKeeps ==
    ASSUME Inv, NEW d \in Dispatchers, NEW task \in work[d].tasks,
           StartSourceIngestion(d, task) \/ StartFails(d, task)
    PROVE  Inv'
<1>1. PICK e : e = task.id[1]
  OBVIOUS
<1>2. e \in Events /\ task \in TaskRecord /\ flows \in [Events -> Flow]
  BY <1>1, StepFields DEF Inv, Shapes
<1>3. PICK step \in {"acknowledge", "release", "terminal"} :
        /\ Stepped(d, task, step)
        /\ flows' = Started(e) \/ flows' = flows
        /\ step # "release" => /\ flows' = Started(e)
                               /\ step = IF Accepted(e) THEN "acknowledge" ELSE "terminal"
        /\ UNCHANGED <<intents, token, granted>>
  <2>1. CASE StartSourceIngestion(d, task)
    BY <1>1, <2>1 DEF StartSourceIngestion
  <2>2. CASE StartFails(d, task)
    BY <1>1, <2>2 DEF StartFails
  <2> QED
    BY <2>1, <2>2
<1>4. flows' \in [Events -> Flow] /\ \A x \in Events : Onward(x)
  BY <1>2, <1>3 DEF Started, Onward, Flow
<1>5. PICK t : t = [task EXCEPT !.step = step]
  OBVIOUS
<1>6. TaskOK(t, flows'[t.id[1]])
  <2>1. t.step = step /\ t.id[1] = e
    BY <1>1, <1>5, StepFields
  <2>2. step = "acknowledge" => flows'[e] # "none"
    BY <1>2, <1>3 DEF Started
  <2>3. step = "terminal" => flows'[e] = "failed"
    BY <1>2, <1>3 DEF Started, Accepted, Flow
  <2> QED
    BY <2>1, <2>2, <2>3 DEF TaskOK
<1>7. PICK w : w = [pc |-> work[d].pc, tasks |-> (work[d].tasks \ {task}) \cup {t}]
  OBVIOUS
<1>8. /\ w \in [pc : {"reclaim", "claim", "dispatch"}, tasks : SUBSET TaskRecord]
      /\ work' = [work EXCEPT ![d] = w]
  <2>1. /\ t \in TaskRecord /\ work[d].pc \in {"reclaim", "claim", "dispatch"}
        /\ work[d].tasks \subseteq TaskRecord
    BY <1>5, StepFields
  <2>2. PICK S : S = (work[d].tasks \ {task}) \cup {t}
    OBVIOUS
  <2>3. work' = [work EXCEPT ![d] = [work[d] EXCEPT !.tasks = S]]
    BY <1>3, <1>5, <2>2 DEF Stepped
  <2>4. [work[d] EXCEPT !.tasks = S] = w
    <3>1. work[d] \in [pc : {"reclaim", "claim", "dispatch"}, tasks : SUBSET TaskRecord]
      BY DEF Inv, Shapes
    <3> QED
      BY <1>7, <2>2, <3>1
  <2>5. w \in [pc : {"reclaim", "claim", "dispatch"}, tasks : SUBSET TaskRecord]
    BY <1>7, <2>1
  <2> QED
    BY <2>3, <2>4, <2>5
<1>9. \A x \in w.tasks : x \in work[d].tasks \/ TaskOK(x, flows'[x.id[1]])
  BY <1>6, <1>7
<1> QED
  BY <1>3, <1>4, <1>8, <1>9, WorkKeeps

\* A task writes its outcome back, under the token of its lease.
LEMMA FencedKeeps ==
    ASSUME Inv, NEW d \in Dispatchers, NEW task \in work[d].tasks, NEW after,
           NEW status \in {"pending", "dispatched", "terminal"},
           FencedTransition(task, after), Done(d, task), UNCHANGED <<flows, token, granted>>,
           Ends(intents[task.id], after, status),
           TaskOK(task, flows[task.id[1]]) => ClaimOK([status |-> status], flows[task.id[1]])
    PROVE  Inv'
<1>0. Shapes /\ RowsOK /\ TokensUnique /\ ClaimsOK /\ TaskTrue
  BY DEF Inv
<1>1. task.id \in SourceIntents /\ task.id \in Ids
  BY StepFields
<1>2. PICK S : S = IF HoldsLease(task.id, task.token) THEN {task.id} ELSE {}
  OBVIOUS
<1>3. /\ intents' \in [Ids -> Row] /\ S \in SUBSET Ids
      /\ \A id \in Ids \ S : intents'[id] = intents[id]
      /\ \A id \in S : id = task.id /\ intents[id].status = "leased" /\ intents'[id] = after
  <2>1. intents \in [Ids -> Row] /\ after \in Row
    BY <1>0 DEF Shapes, Ends
  <2> QED
    BY <1>1, <1>2, <2>1 DEF FencedTransition, HoldsLease
<1>4. ClaimOK([status |-> status], flows'[task.id[1]])
  BY <1>0 DEF TaskTrue
<1>5. RowsOK' /\ TokensUnique' /\ ClaimsOK'
  BY <1>3, <1>4, RowsEnd
<1>6. PICK w : w = [pc |-> work[d].pc, tasks |-> work[d].tasks \ {task}]
  OBVIOUS
<1>7. /\ w \in [pc : {"reclaim", "claim", "dispatch"}, tasks : SUBSET TaskRecord]
      /\ work' = [work EXCEPT ![d] = w] /\ w.tasks \subseteq work[d].tasks
  BY <1>6, StepFields
<1>8. \A e \in Events : Onward(e)
  BY DEF Onward
<1>9. /\ work' \in [Dispatchers -> [pc : {"reclaim", "claim", "dispatch"},
                                    tasks : SUBSET TaskRecord]]
      /\ TaskTrue'
  BY <1>7, <1>8, TasksKeep
<1> QED
  BY <1>0, <1>3, <1>5, <1>9 DEF Inv, Shapes

LEMMA ApplyKeeps ==
    ASSUME Inv, NEW d \in Dispatchers, NEW task \in work[d].tasks,
           ApplyDispatched(d, task) \/ ApplyRetryable(d, task) \/ ApplyTerminal(d, task)
    PROVE  Inv'
<1>1. PICK row : row = intents[task.id]
  OBVIOUS
<1>2. row \in Row
  BY <1>1, StepFields DEF Inv, Shapes
<1>3. /\ Ends(row, ReleaseRetry(row), "pending") /\ Ends(row, MarkTerminal(row), "terminal")
      /\ Ends(row, AcknowledgeDispatched(row), "dispatched")
  BY <1>2, EndsFields
<1>4. CASE ApplyDispatched(d, task)
  <2>1. /\ FencedTransition(task, AcknowledgeDispatched(row)) /\ Done(d, task)
        /\ task.step = "acknowledge" /\ UNCHANGED <<flows, token, granted>>
    BY <1>1, <1>4 DEF ApplyDispatched
  <2>2. TaskOK(task, flows[task.id[1]]) => ClaimOK([status |-> "dispatched"], flows[task.id[1]])
    BY <2>1 DEF TaskOK, ClaimOK
  <2> QED
    BY <1>1, <1>3, <2>1, <2>2, FencedKeeps
<1>5. CASE ApplyRetryable(d, task)
  <2>1. /\ FencedTransition(task, ReleaseRetry(row)) /\ Done(d, task)
        /\ UNCHANGED <<flows, token, granted>>
    BY <1>1, <1>5 DEF ApplyRetryable
  <2>2. ClaimOK([status |-> "pending"], flows[task.id[1]])
    BY DEF ClaimOK
  <2> QED
    BY <1>1, <1>3, <2>1, <2>2, FencedKeeps
<1>6. CASE ApplyTerminal(d, task)
  <2>1. /\ FencedTransition(task, MarkTerminal(row)) /\ Done(d, task)
        /\ task.step = "terminal" /\ UNCHANGED <<flows, token, granted>>
    BY <1>1, <1>6 DEF ApplyTerminal
  <2>2. TaskOK(task, flows[task.id[1]]) => ClaimOK([status |-> "terminal"], flows[task.id[1]])
    BY <2>1 DEF TaskOK, ClaimOK
  <2> QED
    BY <1>1, <1>3, <2>1, <2>2, FencedKeeps
<1> QED
  BY <1>4, <1>5, <1>6

LEMMA TransitionFailsKeeps ==
    ASSUME Inv, NEW d \in Dispatchers, NEW task \in work[d].tasks, TransitionFails(d, task)
    PROVE  Inv'
<1>1. PICK w : w = [pc |-> work[d].pc, tasks |-> work[d].tasks \ {task}]
  OBVIOUS
<1>2. Done(d, task) /\ UNCHANGED <<intents, flows, token, granted>>
  BY DEF TransitionFails
<1>3. /\ w \in [pc : {"reclaim", "claim", "dispatch"}, tasks : SUBSET TaskRecord]
      /\ work' = [work EXCEPT ![d] = w] /\ w.tasks \subseteq work[d].tasks
  BY <1>1, <1>2, StepFields
<1>4. flows' \in [Events -> Flow] /\ \A e \in Events : Onward(e)
  BY <1>2 DEF Onward, Inv, Shapes
<1> QED
  BY <1>2, <1>3, <1>4, WorkKeeps

\* A worker starts its next cycle, also after it died.
LEMMA CycleKeeps ==
    ASSUME Inv, NEW d \in Dispatchers, NextCycle(d) \/ CrashDispatcher(d)
    PROVE  Inv'
<1>1. work' = [work EXCEPT ![d] = Idle] /\ UNCHANGED <<intents, flows, token, granted>>
  BY DEF NextCycle, CrashDispatcher
<1>2. Idle \in [pc : {"reclaim", "claim", "dispatch"}, tasks : SUBSET TaskRecord] /\ Idle.tasks = {}
  BY DEF Idle
<1>3. flows' \in [Events -> Flow] /\ \A e \in Events : Onward(e)
  BY <1>1 DEF Onward, Inv, Shapes
<1> QED
  BY <1>1, <1>2, <1>3, WorkKeeps

LEMMA FlowKeeps ==
    ASSUME Inv, NEW e \in Events, FlowEnds(e)
    PROVE  Inv'
<1>1. /\ flows[e] = "running" /\ UNCHANGED <<intents, work, token, granted>>
      /\ flows' = [flows EXCEPT ![e] = "completed"] \/ flows' = [flows EXCEPT ![e] = "failed"]
  BY DEF FlowEnds
<1>2. flows' \in [Events -> Flow] /\ \A x \in Events : Onward(x)
  BY <1>1 DEF Onward, Inv, Shapes, Flow
<1>3. RowsOK' /\ TokensUnique' /\ ClaimsOK'
  BY <1>1, <1>2, RowsStay, OnwardKeeps, SourceIsId
<1>4. TaskTrue'
  <2>1. ASSUME NEW d \in Dispatchers, NEW task \in work[d].tasks
        PROVE  TaskOK(task, flows'[task.id[1]])
    <3>1. TaskOK(task, flows[task.id[1]])
      BY DEF Inv, TaskTrue
    <3>2. task.id[1] \in Events
      BY StepFields
    <3> QED
      BY <1>2, <3>1, <3>2, OnwardKeeps
  <2> QED
    BY <1>1, <2>1 DEF TaskTrue
<1> QED
  BY <1>1, <1>2, <1>3, <1>4 DEF Inv, Shapes

-------------------------------------------------------------------------------
(* The theorems.                                                           *)

\* The outbox starts with the rows a policy reconciliation inserted, and no more.
LEMMA InitInv == Init => Inv
<1> SUFFICES ASSUME Init PROVE Inv
  OBVIOUS
<1>1. Shapes
  <2>1. Idle \in [pc : {"reclaim", "claim", "dispatch"}, tasks : SUBSET TaskRecord]
    BY DEF Idle
  <2> QED
    BY <2>1, RowFields DEF Init, Shapes, Flow
<1>2. RowsOK
  <2>1. ASSUME NEW id \in Ids
        PROVE  RowOK(id, intents[id], granted[id], token)
    BY <2>1, RowFields DEF Init, RowOK
  <2> QED
    BY <2>1 DEF RowsOK
<1>3. TokensUnique
  BY RowFields DEF Init, TokensUnique
<1>4. ClaimsOK
  BY RowFields, SourceIsId DEF Init, ClaimsOK, ClaimOK
<1>5. TaskTrue
  BY DEF Init, TaskTrue, Idle
<1> QED
  BY <1>1, <1>2, <1>3, <1>4, <1>5 DEF Inv

LEMMA StepInv == Inv /\ [Next]_vars => Inv'
<1> SUFFICES ASSUME Inv, [Next]_vars PROVE Inv'
  OBVIOUS
<1>1. CASE UNCHANGED vars
  BY <1>1 DEF vars, Inv, Shapes, RowsOK, TokensUnique, ClaimsOK, TaskTrue
<1>2. ASSUME NEW e \in Events, PublishEvent(e) \/ FlowEnds(e) PROVE Inv'
  BY <1>2, PublishKeeps, FlowKeeps
<1>3. ASSUME NEW id \in Ids, BackoffEnds(id) \/ LeaseRunsOut(id) PROVE Inv'
  BY <1>3, TimeKeeps
<1>4. ASSUME NEW d \in Dispatchers, DispatchOnce(d) PROVE Inv'
  <2>1. ASSUME NEW task \in work[d].tasks, Task(d, task) PROVE Inv'
    BY <2>1, StartKeeps, ApplyKeeps DEF Task
  <2> QED
    BY <1>4, <2>1, ReclaimKeeps, ClaimKeeps, CycleKeeps DEF DispatchOnce
<1>5. ASSUME NEW d \in Dispatchers, Failure(d) PROVE Inv'
  <2>1. ASSUME NEW task \in work[d].tasks, StartFails(d, task) \/ TransitionFails(d, task)
        PROVE  Inv'
    BY <2>1, StartKeeps, TransitionFailsKeeps
  <2> QED
    BY <1>5, <2>1, CycleKeeps DEF Failure
<1> QED
  BY <1>1, <1>2, <1>3, <1>4, <1>5 DEF Next

\* What the proofs of this module rest on holds in every reachable state.
THEOREM InvHolds == Spec => []Inv
<1>1. Init => Inv
  BY InitInv
<1>2. Inv /\ [Next]_vars => Inv'
  BY StepInv
<1> QED
  BY <1>1, <1>2, PTL DEF Spec

\* For any number of events, workers, crashes, lost answers and leases lost at
\* work: every row is one its table accepts and no two rows share a token; an
\* intent is dispatched only when its workflow was started and terminal only
\* when the workflow failed; and each lease granted was counted exactly once, by
\* its holder or by whoever reclaimed it.
THEOREM OutboxSafeHolds == Spec => []OutboxSafe
<1>1. Inv => OutboxSafe
  <2> SUFFICES ASSUME Inv PROVE OutboxSafe
    OBVIOUS
  <2>0. Shapes /\ RowsOK /\ TokensUnique /\ ClaimsOK
    BY DEF Inv
  <2>1. TypeOK
    <3>1. ASSUME NEW id \in Ids PROVE intents[id] = Absent \/ IntentRow(id)
      <4>1. intents[id] \in Row /\ RowOK(id, intents[id], granted[id], token)
        BY <2>0 DEF Shapes, RowsOK
      <4> QED
        BY <4>1 DEF RowOK, IntentRow, Row, Statuses
    <3>2. \A d \in Dispatchers : work[d].pc \in {"reclaim", "claim", "dispatch"}
      BY <2>0 DEF Shapes
    <3> QED
      BY <2>0, <3>1, <3>2 DEF TypeOK, TokensUnique, Shapes, Flow
  <2>2. OutboxTrue
    BY <2>0 DEF OutboxTrue, ClaimsOK, ClaimOK
  <2>3. AttemptsCounted
    BY <2>0 DEF AttemptsCounted, RowsOK, RowOK
  <2> QED
    BY <2>1, <2>2, <2>3 DEF OutboxSafe
<1> QED
  BY <1>1, InvHolds, PTL

\* What a step does to a row: nothing, unless it publishes an absent one, ends
\* a backoff or a lease, or claims a pending row that is no policy transition.
LEMMA StepStays ==
    ASSUME Inv, [Next]_vars, NEW id \in Ids,
           intents[id].status \in {"dispatched", "terminal"} \/ id \in Transitions
    PROVE  intents'[id] = intents[id]
<1>0. /\ intents \in [Ids -> Row] /\ RowOK(id, intents[id], granted[id], token)
      /\ id \in Transitions => intents[id] = Inserted
  BY DEF Inv, Shapes, RowsOK, RowOK
<1>1. intents[id].status # "leased" /\ intents[id].status # "absent"
  BY <1>0, RowFields
<1>2. intents[id].status = "pending" => intents[id].ready /\ Origin(id) # "source_event"
  <2>1. Inserted.ready
    BY DEF Inserted, Absent
  <2> QED
    BY <1>0, <2>1 DEF Origin
<1>3. CASE UNCHANGED vars
  BY <1>3 DEF vars
<1>4. ASSUME NEW e \in Events, PublishEvent(e) PROVE intents'[id] = intents[id]
  <2>1. id[1] # e
    <3>1. id \in SourceIntents => \E k \in Kinds : id = <<id[1], k>>
      BY DEF SourceIntents
    <3>2. id \in Transitions => id = <<id[1], "qdrant">> /\ "qdrant" \in Kinds
      BY DEF Transitions, Kinds
    <3>3. PICK k \in Kinds : id = <<id[1], k>>
      BY <3>1, <3>2 DEF Ids
    <3> QED
      BY <1>1, <1>4, <3>3, RowFields DEF PublishEvent
  <2> QED
    BY <1>4, <2>1 DEF PublishEvent
<1>5. ASSUME NEW e \in Events, FlowEnds(e) PROVE intents'[id] = intents[id]
  BY <1>5 DEF FlowEnds
<1>6. ASSUME NEW i \in Ids, BackoffEnds(i) \/ LeaseRunsOut(i) PROVE intents'[id] = intents[id]
  <2>1. i # id
    BY <1>1, <1>2, <1>6 DEF BackoffEnds, LeaseRunsOut
  <2> QED
    BY <1>0, <1>6, <2>1 DEF BackoffEnds, LeaseRunsOut
<1>7. ASSUME NEW d \in Dispatchers, ReclaimExpired(d) PROVE intents'[id] = intents[id]
  BY <1>1, <1>7 DEF ReclaimExpired, ExpiredLeases
<1>8. ASSUME NEW d \in Dispatchers, ClaimBatch(d) PROVE intents'[id] = intents[id]
  <2>1. ~ClaimAvailable(id)
    BY <1>1, <1>2 DEF ClaimAvailable
  <2> QED
    BY <1>8, <2>1 DEF ClaimBatch
<1>9. ASSUME NEW d \in Dispatchers, NEW task \in work[d].tasks,
             Task(d, task) \/ StartFails(d, task) \/ TransitionFails(d, task)
      PROVE  intents'[id] = intents[id]
  <2>1. ASSUME NEW after, FencedTransition(task, after)
        PROVE  intents'[id] = intents[id]
    BY <1>0, <1>1, <2>1 DEF FencedTransition, HoldsLease
  <2>2. CASE UNCHANGED intents
    BY <2>2
  <2> QED
    BY <1>9, <2>1, <2>2 DEF Task, StartSourceIngestion, StartFails, TransitionFails,
       ApplyDispatched, ApplyRetryable, ApplyTerminal
<1>10. ASSUME NEW d \in Dispatchers, NextCycle(d) \/ CrashDispatcher(d)
       PROVE  intents'[id] = intents[id]
  BY <1>10 DEF NextCycle, CrashDispatcher
<1> QED
  BY <1>3, <1>4, <1>5, <1>6, <1>7, <1>8, <1>9, <1>10 DEF Next, DispatchOnce, Failure

\* No step touches an intent that is settled or that a policy reconciliation
\* inserted.
THEOREM DispatchedStaysHolds == Spec => DispatchedStays
<1>1. Inv /\ [Next]_vars =>
        [\A id \in Ids :
          (intents[id].status \in {"dispatched", "terminal"} \/ id \in Transitions)
             => intents'[id] = intents[id]]_vars
  BY StepStays
<1> QED
  BY <1>1, InvHolds, PTL DEF Spec, DispatchedStays
===============================================================================
