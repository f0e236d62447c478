---------------------------- MODULE CanonicalStore ----------------------------
(***************************************************************************)
(* The PostgreSQL canonical store as its concurrent writers see it.        *)
(*                                                                         *)
(* Request handlers of the API process (Writers) run publication, source   *)
(* lifecycle and source conflict commands.  Every command is one READ      *)
(* COMMITTED transaction per attempt: transaction-scoped locks are taken   *)
(* in the order the code takes them, rows are read under the locks, one    *)
(* sync event is inserted (its sequence number is allocated right there),  *)
(* and everything becomes visible at commit.  Lock waits time out,         *)
(* connections break (with the COMMIT possibly still in flight), handlers  *)
(* die, and clients send the same command again.                           *)
(*                                                                         *)
(* Audit rows and metrics are left out, and the two projection intents a   *)
(* transaction inserts are the event's "intent" field.                     *)
(***************************************************************************)
EXTENDS Naturals, Sequences, FiniteSets

CONSTANTS
    Writers,        \* concurrent request handlers
    Keys,           \* idempotency keys of the workspace
    Events,         \* client-minted event identities
    Sources,        \* source identities
    Locators,       \* normalized locators
    Contents,       \* content objects (by digest)
    Commands,       \* the commands clients may send, any number of times
    Excluded,       \* <<revision, locator>> pairs the policy revision denies
    None,           \* the absent value
    MaxAttempts,    \* DatabaseRetryPolicy.maximum_attempts
    MaxFailures,    \* bound on connection losses and handler deaths
    MaxRevision,    \* bound on published policy revisions
    MaxSequence     \* bound on allocated sequence numbers for new requests

PublicationOps == {"create", "update"}
LifecycleOps   == {"rename", "delete", "restore"}   \* "rename" is rename and move
ResolveOps     == {"keep_remote", "keep_local", "save_merged"}
ConflictOps    == {"capture"} \cup ResolveOps
Ops            == PublicationOps \cup LifecycleOps \cup ConflictOps

\* DEVICE_DELIVERABLE_EVENT_TOKENS: what the device pull pages.
DeliverableOps == PublicationOps \cup LifecycleOps

\* "base" is the version the client built on (expected or reviewed version),
\* "tomb" and "conflict" name a tombstone or conflict by the event that made it.
Command ==
    [op : Ops, key : Keys, event : Events, source : Sources, base : Nat,
     content : Contents \cup {None}, expected : Locators \cup {None},
     target : Locators \cup {None}, tomb : Events \cup {None},
     conflict : Events \cup {None}]

\* The command constructors enforce the fields their operation reads.
ASSUME CommandsAssumption ==
    /\ Commands \subseteq Command
    /\ \A c \in Commands :
        /\ c.op \in {"create", "rename", "restore"} => c.target # None
        /\ c.op = "create" => c.base = 0
        /\ c.op = "restore" => c.tomb # None
        /\ c.op \in ResolveOps => c.conflict # None
ASSUME BoundsAssumption ==
    /\ MaxAttempts \in Nat \ {0}
    /\ MaxFailures \in Nat
    /\ MaxRevision \in Nat \ {0}
    /\ MaxSequence \in Nat

\* Rows of sync_events, sources, source_tombstones and source_conflicts.  An event's
\* "version" is its source's version after it (0: it names none), "prior" the version
\* its writer claims to have built on.
EventRecord ==
    [seq : Nat \ {0}, cmd : Commands, version : Nat, prior : Nat, content : Contents \cup {None},
     rev : Nat, intent : {"upsert", "delete", "none"}]
SourceRow ==
    [state : {"active", "deleted"}, version : Nat, content : Contents \cup {None}]
TombstoneRow == [source : Sources, version : Nat, closed : Nat]
ConflictRecord ==
    [source : Sources, candidate : Contents \cup {None},
     status : {"open", "resolved", "superseded"}, by : Events \cup {None}]

ASSUME NoneAssumption ==
    /\ None \notin Contents \cup Locators \cup Events
    /\ None \notin Command
    /\ None \notin EventRecord
    /\ None \notin SourceRow \cup TombstoneRow \cup ConflictRecord
    /\ None \notin Writers \X (1..MaxAttempts)

VARIABLES
    log,        \* committed sync_events in commit order
    nextSeq,    \* the identity column's next value; never rolled back
    row,        \* sources rows
    locators,   \* source_locators rows; closed = 0 while open
    tombstones, \* source_tombstones rows; closed = 0 while open
    conflicts,  \* source_conflicts rows by originating event
    policyRev,  \* workspace_policy_state.active_revision_number
    holder,     \* who holds each transaction-scoped lock
    pending,    \* the uncommitted event of each transaction
    indoubt,    \* transactions whose COMMIT was sent on a lost connection
    pc,         \* where each writer's handler is
    cmd,        \* the command it handles
    attempt,    \* its attempt number
    evidence,   \* policy revision its preflight was allowed under
    answer,     \* what it answered
    failures    \* connection losses and handler deaths so far

tables == <<log, row, locators, tombstones, conflicts>>
vars == <<tables, nextSeq, policyRev, holder, pending, indoubt, pc, cmd,
          attempt, evidence, answer, failures>>

-------------------------------------------------------------------------------
(* Locks.  All are transaction-scoped: released at commit or rollback.     *)

KeyLock(k)     == <<"key", k>>
SourceLock(s)  == <<"source", s>>
LocatorLock(l) == <<"locator", l>>
ConflictRow(e) == <<"conflict", e>>
PolicyRow      == <<"policy", None>>

Locks == {PolicyRow} \cup {KeyLock(k) : k \in Keys} \cup {SourceLock(s) : s \in Sources}
         \cup {LocatorLock(l) : l \in Locators} \cup {ConflictRow(e) : e \in Events}

Txns  == Writers \X (1..MaxAttempts)
Tx(w) == <<w, attempt[w]>>

Free(l) == holder[l] = None
Released(t) == [l \in Locks |-> IF holder[l] = t THEN None ELSE holder[l]]

OpenLocator(s) == {r \in locators : r.source = s /\ r.closed = 0}

\* Mutant: the policy row is read without FOR UPDATE.
WantedUnlockedPolicy(w) ==
    CASE pc[w] = "key"                   -> {KeyLock(cmd[w].key)}
      [] pc[w] = "source"                -> {SourceLock(cmd[w].source)}
      [] pc[w] \in {"review", "conflict"} -> {ConflictRow(cmd[w].conflict)}
      [] pc[w] = "locators" -> {LocatorLock(r.locator) : r \in OpenLocator(cmd[w].source)}
                                 \cup {LocatorLock(l) : l \in {cmd[w].target} \ {None}}
      [] OTHER              -> {}

\* The locks the next statement of w's transaction asks for.  The locator
\* locks are taken in canonical text order, so asking for the set at once
\* loses no wait-for cycle.  read_for_resolution ("review") locks the conflict
\* row too, in a transaction of its own that ends with the read.
Wanted(w) ==
    CASE pc[w] = "key"                   -> {KeyLock(cmd[w].key)}
      [] pc[w] = "policy"                -> {PolicyRow}
      [] pc[w] = "source"                -> {SourceLock(cmd[w].source)}
      [] pc[w] \in {"review", "conflict"} -> {ConflictRow(cmd[w].conflict)}
      [] pc[w] = "locators" -> {LocatorLock(r.locator) : r \in OpenLocator(cmd[w].source)}
                                 \cup {LocatorLock(l) : l \in {cmd[w].target} \ {None}}
      [] OTHER              -> {}

CanLock(w) == \A l \in Wanted(w) : Free(l)
Locked(w)  == [l \in Locks |-> IF l \in Wanted(w) THEN Tx(w) ELSE holder[l]]

-------------------------------------------------------------------------------
(* Replay identity: the unique idempotency key and the unique event id.    *)

ByKey(k)      == {i \in 1..Len(log) : log[i].cmd.key = k}
ByEvent(e)    == {i \in 1..Len(log) : log[i].cmd.event = e}
\* Mutant: the replay lookup does not compare event and fingerprint.
CommittedByKey(c) == ByKey(c.key) # {}

Committed(c)  == \E i \in 1..Len(log) : log[i].cmd = c
Receipt(c)    == log[CHOOSE i \in ByKey(c.key) : TRUE].seq
Misused(c)    == ~Committed(c) /\ (ByKey(c.key) # {} \/ ByEvent(c.event) # {})

Allowed(rev, l) == <<rev, l>> \notin Excluded

-------------------------------------------------------------------------------
(* Ends of a transaction and of a request.                                 *)

Answer(w, kind, seq) ==
    /\ pc' = [pc EXCEPT ![w] = "done"]
    /\ answer' = [answer EXCEPT ![w] = [kind |-> kind, seq |-> seq]]

\* Rollback (or the end of a read-only transaction) followed by an answer.
Reply(w, kind, seq) ==
    /\ Answer(w, kind, seq)
    /\ holder' = Released(Tx(w))
    /\ UNCHANGED <<pending, nextSeq>>

Goto(w, label) ==
    /\ pc' = [pc EXCEPT ![w] = label]
    /\ UNCHANGED answer

\* A read outside the command's transaction.
Read(w, label) ==
    /\ Goto(w, label)
    /\ UNCHANGED <<holder, pending, nextSeq>>

\* The statement got its locks and the transaction goes on.
Proceed(w, label) ==
    /\ Goto(w, label)
    /\ holder' = Locked(w)
    /\ UNCHANGED <<pending, nextSeq>>

\* event_id is a primary key and (workspace, idempotency_key) is unique: an
\* insert waits for an uncommitted duplicate event (keys are already locked)
\* and fails with an integrity error once a duplicate has committed.
EventInsertWaits(w) ==
    \E t \in Txns \ {Tx(w)} : pending[t] # None /\ pending[t].cmd.event = cmd[w].event

\* The event insert, which allocates the sequence number, and all row writes of
\* the transition, still uncommitted.
Write(w, e) ==
    /\ ~EventInsertWaits(w)
    /\ nextSeq' = nextSeq + 1
    /\ IF ByEvent(cmd[w].event) # {} \/ ByKey(cmd[w].key) # {}
         THEN /\ Answer(w, "error", 0)
              /\ holder' = Released(Tx(w))
              /\ UNCHANGED pending
         ELSE /\ Goto(w, "commit")
              /\ holder' = Locked(w)
              /\ pending' = [pending EXCEPT ![Tx(w)] = e]

NewEvent(w, version, content, intent) ==
    [seq |-> nextSeq, cmd |-> cmd[w], version |-> version, prior |-> cmd[w].base,
     content |-> content, rev |-> policyRev, intent |-> intent]

Unmoved == UNCHANGED <<tables, policyRev, indoubt, cmd, attempt, evidence, failures>>

Current(w)  == row[cmd[w].source].version
Content(w)  == row[cmd[w].source].content
Exists(w)   == row[cmd[w].source] # None
InState(w, state) == Exists(w) /\ row[cmd[w].source].state = state

Holders(l)  == {r.source : r \in {q \in locators : q.locator = l /\ q.closed = 0}}

-------------------------------------------------------------------------------
(* Requests.  A client may send any command at any time, and the same one  *)
(* again, to any handler.                                                  *)

FirstStep(op) ==
    CASE op \in PublicationOps -> "preflight"
      [] op \in LifecycleOps   -> "lookup"
      [] op = "capture"        -> "preflight"
      [] OTHER                 -> "review"

Request(w, c) ==
    /\ pc[w] \in {"idle", "done"}
    /\ \A t \in indoubt : t[1] # w
    /\ nextSeq <= MaxSequence \/ Committed(c)
    /\ pc' = [pc EXCEPT ![w] = FirstStep(c.op)]
    /\ cmd' = [cmd EXCEPT ![w] = c]
    /\ attempt' = [attempt EXCEPT ![w] = 1]
    /\ evidence' = [evidence EXCEPT ![w] = 0]
    /\ answer' = [answer EXCEPT ![w] = None]
    /\ UNCHANGED <<tables, nextSeq, policyRev, holder, pending, indoubt, failures>>

\* The service's policy guard, then (publication only) the lock-free replay
\* lookup; the allowed revision is carried into the transaction.
Preflight(w) ==
    /\ pc[w] = "preflight"
    /\ evidence' = [evidence EXCEPT ![w] = policyRev]
    /\ \/ /\ ~Allowed(policyRev, cmd[w].target)
          /\ Reply(w, "denied", 0)
       \/ /\ Allowed(policyRev, cmd[w].target)
          /\ cmd[w].op \in PublicationOps
          /\ Committed(cmd[w])
          /\ Reply(w, "replayed", Receipt(cmd[w]))
       \/ /\ Allowed(policyRev, cmd[w].target)
          /\ cmd[w].op \in PublicationOps
          /\ Misused(cmd[w])
          /\ Reply(w, "rejected", 0)
       \/ /\ Allowed(policyRev, cmd[w].target)
          /\ cmd[w].op \in PublicationOps => ~Committed(cmd[w]) /\ ~Misused(cmd[w])
          /\ Read(w, "key")
    /\ UNCHANGED <<tables, policyRev, indoubt, cmd, attempt, failures>>

-------------------------------------------------------------------------------
(* Publication: _run_locked_transition.  Key lock, replay recheck, policy  *)
(* row, source lock, transition.                                           *)

PubKey(w) ==
    /\ pc[w] = "key" /\ cmd[w].op \in PublicationOps
    /\ CanLock(w)
    /\ IF Misused(cmd[w]) THEN Reply(w, "rejected", 0) ELSE Proceed(w, "policy")
    /\ Unmoved

\* authorize_locked_publication_policy: an unchanged revision keeps the bound
\* preflight verdict, a changed one is evaluated again, for an update without
\* locator evidence.  Replays pass the same check.
LockedLocator(c) == IF c.op = "create" THEN c.target ELSE None

\* Mutant: the preflight verdict is trusted whatever the revision is now.
PubPolicyTrustsEvidence(w) ==
    /\ pc[w] = "policy" /\ cmd[w].op \in PublicationOps
    /\ CanLock(w)
    /\ IF Committed(cmd[w]) THEN Reply(w, "replayed", Receipt(cmd[w])) ELSE Proceed(w, "source")
    /\ Unmoved

\* Mutant: no replay recheck under the key lock.
PubPolicyNoReplay(w) ==
    /\ pc[w] = "policy" /\ cmd[w].op \in PublicationOps
    /\ CanLock(w)
    /\ IF evidence[w] # policyRev /\ ~Allowed(policyRev, LockedLocator(cmd[w]))
         THEN Reply(w, "denied", 0)
         ELSE Proceed(w, "source")
    /\ Unmoved

PubPolicy(w) ==
    /\ pc[w] = "policy" /\ cmd[w].op \in PublicationOps
    /\ CanLock(w)
    /\ IF evidence[w] # policyRev /\ ~Allowed(policyRev, LockedLocator(cmd[w]))
         THEN Reply(w, "denied", 0)
         ELSE IF Committed(cmd[w])
                THEN Reply(w, "replayed", Receipt(cmd[w]))
                ELSE Proceed(w, "source")
    /\ Unmoved

\* The foreign-locator check follows the event insert, so its rejection burns
\* a sequence number.
CreateTransition(w) ==
    \/ /\ Exists(w)
       /\ Reply(w, "rejected", 0)
    \/ /\ ~Exists(w)
       /\ Holders(cmd[w].target) # {}
       /\ ~EventInsertWaits(w)
       /\ nextSeq' = nextSeq + 1
       /\ Answer(w, "rejected", 0)
       /\ holder' = Released(Tx(w))
       /\ UNCHANGED pending
    \/ /\ ~Exists(w)
       /\ Holders(cmd[w].target) = {}
       /\ Write(w, NewEvent(w, 1, cmd[w].content, "upsert"))

\* Mutant: any earlier version is accepted as base.
BaseIsKnown(w) == cmd[w].base <= Current(w)

BaseIsCurrent(w) == cmd[w].base = Current(w)

\* Mutant: the source state is not checked.
UpdateTransitionAnyState(w) ==
    \/ /\ ~(Exists(w) /\ BaseIsCurrent(w))
       /\ Reply(w, "rejected", 0)
    \/ /\ Exists(w)
       /\ BaseIsCurrent(w)
       /\ Write(w, NewEvent(w, Current(w) + 1, cmd[w].content, "upsert"))

UpdateTransition(w) ==
    \/ /\ ~(InState(w, "active") /\ BaseIsCurrent(w))
       /\ Reply(w, "rejected", 0)
    \/ /\ InState(w, "active")
       /\ BaseIsCurrent(w)
       /\ cmd[w].content = Content(w)
       /\ Write(w, NewEvent(w, Current(w), Content(w), "none"))
    \/ /\ InState(w, "active")
       /\ BaseIsCurrent(w)
       /\ cmd[w].content # Content(w)
       /\ Write(w, NewEvent(w, Current(w) + 1, cmd[w].content, "upsert"))

PubSource(w) ==
    /\ pc[w] = "source" /\ cmd[w].op \in PublicationOps
    /\ CanLock(w)
    /\ IF cmd[w].op = "create" THEN CreateTransition(w) ELSE UpdateTransition(w)
    /\ Unmoved

-------------------------------------------------------------------------------
(* Lifecycle: _commit_lifecycle_once.  Replay lookup before any lock, key  *)
(* lock, source lock, locator locks, preconditions, policy row, writes.    *)

LifeLookup(w) ==
    /\ pc[w] = "lookup"
    /\ \/ Committed(cmd[w]) /\ Reply(w, "replayed", Receipt(cmd[w]))
       \/ ~Committed(cmd[w]) /\ ByKey(cmd[w].key) # {} /\ Reply(w, "rejected", 0)
       \/ ByKey(cmd[w].key) = {} /\ Read(w, "key")
    /\ Unmoved

LifeKey(w) ==
    /\ pc[w] = "key" /\ cmd[w].op \in LifecycleOps
    /\ CanLock(w)
    /\ Proceed(w, "source")
    /\ Unmoved

LifeSource(w) ==
    /\ pc[w] = "source" /\ cmd[w].op \in LifecycleOps
    /\ CanLock(w)
    /\ Proceed(w, "locators")
    /\ Unmoved

TombstoneMatches(c) ==
    /\ c.tomb # None
    /\ tombstones[c.tomb] # None
    /\ tombstones[c.tomb].closed = 0
    /\ tombstones[c.tomb].source = c.source
    /\ tombstones[c.tomb].version = row[c.source].version

\* _validate_preconditions
LifecyclePreconditions(w) ==
    /\ InState(w, IF cmd[w].op = "restore" THEN "deleted" ELSE "active")
    /\ BaseIsCurrent(w)
    /\ cmd[w].op \in {"rename", "delete"}
         => \E r \in OpenLocator(cmd[w].source) : r.locator = cmd[w].expected
    /\ cmd[w].op = "restore" => TombstoneMatches(cmd[w])

LifeLocators(w) ==
    /\ pc[w] = "locators"
    /\ CanLock(w)
    /\ IF LifecyclePreconditions(w) THEN Proceed(w, "policy") ELSE Reply(w, "rejected", 0)
    /\ Unmoved

\* The locked verdict decides the projection, not whether the command commits.
LifecycleIntent(c) ==
    IF c.op # "delete" /\ Allowed(policyRev, c.target) THEN "upsert" ELSE "delete"

LifePolicy(w) ==
    /\ pc[w] = "policy" /\ cmd[w].op \in LifecycleOps
    /\ CanLock(w)
    /\ IF cmd[w].op # "delete" /\ Holders(cmd[w].target) \ {cmd[w].source} # {}
         THEN Reply(w, "rejected", 0)
         ELSE Write(w, NewEvent(w, Current(w), Content(w), LifecycleIntent(cmd[w])))
    /\ Unmoved

-------------------------------------------------------------------------------
(* Conflicts: _capture_once and _resolve_once.  Key lock and replay check, *)
(* conflict row, source lock, transition; never the policy row.            *)

\* read_for_resolution and authorize_resolution.
ConfReview(w) ==
    /\ pc[w] = "review"
    /\ CanLock(w)
    /\ \/ conflicts[cmd[w].conflict] = None /\ Reply(w, "rejected", 0)
       \/ /\ conflicts[cmd[w].conflict] # None
          /\ ~Allowed(policyRev, cmd[w].target)
          /\ Reply(w, "denied", 0)
       \/ /\ conflicts[cmd[w].conflict] # None
          /\ Allowed(policyRev, cmd[w].target)
          /\ Read(w, "key")
    /\ Unmoved

KeyOfAnother(c) == \E i \in ByKey(c.key) : log[i].cmd.event # c.event

\* Mutant: the capture's references are not validated.
CaptureReferencesUnchecked(w) == TRUE

\* _validate_capture_references: the source row and the base version exist.
CaptureReferences(w) == Exists(w) /\ cmd[w].base \in 0..Current(w)

ConfKeyCapture(w) ==
    /\ pc[w] = "key" /\ cmd[w].op = "capture"
    /\ CanLock(w)
    /\ \/ Committed(cmd[w]) /\ Reply(w, "replayed", Receipt(cmd[w]))
       \/ /\ ~Committed(cmd[w])
          /\ \/ conflicts[cmd[w].event] # None
             \/ KeyOfAnother(cmd[w])
             \/ ~CaptureReferences(w)
          /\ Reply(w, "rejected", 0)
       \/ /\ conflicts[cmd[w].event] = None
          /\ ~KeyOfAnother(cmd[w])
          /\ CaptureReferences(w)
          /\ Proceed(w, "source")
    /\ Unmoved

\* A resolution replays on its event and key alone; the rest of the command is
\* not compared with the stored one.
Resolutions(e) == {i \in ByEvent(e) : log[i].cmd.op \in ResolveOps}

ConfKeyResolve(w) ==
    LET c == cmd[w] IN
    /\ pc[w] = "key" /\ c.op \in ResolveOps
    /\ CanLock(w)
    /\ \/ \E i \in Resolutions(c.event) :
            IF log[i].cmd.key = c.key THEN Reply(w, "replayed", log[i].seq)
                                      ELSE Reply(w, "rejected", 0)
       \/ /\ Resolutions(c.event) = {}
          /\ KeyOfAnother(c) \/ \E i \in ByKey(c.key) : log[i].cmd.op = "capture"
          /\ Reply(w, "rejected", 0)
       \/ /\ Resolutions(c.event) = {}
          /\ ~KeyOfAnother(c) /\ \A i \in ByKey(c.key) : log[i].cmd.op # "capture"
          /\ Proceed(w, "conflict")
    /\ Unmoved

\* Mutant: a closed conflict is resolved again.
ConfRowAnyStatus(w) ==
    /\ pc[w] = "conflict"
    /\ CanLock(w)
    /\ IF /\ conflicts[cmd[w].conflict] # None
          /\ conflicts[cmd[w].conflict].source = cmd[w].source
         THEN Proceed(w, "source") ELSE Reply(w, "rejected", 0)
    /\ Unmoved

ConfRow(w) ==
    /\ pc[w] = "conflict"
    /\ CanLock(w)
    /\ IF /\ conflicts[cmd[w].conflict] # None
          /\ conflicts[cmd[w].conflict].source = cmd[w].source
          /\ conflicts[cmd[w].conflict].status = "open"
         THEN Proceed(w, "source") ELSE Reply(w, "rejected", 0)
    /\ Unmoved

\* A capture names no committed version and leaves the source alone.
CaptureTransition(w) == Write(w, NewEvent(w, 0, cmd[w].content, "none"))

StaleSuccessor(w) == Write(w, NewEvent(w, 0, None, "none"))

Winner(w) ==
    LET c == cmd[w]
        content == IF c.op = "keep_local" THEN conflicts[c.conflict].candidate ELSE c.content
    IN \/ /\ c.op = "keep_remote"
          /\ Write(w, NewEvent(w, Current(w), Content(w), "none"))
       \/ /\ c.op # "keep_remote"
          /\ ~(InState(w, "active") /\ content # None)
          /\ Reply(w, "rejected", 0)
       \/ /\ c.op # "keep_remote"
          /\ InState(w, "active") /\ content # None
          /\ Write(w, NewEvent(w, Current(w) + 1, content, "upsert"))

ConfSource(w) ==
    /\ pc[w] = "source" /\ cmd[w].op \in ConflictOps
    /\ CanLock(w)
    /\ \/ cmd[w].op = "capture" /\ CaptureTransition(w)
       \/ cmd[w].op \in ResolveOps /\ ~BaseIsCurrent(w) /\ StaleSuccessor(w)
       \/ cmd[w].op \in ResolveOps /\ BaseIsCurrent(w) /\ Winner(w)
    /\ Unmoved

-------------------------------------------------------------------------------
(* Commit: everything the transaction wrote becomes visible at once.       *)

Closed(s, seq) ==
    {IF r.source = s /\ r.closed = 0 THEN [r EXCEPT !.closed = seq] ELSE r : r \in locators}
Opened(s, l, seq) == [source |-> s, locator |-> l, opened |-> seq, closed |-> 0]

SourceAfter(e) ==
    [state |-> IF e.cmd.op = "delete" THEN "deleted" ELSE "active",
     version |-> e.version, content |-> e.content]

\* Mutant: a rename leaves the old locator row open.
LocatorsAfterNoClose(e) ==
    LET s == e.cmd.source IN
    CASE e.cmd.op \in {"create", "rename", "restore"} ->
           locators \cup {Opened(s, e.cmd.target, e.seq)}
      [] e.cmd.op = "delete" -> Closed(s, e.seq)
      [] OTHER               -> locators

LocatorsAfter(e) ==
    LET s == e.cmd.source IN
    CASE e.cmd.op \in {"create", "restore"} -> locators \cup {Opened(s, e.cmd.target, e.seq)}
      [] e.cmd.op = "rename" -> Closed(s, e.seq) \cup {Opened(s, e.cmd.target, e.seq)}
      [] e.cmd.op = "delete" -> Closed(s, e.seq)
      [] OTHER               -> locators

TombstonesAfter(e) ==
    CASE e.cmd.op = "delete" ->
           [tombstones EXCEPT ![e.cmd.event] =
              [source |-> e.cmd.source, version |-> e.version, closed |-> 0]]
      [] e.cmd.op = "restore" -> [tombstones EXCEPT ![e.cmd.tomb].closed = e.seq]
      [] OTHER                -> tombstones

Conflict(s, content) == [source |-> s, candidate |-> content, status |-> "open", by |-> None]

ConflictsAfter(e) ==
    CASE e.cmd.op = "capture" ->
           [conflicts EXCEPT ![e.cmd.event] = Conflict(e.cmd.source, e.content)]
      [] e.cmd.op \in ResolveOps /\ e.version = 0 ->
           [conflicts EXCEPT
              ![e.cmd.conflict].status = "superseded",
              ![e.cmd.conflict].by = e.cmd.event,
              ![e.cmd.event] = Conflict(e.cmd.source, conflicts[e.cmd.conflict].candidate)]
      [] e.cmd.op \in ResolveOps /\ e.version # 0 ->
           [conflicts EXCEPT
              ![e.cmd.conflict].status = "resolved",
              ![e.cmd.conflict].by = e.cmd.event]
      [] OTHER -> conflicts

\* keep_remote and stale resolutions, and captures, move no source pointer.
MovesSource(e) == e.cmd.op \in DeliverableOps \cup {"keep_local", "save_merged"} /\ e.version # 0

Apply(t) ==
    LET e == pending[t] IN
    /\ log' = Append(log, e)
    /\ row' = IF MovesSource(e) THEN [row EXCEPT ![e.cmd.source] = SourceAfter(e)] ELSE row
    /\ locators' = LocatorsAfter(e)
    /\ tombstones' = TombstonesAfter(e)
    /\ conflicts' = ConflictsAfter(e)
    /\ pending' = [pending EXCEPT ![t] = None]
    /\ holder' = Released(t)

Commit(w) ==
    /\ pc[w] = "commit"
    /\ Apply(Tx(w))
    /\ Answer(w, "committed", pending[Tx(w)].seq)
    /\ UNCHANGED <<nextSeq, policyRev, indoubt, cmd, attempt, evidence, failures>>

-------------------------------------------------------------------------------
(* Failures: lock waits that time out, lost connections, dying handlers.   *)

\* Where DatabaseRetryPolicy.run starts the next attempt.
Restart(op) ==
    CASE op \in PublicationOps -> "key" [] op \in LifecycleOps -> "lookup" [] OTHER -> "key"

\* Mutant: the attempt bound is missing.
RetryUnbounded(w, lastAnswer) ==
    /\ Goto(w, Restart(cmd[w].op))
    /\ attempt' = [attempt EXCEPT ![w] = @ + 1]

\* The next attempt, or the last answer once the attempts are used up.
Retry(w, lastAnswer) ==
    IF attempt[w] < MaxAttempts
      THEN /\ Goto(w, Restart(cmd[w].op))
           /\ attempt' = [attempt EXCEPT ![w] = @ + 1]
      ELSE /\ Answer(w, lastAnswer, 0)
           /\ UNCHANGED attempt

InTransaction == {"key", "policy", "source", "conflict", "locators"}

\* lock_timeout, or the deadlock detector, aborts a waiting statement.
Blocked(w) == ~CanLock(w) \/ (pc[w] \in {"source", "policy"} /\ EventInsertWaits(w))

\* Mutant: a lock wait that timed out is tried again without being counted.
LockTimeoutUncounted(w) ==
    /\ pc[w] \in InTransaction \cup {"review"}
    /\ Blocked(w)
    /\ holder' = Released(Tx(w))
    /\ Goto(w, Restart(cmd[w].op))
    /\ UNCHANGED <<tables, nextSeq, policyRev, pending, indoubt, cmd, attempt, evidence,
                   failures>>

LockTimeout(w) ==
    /\ pc[w] \in InTransaction \cup {"review"}
    /\ Blocked(w)
    /\ holder' = Released(Tx(w))
    /\ Retry(w, "busy")
    /\ UNCHANGED <<tables, nextSeq, policyRev, pending, indoubt, cmd, evidence, failures>>

\* The connection breaks before COMMIT is sent: the server rolls back.
ConnLost(w) ==
    /\ failures < MaxFailures
    /\ failures' = failures + 1
    /\ pc[w] \in InTransaction \cup {"commit"}
    /\ Goto(w, "recover")
    /\ holder' = Released(Tx(w))
    /\ pending' = [pending EXCEPT ![Tx(w)] = None]
    /\ UNCHANGED <<tables, nextSeq, policyRev, indoubt, cmd, attempt, evidence>>

\* The connection breaks in one of the reads before the transaction.
LookupLost(w) ==
    /\ failures < MaxFailures
    /\ failures' = failures + 1
    /\ pc[w] \in {"preflight", "lookup", "review"}
    /\ Reply(w, "unknown", 0)
    /\ UNCHANGED <<tables, policyRev, indoubt, cmd, attempt, evidence>>

\* The connection breaks with COMMIT on its way: the outcome is open, and the
\* transaction keeps its locks until the server has decided it.
CommitLost(w) ==
    /\ failures < MaxFailures
    /\ failures' = failures + 1
    /\ pc[w] = "commit"
    /\ indoubt' = indoubt \cup {Tx(w)}
    /\ Goto(w, "recover")
    /\ UNCHANGED <<tables, nextSeq, policyRev, holder, pending, cmd, attempt, evidence>>

InDoubtCommit(t) ==
    /\ t \in indoubt
    /\ Apply(t)
    /\ indoubt' = indoubt \ {t}
    /\ UNCHANGED <<nextSeq, policyRev, pc, cmd, attempt, evidence, answer, failures>>

InDoubtAbort(t) ==
    /\ t \in indoubt
    /\ holder' = Released(t)
    /\ pending' = [pending EXCEPT ![t] = None]
    /\ indoubt' = indoubt \ {t}
    /\ UNCHANGED <<tables, nextSeq, policyRev, pc, cmd, attempt, evidence, answer, failures>>

\* _resolve_uncertain_outcome: what is committed right now decides; the lookup
\* takes no lock.  The conflict store has no lookup and just tries again.  A
\* mismatch found by the lifecycle lookup surfaces as an unknown outcome.
Recover(w) ==
    LET c == cmd[w] IN
    /\ pc[w] = "recover"
    /\ IF c.op \notin ConflictOps /\ Committed(c)
         THEN Answer(w, "replayed", Receipt(c)) /\ UNCHANGED attempt
         ELSE IF c.op \in PublicationOps /\ Misused(c)
                THEN Answer(w, "rejected", 0) /\ UNCHANGED attempt
                ELSE IF c.op \in LifecycleOps /\ ByKey(c.key) # {}
                       THEN Answer(w, "unknown", 0) /\ UNCHANGED attempt
                       ELSE Retry(w, "unknown")
    /\ UNCHANGED <<tables, nextSeq, policyRev, holder, pending, indoubt, cmd, evidence,
                   failures>>

\* The lookup itself cannot reach the database.
RecoverFails(w) ==
    /\ failures < MaxFailures
    /\ failures' = failures + 1
    /\ pc[w] = "recover"
    /\ cmd[w].op \notin ConflictOps
    /\ Answer(w, "unknown", 0)
    /\ UNCHANGED <<tables, nextSeq, policyRev, holder, pending, indoubt, cmd, attempt, evidence>>

\* The handler is cancelled or its process dies: the client gets no answer.
Abandon(w) ==
    /\ failures < MaxFailures
    /\ failures' = failures + 1
    /\ pc[w] \notin {"idle", "done"}
    /\ pc' = [pc EXCEPT ![w] = "idle"]
    /\ IF Tx(w) \in indoubt
         THEN UNCHANGED <<holder, pending>>
         ELSE /\ holder' = Released(Tx(w))
              /\ pending' = [pending EXCEPT ![Tx(w)] = None]
    /\ UNCHANGED <<tables, nextSeq, policyRev, indoubt, cmd, attempt, evidence, answer>>

\* An administrator publishes the next policy revision under the row lock.
PublishPolicy ==
    /\ policyRev < MaxRevision
    /\ Free(PolicyRow)
    /\ policyRev' = policyRev + 1
    /\ UNCHANGED <<tables, nextSeq, holder, pending, indoubt, pc, cmd, attempt, evidence,
                   answer, failures>>

-------------------------------------------------------------------------------
Init ==
    /\ log = << >>
    /\ nextSeq = 1
    /\ row = [s \in Sources |-> None]
    /\ locators = {}
    /\ tombstones = [e \in Events |-> None]
    /\ conflicts = [e \in Events |-> None]
    /\ policyRev = 1
    /\ holder = [l \in Locks |-> None]
    /\ pending = [t \in Txns |-> None]
    /\ indoubt = {}
    /\ pc = [w \in Writers |-> "idle"]
    /\ cmd = [w \in Writers |-> None]
    /\ attempt = [w \in Writers |-> 1]
    /\ evidence = [w \in Writers |-> 0]
    /\ answer = [w \in Writers |-> None]
    /\ failures = 0

Publication(w) == Preflight(w) \/ PubKey(w) \/ PubPolicy(w) \/ PubSource(w)
Lifecycle(w)   == LifeLookup(w) \/ LifeKey(w) \/ LifeSource(w) \/ LifeLocators(w) \/ LifePolicy(w)
Conflicts(w)   == ConfReview(w) \/ ConfKeyCapture(w) \/ ConfKeyResolve(w) \/ ConfRow(w)
                  \/ ConfSource(w)
Progress(w)    == Publication(w) \/ Lifecycle(w) \/ Conflicts(w) \/ Commit(w) \/ LockTimeout(w)
                  \/ Recover(w)
Failure(w)     == ConnLost(w) \/ LookupLost(w) \/ CommitLost(w) \/ RecoverFails(w) \/ Abandon(w)
Decide(t)      == InDoubtCommit(t) \/ InDoubtAbort(t)

Next ==
    \/ \E w \in Writers : (\E c \in Commands : Request(w, c)) \/ Progress(w) \/ Failure(w)
    \/ \E t \in Txns : Decide(t)
    \/ PublishPolicy

\* Handlers run (their waits are bounded by lock_timeout and the attempts), and
\* the server decides every commit it received.
Fairness == (\A w \in Writers : WF_vars(Progress(w))) /\ (\A t \in Txns : WF_vars(Decide(t)))

Spec == Init /\ [][Next]_vars /\ Fairness
-------------------------------------------------------------------------------
(* Properties.                                                             *)

AnswerKinds == {"committed", "replayed", "rejected", "denied", "busy", "unknown", "error"}
Labels == {"idle", "preflight", "lookup", "review", "key", "policy", "source", "locators",
           "conflict", "commit", "recover", "done"}

TypeOK ==
    /\ log \in Seq(EventRecord)
    /\ nextSeq \in Nat \ {0}
    /\ row \in [Sources -> {None} \cup SourceRow]
    /\ locators \subseteq [source : Sources, locator : Locators, opened : Nat, closed : Nat]
    /\ tombstones \in [Events -> {None} \cup TombstoneRow]
    /\ conflicts \in [Events -> {None} \cup ConflictRecord]
    /\ policyRev \in Nat
    /\ holder \in [Locks -> Txns \cup {None}]
    /\ pending \in [Txns -> EventRecord \cup {None}]
    /\ indoubt \subseteq Txns
    /\ pc \in [Writers -> Labels]
    /\ cmd \in [Writers -> Commands \cup {None}]
    /\ attempt \in [Writers -> 1..MaxAttempts]
    /\ evidence \in [Writers -> Nat]
    /\ answer \in [Writers -> {None} \cup [kind : AnswerKinds, seq : Nat]]
    /\ failures \in Nat

Deliverable(e) == e.cmd.op \in DeliverableOps

\* The promise the device pull rests on: deliverable events become visible in
\* sequence order, although sequence numbers are allocated before the commit by
\* concurrent transactions on different sources (the policy row serialises them).
DeliverableOrder ==
    \A i, j \in 1..Len(log) :
        i < j /\ Deliverable(log[i]) /\ Deliverable(log[j]) => log[i].seq < log[j].seq

\* What a handler may rely on between two of its statements: the rows it has found
\* and may still read exist, and its command fits where it is.
HandlerReferences(w) ==
    LET c == cmd[w] IN
    /\ pc[w] # "idle" => c # None
    /\ pc[w] = "commit" => pending[Tx(w)] # None
    /\ pc[w] \in {"lookup", "locators"} => c.op \in LifecycleOps
    /\ pc[w] \in {"review", "conflict"} => c.op \in ResolveOps
    /\ pc[w] = "policy" => c.op \notin ConflictOps
    /\ pc[w] = "policy" /\ c.op \in LifecycleOps =>
        /\ row[c.source] # None
        /\ c.op = "restore" => tombstones[c.tomb] # None
    /\ pc[w] = "source" /\ c.op \in ConflictOps =>
        /\ row[c.source] # None
        /\ c.op \in ResolveOps => conflicts[c.conflict] # None

\* The rows an event's commit will update.
EventReferences(e) ==
    /\ e.cmd.op = "restore" => tombstones[e.cmd.tomb] # None
    /\ e.cmd.op \in ConflictOps => row[e.cmd.source] # None
    /\ e.cmd.op \in ResolveOps => conflicts[e.cmd.conflict] # None

\* No statement reads or updates a row that is not there, whatever committed between
\* two statements of a transaction or between a lost COMMIT and its outcome.
ReferencesExist ==
    /\ \A w \in Writers : HandlerReferences(w)
    /\ \A e \in Events : conflicts[e] # None => row[conflicts[e].source] # None
    /\ \A t \in Txns : pending[t] # None => EventReferences(pending[t])
    /\ \A t \in indoubt : pending[t] # None

\* Which transactions are alive: an uncommitted event belongs to a transaction that
\* is about to commit or whose COMMIT is in doubt, and an attempt that follows an
\* in-doubt one is a transaction of its own.
OneLiveTransaction ==
    /\ \A t \in Txns : pending[t] # None =>
        t \in indoubt \/ (pc[t[1]] = "commit" /\ t[2] = attempt[t[1]])
    /\ \A t \in indoubt :
        /\ t[2] <= attempt[t[1]]
        /\ t[2] = attempt[t[1]] => pc[t[1]] \in {"recover", "idle", "done"}

\* The policy row is held from before a deliverable event's sequence number is
\* allocated until the event is visible or gone.
PolicyRowHeld ==
    /\ \A t \in Txns : pending[t] # None /\ Deliverable(pending[t]) => holder[PolicyRow] = t
    /\ \A w \in Writers :
        pc[w] = "source" /\ cmd[w].op \in PublicationOps => holder[PolicyRow] = Tx(w)

\* Sequence numbers are never reused, and an uncommitted deliverable event is above
\* every deliverable event already visible.
SequenceBounds ==
    /\ \A t \in Txns : pending[t] # None =>
        /\ pending[t].seq < nextSeq
        /\ \A i \in 1..Len(log) :
            /\ log[i].seq # pending[t].seq
            /\ Deliverable(log[i]) /\ Deliverable(pending[t]) => log[i].seq < pending[t].seq
        /\ \A u \in Txns : pending[u] # None /\ u # t => pending[u].seq # pending[t].seq
    /\ \A i \in 1..Len(log) :
        /\ log[i].seq < nextSeq
        /\ \A j \in 1..Len(log) : i # j => log[i].seq # log[j].seq

\* Why DeliverableOrder holds: the inductive strengthening of it.
LockDiscipline == OneLiveTransaction /\ PolicyRowHeld /\ SequenceBounds

EL == INSTANCE EventLog WITH
        visible <- {[seq |-> log[i].seq, deliverable |-> Deliverable(log[i])] : i \in 1..Len(log)}

\* The store implements the abstract event log.
ImplementsEventLog == EL!Spec

PublishesVersion(e) ==
    e.cmd.op \in {"create", "update", "keep_local", "save_merged"} /\ e.intent = "upsert"

\* No lost update: whichever of publication and conflict resolution wrote them, the
\* versions of a source form one chain 1, 2, ..., current, each built on the one
\* right before it (current_version_id, base_version_id, parent_version_id).
VersionChain ==
    \A s \in Sources :
        LET published == {i \in 1..Len(log) : log[i].cmd.source = s /\ PublishesVersion(log[i])}
        IN /\ \A i \in published :
                /\ log[i].version = log[i].prior + 1
                /\ \A j \in published : j < i => log[j].version < log[i].version
           /\ row[s] # None => row[s].version = Cardinality(published)

\* The lifecycle invariant over three tables: a locator is open for at most one
\* source, an active source has exactly one open locator, a deleted one has none and
\* exactly one open tombstone, which retains the current version.
LifecycleConsistent ==
    /\ \A p, q \in locators : p.closed = 0 /\ q.closed = 0 /\ p.locator = q.locator => p = q
    /\ \A s \in Sources :
        LET tombs == {e \in Events : tombstones[e] # None /\ tombstones[e].source = s
                                     /\ tombstones[e].closed = 0}
        IN CASE row[s] = None -> OpenLocator(s) = {} /\ tombs = {}
             [] row[s] # None /\ row[s].state = "active" ->
                  Cardinality(OpenLocator(s)) = 1 /\ tombs = {}
             [] row[s] # None /\ row[s].state = "deleted" ->
                  /\ OpenLocator(s) = {} /\ Cardinality(tombs) = 1
                  /\ \A e \in tombs : tombstones[e].version = row[s].version

\* hydrate_device_event: every delivered update finds exactly one locator its source
\* held open at the event's own sequence, whatever renamed or deleted it since.
HydrationTotal ==
    \A i \in 1..Len(log) : log[i].cmd.op = "update" =>
        Cardinality({r \in locators : /\ r.source = log[i].cmd.source
                                      /\ r.opened <= log[i].seq
                                      /\ r.closed = 0 \/ r.closed > log[i].seq}) = 1

\* A committed or replayed answer names the committed event of this very command (a
\* resolution is identified by its event and key), even after lost connections.
AnswerTrue ==
    \A w \in Writers :
        pc[w] = "done" /\ answer[w].kind \in {"committed", "replayed"} =>
            \E i \in 1..Len(log) :
                /\ log[i].seq = answer[w].seq
                /\ log[i].cmd.key = cmd[w].key /\ log[i].cmd.event = cmd[w].event
                /\ cmd[w].op \notin ResolveOps => log[i].cmd = cmd[w]

Rejects(w) == pc[w] # "done" /\ pc'[w] = "done" /\ answer'[w].kind \in {"rejected", "error"}
Undecided(c) == \E t \in Txns : pending[t] # None /\ pending[t].cmd = c

\* A publication or conflict command is told "no" for good only when it neither has
\* committed nor can still commit through another attempt, handler or in-doubt COMMIT.
RejectionIsDefinite ==
    [][\A w \in Writers : Rejects(w) /\ cmd[w].op \notin LifecycleOps =>
         ~Committed(cmd[w]) /\ ~Undecided(cmd[w])]_vars

\* A deliverable event commits under the policy revision it was authorised by, and
\* what it publishes or projects is allowed by that revision at that moment.
AuthorisedAtCommit ==
    [][Len(log') > Len(log) =>
         LET e == log'[Len(log')] IN
         Deliverable(e) =>
            /\ e.rev = policyRev
            /\ e.cmd.op \in {"create", "rename", "restore"} /\ e.intent = "upsert"
                 => Allowed(policyRev, e.cmd.target)]_vars

\* Concurrent and repeated resolutions: a conflict is closed by exactly one committed
\* resolution, and a superseded one hands its candidate to exactly one successor.
ConflictClosedOnce ==
    \A c \in Events : conflicts[c] # None =>
        LET closing == {i \in 1..Len(log) : log[i].cmd.op \in ResolveOps /\ log[i].cmd.conflict = c}
        IN CASE conflicts[c].status = "open" -> closing = {}
             [] conflicts[c].status = "resolved" ->
                  Cardinality(closing) = 1 /\ \A i \in closing : log[i].version # 0
             [] conflicts[c].status = "superseded" ->
                  /\ Cardinality(closing) = 1
                  /\ conflicts[conflicts[c].by] # None
                  /\ conflicts[conflicts[c].by].candidate = conflicts[c].candidate

\* Every request ends, whatever it waits for: lock waits and attempts are bounded.
EveryRequestAnswered ==
    \A w \in Writers : pc[w] \notin {"idle", "done"} ~> pc[w] \in {"idle", "done"}
===============================================================================
