--------------------------- MODULE DeviceSyncProofs ---------------------------
(***************************************************************************)
(* What a device may rely on while it follows the log, for every set of    *)
(* sources, every page limit and bound, and every kind of fault: its       *)
(* journal and the server's row agree on the cursors, the acknowledgement  *)
(* it owes is one the server takes, and no lane writes an older version    *)
(* over a newer one.                                                       *)
(*                                                                         *)
(* A cycle is interrupted anywhere, so the invariant says what each place  *)
(* where the device keeps a part of the log still means: the page it       *)
(* pulled, the journal rows of interrupted writes, the event it works on,  *)
(* the manifest run it shares with the server, and the acknowledgement     *)
(* whose answer it may not have seen.                                      *)
(*                                                                         *)
(* First comes the row of device_cursors alone: only the server writes it, *)
(* so its invariant leaves arbitrary what the device sends, and when, and  *)
(* a pull, an acknowledgement or a manifest call at any time, in any order *)
(* and any number of times keeps it a device cursor.                       *)
(***************************************************************************)
EXTENDS DeviceSync, WellFoundedInduction, FiniteSetTheorems, TLAPS

ServerTypes ==
    /\ \A e \in log : e.seq \in Nat
    /\ inflight # None => inflight.seq \in Nat
    /\ nextSeq \in Nat
    /\ acked \in Nat /\ delivered \in Nat
    /\ "checkpoint" \in DOMAIN run /\ run.checkpoint \in Nat

CursorInv == ServerTypes /\ AckedIsDelivered

\* The larger of two numbers.
LEMMA MaxOfTwo ==
    ASSUME NEW a \in Nat, NEW b \in Nat
    PROVE  Max({a, b}) = IF a < b THEN b ELSE a
BY DEF Max
CursorStep == [Cursor!Next]_(Cursor!cursor)

-------------------------------------------------------------------------------
(* What the calls of the device do to the row.                             *)

LEMMA PullKeeps ==
    ASSUME CursorInv, PullEvents
    PROVE  CursorInv' /\ CursorStep
<1>1. PICK n \in {delivered} \cup {e.seq : e \in Page} : delivered' = n /\ \A e \in Page : e.seq <= n
  BY DEF PullEvents
<1>6. \A e \in Page : e \in log /\ e.seq > delivered
  BY Zenon DEF Page, Deliverables
<1>2. n \in Nat /\ n >= delivered
  <2>1. CASE n = delivered
    BY <2>1 DEF CursorInv, ServerTypes
  <2>2. CASE \E e \in Page : n = e.seq
    BY <2>2, <1>6 DEF CursorInv, ServerTypes
  <2> QED BY <1>1, <2>1, <2>2
<1>3. UNCHANGED <<log, nextSeq, inflight, acked, run>>
  BY DEF PullEvents
<1>4. CursorInv'
  BY <1>1, <1>2, <1>3 DEF CursorInv, ServerTypes, AckedIsDelivered
<1>5. CursorStep
  BY <1>1, <1>2, <1>3 DEF CursorInv, ServerTypes, CursorStep, Cursor!Next, Cursor!Deliver, Cursor!cursor
<1> QED BY <1>4, <1>5

LEMMA AcknowledgeKeeps ==
    ASSUME NEW expected, NEW applied, CursorInv, AcknowledgeCursor(expected, applied)
    PROVE  CursorInv' /\ CursorStep
<1>1. UNCHANGED <<log, nextSeq, inflight, delivered, run>>
  BY DEF AcknowledgeCursor
<1>2. CASE AckAccepted(expected, applied)
  <2>1. acked' = applied /\ applied \in acked .. delivered
    BY <1>2 DEF AcknowledgeCursor, AckAccepted
  <2>2. CursorInv'
    BY <2>1, <1>1 DEF CursorInv, ServerTypes, AckedIsDelivered
  <2>3. CursorStep
    BY <2>1, <1>1 DEF CursorInv, ServerTypes, CursorStep, Cursor!Next, Cursor!Acknowledge, Cursor!cursor
  <2> QED BY <2>2, <2>3
<1>3. CASE ~AckAccepted(expected, applied)
  <2>1. acked' = acked
    BY <1>3 DEF AcknowledgeCursor
  <2> QED BY <2>1, <1>1 DEF CursorInv, ServerTypes, AckedIsDelivered, CursorStep, Cursor!cursor
<1> QED BY <1>2, <1>3

\* The manifest calls before the completion leave the row alone.
LEMMA RunKeeps ==
    ASSUME CursorInv, UNCHANGED <<log, nextSeq, inflight, acked, delivered>>,
           "checkpoint" \in DOMAIN run', run'.checkpoint \in Nat
    PROVE  CursorInv' /\ CursorStep
BY DEF CursorInv, ServerTypes, AckedIsDelivered, CursorStep, Cursor!cursor

LEMMA StartKeeps ==
    ASSUME NEW gen, CursorInv, StartManifest(gen)
    PROVE  CursorInv' /\ CursorStep
<1>1. PICK c \in {acked} \cup {e.seq : e \in log} :
        run' = IF Unfinished /\ run.gen = gen
                 THEN run
                 ELSE [id |-> run.id + 1, gen |-> gen, state |-> "collecting",
                       checkpoint |-> c, entries |-> None, plan |-> None]
  BY DEF StartManifest
<1>2. c \in Nat
  BY DEF CursorInv, ServerTypes
<1>3. "checkpoint" \in DOMAIN run' /\ run'.checkpoint \in Nat
  BY <1>1, <1>2 DEF CursorInv, ServerTypes
<1> QED BY <1>3, RunKeeps DEF StartManifest

LEMMA AppendKeeps ==
    ASSUME NEW capture, CursorInv, AppendPage(capture)
    PROVE  CursorInv' /\ CursorStep
<1>1. "checkpoint" \in DOMAIN run' /\ run'.checkpoint \in Nat
  BY DEF AppendPage, CursorInv, ServerTypes
<1> QED BY <1>1, RunKeeps DEF AppendPage

LEMMA FinalizeKeeps ==
    ASSUME NEW capture, CursorInv, FinalizeManifest(capture)
    PROVE  CursorInv' /\ CursorStep
<1>1. PICK plan : run' = IF run.state # "collecting" THEN run
              ELSE IF run.entries # capture THEN [run EXCEPT !.state = "failed"]
              ELSE [run EXCEPT !.state = "planned", !.plan = plan]
  BY DEF FinalizeManifest
<1>2. "checkpoint" \in DOMAIN run' /\ run'.checkpoint \in Nat
  BY <1>1 DEF CursorInv, ServerTypes
<1> QED BY <1>2, RunKeeps DEF FinalizeManifest

LEMMA ListKeeps ==
    ASSUME CursorInv, ListActions
    PROVE  CursorInv' /\ CursorStep
<1>1. "checkpoint" \in DOMAIN run' /\ run'.checkpoint \in Nat
  BY DEF ListActions, CursorInv, ServerTypes
<1> QED BY <1>1, RunKeeps DEF ListActions

\* The completion moves both cursors to the checkpoint, or neither.
LEMMA CompleteKeeps ==
    ASSUME CursorInv, CompleteManifest
    PROVE  CursorInv' /\ CursorStep
<1>1. CASE run.state = "applying"
  <2>1. run' = [run EXCEPT !.state = "completed"] /\ UNCHANGED <<log, nextSeq, inflight>>
    BY <1>1 DEF CompleteManifest
  <2>2. acked' = IF acked < run.checkpoint THEN run.checkpoint ELSE acked
    BY <1>1, MaxOfTwo DEF CompleteManifest, CursorInv, ServerTypes
  <2>3. delivered' = IF acked < run.checkpoint
                       THEN IF delivered < run.checkpoint THEN run.checkpoint ELSE delivered
                       ELSE delivered
    BY <1>1, MaxOfTwo DEF CompleteManifest, CursorInv, ServerTypes
  <2>4. CursorInv'
    BY <2>1, <2>2, <2>3 DEF CursorInv, ServerTypes, AckedIsDelivered
  <2>5. CursorStep
    BY <2>2, <2>3 DEF CursorInv, ServerTypes, CursorStep, Cursor!Next, Cursor!Authorize, Cursor!cursor
  <2> QED BY <2>4, <2>5
<1>2. CASE run.state # "applying"
  <2>1. UNCHANGED <<run, acked, delivered, log, nextSeq, inflight>>
    BY <1>2 DEF CompleteManifest
  <2> QED BY <2>1 DEF CursorInv, ServerTypes, AckedIsDelivered, CursorStep, Cursor!cursor
<1> QED BY <1>1, <1>2

\* A step that leaves the server alone.
LEMMA QuietKeeps ==
    ASSUME CursorInv, UNCHANGED server
    PROVE  CursorInv' /\ CursorStep
BY DEF server, CursorInv, ServerTypes, AckedIsDelivered, CursorStep, Cursor!cursor
-------------------------------------------------------------------------------
(* One step of the system.                                                 *)

\* The steps of the device that make no call.
Silent ==
    \/ Wake \/ ExplicitRepair \/ Crash \/ Recover \/ RecoverFails \/ RepairDecision
    \/ (\E s \in Sources : RunAction(s)) \/ RunActionsDone \/ RunCompleted
    \/ OutboundDone \/ AckNotOwed \/ PageDone \/ (\E e \in mem.page : ApplyEvent(e))
    \/ Prepare \/ Fetch \/ FetchLost \/ Stage \/ Replace \/ Mark \/ Terminal \/ VaultFails

LEMMA SilentIsQuiet == Silent => UNCHANGED server
<1> SUFFICES ASSUME Silent PROVE UNCHANGED server
  OBVIOUS
<1>1. CASE Wake  BY <1>1 DEF Wake
<1>2. CASE ExplicitRepair  BY <1>2 DEF ExplicitRepair
<1>3. CASE Crash  BY <1>3 DEF Crash
<1>4. CASE Recover  BY <1>4 DEF Recover
<1>5. CASE RecoverFails  BY <1>5 DEF RecoverFails
<1>6. CASE RepairDecision  BY <1>6 DEF RepairDecision
<1>7. CASE RunActionsDone  BY <1>7 DEF RunActionsDone
<1>8. CASE RunCompleted  BY <1>8 DEF RunCompleted
<1>9. CASE OutboundDone  BY <1>9 DEF OutboundDone
<1>10. CASE AckNotOwed  BY <1>10 DEF AckNotOwed
<1>11. CASE PageDone  BY <1>11 DEF PageDone
<1>12. CASE Prepare  BY <1>12 DEF Prepare
<1>13. CASE Fetch  BY <1>13 DEF Fetch
<1>14. CASE FetchLost  BY <1>14 DEF FetchLost
<1>15. CASE Stage  BY <1>15 DEF Stage
<1>16. CASE Replace  BY <1>16 DEF Replace
<1>17. CASE Mark  BY <1>17 DEF Mark
<1>18. CASE Terminal  BY <1>18 DEF Terminal
<1>19. CASE VaultFails  BY <1>19 DEF VaultFails
<1>20. ASSUME NEW s \in Sources, RunAction(s) PROVE UNCHANGED server  BY <1>20 DEF RunAction
<1>21. ASSUME NEW e \in mem.page, ApplyEvent(e) PROVE UNCHANGED server  BY <1>21 DEF ApplyEvent
<1> QED BY <1>1, <1>2, <1>3, <1>4, <1>5, <1>6, <1>7, <1>8, <1>9, <1>10, <1>11, <1>12, <1>13, <1>14, <1>15, <1>16, <1>17, <1>18, <1>19, <1>20, <1>21 DEF Silent

\* The steps of the other devices and of the clock.
LEMMA OthersKeep ==
    ASSUME CursorInv, Others \/ ExpireRun \/ (\E s \in Sources : Upload(s))
    PROVE  CursorInv' /\ CursorStep
<1> USE DEF CursorInv, ServerTypes, AckedIsDelivered, CursorStep, Cursor!cursor
<1>1. CASE Commit
  BY <1>1 DEF Commit
<1>2. CASE Rollback
  BY <1>2 DEF Rollback
<1>3. ASSUME NEW s \in Sources, Begin(s) PROVE CursorInv' /\ CursorStep
  BY <1>3 DEF Begin
<1>4. ASSUME NEW s \in Sources, CaptureConflict(s) PROVE CursorInv' /\ CursorStep
  BY <1>4 DEF CaptureConflict
<1>5. CASE ExpireRun
  BY <1>5 DEF ExpireRun
<1>6. ASSUME NEW s \in Sources, Upload(s) PROVE CursorInv' /\ CursorStep
  BY <1>6 DEF Upload
<1> QED BY <1>1, <1>2, <1>3, <1>4, <1>5, <1>6 DEF Others

LEMMA StepKeeps ==
    ASSUME CursorInv, [Next]_vars
    PROVE  CursorInv' /\ CursorStep
<1>1. CASE Silent
  BY <1>1, SilentIsQuiet, QuietKeeps
<1>2. CASE Others \/ ExpireRun \/ (\E s \in Sources : Upload(s))
  BY <1>2, OthersKeep
<1>3. CASE RunStart
  <2>1. PICK gen : gen = journal.barrier
    OBVIOUS
  <2>2. StartManifest(gen)
    BY <1>3, <2>1 DEF RunStart, StartManifest
  <2> QED BY <2>2, StartKeeps
<1>4. CASE RunPage
  <2>1. PICK capture : capture = Capture
    OBVIOUS
  <2>2. UNCHANGED server \/ AppendPage(capture)
    BY <1>4, <2>1 DEF RunPage, AppendPage
  <2> QED BY <2>2, QuietKeeps, AppendKeeps
<1>5. CASE RunFinalize
  <2>1. PICK capture : capture = Capture
    OBVIOUS
  <2>2. FinalizeManifest(capture)
    BY <1>5, <2>1 DEF RunFinalize, FinalizeManifest
  <2> QED BY <2>2, FinalizeKeeps
<1>6. CASE RunList
  BY <1>6, ListKeeps DEF RunList
<1>7. CASE RunClose \/ RunComplete
  BY <1>7, CompleteKeeps DEF RunClose, RunComplete
<1>8. CASE AckOwed \/ AckLost
  <2>1. PICK expected : expected = journal.acked
    OBVIOUS
  <2>2. PICK applied : applied = journal.applied
    OBVIOUS
  <2>3. UNCHANGED server \/ AcknowledgeCursor(expected, applied)
    BY <1>8, <2>1, <2>2 DEF AckOwed, AckLost, AcknowledgeCursor, AckAccepted
  <2> QED BY <2>3, QuietKeeps, AcknowledgeKeeps
<1>9. CASE Pull \/ PullLost
  BY <1>9, PullKeeps, QuietKeeps DEF Pull, PullLost
<1>10. CASE ManifestCallLost
  <2>1. PICK gen : gen = journal.barrier
    OBVIOUS
  <2>2. PICK capture : capture = Capture
    OBVIOUS
  <2>3. \/ UNCHANGED server \/ StartManifest(gen) \/ AppendPage(capture)
        \/ FinalizeManifest(capture) \/ ListActions \/ CompleteManifest
    BY <1>10, <2>1, <2>2 DEF ManifestCallLost, StartManifest, AppendPage, FinalizeManifest
  <2> QED BY <2>3, QuietKeeps, StartKeeps, AppendKeeps, FinalizeKeeps, ListKeeps, CompleteKeeps
<1>11. CASE UNCHANGED vars
  BY <1>11, QuietKeeps DEF vars
<1> QED
  BY <1>1, <1>2, <1>3, <1>4, <1>5, <1>6, <1>7, <1>8, <1>9, <1>10, <1>11
  DEF Next, Cycle, Repair, Failure, Others, User, Silent

LEMMA InitKeeps == Init => CursorInv /\ Cursor!Init
BY DEF Init, CursorInv, ServerTypes, AckedIsDelivered, Cursor!Init

-------------------------------------------------------------------------------
(* Theorems.                                                               *)

\* The server never records an acknowledgement beyond what it delivered, whatever
\* the device sends (_acknowledge_once, _pull_once and _complete_once together).
THEOREM AckedIsAlwaysDelivered == Spec => []AckedIsDelivered
<1>1. Init => CursorInv
  BY InitKeeps
<1>2. CursorInv /\ [Next]_vars => CursorInv'
  BY StepKeeps
<1>3. CursorInv => AckedIsDelivered
  BY DEF CursorInv
<1> QED BY <1>1, <1>2, <1>3, PTL DEF Spec

\* The row of device_cursors implements DeviceCursor: it only moves forward, and only
\* a completed manifest run moves the acknowledgement beyond what was delivered.
THEOREM SyncImplementsCursor == Spec => CursorSpec
<1>1. Init => CursorInv /\ Cursor!Init
  BY InitKeeps
<1>2. CursorInv /\ [Next]_vars => CursorInv' /\ [Cursor!Next]_(Cursor!cursor)
  BY StepKeeps DEF CursorStep
<1> QED BY <1>1, <1>2, PTL DEF Spec, CursorSpec, Cursor!Spec

-------------------------------------------------------------------------------
(* The inductive invariant of the device and the server together.          *)

\* Sequence numbers are drawn once, and a version is at most its number.
Numbered ==
    /\ \A e \in log : e.version <= e.seq /\ e.seq < nextSeq
    /\ \A e, f \in log : e.seq = f.seq => e = f
    /\ inflight # None =>
         /\ inflight.version > 0 /\ inflight.version <= inflight.seq /\ inflight.seq < nextSeq
         /\ \A e \in log : e.seq # inflight.seq /\ (e.version > 0 => e.seq < inflight.seq)
    /\ acked <= delivered
    /\ run.checkpoint <= acked \/ \E e \in log : e.seq = run.checkpoint

ApplyPcs == {"fetch", "prepare", "stage", "replace", "mark", "terminal"}
RunPcs   == {"page", "finalize", "list", "actions", "close", "complete", "completed"}
Barrier  == journal.barrier # None
Working  == mem.pc \in ApplyPcs
Repairing == Working /\ mem.evt.lane = "repair"
InRun    == mem.pc \in RunPcs \/ Repairing

\* An event of the log is what x says.
IsEvent(x) == \E e \in log : e.seq = x.seq /\ e.source = x.source /\ e.version = x.version

\* What the device holds of the log: the page it pulled, the rows of its journal and
\* the event it is working on.
RowFits(j, r) ==
    /\ r.base < r.version /\ r.seq <= j.applied + 1
    /\ r.state = "locally_applied" => r.seq <= j.applied
RowFrom(r) == r.seq <= run.checkpoint \/ (r.seq <= delivered /\ IsEvent(r))
RowsFit(j) == \A r \in j.rows : RowFits(j, r) /\ RowFrom(r)

WorkOK ==
    /\ mem.evt # None
    /\ mem.evt.seq = journal.applied + 1 /\ mem.evt.base < mem.evt.version
    /\ mem.evt.lane = "pull" => mem.evt.seq <= delivered /\ IsEvent(mem.evt)
    /\ mem.evt.lane = "repair" => mem.evt.seq <= run.checkpoint
    /\ At("replace") => vault[mem.evt.source] = mem.evt.base
    /\ mem.pc \in {"mark", "terminal"} => vault[mem.evt.source] = mem.evt.version

PageOK  == \A e \in mem.page : e \in log /\ e.seq <= delivered /\ e.version > 0
RowsOK  == RowsFit(journal)
WorkKept == Working => WorkOK
KnownOK == \A s \in Sources :
              /\ journal.known[s] <= vault[s]
              /\ journal.known[s] # 0 => \E e \in log : e.source = s /\ e.version = journal.known[s]

\* The run of the barrier that stands: what its states mean, on the server and on
\* the device that works through it.
RunMade ==
    /\ run.state \in {"planned", "applying", "completed"} => run.plan # None
    /\ run.state = "collecting" => run.plan = None
    /\ run.plan # None => run.entries # None
    /\ Unfinished => \A s \in Sources : journal.known[s] <= VersionAt(s, run.checkpoint)
    /\ run.plan # None => \A s \in Sources :
         run.plan[s] = "download" => run.entries[s].have < VersionAt(s, run.checkpoint)

BarrierOK ==
    /\ At("start") \/ InRun => Barrier
    /\ journal.bound # None =>
         /\ Barrier /\ journal.bound.id <= run.id
         /\ journal.bound.id = run.id => run.entries # None
    /\ journal.bound = None => journal.done = {}
    /\ ~Barrier => /\ ~Unfinished
                   /\ run.checkpoint <= acked /\ run.checkpoint <= journal.applied

BoundHere == journal.bound # None /\ journal.bound.id = run.id

InStep ==
    InRun =>
      /\ mem.receipt # None
      /\ mem.receipt.id = run.id /\ mem.receipt.checkpoint = run.checkpoint
      /\ journal.bound # None => BoundHere
      /\ At("page") => /\ Unfinished \/ run.state = "expired"
                       /\ mem.receipt.paged => run.entries # None
      /\ At("finalize") => /\ Unfinished \/ run.state = "expired"
                           /\ BoundHere /\ run.entries # None
      /\ At("list") => run.state \in {"planned", "applying", "expired"}
      /\ mem.pc \in {"actions", "close", "complete"} \/ Repairing =>
           run.state \in {"applying", "expired"}
      /\ At("completed") => run.state = "completed" /\ run.checkpoint <= acked

\* From the listing on, the manifest is the vault the run started from, except for
\* the files the run has placed.
Unplaced == Sources \ (journal.done \cup (IF Repairing THEN {mem.evt.source} ELSE {}))
Planned ==
    mem.pc \in {"list", "actions", "complete"} \/ Repairing =>
      /\ BoundHere /\ run.plan # None
      /\ \A s \in Sources : /\ run.entries[s].base = journal.known[s]
                            /\ run.entries[s].have <= vault[s]
      /\ \A s \in Unplaced : run.entries[s].have = vault[s]

\* The debt of an acknowledgement.
Guarded == \A r \in journal.rows :
              r.seq = journal.applied + 1 => \E q \in journal.rows : q.seq < r.seq

Debt ==
    /\ acked <= journal.applied \/ acked <= run.checkpoint
    /\ journal.acked <= acked /\ journal.acked <= journal.applied
    /\ ~Barrier =>
         /\ acked <= journal.applied /\ journal.applied <= delivered
         /\ acked = journal.acked \/ (acked = journal.applied /\ Guarded)
         /\ mem.pc \in {"repair", "outbound", "ack", "pull", "apply", "ack_page"} /\ Owed =>
              Guarded
         /\ mem.pc \in {"pull", "apply"} \/ Working => acked = journal.acked

SafetyInv ==
    /\ TypeOK /\ Numbered /\ PageOK /\ RowsOK /\ WorkKept /\ KnownOK
    /\ RunMade /\ BarrierOK /\ InStep /\ Planned /\ Debt

-------------------------------------------------------------------------------
(* The version a source has at a sequence number.                          *)

\* A bounded set of numbers that has an element has a greatest one.
LEMMA GreatestExists ==
    ASSUME NEW S, S \subseteq Nat, S # {}, NEW b \in Nat, \A x \in S : x <= b
    PROVE  Max(S) \in S /\ \A x \in S : x <= Max(S)
<1> DEFINE T == {b - x : x \in S}
<1>1. T \subseteq Nat /\ T # {}
  OBVIOUS
<1>2. PICK d \in T : \A y \in T : <<y, d>> \notin OpToRel(<, Nat)
  BY <1>1, NatLessThanWellFounded, WFMin
<1>3. PICK m \in S : d = b - m
  OBVIOUS
<1>4. \A x \in S : x <= m
  <2> TAKE x \in S
  <2>1. ~(b - x < b - m)
    BY <1>1, <1>2, <1>3 DEF OpToRel
  <2> QED BY <2>1
<1>5. \E n \in S : \A x \in S : n >= x
  BY <1>4
<1> QED BY <1>5 DEF Max

LEMMA VersionAtIs ==
    ASSUME TypeOK, NEW s, NEW c
    PROVE  /\ VersionAt(s, c) \in Versions
           /\ \A e \in log : e.source = s /\ e.seq <= c => e.version <= VersionAt(s, c)
           /\ VersionAt(s, c) # 0 =>
                \E e \in log : e.source = s /\ e.seq <= c /\ e.version = VersionAt(s, c)
<1> DEFINE V == {0} \cup {e.version : e \in {f \in log : f.source = s /\ f.seq <= c}}
<1>1. V \subseteq Versions /\ V # {}
  BY BoundsAssumption DEF TypeOK, Events, Versions
<1>2. V \subseteq Nat /\ \A v \in V : v <= MaxSequence
  BY <1>1 DEF Versions
<1>3. Max(V) \in V /\ \A v \in V : v <= Max(V)
  BY <1>1, <1>2, GreatestExists, BoundsAssumption
<1>4. VersionAt(s, c) = Max(V)
  BY DEF VersionAt
<1>5. VersionAt(s, c) \in V /\ \A v \in V : v <= VersionAt(s, c)
  BY <1>3, <1>4
<1> HIDE DEF V
<1>6. VersionAt(s, c) \in Versions
  BY <1>1, <1>5
<1>7. \A e \in log : e.source = s /\ e.seq <= c => e.version \in V
  BY DEF V
<1>8. VersionAt(s, c) # 0 =>
                \E e \in log : e.source = s /\ e.seq <= c /\ e.version = VersionAt(s, c)
  BY <1>5 DEF V
<1> QED BY <1>5, <1>6, <1>7, <1>8
-------------------------------------------------------------------------------
(* The transitions of the journal and of the memory keep their shape.      *)

LEMMA JournalShape ==
    ASSUME NEW j \in Journals
    PROVE  /\ Barred(j) \in Journals /\ Discarded(j) \in Journals
           /\ \A g \in BOOLEAN : Blocked(j, g) \in Journals
           /\ \A r \in Rows : WithRow(j, r) \in Journals
           /\ \A n \in Sequences : Acknowledged(j, n) \in Journals
           /\ \A n \in Sequences : Terminalized(j, n) \in Journals
<1>1. Barred(j) \in Journals /\ Discarded(j) \in Journals
  <2>1. Barred(j) \in Journals
    <3>1. Barred(j) = [j EXCEPT !.gen = j.gen + 1, !.barrier = j.gen + 1, !.gap = FALSE]
      BY DEF Barred
    <3>2. j.gen + 1 \in Nat
      BY DEF Journals
    <3> QED BY <3>1, <3>2 DEF Journals
  <2>2. Discarded(j) \in Journals
    BY DEF Discarded, Journals
  <2> QED BY <2>1, <2>2
<1>2. \A g \in BOOLEAN : Blocked(j, g) \in Journals
  BY DEF Blocked, Journals
<1>3. ASSUME NEW r \in Rows PROVE WithRow(j, r) \in Journals
  BY DEF WithRow, Journals
<1>4. ASSUME NEW n \in Sequences PROVE Acknowledged(j, n) \in Journals
  BY DEF Acknowledged, Journals
<1>5. ASSUME NEW n \in Sequences PROVE Terminalized(j, n) \in Journals
  <2>1. {IF r.seq = n THEN [r EXCEPT !.state = "locally_applied"] ELSE r : r \in j.rows} \subseteq Rows
    BY DEF Journals, Rows
  <2>2. CASE n = j.applied + 1
    BY <2>1, <2>2 DEF Terminalized, Journals
  <2>3. CASE n # j.applied + 1
    <3>1. Terminalized(j, n) = Blocked(j, n > j.applied)
      BY <2>3 DEF Terminalized
    <3>2. (n > j.applied) \in BOOLEAN
      OBVIOUS
    <3> QED BY <1>2, <3>1, <3>2, Zenon
  <2> QED BY <2>2, <2>3
<1> QED BY <1>1, <1>2, <1>3, <1>4, <1>5

LEMMA MemoryShape ==
    ASSUME mem \in Memories
    PROVE  /\ Idle \in Memories /\ Settled \in Memories /\ RepairBlocked \in Memories
           /\ RepairRetried \in Memories /\ AfterAck \in Memories
           /\ \A r \in BOOLEAN : ApplyFailed(r) \in Memories
<1>1. Idle \in Memories /\ Settled \in Memories /\ RepairBlocked \in Memories
  BY DEF Idle, Settled, RepairBlocked, Memories, Pcs
<1>2. RepairRetried \in Memories
  <2>1. mem.retries \in 0 .. RetryBound - 1 /\ Idle.retries = mem.retries
    BY DEF Memories, Idle
  <2>2. CASE mem.retries + 1 >= RetryBound
    <3>1. RepairRetried = [Settled EXCEPT !.blocked = TRUE, !.retries = 0]
      BY <2>2 DEF RepairRetried
    <3>2. 0 \in 0 .. RetryBound - 1
      BY BoundsAssumption
    <3> QED BY <1>1, <3>1, <3>2 DEF Memories
  <2>3. CASE ~(mem.retries + 1 >= RetryBound)
    <3>1. RepairRetried = [Idle EXCEPT !.retries = mem.retries + 1]
      BY <2>1, <2>3 DEF RepairRetried
    <3>2. mem.retries + 1 \in 0 .. RetryBound - 1
      BY <2>1, <2>3, BoundsAssumption
    <3> QED BY <1>1, <3>1, <3>2 DEF Memories
  <2> QED BY <2>2, <2>3
<1>3. AfterAck \in Memories
  BY <1>1 DEF AfterAck, Memories, Pcs
<1> QED BY <1>1, <1>2, <1>3 DEF ApplyFailed

LEMMA CaptureShape == TypeOK => Capture \in Manifests
BY DEF TypeOK, Capture, Manifests, Journals

LEMMA RowShape ==
    ASSUME TypeOK, mem.evt # None,
           NEW state \in {"prepared", "temp_verified", "vault_mutated", "locally_applied"}
    PROVE  Row(state) \in Rows
BY DEF TypeOK, Row, Rows, Memories, Applies
-------------------------------------------------------------------------------
(* Types: the calls of the server.                                         *)

ServerShape ==
    /\ log \subseteq Events /\ nextSeq \in 1 .. MaxSequence + 1
    /\ inflight \in Events \cup {None}
    /\ acked \in Sequences /\ delivered \in Sequences /\ run \in Runs
DeviceShape ==
    /\ journal \in Journals /\ mem \in Memories /\ vault \in [Sources -> Versions]
    /\ closed \subseteq Sources \X Versions
    /\ used \in [faults : Nat, repairs : Nat, uploads : Nat]

LEMMA ShapeParts == TypeOK <=> ServerShape /\ DeviceShape
BY DEF TypeOK, ServerShape, DeviceShape

LEMMA ServerIdleShape == TypeOK /\ UNCHANGED server => ServerShape'
BY DEF TypeOK, ServerShape, server

LEMMA PullShape ==
    ASSUME TypeOK, PullEvents
    PROVE  ServerShape'
<1>1. \A e \in Page : e \in log
  BY Zenon DEF Page, Deliverables
<1>2. PICK n \in {delivered} \cup {e.seq : e \in Page} : delivered' = n
  BY DEF PullEvents
<1>3. n \in Sequences
  BY <1>1 DEF TypeOK, Events
<1> QED BY <1>2, <1>3 DEF PullEvents, TypeOK, ServerShape

LEMMA AcknowledgeShape ==
    ASSUME TypeOK, NEW expected, NEW applied \in Sequences, AcknowledgeCursor(expected, applied)
    PROVE  ServerShape'
BY DEF AcknowledgeCursor, TypeOK, ServerShape

LEMMA StartShape ==
    ASSUME TypeOK, NEW gen \in Nat, StartManifest(gen)
    PROVE  ServerShape'
<1>1. PICK c \in {acked} \cup {e.seq : e \in log} :
        run' = IF Unfinished /\ run.gen = gen
                 THEN run
                 ELSE [id |-> run.id + 1, gen |-> gen, state |-> "collecting",
                       checkpoint |-> c, entries |-> None, plan |-> None]
  BY DEF StartManifest
<1>2. c \in Sequences
  BY DEF TypeOK, Events
<1>3. run' \in Runs
  <2>1. run.id + 1 \in Nat
    BY DEF TypeOK, Runs
  <2> QED BY <1>1, <1>2, <2>1 DEF TypeOK, Runs, RunStates
<1> QED BY <1>3 DEF StartManifest, TypeOK, ServerShape

LEMMA AppendShape ==
    ASSUME TypeOK, NEW capture \in Manifests, AppendPage(capture)
    PROVE  ServerShape'
BY DEF AppendPage, TypeOK, ServerShape, Runs

LEMMA FinalizeShape ==
    ASSUME TypeOK, NEW capture \in Manifests, FinalizeManifest(capture)
    PROVE  ServerShape'
<1>1. \A s \in Sources : PlannedAction(capture[s].have, capture[s].base,
                                       VersionAt(s, run.checkpoint)) \in Actions
  BY DEF PlannedAction, Actions
<1>2. run' \in Runs
  BY <1>1 DEF FinalizeManifest, TypeOK, Runs, RunStates
<1> QED BY <1>2 DEF FinalizeManifest, TypeOK, ServerShape

LEMMA ListShape == TypeOK /\ ListActions => ServerShape'
BY DEF ListActions, TypeOK, ServerShape, Runs, RunStates

LEMMA CompleteShape ==
    ASSUME TypeOK, CompleteManifest
    PROVE  ServerShape'
<1>1. acked \in Nat /\ delivered \in Nat /\ run.checkpoint \in Nat
  BY BoundsAssumption DEF TypeOK, Runs, Sequences
<1>2. acked' \in {acked, run.checkpoint} /\ delivered' \in {delivered, run.checkpoint}
  BY <1>1, MaxOfTwo DEF CompleteManifest
<1>3. run' \in Runs
  BY DEF CompleteManifest, TypeOK, Runs, RunStates
<1> QED BY <1>2, <1>3 DEF CompleteManifest, TypeOK, ServerShape, Runs

LEMMA OthersShape ==
    ASSUME TypeOK, Numbered, Others \/ ExpireRun
    PROVE  ServerShape' /\ DeviceShape'
<1>1. CASE Commit
  BY <1>1 DEF Commit, TypeOK, ServerShape, DeviceShape
<1>2. CASE Rollback
  BY <1>2 DEF Rollback, TypeOK, ServerShape, DeviceShape
<1>3. ASSUME NEW s \in Sources, Begin(s)
      PROVE  ServerShape' /\ DeviceShape'
  <2>1. Canonical(s) + 1 \in Versions
    <3>1. /\ Canonical(s) \in Versions
          /\ Canonical(s) # 0 => \E e \in log : e.version = Canonical(s)
      BY VersionAtIs DEF Canonical
    <3>2. nextSeq \in 1 .. MaxSequence
      BY <1>3, BoundsAssumption DEF Begin, TypeOK
    <3>3. \A e \in log : e.version <= e.seq /\ e.seq < nextSeq /\ e.seq \in Nat /\ e.version \in Nat
      BY DEF Numbered, TypeOK, Events, Sequences, Versions
    <3>4. Canonical(s) < nextSeq
      BY <3>1, <3>2, <3>3
    <3> QED BY <3>1, <3>2, <3>4, BoundsAssumption DEF Versions
  <2>2. inflight' \in Events /\ nextSeq' \in 1 .. MaxSequence + 1
    BY <1>3, <2>1, BoundsAssumption DEF Begin, TypeOK, Events, Sequences
  <2> QED BY <1>3, <2>2 DEF Begin, TypeOK, ServerShape, DeviceShape
<1>4. ASSUME NEW s \in Sources, CaptureConflict(s)
      PROVE  ServerShape' /\ DeviceShape'
  <2>1. [seq |-> nextSeq, source |-> s, version |-> 0, own |-> FALSE] \in Events
        /\ nextSeq' \in 1 .. MaxSequence + 1
    BY <1>4, BoundsAssumption DEF CaptureConflict, TypeOK, Events, Sequences, Versions
  <2> QED BY <1>4, <2>1 DEF CaptureConflict, TypeOK, ServerShape, DeviceShape
<1>5. CASE ExpireRun
  BY <1>5 DEF ExpireRun, TypeOK, ServerShape, DeviceShape, Runs, RunStates
<1> QED BY <1>1, <1>2, <1>3, <1>4, <1>5 DEF Others

LEMMA UploadShape ==
    ASSUME TypeOK, Numbered, NEW s \in Sources, Upload(s)
    PROVE  ServerShape' /\ DeviceShape'
<1>1. vault[s] = Canonical(s) /\ nextSeq \in 1 .. MaxSequence
  BY BoundsAssumption DEF Upload, TypeOK
<1>2. vault[s] + 1 \in Versions
  <2>1. /\ Canonical(s) \in Versions
        /\ Canonical(s) # 0 => \E e \in log : e.version = Canonical(s)
    BY VersionAtIs DEF Canonical
  <2>2. \A e \in log : e.version <= e.seq /\ e.seq < nextSeq /\ e.seq \in Nat /\ e.version \in Nat
    BY DEF Numbered, TypeOK, Events, Sequences, Versions
  <2>3. Canonical(s) < nextSeq
    BY <1>1, <2>1, <2>2
  <2> QED BY <1>1, <2>1, <2>3, BoundsAssumption DEF Versions
<1>3. [seq |-> nextSeq, source |-> s, version |-> vault[s] + 1, own |-> TRUE] \in Events
  BY <1>1, <1>2 DEF Events, Sequences
<1>4. ServerShape'
  <2>1. /\ log' = log \cup {[seq |-> nextSeq, source |-> s, version |-> vault[s] + 1, own |-> TRUE]}
        /\ nextSeq' = nextSeq + 1 /\ UNCHANGED <<inflight, acked, delivered, run>>
    BY DEF Upload
  <2>2. log' \subseteq Events
    BY <1>3, <2>1 DEF TypeOK
  <2>3. nextSeq' \in 1 .. MaxSequence + 1
    BY <1>1, <2>1, BoundsAssumption
  <2> QED BY <2>1, <2>2, <2>3 DEF TypeOK, ServerShape
<1>5. journal' \in Journals /\ vault' \in [Sources -> Versions]
  BY <1>2 DEF Upload, TypeOK, Journals
<1>6. used' \in [faults : Nat, repairs : Nat, uploads : Nat]
  BY DEF Upload, TypeOK
<1> QED BY <1>4, <1>5, <1>6 DEF Upload, TypeOK, DeviceShape
-------------------------------------------------------------------------------
(* Types: the steps of the device.                                         *)

\* What the memory becomes keeps its shape.
LEMMA FaultShape ==
    ASSUME TypeOK, NEW kind, Fault(kind)
    PROVE  used' \in [faults : Nat, repairs : Nat, uploads : Nat]
BY DEF Fault, TypeOK

LEMMA RestartShape ==
    ASSUME TypeOK, NEW j \in Journals, NEW c \in BOOLEAN, RestartRun(j, c)
    PROVE  journal' \in Journals /\ mem' \in Memories
<1>1. Discarded(j) \in Journals /\ Barred(Discarded(j)) \in Journals /\ RepairBlocked \in Memories
  BY JournalShape, MemoryShape DEF TypeOK
<1>2. [mem EXCEPT !.pc = "start", !.attempt = 1, !.receipt = None] \in Memories
  BY DEF TypeOK, Memories, Pcs
<1> QED BY <1>1, <1>2 DEF RestartRun

LEMMA WakeShape == TypeOK /\ (Wake \/ ExplicitRepair \/ Crash) => DeviceShape'
<1> SUFFICES ASSUME TypeOK, Wake \/ ExplicitRepair \/ Crash PROVE DeviceShape'
  OBVIOUS
<1>1. CASE Wake
  BY <1>1 DEF Wake, TypeOK, DeviceShape, Memories, Pcs
<1>2. CASE ExplicitRepair
  <2>1. 0 \in 0 .. RetryBound - 1
    BY BoundsAssumption
  <2>2. mem' \in Memories
    BY <1>2, <2>1 DEF ExplicitRepair, TypeOK, Memories
  <2>3. used' \in [faults : Nat, repairs : Nat, uploads : Nat]
    BY <1>2 DEF ExplicitRepair, TypeOK
  <2> QED BY <1>2, <2>2, <2>3 DEF ExplicitRepair, TypeOK, DeviceShape
<1>3. CASE Crash
  <2>1. 0 \in 0 .. RetryBound - 1 /\ Idle \in Memories
    BY BoundsAssumption, MemoryShape DEF TypeOK
  <2>2. mem' \in Memories
    BY <1>3, <2>1 DEF Crash, Memories
  <2>3. used' \in [faults : Nat, repairs : Nat, uploads : Nat]
    BY <1>3, FaultShape DEF Crash
  <2> QED BY <1>3, <2>2, <2>3 DEF Crash, TypeOK, DeviceShape
<1> QED BY <1>1, <1>2, <1>3

LEMMA RecoverShape == TypeOK /\ (Recover \/ RecoverFails) => DeviceShape'
<1> SUFFICES ASSUME TypeOK, Recover \/ RecoverFails PROVE DeviceShape'
  OBVIOUS
<1>1. /\ [mem EXCEPT !.pc = "repair"] \in Memories /\ Idle \in Memories
      /\ Barred(journal) \in Journals
  BY MemoryShape, JournalShape DEF TypeOK, Memories, Pcs
<1>2. CASE RecoverFails
  BY <1>1, <1>2, FaultShape DEF RecoverFails, TypeOK, DeviceShape
<1>3. CASE Recover /\ journal.rows = {} /\ mem' = [mem EXCEPT !.pc = "repair"] /\ UNCHANGED <<vault, journal, closed>>
  BY <1>1, <1>3 DEF Recover, TypeOK, DeviceShape
<1>4. ASSUME NEW r \in journal.rows, Recover,
             \/ mem' = [mem EXCEPT !.pc = "repair"] /\ UNCHANGED <<vault, journal, closed>>
             \/ RecoverClean(r) \/ RecoverMutated(r) \/ RecoverBlocked(r)
      PROVE  DeviceShape'
  <2>1. r \in Rows
    BY DEF TypeOK, Journals
  <2>2. used' = used
    BY <1>4 DEF Recover
  <2>3. CASE mem' = [mem EXCEPT !.pc = "repair"] /\ UNCHANGED <<vault, journal, closed>>
    BY <1>1, <2>2, <2>3 DEF TypeOK, DeviceShape
  <2>4. CASE RecoverClean(r)
    <3>1. PICK j : j = [journal EXCEPT !.rows = @ \ {r}]
      OBVIOUS
    <3>2. j \in Journals
      BY <3>1 DEF TypeOK, Journals
    <3>3. journal' \in {j, Barred(j)} /\ mem' \in {[mem EXCEPT !.pc = "repair"], Idle}
      BY <2>4, <3>1 DEF RecoverClean
    <3>4. journal' \in Journals
      BY <3>2, <3>3, JournalShape
    <3> QED BY <1>1, <2>2, <2>4, <3>3, <3>4 DEF RecoverClean, TypeOK, DeviceShape
  <2>5. CASE RecoverMutated(r)
    <3>1. [r EXCEPT !.state = "vault_mutated"] \in Rows /\ r.seq \in Sequences
      BY <2>1 DEF Rows
    <3>2. WithRow(journal, [r EXCEPT !.state = "vault_mutated"]) \in Journals
      BY <3>1, JournalShape DEF TypeOK
    <3>3. Terminalized(WithRow(journal, [r EXCEPT !.state = "vault_mutated"]), r.seq) \in Journals
          /\ Blocked(journal, FALSE) \in Journals
      BY <3>1, <3>2, JournalShape DEF TypeOK
    <3>4. journal' \in Journals /\ mem' \in Memories
      BY <1>1, <2>5, <3>3 DEF RecoverMutated
    <3>5. vault' \in [Sources -> Versions]
      BY <2>1, <2>5 DEF RecoverMutated, TypeOK, Rows
    <3> QED BY <2>2, <2>5, <3>4, <3>5 DEF RecoverMutated, TypeOK, DeviceShape
  <2>6. CASE RecoverBlocked(r)
    BY <1>1, <2>2, <2>6 DEF RecoverBlocked, TypeOK, DeviceShape
  <2> QED BY <1>4, <2>3, <2>4, <2>5, <2>6
<1> QED BY <1>2, <1>3, <1>4 DEF Recover
LEMMA RepairShape ==
    ASSUME TypeOK, RepairDecision \/ RunActionsDone \/ RunCompleted
                   \/ (\E s \in Sources : RunAction(s)),
           InStep
    PROVE  DeviceShape'
<1>1. CASE RepairDecision
  <2>1. Barred(journal) \in Journals
    BY JournalShape DEF TypeOK
  <2>2. [mem EXCEPT !.pc = "outbound"] \in Memories
        /\ [mem EXCEPT !.explicit = FALSE, !.pc = "start"] \in Memories
    BY DEF TypeOK, Memories, Pcs
  <2>3. journal \in Journals
    BY DEF TypeOK
  <2>4. journal' \in Journals /\ mem' \in Memories
    BY <1>1, <2>1, <2>2, <2>3 DEF RepairDecision
  <2> QED BY <1>1, <2>4 DEF RepairDecision, TypeOK, DeviceShape
<1>2. CASE RunActionsDone
  <2>1. \A s \in Sources : <<s, VersionAt(s, mem.receipt.checkpoint)>> \in Sources \X Versions
    BY VersionAtIs
  <2>2. closed' \subseteq Sources \X Versions
    BY <1>2, <2>1 DEF RunActionsDone, TypeOK
  <2>3. mem' \in Memories
    BY <1>2 DEF RunActionsDone, TypeOK, Memories, Pcs
  <2> QED BY <1>2, <2>2, <2>3 DEF RunActionsDone, TypeOK, DeviceShape
<1>3. CASE RunCompleted
  <2>1. mem.receipt.checkpoint \in Sequences
    BY <1>3 DEF RunCompleted, At, InStep, InRun, RunPcs, TypeOK, Memories, Receipts
  <2>2. Acknowledged(Discarded(journal), mem.receipt.checkpoint) \in Journals
        /\ Blocked(journal, FALSE) \in Journals
    BY <2>1, JournalShape DEF TypeOK
  <2>3. [Acknowledged(Discarded(journal), mem.receipt.checkpoint) EXCEPT
           !.applied = mem.receipt.checkpoint, !.barrier = None, !.gap = FALSE] \in Journals
    BY <2>1, <2>2 DEF Journals
  <2>4. 0 \in 0 .. RetryBound - 1 /\ Settled \in Memories /\ RepairBlocked \in Memories
    BY BoundsAssumption, MemoryShape DEF TypeOK
  <2>5. [Settled EXCEPT !.blocked = FALSE, !.retries = 0] \in Memories
    BY <2>4 DEF Memories
  <2>6. journal' \in Journals /\ mem' \in Memories
    BY <1>3, <2>2, <2>3, <2>4, <2>5 DEF RunCompleted
  <2> QED BY <1>3, <2>6 DEF RunCompleted, TypeOK, DeviceShape
<1>4. ASSUME NEW s \in Sources, RunAction(s)
      PROVE  DeviceShape'
  <2>1. /\ mem.receipt \in Receipts /\ journal.applied + 1 \in Nat
        /\ mem.receipt.checkpoint \in Sequences
        /\ VersionAt(s, mem.receipt.checkpoint) \in Versions
    <3>1. mem.receipt # None
      BY <1>4 DEF RunAction, At, InStep, InRun, RunPcs
    <3>2. mem.receipt \in Receipts
      BY <3>1 DEF TypeOK, Memories
    <3>3. journal.applied + 1 \in Nat
      BY BoundsAssumption DEF TypeOK, Journals, Sequences
    <3> QED BY <3>2, <3>3, VersionAtIs DEF Receipts
  <2>2. PICK j : j = [journal EXCEPT !.attempted = @ \cup {s}]
    OBVIOUS
  <2>3. j \in Journals
    BY <2>2 DEF TypeOK, Journals
  <2>4. CASE /\ ActionFits(journal.applied + 1) /\ journal' = j
             /\ mem' = [mem EXCEPT !.pc = "fetch",
                   !.evt = [lane |-> "repair", id |-> <<mem.receipt.id, s>>,
                            seq |-> journal.applied + 1, source |-> s,
                            version |-> VersionAt(s, mem.receipt.checkpoint), base |-> vault[s]]]
             /\ UNCHANGED closed
    <3>1. journal.applied + 1 \in Sequences /\ s \in Nat /\ mem.receipt.id \in Nat
      BY <2>1, <2>4, BoundsAssumption, SourcesAssumption DEF ActionFits, Sequences, Receipts
    <3>2. PICK e : e = [lane |-> "repair", id |-> <<mem.receipt.id, s>>,
                            seq |-> journal.applied + 1, source |-> s,
                            version |-> VersionAt(s, mem.receipt.checkpoint), base |-> vault[s]]
      OBVIOUS
    <3>3. e \in Applies
      BY <2>1, <3>1, <3>2 DEF Applies, TypeOK
    <3>4. mem' = [mem EXCEPT !.pc = "fetch", !.evt = e]
      BY <2>4, <3>2
    <3>5. mem' \in Memories
      BY <3>3, <3>4 DEF TypeOK, Memories, Pcs
    <3> QED BY <1>4, <2>3, <2>4, <3>5 DEF RunAction, TypeOK, DeviceShape
  <2>5. CASE /\ journal' = [j EXCEPT !.gap = TRUE, !.done = @ \cup {s}]
             /\ closed' = closed \cup {<<s, VersionAt(s, mem.receipt.checkpoint)>>}
             /\ UNCHANGED mem
    <3>1. journal' \in Journals
      BY <2>3, <2>5 DEF Journals
    <3>2. closed' \subseteq Sources \X Versions
      BY <2>1, <2>5 DEF TypeOK
    <3> QED BY <1>4, <2>5, <3>1, <3>2 DEF RunAction, TypeOK, DeviceShape
  <2>6. CASE /\ \/ journal' = Discarded(j) /\ mem' = [mem EXCEPT !.pc = "close"]
                \/ journal' = [j EXCEPT !.gap = TRUE] /\ mem' = RepairBlocked
             /\ UNCHANGED closed
    <3>1. Discarded(j) \in Journals /\ RepairBlocked \in Memories
      BY <2>3, JournalShape, MemoryShape DEF TypeOK
    <3>2. [j EXCEPT !.gap = TRUE] \in Journals /\ [mem EXCEPT !.pc = "close"] \in Memories
      BY <2>3 DEF Journals, TypeOK, Memories, Pcs
    <3> QED BY <1>4, <2>6, <3>1, <3>2 DEF RunAction, TypeOK, DeviceShape
  <2> QED BY <1>4, <2>2, <2>4, <2>5, <2>6 DEF RunAction
<1> QED BY <1>1, <1>2, <1>3, <1>4

\* The steps of a run that call the server.
LEMMA RunShape ==
    ASSUME TypeOK, BarrierOK, InStep,
           RunStart \/ RunPage \/ RunFinalize \/ RunList \/ RunClose \/ RunComplete
    PROVE  ServerShape' /\ DeviceShape'
<1>1. Capture \in Manifests /\ journal \in Journals /\ Discarded(journal) \in Journals
  BY CaptureShape, JournalShape DEF TypeOK
<1>2. At("page") => Bound \in Journals
  BY <1>1 DEF Bound, TypeOK, At, InStep, InRun, RunPcs, Memories, Receipts, Journals, Bounds
<1>3. CASE RunStart
  <2>1. journal.barrier \in Nat
    BY <1>3 DEF RunStart, BarrierOK, Barrier, TypeOK, Journals
  <2>2. ServerShape'
    BY <1>3, <2>1, StartShape DEF RunStart
  <2>3. [id |-> run'.id, checkpoint |-> run'.checkpoint, paged |-> run'.entries # None] \in Receipts
    BY <2>2 DEF ServerShape, Runs, Receipts
  <2>4. journal' \in Journals /\ mem' \in Memories
    <3>1. CASE RestartRun(Discarded(journal), FALSE)
      BY <1>1, <3>1, RestartShape
    <3>2. CASE /\ mem' = [mem EXCEPT !.pc = "page",
                              !.receipt = [id |-> run'.id, checkpoint |-> run'.checkpoint,
                                           paged |-> run'.entries # None]]
               /\ UNCHANGED journal
      <4>1. PICK r : r = [id |-> run'.id, checkpoint |-> run'.checkpoint,
                                           paged |-> run'.entries # None]
        OBVIOUS
      <4> QED BY <1>1, <2>3, <3>2, <4>1 DEF TypeOK, Memories, Pcs
    <3> QED BY <1>3, <3>1, <3>2 DEF RunStart
  <2> QED BY <1>3, <2>2, <2>4 DEF RunStart, TypeOK, DeviceShape
<1>4. CASE RunPage
  <2>1. ServerShape'
    <3>1. UNCHANGED server \/ AppendPage(Capture)
      BY <1>4 DEF RunPage
    <3>2. PICK c \in Manifests : c = Capture
      BY <1>1
    <3>3. AppendPage(Capture) => AppendPage(c)
      BY <3>2 DEF AppendPage
    <3> QED BY <3>1, <3>3, ServerIdleShape, AppendShape
  <2>2. \/ mem' = [mem EXCEPT !.pc = "finalize"] /\ journal' \in {journal, Bound}
        \/ RestartRun(journal, TRUE) \/ RestartRun(journal, FALSE)
    BY <1>4 DEF RunPage
  <2>3. [mem EXCEPT !.pc = "finalize"] \in Memories
    BY DEF TypeOK, Memories, Pcs
  <2>4. journal' \in Journals /\ mem' \in Memories
    BY <1>1, <1>2, <1>4, <2>2, <2>3, RestartShape DEF RunPage
  <2> QED BY <1>4, <2>1, <2>4 DEF RunPage, TypeOK, DeviceShape
<1>5. CASE RunFinalize
  <2>1. ServerShape'
    <3>1. PICK c \in Manifests : c = Capture
      BY <1>1
    <3>2. FinalizeManifest(c)
      BY <1>5, <3>1 DEF RunFinalize, FinalizeManifest
    <3> QED BY <3>2, FinalizeShape
  <2>2. \/ mem' = [mem EXCEPT !.pc = "list"] /\ UNCHANGED journal
        \/ RestartRun(journal, TRUE) \/ RestartRun(journal, FALSE)
    BY <1>5 DEF RunFinalize
  <2>3. [mem EXCEPT !.pc = "list"] \in Memories
    BY DEF TypeOK, Memories, Pcs
  <2>4. journal' \in Journals /\ mem' \in Memories
    BY <1>1, <2>2, <2>3, RestartShape
  <2> QED BY <1>5, <2>1, <2>4 DEF RunFinalize, TypeOK, DeviceShape
<1>6. CASE RunList
  <2>1. \/ mem' = [mem EXCEPT !.pc = "actions", !.tried = journal.attempted] /\ UNCHANGED journal
        \/ RestartRun(journal, FALSE)
    BY <1>6 DEF RunList
  <2>2. [mem EXCEPT !.pc = "actions", !.tried = journal.attempted] \in Memories
    BY DEF TypeOK, Memories, Pcs, Journals
  <2>3. journal' \in Journals /\ mem' \in Memories
    BY <1>1, <2>1, <2>2, RestartShape
  <2> QED BY <1>6, <2>3, ListShape DEF RunList, TypeOK, DeviceShape
<1>7. CASE RunClose \/ RunComplete
  <2>1. \/ mem' = [mem EXCEPT !.pc = "completed"] /\ UNCHANGED journal
        \/ RestartRun(journal, FALSE)
    BY <1>7 DEF RunClose, RunComplete
  <2>2. [mem EXCEPT !.pc = "completed"] \in Memories
    BY DEF TypeOK, Memories, Pcs
  <2>3. journal' \in Journals /\ mem' \in Memories
    BY <1>1, <2>1, <2>2, RestartShape
  <2> QED BY <1>7, <2>3, CompleteShape DEF RunClose, RunComplete, TypeOK, DeviceShape
<1> QED BY <1>3, <1>4, <1>5, <1>6, <1>7
LEMMA LaneShape ==
    ASSUME TypeOK, WorkKept, PageOK,
           \/ OutboundDone \/ AckNotOwed \/ PageDone \/ (\E e \in mem.page : ApplyEvent(e))
           \/ Prepare \/ Fetch \/ FetchLost \/ Stage \/ Replace \/ Mark \/ Terminal \/ VaultFails
    PROVE  DeviceShape'
<1>1. /\ \A p \in Pcs : [mem EXCEPT !.pc = p] \in Memories
      /\ \A p \in Pcs : [mem EXCEPT !.pc = p, !.evt = None] \in Memories
      /\ Idle \in Memories /\ AfterAck \in Memories
      /\ \A r \in BOOLEAN : ApplyFailed(r) \in Memories
  BY MemoryShape DEF TypeOK, Memories
<1>2. \A n \in Sequences : Terminalized(journal, n) \in Journals
  BY JournalShape DEF TypeOK
<1>3. CASE OutboundDone \/ AckNotOwed \/ PageDone \/ Fetch
  BY <1>1, <1>3 DEF OutboundDone, AckNotOwed, PageDone, Fetch, TypeOK, DeviceShape, Pcs
<1>4. ASSUME NEW e \in mem.page, ApplyEvent(e)
      PROVE  DeviceShape'
  <2>1. /\ e \in Events /\ e.seq \in Sequences /\ e.seq \in Nat /\ e.source \in Sources
        /\ e.version \in Versions
    BY <1>4, BoundsAssumption DEF TypeOK, Memories, Events, Sequences
  <2>2. [mem EXCEPT !.page = @ \ {e}] \in Memories
    BY DEF TypeOK, Memories
  <2>3. CASE mem' \in {[mem EXCEPT !.page = @ \ {e}], Idle} /\ journal' \in {journal, Terminalized(journal, e.seq)}
    BY <1>1, <1>2, <1>4, <2>1, <2>2, <2>3 DEF ApplyEvent, TypeOK, DeviceShape
  <2>4. CASE /\ mem' = [[mem EXCEPT !.page = @ \ {e}] EXCEPT !.pc = "prepare",
                 !.evt = [lane |-> "pull", id |-> <<0, e.seq>>, seq |-> e.seq,
                          source |-> e.source, version |-> e.version, base |-> e.version - 1]]
             /\ UNCHANGED journal /\ e.seq = journal.applied + 1
    <3>1. e.version - 1 \in Versions
      <4>1. e.version # 0
        BY <1>4 DEF PageOK
      <4>2. e.version \in Nat /\ e.version <= MaxSequence
        BY <2>1, BoundsAssumption DEF Versions
      <4> QED BY <4>1, <4>2, BoundsAssumption DEF Versions
    <3>2. PICK x : x = [lane |-> "pull", id |-> <<0, e.seq>>, seq |-> e.seq,
                          source |-> e.source, version |-> e.version, base |-> e.version - 1]
      OBVIOUS
    <3>3. x \in Applies
      BY <2>1, <3>1, <3>2 DEF Applies
    <3>4. mem' \in Memories
      BY <2>2, <2>4, <3>2, <3>3 DEF Memories, Pcs
    <3> QED BY <1>4, <2>4, <3>4 DEF ApplyEvent, TypeOK, DeviceShape
  <2> QED BY <1>4, <2>3, <2>4 DEF ApplyEvent
<1>5. CASE Working
  <2>1. /\ mem.evt # None /\ mem.evt \in Applies /\ mem.evt.seq \in Sequences
        /\ mem.evt.source \in Sources /\ mem.evt.version \in Versions
    BY <1>5 DEF WorkKept, WorkOK, TypeOK, Memories, Applies
  <2>2. \A st \in {"prepared", "temp_verified", "vault_mutated"} : WithRow(journal, Row(st)) \in Journals
    BY <2>1, RowShape, JournalShape DEF TypeOK
  <2>3. ASSUME NEW j \in Journals, ApplyDone(j)
        PROVE  journal' \in Journals /\ mem' \in Memories
    <3>1. [j EXCEPT !.done = @ \cup {mem.evt.source}] \in Journals
      BY <2>1, <2>3 DEF Journals
    <3> QED BY <1>1, <2>3, <3>1 DEF ApplyDone, Pcs
  <2>4. closed \cup {<<mem.evt.source, mem.evt.version>>} \subseteq Sources \X Versions
    BY <2>1 DEF TypeOK
  <2>5. [vault EXCEPT ![mem.evt.source] = mem.evt.version] \in [Sources -> Versions]
    BY <2>1 DEF TypeOK
  <2>6. CASE Prepare
    <3>1. Blocked(journal, FALSE) \in Journals
      BY JournalShape DEF TypeOK
    <3> QED BY <1>1, <2>2, <2>6, <3>1 DEF Prepare, TypeOK, DeviceShape, Pcs
  <2>7. CASE Stage
    <3>1. journal' \in Journals /\ mem' \in Memories
      BY <1>1, <1>2, <2>1, <2>2, <2>3, <2>7 DEF Stage, Pcs
    <3> QED BY <2>4, <2>7, <3>1 DEF Stage, TypeOK, DeviceShape
  <2>8. CASE Replace
    BY <1>1, <2>5, <2>8 DEF Replace, TypeOK, DeviceShape, Pcs
  <2>9. CASE Mark
    BY <1>1, <2>2, <2>9 DEF Mark, TypeOK, DeviceShape, Pcs
  <2>10. CASE Terminal
    BY <1>2, <2>1, <2>3, <2>10 DEF Terminal, TypeOK, DeviceShape
  <2>11. CASE FetchLost
    BY <1>1, <2>11, FaultShape DEF FetchLost, TypeOK, DeviceShape
  <2>12. CASE VaultFails
    <3>1. [journal EXCEPT !.rows = @ \ RowsAt(mem.evt.seq)] \in Journals
      BY DEF TypeOK, Journals
    <3>2. journal' \in Journals /\ mem' \in Memories
      BY <1>1, <1>2, <2>1, <2>3, <2>12, <3>1 DEF VaultFails, TypeOK
    <3>3. closed' \subseteq Sources \X Versions /\ vault' \in [Sources -> Versions]
      BY <2>4, <2>5, <2>12 DEF VaultFails, TypeOK
    <3> QED BY <2>12, <3>2, <3>3, FaultShape DEF VaultFails, TypeOK, DeviceShape
  <2>13. CASE Fetch
    BY <1>3, <2>13
  <2> QED BY <1>3, <1>4, <2>6, <2>7, <2>8, <2>9, <2>10, <2>11, <2>12, <2>13 DEF Fetch
<1> QED
  BY <1>3, <1>4, <1>5
  DEF Working, ApplyPcs, At, Prepare, Fetch, FetchLost, Stage, Replace, Mark, Terminal, VaultFails

-------------------------------------------------------------------------------
(* Types: one step.                                                        *)

LEMMA TypesKept == SafetyInv /\ [Next]_vars => TypeOK'
<1> SUFFICES ASSUME SafetyInv, [Next]_vars PROVE ServerShape' /\ DeviceShape'
  BY ShapeParts, PTL
<1> USE DEF SafetyInv
<1>0. TypeOK /\ journal \in Journals /\ Idle \in Memories /\ RepairRetried \in Memories
  BY MemoryShape DEF TypeOK
<1>1. CASE Silent
  <2>1. ServerShape'
    BY <1>1, SilentIsQuiet, ServerIdleShape
  <2> QED
    BY <1>1, <2>1, WakeShape, RecoverShape, RepairShape, LaneShape DEF Silent
<1>2. CASE Others \/ ExpireRun
  BY <1>2, OthersShape
<1>3. CASE \E s \in Sources : Upload(s)
  BY <1>3, UploadShape
<1>4. CASE RunStart \/ RunPage \/ RunFinalize \/ RunList \/ RunClose \/ RunComplete
  BY <1>4, RunShape
<1>5. CASE AckOwed \/ AckLost
  <2>1. PICK expected : expected = journal.acked
    OBVIOUS
  <2>2. PICK applied \in Sequences : applied = journal.applied
    BY <1>0 DEF Journals
  <2>3. UNCHANGED server \/ AcknowledgeCursor(expected, applied)
    BY <1>5, <2>1, <2>2 DEF AckOwed, AckLost, AcknowledgeCursor, AckAccepted
  <2>4. ServerShape'
    BY <2>3, ServerIdleShape, AcknowledgeShape
  <2>5. Acknowledged(journal, journal.applied) \in Journals
    BY <1>0, <2>2, JournalShape
  <2>6. AfterAck \in Memories /\ journal' \in Journals /\ mem' \in Memories
    BY <1>0, <1>5, <2>5, MemoryShape DEF AckOwed, AckLost, TypeOK
  <2> QED BY <1>5, <2>4, <2>6, FaultShape DEF AckOwed, AckLost, TypeOK, DeviceShape
<1>6. CASE Pull \/ PullLost
  <2>1. Page \subseteq Events
    BY Zenon DEF Page, Deliverables, TypeOK
  <2>2. ServerShape'
    BY <1>6, ServerIdleShape, PullShape DEF Pull, PullLost
  <2>3. mem' \in Memories
    BY <1>0, <1>6, <2>1 DEF Pull, PullLost, TypeOK, Memories, Pcs
  <2> QED BY <1>6, <2>2, <2>3, FaultShape DEF Pull, PullLost, TypeOK, DeviceShape
<1>7. CASE ManifestCallLost
  <2>1. PICK capture \in Manifests : capture = Capture
    BY CaptureShape
  <2>2. \/ UNCHANGED server \/ (At("start") /\ StartManifest(journal.barrier)) \/ AppendPage(capture)
        \/ FinalizeManifest(capture) \/ ListActions \/ CompleteManifest
    BY <1>7, <2>1 DEF ManifestCallLost, AppendPage, FinalizeManifest
  <2>3. At("start") => journal.barrier \in Nat
    BY DEF BarrierOK, Barrier, TypeOK, Journals
  <2>4. ServerShape'
    BY <2>2, <2>3, ServerIdleShape, StartShape, AppendShape, FinalizeShape, ListShape, CompleteShape
  <2> QED BY <1>0, <1>7, <2>4, FaultShape DEF ManifestCallLost, TypeOK, DeviceShape
<1>8. CASE UNCHANGED vars
  BY <1>8 DEF vars, server, TypeOK, ServerShape, DeviceShape
<1> QED
  BY <1>1, <1>2, <1>3, <1>4, <1>5, <1>6, <1>7, <1>8
  DEF Next, Cycle, Repair, Failure, Others, User, Silent
-------------------------------------------------------------------------------
(* Steps that leave most of the state alone.                               *)

LEMMA SameVersions ==
    ASSUME UNCHANGED log, run'.checkpoint = run.checkpoint
    PROVE  \A s : VersionAt(s, run.checkpoint)' = VersionAt(s, run.checkpoint)
BY DEF VersionAt

\* A step of the device alone: what the log and the run mean stays.
LEMMA DeviceFrame ==
    ASSUME SafetyInv, UNCHANGED server, journal'.known = journal.known,
           \A s \in Sources : vault'[s] >= vault[s], TypeOK', mem'.page \subseteq mem.page
    PROVE  Numbered' /\ PageOK' /\ KnownOK' /\ RunMade'
<1> USE DEF SafetyInv, server
<1>1. Numbered' /\ PageOK'
  BY DEF Numbered, PageOK
<1>2. KnownOK'
  <2>1. \A s \in Sources : /\ vault[s] \in Nat /\ vault'[s] \in Nat /\ journal.known[s] \in Nat
    BY BoundsAssumption DEF TypeOK, Versions, Journals
  <2> QED BY <2>1 DEF KnownOK
<1>3. \A s : VersionAt(s, run.checkpoint)' = VersionAt(s, run.checkpoint)
  BY SameVersions
<1>4. RunMade'
  BY <1>3 DEF RunMade, Unfinished
<1> QED BY <1>1, <1>2, <1>4

RestingPcs == Pcs \ (ApplyPcs \cup RunPcs)
PaidPcs    == {"repair", "outbound", "ack", "pull", "apply", "ack_page"}

\* A step of the coordinator's memory alone, to a place outside of a run and an apply.
LEMMA MemoryFrame ==
    ASSUME SafetyInv, UNCHANGED <<server, vault, journal>>, TypeOK',
           mem'.page \subseteq mem.page, mem'.pc \in RestingPcs,
           mem'.pc = "start" => Barrier,
           ~Barrier /\ mem'.pc \in PaidPcs /\ Owed => Guarded,
           ~Barrier /\ mem'.pc \in {"pull", "apply"} => acked = journal.acked
    PROVE  SafetyInv'
<1> USE DEF SafetyInv, server
<1>1. Numbered' /\ PageOK' /\ KnownOK' /\ RunMade'
  <2>1. \A s \in Sources : vault'[s] >= vault[s]
    BY BoundsAssumption DEF TypeOK, Versions
  <2> QED BY <2>1, DeviceFrame
<1>2. ~Working' /\ ~InRun' /\ ~(mem'.pc \in {"list", "actions", "complete"} \/ Repairing')
  BY DEF Working, InRun, Repairing, RestingPcs, ApplyPcs, RunPcs
<1>3. RowsOK'
  BY DEF RowsOK, RowsFit, RowFits, RowFrom, IsEvent
<1>4. WorkKept' /\ InStep' /\ Planned'
  BY <1>2 DEF WorkKept, InStep, Planned
<1>5. BarrierOK'
  BY <1>2 DEF BarrierOK, Barrier, At, Unfinished
<1>6. Debt'
  BY <1>2 DEF Debt, Barrier, Guarded, Owed, PaidPcs
<1> QED BY <1>1, <1>3, <1>4, <1>5, <1>6

\* How the cycle fails: it waits, or a repair that is owed does not block the rest.
LEMMA FailedFrame ==
    ASSUME SafetyInv, UNCHANGED <<server, vault, journal>>, TypeOK',
           mem' = Idle \/ (Barrier /\ mem' \in {RepairRetried, RepairBlocked})
    PROVE  SafetyInv'
<1>1. mem' \in Memories /\ mem \in Memories
  BY DEF TypeOK, SafetyInv
<1>2. /\ mem'.pc \in {"idle", "outbound"} /\ mem'.page \subseteq mem.page
      /\ ~Barrier => mem'.pc = "idle"
  <2>1. CASE mem' = Idle
    BY <1>1, <2>1 DEF Idle, Memories
  <2>2. CASE Barrier /\ mem' = RepairBlocked
    BY <1>1, <2>2 DEF RepairBlocked, Settled, Idle, Memories
  <2>3. CASE Barrier /\ mem' = RepairRetried
    BY <1>1, <2>3 DEF RepairRetried, Settled, Idle, Memories
  <2> QED BY <2>1, <2>2, <2>3
<1> QED BY <1>2, MemoryFrame DEF RestingPcs, Pcs, ApplyPcs, RunPcs, PaidPcs
\* With the device at rest, no run and no apply has anything to say.
LEMMA RestFrame ==
    ASSUME TypeOK', Numbered', PageOK', RowsOK', KnownOK', RunMade', mem'.pc \in RestingPcs,
           BarrierOK', Debt'
    PROVE  SafetyInv'
<1>1. ~Working' /\ ~InRun' /\ ~(mem'.pc \in {"list", "actions", "complete"} \/ Repairing')
  BY DEF Working, InRun, Repairing, RestingPcs, ApplyPcs, RunPcs
<1> QED BY <1>1 DEF WorkKept, InStep, Planned, SafetyInv

\* With the barrier up, only the journal has to fit.
LEMMA BarredFrame ==
    ASSUME TypeOK', Numbered', PageOK', RowsOK', KnownOK', RunMade',
           Barrier', mem'.pc \in RestingPcs,
           journal'.bound # None =>
             /\ journal'.bound.id <= run'.id
             /\ journal'.bound.id = run'.id => run'.entries # None,
           journal'.bound = None => journal'.done = {},
           acked' <= journal'.applied \/ acked' <= run'.checkpoint,
           journal'.acked <= acked', journal'.acked <= journal'.applied
    PROVE  SafetyInv'
BY RestFrame DEF BarrierOK, Debt, Barrier

-------------------------------------------------------------------------------
(* What the transitions of the journal do.                                 *)

LEMMA TerminalFields ==
    ASSUME NEW j \in Journals, NEW n \in Sequences
    PROVE  LET t == Terminalized(j, n) IN
           /\ t.known = j.known /\ t.acked = j.acked /\ t.bound = j.bound /\ t.done = j.done
           /\ n = j.applied + 1 =>
                /\ t.applied = n /\ t.barrier = j.barrier
                /\ \A r \in t.rows : \E q \in j.rows :
                     /\ q.seq = r.seq /\ q.source = r.source /\ q.version = r.version
                     /\ q.base = r.base
                     /\ r.seq # n => r = q
           /\ n # j.applied + 1 =>
                t.applied = j.applied /\ t.barrier # None /\ t.rows = j.rows
<1>1. CASE n = j.applied + 1
  <2>1. PICK R : R = {IF r.seq = n THEN [r EXCEPT !.state = "locally_applied"] ELSE r : r \in j.rows}
    OBVIOUS
  <2>2. Terminalized(j, n) = [j EXCEPT !.applied = n, !.rows = R]
    BY <1>1, <2>1 DEF Terminalized
  <2>3. \A r \in R : \E q \in j.rows :
                     /\ q.seq = r.seq /\ q.source = r.source /\ q.version = r.version
                     /\ q.base = r.base
                     /\ r.seq # n => r = q
    BY <2>1 DEF Journals, Rows
  <2> QED BY <1>1, <2>2, <2>3 DEF Journals
<1>2. CASE n # j.applied + 1
  <2>1. Terminalized(j, n) = Blocked(j, n > j.applied)
    BY <1>2 DEF Terminalized
  <2>2. \A g : LET t == Blocked(j, g) IN
          /\ t.known = j.known /\ t.acked = j.acked /\ t.bound = j.bound /\ t.done = j.done
          /\ t.applied = j.applied /\ t.barrier # None /\ t.rows = j.rows
    BY NoneAssumption DEF Blocked, Journals
  <2> QED BY <1>2, <2>1, <2>2
<1> QED BY <1>1, <1>2

LEMMA BlockedFields ==
    ASSUME NEW j \in Journals, NEW g
    PROVE  LET t == Blocked(j, g) IN
           /\ t.known = j.known /\ t.acked = j.acked /\ t.bound = j.bound /\ t.done = j.done
           /\ t.applied = j.applied /\ t.barrier # None /\ t.rows = j.rows
BY NoneAssumption DEF Blocked, Journals

LEMMA BarredFields ==
    ASSUME NEW j \in Journals
    PROVE  LET t == Barred(j) IN
           /\ t.known = j.known /\ t.acked = j.acked /\ t.bound = j.bound /\ t.done = j.done
           /\ t.applied = j.applied /\ t.barrier # None /\ t.rows = j.rows
<1>1. j.gen + 1 # None
  BY NoneAssumption DEF Journals
<1>2. Barred(j) = [j EXCEPT !.gen = j.gen + 1, !.barrier = j.gen + 1, !.gap = FALSE]
  BY DEF Barred
<1> QED BY <1>1, <1>2 DEF Journals

LEMMA DiscardedFields ==
    ASSUME NEW j \in Journals
    PROVE  LET t == Discarded(j) IN
           /\ t.known = j.known /\ t.acked = j.acked /\ t.bound = None /\ t.done = {}
           /\ t.applied = j.applied /\ t.barrier = j.barrier /\ t.rows = j.rows
BY DEF Discarded, Journals

LEMMA WithRowFields ==
    ASSUME NEW j \in Journals, NEW r \in Rows
    PROVE  LET t == WithRow(j, r) IN
           /\ t.known = j.known /\ t.acked = j.acked /\ t.bound = j.bound /\ t.done = j.done
           /\ t.applied = j.applied /\ t.barrier = j.barrier
           /\ \A q \in t.rows : q = r \/ (q \in j.rows /\ q.seq # r.seq)
           /\ r \in t.rows
BY DEF WithRow, Journals

LEMMA AcknowledgedFields ==
    ASSUME NEW j \in Journals, NEW n \in Sequences
    PROVE  LET t == Acknowledged(j, n) IN
           /\ t.known = j.known /\ t.acked = n /\ t.bound = j.bound /\ t.done = j.done
           /\ t.applied = j.applied /\ t.barrier = j.barrier /\ t.rows \subseteq j.rows
BY DEF Acknowledged, Journals

\* The rows fit after each of them.
LEMMA SameRowsFit ==
    ASSUME NEW j \in Journals, NEW k \in Journals, RowsFit(j),
           k.rows \subseteq j.rows, k.applied >= j.applied
    PROVE  RowsFit(k)
<1>1. \A r \in j.rows : r.seq \in Nat /\ j.applied \in Nat /\ k.applied \in Nat
  BY BoundsAssumption DEF Journals, Rows, Sequences
<1> QED BY <1>1 DEF RowsFit, RowFits

LEMMA TerminalFits ==
    ASSUME NEW j \in Journals, NEW n \in Sequences, RowsFit(j)
    PROVE  RowsFit(Terminalized(j, n))
<1>1. PICK t \in Journals : t = Terminalized(j, n)
  BY JournalShape
<1>2. CASE n = j.applied + 1
  <2>1. /\ t.applied = n
        /\ \A r \in t.rows : \E q \in j.rows :
             /\ q.seq = r.seq /\ q.source = r.source /\ q.version = r.version /\ q.base = r.base
             /\ r.seq # n => r = q
    BY <1>1, <1>2, TerminalFields
  <2>2. ASSUME NEW r \in t.rows PROVE RowFits(t, r) /\ RowFrom(r)
    <3>1. PICK q \in j.rows :
             /\ q.seq = r.seq /\ q.source = r.source /\ q.version = r.version /\ q.base = r.base
             /\ r.seq # n => r = q
      BY <2>1
    <3>2. RowFits(j, q) /\ RowFrom(q) /\ q.seq \in Nat /\ j.applied \in Nat /\ n \in Nat
      BY BoundsAssumption DEF RowsFit, Journals, Rows, Sequences
    <3>3. RowFits(t, r)
      BY <1>2, <2>1, <3>1, <3>2 DEF RowFits
    <3>4. RowFrom(r)
      BY <3>1, <3>2 DEF RowFrom, IsEvent
    <3> QED BY <3>3, <3>4
  <2> QED BY <1>1, <2>2 DEF RowsFit
<1>3. CASE n # j.applied + 1
  <2>1. t.rows = j.rows /\ t.applied = j.applied
    BY <1>1, <1>3, TerminalFields
  <2> QED BY <1>1, <2>1 DEF RowsFit, RowFits
<1> QED BY <1>2, <1>3

LEMMA WithRowFits ==
    ASSUME NEW j \in Journals, NEW r \in Rows, RowsFit(j), RowFits(j, r), RowFrom(r)
    PROVE  RowsFit(WithRow(j, r))
<1>1. PICK t : t = WithRow(j, r)
  OBVIOUS
<1>2. t.applied = j.applied /\ \A q \in t.rows : q = r \/ q \in j.rows
  BY <1>1, WithRowFields
<1> QED BY <1>1, <1>2 DEF RowsFit, RowFits

\* The journal a step of the device leaves behind.
LEMMA NewRowsFit ==
    ASSUME UNCHANGED server, NEW j, journal' = j, RowsFit(j)
    PROVE  RowsOK'
BY DEF server, RowsOK, RowsFit, RowFits, RowFrom, IsEvent

\* The cursor goes over one event, outside of a run.
LEMMA AdvanceFrame ==
    ASSUME SafetyInv, TypeOK', UNCHANGED server, NEW j \in Journals, RowsFit(j),
           j.applied = journal.applied, j.acked = journal.acked, j.known = journal.known,
           j.bound = journal.bound, j.done = journal.done, j.barrier = journal.barrier,
           NEW n \in Sequences, n = journal.applied + 1, journal' = Terminalized(j, n),
           mem'.pc \in {"repair", "apply", "idle"}, mem'.page \subseteq mem.page,
           \A s \in Sources : vault'[s] >= vault[s],
           Barrier \/ (n <= delivered /\ acked = journal.acked)
    PROVE  SafetyInv'
<1> USE DEF SafetyInv
<1>0. /\ journal \in Journals /\ journal.applied \in Nat /\ acked \in Nat /\ journal.acked \in Nat
      /\ delivered \in Nat /\ run.checkpoint \in Nat
  BY BoundsAssumption DEF TypeOK, Journals, Sequences, Runs
<1>1. PICK k \in Journals : k = journal'
  BY DEF TypeOK
<1>2. RowsOK'
  BY <1>1, TerminalFits, NewRowsFit
<1>3. /\ journal'.known = journal.known /\ journal'.acked = journal.acked
      /\ journal'.bound = journal.bound /\ journal'.done = journal.done
      /\ journal'.applied = journal.applied + 1 /\ journal'.barrier = journal.barrier
  BY TerminalFields
<1>4. Numbered' /\ PageOK' /\ KnownOK' /\ RunMade'
  BY <1>3, DeviceFrame
<1>5. CASE Barrier
  BY <1>0, <1>2, <1>3, <1>4, <1>5, BarredFrame
  DEF server, BarrierOK, Debt, Barrier, RestingPcs, Pcs, ApplyPcs, RunPcs
<1>6. CASE ~Barrier
  <2>1. /\ acked = journal.acked /\ acked <= journal.applied /\ run.checkpoint <= journal.applied
        /\ n <= delivered
    BY <1>6 DEF Debt, BarrierOK
  <2>2. ~Working' /\ ~InRun' /\ ~Barrier' /\ mem'.pc # "start"
    BY <1>3, <1>6 DEF Working, InRun, Repairing, ApplyPcs, RunPcs, Barrier
  <2>3. Guarded'
    <3>1. \A q \in journal'.rows : q.seq <= journal.applied + 1
      <4>1. \A q \in j.rows : q.seq <= journal.applied + 1
        BY DEF RowsFit, RowFits
      <4>2. \A q \in journal'.rows : \E p \in j.rows : p.seq = q.seq
        BY TerminalFields
      <4> QED BY <4>1, <4>2
    <3>2. \A q \in journal'.rows : q.seq # journal'.applied + 1
      <4> TAKE q \in journal'.rows
      <4>1. q.seq \in Nat
        BY BoundsAssumption DEF TypeOK, Journals, Rows, Sequences
      <4> QED BY <1>0, <1>3, <3>1, <4>1
    <3> QED BY <3>2 DEF Guarded
  <2>4. Debt'
    BY <1>0, <1>3, <2>1, <2>2, <2>3 DEF server, Debt
  <2>5. BarrierOK'
    BY <1>0, <1>3, <1>6, <2>1, <2>2 DEF server, BarrierOK, Barrier, At, Unfinished
  <2> QED
    BY <1>2, <1>4, <2>4, <2>5, RestFrame DEF RestingPcs, Pcs, ApplyPcs, RunPcs
<1> QED BY <1>5, <1>6
-------------------------------------------------------------------------------
(* The cycle outside of an apply and a run.                                *)

LEMMA RestKeeps ==
    ASSUME SafetyInv, TypeOK',
           \/ Wake \/ Crash \/ RecoverFails \/ OutboundDone \/ AckNotOwed \/ PageDone \/ FetchLost
    PROVE  SafetyInv'
<1> USE DEF At
<1>0. mem \in Memories
  BY DEF SafetyInv, TypeOK
<1>1. CASE Wake
  BY <1>0, <1>1, MemoryFrame DEF Wake, Memories, RestingPcs, Pcs, ApplyPcs, RunPcs, PaidPcs
<1>2. CASE Crash
  BY <1>0, <1>2, MemoryFrame DEF Crash, Idle, Memories, RestingPcs, Pcs, ApplyPcs, RunPcs, PaidPcs
<1>3. CASE RecoverFails
  BY <1>3, FailedFrame DEF RecoverFails
<1>4. CASE OutboundDone
  <2>1. ~Barrier /\ Owed => Guarded
    BY <1>4 DEF OutboundDone, SafetyInv, Debt
  <2> QED BY <1>0, <1>4, <2>1, MemoryFrame
          DEF OutboundDone, Memories, RestingPcs, Pcs, ApplyPcs, RunPcs, PaidPcs
<1>5. CASE AckNotOwed
  <2>1. ~Barrier => acked = journal.acked
    BY <1>5, BoundsAssumption DEF AckNotOwed, Owed, SafetyInv, Debt, TypeOK, Journals, Sequences
  <2> QED BY <1>0, <1>5, <2>1, MemoryFrame
          DEF AckNotOwed, AfterAck, Idle, Memories, RestingPcs, Pcs, ApplyPcs, RunPcs, PaidPcs
<1>6. CASE PageDone
  <2>1. ~Barrier /\ Owed => Guarded
    BY <1>6 DEF PageDone, SafetyInv, Debt
  <2> QED BY <1>0, <1>6, <2>1, MemoryFrame
          DEF PageDone, Memories, RestingPcs, Pcs, ApplyPcs, RunPcs, PaidPcs
<1>7. CASE FetchLost
  <2>1. mem.evt.lane = "pull" \/ Barrier
    <3>1. Working /\ (mem.evt.lane = "repair" => InRun)
      BY <1>7 DEF FetchLost, Working, InRun, Repairing, ApplyPcs
    <3>2. mem.evt.lane \in {"pull", "repair"}
      BY <1>0, <3>1 DEF SafetyInv, WorkKept, WorkOK, Memories, Applies
    <3> QED BY <3>1, <3>2 DEF SafetyInv, BarrierOK
  <2> QED BY <1>7, <2>1, FailedFrame DEF FetchLost, ApplyFailed
<1> QED BY <1>1, <1>2, <1>3, <1>4, <1>5, <1>6, <1>7

\* The user's wish changes nothing but what the next repair phase decides.
LEMMA WishKeeps == SafetyInv /\ TypeOK' /\ ExplicitRepair => SafetyInv'
<1> SUFFICES ASSUME SafetyInv, TypeOK', ExplicitRepair PROVE SafetyInv'
  OBVIOUS
<1> USE DEF SafetyInv
<1>1. /\ UNCHANGED <<server, vault, journal>>
      /\ mem'.pc = mem.pc /\ mem'.page = mem.page /\ mem'.evt = mem.evt /\ mem'.receipt = mem.receipt
  BY DEF ExplicitRepair, TypeOK, Memories
<1>2. Numbered' /\ PageOK' /\ KnownOK' /\ RunMade'
  <2>1. \A s \in Sources : vault'[s] >= vault[s]
    BY <1>1, BoundsAssumption DEF TypeOK, Versions
  <2> QED BY <1>1, <2>1, DeviceFrame
<1>3. RowsOK' /\ WorkKept'
  BY <1>1 DEF server, RowsOK, RowsFit, RowFits, RowFrom, IsEvent, WorkKept, WorkOK, Working, At
<1>4. BarrierOK' /\ InStep'
  BY <1>1 DEF server, BarrierOK, Barrier, InRun, Repairing, Working, At, Unfinished, InStep, BoundHere
<1>5. Planned'
  BY <1>1 DEF server, Planned, Unplaced, Repairing, Working, BoundHere
<1>6. Debt'
  BY <1>1 DEF server, Debt, Barrier, Guarded, Owed, Working
<1> QED BY <1>2, <1>3, <1>4, <1>5, <1>6
-------------------------------------------------------------------------------
(* Recovery and the decision to repair.                                    *)

LEMMA RecoverCleanKeeps ==
    ASSUME SafetyInv, TypeOK', UNCHANGED server, NEW r \in journal.rows, RecoverClean(r)
    PROVE  SafetyInv'
<1> USE DEF SafetyInv
<1>0. mem \in Memories /\ journal \in Journals
  BY DEF TypeOK
<1>1. PICK j : j = [journal EXCEPT !.rows = @ \ {r}]
  OBVIOUS
<1>2. /\ j \in Journals /\ j.rows \subseteq journal.rows
      /\ j.applied = journal.applied /\ j.acked = journal.acked /\ j.known = journal.known
      /\ j.bound = journal.bound /\ j.done = journal.done /\ j.barrier = journal.barrier
  BY <1>0, <1>1 DEF Journals
<1>3. journal' = Barred(j) \/ (journal' = j /\ Barrier)
  <2>1. journal.bound # None => Barrier
    BY DEF BarrierOK
  <2>2. \/ j.bound # None /\ journal' = j
        \/ journal' = Barred(j)
        \/ j.barrier # None /\ journal' = j
    BY <1>1 DEF RecoverClean
  <2> QED BY <1>2, <2>1, <2>2 DEF Barrier
<1>4. /\ journal'.rows \subseteq journal.rows /\ journal'.applied = journal.applied
      /\ journal'.acked = journal.acked /\ journal'.known = journal.known
      /\ journal'.bound = journal.bound /\ journal'.done = journal.done /\ journal'.barrier # None
  BY <1>2, <1>3, BarredFields DEF Barrier
<1>5. mem'.pc \in {"repair", "idle"} /\ mem'.page \subseteq mem.page
  BY <1>0 DEF RecoverClean, Memories, Idle
<1>6. RowsOK'
  <2>1. PICK k \in Journals : k = journal'
    BY DEF TypeOK
  <2>2. journal.applied \in Nat
    BY <1>0, BoundsAssumption DEF Journals, Sequences
  <2>3. RowsFit(k)
    BY <1>0, <1>4, <2>1, <2>2, SameRowsFit DEF RowsOK
  <2> QED BY <2>1, <2>3, NewRowsFit
<1>7. Numbered' /\ PageOK' /\ KnownOK' /\ RunMade'
  <2>1. \A s \in Sources : vault'[s] >= vault[s]
    BY BoundsAssumption DEF RecoverClean, TypeOK, Versions
  <2> QED BY <1>4, <1>5, <2>1, DeviceFrame
<1> QED
  BY <1>4, <1>5, <1>6, <1>7, BarredFrame
  DEF server, BarrierOK, Debt, Barrier, RestingPcs, Pcs, ApplyPcs, RunPcs

LEMMA RecoverBlockedKeeps ==
    ASSUME SafetyInv, TypeOK', UNCHANGED server, NEW r \in journal.rows, RecoverBlocked(r)
    PROVE  SafetyInv'
<1> USE DEF SafetyInv
<1>0. mem \in Memories /\ journal \in Journals
  BY DEF TypeOK
<1>1. CASE UNCHANGED journal /\ mem' = Idle
  BY <1>1, FailedFrame DEF RecoverBlocked, server
<1>2. CASE journal' = Barred(journal) /\ mem' = [mem EXCEPT !.pc = "repair"]
  <2>1. /\ journal'.rows = journal.rows /\ journal'.applied = journal.applied
        /\ journal'.acked = journal.acked /\ journal'.known = journal.known
        /\ journal'.bound = journal.bound /\ journal'.done = journal.done /\ journal'.barrier # None
    BY <1>0, <1>2, BarredFields
  <2>2. mem'.pc = "repair" /\ mem'.page = mem.page
    BY <1>0, <1>2 DEF Memories
  <2>3. RowsOK'
    BY <2>1 DEF server, RowsOK, RowsFit, RowFits, RowFrom, IsEvent
  <2>4. Numbered' /\ PageOK' /\ KnownOK' /\ RunMade'
    <3>1. \A s \in Sources : vault'[s] >= vault[s]
      BY BoundsAssumption DEF RecoverBlocked, TypeOK, Versions
    <3> QED BY <2>1, <2>2, <3>1, DeviceFrame
  <2> QED
    BY <2>1, <2>2, <2>3, <2>4, BarredFrame
    DEF server, BarrierOK, Debt, Barrier, RestingPcs, Pcs, ApplyPcs, RunPcs
<1> QED BY <1>1, <1>2 DEF RecoverBlocked

\* What a resumed write finds is the base of the event, or nothing.
LEMMA RecoverForward ==
    ASSUME SafetyInv, NEW r \in journal.rows, RecoverMutated(r)
    PROVE  \A s \in Sources : vault'[s] >= vault[s]
<1> USE DEF SafetyInv
<1>1. /\ r \in Rows /\ r.source \in Sources /\ r.version \in Nat /\ r.base \in Nat
      /\ r.base < r.version /\ vault \in [Sources -> Versions]
  BY BoundsAssumption DEF TypeOK, Journals, Rows, Versions, RowsOK, RowsFit, RowFits
<1>2. vault[r.source] \in {r.version, r.base, 0} /\ vault' = [vault EXCEPT ![r.source] = r.version]
  BY DEF RecoverMutated, Recovered
<1>3. \A s \in Sources : vault[s] \in Nat
  BY <1>1, BoundsAssumption DEF Versions
<1> QED BY <1>1, <1>2, <1>3

LEMMA RecoverMutatedKeeps ==
    ASSUME SafetyInv, TypeOK', UNCHANGED server, NEW r \in journal.rows,
           \A q \in journal.rows : r.seq <= q.seq, RecoverMutated(r)
    PROVE  SafetyInv'
<1> USE DEF SafetyInv
<1>0. /\ mem \in Memories /\ journal \in Journals /\ r \in Rows /\ r.seq \in Sequences
      /\ r.seq \in Nat /\ journal.applied \in Nat /\ acked \in Nat /\ journal.acked \in Nat
      /\ delivered \in Nat /\ run.checkpoint \in Nat
  BY BoundsAssumption DEF TypeOK, Journals, Rows, Sequences, Runs
<1>1. RowFits(journal, r) /\ RowFrom(r)
  BY DEF RowsOK, RowsFit
<1>2. PICK w : w = [r EXCEPT !.state = "vault_mutated"]
  OBVIOUS
<1>3. /\ w \in Rows /\ w.seq = r.seq /\ w.state = "vault_mutated"
      /\ RowFits(journal, w) /\ RowFrom(w)
  BY <1>0, <1>1, <1>2 DEF Rows, RowFits, RowFrom, IsEvent
<1>4. PICK j \in Journals : j = WithRow(journal, w)
  BY <1>0, <1>3, JournalShape
<1>5. /\ RowsFit(j) /\ j.applied = journal.applied /\ j.acked = journal.acked
      /\ j.known = journal.known /\ j.bound = journal.bound /\ j.done = journal.done
      /\ j.barrier = journal.barrier /\ \A q \in j.rows : q = w \/ q \in journal.rows
  BY <1>0, <1>3, <1>4, WithRowFits, WithRowFields DEF RowsOK
<1>6. journal' = Blocked(journal, FALSE) \/ journal' = Terminalized(j, r.seq)
  BY <1>2, <1>4 DEF RecoverMutated
<1>7. PICK k \in Journals : k = journal'
  BY DEF TypeOK
<1>8. RowsFit(k)
  <2>1. CASE k = Blocked(journal, FALSE)
    <3>1. k.rows = journal.rows /\ k.applied = journal.applied
      BY <1>0, <2>1, BlockedFields
    <3> QED BY <3>1 DEF RowsOK, RowsFit, RowFits
  <2>2. CASE k = Terminalized(j, r.seq)
    BY <1>0, <1>5, <2>2, TerminalFits
  <2> QED BY <1>6, <1>7, <2>1, <2>2
<1>9. RowsOK'
  BY <1>7, <1>8, NewRowsFit
<1>10. /\ journal'.known = journal.known /\ journal'.acked = journal.acked
       /\ journal'.bound = journal.bound /\ journal'.done = journal.done
  <2>1. CASE journal' = Blocked(journal, FALSE)
    BY <1>0, <2>1, BlockedFields
  <2>2. CASE journal' = Terminalized(j, r.seq)
    BY <1>0, <1>5, <2>2, TerminalFields
  <2> QED BY <1>6, <2>1, <2>2
<1>11. mem'.pc \in {"repair", "idle"} /\ mem'.page \subseteq mem.page
  BY <1>0 DEF RecoverMutated, Memories, Idle
<1>12. Numbered' /\ PageOK' /\ KnownOK' /\ RunMade'
  BY <1>10, <1>11, RecoverForward, DeviceFrame
<1>13. CASE journal'.applied = journal.applied /\ journal'.barrier # None
  BY <1>9, <1>10, <1>11, <1>12, <1>13, BarredFrame
  DEF server, BarrierOK, Debt, Barrier, RestingPcs, Pcs, ApplyPcs, RunPcs
<1>14. CASE journal' = Terminalized(j, r.seq) /\ r.seq = journal.applied + 1
  <2>1. CASE Barrier
    BY <1>0, <1>5, <1>11, <1>14, <2>1, RecoverForward, AdvanceFrame
  <2>2. CASE ~Barrier
    <3>1. ~Guarded
      <4>1. ~ \E q \in journal.rows : q.seq < r.seq
        BY <1>0, BoundsAssumption DEF TypeOK, Journals, Rows, Sequences
      <4> QED BY <1>14, <4>1 DEF Guarded
    <3>2. acked = journal.acked /\ run.checkpoint <= journal.applied
      BY <2>2, <3>1 DEF Debt, BarrierOK
    <3>3. r.seq <= delivered
      BY <1>0, <1>1, <1>14, <3>2 DEF RowFrom
    <3> QED BY <1>0, <1>5, <1>11, <1>14, <3>2, <3>3, RecoverForward, AdvanceFrame
  <2> QED BY <2>1, <2>2
<1>15. CASE journal' = Blocked(journal, FALSE)
  BY <1>0, <1>13, <1>15, BlockedFields
<1>16. CASE journal' = Terminalized(j, r.seq) /\ r.seq # journal.applied + 1
  BY <1>0, <1>5, <1>13, <1>16, TerminalFields
<1> QED BY <1>6, <1>14, <1>15, <1>16

LEMMA RecoverKeeps ==
    ASSUME SafetyInv, TypeOK', Recover
    PROVE  SafetyInv'
<1> USE DEF SafetyInv
<1>0. mem \in Memories /\ journal \in Journals
  BY DEF TypeOK
<1>1. UNCHANGED server
  BY DEF Recover
<1>2. ASSUME mem' = [mem EXCEPT !.pc = "repair"], UNCHANGED <<vault, journal>>,
             ~Barrier /\ Owed => Guarded
      PROVE  SafetyInv'
  <2>1. mem'.pc = "repair" /\ mem'.page = mem.page
    BY <1>0, <1>2 DEF Memories
  <2> QED BY <1>1, <1>2, <2>1, MemoryFrame DEF RestingPcs, Pcs, ApplyPcs, RunPcs
<1>3. CASE journal.rows = {} /\ mem' = [mem EXCEPT !.pc = "repair"] /\ UNCHANGED <<vault, journal>>
  BY <1>2, <1>3 DEF Guarded
<1>4. ASSUME NEW r \in journal.rows, \A q \in journal.rows : r.seq <= q.seq,
             \/ /\ Recovered(r) = "settled"
                /\ mem' = [mem EXCEPT !.pc = "repair"] /\ UNCHANGED <<vault, journal>>
             \/ RecoverClean(r) \/ RecoverMutated(r) \/ RecoverBlocked(r)
      PROVE  SafetyInv'
  <2>1. CASE /\ Recovered(r) = "settled"
             /\ mem' = [mem EXCEPT !.pc = "repair"] /\ UNCHANGED <<vault, journal>>
    <3>1. r.seq \in Nat /\ journal.applied \in Nat
      BY BoundsAssumption DEF TypeOK, Journals, Rows, Sequences
    <3>2. r.state = "locally_applied"
      BY <2>1 DEF Recovered
    <3>3. r.seq <= journal.applied
      BY <3>2 DEF RowsOK, RowsFit, RowFits
    <3>4. Guarded
      BY <3>1, <3>3 DEF Guarded
    <3> QED BY <1>2, <2>1, <3>4
  <2> QED BY <1>1, <1>4, <2>1, RecoverCleanKeeps, RecoverMutatedKeeps, RecoverBlockedKeeps
<1> QED BY <1>3, <1>4 DEF Recover

LEMMA DecisionKeeps ==
    ASSUME SafetyInv, TypeOK', RepairDecision
    PROVE  SafetyInv'
<1> USE DEF SafetyInv
<1>0. mem \in Memories /\ journal \in Journals /\ UNCHANGED <<server, vault>> /\ mem.pc = "repair"
  BY DEF TypeOK, RepairDecision, At
<1>1. CASE UNCHANGED journal /\ mem'.pc = "outbound" /\ mem'.page = mem.page
  <2>1. ~Barrier /\ Owed => Guarded
    BY <1>0 DEF Debt
  <2> QED BY <1>0, <1>1, <2>1, MemoryFrame DEF server, RestingPcs, Pcs, ApplyPcs, RunPcs
<1>2. CASE UNCHANGED journal /\ Barrier /\ mem'.pc = "start" /\ mem'.page = mem.page
  BY <1>0, <1>2, MemoryFrame DEF server, RestingPcs, Pcs, ApplyPcs, RunPcs, PaidPcs
<1>3. CASE journal' = Barred(journal) /\ mem'.pc = "start" /\ mem'.page = mem.page
  <2>1. /\ journal'.rows = journal.rows /\ journal'.applied = journal.applied
        /\ journal'.acked = journal.acked /\ journal'.known = journal.known
        /\ journal'.bound = journal.bound /\ journal'.done = journal.done /\ journal'.barrier # None
    BY <1>0, <1>3, BarredFields
  <2>2. RowsOK'
    BY <1>0, <2>1 DEF server, RowsOK, RowsFit, RowFits, RowFrom, IsEvent
  <2>3. Numbered' /\ PageOK' /\ KnownOK' /\ RunMade'
    <3>1. \A s \in Sources : vault'[s] >= vault[s]
      BY <1>0, BoundsAssumption DEF TypeOK, Versions
    <3> QED BY <1>0, <1>3, <2>1, <3>1, DeviceFrame
  <2> QED
    BY <1>0, <1>3, <2>1, <2>2, <2>3, BarredFrame
    DEF server, BarrierOK, Debt, Barrier, RestingPcs, Pcs, ApplyPcs, RunPcs
<1> QED BY <1>0, <1>1, <1>2, <1>3 DEF RepairDecision, Memories, Barrier
-------------------------------------------------------------------------------
(* Applying an event.                                                      *)

\* The same event goes on.
LEMMA WorkFrame ==
    ASSUME SafetyInv, TypeOK', UNCHANGED server, Working, WorkOK', RowsOK',
           mem'.pc \in ApplyPcs, mem'.evt = mem.evt, mem'.page = mem.page,
           mem'.receipt = mem.receipt,
           journal'.applied = journal.applied, journal'.acked = journal.acked,
           journal'.known = journal.known, journal'.bound = journal.bound,
           journal'.done = journal.done, journal'.barrier = journal.barrier,
           \A s \in Sources : vault'[s] >= vault[s],
           \A s \in Sources : s # mem.evt.source => vault'[s] = vault[s]
    PROVE  SafetyInv'
<1> USE DEF SafetyInv
<1>1. Numbered' /\ PageOK' /\ KnownOK' /\ RunMade'
  BY DeviceFrame
<1>2. Working' /\ (Repairing' <=> Repairing) /\ (InRun' <=> Repairing) /\ (InRun <=> Repairing)
      /\ mem'.pc \notin RunPcs /\ mem'.pc # "start" /\ mem'.pc \notin PaidPcs
      /\ mem.pc \notin RunPcs
  BY DEF Working, Repairing, InRun, ApplyPcs, RunPcs, PaidPcs
<1>3. WorkKept'
  BY DEF WorkKept
<1>4. BarrierOK'
  BY <1>2 DEF server, BarrierOK, Barrier, At, Unfinished
<1>5. InStep'
  BY <1>2 DEF server, InStep, BoundHere, RunPcs, At
<1>6. Planned'
  <2>1. \A s \in Sources : vault[s] \in Nat /\ vault'[s] \in Nat
    BY BoundsAssumption DEF TypeOK, Versions
  <2>2. run.plan # None => \A s \in Sources : run.entries[s].have \in Nat
    BY BoundsAssumption DEF RunMade, TypeOK, Runs, Manifests, Versions
  <2>3. Repairing => Unplaced' = Unplaced /\ mem.evt.source \notin Unplaced
    BY <1>2 DEF Unplaced
  <2> QED BY <1>2, <2>1, <2>2, <2>3 DEF server, Planned, BoundHere, RunPcs, Unplaced
<1>7. Debt'
  BY <1>2 DEF server, Debt, Barrier, PaidPcs, Working, ApplyPcs
<1> QED BY <1>1, <1>3, <1>4, <1>5, <1>6, <1>7

LEMMA WorkFacts ==
    ASSUME SafetyInv, Working
    PROVE  /\ WorkOK /\ mem.evt \in Applies /\ mem.evt.seq \in Sequences /\ mem.evt.seq \in Nat
           /\ mem.evt.source \in Sources /\ mem.evt.version \in Nat /\ mem.evt.base \in Nat
           /\ mem.evt.lane \in {"pull", "repair"} /\ vault \in [Sources -> Nat]
           /\ mem \in Memories /\ journal \in Journals /\ journal.applied \in Nat
           /\ mem.evt.lane # "repair" => Barrier \/ acked = journal.acked
           /\ mem.evt.lane = "repair" => Barrier /\ Repairing /\ BoundHere
BY BoundsAssumption DEF SafetyInv, WorkKept, WorkOK, TypeOK, Memories, Applies, Sequences, Versions,
      Journals, Debt, BarrierOK, InRun, Repairing, Planned

LEMMA FetchKeeps ==
    ASSUME SafetyInv, TypeOK', Fetch
    PROVE  SafetyInv'
<1>1. Working
  BY DEF Fetch, At, Working, ApplyPcs
<1>2. /\ mem'.pc \in {"stage", "prepare"} /\ mem'.evt = mem.evt /\ mem'.page = mem.page
      /\ mem'.receipt = mem.receipt /\ UNCHANGED <<server, vault, journal>>
  BY <1>1, WorkFacts DEF Fetch, Memories
<1>3. WorkOK'
  BY <1>1, <1>2, WorkFacts DEF server, WorkOK, At, IsEvent
<1>4. RowsOK'
  BY <1>2 DEF server, SafetyInv, RowsOK, RowsFit, RowFits, RowFrom, IsEvent
<1>5. \A s \in Sources : vault'[s] >= vault[s]
  BY <1>1, <1>2, WorkFacts
<1> QED BY <1>1, <1>2, <1>3, <1>4, <1>5, WorkFrame DEF ApplyPcs

LEMMA ReplaceKeeps ==
    ASSUME SafetyInv, TypeOK', Replace
    PROVE  SafetyInv' /\ \A s \in Sources : vault'[s] >= vault[s]
<1>1. Working /\ At("replace")
  BY DEF Replace, At, Working, ApplyPcs
<1>2. /\ mem'.pc = "mark" /\ mem'.evt = mem.evt /\ mem'.page = mem.page
      /\ mem'.receipt = mem.receipt /\ UNCHANGED <<server, journal>>
      /\ vault' = [vault EXCEPT ![mem.evt.source] = mem.evt.version]
  BY <1>1, WorkFacts DEF Replace, Memories
<1>3. vault[mem.evt.source] = mem.evt.base /\ mem.evt.base < mem.evt.version
  BY <1>1, WorkFacts DEF WorkOK
<1>4. /\ \A s \in Sources : vault'[s] >= vault[s]
      /\ \A s \in Sources : s # mem.evt.source => vault'[s] = vault[s]
      /\ vault'[mem.evt.source] = mem.evt.version
  BY <1>1, <1>2, <1>3, WorkFacts
<1>5. WorkOK'
  BY <1>1, <1>2, <1>4, WorkFacts DEF server, WorkOK, At, IsEvent
<1>6. RowsOK'
  BY <1>2 DEF server, SafetyInv, RowsOK, RowsFit, RowFits, RowFrom, IsEvent
<1> QED BY <1>1, <1>2, <1>4, <1>5, <1>6, WorkFrame DEF ApplyPcs

\* A row for the event it works on fits.
LEMMA WorkRowFits ==
    ASSUME SafetyInv, Working,
           NEW state \in {"prepared", "temp_verified", "vault_mutated"}, UNCHANGED server,
           journal' = WithRow(journal, Row(state))
    PROVE  /\ RowsOK'
           /\ journal'.applied = journal.applied /\ journal'.acked = journal.acked
           /\ journal'.known = journal.known /\ journal'.bound = journal.bound
           /\ journal'.done = journal.done /\ journal'.barrier = journal.barrier
<1>1. WorkOK /\ journal \in Journals /\ mem.evt # None /\ mem.evt.lane \in {"pull", "repair"}
      /\ mem.evt.seq \in Nat /\ journal.applied \in Nat
  BY WorkFacts DEF WorkOK
<1>2. PICK r \in Rows : r = Row(state)
  BY <1>1, RowShape DEF SafetyInv
<1>3. RowFits(journal, r) /\ RowFrom(r)
  BY <1>1, <1>2 DEF Row, RowFits, RowFrom, WorkOK, IsEvent
<1>4. RowsFit(WithRow(journal, r))
  BY <1>1, <1>3, WithRowFits DEF SafetyInv, RowsOK
<1>5. RowsOK'
  <2>1. PICK j : j = WithRow(journal, r)
    OBVIOUS
  <2> QED BY <1>2, <1>4, <2>1, NewRowsFit
<1> QED BY <1>1, <1>2, <1>5, WithRowFields

LEMMA RowStepKeeps ==
    ASSUME SafetyInv, TypeOK', UNCHANGED <<server, vault>>, Working,
           NEW state \in {"prepared", "temp_verified", "vault_mutated"},
           journal' = WithRow(journal, Row(state)),
           NEW p \in {"fetch", "stage", "replace", "terminal"}, mem' = [mem EXCEPT !.pc = p],
           p = "replace" => vault[mem.evt.source] = mem.evt.base,
           p = "terminal" => At("mark")
    PROVE  SafetyInv'
<1>1. /\ mem'.pc = p /\ mem'.evt = mem.evt /\ mem'.page = mem.page
      /\ mem'.receipt = mem.receipt
  BY WorkFacts DEF Memories
<1>2. /\ RowsOK'
      /\ journal'.applied = journal.applied /\ journal'.acked = journal.acked
      /\ journal'.known = journal.known /\ journal'.bound = journal.bound
      /\ journal'.done = journal.done /\ journal'.barrier = journal.barrier
  BY WorkRowFits
<1>3. WorkOK'
  BY <1>1, <1>2, WorkFacts DEF server, WorkOK, At, IsEvent
<1>4. \A s \in Sources : vault'[s] >= vault[s]
  BY WorkFacts
<1> QED BY <1>1, <1>2, <1>3, <1>4, WorkFrame DEF ApplyPcs

\* A blocked mutation leaves the barrier and an idle coordinator, or a blocked repair.
LEMMA BlockedKeeps ==
    ASSUME SafetyInv, TypeOK', UNCHANGED <<server, vault>>, NEW g,
           journal' = Blocked(journal, g), mem' \in {Idle, RepairBlocked}
    PROVE  SafetyInv'
<1> USE DEF SafetyInv
<1>0. mem \in Memories /\ journal \in Journals
  BY DEF TypeOK
<1>1. /\ journal'.known = journal.known /\ journal'.acked = journal.acked
      /\ journal'.bound = journal.bound /\ journal'.done = journal.done
      /\ journal'.applied = journal.applied /\ journal'.barrier # None
      /\ journal'.rows = journal.rows
  BY <1>0, BlockedFields
<1>2. mem'.pc \in {"idle", "outbound"} /\ mem'.page \subseteq mem.page
  BY <1>0 DEF Idle, RepairBlocked, Settled, Memories
<1>3. RowsOK'
  BY <1>1 DEF server, RowsOK, RowsFit, RowFits, RowFrom, IsEvent
<1>4. Numbered' /\ PageOK' /\ KnownOK' /\ RunMade'
  <2>1. \A s \in Sources : vault'[s] >= vault[s]
    BY BoundsAssumption DEF TypeOK, Versions
  <2> QED BY <1>1, <1>2, <2>1, DeviceFrame
<1> QED
  BY <1>1, <1>2, <1>3, <1>4, BarredFrame
  DEF server, BarrierOK, Debt, Barrier, RestingPcs, Pcs, ApplyPcs, RunPcs

\* An action of the repair lane ends: its source is placed, whatever became of it.
LEMMA DoneFrame ==
    ASSUME SafetyInv, TypeOK', UNCHANGED server, Repairing, RowsOK',
           mem'.pc = "actions", mem'.page = mem.page, mem'.receipt = mem.receipt,
           journal'.applied >= journal.applied, journal'.acked = journal.acked,
           journal'.known = journal.known, journal'.bound = journal.bound,
           journal'.barrier = journal.barrier,
           journal'.done = journal.done \cup {mem.evt.source},
           \A s \in Sources : vault'[s] >= vault[s],
           \A s \in Sources : s # mem.evt.source => vault'[s] = vault[s]
    PROVE  SafetyInv'
<1> USE DEF SafetyInv
<1>1. Numbered' /\ PageOK' /\ KnownOK' /\ RunMade'
  BY DeviceFrame
<1>2. ~Working' /\ ~Repairing' /\ InRun' /\ InRun /\ Working
  BY DEF Working, Repairing, InRun, ApplyPcs, RunPcs
<1>3. Barrier /\ Barrier' /\ BoundHere /\ BoundHere'
  BY <1>2 DEF BarrierOK, Barrier, Planned, BoundHere, server
<1>4. WorkKept'
  BY <1>2 DEF WorkKept
<1>5. BarrierOK'
  BY <1>3 DEF server, BarrierOK, BoundHere
<1>6. InStep'
  BY <1>2, <1>3 DEF server, InStep, At, BoundHere
<1>7. Planned'
  <2>1. \A s \in Sources : vault[s] \in Nat /\ vault'[s] \in Nat
    BY BoundsAssumption DEF TypeOK, Versions
  <2>2. run.plan # None => \A s \in Sources : run.entries[s].have \in Nat
    BY BoundsAssumption DEF RunMade, TypeOK, Runs, Manifests, Versions
  <2>3. Unplaced' = Unplaced /\ mem.evt.source \notin Unplaced
    BY <1>2 DEF Unplaced
  <2>4. /\ run.plan # None
        /\ \A s \in Sources : /\ run.entries[s].base = journal.known[s]
                              /\ run.entries[s].have <= vault[s]
        /\ \A s \in Unplaced : run.entries[s].have = vault[s] /\ s \in Sources
    BY <1>2 DEF Planned, Unplaced
  <2>5. /\ \A s \in Sources : /\ run.entries[s].base = journal'.known[s]
                              /\ run.entries[s].have <= vault'[s]
        /\ \A s \in Unplaced : run.entries[s].have = vault'[s]
    BY <2>1, <2>2, <2>3, <2>4
  <2> QED BY <1>3, <2>3, <2>4, <2>5 DEF server, Planned
<1>8. Debt'
  <2>1. journal.applied \in Nat /\ journal'.applied \in Nat /\ acked \in Nat /\ journal.acked \in Nat
    BY BoundsAssumption DEF TypeOK, Journals, Sequences
  <2> QED BY <1>3, <2>1 DEF server, Debt
<1> QED BY <1>1, <1>4, <1>5, <1>6, <1>7, <1>8

\* An event becomes terminal, in the lane that works on it.
LEMMA ApplyDoneKeeps ==
    ASSUME SafetyInv, TypeOK', UNCHANGED server, Working,
           ApplyDone(Terminalized(journal, mem.evt.seq)),
           \A s \in Sources : vault'[s] >= vault[s],
           \A s \in Sources : s # mem.evt.source => vault'[s] = vault[s]
    PROVE  SafetyInv'
<1>1. WorkOK /\ mem \in Memories /\ journal \in Journals /\ mem.evt.lane \in {"pull", "repair"}
      /\ mem.evt.seq \in Sequences /\ mem.evt.seq = journal.applied + 1 /\ journal.applied \in Nat
  BY WorkFacts DEF WorkOK
<1>2. CASE mem.evt.lane = "pull"
  <2>1. /\ journal' = Terminalized(journal, mem.evt.seq)
        /\ mem' = [mem EXCEPT !.pc = "apply", !.evt = None]
    BY <1>2 DEF ApplyDone
  <2>2. mem'.pc = "apply" /\ mem'.page = mem.page
    BY <1>1, <2>1 DEF Memories
  <2>3. mem.evt.seq <= delivered /\ (Barrier \/ acked = journal.acked)
    BY <1>1, <1>2, WorkFacts DEF WorkOK
  <2>4. RowsFit(journal)
    BY DEF SafetyInv, RowsOK
  <2>5. PICK n \in Sequences : n = mem.evt.seq
    BY <1>1
  <2> QED BY <1>1, <2>1, <2>2, <2>3, <2>4, <2>5, AdvanceFrame
<1>3. CASE mem.evt.lane = "repair"
  <2>1. PICK j \in Journals : j = Terminalized(journal, mem.evt.seq)
    BY <1>1, JournalShape
  <2>2. /\ j.applied = journal.applied + 1 /\ j.acked = journal.acked /\ j.known = journal.known
        /\ j.bound = journal.bound /\ j.barrier = journal.barrier /\ j.done = journal.done
    BY <1>1, <2>1, TerminalFields
  <2>3. RowsFit(j)
    BY <1>1, <2>1, TerminalFits DEF SafetyInv, RowsOK
  <2>4. /\ journal' = [j EXCEPT !.done = @ \cup {mem.evt.source}]
        /\ mem' = [mem EXCEPT !.pc = "actions", !.evt = None]
    BY <1>3, <2>1 DEF ApplyDone
  <2>5. /\ mem'.pc = "actions" /\ mem'.page = mem.page /\ mem'.receipt = mem.receipt
    BY <1>1, <2>4 DEF Memories
  <2>6. /\ journal'.applied = j.applied /\ journal'.acked = j.acked /\ journal'.known = j.known
        /\ journal'.bound = j.bound /\ journal'.barrier = j.barrier
        /\ journal'.done = j.done \cup {mem.evt.source} /\ journal'.rows = j.rows
    BY <2>4 DEF Journals
  <2>7. RowsOK'
    BY <2>3, <2>6 DEF server, RowsOK, RowsFit, RowFits, RowFrom, IsEvent
  <2>8. Repairing
    BY <1>3, WorkFacts
  <2> QED BY <1>1, <2>2, <2>5, <2>6, <2>7, <2>8, DoneFrame
<1> QED BY <1>1, <1>2, <1>3

LEMMA PrepareKeeps ==
    ASSUME SafetyInv, TypeOK', Prepare
    PROVE  SafetyInv'
<1>1. Working /\ UNCHANGED <<server, vault>>
  BY DEF Prepare, At, Working, ApplyPcs
<1>2. CASE RowsAt(mem.evt.seq) \subseteq {Row("prepared")}
  <2>1. PICK p \in {"fetch", "stage"} : mem' = [mem EXCEPT !.pc = p]
    BY <1>2 DEF Prepare
  <2>2. journal' = WithRow(journal, Row("prepared"))
    BY <1>2 DEF Prepare
  <2> QED BY <1>1, <2>1, <2>2, RowStepKeeps
<1>3. CASE ~(RowsAt(mem.evt.seq) \subseteq {Row("prepared")})
  BY <1>1, <1>3, BlockedKeeps DEF Prepare, ApplyFailed
<1> QED BY <1>2, <1>3

LEMMA StageKeeps ==
    ASSUME SafetyInv, TypeOK', Stage
    PROVE  SafetyInv'
<1>1. Working /\ UNCHANGED <<server, vault>>
  BY DEF Stage, At, Working, ApplyPcs
<1>2. CASE BaseProven(mem.evt)
  BY <1>1, <1>2, RowStepKeeps DEF Stage, BaseProven
<1>3. CASE ~BaseProven(mem.evt)
  BY <1>1, <1>3, ApplyDoneKeeps, WorkFacts DEF Stage
<1> QED BY <1>2, <1>3

LEMMA MarkKeeps ==
    ASSUME SafetyInv, TypeOK', Mark \/ Terminal
    PROVE  SafetyInv'
<1>1. Working /\ UNCHANGED <<server, vault>>
  BY DEF Mark, Terminal, At, Working, ApplyPcs
<1>2. CASE Mark
  BY <1>1, <1>2, RowStepKeeps DEF Mark
<1>3. CASE Terminal
  BY <1>1, <1>3, ApplyDoneKeeps, WorkFacts DEF Terminal
<1> QED BY <1>2, <1>3

\* A refused write, settled or not, moves no file back.
LEMMA VaultFailsKeeps ==
    ASSUME SafetyInv, TypeOK', VaultFails
    PROVE  SafetyInv' /\ \A s \in Sources : vault'[s] >= vault[s]
<1>1. Working /\ UNCHANGED server
  BY DEF VaultFails, At, Working, ApplyPcs
<1>2. /\ WorkOK /\ mem \in Memories /\ journal \in Journals /\ mem.evt.lane \in {"pull", "repair"}
      /\ mem.evt.source \in Sources /\ mem.evt.version \in Nat /\ mem.evt.base \in Nat
      /\ mem.evt.base < mem.evt.version /\ \A s \in Sources : vault[s] \in Nat
      /\ journal.applied \in Nat
  BY <1>1, WorkFacts DEF WorkOK
<1>3. CASE mem' = ApplyFailed(TRUE) /\ UNCHANGED <<vault, journal>>
  <2>1. mem.evt.lane = "pull" \/ Barrier
    BY <1>1, <1>2, WorkFacts
  <2> QED BY <1>1, <1>2, <1>3, <2>1, FailedFrame DEF ApplyFailed
<1>4. CASE /\ mem.evt.lane = "repair" /\ At("stage") /\ UNCHANGED vault
           /\ ApplyDone([journal EXCEPT !.rows = @ \ RowsAt(mem.evt.seq)])
  <2>1. PICK j : j = [journal EXCEPT !.rows = @ \ RowsAt(mem.evt.seq)]
    OBVIOUS
  <2>2. /\ j \in Journals /\ j.rows \subseteq journal.rows
        /\ j.applied = journal.applied /\ j.acked = journal.acked /\ j.known = journal.known
        /\ j.bound = journal.bound /\ j.done = journal.done /\ j.barrier = journal.barrier
    BY <1>2, <2>1 DEF Journals
  <2>3. RowsFit(j)
    BY <1>2, <2>2, SameRowsFit DEF SafetyInv, RowsOK
  <2>4. /\ journal' = [j EXCEPT !.done = @ \cup {mem.evt.source}]
        /\ mem' = [mem EXCEPT !.pc = "actions", !.evt = None]
    BY <1>4, <2>1 DEF ApplyDone
  <2>5. /\ mem'.pc = "actions" /\ mem'.page = mem.page /\ mem'.receipt = mem.receipt
    BY <1>2, <2>4 DEF Memories
  <2>6. /\ journal'.applied = j.applied /\ journal'.acked = j.acked /\ journal'.known = j.known
        /\ journal'.bound = j.bound /\ journal'.barrier = j.barrier
        /\ journal'.done = j.done \cup {mem.evt.source} /\ journal'.rows = j.rows
    BY <2>2, <2>4 DEF Journals
  <2>7. RowsOK'
    BY <1>1, <2>3, <2>6 DEF server, RowsOK, RowsFit, RowFits, RowFrom, IsEvent
  <2>8. Repairing
    BY <1>1, <1>4, WorkFacts
  <2> QED BY <1>1, <1>2, <1>4, <2>2, <2>5, <2>6, <2>7, <2>8, DoneFrame
<1>5. CASE /\ At("replace") /\ ApplyDone(Terminalized(journal, mem.evt.seq))
           /\ vault' = [vault EXCEPT ![mem.evt.source] = mem.evt.version] \/ UNCHANGED vault
  <2>1. vault[mem.evt.source] = mem.evt.base /\ vault \in [Sources -> Nat]
    BY <1>1, <1>5, WorkFacts DEF WorkOK
  <2>2. \A s \in Sources : vault'[s] >= vault[s] /\ (s # mem.evt.source => vault'[s] = vault[s])
    BY <1>2, <1>5, <2>1
  <2> QED BY <1>1, <1>5, <2>2, ApplyDoneKeeps
<1> QED BY <1>2, <1>3, <1>4, <1>5 DEF VaultFails, At

LEMMA ApplyEventKeeps ==
    ASSUME SafetyInv, TypeOK', NEW e \in mem.page, ApplyEvent(e)
    PROVE  SafetyInv'
<1> USE DEF SafetyInv
<1>0. /\ mem \in Memories /\ journal \in Journals /\ mem.pc = "apply"
      /\ UNCHANGED <<server, vault>>
  BY DEF TypeOK, ApplyEvent, At
<1>1. /\ e \in log /\ e.seq <= delivered /\ e.version > 0
      /\ e.seq \in Sequences /\ e.seq \in Nat /\ e.version \in Nat /\ e.source \in Sources
      /\ journal.applied \in Nat
  BY BoundsAssumption DEF PageOK, TypeOK, Events, Journals, Sequences, Versions
<1>2. PICK rest : rest = [mem EXCEPT !.page = @ \ {e}]
  OBVIOUS
<1>3. /\ rest \in Memories /\ rest.pc = "apply" /\ rest.page \subseteq mem.page
      /\ rest.evt = mem.evt /\ rest.receipt = mem.receipt
  BY <1>0, <1>2 DEF Memories
<1>4. ~Barrier => acked = journal.acked /\ (Owed => Guarded)
  BY <1>0 DEF Debt
<1>5. CASE mem' = rest /\ UNCHANGED journal
  BY <1>0, <1>3, <1>4, <1>5, MemoryFrame DEF RestingPcs, Pcs, ApplyPcs, RunPcs
<1>6. CASE /\ journal' = Terminalized(journal, e.seq)
           /\ mem' = IF e.seq = journal.applied + 1 THEN rest ELSE Idle
  <2>1. CASE e.seq = journal.applied + 1
    <3>1. mem' = rest
      BY <1>6, <2>1
    <3>2. PICK n \in Sequences : n = e.seq
      BY <1>1
    <3>3. RowsFit(journal) /\ \A s \in Sources : vault'[s] >= vault[s]
      BY <1>0, BoundsAssumption DEF RowsOK, TypeOK, Versions
    <3> QED BY <1>0, <1>1, <1>3, <1>4, <1>6, <2>1, <3>1, <3>2, <3>3, AdvanceFrame
  <2>2. CASE e.seq # journal.applied + 1
    <3>1. PICK g : journal' = Blocked(journal, g)
      BY <1>6, <2>2 DEF Terminalized
    <3> QED BY <1>0, <1>6, <2>2, <3>1, BlockedKeeps
  <2> QED BY <2>1, <2>2
<1>7. CASE mem' = Idle /\ UNCHANGED journal
  BY <1>0, <1>7, FailedFrame
<1>8. CASE /\ e.seq = journal.applied + 1 /\ UNCHANGED journal
           /\ mem' = [rest EXCEPT !.pc = "prepare",
                 !.evt = [lane |-> "pull", id |-> <<0, e.seq>>, seq |-> e.seq,
                          source |-> e.source, version |-> e.version, base |-> e.version - 1]]
  <2>1. /\ mem'.pc = "prepare" /\ mem'.page \subseteq mem.page /\ mem'.evt.lane = "pull"
        /\ mem'.evt.seq = e.seq /\ mem'.evt.source = e.source /\ mem'.evt.version = e.version
        /\ mem'.evt.base = e.version - 1
        /\ mem'.evt = [lane |-> "pull", id |-> <<0, e.seq>>, seq |-> e.seq,
                       source |-> e.source, version |-> e.version, base |-> e.version - 1]
    BY <1>3, <1>8 DEF Memories
  <2>2. mem'.evt # None
    <3>1. mem'.evt \in Applies
      <4>1. e.version - 1 \in Versions /\ e.version \in Versions
        BY <1>1, BoundsAssumption DEF TypeOK, Events, Versions
      <4> QED BY <1>1, <2>1, <4>1 DEF Applies
    <3> QED BY <3>1, NoneAssumption
  <2>3. Numbered' /\ PageOK' /\ KnownOK' /\ RunMade'
    <3>1. \A s \in Sources : vault'[s] >= vault[s]
      BY <1>0, BoundsAssumption DEF TypeOK, Versions
    <3> QED BY <1>0, <1>8, <2>1, <3>1, DeviceFrame
  <2>4. RowsOK'
    BY <1>0, <1>8 DEF server, RowsOK, RowsFit, RowFits, RowFrom, IsEvent
  <2>5. Working' /\ ~Repairing' /\ ~InRun'
    BY <2>1 DEF Working, Repairing, InRun, ApplyPcs, RunPcs
  <2>6. WorkKept'
    BY <1>0, <1>1, <1>8, <2>1, <2>2 DEF server, WorkKept, WorkOK, At, IsEvent
  <2>7. BarrierOK' /\ InStep' /\ Planned'
    BY <1>0, <1>8, <2>1, <2>5 DEF server, BarrierOK, Barrier, At, Unfinished, InStep, Planned
  <2>8. Debt'
    BY <1>0, <1>4, <1>8, <2>1, <2>5 DEF server, Debt, Barrier, Guarded, Owed
  <2> QED BY <2>3, <2>4, <2>6, <2>7, <2>8
<1> QED BY <1>2, <1>5, <1>6, <1>7, <1>8 DEF ApplyEvent
-------------------------------------------------------------------------------
(* The server moves on.                                                    *)

VersionsTold ==
    \A s, c : /\ VersionAt(s, c) \in Versions
              /\ \A e \in log : e.source = s /\ e.seq <= c => e.version <= VersionAt(s, c)

LEMMA VersionsAreTold == TypeOK => VersionsTold
BY VersionAtIs DEF VersionsTold

LEMMA VersionGrows ==
    ASSUME TypeOK, TypeOK', log \subseteq log', NEW s, NEW c
    PROVE  /\ VersionAt(s, c) <= VersionAt(s, c)'
           /\ VersionAt(s, c) \in Nat /\ VersionAt(s, c)' \in Nat
<1>1. VersionAt(s, c) \in Nat
  BY VersionAtIs, BoundsAssumption DEF Versions
<1>2. VersionsTold'
  BY VersionsAreTold, PTL
<1>3. /\ VersionAt(s, c)' \in Nat
      /\ \A e \in log' : e.source = s /\ e.seq <= c => e.version <= VersionAt(s, c)'
  BY <1>2, BoundsAssumption DEF VersionsTold, Versions
<1>4. CASE VersionAt(s, c) = 0
  BY <1>3, <1>4
<1>5. CASE VersionAt(s, c) # 0
  <2>1. PICK e \in log : e.source = s /\ e.seq <= c /\ e.version = VersionAt(s, c)
    BY <1>5, VersionAtIs
  <2> QED BY <1>1, <1>3, <2>1
<1> QED BY <1>1, <1>3, <1>4, <1>5

\* What the device holds of the log stays, whatever is committed and delivered.
LEMMA RowsStay ==
    ASSUME TypeOK, TypeOK', NEW j \in Journals, RowsFit(j), journal' = j,
           log \subseteq log', delivered <= delivered', run.checkpoint <= run'.checkpoint
    PROVE  RowsOK'
<1>1. \A r \in j.rows : r.seq \in Nat
  BY BoundsAssumption DEF Journals, Rows, Sequences
<1>2. /\ delivered \in Nat /\ delivered' \in Nat
      /\ run.checkpoint \in Nat /\ run'.checkpoint \in Nat
  BY BoundsAssumption DEF TypeOK, Sequences, Runs
<1>3. \A r \in j.rows : RowFits(j, r) /\ RowFrom(r)
  BY DEF RowsFit
<1>4. ASSUME NEW r \in j.rows PROVE RowFits(j, r)' /\ RowFrom(r)'
  BY <1>1, <1>2, <1>3 DEF RowFits, RowFrom, IsEvent
<1> QED BY <1>4 DEF RowsOK, RowsFit, RowFits, RowFrom, IsEvent

LEMMA KnownStays ==
    ASSUME KnownOK, TypeOK, TypeOK', journal'.known = journal.known, log \subseteq log',
           \A s \in Sources : vault'[s] >= vault[s]
    PROVE  KnownOK'
<1>1. \A s \in Sources : /\ vault[s] \in Nat /\ vault'[s] \in Nat /\ journal.known[s] \in Nat
  BY BoundsAssumption DEF TypeOK, Versions, Journals
<1> QED BY <1>1 DEF KnownOK

\* The run made stays made while its log grows.
LEMMA RunStays ==
    ASSUME SafetyInv, TypeOK', log \subseteq log', journal'.known = journal.known,
           run'.checkpoint = run.checkpoint, run'.entries = run.entries, run'.plan = run.plan,
           \/ run'.state = run.state \/ run'.state \in {"expired", "failed"}
           \/ run.state = "planned" /\ run'.state = "applying"
           \/ run.state = "applying" /\ run'.state = "completed"
    PROVE  RunMade'
<1> USE DEF SafetyInv
<1>1. PICK c : c = run.checkpoint
  OBVIOUS
<1>2. \A s : /\ VersionAt(s, c) <= VersionAt(s, c)'
             /\ VersionAt(s, c) \in Nat /\ VersionAt(s, c)' \in Nat
  BY VersionGrows
<1>3. \A s : /\ VersionAt(s, run.checkpoint) = VersionAt(s, c)
             /\ VersionAt(s, run.checkpoint)' = VersionAt(s, c)'
  BY <1>1
<1>4. \A s \in Sources : journal.known[s] \in Nat
  BY BoundsAssumption DEF TypeOK, Journals, Versions
<1>5. run.plan # None => \A s \in Sources : run.entries[s].have \in Nat
  BY BoundsAssumption DEF RunMade, TypeOK, Runs, Manifests, Versions
<1>6. /\ run'.state \in {"planned", "applying", "completed"} => run'.plan # None
      /\ run'.state = "collecting" => run'.plan = None
      /\ run'.plan # None => run'.entries # None
  BY DEF RunMade
<1>7. Unfinished' => \A s \in Sources : journal'.known[s] <= VersionAt(s, run.checkpoint)'
  <2>1. Unfinished' => Unfinished
    BY DEF Unfinished
  <2> QED BY <1>2, <1>3, <1>4, <2>1 DEF RunMade
<1>8. run'.plan # None => \A s \in Sources :
         run'.plan[s] = "download" => run'.entries[s].have < VersionAt(s, run.checkpoint)'
  BY <1>2, <1>3, <1>5 DEF RunMade
<1> QED BY <1>6, <1>7, <1>8 DEF RunMade

\* The others' steps, and a run that expires.
LEMMA ServerFrame ==
    ASSUME SafetyInv, TypeOK', UNCHANGED <<vault, journal, mem, acked, delivered>>, Numbered',
           log \subseteq log', run'.id = run.id, run'.checkpoint = run.checkpoint,
           run'.entries = run.entries, run'.plan = run.plan,
           run'.state = run.state \/ (Unfinished /\ run'.state = "expired")
    PROVE  SafetyInv'
<1> USE DEF SafetyInv
<1>1. RunMade'
  BY RunStays
<1>2. RowsOK'
  <2>1. /\ journal \in Journals /\ delivered <= delivered' /\ run.checkpoint <= run'.checkpoint
    BY BoundsAssumption DEF TypeOK, Sequences, Runs
  <2>2. PICK j \in Journals : j = journal
    BY <2>1
  <2> QED BY <2>1, <2>2, RowsStay DEF RowsOK
<1>3. KnownOK'
  <2>1. \A s \in Sources : vault'[s] >= vault[s]
    BY BoundsAssumption DEF TypeOK, Versions
  <2> QED BY <2>1, KnownStays
<1>4. PageOK'
  BY DEF PageOK
<1>5. /\ (Working' <=> Working) /\ (Repairing' <=> Repairing) /\ (InRun' <=> InRun)
      /\ \A p : At(p)' <=> At(p)
  BY DEF Working, Repairing, InRun, At
<1>6. WorkKept'
  BY <1>5 DEF WorkKept, WorkOK, IsEvent, At
<1>7. BarrierOK'
  BY <1>5 DEF BarrierOK, Barrier, Unfinished, At
<1>8. InStep'
  <2>1. Unfinished => run.state \in {"collecting", "planned", "applying"}
    BY DEF Unfinished
  <2> QED BY <1>5, <2>1 DEF InStep, BoundHere, Unfinished, At
<1>9. Planned'
  BY <1>5 DEF Planned, BoundHere, Unplaced, At
<1>10. Debt'
  BY <1>5 DEF Debt, Barrier, Guarded, Owed, At
<1> QED BY <1>1, <1>2, <1>3, <1>4, <1>6, <1>7, <1>8, <1>9, <1>10

LEMMA OthersKeepSafety ==
    ASSUME SafetyInv, TypeOK', Others \/ ExpireRun
    PROVE  SafetyInv'
<1> USE DEF SafetyInv
<1>0. /\ nextSeq \in Nat /\ nextSeq > 0 /\ log \subseteq Events
      /\ \A e \in Events : e.seq \in Nat /\ e.version \in Nat /\ e.source \in Sources
  BY BoundsAssumption DEF TypeOK, Events, Sequences, Versions
<1>1. CASE Commit
  <2>1. inflight \in Events /\ log' = log \cup {inflight}
    BY <1>1 DEF Commit, TypeOK
  <2>2. Numbered'
    BY <1>0, <1>1, <2>1 DEF Numbered, Commit
  <2> QED BY <1>1, <2>2, ServerFrame DEF Commit
<1>2. CASE Rollback
  <2>1. Numbered'
    BY <1>2 DEF Numbered, Rollback
  <2> QED BY <1>2, <2>1, ServerFrame DEF Rollback
<1>3. ASSUME NEW s \in Sources, Begin(s) PROVE SafetyInv'
  <2>1. Canonical(s) \in Nat /\ Canonical(s) < nextSeq
    BY <1>0, VersionAtIs, BoundsAssumption DEF Canonical, Versions, Numbered
  <2>2. PICK v : v = Canonical(s)
    OBVIOUS
  <2>3. /\ inflight' = [seq |-> nextSeq, source |-> s, version |-> v + 1, own |-> FALSE]
        /\ nextSeq' = nextSeq + 1 /\ UNCHANGED <<log, acked, delivered, run>>
    BY <1>3, <2>2 DEF Begin
  <2>4. /\ inflight'.version > 0 /\ inflight'.version <= inflight'.seq /\ inflight'.seq < nextSeq'
        /\ \A e \in log : e.seq # inflight'.seq /\ e.seq < inflight'.seq
    BY <1>0, <2>1, <2>2, <2>3 DEF Numbered
  <2>5. \A e \in log : e.seq < nextSeq'
    BY <1>0, <2>3 DEF Numbered
  <2>6. Numbered'
    BY <2>3, <2>4, <2>5 DEF Numbered
  <2> QED BY <1>3, <2>6, ServerFrame DEF Begin
<1>4. ASSUME NEW s \in Sources, CaptureConflict(s) PROVE SafetyInv'
  <2>1. PICK e : e = [seq |-> nextSeq, source |-> s, version |-> 0, own |-> FALSE]
    OBVIOUS
  <2>2. /\ log' = log \cup {e} /\ nextSeq' = nextSeq + 1
        /\ UNCHANGED <<inflight, acked, delivered, run>>
        /\ e.seq = nextSeq /\ e.version = 0
    BY <1>4, <2>1 DEF CaptureConflict
  <2>3. /\ \A f \in log : f.version <= f.seq /\ f.seq < nextSeq
        /\ \A f, g \in log : f.seq = g.seq => f = g
    BY DEF Numbered
  <2>4. /\ \A f \in log' : f.version <= f.seq /\ f.seq < nextSeq'
        /\ \A f, g \in log' : f.seq = g.seq => f = g
    BY <1>0, <2>2, <2>3
  <2>5. inflight # None =>
         /\ inflight.version > 0 /\ inflight.version <= inflight.seq /\ inflight.seq < nextSeq'
         /\ \A f \in log' : f.seq # inflight.seq /\ (f.version > 0 => f.seq < inflight.seq)
    <3> SUFFICES ASSUME inflight # None
                 PROVE  /\ inflight.version > 0 /\ inflight.version <= inflight.seq /\ inflight.seq < nextSeq'
                        /\ \A f \in log' : f.seq # inflight.seq /\ (f.version > 0 => f.seq < inflight.seq)
      OBVIOUS
    <3>1. /\ inflight.version > 0 /\ inflight.version <= inflight.seq /\ inflight.seq < nextSeq
          /\ \A f \in log : f.seq # inflight.seq /\ (f.version > 0 => f.seq < inflight.seq)
          /\ inflight.seq \in Nat
      BY <1>0 DEF Numbered, TypeOK
    <3> QED BY <1>0, <2>2, <3>1
  <2>6. Numbered'
    BY <2>2, <2>4, <2>5 DEF Numbered
  <2> QED BY <1>4, <2>6, ServerFrame DEF CaptureConflict
<1>5. CASE ExpireRun
  <2>1. /\ run' = [run EXCEPT !.state = "expired"] /\ Unfinished
        /\ UNCHANGED <<log, nextSeq, inflight, acked, delivered, vault, journal, mem>>
    BY <1>5 DEF ExpireRun
  <2>2. /\ run'.id = run.id /\ run'.checkpoint = run.checkpoint /\ run'.entries = run.entries
        /\ run'.plan = run.plan /\ run'.state = "expired"
    BY <2>1 DEF TypeOK, Runs
  <2>3. Numbered'
    BY <2>1, <2>2 DEF Numbered
  <2> QED BY <2>1, <2>2, <2>3, ServerFrame
<1> QED BY <1>1, <1>2, <1>3, <1>4, <1>5 DEF Others
-------------------------------------------------------------------------------
(* The manifest run.                                                       *)

\* What a call about the run does at the server, as far as the device relies on it.
RunForward ==
    /\ UNCHANGED <<log, nextSeq, inflight>>
    /\ Numbered' /\ RunMade'
    /\ acked <= acked' /\ delivered <= delivered' /\ run.checkpoint <= run'.checkpoint
    /\ acked' = acked \/ acked' <= run'.checkpoint
    /\ acked <= run.checkpoint \/ acked <= journal.applied => 
         acked' <= run'.checkpoint \/ acked' <= journal.applied
    /\ run.id <= run'.id /\ (run'.id = run.id /\ run.entries # None => run'.entries # None)

LEMMA QuietForward ==
    ASSUME SafetyInv, TypeOK', UNCHANGED <<server, vault>>, journal'.known = journal.known,
           mem'.page \subseteq mem.page
    PROVE  RunForward
<1>1. Numbered' /\ RunMade'
  <2>1. \A s \in Sources : vault'[s] >= vault[s]
    BY BoundsAssumption DEF SafetyInv, TypeOK, Versions
  <2> QED BY <2>1, DeviceFrame
<1>2. /\ acked \in Nat /\ delivered \in Nat /\ run.checkpoint \in Nat /\ run.id \in Nat
  BY BoundsAssumption DEF SafetyInv, TypeOK, Sequences, Runs
<1> QED BY <1>1, <1>2 DEF server, RunForward

LEMMA StartForward ==
    ASSUME SafetyInv, TypeOK', NEW g, StartManifest(g), journal'.known = journal.known
    PROVE  /\ RunForward
           /\ Unfinished' /\ (run' # run => run'.id = run.id + 1 /\ run'.entries = None)
<1> USE DEF SafetyInv
<1>0. /\ acked \in Nat /\ delivered \in Nat /\ run.checkpoint \in Nat /\ run.id \in Nat
      /\ \A e \in log : e.seq \in Nat
  BY BoundsAssumption DEF TypeOK, Sequences, Runs, Events
<1>1. UNCHANGED <<log, nextSeq, inflight, acked, delivered>>
  BY DEF StartManifest
<1>2. CASE Unfinished /\ run' = run
  <2>1. Numbered'
    BY <1>1, <1>2 DEF Numbered
  <2>2. RunMade'
    BY <1>1, <1>2, RunStays
  <2> QED BY <1>0, <1>1, <1>2, <2>1, <2>2 DEF RunForward, Unfinished
<1>3. ASSUME NEW c \in {acked} \cup {e.seq : e \in log}, acked <= c, \A e \in log : e.seq <= c,
             run' = [id |-> run.id + 1, gen |-> g, state |-> "collecting",
                     checkpoint |-> c, entries |-> None, plan |-> None]
      PROVE  RunForward /\ Unfinished' /\ run'.id = run.id + 1 /\ run'.entries = None
  <2>1. Unfinished' /\ run'.id = run.id + 1 /\ run'.checkpoint = c /\ run'.entries = None
        /\ run'.plan = None /\ run'.state = "collecting" /\ c \in Nat
    BY <1>0, <1>3 DEF Unfinished
  <2>2. run.checkpoint <= c
    BY <1>0, <1>3, <2>1 DEF Numbered
  <2>3. Numbered'
    <3>1. run'.checkpoint <= acked' \/ \E e \in log' : e.seq = run'.checkpoint
      BY <1>0, <1>1, <1>3, <2>1
    <3> QED BY <1>1, <3>1 DEF Numbered
  <2>4. \A s \in Sources : journal.known[s] <= VersionAt(s, c)
    <3> SUFFICES ASSUME NEW s \in Sources PROVE journal.known[s] <= VersionAt(s, c)
      OBVIOUS
    <3>1. journal.known[s] \in Nat /\ VersionAt(s, c) \in Nat
      BY VersionAtIs, BoundsAssumption DEF TypeOK, Journals, Versions
    <3>2. journal.known[s] # 0 => \E e \in log : e.source = s /\ e.version = journal.known[s]
      BY DEF KnownOK
    <3>3. \A e \in log : e.source = s /\ e.seq <= c => e.version <= VersionAt(s, c)
      BY VersionAtIs
    <3> QED BY <1>3, <3>1, <3>2, <3>3
  <2>5. \A s \in Sources : journal'.known[s] <= VersionAt(s, run.checkpoint)'
    <3>1. \A s : VersionAt(s, run.checkpoint)' = VersionAt(s, c)
      BY <1>1, <2>1 DEF VersionAt
    <3> QED BY <2>4, <3>1
  <2>6. RunMade'
    BY <2>1, <2>5 DEF RunMade
  <2> QED BY <1>0, <1>1, <1>3, <2>1, <2>2, <2>3, <2>6 DEF RunForward
<1>4. PICK c \in {acked} \cup {e.seq : e \in log} :
         /\ acked <= c /\ \A e \in log : e.seq <= c
         /\ run' = IF Unfinished /\ run.gen = g THEN run
                   ELSE [id |-> run.id + 1, gen |-> g, state |-> "collecting",
                         checkpoint |-> c, entries |-> None, plan |-> None]
  BY DEF StartManifest
<1> QED BY <1>2, <1>3, <1>4

LEMMA AppendForward ==
    ASSUME SafetyInv, TypeOK', NEW capture \in Manifests, AppendPage(capture),
           journal'.known = journal.known
    PROVE  /\ RunForward /\ run'.id = run.id /\ run'.checkpoint = run.checkpoint
           /\ run'.state = run.state
           /\ run.state = "collecting" => run'.entries # None
<1> USE DEF SafetyInv
<1>0. /\ acked \in Nat /\ delivered \in Nat /\ run \in Runs /\ run.checkpoint \in Nat /\ run.id \in Nat
      /\ UNCHANGED <<log, nextSeq, inflight, acked, delivered>>
  BY BoundsAssumption DEF TypeOK, Sequences, Runs, AppendPage
<1>1. CASE run' = run
  <2>1. Numbered' /\ RunMade'
    BY <1>0, <1>1, RunStays DEF Numbered
  <2>2. run.state # "collecting"
    \/ run'.entries = capture
    BY <1>0, <1>1 DEF AppendPage, Runs
  <2> QED BY <1>0, <1>1, <2>1, <2>2, NoneAssumption DEF RunForward
<1>2. CASE run.state = "collecting"
  <2>1. /\ run'.id = run.id /\ run'.checkpoint = run.checkpoint /\ run'.state = run.state
        /\ run'.entries = capture /\ run'.plan = run.plan
    BY <1>0, <1>2 DEF AppendPage, Runs
  <2>2. capture # None
    BY NoneAssumption
  <2>3. Numbered'
    BY <1>0, <2>1 DEF Numbered
  <2>4. \A s : VersionAt(s, run.checkpoint)' = VersionAt(s, run.checkpoint)
    BY <1>0, <2>1, SameVersions
  <2>5. RunMade'
    BY <1>0, <1>2, <2>1, <2>2, <2>4 DEF RunMade, Unfinished
  <2> QED BY <1>0, <2>1, <2>2, <2>3, <2>5 DEF RunForward
<1> QED BY <1>1, <1>2 DEF AppendPage

\* A download the planner decides brings a later version than the vault has.
LEMMA FinalizeForward ==
    ASSUME SafetyInv, TypeOK', FinalizeManifest(Capture), journal'.known = journal.known
    PROVE  /\ RunForward /\ run'.id = run.id /\ run'.checkpoint = run.checkpoint
           /\ run'.entries = run.entries
           /\ run.state # "collecting" => run'.state = run.state
           /\ run.state = "collecting" /\ run.entries = Capture => run'.state = "planned"
<1> USE DEF SafetyInv
<1>0. /\ acked \in Nat /\ delivered \in Nat /\ run \in Runs /\ run.checkpoint \in Nat /\ run.id \in Nat
      /\ UNCHANGED <<log, nextSeq, inflight, acked, delivered>>
  <2>1. UNCHANGED <<log, nextSeq, inflight, acked, delivered>>
    BY DEF FinalizeManifest
  <2> QED BY <2>1, BoundsAssumption DEF TypeOK, Sequences, Runs
<1>1. CASE run' = run /\ run.state # "collecting"
  BY <1>0, <1>1, RunStays DEF Numbered, RunForward
<1>2. CASE run.state = "collecting" /\ run.entries # Capture
  <2>1. /\ run'.id = run.id /\ run'.checkpoint = run.checkpoint /\ run'.state = "failed"
        /\ run'.entries = run.entries /\ run'.plan = run.plan
    BY <1>0, <1>2 DEF FinalizeManifest, Runs
  <2> QED BY <1>0, <1>2, <2>1, RunStays DEF Numbered, RunForward
<1>3. CASE run.state = "collecting" /\ run.entries = Capture
  <2>1. PICK plan : plan = [s \in Sources |-> PlannedAction(Capture[s].have, Capture[s].base,
                                                           VersionAt(s, run.checkpoint))]
    OBVIOUS
  <2>2. run' = [run EXCEPT !.state = "planned", !.plan = plan]
    BY <1>3, <2>1 DEF FinalizeManifest
  <2>3. /\ run'.id = run.id /\ run'.checkpoint = run.checkpoint /\ run'.state = "planned"
        /\ run'.entries = run.entries /\ run'.plan = plan
    BY <1>0, <2>2 DEF Runs
  <2>4. run.entries # None /\ run.entries \in Manifests
    BY <1>3, CaptureShape, NoneAssumption
  <2>5. \A s \in Sources : plan[s] = "download" => run.entries[s].have < VersionAt(s, run.checkpoint)
    <3> SUFFICES ASSUME NEW s \in Sources, plan[s] = "download"
                 PROVE  run.entries[s].have < VersionAt(s, run.checkpoint)
      OBVIOUS
    <3>1. PICK v : v = VersionAt(s, run.checkpoint)
      OBVIOUS
    <3>2. /\ run.entries[s].have = vault[s] /\ run.entries[s].base = journal.known[s]
          /\ v \in Nat /\ vault[s] \in Nat /\ journal.known[s] \in Nat
      BY <1>3, <3>1, VersionAtIs, BoundsAssumption DEF Capture, TypeOK, Journals, Versions
    <3>3. journal.known[s] <= v
      BY <1>3, <3>1 DEF RunMade, Unfinished
    <3>4. PlannedAction(vault[s], journal.known[s], v) = "download"
      BY <1>3, <2>1, <3>1, <3>2
    <3> QED BY <3>1, <3>2, <3>3, <3>4 DEF PlannedAction
  <2>6. plan # None
    BY <2>3, <2>1, NoneAssumption DEF PlannedAction, Actions
  <2>7. \A s : VersionAt(s, run.checkpoint)' = VersionAt(s, run.checkpoint)
    BY <1>0, <2>3, SameVersions
  <2>8. RunMade'
    BY <1>0, <1>3, <2>3, <2>4, <2>5, <2>6, <2>7 DEF RunMade, Unfinished
  <2>9. Numbered'
    BY <1>0, <2>3 DEF Numbered
  <2> QED BY <1>0, <1>3, <2>3, <2>8, <2>9 DEF RunForward
<1> QED BY <1>1, <1>2, <1>3 DEF FinalizeManifest

LEMMA ListForward ==
    ASSUME SafetyInv, TypeOK', ListActions, journal'.known = journal.known
    PROVE  /\ RunForward /\ run'.id = run.id /\ run'.checkpoint = run.checkpoint
           /\ run'.entries = run.entries /\ run'.plan = run.plan
           /\ run.state = "planned" => run'.state = "applying"
           /\ run.state # "planned" => run'.state = run.state
<1> USE DEF SafetyInv
<1>0. /\ acked \in Nat /\ delivered \in Nat /\ run \in Runs /\ run.checkpoint \in Nat /\ run.id \in Nat
      /\ UNCHANGED <<log, nextSeq, inflight, acked, delivered>>
  BY BoundsAssumption DEF TypeOK, Sequences, Runs, ListActions
<1>1. /\ run'.id = run.id /\ run'.checkpoint = run.checkpoint
      /\ run'.entries = run.entries /\ run'.plan = run.plan
      /\ run.state = "planned" => run'.state = "applying"
      /\ run.state # "planned" => run'.state = run.state
  BY <1>0 DEF ListActions, Runs
<1>2. RunMade'
  BY <1>0, <1>1, RunStays
<1> QED BY <1>0, <1>1, <1>2 DEF Numbered, RunForward

LEMMA CompleteForward ==
    ASSUME SafetyInv, TypeOK', CompleteManifest, journal'.known = journal.known
    PROVE  /\ RunForward /\ run'.id = run.id /\ run'.checkpoint = run.checkpoint
           /\ run'.entries = run.entries
           /\ run.state = "applying" => run'.state = "completed" /\ run'.checkpoint <= acked'
           /\ run.state # "applying" => UNCHANGED server
<1> USE DEF SafetyInv
<1>0. /\ acked \in Nat /\ delivered \in Nat /\ run \in Runs /\ run.checkpoint \in Nat /\ run.id \in Nat
      /\ journal.applied \in Nat
      /\ UNCHANGED <<log, nextSeq, inflight>>
  BY BoundsAssumption DEF TypeOK, Sequences, Runs, CompleteManifest, Journals
<1>1. CASE run.state = "applying"
  <2>1. /\ run'.id = run.id /\ run'.checkpoint = run.checkpoint /\ run'.state = "completed"
        /\ run'.entries = run.entries /\ run'.plan = run.plan
    BY <1>0, <1>1 DEF CompleteManifest, Runs
  <2>2. acked' = IF acked < run.checkpoint THEN run.checkpoint ELSE acked
    BY <1>0, <1>1, MaxOfTwo DEF CompleteManifest
  <2>3. delivered' = IF acked < run.checkpoint
                       THEN IF delivered < run.checkpoint THEN run.checkpoint ELSE delivered
                       ELSE delivered
    BY <1>0, <1>1, MaxOfTwo DEF CompleteManifest
  <2>4. RunMade'
    BY <1>0, <1>1, <2>1, RunStays
  <2>5. Numbered'
    <3>1. acked' <= delivered' /\ run'.checkpoint <= acked'
      BY <1>0, <2>1, <2>2, <2>3 DEF Numbered
    <3> QED BY <1>0, <3>1 DEF Numbered
  <2> QED BY <1>0, <1>1, <2>1, <2>2, <2>3, <2>4, <2>5 DEF RunForward
<1>2. CASE run.state # "applying"
  <2>1. UNCHANGED <<run, acked, delivered>>
    BY <1>2 DEF CompleteManifest
  <2>2. RunMade'
    BY <1>0, <2>1, RunStays
  <2> QED BY <1>0, <1>2, <2>1, <2>2 DEF Numbered, RunForward, server
<1> QED BY <1>1, <1>2

\* A step under the barrier that is in no apply: the rows it keeps fit.
LEMMA RunFrame ==
    ASSUME SafetyInv, TypeOK', Barrier, RunForward, UNCHANGED vault,
           mem'.pc \in Pcs \ ApplyPcs, mem'.page \subseteq mem.page,
           journal'.rows \subseteq journal.rows, journal'.applied = journal.applied,
           journal'.acked = journal.acked, journal'.known = journal.known,
           journal'.barrier # None,
           journal'.bound # None =>
             /\ journal'.bound.id <= run'.id
             /\ journal'.bound.id = run'.id => run'.entries # None,
           journal'.bound = None => journal'.done = {},
           InStep', Planned'
    PROVE  SafetyInv'
<1> USE DEF SafetyInv
<1>0. /\ journal \in Journals /\ journal.applied \in Nat /\ acked \in Nat /\ journal.acked \in Nat
      /\ delivered \in Nat /\ delivered' \in Nat /\ acked' \in Nat /\ log \subseteq log'
      /\ \A e \in Events : e.seq \in Nat
  BY BoundsAssumption DEF TypeOK, Journals, Sequences, Runs, RunForward, Events
<1>1. PICK j \in Journals : j = journal'
  BY DEF TypeOK
<1>2. RowsFit(j)
  BY <1>0, <1>1, SameRowsFit DEF RowsOK
<1>3. RowsOK'
  BY <1>0, <1>1, <1>2, RowsStay DEF RunForward
<1>4. KnownOK'
  <2>1. \A s \in Sources : vault'[s] >= vault[s]
    BY BoundsAssumption DEF TypeOK, Versions
  <2> QED BY <1>0, <2>1, KnownStays
<1>5. PageOK'
  <2>1. \A e \in mem.page : e \in log /\ e.seq <= delivered /\ e.version > 0 /\ e.seq \in Nat
    BY <1>0 DEF PageOK, TypeOK
  <2> QED BY <1>0, <2>1 DEF PageOK, RunForward
<1>6. ~Working' /\ WorkKept'
  BY DEF Working, WorkKept
<1>7. BarrierOK'
  BY DEF BarrierOK, Barrier
<1>8. Debt'
  BY <1>0 DEF Debt, Barrier, RunForward
<1> QED BY <1>3, <1>4, <1>5, <1>6, <1>7, <1>8 DEF RunForward

\* Start over once, or block: the run is forgotten or kept as it is.
LEMMA RestartKeeps ==
    ASSUME SafetyInv, TypeOK', Barrier, RunForward, UNCHANGED vault,
           NEW j \in {journal, Discarded(journal)}, NEW c, RestartRun(j, c)
    PROVE  SafetyInv'
<1> USE DEF SafetyInv
<1>0. mem \in Memories /\ journal \in Journals /\ run \in Runs /\ run' \in Runs
  BY DEF TypeOK
<1>1. /\ j \in Journals /\ j.rows = journal.rows /\ j.applied = journal.applied
      /\ j.acked = journal.acked /\ j.known = journal.known /\ j.barrier = journal.barrier
      /\ (j.bound = journal.bound /\ j.done = journal.done) \/ (j.bound = None /\ j.done = {})
  BY <1>0, DiscardedFields, JournalShape
<1>2. journal' \in {j, Discarded(j), Barred(Discarded(j))}
  BY DEF RestartRun
<1>3. PICK d \in Journals : d = Discarded(j)
  BY <1>1, JournalShape
<1>4. /\ journal'.rows = journal.rows /\ journal'.applied = journal.applied
      /\ journal'.acked = journal.acked /\ journal'.known = journal.known
      /\ journal'.barrier # None
      /\ \/ journal'.bound = journal.bound /\ journal'.done = journal.done
         \/ journal'.bound = None /\ journal'.done = {}
  <2>1. /\ d.rows = j.rows /\ d.applied = j.applied /\ d.acked = j.acked /\ d.known = j.known
        /\ d.barrier = j.barrier /\ d.bound = None /\ d.done = {}
    BY <1>1, <1>3, DiscardedFields
  <2>2. CASE journal' = Barred(d)
    BY <1>1, <2>1, <2>2, BarredFields
  <2> QED BY <1>1, <1>2, <1>3, <2>1, <2>2 DEF Barrier
<1>5. mem'.pc \in {"start", "outbound"} /\ mem'.page = mem.page
  BY <1>0 DEF RestartRun, RepairBlocked, Settled, Memories
<1>6. InStep' /\ Planned'
  BY <1>5 DEF InStep, Planned, InRun, Repairing, Working, RunPcs, ApplyPcs
<1>7. journal'.bound # None =>
        /\ journal'.bound.id <= run'.id
        /\ journal'.bound.id = run'.id => run'.entries # None
  <2> SUFFICES ASSUME journal'.bound # None
               PROVE  /\ journal'.bound.id <= run'.id
                      /\ journal'.bound.id = run'.id => run'.entries # None
    OBVIOUS
  <2>1. /\ journal'.bound = journal.bound /\ journal.bound # None
        /\ journal.bound.id <= run.id /\ (journal.bound.id = run.id => run.entries # None)
    BY <1>4 DEF BarrierOK
  <2>2. journal.bound.id \in Nat /\ run.id \in Nat /\ run'.id \in Nat
    BY <1>0, <2>1 DEF Journals, Bounds, Runs
  <2> QED BY <2>1, <2>2 DEF RunForward
<1>8. journal'.bound = None => journal'.done = {}
  BY <1>4 DEF BarrierOK
<1> QED BY <1>4, <1>5, <1>6, <1>7, <1>8, RunFrame DEF Pcs, ApplyPcs

\* What stands while a run is worked through.
LEMMA RunFacts ==
    ASSUME SafetyInv, mem.pc \in RunPcs
    PROVE  /\ mem \in Memories /\ journal \in Journals /\ run \in Runs
           /\ Barrier /\ InRun /\ ~Repairing /\ ~Working
           /\ mem.receipt # None /\ mem.receipt.id = run.id
           /\ mem.receipt.checkpoint = run.checkpoint
           /\ journal.bound # None => BoundHere /\ run.entries # None
           /\ \A s \in Sources : vault[s] \in Nat
BY BoundsAssumption DEF SafetyInv, TypeOK, InStep, InRun, BarrierOK, Repairing, Working, ApplyPcs, RunPcs,
      BoundHere, Versions

LEMMA RunStartKeeps ==
    ASSUME SafetyInv, TypeOK', RunStart
    PROVE  SafetyInv'
<1> USE DEF SafetyInv
<1>0. /\ mem \in Memories /\ journal \in Journals /\ run \in Runs /\ run' \in Runs /\ Barrier
      /\ UNCHANGED vault
  BY DEF TypeOK, RunStart, At, BarrierOK
<1>1. journal'.known = journal.known
  BY <1>0, DiscardedFields, BarredFields, JournalShape DEF RunStart, RestartRun
<1>2. PICK g : g = journal.barrier
  OBVIOUS
<1>3. /\ RunForward /\ Unfinished'
      /\ run' # run => run'.id = run.id + 1 /\ run'.entries = None
  BY <1>1, <1>2, StartForward DEF RunStart
<1>4. CASE RestartRun(Discarded(journal), FALSE)
  BY <1>0, <1>3, <1>4, RestartKeeps
<1>5. CASE /\ journal.bound # None => journal.bound.id = run'.id
           /\ mem' = [mem EXCEPT !.pc = "page",
                              !.receipt = [id |-> run'.id, checkpoint |-> run'.checkpoint,
                                           paged |-> run'.entries # None]]
           /\ UNCHANGED journal
  <2>1. PICK i, k, p : i = run'.id /\ k = run'.checkpoint /\ p = (run'.entries # None)
    OBVIOUS
  <2>2. /\ mem'.pc = "page" /\ mem'.page = mem.page
        /\ mem'.receipt = [id |-> i, checkpoint |-> k, paged |-> p]
    BY <1>0, <1>5, <2>1 DEF Memories
  <2>3. /\ mem'.receipt.id = run'.id /\ mem'.receipt.checkpoint = run'.checkpoint
        /\ mem'.receipt.paged => run'.entries # None
    <3>1. mem'.receipt.id = i /\ mem'.receipt.checkpoint = k /\ mem'.receipt.paged = p
      BY <2>2
    <3>2. CASE run'.entries = None
      <4>1. p = FALSE
        BY <2>1, <3>2, Zenon
      <4> QED BY <2>1, <3>1, <4>1
    <3>3. CASE run'.entries # None
      BY <2>1, <3>1, <3>3
    <3> QED BY <3>2, <3>3
  <2>4. mem'.receipt # None
    <3>1. mem'.receipt \in Receipts
      <4>1. i \in Nat /\ k \in Sequences /\ p \in BOOLEAN
        BY <1>0, <2>1 DEF Runs
      <4> QED BY <2>2, <4>1 DEF Receipts
    <3> QED BY <3>1, NoneAssumption
  <2>5. ~Repairing'
    BY <2>2 DEF Repairing, Working, ApplyPcs
  <2>6. InStep' /\ Planned'
    BY <1>3, <1>5, <2>2, <2>3, <2>4, <2>5 DEF InStep, Planned, BoundHere, At
  <2>7. journal.bound # None => run'.id = run.id /\ run' = run
    BY <1>0, <1>3, <1>5 DEF BarrierOK, Journals, Bounds, Runs
  <2>8. journal'.bound # None =>
          /\ journal'.bound.id <= run'.id
          /\ journal'.bound.id = run'.id => run'.entries # None
    BY <1>5, <2>7 DEF BarrierOK
  <2>9. journal'.bound = None => journal'.done = {}
    BY <1>5 DEF BarrierOK
  <2> QED BY <1>0, <1>3, <1>5, <2>2, <2>6, <2>8, <2>9, RunFrame DEF Pcs, ApplyPcs, Barrier
<1> QED BY <1>4, <1>5 DEF RunStart

LEMMA RunPageKeeps ==
    ASSUME SafetyInv, TypeOK', RunPage
    PROVE  SafetyInv'
<1> USE DEF SafetyInv
<1>0. /\ mem.pc = "page" /\ mem.pc \in RunPcs /\ UNCHANGED vault
      /\ Unfinished \/ run.state = "expired"
      /\ mem.receipt.paged => run.entries # None
  BY DEF RunPage, At, RunPcs, InStep, InRun
<1>1. PICK k \in Manifests : k = Capture
  BY CaptureShape
<1>2. /\ Bound.known = journal.known /\ Barred(Discarded(journal)).known = journal.known
      /\ Discarded(journal).known = journal.known
      /\ Bound.rows = journal.rows /\ Bound.applied = journal.applied
      /\ Bound.acked = journal.acked /\ Bound.barrier = journal.barrier
      /\ Bound.done = journal.done /\ Bound.bound = [id |-> mem.receipt.id, page |-> k]
  BY <1>0, <1>1, RunFacts, DiscardedFields, BarredFields, JournalShape DEF Bound, Journals
<1>3. journal'.known = journal.known
  BY <1>2 DEF RunPage, RestartRun
<1>4. ASSUME mem' = [mem EXCEPT !.pc = "finalize"], RunForward, run'.id = run.id,
             run'.checkpoint = run.checkpoint, run'.state = run.state, run'.entries # None,
             \/ journal' = journal /\ journal.bound # None
             \/ journal' = Bound
      PROVE  SafetyInv'
  <2>1. mem'.pc = "finalize" /\ mem'.page = mem.page /\ mem'.receipt = mem.receipt
    BY <1>0, <1>4, RunFacts DEF Memories
  <2>2. /\ journal'.rows \subseteq journal.rows /\ journal'.applied = journal.applied
        /\ journal'.acked = journal.acked /\ journal'.barrier # None
        /\ journal'.bound # None /\ journal'.bound.id = run.id
    <3>1. CASE journal' = journal /\ journal.bound # None
      BY <1>0, <3>1, RunFacts DEF BoundHere, Barrier
    <3>2. CASE journal' = Bound
      <4>1. Bound.bound # None
        <5>1. mem.receipt.id \in Nat
          BY <1>0, RunFacts DEF Memories, Receipts
        <5>2. Bound.bound \in Bounds
          BY <1>2, <5>1 DEF Bounds
        <5> QED BY <5>2, NoneAssumption
      <4>2. Bound.bound.id = run.id
        BY <1>0, <1>2, RunFacts
      <4> QED BY <1>0, <1>2, <3>2, <4>1, <4>2, RunFacts DEF Barrier
    <3> QED BY <1>4, <3>1, <3>2
  <2>3. ~Repairing' /\ InRun'
    BY <2>1 DEF Repairing, InRun, Working, ApplyPcs, RunPcs
  <2>4. InStep'
    <3>1. mem.receipt # None /\ mem.receipt.id = run.id /\ mem.receipt.checkpoint = run.checkpoint
      BY <1>0, RunFacts
    <3> QED BY <1>0, <1>4, <2>1, <2>2, <2>3, <3>1 DEF InStep, BoundHere, At, Unfinished
  <2>5. Planned'
    BY <2>1, <2>3 DEF Planned
  <2>6. run'.id \in Nat
    BY DEF TypeOK, Runs
  <2> QED BY <1>0, <1>3, <1>4, <2>1, <2>2, <2>4, <2>5, <2>6, RunFacts, RunFrame DEF Pcs, ApplyPcs
<1>5. ASSUME UNCHANGED server PROVE mem'.page \subseteq mem.page => RunForward
  BY <1>0, <1>3, <1>5, QuietForward
<1>6. ASSUME NEW c, RestartRun(journal, c), RunForward PROVE SafetyInv'
  BY <1>0, <1>6, RunFacts, RestartKeeps
<1>7. mem'.page = mem.page
  BY <1>0, RunFacts DEF RunPage, RestartRun, RepairBlocked, Settled, Memories
<1>8. CASE journal.bound # None /\ UNCHANGED server
  <2>1. run.entries # None
    BY <1>0, <1>8, RunFacts
  <2> QED BY <1>4, <1>5, <1>6, <1>7, <1>8, <2>1 DEF RunPage, server
<1>9. CASE journal.bound = None /\ mem.receipt.paged
  BY <1>0, <1>4, <1>5, <1>7, <1>9 DEF RunPage, server
<1>10. CASE journal.bound = None /\ ~mem.receipt.paged
  <2>1. AppendPage(k)
    BY <1>1, <1>10 DEF RunPage
  <2>2. /\ RunForward /\ run'.id = run.id /\ run'.checkpoint = run.checkpoint
        /\ run'.state = run.state /\ (run.state = "collecting" => run'.entries # None)
    BY <1>3, <2>1, AppendForward
  <2> QED BY <1>4, <1>6, <1>10, <2>2 DEF RunPage
<1> QED BY <1>8, <1>9, <1>10 DEF RunPage

LEMMA RunFinalizeKeeps ==
    ASSUME SafetyInv, TypeOK', RunFinalize
    PROVE  SafetyInv'
<1> USE DEF SafetyInv
<1>0. /\ mem.pc = "finalize" /\ mem.pc \in RunPcs /\ UNCHANGED vault
      /\ (Unfinished \/ run.state = "expired") /\ BoundHere /\ run.entries # None
      /\ FinalizeManifest(Capture)
  BY DEF RunFinalize, At, RunPcs, InStep, InRun
<1>1. journal'.known = journal.known
  BY <1>0, RunFacts, DiscardedFields, BarredFields, JournalShape DEF RunFinalize, RestartRun
<1>2. /\ RunForward /\ run'.id = run.id /\ run'.checkpoint = run.checkpoint
      /\ run'.entries = run.entries
      /\ run.state # "collecting" => run'.state = run.state
      /\ run.state = "collecting" /\ run.entries = Capture => run'.state = "planned"
  BY <1>0, <1>1, FinalizeForward
<1>3. ASSUME NEW c, RestartRun(journal, c) PROVE SafetyInv'
  BY <1>0, <1>2, <1>3, RunFacts, RestartKeeps
<1>4. CASE /\ run.state # "expired" /\ run.entries = Capture
           /\ mem' = [mem EXCEPT !.pc = "list"] /\ UNCHANGED journal
  <2>1. mem'.pc = "list" /\ mem'.page = mem.page /\ mem'.receipt = mem.receipt
    BY <1>0, <1>4, RunFacts DEF Memories
  <2>2. ~Repairing' /\ InRun'
    BY <2>1 DEF Repairing, InRun, Working, ApplyPcs, RunPcs
  <2>3. BoundHere /\ BoundHere' /\ run.entries # None
    BY <1>0, <1>2, <1>4 DEF BoundHere, InStep, InRun, At
  <2>4. run'.state \in {"planned", "applying"}
    BY <1>0, <1>2, <1>4 DEF Unfinished
  <2>5. InStep'
    <3>1. mem.receipt # None /\ mem.receipt.id = run.id /\ mem.receipt.checkpoint = run.checkpoint
      BY <1>0, RunFacts
    <3> QED BY <1>2, <2>1, <2>2, <2>3, <2>4, <3>1 DEF InStep, At
  <2>6. Planned'
    <3>1. /\ run'.plan # None /\ run'.entries = Capture
      BY <1>2, <1>4, <2>4 DEF RunForward, RunMade
    <3>2. \A s \in Sources : /\ run'.entries[s].base = journal.known[s]
                             /\ run'.entries[s].have = vault[s] /\ vault[s] \in Nat
      BY <1>0, <3>1, RunFacts DEF Capture
    <3> QED BY <1>0, <1>4, <2>3, <3>1, <3>2 DEF Planned, Unplaced
  <2>7. journal.bound # None =>
          /\ journal.bound.id <= run'.id
          /\ journal.bound.id = run'.id => run'.entries # None
    BY <1>2, <2>3 DEF BarrierOK
  <2>8. journal.bound = None => journal.done = {}
    BY DEF BarrierOK
  <2> QED
    BY <1>0, <1>2, <1>4, <2>1, <2>5, <2>6, <2>7, <2>8, RunFacts, RunFrame DEF Pcs, ApplyPcs, Barrier
<1> QED BY <1>3, <1>4 DEF RunFinalize

\* The run goes on to p with the manifest it has.
LEMMA PlanGoesOn ==
    ASSUME SafetyInv, TypeOK', mem.pc \in {"list", "actions", "complete"}, RunForward,
           UNCHANGED vault, run'.id = run.id, run'.checkpoint = run.checkpoint,
           run'.entries = run.entries, run'.plan = run.plan,
           mem'.pc \in {"actions", "complete", "completed"}, mem'.page = mem.page,
           mem'.receipt = mem.receipt,
           mem'.pc = "completed" => run'.state = "completed" /\ run'.checkpoint <= acked',
           mem'.pc # "completed" => run'.state \in {"applying", "expired"},
           journal'.rows = journal.rows, journal'.applied = journal.applied,
           journal'.acked = journal.acked, journal'.known = journal.known,
           journal'.barrier = journal.barrier, journal'.bound = journal.bound,
           journal.done \subseteq journal'.done
    PROVE  SafetyInv'
<1> USE DEF SafetyInv
<1>1. mem.pc \in RunPcs
  BY DEF RunPcs
<1>2. ~Repairing' /\ InRun'
  BY DEF Repairing, InRun, Working, ApplyPcs, RunPcs
<1>3. BoundHere /\ BoundHere' /\ Barrier /\ ~Repairing
  BY <1>1, RunFacts DEF Planned, BoundHere
<1>4. InStep'
  <2>1. mem.receipt # None /\ mem.receipt.id = run.id /\ mem.receipt.checkpoint = run.checkpoint
    BY <1>1, RunFacts
  <2> QED BY <1>2, <1>3, <2>1 DEF InStep, At
<1>5. Planned'
  <2>1. Unplaced' \subseteq Unplaced
    BY <1>2, <1>3 DEF Unplaced
  <2> QED BY <1>2, <1>3, <2>1 DEF Planned
<1>6. journal.bound # None /\ journal.bound.id = run.id /\ run.id \in Nat /\ run.entries # None
  BY <1>1, <1>3, RunFacts DEF BoundHere, Runs
<1> QED BY <1>3, <1>4, <1>5, <1>6, RunFrame DEF Pcs, ApplyPcs, Barrier

LEMMA RunListKeeps ==
    ASSUME SafetyInv, TypeOK', RunList
    PROVE  SafetyInv'
<1> USE DEF SafetyInv
<1>0. /\ mem.pc = "list" /\ mem.pc \in RunPcs /\ UNCHANGED vault /\ ListActions
      /\ run.state \in {"planned", "applying", "expired"}
  BY DEF RunList, At, RunPcs, InStep, InRun
<1>1. journal'.known = journal.known
  BY <1>0, RunFacts, DiscardedFields, BarredFields, JournalShape DEF RunList, RestartRun
<1>2. /\ RunForward /\ run'.id = run.id /\ run'.checkpoint = run.checkpoint
      /\ run'.entries = run.entries /\ run'.plan = run.plan
      /\ run.state = "planned" => run'.state = "applying"
      /\ run.state # "planned" => run'.state = run.state
  BY <1>0, <1>1, ListForward
<1>3. ASSUME NEW c, RestartRun(journal, c) PROVE SafetyInv'
  BY <1>0, <1>2, <1>3, RunFacts, RestartKeeps
<1>4. CASE /\ mem' = [mem EXCEPT !.pc = "actions", !.tried = journal.attempted] /\ UNCHANGED journal
  <2>1. mem'.pc = "actions" /\ mem'.page = mem.page /\ mem'.receipt = mem.receipt
    BY <1>0, <1>4, RunFacts DEF Memories
  <2> QED BY <1>0, <1>2, <1>4, <2>1, PlanGoesOn
<1> QED BY <1>3, <1>4 DEF RunList

\* A placement takes the next number, under the checkpoint, for a file that is behind.
LEMMA RunActionKeeps ==
    ASSUME SafetyInv, TypeOK', NEW s \in Sources, RunAction(s)
    PROVE  SafetyInv'
<1> USE DEF SafetyInv
<1>0. /\ mem.pc = "actions" /\ mem.pc \in RunPcs /\ UNCHANGED <<server, vault>>
      /\ run.state \in {"applying", "expired"} /\ NextAction(s)
  BY DEF RunAction, At, RunPcs, InStep, InRun
<1>1. /\ mem \in Memories /\ journal \in Journals /\ run \in Runs /\ journal.applied \in Nat
      /\ Barrier /\ ~Repairing /\ ~Working
      /\ mem.receipt # None /\ mem.receipt.id = run.id /\ mem.receipt.checkpoint = run.checkpoint
  BY <1>0, RunFacts, BoundsAssumption DEF Journals, Sequences
<1>2. /\ BoundHere /\ run.plan # None
      /\ \A q \in Sources : /\ run.entries[q].base = journal.known[q]
                            /\ run.entries[q].have <= vault[q]
      /\ \A q \in Unplaced : run.entries[q].have = vault[q]
  BY <1>0 DEF Planned
<1>3. PICK j : j = [journal EXCEPT !.attempted = @ \cup {s}]
  OBVIOUS
<1>4. /\ j \in Journals /\ j.rows = journal.rows /\ j.applied = journal.applied
      /\ j.acked = journal.acked /\ j.known = journal.known /\ j.barrier = journal.barrier
      /\ j.bound = journal.bound /\ j.done = journal.done
  BY <1>1, <1>3 DEF Journals
<1>5. PICK v : v = VersionAt(s, mem.receipt.checkpoint)
  OBVIOUS
<1>6. CASE /\ ActionFits(journal.applied + 1) /\ journal' = j
           /\ mem' = [mem EXCEPT !.pc = "fetch",
                 !.evt = [lane |-> "repair", id |-> <<mem.receipt.id, s>>,
                          seq |-> journal.applied + 1,
                          source |-> s, version |-> VersionAt(s, mem.receipt.checkpoint),
                          base |-> vault[s]]]
  <2>1. /\ mem'.pc = "fetch" /\ mem'.page = mem.page /\ mem'.receipt = mem.receipt
        /\ mem'.evt = [lane |-> "repair", id |-> <<mem.receipt.id, s>>,
                       seq |-> journal.applied + 1, source |-> s, version |-> v,
                       base |-> vault[s]]
    BY <1>1, <1>5, <1>6 DEF Memories
  <2>2. /\ mem'.evt.lane = "repair" /\ mem'.evt.seq = journal.applied + 1
        /\ mem'.evt.source = s /\ mem'.evt.version = v /\ mem'.evt.base = vault[s]
    BY <2>1
  <2>3. vault[s] < v
    <3>1. run.plan[s] = "download" /\ s \notin journal.done
      BY <1>0 DEF NextAction, Pending
    <3>2. run.entries[s].have = vault[s]
      BY <1>1, <1>2, <3>1 DEF Unplaced
    <3> QED BY <1>1, <1>2, <1>5, <3>1, <3>2 DEF RunMade
  <2>4. mem'.evt # None
    <3>1. mem'.evt \in Applies
      <4>1. /\ mem.receipt \in Receipts /\ v \in Versions /\ vault[s] \in Versions
        BY <1>1, <1>5, VersionAtIs DEF TypeOK, Memories
      <4>2. journal.applied + 1 \in Sequences
        <5>1. journal.applied + 1 <= mem.receipt.checkpoint /\ mem.receipt.checkpoint \in Sequences
          BY <1>6, <4>1 DEF ActionFits, Receipts
        <5> QED BY <1>1, <5>1, BoundsAssumption DEF Sequences
      <4>3. s \in Nat /\ mem.receipt.id \in Nat
        BY <4>1, SourcesAssumption DEF Receipts
      <4> QED BY <2>1, <4>1, <4>2, <4>3 DEF Applies
    <3> QED BY <3>1, NoneAssumption
  <2>5. journal.applied + 1 <= run.checkpoint
    BY <1>1, <1>6 DEF ActionFits
  <2>6. Working' /\ Repairing' /\ InRun'
    BY <2>1, <2>2 DEF Working, Repairing, InRun, ApplyPcs
  <2>7. Numbered' /\ PageOK' /\ KnownOK' /\ RunMade'
    <3>1. \A q \in Sources : vault'[q] >= vault[q]
      BY <1>0, BoundsAssumption DEF TypeOK, Versions
    <3> QED BY <1>0, <1>4, <1>6, <2>1, <3>1, DeviceFrame
  <2>8. RowsOK'
    BY <1>0, <1>4, <1>6 DEF server, RowsOK, RowsFit, RowFits, RowFrom, IsEvent
  <2>9. WorkKept'
    BY <1>0, <1>4, <1>6, <2>1, <2>2, <2>3, <2>4, <2>5 DEF server, WorkKept, WorkOK, At
  <2>10. BarrierOK'
    BY <1>0, <1>1, <1>4, <1>6 DEF server, BarrierOK, Barrier
  <2>11. InStep'
    BY <1>0, <1>1, <1>2, <1>4, <1>6, <2>1, <2>6 DEF server, InStep, At, BoundHere
  <2>12. Planned'
    <3>1. Unplaced' \subseteq Unplaced
      BY <1>1, <1>4, <1>6, <2>2, <2>6 DEF Unplaced
    <3> QED BY <1>0, <1>2, <1>4, <1>6, <3>1 DEF server, Planned, BoundHere
  <2>13. Debt'
    BY <1>0, <1>1, <1>4, <1>6 DEF server, Debt, Barrier
  <2> QED BY <2>7, <2>8, <2>9, <2>10, <2>11, <2>12, <2>13
<1>7. ASSUME mem'.page = mem.page, journal'.known = journal.known PROVE RunForward
  BY <1>0, <1>7, QuietForward
<1>8. CASE journal' = [j EXCEPT !.gap = TRUE, !.done = @ \cup {s}] /\ UNCHANGED mem
  <2>1. /\ journal'.rows = j.rows /\ journal'.applied = j.applied /\ journal'.acked = j.acked
        /\ journal'.known = j.known /\ journal'.barrier = j.barrier /\ journal'.bound = j.bound
        /\ j.done \subseteq journal'.done
    BY <1>4, <1>8 DEF Journals
  <2> QED BY <1>0, <1>4, <1>7, <1>8, <2>1, PlanGoesOn DEF server
<1>9. CASE journal' = Discarded(j) /\ mem' = [mem EXCEPT !.pc = "close"]
  <2>1. /\ journal'.rows = j.rows /\ journal'.applied = j.applied /\ journal'.acked = j.acked
        /\ journal'.known = j.known /\ journal'.barrier = j.barrier
        /\ journal'.bound = None /\ journal'.done = {}
    BY <1>4, <1>9, DiscardedFields
  <2>2. /\ mem'.pc = "close" /\ mem'.page = mem.page /\ mem'.receipt = mem.receipt
    BY <1>1, <1>9 DEF Memories
  <2>3. InStep' /\ Planned'
    BY <1>0, <1>1, <2>1, <2>2 DEF server, InStep, Planned, Repairing, Working, ApplyPcs, At, InRun
  <2> QED BY <1>0, <1>1, <1>4, <1>7, <2>1, <2>2, <2>3, RunFrame DEF Pcs, ApplyPcs, Barrier
<1>10. CASE journal' = [j EXCEPT !.gap = TRUE] /\ mem' = RepairBlocked
  <2>1. /\ journal'.rows = j.rows /\ journal'.applied = j.applied /\ journal'.acked = j.acked
        /\ journal'.known = j.known /\ journal'.barrier = j.barrier
        /\ journal'.bound = j.bound /\ journal'.done = j.done
    BY <1>4, <1>10 DEF Journals
  <2>2. /\ mem'.pc = "outbound" /\ mem'.page = mem.page
    BY <1>1, <1>10 DEF RepairBlocked, Settled, Memories
  <2>3. InStep' /\ Planned'
    BY <2>2 DEF InStep, Planned, Repairing, Working, ApplyPcs, RunPcs, InRun
  <2>4. /\ journal'.bound # None =>
             /\ journal'.bound.id <= run'.id
             /\ journal'.bound.id = run'.id => run'.entries # None
        /\ journal'.bound = None => journal'.done = {}
    BY <1>0, <1>4, <2>1 DEF BarrierOK, server
  <2> QED BY <1>0, <1>1, <1>4, <1>7, <2>1, <2>2, <2>3, <2>4, RunFrame DEF Pcs, ApplyPcs, Barrier
<1> QED BY <1>3, <1>6, <1>8, <1>9, <1>10 DEF RunAction

LEMMA ActionsDoneKeeps ==
    ASSUME SafetyInv, TypeOK', RunActionsDone
    PROVE  SafetyInv'
<1> USE DEF SafetyInv
<1>0. /\ mem.pc = "actions" /\ mem.pc \in RunPcs /\ UNCHANGED <<server, vault, journal>>
      /\ run.state \in {"applying", "expired"}
  BY DEF RunActionsDone, At, RunPcs, InStep, InRun
<1>1. mem'.pc = "complete" /\ mem'.page = mem.page /\ mem'.receipt = mem.receipt
  BY <1>0, RunFacts DEF RunActionsDone, Memories
<1>2. RunForward
  BY <1>0, <1>1, QuietForward
<1> QED BY <1>0, <1>1, <1>2, PlanGoesOn DEF server

\* The completion of a run, applied or given up.
LEMMA RunEndKeeps ==
    ASSUME SafetyInv, TypeOK', RunClose \/ RunComplete
    PROVE  SafetyInv'
<1> USE DEF SafetyInv
<1>0. /\ mem.pc \in {"close", "complete"} /\ mem.pc \in RunPcs /\ UNCHANGED vault
      /\ CompleteManifest /\ run.state \in {"applying", "expired"}
  BY DEF RunClose, RunComplete, At, RunPcs, InStep, InRun
<1>1. journal'.known = journal.known
  BY <1>0, RunFacts, DiscardedFields, BarredFields, JournalShape DEF RunClose, RunComplete, RestartRun
<1>2. /\ RunForward /\ run'.id = run.id /\ run'.checkpoint = run.checkpoint
      /\ run'.entries = run.entries
      /\ run.state = "applying" => run'.state = "completed" /\ run'.checkpoint <= acked'
  BY <1>0, <1>1, CompleteForward
<1>3. CASE RestartRun(journal, FALSE)
  BY <1>0, <1>2, <1>3, RunFacts, RestartKeeps
<1>4. CASE /\ mem.pc = "complete" /\ run.state = "applying"
           /\ mem' = [mem EXCEPT !.pc = "completed"] /\ UNCHANGED journal
  <2>1. mem'.pc = "completed" /\ mem'.page = mem.page /\ mem'.receipt = mem.receipt
    BY <1>0, <1>4, RunFacts DEF Memories
  <2>2. run'.plan = run.plan
    BY <1>0, <1>4, RunFacts DEF CompleteManifest, Runs
  <2> QED BY <1>0, <1>2, <1>4, <2>1, <2>2, PlanGoesOn
<1> QED BY <1>0, <1>3, <1>4 DEF RunClose, RunComplete, At

\* Both local cursors move to the checkpoint, which the server has acknowledged.
LEMMA RunCompletedKeeps ==
    ASSUME SafetyInv, TypeOK', RunCompleted
    PROVE  SafetyInv'
<1> USE DEF SafetyInv
<1>0. /\ mem.pc = "completed" /\ mem.pc \in RunPcs /\ UNCHANGED <<server, vault>>
      /\ run.state = "completed" /\ run.checkpoint <= acked
  BY DEF RunCompleted, At, RunPcs, InStep, InRun
<1>1. PICK c : c = mem.receipt.checkpoint
  OBVIOUS
<1>2. /\ mem \in Memories /\ journal \in Journals /\ c = run.checkpoint /\ c \in Sequences
      /\ c \in Nat /\ journal.applied \in Nat /\ acked \in Nat /\ delivered \in Nat /\ Barrier
  BY <1>0, <1>1, RunFacts, BoundsAssumption DEF TypeOK, Runs, Journals, Sequences
<1>3. CASE journal' = Blocked(journal, FALSE) /\ mem' = RepairBlocked
  BY <1>0, <1>3, BlockedKeeps
<1>4. CASE /\ journal.applied <= c
           /\ journal' = [Acknowledged(Discarded(journal), c) EXCEPT
                                 !.applied = c, !.barrier = None, !.gap = FALSE]
           /\ mem' = [Settled EXCEPT !.blocked = FALSE, !.retries = 0]
  <2>1. PICK j \in Journals : j = Acknowledged(Discarded(journal), c)
    BY <1>2, JournalShape
  <2>2. /\ j.rows \subseteq journal.rows /\ j.acked = c /\ j.known = journal.known
        /\ j.bound = None /\ j.done = {}
    <3>1. PICK d \in Journals : d = Discarded(journal)
      BY <1>2, JournalShape
    <3>2. d.rows = journal.rows /\ d.known = journal.known /\ d.bound = None /\ d.done = {}
      BY <1>2, <3>1, DiscardedFields
    <3> QED BY <1>2, <2>1, <3>1, <3>2, AcknowledgedFields
  <2>3. journal' = [j EXCEPT !.applied = c, !.barrier = None, !.gap = FALSE]
    BY <1>4, <2>1
  <2>4. /\ journal'.rows \subseteq journal.rows /\ journal'.acked = c /\ journal'.applied = c
        /\ journal'.known = journal.known /\ journal'.barrier = None
        /\ journal'.bound = None /\ journal'.done = {}
    BY <2>2, <2>3 DEF Journals
  <2>5. mem'.pc = "outbound" /\ mem'.page = mem.page
    BY <1>2, <1>4 DEF Settled, Memories
  <2>6. acked = c
    BY <1>0, <1>2, <1>4 DEF Debt
  <2>7. RowsOK'
    <3>1. PICK k \in Journals : k = journal'
      BY DEF TypeOK
    <3>2. RowsFit(k)
      BY <1>2, <1>4, <2>4, <3>1, SameRowsFit DEF RowsOK
    <3> QED BY <1>0, <3>1, <3>2, NewRowsFit
  <2>8. Numbered' /\ PageOK' /\ KnownOK' /\ RunMade'
    <3>1. \A q \in Sources : vault'[q] >= vault[q]
      BY <1>0, BoundsAssumption DEF TypeOK, Versions
    <3> QED BY <1>0, <2>4, <2>5, <3>1, DeviceFrame
  <2>9. ~Working' /\ ~InRun' /\ ~Owed' /\ mem'.pc # "start"
    BY <1>2, <2>4, <2>5 DEF Working, InRun, Repairing, ApplyPcs, RunPcs, Owed
  <2>10. BarrierOK'
    BY <1>0, <1>2, <2>4, <2>6, <2>9 DEF server, BarrierOK, Barrier, Unfinished, At
  <2>11. Debt'
    <3>1. acked <= delivered
      BY DEF Numbered
    <3> QED BY <1>0, <1>2, <2>4, <2>5, <2>6, <2>9, <3>1 DEF server, Debt, Barrier
  <2> QED BY <2>5, <2>7, <2>8, <2>10, <2>11, RestFrame DEF RestingPcs, Pcs, ApplyPcs, RunPcs
<1>5. IF c < journal.applied
        THEN journal' = Blocked(journal, FALSE) /\ mem' = RepairBlocked
        ELSE /\ journal' = [Acknowledged(Discarded(journal), c) EXCEPT
                                 !.applied = c, !.barrier = None, !.gap = FALSE]
             /\ mem' = [Settled EXCEPT !.blocked = FALSE, !.retries = 0]
  BY <1>1 DEF RunCompleted
<1>6. journal.applied <= c \/ c < journal.applied
  BY <1>2
<1> QED BY <1>3, <1>4, <1>5, <1>6

LEMMA CallLostKeeps ==
    ASSUME SafetyInv, TypeOK', ManifestCallLost
    PROVE  SafetyInv'
<1> USE DEF SafetyInv
<1>0. /\ mem.pc \in {"start", "page", "finalize", "list", "close", "complete"}
      /\ UNCHANGED <<vault, journal>> /\ mem' = RepairRetried
      /\ mem \in Memories /\ Barrier
  BY DEF ManifestCallLost, TypeOK, BarrierOK, At, InRun, RunPcs
<1>1. mem'.pc \in {"idle", "outbound"} /\ mem'.page \subseteq mem.page
  BY <1>0 DEF RepairRetried, Settled, Idle, Memories
<1>2. PICK k \in Manifests : k = Capture
  BY CaptureShape
<1>3. PICK g : g = journal.barrier
  OBVIOUS
<1>4. RunForward
  <2>1. CASE UNCHANGED server
    BY <1>0, <1>1, <2>1, QuietForward
  <2>2. CASE StartManifest(g)
    BY <1>0, <2>2, StartForward
  <2>3. CASE AppendPage(k)
    BY <1>0, <2>3, AppendForward
  <2>4. CASE FinalizeManifest(Capture)
    BY <1>0, <2>4, FinalizeForward
  <2>5. CASE ListActions
    BY <1>0, <2>5, ListForward
  <2>6. CASE CompleteManifest
    BY <1>0, <2>6, CompleteForward
  <2> QED BY <1>2, <1>3, <2>1, <2>2, <2>3, <2>4, <2>5, <2>6 DEF ManifestCallLost
<1>5. InStep' /\ Planned'
  BY <1>1 DEF InStep, Planned, InRun, Repairing, Working, RunPcs, ApplyPcs
<1>6. journal.bound # None =>
        /\ journal.bound.id <= run'.id
        /\ journal.bound.id = run'.id => run'.entries # None
  <2> SUFFICES ASSUME journal.bound # None
               PROVE  /\ journal.bound.id <= run'.id
                      /\ journal.bound.id = run'.id => run'.entries # None
    OBVIOUS
  <2>1. journal.bound.id \in Nat /\ run.id \in Nat /\ run'.id \in Nat
    BY DEF TypeOK, Journals, Bounds, Runs
  <2> QED BY <1>4, <2>1 DEF RunForward, BarrierOK
<1>7. journal.bound = None => journal.done = {}
  BY DEF BarrierOK
<1> QED BY <1>0, <1>1, <1>4, <1>5, <1>6, <1>7, RunFrame DEF Pcs, ApplyPcs, Barrier
-------------------------------------------------------------------------------
(* The acknowledgement, the pull and the upload.                           *)

LEMMA AckKeeps ==
    ASSUME SafetyInv, TypeOK', AckOwed \/ AckLost
    PROVE  SafetyInv'
<1> USE DEF SafetyInv
<1>0. /\ mem \in Memories /\ journal \in Journals /\ mem.pc \in {"ack", "ack_page"} /\ Owed
      /\ UNCHANGED vault
      /\ journal.applied \in Nat /\ journal.acked \in Nat /\ acked \in Nat /\ delivered \in Nat
      /\ run.checkpoint \in Nat
  BY BoundsAssumption DEF TypeOK, AckOwed, AckLost, Journals, Sequences, Runs
<1>1. CASE UNCHANGED <<server, journal>> /\ mem' = Idle
  BY <1>0, <1>1, FailedFrame
<1>2. CASE UNCHANGED <<acked, log, nextSeq, inflight, delivered, run, journal>> /\ mem' = Idle
  BY <1>1, <1>2 DEF server
<1>3. ASSUME acked' = journal.applied, journal.applied \in acked .. delivered,
             UNCHANGED <<log, nextSeq, inflight, delivered, run>>,
             mem'.pc \in {"idle", "pull"}, mem'.page \subseteq mem.page,
             journal'.rows \subseteq journal.rows, journal'.applied = journal.applied,
             journal'.known = journal.known, journal'.barrier = journal.barrier,
             journal'.bound = journal.bound, journal'.done = journal.done,
             \/ journal'.acked = journal.applied
             \/ journal' = journal /\ mem'.pc = "idle"
      PROVE  SafetyInv'
  <2>1. RowsOK'
    <3>1. PICK j \in Journals : j = journal'
      BY DEF TypeOK
    <3>2. RowsFit(j)
      BY <1>0, <1>3, <3>1, SameRowsFit DEF RowsOK
    <3> QED BY <1>0, <1>3, <3>1, <3>2, RowsStay
  <2>2. Numbered'
    BY <1>0, <1>3 DEF Numbered
  <2>3. RunMade'
    BY <1>3, RunStays
  <2>4. KnownOK' /\ PageOK'
    BY <1>0, <1>3 DEF KnownOK, PageOK
  <2>5. BarrierOK'
    BY <1>0, <1>3 DEF BarrierOK, Barrier, InRun, RunPcs, Repairing, Working, ApplyPcs, At, Unfinished
  <2>6. ~Barrier => (journal' = journal => Guarded) /\ journal.applied <= delivered
    BY <1>0 DEF Debt
  <2>7. Debt'
    <3>1. ~Working' /\ (Barrier' <=> Barrier)
      BY <1>3 DEF Working, ApplyPcs, Barrier
    <3>2. journal'.acked \in Nat /\ journal.acked <= journal.applied
      BY <1>0, <1>3 DEF Debt
    <3>3. journal' = journal => (Guarded' <=> Guarded)
      BY DEF Guarded
    <3>4. Owed' => journal' = journal
      BY <1>0, <1>3 DEF Owed
    <3> QED BY <1>0, <1>3, <2>6, <3>1, <3>2, <3>3, <3>4 DEF Debt
  <2> QED BY <1>3, <2>1, <2>2, <2>3, <2>4, <2>5, <2>7, RestFrame DEF RestingPcs, Pcs, ApplyPcs, RunPcs
<1>4. CASE AckAccepted(journal.acked, journal.applied)
           /\ AcknowledgeCursor(journal.acked, journal.applied)
  <2>1. /\ acked' = journal.applied /\ journal.applied \in acked .. delivered
        /\ UNCHANGED <<log, nextSeq, inflight, delivered, run>>
    BY <1>4 DEF AcknowledgeCursor, AckAccepted
  <2>2. CASE journal' = Acknowledged(journal, journal.applied) /\ mem' = AfterAck
    <3>1. PICK n \in Sequences : n = journal.applied
      BY <1>0 DEF Journals
    <3>2. /\ journal'.rows \subseteq journal.rows /\ journal'.applied = journal.applied
          /\ journal'.known = journal.known /\ journal'.barrier = journal.barrier
          /\ journal'.bound = journal.bound /\ journal'.done = journal.done
          /\ journal'.acked = journal.applied
      BY <1>0, <2>2, <3>1, AcknowledgedFields
    <3>3. mem'.pc \in {"idle", "pull"} /\ mem'.page \subseteq mem.page
      BY <1>0, <2>2 DEF AfterAck, Idle, Memories
    <3> QED BY <1>3, <2>1, <3>2, <3>3
  <2>3. CASE UNCHANGED journal /\ mem' = Idle
    <3>1. mem'.pc = "idle" /\ mem'.page \subseteq mem.page
      BY <1>0, <2>3 DEF Idle, Memories
    <3> QED BY <1>3, <2>1, <2>3, <3>1
  <2> QED BY <1>4, <2>2, <2>3 DEF AckOwed, AckLost
<1>5. CASE ~AckAccepted(journal.acked, journal.applied)
           /\ AcknowledgeCursor(journal.acked, journal.applied)
  <2>1. UNCHANGED <<acked, log, nextSeq, inflight, delivered, run>>
    BY <1>5 DEF AcknowledgeCursor
  <2>2. UNCHANGED journal /\ mem' = Idle
    BY <1>5 DEF AckOwed, AckLost
  <2> QED BY <1>0, <1>2, <2>1, <2>2
<1> QED BY <1>1, <1>4, <1>5 DEF AckOwed, AckLost

LEMMA PullKeepsSafety ==
    ASSUME SafetyInv, TypeOK', Pull \/ PullLost
    PROVE  SafetyInv'
<1> USE DEF SafetyInv
<1>0. /\ mem \in Memories /\ journal \in Journals /\ mem.pc = "pull" /\ UNCHANGED <<vault, journal>>
      /\ acked \in Nat /\ delivered \in Nat /\ run.checkpoint \in Nat /\ journal.applied \in Nat
      /\ log \subseteq Events /\ \A e \in Events : e.seq \in Nat
  BY BoundsAssumption DEF TypeOK, Pull, PullLost, At, Sequences, Runs, Journals, Events
<1>1. CASE UNCHANGED server /\ mem' = Idle
  BY <1>0, <1>1, FailedFrame
<1>2. CASE PullEvents /\ (mem' = Idle \/ mem' = [mem EXCEPT !.pc = "apply", !.page = Page])
  <2>0. \A e \in Page : e \in log /\ e.version > 0 /\ e.seq > delivered
    BY Zenon DEF Page, Deliverables
  <2>1. PICK n \in {delivered} \cup {e.seq : e \in Page} :
           delivered' = n /\ \A e \in Page : e.seq <= n
    BY <1>2 DEF PullEvents
  <2>2. /\ delivered <= delivered' /\ delivered' \in Nat
        /\ UNCHANGED <<log, nextSeq, inflight, acked, run>>
    <3>1. n \in Nat /\ delivered <= n
      BY <1>0, <2>0, <2>1
    <3> QED BY <1>2, <2>1, <3>1 DEF PullEvents
  <2>3. /\ mem'.pc \in {"idle", "apply"} /\ mem'.page \subseteq Page
    BY <1>0, <1>2 DEF Idle, Memories
  <2>4. PageOK'
    BY <2>0, <2>1, <2>2, <2>3 DEF PageOK
  <2>5. RowsOK'
    <3>1. PICK j \in Journals : j = journal'
      BY DEF TypeOK
    <3> QED BY <1>0, <2>2, <3>1, RowsStay DEF RowsOK
  <2>6. RunMade'
    BY <1>0, <2>2, RunStays
  <2>7. Numbered' /\ KnownOK'
    BY <1>0, <2>2 DEF Numbered, KnownOK
  <2>8. BarrierOK'
    BY <1>0, <2>2, <2>3
    DEF BarrierOK, Barrier, InRun, RunPcs, Repairing, Working, ApplyPcs, At, Unfinished
  <2>9. Debt'
    <3>1. ~Working'
      BY <2>3 DEF Working, ApplyPcs
    <3> QED BY <1>0, <2>2, <2>3, <3>1 DEF Debt, Barrier, Guarded, Owed
  <2> QED BY <2>3, <2>4, <2>5, <2>6, <2>7, <2>8, <2>9, RestFrame DEF RestingPcs, Pcs, ApplyPcs, RunPcs
<1> QED BY <1>1, <1>2 DEF Pull, PullLost

LEMMA UploadKeeps ==
    ASSUME SafetyInv, TypeOK', NEW s \in Sources, Upload(s)
    PROVE  SafetyInv' /\ \A q \in Sources : vault'[q] >= vault[q]
<1> USE DEF SafetyInv
<1>0. /\ mem.pc = "outbound" /\ journal \in Journals /\ ~Barrier /\ journal.bound = None
      /\ inflight = None /\ UNCHANGED <<inflight, acked, delivered, run, mem>>
      /\ nextSeq \in Nat /\ nextSeq > 0 /\ vault \in [Sources -> Nat]
      /\ acked \in Nat /\ delivered \in Nat /\ run.checkpoint \in Nat
      /\ log \subseteq Events
      /\ \A e \in Events : e.seq \in Nat /\ e.version \in Nat /\ e.source \in Sources
  BY BoundsAssumption DEF Upload, TypeOK, At, RepairOwed, Barrier, Versions, Events, Sequences, Runs
<1>1. PICK e : e = [seq |-> nextSeq, source |-> s, version |-> vault[s] + 1, own |-> TRUE]
  OBVIOUS
<1>2. /\ log' = log \cup {e} /\ nextSeq' = nextSeq + 1 /\ e.seq = nextSeq /\ e.source = s
      /\ e.version = vault[s] + 1 /\ vault' = [vault EXCEPT ![s] = @ + 1]
      /\ journal' = [journal EXCEPT !.known[s] = vault[s] + 1]
  BY <1>1 DEF Upload
<1>3. /\ journal'.rows = journal.rows /\ journal'.applied = journal.applied
      /\ journal'.acked = journal.acked /\ journal'.barrier = journal.barrier
      /\ journal'.bound = journal.bound /\ journal'.done = journal.done
      /\ journal'.known = [journal.known EXCEPT ![s] = vault[s] + 1]
      /\ journal.known \in [Sources -> Nat]
  BY <1>0, <1>2, BoundsAssumption DEF Journals, Versions
<1>4. \A q \in Sources : vault'[q] >= vault[q]
  BY <1>0, <1>2
<1>5. e.version <= nextSeq
  <2>1. Canonical(s) \in Nat /\ Canonical(s) < nextSeq
    BY <1>0, VersionAtIs, BoundsAssumption DEF Canonical, Versions, Numbered
  <2>2. vault[s] = Canonical(s)
    BY DEF Upload
  <2> QED BY <1>0, <1>2, <2>1, <2>2
<1>6. Numbered'
  <2>1. /\ \A f \in log : f.version <= f.seq /\ f.seq < nextSeq
        /\ \A f, g \in log : f.seq = g.seq => f = g
    BY DEF Numbered
  <2>2. /\ \A f \in log' : f.version <= f.seq /\ f.seq < nextSeq'
        /\ \A f, g \in log' : f.seq = g.seq => f = g
    BY <1>0, <1>2, <1>5, <2>1
  <2>3. acked <= delivered /\ (run.checkpoint <= acked \/ \E f \in log' : f.seq = run.checkpoint)
    BY <1>2 DEF Numbered
  <2> QED BY <1>0, <2>2, <2>3 DEF Numbered
<1>7. KnownOK'
  <2>1. ASSUME NEW q \in Sources
        PROVE  /\ journal'.known[q] <= vault'[q]
               /\ journal'.known[q] # 0 =>
                     \E f \in log' : f.source = q /\ f.version = journal'.known[q]
    <3>1. CASE q = s
      BY <1>0, <1>2, <1>3, <3>1
    <3>2. CASE q # s
      BY <1>0, <1>2, <1>3, <3>2 DEF KnownOK
    <3> QED BY <3>1, <3>2
  <2> QED BY <2>1 DEF KnownOK
<1>8. RunMade'
  <2>1. ~Unfinished /\ ~Unfinished'
    BY <1>0 DEF BarrierOK, Unfinished
  <2>2. PICK c : c = run.checkpoint
    OBVIOUS
  <2>3. \A q : /\ VersionAt(q, c) <= VersionAt(q, c)'
               /\ VersionAt(q, c) \in Nat /\ VersionAt(q, c)' \in Nat
    BY <1>2, VersionGrows
  <2>4. \A q : /\ VersionAt(q, run.checkpoint) = VersionAt(q, c)
               /\ VersionAt(q, run.checkpoint)' = VersionAt(q, c)'
    BY <1>0, <2>2
  <2>5. run.plan # None => \A q \in Sources : run.entries[q].have \in Nat
    BY BoundsAssumption DEF RunMade, TypeOK, Runs, Manifests, Versions
  <2>6. run'.plan # None => \A q \in Sources :
           run'.plan[q] = "download" => run'.entries[q].have < VersionAt(q, run.checkpoint)'
    BY <1>0, <2>3, <2>4, <2>5 DEF RunMade
  <2> QED BY <1>0, <2>1, <2>6 DEF RunMade
<1>9. RowsOK'
  <2>1. PICK j \in Journals : j = journal'
    BY DEF TypeOK
  <2>2. journal.applied \in Nat
    BY <1>0, BoundsAssumption DEF Journals, Sequences
  <2>3. RowsFit(j)
    BY <1>0, <1>3, <2>1, <2>2, SameRowsFit DEF RowsOK
  <2> QED BY <1>0, <1>2, <2>1, <2>3, RowsStay
<1>10. PageOK'
  BY <1>0, <1>2 DEF PageOK
<1>11. BarrierOK'
  BY <1>0, <1>3 DEF BarrierOK, Barrier, InRun, RunPcs, Repairing, Working, ApplyPcs, At, Unfinished
<1>12. Debt'
  BY <1>0, <1>3 DEF Debt, Barrier, Guarded, Owed, Working, ApplyPcs
<1> QED
  BY <1>0, <1>4, <1>6, <1>7, <1>8, <1>9, <1>10, <1>11, <1>12, RestFrame
  DEF RestingPcs, Pcs, ApplyPcs, RunPcs
-------------------------------------------------------------------------------
(* The invariant, and what it gives.                                       *)

LEMMA SafetyInit == Init => SafetyInv
<1> SUFFICES ASSUME Init PROVE SafetyInv
  OBVIOUS
<1> USE DEF Init
<1>1. TypeOK
  <2>1. 0 \in Sequences /\ 0 \in Versions /\ 1 \in Versions /\ 0 \in 0 .. RetryBound - 1
        /\ 1 \in 1 .. MaxSequence + 1
    BY BoundsAssumption DEF Sequences, Versions
  <2>2. journal \in Journals
    BY <2>1 DEF Journals
  <2>3. mem \in Memories
    BY <2>1 DEF Memories, Pcs
  <2>4. run \in Runs
    BY <2>1 DEF Runs, RunStates
  <2> QED BY <2>1, <2>2, <2>3, <2>4 DEF TypeOK
<1>2. Numbered /\ PageOK /\ RowsOK
  BY DEF Numbered, PageOK, RowsOK, RowsFit
<1>3. WorkKept /\ InStep /\ Planned
  BY DEF WorkKept, InStep, Planned, InRun, Working, Repairing, ApplyPcs, RunPcs
<1>4. KnownOK
  <2>1. \A s \in Sources : journal.known[s] = 0 /\ vault[s] \in {0, 1}
    OBVIOUS
  <2> QED BY <2>1 DEF KnownOK
<1>5. RunMade /\ BarrierOK /\ Debt
  BY <1>3 DEF RunMade, BarrierOK, Debt, Unfinished, Barrier, InRun, Working, Repairing, ApplyPcs,
              RunPcs, At, Owed
<1> QED BY <1>1, <1>2, <1>3, <1>4, <1>5 DEF SafetyInv

LEMMA SafetyStep == SafetyInv /\ [Next]_vars => SafetyInv'
<1> SUFFICES ASSUME SafetyInv, [Next]_vars PROVE SafetyInv'
  OBVIOUS
<1>0. TypeOK'
  BY TypesKept
<1>1. CASE Wake \/ Crash \/ RecoverFails \/ OutboundDone \/ AckNotOwed \/ PageDone \/ FetchLost
  BY <1>0, <1>1, RestKeeps
<1>2. CASE Recover \/ RepairDecision \/ ExplicitRepair
  BY <1>0, <1>2, RecoverKeeps, DecisionKeeps, WishKeeps
<1>3. CASE RunStart \/ RunPage \/ RunFinalize \/ RunList
  BY <1>0, <1>3, RunStartKeeps, RunPageKeeps, RunFinalizeKeeps, RunListKeeps
<1>4. CASE \E s \in Sources : RunAction(s)
  BY <1>0, <1>4, RunActionKeeps
<1>5. CASE RunActionsDone \/ RunClose \/ RunComplete \/ RunCompleted \/ ManifestCallLost
  BY <1>0, <1>5, ActionsDoneKeeps, RunEndKeeps, RunCompletedKeeps, CallLostKeeps
<1>6. CASE AckOwed \/ AckLost \/ Pull \/ PullLost
  BY <1>0, <1>6, AckKeeps, PullKeepsSafety
<1>7. CASE \E e \in mem.page : ApplyEvent(e)
  BY <1>0, <1>7, ApplyEventKeeps
<1>8. CASE Prepare \/ Fetch \/ Stage \/ Replace \/ Mark \/ Terminal \/ VaultFails
  BY <1>0, <1>8, PrepareKeeps, FetchKeeps, StageKeeps, ReplaceKeeps, MarkKeeps, VaultFailsKeeps
<1>9. CASE Others \/ ExpireRun
  BY <1>0, <1>9, OthersKeepSafety
<1>10. CASE \E s \in Sources : Upload(s)
  BY <1>0, <1>10, UploadKeeps
<1>11. CASE UNCHANGED vars
  <2>1. Numbered' /\ PageOK' /\ RowsOK' /\ KnownOK'
    BY <1>11 DEF vars, server, SafetyInv, Numbered, PageOK, RowsOK, RowsFit, RowFits, RowFrom, IsEvent,
                 KnownOK
  <2>2. WorkKept' /\ BarrierOK' /\ InStep' /\ Planned' /\ Debt'
    BY <1>11 DEF vars, server, SafetyInv, WorkKept, WorkOK, Working, Repairing, InRun, At, IsEvent,
                 BarrierOK, Barrier, Unfinished, InStep, BoundHere, Planned, Unplaced, Debt, Guarded,
                 Owed
  <2>3. RunMade'
    <3>1. \A s : VersionAt(s, run.checkpoint)' = VersionAt(s, run.checkpoint)
      BY <1>11, SameVersions DEF vars, server
    <3> QED BY <1>11, <3>1 DEF vars, server, SafetyInv, RunMade, Unfinished
  <2> QED BY <1>0, <2>1, <2>2, <2>3 DEF SafetyInv
<1> QED
  BY <1>1, <1>2, <1>3, <1>4, <1>5, <1>6, <1>7, <1>8, <1>9, <1>10, <1>11
  DEF Next, Cycle, Repair, Failure, Others, User

\* The invariant of the server, the journal and the coordinator, whatever is lost,
\* refused or interrupted (device_event_store and device_manifest_store with the
\* plugin's coordinator, applier and reconciler).
THEOREM SafetyHolds == Spec => []SafetyInv
BY SafetyInit, SafetyStep, PTL DEF Spec

\* Every variable keeps its shape, for any bounds: sequence numbers, versions and the
\* retry counter of the coordinator stay in theirs.
THEOREM SyncTypeCorrect == Spec => []TypeOK
<1>1. SafetyInv => TypeOK
  BY DEF SafetyInv
<1> QED BY <1>1, SafetyHolds, PTL

\* What the device believes acknowledged is acknowledged, and outside of a repair it has
\* applied nothing the server has not delivered.
THEOREM CursorsAlwaysAgree == Spec => []CursorsAgree
<1>1. SafetyInv => CursorsAgree
  BY DEF SafetyInv, CursorsAgree, AckedIsDelivered, Debt, Numbered, RepairOwed, Barrier
<1> QED BY <1>1, SafetyHolds, PTL

\* With no repair owed, the server accepts the acknowledgement the device owes.
THEOREM DebtIsAlwaysPayable == Spec => []DebtIsPayable
<1>1. SafetyInv => DebtIsPayable
  <2> SUFFICES ASSUME SafetyInv, ~RepairOwed, Owed
               PROVE  AckAccepted(journal.acked, journal.applied)
    BY DEF DebtIsPayable
  <2>1. /\ journal.applied \in Nat /\ acked \in Nat /\ delivered \in Nat /\ journal.acked \in Nat
    BY BoundsAssumption DEF SafetyInv, TypeOK, Journals, Sequences
  <2>2. /\ journal.acked <= acked /\ acked <= journal.applied /\ journal.applied <= delivered
        /\ acked = journal.acked \/ acked = journal.applied
    BY DEF SafetyInv, Debt, RepairOwed, Barrier
  <2> QED BY <2>1, <2>2 DEF AckAccepted
<1> QED BY <1>1, SafetyHolds, PTL

LEMMA VaultStep == SafetyInv /\ Next => \A s \in Sources : vault'[s] >= vault[s]
<1> SUFFICES ASSUME SafetyInv, Next PROVE \A s \in Sources : vault'[s] >= vault[s]
  OBVIOUS
<1>0. TypeOK' /\ \A s \in Sources : vault[s] \in Nat
  BY TypesKept, BoundsAssumption DEF SafetyInv, TypeOK, Versions
<1>1. CASE Recover
  <2>1. CASE UNCHANGED vault
    BY <1>0, <2>1
  <2>2. ASSUME NEW r \in journal.rows, RecoverMutated(r) PROVE \A s \in Sources : vault'[s] >= vault[s]
    BY <2>2, RecoverForward
  <2> QED BY <1>1, <2>1, <2>2 DEF Recover, RecoverClean, RecoverBlocked
<1>2. CASE Replace
  BY <1>0, <1>2, ReplaceKeeps
<1>3. CASE VaultFails
  BY <1>0, <1>3, VaultFailsKeeps
<1>4. CASE \E s \in Sources : Upload(s)
  BY <1>0, <1>4, UploadKeeps
<1>5. CASE UNCHANGED vault
  BY <1>0, <1>5
<1>6. CASE Repair
  BY <1>5, <1>6 DEF Repair, RepairDecision, RunStart, RunPage, RunFinalize, RunList, RunAction,
                    RunActionsDone, RunClose, RunComplete, RunCompleted
<1>7. CASE Wake \/ OutboundDone \/ AckNotOwed \/ AckOwed \/ Pull \/ PageDone
           \/ (\E e \in mem.page : ApplyEvent(e)) \/ Prepare \/ Fetch \/ Stage \/ Mark \/ Terminal
  BY <1>5, <1>7 DEF Wake, OutboundDone, AckNotOwed, AckOwed, Pull, PageDone, ApplyEvent, Prepare,
                    Fetch, Stage, Mark, Terminal
<1>8. CASE Crash \/ ExpireRun \/ ManifestCallLost \/ AckLost \/ PullLost \/ FetchLost \/ RecoverFails
  BY <1>5, <1>8 DEF Crash, ExpireRun, ManifestCallLost, AckLost, PullLost, FetchLost, RecoverFails
<1>9. CASE Others \/ ExplicitRepair
  BY <1>5, <1>9 DEF Others, Commit, Rollback, Begin, CaptureConflict, ExplicitRepair
<1> QED BY <1>1, <1>2, <1>3, <1>4, <1>6, <1>7, <1>8, <1>9 DEF Next, Cycle, Failure, User

\* No lane moves a file of the vault back to an older version.
THEOREM VaultNeverRegresses == Spec => NoVaultRegression
<1>1. SafetyInv /\ [Next]_vars => [\A s \in Sources : vault'[s] >= vault[s]]_vars
  BY VaultStep
<1> QED BY <1>1, SafetyHolds, PTL DEF Spec, NoVaultRegression

-------------------------------------------------------------------------------
(***************************************************************************)
(* No event the device's cursor has passed is lost without a trace, for    *)
(* every set of sources, every bound and every kind of fault, as long as   *)
(* no conflict capture takes a number of the feed.                         *)
(*                                                                         *)
(* The cursor goes over an event when the event is applied, closed as a    *)
(* conflict or found in the vault, and it goes to the checkpoint of a      *)
(* manifest run when the run has placed every file of it.  So the          *)
(* invariant follows the run: its plan is the plan of what the vault and   *)
(* the checkpoint differ in, each file it has worked off is placed, and    *)
(* when none is left the whole checkpoint is.  That the checkpoint is      *)
(* above every number still to be committed is what captures would break.  *)
(***************************************************************************)
-------------------------------------------------------------------------------
(* The inductive invariant, on top of SafetyInv.                           *)

VersionPlaced(s, v) == vault[s] >= v \/ \E w \in v .. MaxSequence : <<s, w>> \in closed
SourcePlaced(s) == VersionPlaced(s, VersionAt(s, run.checkpoint))

LogPlain == \A e \in log : e.version > 0
Ahead ==
    /\ delivered < nextSeq /\ run.checkpoint < nextSeq
    /\ inflight # None => delivered < inflight.seq /\ run.checkpoint < inflight.seq
PlanMade ==
    run.plan # None => \A s \in Sources :
         run.plan[s] = PlannedAction(run.entries[s].have, run.entries[s].base,
                                     VersionAt(s, run.checkpoint))
AppliedPlaced ==
    ~Barrier => \A e \in log : e.seq <= journal.applied => VersionPlaced(e.source, e.version)
DonePlaced == BoundHere => \A s \in journal.done : SourcePlaced(s)
PlacesCheckpoint ==
    Repairing => mem.evt.version = VersionAt(mem.evt.source, run.checkpoint)
AllPlaced  == \A s \in Sources : SourcePlaced(s)
Ending     == mem.pc \in {"complete", "completed"}
EndPlaced  == Ending => AllPlaced

LossInv ==
    /\ LogPlain /\ Ahead /\ PlanMade
    /\ AppliedPlaced /\ DonePlaced /\ PlacesCheckpoint /\ EndPlaced

-------------------------------------------------------------------------------
(* What the cursor has passed is placed, when no conflict capture shares the  *)
(* numbers.  First the server's side of a step.                               *)

\* What a step of the server leaves true of the run the device works through.
LossForward ==
    /\ LogPlain' /\ Ahead' /\ PlanMade' /\ log \subseteq log'
    /\ \A e \in log' : e \in log \/ e.seq > delivered
    /\ run.id <= run'.id
    /\ run'.id = run.id => \A s : VersionAt(s, run.checkpoint)' = VersionAt(s, run.checkpoint)

LEMMA SameRunForward ==
    ASSUME SafetyInv, LossInv, TypeOK', LogPlain', Ahead', log \subseteq log',
           \A e \in log' : e \in log \/ (e.seq > delivered /\ e.seq > run.checkpoint),
           run'.id = run.id, run'.checkpoint = run.checkpoint,
           \/ run'.plan = None
           \/ run'.plan = run.plan /\ run'.entries = run.entries
    PROVE  LossForward
<1> USE DEF SafetyInv
<1>1. PICK c : c = run.checkpoint
  OBVIOUS
<1>2. run.checkpoint \in Nat /\ \A e \in log' : e.seq \in Nat
  BY BoundsAssumption DEF TypeOK, Runs, Sequences, Events
<1>3. \A s : {f \in log' : f.source = s /\ f.seq <= c} = {f \in log : f.source = s /\ f.seq <= c}
  BY <1>1, <1>2
<1>4. \A s : VersionAt(s, c)' = VersionAt(s, c)
  BY <1>3 DEF VersionAt
<1>5. \A s : VersionAt(s, run.checkpoint)' = VersionAt(s, run.checkpoint)
  BY <1>1, <1>4
<1>6. PlanMade'
  BY <1>5 DEF PlanMade, LossInv
<1>7. run.id <= run'.id
  BY DEF TypeOK, Runs
<1> QED BY <1>5, <1>6, <1>7 DEF LossForward

LEMMA QuietLossForward ==
    ASSUME SafetyInv, LossInv, TypeOK', UNCHANGED server
    PROVE  LossForward
BY SameRunForward DEF server, LossInv, LogPlain, Ahead

\* With no captures, the numbers and the log grow by deliverable events alone.
LEMMA OthersLossForward ==
    ASSUME SafetyInv, LossInv, TypeOK', MaxCaptures = 0,
           Others \/ ExpireRun \/ (\E s \in Sources : Upload(s))
    PROVE  LossForward
<1> USE DEF SafetyInv, LossInv
<1>0. /\ nextSeq \in Nat /\ delivered \in Nat /\ run.checkpoint \in Nat /\ delivered < nextSeq
      /\ run.checkpoint < nextSeq
      /\ inflight # None => /\ inflight.seq \in Nat /\ inflight.version > 0
                            /\ delivered < inflight.seq /\ run.checkpoint < inflight.seq
                            /\ inflight.seq < nextSeq
  BY BoundsAssumption DEF TypeOK, Events, Sequences, Runs, Ahead, Numbered
<1>1. CASE Commit
  BY <1>0, <1>1, SameRunForward DEF Commit, LogPlain, Ahead
<1>2. CASE Rollback
  BY <1>0, <1>2, SameRunForward DEF Rollback, LogPlain, Ahead
<1>3. ASSUME NEW s \in Sources, Begin(s) PROVE LossForward
  <2>1. inflight'.seq = nextSeq /\ nextSeq' = nextSeq + 1 /\ UNCHANGED <<log, delivered, run>>
    BY <1>3 DEF Begin
  <2>2. LogPlain' /\ Ahead'
    BY <1>0, <2>1 DEF LogPlain, Ahead
  <2> QED BY <2>1, <2>2, SameRunForward
<1>4. ASSUME NEW s \in Sources, CaptureConflict(s) PROVE LossForward
  <2>1. log \ Deliverables = {}
    BY DEF Deliverables, LogPlain
  <2>2. Cardinality({}) = 0
    BY FS_EmptySet
  <2>3. Cardinality(log \ Deliverables) < MaxCaptures
    BY <1>4 DEF CaptureConflict
  <2> QED BY <2>1, <2>2, <2>3
<1>5. ASSUME NEW s \in Sources, Upload(s) PROVE LossForward
  <2>1. PICK e : e = [seq |-> nextSeq, source |-> s, version |-> vault[s] + 1, own |-> TRUE]
    OBVIOUS
  <2>2. /\ log' = log \cup {e} /\ nextSeq' = nextSeq + 1 /\ e.seq = nextSeq
        /\ e.version = vault[s] + 1 /\ UNCHANGED <<inflight, delivered, run>> /\ inflight = None
    BY <1>5, <2>1 DEF Upload
  <2>3. e.version > 0
    BY <2>2, BoundsAssumption DEF TypeOK, Versions
  <2>4. LogPlain' /\ Ahead'
    BY <1>0, <2>2, <2>3 DEF LogPlain, Ahead
  <2> QED BY <1>0, <2>2, <2>4, SameRunForward
<1>6. CASE ExpireRun
  <2>1. /\ run' = [run EXCEPT !.state = "expired"]
        /\ UNCHANGED <<log, nextSeq, inflight, delivered>>
    BY <1>6 DEF ExpireRun
  <2>2. /\ run'.id = run.id /\ run'.checkpoint = run.checkpoint /\ run'.entries = run.entries
        /\ run'.plan = run.plan
    BY <2>1 DEF TypeOK, Runs
  <2>3. LogPlain' /\ Ahead'
    BY <2>1, <2>2 DEF LogPlain, Ahead
  <2> QED BY <2>1, <2>2, <2>3, SameRunForward
<1> QED BY <1>1, <1>2, <1>3, <1>4, <1>5, <1>6 DEF Others

\* What is acknowledged, delivered or taken as a checkpoint is committed.
LEMMA CursorLossForward ==
    ASSUME SafetyInv, LossInv, TypeOK', PullEvents \/ UNCHANGED <<log, nextSeq, inflight, delivered, run>>
    PROVE  LossForward
<1> USE DEF SafetyInv, LossInv
<1>0. /\ nextSeq \in Nat /\ delivered \in Nat /\ \A e \in log : e.seq \in Nat
  BY BoundsAssumption DEF TypeOK, Events, Sequences
<1>1. CASE PullEvents
  <2>1. \A e \in Page : e \in log
    BY Zenon DEF Page, Deliverables
  <2>2. PICK n \in {delivered} \cup {e.seq : e \in Page} : delivered' = n
    BY <1>1 DEF PullEvents
  <2>3. UNCHANGED <<log, nextSeq, inflight, run>>
    BY <1>1 DEF PullEvents
  <2>4. delivered' = delivered \/ \E e \in log : delivered' = e.seq
    BY <2>1, <2>2
  <2>5. \A e \in log : e.seq < nextSeq /\ (inflight # None => e.seq < inflight.seq)
    BY DEF Numbered, LogPlain
  <2>6. Ahead' /\ LogPlain'
    BY <2>3, <2>4, <2>5 DEF Ahead, LogPlain
  <2> QED BY <2>3, <2>6, SameRunForward
<1>2. CASE UNCHANGED <<log, nextSeq, inflight, delivered, run>>
  BY <1>2, SameRunForward DEF Ahead, LogPlain
<1> QED BY <1>1, <1>2

LEMMA StartLossForward ==
    ASSUME SafetyInv, LossInv, TypeOK', NEW g, StartManifest(g)
    PROVE  LossForward
<1> USE DEF SafetyInv, LossInv
<1>0. /\ nextSeq \in Nat /\ delivered \in Nat /\ acked \in Nat /\ acked <= delivered
      /\ run.checkpoint \in Nat /\ run.id \in Nat
      /\ \A e \in log : e.seq \in Nat
      /\ inflight # None => inflight.seq \in Nat
  BY BoundsAssumption DEF TypeOK, Events, Sequences, Runs, Numbered
<1>1. UNCHANGED <<log, nextSeq, inflight, acked, delivered>>
  BY DEF StartManifest
<1>2. CASE run' = run
  BY <1>1, <1>2, QuietLossForward DEF server
<1>3. ASSUME NEW c \in {acked} \cup {e.seq : e \in log},
             run' = [id |-> run.id + 1, gen |-> g, state |-> "collecting",
                     checkpoint |-> c, entries |-> None, plan |-> None]
      PROVE  LossForward
  <2>1. run'.id = run.id + 1 /\ run'.checkpoint = c /\ run'.plan = None
    BY <1>3
  <2>2. \A e \in log : e.seq < nextSeq /\ (inflight # None => e.seq < inflight.seq)
    BY DEF Numbered, LogPlain
  <2>3. c < nextSeq /\ (inflight # None => c < inflight.seq)
    BY <1>0, <2>2 DEF Ahead
  <2>4. Ahead' /\ LogPlain' /\ PlanMade'
    BY <1>1, <2>1, <2>3 DEF Ahead, LogPlain, PlanMade
  <2> QED BY <1>0, <1>1, <2>1, <2>4 DEF LossForward
<1> QED BY <1>2, <1>3 DEF StartManifest

LEMMA RunLossForward ==
    ASSUME SafetyInv, LossInv, TypeOK',
           \/ AppendPage(Capture) \/ FinalizeManifest(Capture) \/ ListActions \/ CompleteManifest
    PROVE  LossForward
<1> USE DEF SafetyInv, LossInv
<1>0. /\ run \in Runs /\ nextSeq \in Nat /\ delivered \in Nat /\ acked \in Nat
      /\ run.checkpoint \in Nat /\ acked <= delivered /\ run.id \in Nat
  BY BoundsAssumption DEF TypeOK, Events, Sequences, Runs, Numbered
<1>1. CASE AppendPage(Capture)
  <2>1. UNCHANGED <<log, nextSeq, inflight, delivered>>
    BY <1>1 DEF AppendPage
  <2>2. run' = run \/ (run.state = "collecting" /\ run' = [run EXCEPT !.entries = Capture])
    BY <1>1 DEF AppendPage
  <2>3. /\ run'.id = run.id /\ run'.checkpoint = run.checkpoint /\ run'.plan = run.plan
        /\ run'.plan = None \/ run'.entries = run.entries
    BY <1>0, <2>2 DEF Runs, RunMade
  <2>4. Ahead' /\ LogPlain'
    BY <2>1, <2>3 DEF Ahead, LogPlain
  <2> QED BY <2>1, <2>3, <2>4, SameRunForward
<1>2. CASE FinalizeManifest(Capture)
  <2>1. UNCHANGED <<log, nextSeq, inflight, delivered>>
    BY <1>2 DEF FinalizeManifest
  <2>2. CASE run' = run \/ run' = [run EXCEPT !.state = "failed"]
    <3>1. /\ run'.id = run.id /\ run'.checkpoint = run.checkpoint /\ run'.plan = run.plan
          /\ run'.entries = run.entries
      BY <1>0, <2>2 DEF Runs
    <3>2. Ahead' /\ LogPlain'
      BY <2>1, <3>1 DEF Ahead, LogPlain
    <3> QED BY <2>1, <3>1, <3>2, SameRunForward
  <2>3. CASE run.state = "collecting" /\ run.entries = Capture
    <3>1. PICK plan : plan = [s \in Sources |-> PlannedAction(Capture[s].have, Capture[s].base,
                                                             VersionAt(s, run.checkpoint))]
      OBVIOUS
    <3>2. run' = [run EXCEPT !.state = "planned", !.plan = plan]
      BY <1>2, <2>3, <3>1 DEF FinalizeManifest
    <3>3. /\ run'.id = run.id /\ run'.checkpoint = run.checkpoint /\ run'.plan = plan
          /\ run'.entries = run.entries
      BY <1>0, <3>2 DEF Runs
    <3>4. \A s : VersionAt(s, run.checkpoint)' = VersionAt(s, run.checkpoint)
      BY <2>1, <3>3, SameVersions
    <3>5. \A s \in Sources : plan[s] = PlannedAction(run.entries[s].have, run.entries[s].base,
                                                     VersionAt(s, run.checkpoint))
      BY <2>3, <3>1
    <3>6. PlanMade'
      BY <3>3, <3>4, <3>5 DEF PlanMade
    <3>7. Ahead' /\ LogPlain'
      BY <2>1, <3>3 DEF Ahead, LogPlain
    <3> QED BY <1>0, <2>1, <3>3, <3>4, <3>6, <3>7 DEF LossForward
  <2> QED BY <1>2, <2>2, <2>3 DEF FinalizeManifest
<1>3. CASE ListActions
  <2>1. UNCHANGED <<log, nextSeq, inflight, delivered>>
    BY <1>3 DEF ListActions
  <2>2. /\ run'.id = run.id /\ run'.checkpoint = run.checkpoint /\ run'.plan = run.plan
        /\ run'.entries = run.entries
    BY <1>0, <1>3 DEF ListActions, Runs
  <2>3. Ahead' /\ LogPlain'
    BY <2>1, <2>2 DEF Ahead, LogPlain
  <2> QED BY <2>1, <2>2, <2>3, SameRunForward
<1>4. CASE CompleteManifest
  <2>1. CASE run.state # "applying"
    BY <1>4, <2>1, CursorLossForward DEF CompleteManifest
  <2>2. CASE run.state = "applying"
    <3>1. /\ run'.id = run.id /\ run'.checkpoint = run.checkpoint /\ run'.plan = run.plan
          /\ run'.entries = run.entries /\ UNCHANGED <<log, nextSeq, inflight>>
      BY <1>0, <1>4, <2>2 DEF CompleteManifest, Runs
    <3>2. delivered' \in {delivered, run.checkpoint}
      BY <1>0, <1>4, <2>2, MaxOfTwo DEF CompleteManifest
    <3>3. Ahead' /\ LogPlain'
      BY <3>1, <3>2 DEF Ahead, LogPlain
    <3> QED BY <3>1, <3>3, SameRunForward
  <2> QED BY <2>1, <2>2
<1> QED BY <1>1, <1>2, <1>3, <1>4
-------------------------------------------------------------------------------
(* Then the device's.                                                      *)

VaultForward ==
    /\ \A s \in Sources : vault'[s] >= vault[s]
    /\ closed \subseteq closed'

\* A placed version stays placed.
LEMMA PlacedStays ==
    ASSUME TypeOK, TypeOK', VaultForward
    PROVE  /\ \A s \in Sources, v \in Nat : VersionPlaced(s, v) => VersionPlaced(s, v)'
           /\ LossForward /\ run'.id = run.id => \A s \in Sources : SourcePlaced(s) => SourcePlaced(s)'
<1>1. \A s \in Sources : vault[s] \in Nat /\ vault'[s] \in Nat
  BY BoundsAssumption DEF TypeOK, Versions
<1>2. ASSUME NEW s \in Sources, NEW v \in Nat, VersionPlaced(s, v) PROVE VersionPlaced(s, v)'
  BY <1>1, <1>2 DEF VersionPlaced, VaultForward
<1>3. ASSUME LossForward, run'.id = run.id, NEW s \in Sources, SourcePlaced(s) PROVE SourcePlaced(s)'
  <2>1. PICK v \in Nat : v = VersionAt(s, run.checkpoint)
    BY VersionAtIs, BoundsAssumption DEF Versions
  <2>2. VersionAt(s, run.checkpoint)' = v
    BY <1>3, <2>1 DEF LossForward
  <2>3. VersionPlaced(s, v)
    BY <1>3, <2>1 DEF SourcePlaced
  <2>4. VersionPlaced(s, v)'
    BY <1>2, <2>3
  <2> QED BY <2>2, <2>4 DEF SourcePlaced, VersionPlaced
<1> QED BY <1>2, <1>3

\* Placed at a later version is placed.
LEMMA PlacedBelow ==
    ASSUME TypeOK, NEW s \in Sources, NEW v \in Nat, NEW w \in Nat, w <= v, VersionPlaced(s, v)
    PROVE  VersionPlaced(s, w)
<1>1. vault[s] \in Nat /\ MaxSequence \in Nat
  BY BoundsAssumption DEF TypeOK, Versions
<1>2. CASE vault[s] >= v
  BY <1>1, <1>2 DEF VersionPlaced
<1>3. CASE \E u \in v .. MaxSequence : <<s, u>> \in closed
  BY <1>1, <1>3 DEF VersionPlaced
<1> QED BY <1>2, <1>3 DEF VersionPlaced

\* What a step of the device owes the invariant.
LEMMA LossFrame ==
    ASSUME SafetyInv, SafetyInv', LossInv, LossForward, VaultForward,
           \/ AppliedPlaced'
           \/ /\ Barrier => Barrier'
              /\ \/ journal'.applied = journal.applied
                 \/ /\ log' = log /\ journal'.applied = journal.applied + 1
                    /\ Barrier \/ \A e \in log : e.seq = journal'.applied =>
                                     VersionPlaced(e.source, e.version)',
           \/ journal'.done = {}
           \/ /\ journal'.bound = journal.bound
              /\ journal'.done = journal.done \/
                 (UNCHANGED server /\ \A s \in journal'.done : s \in journal.done \/ SourcePlaced(s)'),
           PlacesCheckpoint' \/ (Repairing' => Repairing /\ mem'.evt = mem.evt /\ run'.id = run.id),
           Ending' => (Ending /\ run'.id = run.id) \/ AllPlaced'
    PROVE  LossInv'
<1> USE DEF SafetyInv
<1>0. run \in Runs /\ run' \in Runs /\ journal \in Journals /\ journal' \in Journals
  BY DEF TypeOK
<1>1. AppliedPlaced'
  <2> SUFFICES ASSUME Barrier => Barrier',
                  \/ journal'.applied = journal.applied
                  \/ /\ log' = log /\ journal'.applied = journal.applied + 1
                     /\ Barrier \/ \A e \in log : e.seq = journal'.applied =>
                                      VersionPlaced(e.source, e.version)',
                  ~Barrier', NEW e \in log', e.seq <= journal'.applied
               PROVE  VersionPlaced(e.source, e.version)'
    BY DEF AppliedPlaced
  <2>1. /\ e.seq \in Nat /\ e.version \in Nat /\ e.source \in Sources
        /\ journal.applied \in Nat /\ delivered \in Nat /\ journal.applied <= delivered
    BY <1>0, BoundsAssumption DEF TypeOK, Events, Sequences, Versions, Journals, Debt
  <2>2. CASE e \in log /\ e.seq <= journal.applied
    <3>1. VersionPlaced(e.source, e.version)
      BY <2>2 DEF LossInv, AppliedPlaced
    <3> QED BY <2>1, <3>1, PlacedStays
  <2>3. CASE e \notin log
    <3>1. e.seq > delivered
      BY <2>3 DEF LossForward
    <3> QED BY <2>1, <2>3, <3>1
  <2>4. CASE e \in log /\ ~(e.seq <= journal.applied)
    BY <2>1, <2>4
  <2> QED BY <2>2, <2>3, <2>4
<1>2. DonePlaced'
  <2> SUFFICES ASSUME BoundHere', NEW s \in journal'.done PROVE SourcePlaced(s)'
    BY DEF DonePlaced
  <2>1. s \in Sources /\ journal'.bound = journal.bound
    BY <1>0 DEF Journals
  <2>2. run'.id = run.id /\ BoundHere
    <3>1. journal.bound # None /\ journal.bound.id = run'.id /\ journal.bound.id <= run.id
      BY <2>1 DEF BoundHere, BarrierOK
    <3> QED BY <1>0, <3>1 DEF LossForward, Runs, BoundHere
  <2>3. s \in journal.done \/ SourcePlaced(s)'
    OBVIOUS
  <2>4. s \in journal.done => SourcePlaced(s)
    BY <2>2 DEF LossInv, DonePlaced
  <2> QED BY <2>1, <2>2, <2>3, <2>4, PlacedStays
<1>4. PlacesCheckpoint'
  <2> SUFFICES ASSUME Repairing', Repairing, mem'.evt = mem.evt, run'.id = run.id
               PROVE  PlacesCheckpoint'
    BY DEF PlacesCheckpoint
  <2>1. mem.evt.version = VersionAt(mem.evt.source, run.checkpoint)
    BY DEF LossInv, PlacesCheckpoint
  <2>2. PICK s : s = mem.evt.source
    OBVIOUS
  <2>3. VersionAt(s, run.checkpoint)' = VersionAt(s, run.checkpoint)
    BY DEF LossForward
  <2> QED BY <2>1, <2>2, <2>3 DEF PlacesCheckpoint
<1>5. EndPlaced'
  <2> SUFFICES ASSUME Ending, run'.id = run.id, Ending' PROVE AllPlaced'
    BY DEF EndPlaced
  <2>1. AllPlaced
    BY DEF LossInv, EndPlaced
  <2> QED BY <2>1, PlacedStays DEF AllPlaced
<1> QED BY <1>1, <1>2, <1>4, <1>5 DEF LossForward, LossInv

LEMMA ClosedGrows == Next => closed \subseteq closed'
<1> SUFFICES ASSUME Next PROVE closed \subseteq closed'
  OBVIOUS
<1>1. CASE Wake \/ Recover \/ OutboundDone \/ AckNotOwed \/ AckOwed \/ Pull \/ PageDone
           \/ (\E e \in mem.page : ApplyEvent(e)) \/ Prepare \/ Fetch \/ Stage \/ Replace \/ Mark
           \/ Terminal
  BY <1>1 DEF Wake, Recover, RecoverClean, RecoverMutated, RecoverBlocked, OutboundDone, AckNotOwed,
              AckOwed, Pull, PageDone, ApplyEvent, Prepare, Fetch, Stage, Replace, Mark, Terminal
<1>2. CASE Repair
  BY <1>2 DEF Repair, RepairDecision, RunStart, RunPage, RunFinalize, RunList, RunAction,
              RunActionsDone, RunClose, RunComplete, RunCompleted
<1>3. CASE Failure
  BY <1>3 DEF Failure, Crash, ExpireRun, ManifestCallLost, AckLost, PullLost, FetchLost, VaultFails,
              RecoverFails
<1>4. CASE Others \/ User
  BY <1>4 DEF Others, Commit, Rollback, Begin, CaptureConflict, User, ExplicitRepair, Upload
<1> QED BY <1>1, <1>2, <1>3, <1>4 DEF Next, Cycle

\* The device's part of the invariant is not touched.
StillDevice ==
    /\ Barrier => Barrier'
    /\ journal'.applied = journal.applied
    /\ journal'.done = {} \/ (journal'.bound = journal.bound /\ journal'.done = journal.done)
    /\ Repairing' => Repairing /\ mem'.evt = mem.evt /\ run'.id = run.id
    /\ Ending' => Ending /\ run'.id = run.id

LEMMA StillMemory ==
    ASSUME SafetyInv, UNCHANGED journal,
           \/ mem'.pc \in RestingPcs
           \/ UNCHANGED mem /\ run'.id = run.id
           \/ UNCHANGED run /\ Working /\ mem'.pc \in ApplyPcs /\ mem'.evt = mem.evt
    PROVE  StillDevice
BY DEF StillDevice, Barrier, Repairing, Working, Ending, RestingPcs, ApplyPcs, RunPcs

LEMMA RestStill ==
    ASSUME SafetyInv,
           \/ Wake \/ Crash \/ RecoverFails \/ OutboundDone \/ AckNotOwed \/ PageDone \/ FetchLost
           \/ AckLost \/ Pull \/ PullLost \/ ManifestCallLost
    PROVE  StillDevice
<1>1. mem \in Memories /\ RepairRetried \in Memories
  BY MemoryShape DEF SafetyInv, TypeOK
<1>2. UNCHANGED journal
  BY DEF Wake, Crash, RecoverFails, OutboundDone, AckNotOwed, PageDone, FetchLost, AckLost, Pull,
         PullLost, ManifestCallLost
<1>3. RepairRetried.pc \in {"idle", "outbound"} /\ RepairBlocked.pc = "outbound" /\ Idle.pc = "idle"
  BY <1>1 DEF RepairRetried, RepairBlocked, Settled, Idle, Memories
<1>4. mem'.pc \in {"recover", "idle", "ack", "pull", "ack_page", "apply", "outbound"}
  BY <1>1, <1>3 DEF Wake, Crash, RecoverFails, OutboundDone, AckNotOwed, PageDone, FetchLost, AckLost, Pull,
         PullLost, ManifestCallLost, AfterAck, ApplyFailed, Memories, Idle
<1> QED BY <1>2, <1>4, StillMemory DEF RestingPcs, Pcs, ApplyPcs, RunPcs

LEMMA SameStill ==
    ASSUME SafetyInv, Others \/ ExpireRun \/ ExplicitRepair \/ Fetch \/ Replace
                      \/ (\E s \in Sources : Upload(s))
    PROVE  StillDevice
<1>1. mem \in Memories /\ journal \in Journals /\ run \in Runs
  BY DEF SafetyInv, TypeOK
<1>2. CASE Others \/ ExpireRun
  <2>1. UNCHANGED <<journal, mem>> /\ run'.id = run.id
    BY <1>1, <1>2 DEF Others, ExpireRun, Commit, Rollback, Begin, CaptureConflict, Runs
  <2> QED BY <2>1, StillMemory
<1>3. CASE ExplicitRepair
  BY <1>1, <1>3 DEF ExplicitRepair, server, Memories, StillDevice, Barrier, Repairing, Working, Ending
<1>4. CASE Fetch \/ Replace
  BY <1>1, <1>4, StillMemory DEF Fetch, Replace, server, Memories, Working, ApplyPcs, At
<1>5. CASE \E s \in Sources : Upload(s)
  BY <1>1, <1>5 DEF Upload, Journals, StillDevice, Barrier, Repairing, Working, Ending
<1> QED BY <1>2, <1>3, <1>4, <1>5

LEMMA JournalStill ==
    ASSUME SafetyInv,
           \/ RepairDecision \/ AckOwed \/ Mark \/ Prepare
           \/ (Stage /\ BaseProven(mem.evt))
    PROVE  StillDevice
<1>1. mem \in Memories /\ journal \in Journals /\ run \in Runs
  BY DEF SafetyInv, TypeOK
<1>2. CASE RepairDecision
  BY <1>1, <1>2, BarredFields
  DEF RepairDecision, Memories, StillDevice, Barrier, Repairing, Working, Ending, ApplyPcs
<1>3. CASE AckOwed
  <2>1. journal.applied \in Sequences
    BY <1>1 DEF Journals
  <2>2. mem'.pc \in {"idle", "pull"}
    BY <1>1, <1>3 DEF AckOwed, AfterAck, Idle, Memories
  <2>3. CASE UNCHANGED journal
    BY <2>2, <2>3, StillMemory DEF RestingPcs, Pcs, ApplyPcs, RunPcs
  <2>4. CASE journal' = Acknowledged(journal, journal.applied)
    BY <1>1, <2>1, <2>2, <2>4, AcknowledgedFields
    DEF StillDevice, Barrier, Repairing, Working, Ending, ApplyPcs
  <2> QED BY <1>3, <2>3, <2>4 DEF AckOwed
<1>4. ASSUME NEW state \in {"prepared", "temp_verified", "vault_mutated"}, Working,
             journal' = WithRow(journal, Row(state)), mem'.pc \in ApplyPcs, mem'.evt = mem.evt,
             UNCHANGED server
      PROVE  StillDevice
  <2>1. /\ journal'.applied = journal.applied /\ journal'.bound = journal.bound
        /\ journal'.done = journal.done /\ journal'.barrier = journal.barrier
    BY <1>4, WorkRowFits
  <2> QED BY <1>4, <2>1 DEF server, StillDevice, Barrier, Repairing, Working, Ending, ApplyPcs
<1>5. CASE Mark
  <2>1. Working /\ mem'.pc \in ApplyPcs /\ mem'.evt = mem.evt /\ UNCHANGED server
    BY <1>1, <1>5 DEF Mark, At, Working, ApplyPcs, Memories
  <2> QED BY <1>4, <1>5, <2>1 DEF Mark
<1>6. CASE Prepare
  <2>1. Working /\ UNCHANGED server
    BY <1>6 DEF Prepare, At, Working, ApplyPcs
  <2>2. CASE RowsAt(mem.evt.seq) \subseteq {Row("prepared")}
    <3>1. mem'.pc \in ApplyPcs /\ mem'.evt = mem.evt
      BY <1>1, <1>6, <2>2 DEF Prepare, ApplyPcs, Memories
    <3> QED BY <1>4, <1>6, <2>1, <2>2, <3>1 DEF Prepare
  <2>3. CASE journal' = Blocked(journal, FALSE) /\ mem' = ApplyFailed(FALSE)
    <3>1. mem'.pc \in {"idle", "outbound"}
      BY <1>1, <2>3 DEF ApplyFailed, Idle, RepairBlocked, Settled, Memories
    <3> QED BY <1>1, <2>3, <3>1, BlockedFields
            DEF StillDevice, Barrier, Repairing, Working, Ending, ApplyPcs
  <2> QED BY <1>6, <2>2, <2>3 DEF Prepare
<1>7. CASE Stage /\ BaseProven(mem.evt)
  <2>1. Working /\ mem'.pc \in ApplyPcs /\ mem'.evt = mem.evt /\ UNCHANGED server
    BY <1>1, <1>7 DEF Stage, At, Working, ApplyPcs, Memories
  <2> QED BY <1>4, <1>7, <2>1 DEF Stage
<1> QED BY <1>2, <1>3, <1>5, <1>6, <1>7

LEMMA RestartFields ==
    ASSUME SafetyInv, Barrier, NEW j \in {journal, Discarded(journal)}, NEW c, RestartRun(j, c)
    PROVE  /\ Barrier' /\ journal'.applied = journal.applied
           /\ journal'.done = {} \/ (journal'.bound = journal.bound /\ journal'.done = journal.done)
           /\ mem'.pc \in {"start", "outbound"}
<1>1. mem \in Memories /\ journal \in Journals
  BY DEF SafetyInv, TypeOK
<1>2. /\ j \in Journals /\ j.applied = journal.applied /\ j.barrier = journal.barrier
      /\ (j.bound = journal.bound /\ j.done = journal.done) \/ (j.bound = None /\ j.done = {})
  BY <1>1, DiscardedFields, JournalShape
<1>3. PICK d \in Journals : d = Discarded(j)
  BY <1>2, JournalShape
<1>4. journal' \in {j, d, Barred(d)}
  BY <1>3 DEF RestartRun
<1>5. d.applied = j.applied /\ d.barrier = j.barrier /\ d.bound = None /\ d.done = {}
  BY <1>2, <1>3, DiscardedFields
<1>6. Barred(d).applied = d.applied /\ Barred(d).barrier # None /\ Barred(d).done = {}
  BY <1>5, BarredFields
<1>7. mem'.pc \in {"start", "outbound"}
  BY <1>1 DEF RestartRun, RepairBlocked, Settled, Memories
<1>8. CASE journal' = j
  BY <1>2, <1>7, <1>8 DEF Barrier
<1>9. CASE journal' = d \/ journal' = Barred(d)
  BY <1>2, <1>5, <1>6, <1>7, <1>9 DEF Barrier
<1> QED BY <1>4, <1>8, <1>9

LEMMA RestartStill ==
    ASSUME SafetyInv, Barrier, NEW j \in {journal, Discarded(journal)}, NEW c, RestartRun(j, c)
    PROVE  StillDevice
BY RestartFields DEF StillDevice, Repairing, Working, Ending, ApplyPcs

LEMMA RunStill ==
    ASSUME SafetyInv,
           RunStart \/ RunPage \/ RunFinalize \/ RunList \/ RunClose \/ RunComplete
    PROVE  StillDevice
<1>1. /\ mem \in Memories /\ journal \in Journals /\ run \in Runs /\ Barrier
  BY DEF SafetyInv, TypeOK, BarrierOK, InRun, RunPcs, At, RunStart, RunPage, RunFinalize, RunList,
         RunClose, RunComplete
<1>2. ASSUME NEW j \in {journal, Discarded(journal)}, NEW c, RestartRun(j, c) PROVE StillDevice
  BY <1>1, <1>2, RestartStill
<1>3. ASSUME UNCHANGED journal, mem'.pc \in {"page", "finalize", "list", "actions"} PROVE StillDevice
  BY <1>3 DEF StillDevice, Barrier, Repairing, Working, Ending, ApplyPcs
<1>4. CASE RunStart
  BY <1>1, <1>2, <1>3, <1>4 DEF RunStart, Memories
<1>5. CASE RunPage
  <2>1. CASE journal' = Bound /\ journal.bound = None /\ mem' = [mem EXCEPT !.pc = "finalize"]
    <3>1. journal.done = {}
      BY <2>1 DEF SafetyInv, BarrierOK
    <3>2. PICK b : b = [id |-> mem.receipt.id, page |-> Capture]
      OBVIOUS
    <3>3. journal' = [journal EXCEPT !.bound = b]
      BY <2>1, <3>2 DEF Bound
    <3>4. /\ journal'.applied = journal.applied /\ journal'.done = {}
          /\ journal'.barrier = journal.barrier /\ mem'.pc = "finalize"
      BY <1>1, <2>1, <3>1, <3>3 DEF Journals, Memories
    <3> QED BY <3>4 DEF StillDevice, Barrier, Repairing, Working, Ending, ApplyPcs
  <2>2. CASE mem' = [mem EXCEPT !.pc = "finalize"] /\ UNCHANGED journal
    BY <1>1, <1>3, <2>2 DEF Memories
  <2> QED BY <1>2, <1>5, <2>1, <2>2 DEF RunPage
<1>6. CASE RunFinalize
  BY <1>1, <1>2, <1>3, <1>6 DEF RunFinalize, Memories
<1>7. CASE RunList
  BY <1>1, <1>2, <1>3, <1>7 DEF RunList, Memories
<1>8. CASE RunClose
  BY <1>2, <1>8 DEF RunClose
<1>9. CASE RunComplete
  <2>1. CASE mem' = [mem EXCEPT !.pc = "completed"] /\ UNCHANGED journal
    <3>1. run'.id = run.id
      BY <1>1, <1>9 DEF RunComplete, CompleteManifest, Runs
    <3> QED BY <1>1, <1>9, <2>1, <3>1
            DEF RunComplete, At, Memories, StillDevice, Barrier, Repairing, Working, Ending, ApplyPcs
  <2> QED BY <1>2, <1>9, <2>1 DEF RunComplete
<1> QED BY <1>4, <1>5, <1>6, <1>7, <1>8, <1>9

\* A step that does not touch the device's part, whatever the server does in it.
LEMMA StillKeeps ==
    ASSUME SafetyInv, SafetyInv', LossInv, LossForward, VaultForward, StillDevice
    PROVE  LossInv'
BY LossFrame DEF StillDevice

\* The event after the cursor is the only one of its number.
LEMMA NextIsPlaced ==
    ASSUME SafetyInv, SafetyInv', UNCHANGED log, NEW s \in Sources, NEW v \in Nat, NEW n \in Nat,
           \E e \in log : e.seq = n /\ e.source = s /\ e.version = v,
           VersionPlaced(s, v)'
    PROVE  \A e \in log : e.seq = n => VersionPlaced(e.source, e.version)'
BY DEF SafetyInv, Numbered

\* A terminal event is placed.
LEMMA DoneLoss ==
    ASSUME SafetyInv, SafetyInv', LossInv, UNCHANGED server, VaultForward, Working,
           NEW s, NEW v, s = mem.evt.source, v = mem.evt.version, VersionPlaced(s, v)',
           NEW j \in Journals, ApplyDone(j),
           \/ j = Terminalized(journal, mem.evt.seq)
           \/ /\ mem.evt.lane = "repair"
              /\ j = [journal EXCEPT !.rows = @ \ RowsAt(mem.evt.seq)]
    PROVE  LossInv'
<1>0. /\ WorkOK /\ mem \in Memories /\ journal \in Journals /\ mem.evt.lane \in {"pull", "repair"}
      /\ mem.evt.seq \in Sequences /\ mem.evt.seq = journal.applied + 1 /\ journal.applied \in Nat
      /\ mem.evt.source \in Sources /\ mem.evt.version \in Nat
      /\ mem.evt.lane = "repair" => Barrier /\ Repairing
  BY WorkFacts DEF WorkOK
<1>1. /\ j.applied \in {journal.applied, journal.applied + 1} /\ j.bound = journal.bound
      /\ j.done = journal.done /\ j.barrier = journal.barrier
      /\ j.applied = journal.applied + 1 \/ mem.evt.lane = "repair"
  <2>1. CASE j = Terminalized(journal, mem.evt.seq)
    BY <1>0, <2>1, TerminalFields
  <2>2. CASE mem.evt.lane = "repair" /\ j = [journal EXCEPT !.rows = @ \ RowsAt(mem.evt.seq)]
    BY <1>0, <2>2 DEF Journals
  <2> QED BY <2>1, <2>2
<1>2. LossForward
  BY QuietLossForward DEF SafetyInv
<1>3. CASE mem.evt.lane = "pull"
  <2>1. journal' = j /\ mem' = [mem EXCEPT !.pc = "apply", !.evt = None]
    BY <1>3 DEF ApplyDone
  <2>2. ~Repairing' /\ ~Ending'
    BY <1>0, <2>1 DEF Memories, Repairing, Working, Ending, ApplyPcs
  <2>3. PICK n \in Nat : n = journal.applied + 1
    BY <1>0
  <2>4. \E e \in log : e.seq = n /\ e.source = s /\ e.version = v
    BY <1>0, <1>3, <2>3 DEF WorkOK, IsEvent
  <2>5. \A e \in log : e.seq = n => VersionPlaced(e.source, e.version)'
    BY <1>0, <2>4, NextIsPlaced DEF server
  <2>6. /\ Barrier => Barrier'
        /\ journal'.applied = n
        /\ journal'.bound = journal.bound /\ journal'.done = journal.done
    BY <1>0, <1>1, <1>3, <2>1, <2>3 DEF Barrier
  <2>7. log' = log
    BY DEF server
  <2>8. \A e \in log : e.seq = journal'.applied => VersionPlaced(e.source, e.version)'
    BY <2>5, <2>6 DEF VersionPlaced
  <2>9. journal'.applied = journal.applied + 1
    BY <2>3, <2>6
  <2>10. /\ Repairing' => Repairing /\ mem'.evt = mem.evt /\ run'.id = run.id
         /\ Ending' => Ending /\ run'.id = run.id
    BY <2>2
  <2> QED BY <1>2, <2>6, <2>7, <2>8, <2>9, <2>10, LossFrame DEF VersionPlaced
<1>4. CASE mem.evt.lane = "repair"
  <2>1. /\ journal' = [j EXCEPT !.done = @ \cup {mem.evt.source}]
        /\ mem' = [mem EXCEPT !.pc = "actions", !.evt = None]
    BY <1>4 DEF ApplyDone
  <2>2. ~Repairing' /\ ~Ending'
    BY <1>0, <2>1 DEF Memories, Repairing, Working, Ending, ApplyPcs
  <2>3. /\ journal'.applied = j.applied /\ journal'.bound = j.bound
        /\ journal'.barrier = j.barrier /\ journal'.done = j.done \cup {mem.evt.source}
    BY <2>1 DEF Journals
  <2>4. SourcePlaced(s)'
    <3>1. VersionAt(s, run.checkpoint)' = v
      BY <1>0, <1>2, <1>4 DEF server, LossForward, LossInv, PlacesCheckpoint
    <3> QED BY <3>1 DEF SourcePlaced, VersionPlaced
  <2>5. \A q \in journal'.done : q \in journal.done \/ SourcePlaced(q)'
    <3> SUFFICES ASSUME NEW q \in journal'.done, q \notin journal.done PROVE SourcePlaced(q)'
      OBVIOUS
    <3>1. q = s
      BY <1>1, <2>3
    <3> QED BY <2>4, <3>1
  <2> QED BY <1>0, <1>1, <1>2, <1>4, <2>2, <2>3, <2>5, LossFrame DEF server, Barrier
<1> QED BY <1>0, <1>3, <1>4

LEMMA ClosedPlaces ==
    ASSUME NEW s, NEW v \in Versions, <<s, v>> \in closed'
    PROVE  VersionPlaced(s, v)'
BY BoundsAssumption DEF VersionPlaced, Versions

\* The cursor goes over one event, outside of a run.
LEMMA AdvanceLoss ==
    ASSUME SafetyInv, SafetyInv', LossInv, UNCHANGED server, VaultForward, NEW j \in Journals,
           j.applied = journal.applied, j.bound = journal.bound, j.done = journal.done,
           j.barrier = journal.barrier,
           NEW n \in Sequences, n = journal.applied + 1, journal' = Terminalized(j, n),
           mem'.pc \in {"repair", "apply", "idle"},
           Barrier \/ \A e \in log : e.seq = n => VersionPlaced(e.source, e.version)'
    PROVE  LossInv'
<1>1. LossForward
  BY QuietLossForward DEF SafetyInv
<1>2. /\ journal'.applied = n /\ journal'.bound = journal.bound /\ journal'.done = journal.done
      /\ journal'.barrier = journal.barrier
  BY TerminalFields
<1>3. ~Repairing' /\ ~Ending'
  BY DEF Repairing, Working, Ending, ApplyPcs
<1>4. Barrier => Barrier'
  BY <1>2 DEF Barrier
<1>5. Barrier \/ \A e \in log : e.seq = journal'.applied => VersionPlaced(e.source, e.version)'
  BY <1>2
<1>6. log' = log
  BY DEF server
<1>7. /\ Repairing' => Repairing /\ mem'.evt = mem.evt /\ run'.id = run.id
      /\ Ending' => Ending /\ run'.id = run.id
  BY <1>3
<1> QED BY <1>1, <1>2, <1>4, <1>5, <1>6, <1>7, LossFrame

LEMMA StageLoss ==
    ASSUME SafetyInv, SafetyInv', LossInv, VaultForward, Stage
    PROVE  LossInv'
<1>1. Working /\ UNCHANGED server
  BY DEF Stage, At, Working, ApplyPcs
<1>2. CASE BaseProven(mem.evt)
  BY <1>1, <1>2, JournalStill, QuietLossForward, StillKeeps DEF SafetyInv
<1>3. CASE ~BaseProven(mem.evt)
  <2>1. PICK s : s = mem.evt.source
    OBVIOUS
  <2>2. PICK v : v = mem.evt.version
    OBVIOUS
  <2>3. mem.evt \in Applies
    BY <1>1, WorkFacts
  <2>4. v \in Versions /\ <<s, v>> \in closed'
    BY <1>3, <2>1, <2>2, <2>3 DEF Stage, Applies
  <2>5. VersionPlaced(s, v)'
    BY <2>4, ClosedPlaces
  <2>6. PICK j \in Journals : j = Terminalized(journal, mem.evt.seq)
    BY <1>1, WorkFacts, JournalShape
  <2>7. ApplyDone(j)
    BY <1>3, <2>6 DEF Stage
  <2> QED BY <1>1, <2>1, <2>2, <2>5, <2>6, <2>7, DoneLoss
<1> QED BY <1>2, <1>3

LEMMA TerminalLoss ==
    ASSUME SafetyInv, SafetyInv', LossInv, VaultForward, Terminal
    PROVE  LossInv'
<1>1. Working /\ UNCHANGED <<server, vault>> /\ mem.pc = "terminal"
  BY DEF Terminal, At, Working, ApplyPcs
<1>2. PICK s : s = mem.evt.source
  OBVIOUS
<1>3. PICK v : v = mem.evt.version
  OBVIOUS
<1>4. vault[s] = v /\ v \in Nat
  BY <1>1, <1>2, <1>3, WorkFacts DEF WorkOK
<1>5. VersionPlaced(s, v)'
  BY <1>1, <1>4 DEF VersionPlaced
<1>6. PICK j \in Journals : j = Terminalized(journal, mem.evt.seq)
  BY <1>1, WorkFacts, JournalShape
<1>7. ApplyDone(j)
  BY <1>6 DEF Terminal
<1> QED BY <1>1, <1>2, <1>3, <1>5, <1>6, <1>7, DoneLoss

LEMMA VaultFailsLoss ==
    ASSUME SafetyInv, SafetyInv', LossInv, VaultForward, VaultFails
    PROVE  LossInv'
<1>1. Working /\ UNCHANGED server /\ mem.pc \in {"stage", "replace"}
  BY DEF VaultFails, At, Working, ApplyPcs
<1>2. /\ mem \in Memories /\ journal \in Journals /\ mem.evt \in Applies
      /\ mem.evt.lane \in {"pull", "repair"} /\ vault \in [Sources -> Nat]
  BY <1>1, WorkFacts
<1>3. CASE mem' = ApplyFailed(TRUE) /\ UNCHANGED journal
  <2>1. mem'.pc \in {"idle", "outbound"}
    BY <1>2, <1>3 DEF ApplyFailed, RepairRetried, RepairBlocked, Settled, Idle, Memories
  <2>2. StillDevice
    BY <1>3, <2>1, StillMemory DEF RestingPcs, Pcs, ApplyPcs, RunPcs
  <2> QED BY <1>1, <2>2, QuietLossForward, StillKeeps DEF SafetyInv
<1>4. PICK s : s = mem.evt.source
  OBVIOUS
<1>5. PICK v : v = mem.evt.version
  OBVIOUS
<1>6. s \in Sources /\ v \in Versions /\ v \in Nat
  BY <1>2, <1>4, <1>5, BoundsAssumption DEF Applies, Versions
<1>7. CASE /\ mem.evt.lane = "repair"
           /\ ApplyDone([journal EXCEPT !.rows = @ \ RowsAt(mem.evt.seq)])
           /\ closed' = closed \cup {<<mem.evt.source, mem.evt.version>>}
  <2>1. VersionPlaced(s, v)'
    BY <1>4, <1>5, <1>6, <1>7, ClosedPlaces
  <2>2. PICK j : j = [journal EXCEPT !.rows = @ \ RowsAt(mem.evt.seq)]
    OBVIOUS
  <2>3. j \in Journals
    BY <1>2, <2>2 DEF Journals
  <2>4. ApplyDone(j)
    BY <1>7, <2>2
  <2> QED BY <1>1, <1>4, <1>5, <1>7, <2>1, <2>2, <2>3, <2>4, DoneLoss
<1>8. CASE /\ ApplyDone(Terminalized(journal, mem.evt.seq))
           /\ \/ vault' = [vault EXCEPT ![mem.evt.source] = mem.evt.version]
              \/ closed' = closed \cup {<<mem.evt.source, mem.evt.version>>}
  <2>3. VersionPlaced(s, v)'
    <3>1. CASE vault' = [vault EXCEPT ![mem.evt.source] = mem.evt.version]
      <4>1. vault'[s] = v
        BY <1>2, <1>4, <1>5, <1>6, <3>1
      <4> QED BY <1>6, <4>1 DEF VersionPlaced
    <3>2. CASE closed' = closed \cup {<<mem.evt.source, mem.evt.version>>}
      BY <1>4, <1>5, <1>6, <3>2, ClosedPlaces
    <3> QED BY <1>8, <3>1, <3>2
  <2>4. PICK j \in Journals : j = Terminalized(journal, mem.evt.seq)
    BY <1>1, WorkFacts, JournalShape
  <2>5. ApplyDone(j)
    BY <1>8, <2>4
  <2> QED BY <1>1, <1>4, <1>5, <2>3, <2>4, <2>5, DoneLoss
<1> QED BY <1>2, <1>3, <1>7, <1>8 DEF VaultFails, At

LEMMA ApplyEventLoss ==
    ASSUME SafetyInv, SafetyInv', LossInv, VaultForward, NEW e \in mem.page, ApplyEvent(e)
    PROVE  LossInv'
<1>0. /\ mem \in Memories /\ journal \in Journals /\ mem.pc = "apply"
      /\ UNCHANGED <<server, vault>>
      /\ e \in log /\ e.seq \in Sequences /\ e.version \in Nat /\ e.source \in Sources
      /\ \A f \in log : f.seq = e.seq => f = e
      /\ journal.known[e.source] <= vault[e.source] /\ vault[e.source] \in Nat
      /\ journal.known[e.source] \in Nat
  BY BoundsAssumption DEF SafetyInv, TypeOK, PageOK, Numbered, KnownOK, ApplyEvent, At, Events, Journals,
         Versions, Sequences
<1>1. LossForward
  BY <1>0, QuietLossForward DEF SafetyInv, server
<1>2. PICK rest : rest = [mem EXCEPT !.page = @ \ {e}]
  OBVIOUS
<1>3. rest.pc = "apply" /\ rest \in Memories
  BY <1>0, <1>2 DEF Memories
<1>4. CASE UNCHANGED journal /\ mem' \in {rest, Idle}
  <2>1. mem'.pc \in {"apply", "idle"}
    BY <1>0, <1>3, <1>4 DEF Idle, Memories
  <2> QED BY <1>1, <1>4, <2>1, StillMemory, StillKeeps DEF RestingPcs, Pcs, ApplyPcs, RunPcs
<1>5. CASE /\ UNCHANGED journal
           /\ mem' = [rest EXCEPT !.pc = "prepare",
                 !.evt = [lane |-> "pull", id |-> <<0, e.seq>>, seq |-> e.seq,
                          source |-> e.source, version |-> e.version, base |-> e.version - 1]]
  <2>1. mem'.pc = "prepare" /\ mem'.evt.lane = "pull"
    BY <1>3, <1>5 DEF Memories
  <2>2. StillDevice
    BY <1>5, <2>1 DEF StillDevice, Barrier, Repairing, Ending
  <2> QED BY <1>1, <2>2, StillKeeps
<1>6. CASE /\ SelfOrigin(e) /\ journal' = Terminalized(journal, e.seq)
           /\ mem' = IF e.seq = journal.applied + 1 THEN rest ELSE Idle
  <2>1. mem'.pc \in {"apply", "idle"}
    BY <1>0, <1>3, <1>6 DEF Idle, Memories
  <2>2. CASE e.seq = journal.applied + 1
    <3>1. vault'[e.source] >= e.version
      BY <1>0, <1>6 DEF SelfOrigin
    <3>2. VersionPlaced(e.source, e.version)'
      BY <3>1 DEF VersionPlaced
    <3>3. PICK n \in Sequences : n = e.seq
      BY <1>0
    <3>4. \A f \in log : f.seq = n => VersionPlaced(f.source, f.version)'
      <4> TAKE f \in log
      <4>1. f.seq = n => f = e
        BY <1>0, <3>3
      <4> QED BY <3>2, <4>1 DEF VersionPlaced
    <3> QED BY <1>0, <1>6, <2>1, <2>2, <3>3, <3>4, AdvanceLoss
  <2>3. CASE e.seq # journal.applied + 1
    <3>1. PICK g : journal' = Blocked(journal, g)
      BY <1>6, <2>3 DEF Terminalized
    <3>2. StillDevice
      BY <1>0, <2>1, <3>1, BlockedFields
         DEF StillDevice, Barrier, Repairing, Working, Ending, ApplyPcs
    <3> QED BY <1>1, <3>2, StillKeeps
  <2> QED BY <2>2, <2>3
<1> QED BY <1>2, <1>4, <1>5, <1>6 DEF ApplyEvent

LEMMA RecoverLoss ==
    ASSUME SafetyInv, SafetyInv', LossInv, VaultForward, Recover
    PROVE  LossInv'
<1>0. /\ mem \in Memories /\ journal \in Journals /\ mem.pc = "recover" /\ UNCHANGED server
      /\ vault \in [Sources -> Nat]
  BY BoundsAssumption DEF SafetyInv, TypeOK, Recover, At, Versions
<1>1. LossForward
  BY <1>0, QuietLossForward DEF SafetyInv
<1>2. ASSUME mem'.pc \in {"repair", "idle"},
             NEW j \in Journals, j.applied = journal.applied, j.bound = journal.bound,
             j.done = journal.done, Barrier => j.barrier # None, journal' = j
      PROVE  LossInv'
  <2>1. StillDevice
    BY <1>2 DEF StillDevice, Barrier, Repairing, Working, Ending, ApplyPcs
  <2> QED BY <1>1, <2>1, StillKeeps
<1>3. [mem EXCEPT !.pc = "repair"].pc = "repair" /\ Idle.pc = "idle"
  BY <1>0 DEF Idle, Memories
<1>4. CASE UNCHANGED journal /\ mem' = [mem EXCEPT !.pc = "repair"]
  BY <1>0, <1>2, <1>3, <1>4 DEF Barrier
<1>5. ASSUME NEW r \in journal.rows, RecoverClean(r) PROVE LossInv'
  <2>1. PICK j : j = [journal EXCEPT !.rows = @ \ {r}]
    OBVIOUS
  <2>2. /\ j \in Journals /\ j.applied = journal.applied /\ j.bound = journal.bound
        /\ j.done = journal.done /\ j.barrier = journal.barrier
    BY <1>0, <2>1 DEF Journals
  <2>3. PICK b \in Journals : b = Barred(j)
    BY <2>2, JournalShape
  <2>4. b.applied = j.applied /\ b.bound = j.bound /\ b.done = j.done /\ b.barrier # None
    BY <2>2, <2>3, BarredFields
  <2>5. journal' \in {j, b} /\ mem'.pc \in {"repair", "idle"}
    BY <1>3, <1>5, <2>1, <2>3 DEF RecoverClean
  <2>6. CASE journal' = j
    BY <1>2, <2>2, <2>5, <2>6 DEF Barrier
  <2>7. CASE journal' = b
    BY <1>2, <2>2, <2>3, <2>4, <2>5, <2>7
  <2> QED BY <2>5, <2>6, <2>7
<1>6. ASSUME NEW r \in journal.rows, RecoverBlocked(r) PROVE LossInv'
  <2>1. PICK b \in Journals : b = Barred(journal)
    BY <1>0, JournalShape
  <2>2. b.applied = journal.applied /\ b.bound = journal.bound /\ b.done = journal.done /\ b.barrier # None
    BY <1>0, <2>1, BarredFields
  <2>3. journal' \in {journal, b} /\ mem'.pc \in {"repair", "idle"}
    BY <1>3, <1>6, <2>1 DEF RecoverBlocked
  <2>4. CASE journal' = journal
    BY <1>0, <1>2, <2>3, <2>4 DEF Barrier
  <2>5. CASE journal' = b
    BY <1>2, <2>1, <2>2, <2>3, <2>5
  <2> QED BY <2>3, <2>4, <2>5
<1>7. ASSUME NEW r \in journal.rows, RecoverMutated(r) PROVE LossInv'
  <2>0. /\ r \in Rows /\ r.source \in Sources /\ r.version \in Nat /\ r.seq \in Sequences
        /\ RowFits(journal, r) /\ RowFrom(r) /\ r.seq \in Nat
    BY <1>0, BoundsAssumption DEF Journals, Rows, Versions, Sequences, SafetyInv, RowsOK, RowsFit
  <2>1. CASE r.state = "prepared"
    <3>1. PICK b \in Journals : b = Blocked(journal, FALSE)
      BY <1>0, JournalShape
    <3>2. b.applied = journal.applied /\ b.bound = journal.bound /\ b.done = journal.done /\ b.barrier # None
      BY <1>0, <3>1, BlockedFields
    <3>3. journal' = b /\ mem'.pc = "idle"
      BY <1>3, <1>7, <2>1, <3>1 DEF RecoverMutated
    <3> QED BY <1>2, <3>1, <3>2, <3>3
  <2>2. CASE r.state # "prepared"
    <3>1. PICK q : q = [r EXCEPT !.state = "vault_mutated"]
      OBVIOUS
    <3>2. q \in Rows /\ q.seq = r.seq
      BY <2>0, <3>1 DEF Rows
    <3>3. PICK j \in Journals : j = WithRow(journal, q)
      BY <1>0, <3>2, JournalShape
    <3>4. /\ j.applied = journal.applied /\ j.bound = journal.bound /\ j.done = journal.done
          /\ j.barrier = journal.barrier
      BY <1>0, <3>2, <3>3, WithRowFields
    <3>5. /\ journal' = Terminalized(j, r.seq)
          /\ mem' = IF r.seq = journal.applied + 1 THEN [mem EXCEPT !.pc = "repair"] ELSE Idle
      BY <1>7, <2>2, <3>1, <3>3 DEF RecoverMutated
    <3>6. mem'.pc \in {"repair", "idle"}
      BY <1>3, <3>5
    <3>7. CASE r.seq = journal.applied + 1
      <4>1. vault'[r.source] = r.version
        BY <1>0, <1>7, <2>0 DEF RecoverMutated
      <4>2. PICK n \in Sequences : n = r.seq
        BY <2>0
      <4>3. Barrier \/ \A e \in log : e.seq = n => VersionPlaced(e.source, e.version)'
        <5> SUFFICES ASSUME ~Barrier PROVE \A e \in log : e.seq = n => VersionPlaced(e.source, e.version)'
          OBVIOUS
        <5>1. IsEvent(r)
          <6>1. run.checkpoint <= journal.applied /\ run.checkpoint \in Nat /\ journal.applied \in Nat
            BY BoundsAssumption DEF SafetyInv, BarrierOK, TypeOK, Runs, Journals, Sequences
          <6>2. ~(r.seq <= run.checkpoint)
            BY <2>0, <3>7, <6>1
          <6> QED BY <2>0, <6>2 DEF RowFrom
        <5>2. PICK s \in Sources : s = r.source
          BY <2>0
        <5>3. PICK v \in Nat : v = r.version
          BY <2>0
        <5>4. VersionPlaced(s, v)'
          BY <4>1, <5>2, <5>3 DEF VersionPlaced
        <5>5. \E e \in log : e.seq = n /\ e.source = s /\ e.version = v
          BY <4>2, <5>1, <5>2, <5>3 DEF IsEvent
        <5>6. n \in Nat /\ UNCHANGED log
          BY <1>0, <2>0, <4>2 DEF server
        <5> QED BY <5>4, <5>5, <5>6, NextIsPlaced
      <4>4. journal' = Terminalized(j, n) /\ n = journal.applied + 1
        BY <3>5, <3>7, <4>2
      <4>5. mem'.pc \in {"repair", "apply", "idle"}
        BY <3>6
      <4> QED BY <1>0, <3>3, <3>4, <4>2, <4>3, <4>4, <4>5, AdvanceLoss
    <3>8. CASE r.seq # journal.applied + 1
      <4>1. PICK t \in Journals : t = Terminalized(j, r.seq)
        BY <2>0, <3>3, JournalShape
      <4>2. /\ t.applied = j.applied /\ t.barrier # None /\ t.bound = j.bound /\ t.done = j.done
        BY <2>0, <3>3, <3>4, <3>8, <4>1, TerminalFields
      <4> QED BY <1>2, <3>4, <3>5, <3>6, <4>1, <4>2
    <3> QED BY <3>7, <3>8
  <2> QED BY <2>1, <2>2
<1> QED BY <1>4, <1>5, <1>6, <1>7 DEF Recover

LEMMA RunActionLoss ==
    ASSUME SafetyInv, SafetyInv', LossInv, VaultForward, NEW s \in Sources, RunAction(s)
    PROVE  LossInv'
<1>0. /\ mem.pc = "actions" /\ mem.pc \in RunPcs /\ UNCHANGED server
  BY DEF RunAction, At, RunPcs
<1>1. /\ mem \in Memories /\ journal \in Journals /\ Barrier /\ ~Repairing
      /\ mem.receipt.checkpoint = run.checkpoint
  BY <1>0, RunFacts
<1>2. LossForward
  BY <1>0, QuietLossForward DEF SafetyInv
<1>3. PICK j : j = [journal EXCEPT !.attempted = @ \cup {s}]
  OBVIOUS
<1>4. /\ j \in Journals /\ j.applied = journal.applied /\ j.barrier = journal.barrier
      /\ j.bound = journal.bound /\ j.done = journal.done
  BY <1>1, <1>3 DEF Journals
<1>5. PICK c \in Nat : c = run.checkpoint
  BY BoundsAssumption DEF SafetyInv, TypeOK, Runs, Sequences
<1>6. PICK v \in Versions : v = VersionAt(s, c)
  BY VersionAtIs DEF SafetyInv
<1>7. VersionAt(s, run.checkpoint)' = v
  BY <1>0, <1>2, <1>5, <1>6 DEF LossForward, server
<1>8. UNCHANGED run
  BY <1>0 DEF server
<1>9. CASE /\ journal' = j
           /\ mem' = [mem EXCEPT !.pc = "fetch",
                 !.evt = [lane |-> "repair", id |-> <<mem.receipt.id, s>>,
                          seq |-> journal.applied + 1,
                          source |-> s, version |-> VersionAt(s, mem.receipt.checkpoint),
                          base |-> vault[s]]]
  <2>1. mem'.pc = "fetch" /\ mem'.evt.source = s /\ mem'.evt.version = v
    BY <1>1, <1>5, <1>6, <1>9 DEF Memories
  <2>2. PlacesCheckpoint'
    BY <1>7, <2>1 DEF PlacesCheckpoint
  <2>3. ~Ending'
    BY <2>1 DEF Ending
  <2>4. Barrier'
    BY <1>1, <1>4, <1>9 DEF Barrier
  <2> QED BY <1>2, <1>4, <1>9, <2>2, <2>3, <2>4, LossFrame
<1>10. CASE /\ journal' = [j EXCEPT !.gap = TRUE, !.done = @ \cup {s}] /\ UNCHANGED mem
            /\ closed' = closed \cup {<<s, VersionAt(s, mem.receipt.checkpoint)>>}
  <2>1. /\ journal'.applied = j.applied /\ journal'.barrier = j.barrier
        /\ journal'.bound = j.bound /\ journal'.done = j.done \cup {s}
    BY <1>4, <1>10 DEF Journals
  <2>2. VersionPlaced(s, v)'
    BY <1>1, <1>5, <1>6, <1>10, ClosedPlaces
  <2>3. SourcePlaced(s)'
    BY <1>7, <2>2 DEF SourcePlaced, VersionPlaced
  <2>4. \A q \in journal'.done : q \in journal.done \/ SourcePlaced(q)'
    <3> SUFFICES ASSUME NEW q \in journal'.done, q \notin journal.done PROVE SourcePlaced(q)'
      OBVIOUS
    <3>1. q = s
      BY <1>4, <2>1
    <3> QED BY <2>3, <3>1
  <2>5. Barrier'
    BY <1>1, <1>4, <2>1 DEF Barrier
  <2>6. /\ Repairing' => Repairing /\ mem'.evt = mem.evt /\ run'.id = run.id
        /\ Ending' => Ending /\ run'.id = run.id
    BY <1>8, <1>10 DEF Repairing, Working, Ending
  <2> QED BY <1>0, <1>2, <1>4, <2>1, <2>4, <2>5, <2>6, LossFrame
<1>11. CASE journal' = Discarded(j) /\ mem' = [mem EXCEPT !.pc = "close"]
  <2>1. /\ journal'.applied = j.applied /\ journal'.barrier = j.barrier /\ journal'.done = {}
    BY <1>4, <1>11, DiscardedFields
  <2>2. mem'.pc = "close"
    BY <1>1, <1>11 DEF Memories
  <2>3. StillDevice
    BY <1>4, <2>1, <2>2 DEF StillDevice, Barrier, Repairing, Working, Ending, ApplyPcs
  <2> QED BY <1>2, <2>3, StillKeeps
<1>12. CASE journal' = [j EXCEPT !.gap = TRUE] /\ mem' = RepairBlocked
  <2>1. /\ journal'.applied = j.applied /\ journal'.barrier = j.barrier
        /\ journal'.bound = j.bound /\ journal'.done = j.done
    BY <1>4, <1>12 DEF Journals
  <2>2. mem'.pc = "outbound"
    BY <1>1, <1>12 DEF RepairBlocked, Settled, Memories
  <2>3. StillDevice
    BY <1>4, <2>1, <2>2 DEF StillDevice, Barrier, Repairing, Working, Ending, ApplyPcs
  <2> QED BY <1>2, <2>3, StillKeeps
<1> QED BY <1>3, <1>9, <1>10, <1>11, <1>12 DEF RunAction

\* When no download is pending, the whole checkpoint is placed.
LEMMA ActionsDoneLoss ==
    ASSUME SafetyInv, SafetyInv', LossInv, VaultForward, RunActionsDone
    PROVE  LossInv'
<1>0. /\ mem.pc = "actions" /\ mem.pc \in RunPcs /\ UNCHANGED <<server, vault, journal>>
      /\ Pending = {}
  BY DEF RunActionsDone, At, RunPcs
<1>1. /\ mem \in Memories /\ Barrier /\ ~Repairing /\ mem.receipt.checkpoint = run.checkpoint
      /\ vault \in [Sources -> Nat]
  BY <1>0, RunFacts, BoundsAssumption DEF SafetyInv, TypeOK, Versions
<1>2. /\ BoundHere /\ run.plan # None /\ run.plan \in [Sources -> Actions]
      /\ run.entries # None /\ run.entries \in Manifests
      /\ \A s \in Sources : run.entries[s].base = journal.known[s] /\ run.entries[s].have <= vault[s]
  BY <1>0 DEF SafetyInv, Planned, RunMade, TypeOK, Runs
<1>3. LossForward
  BY <1>0, QuietLossForward DEF SafetyInv
<1>4. ASSUME NEW s \in Sources PROVE SourcePlaced(s)'
  <2>1. PICK c \in Nat : c = run.checkpoint
    BY BoundsAssumption DEF SafetyInv, TypeOK, Runs, Sequences
  <2>2. PICK v \in Versions : v = VersionAt(s, c)
    BY VersionAtIs DEF SafetyInv
  <2>3. VersionAt(s, run.checkpoint)' = v
    BY <1>0, <1>3, <2>1, <2>2 DEF LossForward, server
  <2>4. run.plan[s] = PlannedAction(run.entries[s].have, run.entries[s].base, v)
    BY <1>2, <2>1, <2>2 DEF LossInv, PlanMade
  <2>5. /\ v \in Nat /\ run.entries[s].have \in Nat /\ run.entries[s].base \in Nat
        /\ journal.known[s] <= vault[s] /\ vault[s] \in Nat
    BY <1>1, <1>2, BoundsAssumption DEF Manifests, Versions, SafetyInv, KnownOK
  <2>6. CASE run.plan[s] \in {"no_change", "upload"}
    <3>1. v = run.entries[s].have \/ v = 0 \/ v = run.entries[s].base
      BY <2>4, <2>6 DEF PlannedAction
    <3>2. vault[s] >= v
      BY <1>2, <2>5, <3>1
    <3>3. VersionPlaced(s, v)'
      BY <1>0, <3>2 DEF VersionPlaced
    <3> QED BY <2>3, <3>3 DEF SourcePlaced, VersionPlaced
  <2>7. CASE run.plan[s] = "download"
    <3>1. s \in journal.done
      BY <1>0, <2>7 DEF Pending
    <3>2. SourcePlaced(s)
      BY <1>2, <3>1 DEF LossInv, DonePlaced
    <3> QED BY <1>0, <1>3, <3>2, PlacedStays DEF SafetyInv, server
  <2>8. CASE run.plan[s] = "conflict"
    <3>1. <<s, v>> \in closed'
      BY <1>1, <2>1, <2>2, <2>8 DEF RunActionsDone
    <3>2. VersionPlaced(s, v)'
      BY <3>1, ClosedPlaces
    <3> QED BY <2>3, <3>2 DEF SourcePlaced, VersionPlaced
  <2> QED BY <1>2, <2>6, <2>7, <2>8 DEF Actions
<1>5. AllPlaced'
  BY <1>4 DEF AllPlaced
<1>6. mem'.pc = "complete" /\ ~Repairing'
  BY <1>1 DEF RunActionsDone, Memories, Repairing, Working, ApplyPcs
<1>7. Barrier' /\ UNCHANGED journal
  BY <1>0, <1>1 DEF Barrier
<1> QED BY <1>3, <1>5, <1>6, <1>7, LossFrame

\* The cursor goes to the checkpoint, which is placed.
LEMMA RunCompletedLoss ==
    ASSUME SafetyInv, SafetyInv', LossInv, VaultForward, RunCompleted
    PROVE  LossInv'
<1>0. /\ mem.pc = "completed" /\ mem.pc \in RunPcs /\ UNCHANGED <<server, vault, closed>>
  BY DEF RunCompleted, At, RunPcs
<1>1. PICK c \in Sequences : c = mem.receipt.checkpoint
  BY <1>0, RunFacts DEF SafetyInv, TypeOK, Runs
<1>2. /\ mem \in Memories /\ journal \in Journals /\ Barrier /\ c = run.checkpoint /\ c \in Nat
  BY <1>0, <1>1, RunFacts, BoundsAssumption DEF Sequences
<1>3. LossForward
  BY <1>0, QuietLossForward DEF SafetyInv
<1>4. CASE journal' = Blocked(journal, FALSE) /\ mem' = RepairBlocked
  <2>1. mem'.pc = "outbound"
    BY <1>2, <1>4 DEF RepairBlocked, Settled, Memories
  <2>2. StillDevice
    BY <1>2, <1>4, <2>1, BlockedFields DEF StillDevice, Barrier, Repairing, Working, Ending, ApplyPcs
  <2> QED BY <1>3, <2>2, StillKeeps
<1>5. CASE /\ journal' = [Acknowledged(Discarded(journal), c) EXCEPT
                                 !.applied = c, !.barrier = None, !.gap = FALSE]
           /\ mem' = [Settled EXCEPT !.blocked = FALSE, !.retries = 0]
  <2>1. PICK d \in Journals : d = Discarded(journal)
    BY <1>2, JournalShape
  <2>2. PICK j \in Journals : j = Acknowledged(d, c)
    BY <1>1, <2>1, JournalShape
  <2>3. j.done = {}
    BY <1>1, <1>2, <2>1, <2>2, DiscardedFields, AcknowledgedFields
  <2>4. journal' = [j EXCEPT !.applied = c, !.barrier = None, !.gap = FALSE]
    BY <1>5, <2>1, <2>2
  <2>5. journal'.applied = c /\ journal'.done = {}
    BY <2>3, <2>4 DEF Journals
  <2>6. mem'.pc = "outbound"
    BY <1>2, <1>5 DEF Settled, Memories
  <2>7. \A e \in log : e.seq <= c => VersionPlaced(e.source, e.version)
    <3> SUFFICES ASSUME NEW e \in log, e.seq <= c PROVE VersionPlaced(e.source, e.version)
      OBVIOUS
    <3>1. e.source \in Sources /\ e.version \in Nat
      BY BoundsAssumption DEF SafetyInv, TypeOK, Events, Versions
    <3>2. e.version <= VersionAt(e.source, c) /\ VersionAt(e.source, c) \in Nat
      BY VersionAtIs, BoundsAssumption DEF SafetyInv, Versions
    <3>3. SourcePlaced(e.source)
      BY <1>0, <3>1 DEF LossInv, EndPlaced, Ending, AllPlaced
    <3>4. VersionPlaced(e.source, VersionAt(e.source, c))
      BY <1>2, <3>3 DEF SourcePlaced
    <3> QED BY <3>1, <3>2, <3>4, PlacedBelow DEF SafetyInv
  <2>8. AppliedPlaced'
    BY <1>0, <2>5, <2>7 DEF AppliedPlaced, VersionPlaced, server
  <2>9. ~Repairing' /\ ~Ending'
    BY <2>6 DEF Repairing, Working, Ending, ApplyPcs
  <2> QED BY <1>3, <2>5, <2>8, <2>9, LossFrame
<1> QED BY <1>1, <1>4, <1>5 DEF RunCompleted

\* The calls of a run: what the server does in them, and the device stays as it is.
LEMMA RunLoss ==
    ASSUME SafetyInv, SafetyInv', LossInv, VaultForward,
           \/ RunStart \/ RunPage \/ RunFinalize \/ RunList \/ RunClose \/ RunComplete
           \/ ManifestCallLost
    PROVE  LossInv'
<1>1. LossForward
  <2>1. CASE UNCHANGED server
    BY <2>1, QuietLossForward DEF SafetyInv
  <2>2. CASE StartManifest(journal.barrier)
    BY <2>2, StartLossForward DEF SafetyInv
  <2>3. CASE AppendPage(Capture) \/ FinalizeManifest(Capture) \/ ListActions \/ CompleteManifest
    BY <2>3, RunLossForward DEF SafetyInv
  <2> QED BY <2>1, <2>2, <2>3
          DEF RunStart, RunPage, RunFinalize, RunList, RunClose, RunComplete, ManifestCallLost
<1>2. StillDevice
  BY RestStill, RunStill
<1> QED BY <1>1, <1>2, StillKeeps

-------------------------------------------------------------------------------
(* With no conflict captures, the invariant of placed events.              *)

LEMMA LossInit == Init => LossInv
<1> SUFFICES ASSUME Init PROVE LossInv
  OBVIOUS
<1> QED
  BY NoneAssumption
  DEF Init, LossInv, LogPlain, Ahead, PlanMade, AppliedPlaced, DonePlaced, BoundHere, PlacesCheckpoint,
      Repairing, Working, ApplyPcs, EndPlaced, Ending

LEMMA LossStep ==
    ASSUME MaxCaptures = 0, SafetyInv, SafetyInv', LossInv, [Next]_vars
    PROVE  LossInv'
<1>1. CASE UNCHANGED vars
  BY <1>1
  DEF vars, server, LossInv, LogPlain, Ahead, PlanMade, AppliedPlaced, DonePlaced, BoundHere, PlacesCheckpoint,
      Repairing, Working, ApplyPcs, EndPlaced, Ending, AllPlaced, SourcePlaced, VersionPlaced, VersionAt,
      Barrier
<1> SUFFICES ASSUME Next PROVE LossInv'
  BY <1>1
<1>2. VaultForward
  BY VaultStep, ClosedGrows DEF VaultForward
<1>3. ASSUME UNCHANGED server, StillDevice PROVE LossInv'
  BY <1>2, <1>3, QuietLossForward, StillKeeps DEF SafetyInv
<1>4. CASE \/ Wake \/ Crash \/ RecoverFails \/ OutboundDone \/ AckNotOwed \/ PageDone \/ FetchLost
           \/ RepairDecision \/ Mark \/ Prepare \/ ExplicitRepair \/ Fetch \/ Replace
  <2>1. UNCHANGED server
    BY <1>4 DEF Wake, Crash, RecoverFails, OutboundDone, AckNotOwed, PageDone, FetchLost,
                RepairDecision, Mark, Prepare, ExplicitRepair, Fetch, Replace
  <2> QED BY <1>3, <1>4, <2>1, RestStill, SameStill, JournalStill
<1>5. CASE AckOwed \/ AckLost \/ Pull \/ PullLost
  <2>1. PullEvents \/ UNCHANGED <<log, nextSeq, inflight, delivered, run>>
    BY <1>5 DEF AckOwed, AckLost, AcknowledgeCursor, Pull, PullLost, server
  <2>2. LossForward
    BY <2>1, CursorLossForward DEF SafetyInv
  <2>3. StillDevice
    BY <1>5, RestStill, JournalStill
  <2> QED BY <1>2, <2>2, <2>3, StillKeeps
<1>6. CASE Others \/ ExpireRun \/ (\E s \in Sources : Upload(s))
  <2>1. LossForward
    BY <1>6, OthersLossForward DEF SafetyInv
  <2> QED BY <1>2, <1>6, <2>1, SameStill, StillKeeps
<1>7. CASE \/ RunStart \/ RunPage \/ RunFinalize \/ RunList \/ RunClose \/ RunComplete
           \/ ManifestCallLost
  BY <1>2, <1>7, RunLoss
<1>8. CASE Recover \/ Stage \/ Terminal \/ VaultFails \/ RunActionsDone \/ RunCompleted
  BY <1>2, <1>8, RecoverLoss, StageLoss, TerminalLoss, VaultFailsLoss, ActionsDoneLoss,
     RunCompletedLoss
<1>9. CASE (\E s \in Sources : RunAction(s)) \/ (\E e \in mem.page : ApplyEvent(e))
  BY <1>2, <1>9, RunActionLoss, ApplyEventLoss
<1> QED
  BY <1>4, <1>5, <1>6, <1>7, <1>8, <1>9 DEF Next, Cycle, Repair, Failure, User

\* What the server may forget is never lost: with no repair owed, every event the local
\* cursor has passed is in the vault or closed with a reason, whatever calls are lost,
\* writes are refused and processes die on the way.  Conflict captures are excluded:
\* they take numbers the device never sees (see the run device_checkpoint).
THEOREM NothingIsLostSilently ==
    ASSUME MaxCaptures = 0
    PROVE  Spec => []NoSilentLoss
<1>1. Init => SafetyInv /\ LossInv
  BY SafetyInit, LossInit
<1>2. SafetyInv /\ LossInv /\ [Next]_vars => SafetyInv' /\ LossInv'
  BY SafetyStep, LossStep
<1>3. SafetyInv /\ LossInv => NoSilentLoss
  <2> SUFFICES ASSUME SafetyInv, LossInv, ~RepairOwed, NEW e \in Deliverables,
                      e.seq <= journal.applied
               PROVE  Placed(e)
    BY DEF NoSilentLoss
  <2>1. ~Barrier /\ e \in log
    BY DEF RepairOwed, Barrier, Deliverables
  <2>2. VersionPlaced(e.source, e.version)
    BY <2>1 DEF LossInv, AppliedPlaced
  <2> QED BY <2>2 DEF VersionPlaced, Placed
<1> QED BY <1>1, <1>2, <1>3, PTL DEF Spec
===============================================================================
