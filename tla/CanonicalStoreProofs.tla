------------------------- MODULE CanonicalStoreProofs -------------------------
(***************************************************************************)
(* Proofs about CanonicalStore for every set of writers, commands and      *)
(* bounds: type correctness, the rows that running handlers and            *)
(* uncommitted events refer to stay alive, the order in which deliverable  *)
(* events become visible, that the store implements EventLog, what the     *)
(* tables say to each other, and that no publication is answered or        *)
(* authorised wrongly.                                                     *)
(***************************************************************************)
EXTENDS CanonicalStore, FiniteSetTheorems, TLAPS

StateInv == TypeOK /\ ReferencesExist

-------------------------------------------------------------------------------
(* Facts about locks, transactions and commands.                           *)

LEMMA NoneIsNoTxn == None \notin Txns
BY NoneAssumption DEF Txns

LEMMA PolicyRowIsLock == PolicyRow \in Locks
BY DEF Locks

\* The part of the type invariant the lock arguments use.
LEMMA ControlTypes ==
    ASSUME TypeOK
    PROVE  /\ holder \in [Locks -> Txns \cup {None}]
           /\ pending \in [Txns -> EventRecord \cup {None}]
           /\ indoubt \subseteq Txns
           /\ pc \in [Writers -> Labels]
           /\ attempt \in [Writers -> 1..MaxAttempts]
           /\ nextSeq \in Nat \ {0}
           /\ log \in Seq(EventRecord)
BY DEF TypeOK

LEMMA TxIsTxn ==
    ASSUME TypeOK, NEW w \in Writers
    PROVE  Tx(w) \in Txns /\ Tx(w)[1] = w /\ Tx(w)[2] = attempt[w]
BY DEF TypeOK, Tx, Txns

LEMMA TxnOfWriter ==
    ASSUME TypeOK, NEW t \in Txns
    PROVE  t[1] \in Writers /\ t[2] \in 1..MaxAttempts /\ t = <<t[1], t[2]>>
BY DEF Txns

\* What a command's fields are.
LEMMA CommandFields ==
    ASSUME NEW c \in Commands
    PROVE  /\ c.op \in Ops /\ c.event \in Events /\ c.source \in Sources /\ c.base \in Nat
           /\ c.content \in Contents \cup {None}
           /\ c.op \in {"create", "rename", "restore"} => c.target \in Locators
           /\ c.op = "restore" => c.tomb \in Events
           /\ c.op \in ResolveOps => c.conflict \in Events
<1>1. c \in Command
  BY CommandsAssumption
<1>2. /\ c.op \in Ops /\ c.event \in Events /\ c.source \in Sources /\ c.base \in Nat
      /\ c.content \in Contents \cup {None} /\ c.target \in Locators \cup {None}
      /\ c.tomb \in Events \cup {None} /\ c.conflict \in Events \cup {None}
  BY <1>1 DEF Command
<1> QED
  BY <1>2, CommandsAssumption

\* The operation families are disjoint.
LEMMA Families ==
    /\ \A op \in PublicationOps : op \notin LifecycleOps /\ op \notin ConflictOps /\ op # "restore"
    /\ \A op \in LifecycleOps : op \notin ConflictOps
    /\ \A op \in ConflictOps : op \notin PublicationOps /\ op \notin LifecycleOps /\ op # "restore"
    /\ \A op \in ResolveOps : op \in ConflictOps /\ op # "capture"
    /\ "capture" \in ConflictOps /\ "restore" \in LifecycleOps
BY DEF PublicationOps, LifecycleOps, ConflictOps, ResolveOps

LEMMA ReleasedType ==
    ASSUME TypeOK, NEW t
    PROVE  Released(t) \in [Locks -> Txns \cup {None}]
BY DEF TypeOK, Released

LEMMA LockedType ==
    ASSUME TypeOK, NEW w \in Writers
    PROVE  Locked(w) \in [Locks -> Txns \cup {None}]
BY TxIsTxn DEF TypeOK, Locked

LEMMA LabelsOfWriters ==
    ASSUME TypeOK, NEW w \in Writers
    PROVE  pc[w] \in Labels
BY DEF TypeOK

LEMMA ReceiptIsNumber ==
    ASSUME TypeOK, NEW c, Committed(c)
    PROVE  Receipt(c) \in Nat
<1>1. PICK j \in 1..Len(log) : log[j].cmd = c
  BY DEF Committed
<1>2. j \in ByKey(c.key)
  BY <1>1 DEF ByKey
<1>3. (CHOOSE i \in ByKey(c.key) : TRUE) \in ByKey(c.key)
  BY <1>2
<1>4. \A e \in EventRecord : e.seq \in Nat
  BY DEF EventRecord
<1>5. \A i \in 1..Len(log) : log[i] \in EventRecord
  BY DEF TypeOK
<1> QED
  BY <1>3, <1>4, <1>5 DEF Receipt, ByKey

-------------------------------------------------------------------------------
(* Every action is one of a few shapes.                                    *)

\* The tables stay as they are and only handler w moved.
LEMMA HandlerMoved ==
    ASSUME StateInv, NEW w \in Writers,
           UNCHANGED <<row, tombstones, conflicts>>,
           \A v \in Writers \ {w} :
              pc'[v] = pc[v] /\ cmd'[v] = cmd[v] /\ Tx(v)' = Tx(v) /\ pending'[Tx(v)] = pending[Tx(v)],
           HandlerReferences(w)',
           \A t \in Txns : pending'[t] # None => pending'[t] = pending[t] \/ EventReferences(pending'[t]),
           \A t \in indoubt' : pending'[t] # None
    PROVE  ReferencesExist'
<1>1. \A v \in Writers : HandlerReferences(v)'
  <2>1. ASSUME NEW v \in Writers, v # w
        PROVE  HandlerReferences(v)'
    <3>1. /\ pc'[v] = pc[v] /\ cmd'[v] = cmd[v] /\ pending'[Tx(v)'] = pending[Tx(v)]
          /\ HandlerReferences(v)
      BY <2>1 DEF StateInv, ReferencesExist
    <3> QED
      BY <3>1 DEF HandlerReferences
  <2> QED
    BY <2>1
<1>2. \A e \in Events : conflicts'[e] # None => row'[conflicts'[e].source] # None
  BY DEF StateInv, ReferencesExist
<1>3. ASSUME NEW t \in Txns, pending'[t] # None
      PROVE  EventReferences(pending[t])'
  BY <1>3 DEF StateInv, ReferencesExist, EventReferences
<1> QED
  BY <1>1, <1>2, <1>3 DEF ReferencesExist

\* What stays the same in all statements before the commit.
Statement ==
    /\ UNCHANGED <<tables, policyRev, indoubt, cmd, attempt>>
    /\ evidence' \in [Writers -> Nat]
    /\ failures' \in Nat

LEMMA OtherHandlers ==
    ASSUME TypeOK, NEW w \in Writers, NEW label, attempt' = attempt,
           pc' = [pc EXCEPT ![w] = label]
    PROVE  \A v \in Writers \ {w} : pc'[v] = pc[v] /\ Tx(v)' = Tx(v) /\ Tx(v) # Tx(w) /\ Tx(v) \in Txns
BY TxIsTxn DEF TypeOK, Tx

LEMMA AnswerKeepsState ==
    ASSUME StateInv, NEW w \in Writers, pc[w] # "idle", Statement,
           NEW kind \in AnswerKinds, NEW seq \in Nat, Answer(w, kind, seq),
           holder' = Released(Tx(w)), pending' = pending, nextSeq' \in {nextSeq, nextSeq + 1}
    PROVE  StateInv'
<1>1. TypeOK'
  <2>1. pc' \in [Writers -> Labels]
    BY DEF StateInv, TypeOK, Answer, Labels
  <2>2. answer' \in [Writers -> {None} \cup [kind : AnswerKinds, seq : Nat]]
    BY DEF StateInv, TypeOK, Answer
  <2>3. nextSeq' \in Nat \ {0}
    BY DEF StateInv, TypeOK
  <2>4. holder' \in [Locks -> Txns \cup {None}]
    BY ReleasedType DEF StateInv
  <2> QED
    BY <2>1, <2>2, <2>3, <2>4 DEF StateInv, TypeOK, Statement, tables
<1>2. HandlerReferences(w)'
  BY DEF StateInv, ReferencesExist, HandlerReferences, Answer, Statement, TypeOK
<1>3. \A v \in Writers \ {w} : pc'[v] = pc[v] /\ Tx(v)' = Tx(v)
  BY OtherHandlers DEF StateInv, Answer, Statement
<1>4. ReferencesExist'
  BY <1>2, <1>3, HandlerMoved DEF StateInv, ReferencesExist, Statement, tables
<1> QED
  BY <1>1, <1>4 DEF StateInv

LEMMA ReplyKeepsState ==
    ASSUME StateInv, NEW w \in Writers, pc[w] # "idle", Statement,
           NEW kind \in AnswerKinds, NEW seq \in Nat, Reply(w, kind, seq)
    PROVE  StateInv'
BY AnswerKeepsState DEF Reply

\* The handler goes on to a label whose references it has found.
LEMMA AdvanceKeepsState ==
    ASSUME StateInv, NEW w \in Writers, Statement,
           NEW label \in Labels, Goto(w, label), holder' \in {holder, Locked(w)},
           UNCHANGED <<pending, nextSeq>>, HandlerReferences(w)'
    PROVE  StateInv'
<1>1. TypeOK'
  <2>1. pc' \in [Writers -> Labels]
    BY DEF StateInv, TypeOK, Goto
  <2>2. holder' \in [Locks -> Txns \cup {None}]
    BY LockedType DEF StateInv, TypeOK
  <2> QED
    BY <2>1, <2>2 DEF StateInv, TypeOK, Statement, tables, Goto
<1>2. \A v \in Writers \ {w} : pc'[v] = pc[v] /\ Tx(v)' = Tx(v)
  BY OtherHandlers DEF StateInv, Goto, Statement
<1>3. ReferencesExist'
  BY <1>2, HandlerMoved DEF StateInv, ReferencesExist, Statement, tables
<1> QED
  BY <1>1, <1>3 DEF StateInv

\* The handler writes its event and is about to commit, or meets a duplicate.
LEMMA WriteKeepsState ==
    ASSUME StateInv, NEW w \in Writers, pc[w] # "idle", Statement,
           NEW version \in Nat, NEW content \in Contents \cup {None},
           NEW intent \in {"upsert", "delete", "none"},
           Write(w, NewEvent(w, version, content, intent)),
           EventReferences(NewEvent(w, version, content, intent))
    PROVE  StateInv'
<1> DEFINE e == NewEvent(w, version, content, intent)
<1>1. CASE ByEvent(cmd[w].event) # {} \/ ByKey(cmd[w].key) # {}
  BY <1>1, AnswerKeepsState DEF Write, AnswerKinds
<1>2. CASE ~(ByEvent(cmd[w].event) # {} \/ ByKey(cmd[w].key) # {})
  <2>0. cmd[w] \in Commands /\ Tx(w) \in Txns /\ Tx(w)' = Tx(w)
    BY TxIsTxn DEF StateInv, ReferencesExist, HandlerReferences, TypeOK, Statement, Tx
  <2>1. /\ pc' = [pc EXCEPT ![w] = "commit"] /\ answer' = answer
        /\ holder' = Locked(w)
        /\ pending' = [pending EXCEPT ![Tx(w)] = e]
        /\ nextSeq' = nextSeq + 1
    BY <1>2 DEF Write, Goto
  <2>2. e \in EventRecord
    <3>1. nextSeq \in Nat \ {0} /\ policyRev \in Nat /\ cmd[w].base \in Nat
      BY <2>0, CommandFields DEF StateInv, TypeOK
    <3> QED
      BY <2>0, <3>1 DEF NewEvent, EventRecord
  <2>3. e # None
    BY <2>2, NoneAssumption
  <2> HIDE DEF e
  <2>4. TypeOK'
    <3>1. pc' \in [Writers -> Labels]
      BY <2>1 DEF StateInv, TypeOK, Labels
    <3>2. holder' \in [Locks -> Txns \cup {None}]
      BY <2>1, LockedType DEF StateInv, TypeOK
    <3>3. pending' \in [Txns -> EventRecord \cup {None}]
      BY <2>1, <2>2 DEF StateInv, TypeOK
    <3>4. nextSeq' \in Nat \ {0}
      BY <2>1 DEF StateInv, TypeOK
    <3> QED
      BY <2>1, <3>1, <3>2, <3>3, <3>4 DEF StateInv, TypeOK, Statement, tables
  <2>5. \A t \in Txns : pending'[t] = IF t = Tx(w) THEN e ELSE pending[t]
    BY <2>1 DEF StateInv, TypeOK
  <2>6. HandlerReferences(w)'
    BY <2>0, <2>1, <2>3, <2>5 DEF StateInv, ReferencesExist, HandlerReferences, Statement, TypeOK
  <2>7. \A v \in Writers \ {w} : pc'[v] = pc[v] /\ Tx(v)' = Tx(v) /\ pending'[Tx(v)] = pending[Tx(v)]
    BY <2>1, <2>5, OtherHandlers DEF StateInv, Statement
  <2>8. ReferencesExist'
    BY <2>3, <2>5, <2>6, <2>7, HandlerMoved DEF StateInv, ReferencesExist, Statement, tables, e, TypeOK
  <2> QED
    BY <2>4, <2>8 DEF StateInv
<1> QED
  BY <1>1, <1>2

-------------------------------------------------------------------------------
(* Statements of the three families.                                       *)

LEMMA UnmovedIsStatement ==
    ASSUME TypeOK, Unmoved
    PROVE  Statement
BY DEF TypeOK, Unmoved, Statement, tables

LEMMA PublicationKeepsState ==
    ASSUME StateInv, NEW w \in Writers, Publication(w)
    PROVE  StateInv'
<1>0. TypeOK /\ ReferencesExist /\ 0 \in Nat
      /\ {"replayed", "rejected", "denied"} \subseteq AnswerKinds
  BY DEF StateInv, AnswerKinds
<1>1. CASE Preflight(w)
  <2>1. Statement /\ pc[w] = "preflight"
    BY <1>0, <1>1 DEF Preflight, Statement, tables, TypeOK
  <2>2. \/ \E kind \in AnswerKinds, seq \in Nat : Reply(w, kind, seq)
        \/ Read(w, "key")
    BY <1>0, <1>1, ReceiptIsNumber DEF Preflight
  <2>3. CASE Read(w, "key")
    <3>1. HandlerReferences(w)'
      BY <1>0, <2>1, <2>3 DEF Read, Goto, HandlerReferences, ReferencesExist, Statement, TypeOK
    <3> QED
      BY <2>1, <2>3, <3>1, AdvanceKeepsState DEF Read, Labels
  <2> QED
    BY <2>1, <2>2, <2>3, ReplyKeepsState
<1>2. CASE PubKey(w)
  <2>1. Statement /\ pc[w] = "key" /\ cmd[w].op \in PublicationOps
    BY <1>0, <1>2, UnmovedIsStatement DEF PubKey
  <2>2. CASE Proceed(w, "policy")
    <3>1. HandlerReferences(w)'
      BY <1>0, <2>1, <2>2, Families
         DEF Proceed, Goto, HandlerReferences, ReferencesExist, Statement, TypeOK
    <3> QED
      BY <2>1, <2>2, <3>1, AdvanceKeepsState DEF Proceed, Labels
  <2> QED
    BY <1>0, <1>2, <2>1, <2>2, ReplyKeepsState DEF PubKey
<1>3. CASE PubPolicy(w)
  <2>1. Statement /\ pc[w] = "policy" /\ cmd[w].op \in PublicationOps
    BY <1>0, <1>3, UnmovedIsStatement DEF PubPolicy
  <2>2. \/ \E kind \in AnswerKinds, seq \in Nat : Reply(w, kind, seq)
        \/ Proceed(w, "source")
    BY <1>0, <1>3, ReceiptIsNumber DEF PubPolicy
  <2>3. CASE Proceed(w, "source")
    <3>1. HandlerReferences(w)'
      BY <1>0, <2>1, <2>3, Families
         DEF Proceed, Goto, HandlerReferences, ReferencesExist, Statement, TypeOK
    <3> QED
      BY <2>1, <2>3, <3>1, AdvanceKeepsState DEF Proceed, Labels
  <2> QED
    BY <2>1, <2>2, <2>3, ReplyKeepsState
<1>4. CASE PubSource(w)
  <2>1. Statement /\ pc[w] = "source" /\ cmd[w].op \in PublicationOps
    BY <1>0, <1>4, UnmovedIsStatement DEF PubSource
  <2>2. cmd[w] \in Commands /\ cmd[w].content \in Contents \cup {None} /\ cmd[w].source \in Sources
    BY <1>0, <2>1, CommandFields DEF ReferencesExist, HandlerReferences, TypeOK
  <2>3. \/ Reply(w, "rejected", 0)
        \/ /\ Answer(w, "rejected", 0) /\ holder' = Released(Tx(w))
           /\ pending' = pending /\ nextSeq' = nextSeq + 1
        \/ \E version \in Nat, content \in Contents \cup {None}, intent \in {"upsert", "none"} :
             Write(w, NewEvent(w, version, content, intent))
    <3>1. Exists(w) => Current(w) \in Nat /\ Content(w) \in Contents \cup {None}
      BY <1>0, <2>2 DEF Exists, Current, Content, TypeOK, SourceRow
    <3>2. CASE cmd[w].op = "create"
      BY <1>4, <2>2, <3>2 DEF PubSource, CreateTransition
    <3>3. CASE cmd[w].op # "create"
      BY <1>4, <2>2, <3>1, <3>3 DEF PubSource, UpdateTransition, InState
    <3> QED
      BY <3>2, <3>3
  <2>4. \A version, content, intent : EventReferences(NewEvent(w, version, content, intent))
    BY <2>1, Families DEF EventReferences, NewEvent
  <2> QED
    BY <1>0, <2>1, <2>3, <2>4, ReplyKeepsState, AnswerKeepsState, WriteKeepsState
<1> QED
  BY <1>1, <1>2, <1>3, <1>4 DEF Publication

LEMMA LifecycleKeepsState ==
    ASSUME StateInv, NEW w \in Writers, Lifecycle(w)
    PROVE  StateInv'
<1>0. TypeOK /\ ReferencesExist /\ 0 \in Nat
      /\ {"replayed", "rejected", "denied"} \subseteq AnswerKinds
  BY DEF StateInv, AnswerKinds
<1>1. CASE LifeLookup(w)
  <2>1. Statement /\ pc[w] = "lookup"
    BY <1>0, <1>1, UnmovedIsStatement DEF LifeLookup
  <2>2. \/ \E kind \in AnswerKinds, seq \in Nat : Reply(w, kind, seq)
        \/ Read(w, "key")
    BY <1>0, <1>1, ReceiptIsNumber DEF LifeLookup
  <2>3. CASE Read(w, "key")
    <3>1. HandlerReferences(w)'
      BY <1>0, <2>1, <2>3 DEF Read, Goto, HandlerReferences, ReferencesExist, Statement, TypeOK
    <3> QED
      BY <2>1, <2>3, <3>1, AdvanceKeepsState DEF Read, Labels
  <2> QED
    BY <2>1, <2>2, <2>3, ReplyKeepsState
<1>2. CASE LifeKey(w)
  <2>1. Statement /\ pc[w] = "key" /\ cmd[w].op \in LifecycleOps /\ Proceed(w, "source")
    BY <1>0, <1>2, UnmovedIsStatement DEF LifeKey
  <2>2. HandlerReferences(w)'
    BY <1>0, <2>1, Families
       DEF Proceed, Goto, HandlerReferences, ReferencesExist, Statement, TypeOK
  <2> QED
    BY <2>1, <2>2, AdvanceKeepsState DEF Proceed, Labels
<1>3. CASE LifeSource(w)
  <2>1. Statement /\ pc[w] = "source" /\ cmd[w].op \in LifecycleOps /\ Proceed(w, "locators")
    BY <1>0, <1>3, UnmovedIsStatement DEF LifeSource
  <2>2. HandlerReferences(w)'
    BY <1>0, <2>1, Families
       DEF Proceed, Goto, HandlerReferences, ReferencesExist, Statement, TypeOK
  <2> QED
    BY <2>1, <2>2, AdvanceKeepsState DEF Proceed, Labels
<1>4. CASE LifeLocators(w)
  <2>1. Statement /\ pc[w] = "locators" /\ cmd[w].op \in LifecycleOps
    BY <1>0, <1>4, UnmovedIsStatement DEF LifeLocators, ReferencesExist, HandlerReferences
  <2>2. CASE LifecyclePreconditions(w) /\ Proceed(w, "policy")
    <3>1. /\ row[cmd[w].source] # None
          /\ cmd[w].op = "restore" => tombstones[cmd[w].tomb] # None
      BY <2>2 DEF LifecyclePreconditions, InState, Exists, TombstoneMatches
    <3>2. HandlerReferences(w)'
      BY <1>0, <2>1, <2>2, <3>1, Families
         DEF Proceed, Goto, HandlerReferences, ReferencesExist, Statement, tables, TypeOK
    <3> QED
      BY <2>1, <2>2, <3>2, AdvanceKeepsState DEF Proceed, Labels
  <2> QED
    BY <1>0, <1>4, <2>1, <2>2, ReplyKeepsState DEF LifeLocators
<1>5. CASE LifePolicy(w)
  <2>1. Statement /\ pc[w] = "policy" /\ cmd[w].op \in LifecycleOps
    BY <1>0, <1>5, UnmovedIsStatement DEF LifePolicy
  <2>2. /\ cmd[w] \in Commands /\ cmd[w].source \in Sources /\ row[cmd[w].source] # None
        /\ cmd[w].op = "restore" => tombstones[cmd[w].tomb] # None
    BY <1>0, <2>1, CommandFields DEF ReferencesExist, HandlerReferences, TypeOK
  <2>3. Current(w) \in Nat /\ Content(w) \in Contents \cup {None}
    BY <1>0, <2>2 DEF Current, Content, TypeOK, SourceRow
  <2>4. LifecycleIntent(cmd[w]) \in {"upsert", "delete", "none"}
    BY DEF LifecycleIntent
  <2>5. \A version, content, intent : EventReferences(NewEvent(w, version, content, intent))
    BY <2>1, <2>2, Families DEF EventReferences, NewEvent
  <2> QED
    BY <1>0, <1>5, <2>1, <2>3, <2>4, <2>5, ReplyKeepsState, WriteKeepsState DEF LifePolicy
<1> QED
  BY <1>1, <1>2, <1>3, <1>4, <1>5 DEF Lifecycle

LEMMA ConflictsKeepState ==
    ASSUME StateInv, NEW w \in Writers, Conflicts(w)
    PROVE  StateInv'
<1>0. TypeOK /\ ReferencesExist /\ 0 \in Nat
      /\ {"replayed", "rejected", "denied"} \subseteq AnswerKinds
  BY DEF StateInv, AnswerKinds
<1>1. CASE ConfReview(w)
  <2>1. Statement /\ pc[w] = "review"
    BY <1>0, <1>1, UnmovedIsStatement DEF ConfReview
  <2>2. CASE Read(w, "key")
    <3>1. HandlerReferences(w)'
      BY <1>0, <2>1, <2>2 DEF Read, Goto, HandlerReferences, ReferencesExist, Statement, TypeOK
    <3> QED
      BY <2>1, <2>2, <3>1, AdvanceKeepsState DEF Read, Labels
  <2> QED
    BY <1>0, <1>1, <2>1, <2>2, ReplyKeepsState DEF ConfReview
<1>2. CASE ConfKeyCapture(w)
  <2>1. Statement /\ pc[w] = "key" /\ cmd[w].op = "capture"
    BY <1>0, <1>2, UnmovedIsStatement DEF ConfKeyCapture
  <2>2. \/ \E kind \in AnswerKinds, seq \in Nat : Reply(w, kind, seq)
        \/ CaptureReferences(w) /\ Proceed(w, "source")
    BY <1>0, <1>2, ReceiptIsNumber DEF ConfKeyCapture
  <2>3. CASE CaptureReferences(w) /\ Proceed(w, "source")
    <3>1. HandlerReferences(w)'
      BY <1>0, <2>1, <2>3, Families
         DEF Proceed, Goto, HandlerReferences, ReferencesExist, Statement, tables, TypeOK,
             CaptureReferences, Exists
    <3> QED
      BY <2>1, <2>3, <3>1, AdvanceKeepsState DEF Proceed, Labels
  <2> QED
    BY <2>1, <2>2, <2>3, ReplyKeepsState
<1>3. CASE ConfKeyResolve(w)
  <2>1. Statement /\ pc[w] = "key" /\ cmd[w].op \in ResolveOps
    BY <1>0, <1>3, UnmovedIsStatement DEF ConfKeyResolve
  <2>2. \A i \in Resolutions(cmd[w].event) : log[i].seq \in Nat
    <3>1. \A e \in EventRecord : e.seq \in Nat
      BY DEF EventRecord
    <3> QED
      BY <1>0, <3>1 DEF Resolutions, ByEvent, TypeOK
  <2>3. \/ \E kind \in AnswerKinds, seq \in Nat : Reply(w, kind, seq)
        \/ Proceed(w, "conflict")
    BY <1>0, <1>3, <2>2 DEF ConfKeyResolve
  <2>4. CASE Proceed(w, "conflict")
    <3>1. HandlerReferences(w)'
      BY <1>0, <2>1, <2>4
         DEF Proceed, Goto, HandlerReferences, ReferencesExist, Statement, tables, TypeOK
    <3> QED
      BY <2>1, <2>4, <3>1, AdvanceKeepsState DEF Proceed, Labels
  <2> QED
    BY <2>1, <2>3, <2>4, ReplyKeepsState
<1>4. CASE ConfRow(w)
  <2>1. Statement /\ pc[w] = "conflict" /\ cmd[w].op \in ResolveOps
    BY <1>0, <1>4, UnmovedIsStatement DEF ConfRow, ReferencesExist, HandlerReferences
  <2>2. CASE /\ conflicts[cmd[w].conflict] # None
             /\ conflicts[cmd[w].conflict].source = cmd[w].source
             /\ Proceed(w, "source")
    <3>1. cmd[w].conflict \in Events
      BY <1>0, <2>1, CommandFields DEF ReferencesExist, HandlerReferences, TypeOK
    <3>2. row[cmd[w].source] # None
      BY <1>0, <2>2, <3>1 DEF ReferencesExist
    <3>3. HandlerReferences(w)'
      BY <1>0, <2>1, <2>2, <3>2, Families
         DEF Proceed, Goto, HandlerReferences, ReferencesExist, Statement, tables, TypeOK
    <3> QED
      BY <2>1, <2>2, <3>3, AdvanceKeepsState DEF Proceed, Labels
  <2> QED
    BY <1>0, <1>4, <2>1, <2>2, ReplyKeepsState DEF ConfRow
<1>5. CASE ConfSource(w)
  <2>1. Statement /\ pc[w] = "source" /\ cmd[w].op \in ConflictOps
    BY <1>0, <1>5, UnmovedIsStatement DEF ConfSource
  <2>2. /\ cmd[w] \in Commands /\ cmd[w].source \in Sources /\ row[cmd[w].source] # None
        /\ cmd[w].op \in ResolveOps =>
             cmd[w].conflict \in Events /\ conflicts[cmd[w].conflict] # None
        /\ cmd[w].content \in Contents \cup {None}
    BY <1>0, <2>1, CommandFields DEF ReferencesExist, HandlerReferences, TypeOK
  <2>3. Current(w) \in Nat /\ Content(w) \in Contents \cup {None}
    BY <1>0, <2>2 DEF Current, Content, TypeOK, SourceRow
  <2>4. cmd[w].op \in ResolveOps => conflicts[cmd[w].conflict].candidate \in Contents \cup {None}
    BY <1>0, <2>2 DEF TypeOK, ConflictRecord
  <2>5. \A version, content, intent : EventReferences(NewEvent(w, version, content, intent))
    BY <2>1, <2>2, Families DEF EventReferences, NewEvent
  <2>6. \/ Reply(w, "rejected", 0)
        \/ \E version \in Nat, content \in Contents \cup {None}, intent \in {"upsert", "none"} :
             Write(w, NewEvent(w, version, content, intent))
    <3>1. CASE cmd[w].op = "capture" /\ CaptureTransition(w)
      BY <1>0, <2>2, <3>1 DEF CaptureTransition
    <3>2. CASE StaleSuccessor(w)
      BY <1>0, <3>2 DEF StaleSuccessor
    <3>3. CASE cmd[w].op \in ResolveOps /\ Winner(w)
      BY <2>2, <2>3, <2>4, <3>3 DEF Winner
    <3> QED
      BY <1>5, <3>1, <3>2, <3>3 DEF ConfSource
  <2> QED
    BY <1>0, <2>1, <2>5, <2>6, ReplyKeepsState, WriteKeepsState
<1> QED
  BY <1>1, <1>2, <1>3, <1>4, <1>5 DEF Conflicts

-------------------------------------------------------------------------------
(* The commit.                                                             *)

LEMMA PendingFields ==
    ASSUME StateInv, NEW t \in Txns, pending[t] # None
    PROVE  /\ pending[t] \in EventRecord /\ pending[t].cmd \in Commands
           /\ pending[t].seq \in Nat /\ pending[t].version \in Nat
           /\ pending[t].content \in Contents \cup {None}
           /\ EventReferences(pending[t])
<1>1. pending[t] \in EventRecord
  BY DEF StateInv, TypeOK
<1>2. \A e \in EventRecord : /\ e.cmd \in Commands /\ e.seq \in Nat /\ e.version \in Nat
                             /\ e.content \in Contents \cup {None}
  BY DEF EventRecord
<1> QED
  BY <1>1, <1>2 DEF StateInv, ReferencesExist

\* Every table keeps its type, and no row it has disappears.
LEMMA ApplyKeepsTables ==
    ASSUME StateInv, NEW t \in Txns, pending[t] # None, Apply(t)
    PROVE  /\ log' \in Seq(EventRecord)
           /\ row' \in [Sources -> {None} \cup SourceRow]
           /\ locators' \subseteq [source : Sources, locator : Locators, opened : Nat, closed : Nat]
           /\ tombstones' \in [Events -> {None} \cup TombstoneRow]
           /\ conflicts' \in [Events -> {None} \cup ConflictRecord]
           /\ \A s \in Sources : row[s] # None => row'[s] # None
           /\ \A d \in Events : tombstones[d] # None => tombstones'[d] # None
           /\ \A d \in Events : conflicts[d] # None => conflicts'[d] # None
           /\ \A d \in Events : conflicts'[d] # None => row'[conflicts'[d].source] # None
<1> DEFINE e == pending[t]
<1>0. /\ e \in EventRecord /\ e.cmd \in Commands /\ e.seq \in Nat /\ e.version \in Nat
      /\ e.content \in Contents \cup {None}
      /\ EventReferences(e)
  BY PendingFields
<1>1. /\ e.cmd.op \in Ops /\ e.cmd.event \in Events /\ e.cmd.source \in Sources
      /\ e.cmd.op \in {"create", "rename", "restore"} => e.cmd.target \in Locators
      /\ e.cmd.op = "restore" => e.cmd.tomb \in Events
      /\ e.cmd.op \in ResolveOps => e.cmd.conflict \in Events
  BY <1>0, CommandFields
<1>2. /\ log' = Append(log, e)
      /\ row' = IF MovesSource(e) THEN [row EXCEPT ![e.cmd.source] = SourceAfter(e)] ELSE row
      /\ locators' = LocatorsAfter(e)
      /\ tombstones' = TombstonesAfter(e)
      /\ conflicts' = ConflictsAfter(e)
  BY DEF Apply
<1> HIDE DEF e
<1>3. log' \in Seq(EventRecord)
  BY <1>0, <1>2 DEF StateInv, TypeOK
<1>4. row' \in [Sources -> {None} \cup SourceRow] /\ \A s \in Sources : row[s] # None => row'[s] # None
  <2>1. SourceAfter(e) \in SourceRow /\ SourceAfter(e) # None
    <3>1. SourceAfter(e) \in SourceRow
      BY <1>0 DEF SourceAfter, SourceRow
    <3> QED
      BY <3>1, NoneAssumption
  <2> QED
    BY <1>1, <1>2, <2>1 DEF StateInv, TypeOK
<1>5. locators' \subseteq [source : Sources, locator : Locators, opened : Nat, closed : Nat]
  <2> DEFINE L == [source : Sources, locator : Locators, opened : Nat, closed : Nat]
  <2>1. Closed(e.cmd.source, e.seq) \subseteq L
    <3>1. \A r \in L : [r EXCEPT !.closed = e.seq] \in L
      BY <1>0
    <3>2. locators \subseteq L
      BY DEF StateInv, TypeOK
    <3> HIDE DEF L
    <3> QED
      BY <3>1, <3>2 DEF Closed
  <2>2. e.cmd.op \in {"create", "rename", "restore"} =>
          Opened(e.cmd.source, e.cmd.target, e.seq) \in L
    BY <1>0, <1>1 DEF Opened
  <2>3. locators \subseteq L
    BY DEF StateInv, TypeOK
  <2> HIDE DEF L
  <2>4. LocatorsAfter(e) \subseteq L
    BY <2>1, <2>2, <2>3 DEF LocatorsAfter
  <2> QED
    BY <1>2, <2>4 DEF L
<1>6. /\ tombstones' \in [Events -> {None} \cup TombstoneRow]
      /\ \A d \in Events : tombstones[d] # None => tombstones'[d] # None
  <2>0. tombstones \in [Events -> {None} \cup TombstoneRow] /\ None \notin TombstoneRow
    BY NoneAssumption DEF StateInv, TypeOK
  <2>1. CASE e.cmd.op = "delete"
    <3>1. tombstones' = [tombstones EXCEPT ![e.cmd.event] =
                           [source |-> e.cmd.source, version |-> e.version, closed |-> 0]]
      BY <1>2, <2>1 DEF TombstonesAfter
    <3>2. [source |-> e.cmd.source, version |-> e.version, closed |-> 0] \in TombstoneRow
      BY <1>0, <1>1 DEF TombstoneRow
    <3> QED
      BY <1>1, <2>0, <3>1, <3>2
  <2>2. CASE e.cmd.op = "restore"
    <3>1. tombstones' = [tombstones EXCEPT ![e.cmd.tomb] =
                           [tombstones[e.cmd.tomb] EXCEPT !.closed = e.seq]]
      BY <1>2, <2>2 DEF TombstonesAfter
    <3>2. tombstones[e.cmd.tomb] \in TombstoneRow
      BY <1>0, <1>1, <2>0, <2>2 DEF EventReferences
    <3>3. [tombstones[e.cmd.tomb] EXCEPT !.closed = e.seq] \in TombstoneRow
      BY <1>0, <3>2 DEF TombstoneRow
    <3> QED
      BY <1>1, <2>0, <2>2, <3>1, <3>3
  <2>3. CASE e.cmd.op \notin {"delete", "restore"}
    BY <1>2, <2>0, <2>3 DEF TombstonesAfter
  <2> QED
    BY <2>1, <2>2, <2>3
<1>7. /\ conflicts' \in [Events -> {None} \cup ConflictRecord]
      /\ \A d \in Events : conflicts[d] # None => conflicts'[d] # None
      /\ \A d \in Events : conflicts'[d] # None =>
           \/ conflicts[d] # None /\ conflicts'[d].source = conflicts[d].source
           \/ e.cmd.op \in ConflictOps /\ conflicts'[d].source = e.cmd.source
  <2>0. conflicts \in [Events -> {None} \cup ConflictRecord] /\ None \notin ConflictRecord
    BY NoneAssumption DEF StateInv, TypeOK
  <2>1. \A content \in Contents \cup {None} :
          /\ Conflict(e.cmd.source, content) \in ConflictRecord
          /\ Conflict(e.cmd.source, content).source = e.cmd.source
    BY <1>1 DEF Conflict, ConflictRecord
  <2>2. CASE e.cmd.op = "capture"
    <3>1. conflicts' = [conflicts EXCEPT ![e.cmd.event] = Conflict(e.cmd.source, e.content)]
      BY <1>2, <2>2 DEF ConflictsAfter, ResolveOps
    <3>2. e.cmd.op \in ConflictOps
      BY <2>2, Families
    <3> QED
      BY <1>0, <1>1, <2>0, <2>1, <3>1, <3>2
  <2>3. CASE e.cmd.op \in ResolveOps
    <3> DEFINE old == conflicts[e.cmd.conflict]
               closed(st) == [[old EXCEPT !.status = st] EXCEPT !.by = e.cmd.event]
    <3>1. old \in ConflictRecord /\ e.cmd.op \in ConflictOps /\ e.cmd.op # "capture"
      BY <1>0, <1>1, <2>0, <2>3, Families DEF EventReferences
    <3>2. \A st \in {"resolved", "superseded"} :
            closed(st) \in ConflictRecord /\ closed(st).source = old.source
      BY <1>1, <3>1 DEF ConflictRecord
    <3>3. old.candidate \in Contents \cup {None}
      BY <3>1 DEF ConflictRecord
    <3>4. CASE e.version = 0
      <4> DEFINE mid == [conflicts EXCEPT ![e.cmd.conflict] = closed("superseded")]
      <4>1. conflicts' = [mid EXCEPT ![e.cmd.event] = Conflict(e.cmd.source, old.candidate)]
        BY <1>1, <1>2, <2>0, <2>3, <3>1, <3>4 DEF ConflictsAfter
      <4>2. /\ mid \in [Events -> {None} \cup ConflictRecord]
            /\ \A d \in Events : conflicts[d] # None => mid[d] # None
            /\ \A d \in Events : mid[d] # None =>
                 conflicts[d] # None /\ mid[d].source = conflicts[d].source
        <5> HIDE DEF closed
        <5> QED
          BY <1>1, <2>0, <3>1, <3>2
      <4> HIDE DEF mid, old
      <4> QED
        BY <1>1, <2>0, <2>1, <3>1, <3>3, <4>1, <4>2
    <3>5. CASE e.version # 0
      <4>1. conflicts' = [conflicts EXCEPT ![e.cmd.conflict] = closed("resolved")]
        BY <1>1, <1>2, <2>0, <2>3, <3>1, <3>5 DEF ConflictsAfter
      <4> HIDE DEF closed
      <4> QED
        BY <1>1, <2>0, <3>1, <3>2, <4>1
    <3> QED
      BY <3>4, <3>5
  <2>4. CASE e.cmd.op # "capture" /\ e.cmd.op \notin ResolveOps
    BY <1>2, <2>0, <2>4 DEF ConflictsAfter
  <2> QED
    BY <2>2, <2>3, <2>4
<1>8. \A d \in Events : conflicts'[d] # None => row'[conflicts'[d].source] # None
  <2>1. \A d \in Events : conflicts[d] # None =>
          conflicts[d].source \in Sources /\ row[conflicts[d].source] # None
    BY DEF StateInv, TypeOK, ConflictRecord, ReferencesExist
  <2>2. e.cmd.op \in ConflictOps => row[e.cmd.source] # None
    BY <1>0 DEF EventReferences
  <2> QED
    BY <1>1, <1>4, <1>7, <2>1, <2>2
<1> QED
  BY <1>3, <1>4, <1>5, <1>6, <1>7, <1>8

\* A transaction commits: its tables, its locks, its pending event and the handler
\* that waited for it.
LEMMA CommitKeepsState ==
    ASSUME StateInv, OneLiveTransaction, NEW t \in Txns, pending[t] # None, Apply(t),
           \/ t \in indoubt /\ indoubt' = indoubt \ {t} /\ pc' = pc
           \/ /\ t = Tx(t[1]) /\ t \notin indoubt /\ indoubt' = indoubt
              /\ pc[t[1]] = "commit" /\ pc' = [pc EXCEPT ![t[1]] = "done"],
           answer' \in [Writers -> {None} \cup [kind : AnswerKinds, seq : Nat]],
           UNCHANGED <<nextSeq, policyRev, cmd, attempt, evidence, failures>>
    PROVE  StateInv'
<1>0. TypeOK /\ ReferencesExist /\ t[1] \in Writers /\ Tx(t[1]) \in Txns /\ t = <<t[1], t[2]>>
  BY TxnOfWriter, TxIsTxn DEF StateInv
<1>1. /\ pending' = [pending EXCEPT ![t] = None] /\ holder' = Released(t)
      /\ pending' \in [Txns -> EventRecord \cup {None}]
      /\ \A u \in Txns : pending'[u] = IF u = t THEN None ELSE pending[u]
  BY <1>0 DEF Apply, TypeOK
<1>2. TypeOK'
  <2>1. pc' \in [Writers -> Labels]
    BY <1>0 DEF TypeOK, Labels
  <2>2. holder' \in [Locks -> Txns \cup {None}]
    BY <1>0, <1>1, ReleasedType
  <2>3. indoubt' \subseteq Txns
    BY <1>0 DEF TypeOK
  <2> QED
    BY <1>0, <1>1, <2>1, <2>2, <2>3, ApplyKeepsTables DEF TypeOK
<1>3. ASSUME NEW w \in Writers
      PROVE  HandlerReferences(w)'
  <2>0. Tx(w) \in Txns /\ Tx(w)' = Tx(w) /\ cmd'[w] = cmd[w]
    BY <1>0, TxIsTxn DEF Tx
  <2>1. pc'[w] = pc[w] \/ (pc[w] = "commit" /\ pc'[w] = "done")
    BY <1>0, ControlTypes
  <2>2. pc'[w] = "commit" => pc[w] = "commit" /\ Tx(w) # t
    <3>1. CASE t \in indoubt
      BY <1>0, <2>0, <3>1, TxIsTxn DEF OneLiveTransaction
    <3>2. CASE t \notin indoubt
      BY <1>0, <2>0, <3>2, TxIsTxn DEF TypeOK
    <3> QED
      BY <3>1, <3>2
  <2>3. cmd[w] # None =>
          /\ cmd[w].source \in Sources
          /\ cmd[w].op = "restore" => cmd[w].tomb \in Events
          /\ cmd[w].op \in ResolveOps => cmd[w].conflict \in Events
    BY <1>0, CommandFields DEF TypeOK
  <2>4. /\ pc[w] # "idle" => cmd[w] # None
        /\ pc[w] = "commit" => pending[Tx(w)] # None
        /\ pc[w] \in {"lookup", "locators"} => cmd[w].op \in LifecycleOps
        /\ pc[w] \in {"review", "conflict"} => cmd[w].op \in ResolveOps
        /\ pc[w] = "policy" => cmd[w].op \notin ConflictOps
        /\ pc[w] = "policy" /\ cmd[w].op \in LifecycleOps =>
             /\ row[cmd[w].source] # None
             /\ cmd[w].op = "restore" => tombstones[cmd[w].tomb] # None
        /\ pc[w] = "source" /\ cmd[w].op \in ConflictOps =>
             /\ row[cmd[w].source] # None
             /\ cmd[w].op \in ResolveOps => conflicts[cmd[w].conflict] # None
    BY <1>0 DEF ReferencesExist, HandlerReferences
  <2>5. /\ \A s \in Sources : row[s] # None => row'[s] # None
        /\ \A d \in Events : tombstones[d] # None => tombstones'[d] # None
        /\ \A d \in Events : conflicts[d] # None => conflicts'[d] # None
    BY ApplyKeepsTables
  <2> QED
    BY <1>1, <2>0, <2>1, <2>2, <2>3, <2>4, <2>5 DEF HandlerReferences
<1>4. ASSUME NEW u \in Txns, pending'[u] # None
      PROVE  EventReferences(pending[u])'
  <2>1. pending'[u] = pending[u] /\ pending[u] # None
    BY <1>1, <1>4
  <2>2. /\ pending[u].cmd.source \in Sources
        /\ pending[u].cmd.op = "restore" => pending[u].cmd.tomb \in Events
        /\ pending[u].cmd.op \in ResolveOps => pending[u].cmd.conflict \in Events
        /\ EventReferences(pending[u])
    BY <2>1, PendingFields, CommandFields
  <2> QED
    BY <2>1, <2>2, ApplyKeepsTables DEF EventReferences
<1>5. \A u \in indoubt' : pending'[u] # None
  BY <1>0, <1>1, <1>2 DEF ReferencesExist, TypeOK
<1>6. ReferencesExist'
  BY <1>3, <1>4, <1>5, ApplyKeepsTables DEF ReferencesExist
<1> QED
  BY <1>2, <1>6 DEF StateInv

-------------------------------------------------------------------------------
(* Failures.                                                               *)

\* A handler leaves its statement with the tables as they were: for another
\* attempt, for the recovery, or for good.  Its uncommitted event may be gone.
LEMMA LeaveKeepsState ==
    ASSUME StateInv, NEW w \in Writers, pc[w] # "idle",
           NEW label \in {"idle", "done", "recover", "key", "lookup"},
           label = "lookup" => cmd[w].op \in LifecycleOps,
           pc' = [pc EXCEPT ![w] = label],
           \/ attempt' = attempt
           \/ attempt[w] < MaxAttempts /\ attempt' = [attempt EXCEPT ![w] = @ + 1],
           answer' \in [Writers -> {None} \cup [kind : AnswerKinds, seq : Nat]],
           holder' \in {holder, Released(Tx(w))},
           \/ pending' = pending /\ indoubt' = indoubt
           \/ /\ pending' = [pending EXCEPT ![Tx(w)] = None]
              /\ Tx(w) \notin indoubt /\ indoubt' = indoubt
           \/ pending' = pending /\ pending[Tx(w)] # None /\ indoubt' = indoubt \cup {Tx(w)},
           UNCHANGED <<tables, nextSeq, policyRev, cmd, evidence>>, failures' \in Nat
    PROVE  StateInv'
<1>0. TypeOK /\ ReferencesExist /\ Tx(w) \in Txns
  BY TxIsTxn DEF StateInv
<1>1. TypeOK'
  <2>1. pc' \in [Writers -> Labels]
    BY <1>0 DEF TypeOK, Labels
  <2>2. holder' \in [Locks -> Txns \cup {None}]
    BY <1>0, ReleasedType DEF TypeOK
  <2>3. attempt' \in [Writers -> 1..MaxAttempts]
    BY <1>0, BoundsAssumption DEF TypeOK
  <2>4. pending' \in [Txns -> EventRecord \cup {None}] /\ indoubt' \subseteq Txns
    BY <1>0 DEF TypeOK
  <2> QED
    BY <1>0, <2>1, <2>2, <2>3, <2>4 DEF TypeOK, tables
<1>2. HandlerReferences(w)'
  BY <1>0 DEF ReferencesExist, HandlerReferences, TypeOK
<1>3. \A v \in Writers \ {w} : /\ pc'[v] = pc[v] /\ Tx(v)' = Tx(v) /\ Tx(v) \in Txns
                               /\ Tx(v) # Tx(w) /\ pending'[Tx(v)] = pending[Tx(v)]
  BY <1>0, TxIsTxn DEF TypeOK, Tx
<1>4. /\ \A t \in Txns : pending'[t] # None => pending'[t] = pending[t]
      /\ \A t \in indoubt' : pending'[t] # None
  BY <1>0 DEF ReferencesExist, TypeOK
<1>5. ReferencesExist'
  BY <1>2, <1>3, <1>4, HandlerMoved DEF tables
<1> QED
  BY <1>1, <1>5 DEF StateInv

LEMMA FailuresKeepState ==
    ASSUME StateInv, OneLiveTransaction, NEW w \in Writers,
           LockTimeout(w) \/ Recover(w) \/ Failure(w)
    PROVE  StateInv'
<1>0. TypeOK /\ ReferencesExist /\ Tx(w) \in Txns /\ Tx(w)[1] = w /\ Tx(w)[2] = attempt[w]
  BY TxIsTxn DEF StateInv
<1>1. /\ answer \in [Writers -> {None} \cup [kind : AnswerKinds, seq : Nat]]
      /\ failures \in Nat /\ failures + 1 \in Nat
  BY <1>0 DEF TypeOK
<1>2. \A kind \in AnswerKinds, seq \in Nat :
        [answer EXCEPT ![w] = [kind |-> kind, seq |-> seq]]
          \in [Writers -> {None} \cup [kind : AnswerKinds, seq : Nat]]
  BY <1>1
<1>3. ASSUME NEW kind \in AnswerKinds, Retry(w, kind)
      PROVE  /\ answer' \in [Writers -> {None} \cup [kind : AnswerKinds, seq : Nat]]
             /\ \/ attempt' = attempt
                \/ attempt[w] < MaxAttempts /\ attempt' = [attempt EXCEPT ![w] = @ + 1]
             /\ \E label \in {"done", "key", "lookup"} :
                  /\ pc' = [pc EXCEPT ![w] = label]
                  /\ label = "lookup" => cmd[w].op \in LifecycleOps
  <2>1. /\ Restart(cmd[w].op) \in {"key", "lookup"}
        /\ Restart(cmd[w].op) = "lookup" => cmd[w].op \in LifecycleOps
    BY Families DEF Restart
  <2> QED
    BY <1>1, <1>2, <1>3, <2>1 DEF Retry, Goto, Answer
<1>4. CASE LockTimeout(w)
  <2>1. pc[w] # "idle" /\ Retry(w, "busy") /\ "busy" \in AnswerKinds
    BY <1>4 DEF LockTimeout, InTransaction, AnswerKinds
  <2> QED
    BY <1>1, <1>3, <1>4, <2>1, LeaveKeepsState DEF LockTimeout
<1>5. CASE ConnLost(w)
  <2>1. pc[w] # "idle" /\ Tx(w) \notin indoubt
    BY <1>0, <1>5 DEF ConnLost, InTransaction, OneLiveTransaction
  <2> QED
    BY <1>1, <1>5, <2>1, LeaveKeepsState DEF ConnLost, Goto
<1>6. CASE LookupLost(w)
  <2>1. pc[w] # "idle" /\ "unknown" \in AnswerKinds /\ Statement
    BY <1>0, <1>1, <1>6 DEF LookupLost, AnswerKinds, Statement, TypeOK
  <2> QED
    BY <1>6, <2>1, ReplyKeepsState DEF LookupLost
<1>7. CASE CommitLost(w)
  <2>1. pc[w] # "idle" /\ pending[Tx(w)] # None
    BY <1>0, <1>7 DEF CommitLost, ReferencesExist, HandlerReferences
  <2> QED
    BY <1>1, <1>7, <2>1, LeaveKeepsState DEF CommitLost, Goto
<1>8. CASE Recover(w)
  <2>1. /\ pc[w] # "idle"
        /\ UNCHANGED <<tables, nextSeq, policyRev, holder, pending, indoubt, cmd, evidence, failures>>
    BY <1>8 DEF Recover
  <2>2. \/ Retry(w, "unknown")
        \/ /\ attempt' = attempt
           /\ \E kind \in AnswerKinds, seq \in Nat : Answer(w, kind, seq)
    BY <1>0, <1>8, ReceiptIsNumber DEF Recover, AnswerKinds
  <2>3. CASE Retry(w, "unknown")
    <3>1. "unknown" \in AnswerKinds
      BY DEF AnswerKinds
    <3> QED
      BY <1>1, <1>3, <2>1, <2>3, <3>1, LeaveKeepsState
  <2> QED
    BY <1>1, <1>2, <2>1, <2>2, <2>3, LeaveKeepsState DEF Answer
<1>9. CASE RecoverFails(w)
  <2>1. pc[w] # "idle" /\ "unknown" \in AnswerKinds /\ 0 \in Nat
    BY <1>9 DEF RecoverFails, AnswerKinds
  <2> QED
    BY <1>1, <1>2, <1>9, <2>1, LeaveKeepsState DEF RecoverFails, Answer
<1>10. CASE Abandon(w)
  BY <1>1, <1>10, LeaveKeepsState DEF Abandon
<1> QED
  BY <1>4, <1>5, <1>6, <1>7, <1>8, <1>9, <1>10 DEF Failure

-------------------------------------------------------------------------------
(* Every step.                                                             *)

LEMMA NextKeepsState ==
    ASSUME StateInv, OneLiveTransaction, [Next]_vars
    PROVE  StateInv'
<1>0. TypeOK /\ ReferencesExist
  BY DEF StateInv
<1>1. ASSUME NEW w \in Writers, NEW c \in Commands, Request(w, c)
      PROVE  StateInv'
  <2>0. /\ FirstStep(c.op) \in {"preflight", "lookup", "review"}
        /\ FirstStep(c.op) = "lookup" => c.op \in LifecycleOps
        /\ FirstStep(c.op) = "review" => c.op \in ResolveOps
    BY CommandFields, Families DEF FirstStep, Ops, ConflictOps
  <2>1. c # None
    BY CommandsAssumption, NoneAssumption
  <2>2. /\ pc' = [pc EXCEPT ![w] = FirstStep(c.op)]
        /\ cmd' = [cmd EXCEPT ![w] = c]
        /\ attempt' = [attempt EXCEPT ![w] = 1]
        /\ evidence' = [evidence EXCEPT ![w] = 0]
        /\ answer' = [answer EXCEPT ![w] = None]
        /\ UNCHANGED <<tables, nextSeq, policyRev, holder, pending, indoubt, failures>>
    BY <1>1 DEF Request
  <2>3. TypeOK'
    <3>1. pc' \in [Writers -> Labels] /\ cmd' \in [Writers -> Commands \cup {None}]
      BY <1>0, <2>0, <2>2 DEF TypeOK, Labels
    <3>2. /\ attempt' \in [Writers -> 1..MaxAttempts] /\ evidence' \in [Writers -> Nat]
          /\ answer' \in [Writers -> {None} \cup [kind : AnswerKinds, seq : Nat]]
      BY <1>0, <2>2, BoundsAssumption DEF TypeOK
    <3> QED
      BY <1>0, <2>2, <3>1, <3>2 DEF TypeOK, tables
  <2>4. HandlerReferences(w)'
    BY <1>0, <2>0, <2>1, <2>2 DEF HandlerReferences, TypeOK
  <2>5. \A v \in Writers \ {w} : pc'[v] = pc[v] /\ cmd'[v] = cmd[v] /\ Tx(v)' = Tx(v)
    BY <1>0, <2>2 DEF TypeOK, Tx
  <2>6. ReferencesExist'
    BY <1>0, <2>2, <2>4, <2>5, HandlerMoved DEF ReferencesExist, tables
  <2> QED
    BY <2>3, <2>6 DEF StateInv
<1>2. ASSUME NEW w \in Writers, Commit(w)
      PROVE  StateInv'
  <2>1. /\ Tx(w) \in Txns /\ Tx(w)[1] = w /\ Tx(w)[2] = attempt[w] /\ pc[w] = "commit"
        /\ pending[Tx(w)] # None /\ Tx(w) \notin indoubt
    BY <1>0, <1>2, TxIsTxn DEF Commit, ReferencesExist, HandlerReferences, OneLiveTransaction
  <2>2. pending[Tx(w)].seq \in Nat
    BY <2>1, PendingFields
  <2>3. answer' \in [Writers -> {None} \cup [kind : AnswerKinds, seq : Nat]]
    BY <1>0, <1>2, <2>2 DEF Commit, Answer, AnswerKinds, TypeOK
  <2> QED
    BY <1>2, <2>1, <2>3, CommitKeepsState DEF Commit, Answer
<1>3. ASSUME NEW t \in Txns, InDoubtCommit(t)
      PROVE  StateInv'
  <2>1. t \in indoubt /\ pending[t] # None
    BY <1>0, <1>3 DEF InDoubtCommit, ReferencesExist
  <2>2. answer' \in [Writers -> {None} \cup [kind : AnswerKinds, seq : Nat]]
    BY <1>0, <1>3 DEF InDoubtCommit, TypeOK
  <2> QED
    BY <1>3, <2>1, <2>2, CommitKeepsState DEF InDoubtCommit
<1>4. ASSUME NEW t \in Txns, InDoubtAbort(t)
      PROVE  StateInv'
  <2>1. /\ holder' = Released(t) /\ pending' = [pending EXCEPT ![t] = None]
        /\ indoubt' = indoubt \ {t} /\ t \in indoubt
        /\ UNCHANGED <<tables, nextSeq, policyRev, pc, cmd, attempt, evidence, answer, failures>>
    BY <1>4 DEF InDoubtAbort
  <2>2. TypeOK'
    BY <1>0, <2>1, ReleasedType DEF TypeOK, tables
  <2>3. \A u \in Txns : pending'[u] = IF u = t THEN None ELSE pending[u]
    BY <1>0, <2>1 DEF TypeOK
  <2>4. ASSUME NEW w \in Writers
        PROVE  HandlerReferences(w)'
    <3>1. Tx(w) \in Txns /\ Tx(w)' = Tx(w) /\ (pc[w] = "commit" => Tx(w) # t)
      BY <1>0, <2>1, TxIsTxn DEF Tx, OneLiveTransaction
    <3> QED
      BY <1>0, <2>1, <2>3, <3>1 DEF ReferencesExist, HandlerReferences, tables
  <2>5. ReferencesExist'
    BY <1>0, <2>1, <2>3, <2>4 DEF ReferencesExist, EventReferences, tables, TypeOK
  <2> QED
    BY <2>2, <2>5 DEF StateInv
<1>5. CASE PublishPolicy
  <2>1. policyRev' = policyRev + 1
        /\ UNCHANGED <<tables, nextSeq, holder, pending, indoubt, pc, cmd, attempt, evidence,
                       answer, failures>>
    BY <1>5 DEF PublishPolicy
  <2>2. TypeOK'
    BY <1>0, <2>1 DEF TypeOK, tables
  <2>3. ReferencesExist'
    BY <1>0, <2>1 DEF ReferencesExist, HandlerReferences, EventReferences, tables, Tx
  <2> QED
    BY <2>2, <2>3 DEF StateInv
<1>6. CASE UNCHANGED vars
  <2>1. TypeOK'
    BY <1>0, <1>6 DEF TypeOK, vars, tables
  <2>2. ReferencesExist'
    BY <1>0, <1>6 DEF ReferencesExist, HandlerReferences, EventReferences, vars, tables, Tx
  <2> QED
    BY <2>1, <2>2 DEF StateInv
<1> QED
  BY <1>1, <1>2, <1>3, <1>4, <1>5, <1>6, PublicationKeepsState, LifecycleKeepsState,
     ConflictsKeepState, FailuresKeepState DEF Next, Progress, Decide

LEMMA InitState ==
    ASSUME Init
    PROVE  StateInv
<1>1. TypeOK
  BY BoundsAssumption DEF Init, TypeOK, Labels
<1>2. ReferencesExist
  BY DEF Init, ReferencesExist, HandlerReferences
<1> QED
  BY <1>1, <1>2 DEF StateInv
-------------------------------------------------------------------------------
(* The order of the log.                                                   *)

OrderInv == LockDiscipline /\ DeliverableOrder

\* What every reply before the commit does.
Ended(w) ==
    /\ pc' = [pc EXCEPT ![w] = "done"]
    /\ holder' = Released(Tx(w))
    /\ pending' = pending
    /\ nextSeq' = nextSeq

Running == Labels \ {"idle", "done", "recover", "commit"}

-------------------------------------------------------------------------------
(* Facts about locks and transactions.                                     *)

LEMMA SequencesAreNumbers ==
    ASSUME TypeOK
    PROVE  /\ nextSeq \in Nat
           /\ \A t \in Txns : pending[t] # None => pending[t] \in EventRecord /\ pending[t].seq \in Nat
           /\ \A i \in 1..Len(log) : log[i] \in EventRecord /\ log[i].seq \in Nat
<1>1. \A e \in EventRecord : e.seq \in Nat
  BY DEF EventRecord
<1> QED
  BY <1>1, ControlTypes

\* Releasing the locks of one transaction leaves those of the others.
LEMMA ReleaseKeepsOthers ==
    ASSUME TypeOK, NEW t \in Txns, holder' = Released(t)
    PROVE  \A l \in Locks, u \in Txns : u # t /\ holder[l] = u => holder'[l] = u
BY DEF Released, TypeOK

\* Taking free locks leaves the locks of everybody else.
LEMMA LockingKeepsHolders ==
    ASSUME TypeOK, NEW w \in Writers, CanLock(w), holder' = Locked(w)
    PROVE  \A l \in Locks, u \in Txns : holder[l] = u => holder'[l] = u
BY NoneIsNoTxn DEF Locked, CanLock, Free, TypeOK

\* A handler inside its transaction has written nothing yet and is not in doubt.
LEMMA RunningWroteNothing ==
    ASSUME TypeOK, OrderInv, NEW w \in Writers, pc[w] \in Running
    PROVE  pending[Tx(w)] = None /\ Tx(w) \notin indoubt
BY TxIsTxn DEF OrderInv, LockDiscipline, OneLiveTransaction, Running, Labels

-------------------------------------------------------------------------------
(* Every action is one of a few shapes.                                    *)

\* The transaction is rolled back before it wrote anything.
LEMMA RollbackKeepsOrder ==
    ASSUME TypeOK, OrderInv, NEW w \in Writers, pc[w] \in Running,
           NEW label \in {"done", "key", "lookup"},
           pc' = [pc EXCEPT ![w] = label],
           holder' = Released(Tx(w)),
           pending' = pending, log' = log, indoubt' = indoubt, cmd' = cmd,
           nextSeq' \in {nextSeq, nextSeq + 1},
           \/ attempt' = attempt
           \/ attempt[w] < MaxAttempts /\ attempt' = [attempt EXCEPT ![w] = @ + 1]
    PROVE  OrderInv'
<1>1. Tx(w) \in Txns /\ pending[Tx(w)] = None /\ Tx(w) \notin indoubt
  BY TxIsTxn, RunningWroteNothing
<1>2. OneLiveTransaction'
  <2>1. ASSUME NEW t \in Txns, pending'[t] # None
        PROVE  t \in indoubt' \/ (pc'[t[1]] = "commit" /\ t[2] = attempt'[t[1]])
    BY <1>1, <2>1, ControlTypes, TxnOfWriter
       DEF OrderInv, LockDiscipline, OneLiveTransaction, Running, Tx
  <2>2. ASSUME NEW t \in indoubt'
        PROVE  /\ t[2] <= attempt'[t[1]]
               /\ t[2] = attempt'[t[1]] => pc'[t[1]] \in {"recover", "idle", "done"}
    <3>1. t \in indoubt /\ t \in Txns /\ t[1] \in Writers /\ t[2] \in Nat
      BY ControlTypes, TxnOfWriter
    <3>2. t[2] <= attempt[t[1]] /\ (t[1] = w => t[2] < attempt[t[1]])
      BY <1>1, <3>1, ControlTypes, TxnOfWriter
         DEF OrderInv, LockDiscipline, OneLiveTransaction, Running, Tx
    <3> QED
      BY <3>1, <3>2, ControlTypes DEF OrderInv, LockDiscipline, OneLiveTransaction
  <2> QED
    BY <2>1, <2>2 DEF OneLiveTransaction
<1>3. PolicyRowHeld'
  <2>1. \A u \in Txns : u # Tx(w) /\ holder[PolicyRow] = u => holder'[PolicyRow] = u
    BY <1>1, ReleaseKeepsOthers, PolicyRowIsLock
  <2>2. \A v \in Writers : v # w => Tx(v) \in Txns /\ Tx(v) # Tx(w) /\ Tx(v)' = Tx(v)
    BY TxIsTxn DEF Tx, TypeOK
  <2> QED
    BY <1>1, <2>1, <2>2 DEF OrderInv, LockDiscipline, PolicyRowHeld, TypeOK, Deliverable, Running
<1>4. SequenceBounds'
  BY SequencesAreNumbers DEF OrderInv, LockDiscipline, SequenceBounds, Deliverable
<1>5. DeliverableOrder'
  BY DEF OrderInv, DeliverableOrder, Deliverable
<1> QED
  BY <1>2, <1>3, <1>4, <1>5 DEF OrderInv, LockDiscipline

\* The handler goes on, with the locks its statement asked for.
LEMMA AdvanceKeepsOrder ==
    ASSUME TypeOK, OrderInv, NEW w \in Writers, pc[w] \in Running,
           NEW label \in {"key", "policy", "source", "locators", "conflict"},
           pc' = [pc EXCEPT ![w] = label],
           holder' = holder \/ (CanLock(w) /\ holder' = Locked(w)),
           label = "source" /\ cmd[w].op \in PublicationOps => holder'[PolicyRow] = Tx(w),
           UNCHANGED <<pending, log, indoubt, cmd, nextSeq, attempt>>
    PROVE  OrderInv'
<1>1. Tx(w) \in Txns /\ pending[Tx(w)] = None /\ Tx(w) \notin indoubt
  BY TxIsTxn, RunningWroteNothing
<1>2. OneLiveTransaction'
  <2>1. \A t \in Txns : pending[t] # None => t \in indoubt \/ t[1] # w
    BY <1>1, ControlTypes, TxnOfWriter
       DEF OrderInv, LockDiscipline, OneLiveTransaction, Running, Tx
  <2>2. \A t \in indoubt : t[1] = w => t[2] # attempt[w]
    BY <1>1, ControlTypes, TxnOfWriter DEF Tx
  <2> QED
    BY <2>1, <2>2, ControlTypes, TxnOfWriter DEF OrderInv, LockDiscipline, OneLiveTransaction
<1>3. PolicyRowHeld'
  <2>1. \A u \in Txns : holder[PolicyRow] = u => holder'[PolicyRow] = u
    BY LockingKeepsHolders, PolicyRowIsLock
  <2>2. \A v \in Writers : Tx(v) \in Txns /\ Tx(v)' = Tx(v)
    BY TxIsTxn DEF Tx
  <2> QED
    BY <1>1, <2>1, <2>2, ControlTypes DEF OrderInv, LockDiscipline, PolicyRowHeld, Deliverable
<1>4. SequenceBounds'
  BY DEF OrderInv, LockDiscipline, SequenceBounds, Deliverable
<1>5. DeliverableOrder'
  BY DEF OrderInv, DeliverableOrder, Deliverable
<1> QED
  BY <1>2, <1>3, <1>4, <1>5 DEF OrderInv, LockDiscipline

\* The handler writes its event; a deliverable one needs the policy row.
LEMMA WriteKeepsOrder ==
    ASSUME TypeOK, OrderInv, NEW w \in Writers, pc[w] \in Running, cmd[w] \in Commands,
           CanLock(w), NEW version, NEW content, NEW intent,
           Write(w, NewEvent(w, version, content, intent)),
           cmd[w].op \in DeliverableOps => Locked(w)[PolicyRow] = Tx(w),
           UNCHANGED <<log, indoubt, cmd, attempt>>
    PROVE  OrderInv'
<1> DEFINE e == NewEvent(w, version, content, intent)
<1>1. Tx(w) \in Txns /\ pending[Tx(w)] = None /\ Tx(w) \notin indoubt
  BY TxIsTxn, RunningWroteNothing
<1>2. CASE ByEvent(cmd[w].event) # {} \/ ByKey(cmd[w].key) # {}
  BY <1>2, RollbackKeepsOrder DEF Write, Answer
<1>3. CASE ~(ByEvent(cmd[w].event) # {} \/ ByKey(cmd[w].key) # {})
  <2>1. /\ pc' = [pc EXCEPT ![w] = "commit"]
        /\ holder' = Locked(w)
        /\ pending' = [pending EXCEPT ![Tx(w)] = e]
        /\ nextSeq' = nextSeq + 1
    BY <1>3 DEF Write, Goto
  <2>2. e.seq = nextSeq /\ e.cmd = cmd[w]
    BY DEF NewEvent
  <2> HIDE DEF e
  <2>3. \A t \in Txns : pending'[t] = IF t = Tx(w) THEN e ELSE pending[t]
    BY <1>1, <2>1, ControlTypes
  <2>4. OneLiveTransaction'
    <3>1. \A t \in Txns : pending[t] # None => t \in indoubt \/ t[1] # w
      BY <1>1, ControlTypes, TxnOfWriter
         DEF OrderInv, LockDiscipline, OneLiveTransaction, Running, Tx
    <3>2. \A t \in indoubt : t[1] = w => t[2] # attempt[w]
      BY <1>1, ControlTypes, TxnOfWriter DEF Tx
    <3> QED
      BY <2>1, <2>3, <3>1, <3>2, TxIsTxn, ControlTypes, TxnOfWriter
         DEF OrderInv, LockDiscipline, OneLiveTransaction
  <2>5. PolicyRowHeld'
    <3>1. \A u \in Txns : holder[PolicyRow] = u => holder'[PolicyRow] = u
      BY <2>1, LockingKeepsHolders, PolicyRowIsLock
    <3>2. \A v \in Writers : Tx(v) \in Txns /\ Tx(v)' = Tx(v)
      BY TxIsTxn DEF Tx
    <3> QED
      BY <1>1, <2>1, <2>2, <2>3, <3>1, <3>2, ControlTypes
         DEF OrderInv, LockDiscipline, PolicyRowHeld, Deliverable
  <2>6. SequenceBounds'
    <3>1. ASSUME NEW u \in Txns, pending'[u] # None
          PROVE  /\ pending'[u].seq < nextSeq'
                 /\ \A i \in 1..Len(log') :
                      /\ log'[i].seq # pending'[u].seq
                      /\ Deliverable(log[i])' /\ Deliverable(pending[u])'
                           => log'[i].seq < pending'[u].seq
                 /\ \A v \in Txns :
                      pending'[v] # None /\ v # u => pending'[v].seq # pending'[u].seq
      <4>1. CASE u = Tx(w)
        BY <1>1, <2>1, <2>2, <2>3, <4>1, SequencesAreNumbers
           DEF OrderInv, LockDiscipline, SequenceBounds
      <4>2. CASE u # Tx(w)
        BY <1>1, <2>1, <2>2, <2>3, <3>1, <4>2, SequencesAreNumbers
           DEF OrderInv, LockDiscipline, SequenceBounds, Deliverable
      <4> QED
        BY <4>1, <4>2
    <3>2. \A i \in 1..Len(log') :
            /\ log'[i].seq < nextSeq'
            /\ \A j \in 1..Len(log') : i # j => log'[i].seq # log'[j].seq
      BY <2>1, SequencesAreNumbers DEF OrderInv, LockDiscipline, SequenceBounds
    <3> QED
      BY <3>1, <3>2 DEF SequenceBounds
  <2>7. DeliverableOrder'
    BY DEF OrderInv, DeliverableOrder, Deliverable
  <2> QED
    BY <2>4, <2>5, <2>6, <2>7 DEF OrderInv, LockDiscipline
<1> QED
  BY <1>2, <1>3

\* A transaction ends, visibly or not, and releases its locks.
LEMMA EndOfTransaction ==
    ASSUME TypeOK, OrderInv, NEW t \in Txns,
           holder' = Released(t),
           pending' = [pending EXCEPT ![t] = None],
           attempt' = attempt, cmd' = cmd, nextSeq' = nextSeq,
           \/ t \in indoubt /\ indoubt' = indoubt \ {t} /\ pc' = pc
           \/ /\ t = Tx(t[1]) /\ t \notin indoubt /\ indoubt' = indoubt
              /\ \E label \in {"done", "recover", "idle"} : pc' = [pc EXCEPT ![t[1]] = label]
    PROVE  OneLiveTransaction' /\ PolicyRowHeld'
<1>1. t[1] \in Writers /\ Tx(t[1]) \in Txns /\ t = <<t[1], t[2]>>
  BY TxnOfWriter, TxIsTxn
<1>2. \A u \in Txns : pending'[u] = IF u = t THEN None ELSE pending[u]
  BY ControlTypes
<1>3. OneLiveTransaction'
  <2>1. ASSUME NEW u \in Txns, pending'[u] # None
        PROVE  u \in indoubt' \/ (pc'[u[1]] = "commit" /\ u[2] = attempt'[u[1]])
    <3>1. u # t /\ pending[u] # None /\ u[1] \in Writers /\ u = <<u[1], u[2]>>
      BY <1>2, <2>1, TxnOfWriter
    <3>2. u \in indoubt \/ (pc[u[1]] = "commit" /\ u[2] = attempt[u[1]])
      BY <3>1 DEF OrderInv, LockDiscipline, OneLiveTransaction
    <3>3. u[1] = t[1] /\ u[2] = attempt[u[1]] => t # Tx(t[1])
      BY <1>1, <3>1, TxIsTxn DEF Tx
    <3> QED
      BY <1>1, <3>1, <3>2, <3>3, ControlTypes
  <2>2. ASSUME NEW u \in indoubt'
        PROVE  /\ u[2] <= attempt'[u[1]]
               /\ u[2] = attempt'[u[1]] => pc'[u[1]] \in {"recover", "idle", "done"}
    BY <1>1, <2>2, ControlTypes, TxnOfWriter DEF OrderInv, LockDiscipline, OneLiveTransaction
  <2> QED
    BY <2>1, <2>2 DEF OneLiveTransaction
<1>4. PolicyRowHeld'
  <2>1. \A u \in Txns : u # t /\ holder[PolicyRow] = u => holder'[PolicyRow] = u
    BY ReleaseKeepsOthers, PolicyRowIsLock
  <2>2. \A v \in Writers : pc'[v] = "source" => pc[v] = "source" /\ Tx(v) # t
    BY <1>1, TxIsTxn, ControlTypes DEF OrderInv, LockDiscipline, OneLiveTransaction, Tx
  <2>3. \A v \in Writers : Tx(v) \in Txns /\ Tx(v)' = Tx(v)
    BY TxIsTxn DEF Tx
  <2> QED
    BY <1>2, <2>1, <2>2, <2>3 DEF OrderInv, LockDiscipline, PolicyRowHeld, Deliverable
<1> QED
  BY <1>3, <1>4

\* Its event is gone.
LEMMA AbortKeepsSequences ==
    ASSUME TypeOK, OrderInv, NEW t \in Txns,
           pending' = [pending EXCEPT ![t] = None], UNCHANGED <<log, nextSeq>>
    PROVE  SequenceBounds' /\ DeliverableOrder'
<1>1. \A u \in Txns : pending'[u] = IF u = t THEN None ELSE pending[u]
  BY ControlTypes
<1> QED
  BY <1>1 DEF OrderInv, LockDiscipline, SequenceBounds, DeliverableOrder, Deliverable

\* Its event becomes visible, above every deliverable event before it.
LEMMA ApplyKeepsSequences ==
    ASSUME TypeOK, OrderInv, NEW t \in Txns, pending[t] # None,
           log' = Append(log, pending[t]),
           pending' = [pending EXCEPT ![t] = None], UNCHANGED nextSeq
    PROVE  SequenceBounds' /\ DeliverableOrder'
<1>1. \A u \in Txns : pending'[u] = IF u = t THEN None ELSE pending[u]
  BY ControlTypes
<1>2. /\ Len(log') = Len(log) + 1 /\ Len(log) \in Nat
      /\ \A i \in 1..Len(log') : log'[i] = IF i <= Len(log) THEN log[i] ELSE pending[t]
  BY ControlTypes, SequencesAreNumbers
<1>3. \A u \in Txns : u # t /\ pending[u] # None /\ Deliverable(pending[u]) => ~Deliverable(pending[t])
  BY DEF OrderInv, LockDiscipline, PolicyRowHeld
<1>4. DeliverableOrder'
  <2> SUFFICES ASSUME NEW i \in 1..Len(log'), NEW j \in 1..Len(log'), i < j,
                      Deliverable(log[i])', Deliverable(log[j])'
               PROVE  log'[i].seq < log'[j].seq
    BY DEF DeliverableOrder
  <2>1. i \in 1..Len(log) /\ log'[i] = log[i] /\ Deliverable(log[i])
    BY <1>2 DEF Deliverable
  <2>2. CASE j \in 1..Len(log)
    BY <1>2, <2>1, <2>2 DEF OrderInv, DeliverableOrder, Deliverable
  <2>3. CASE j \notin 1..Len(log)
    <3>1. log'[j] = pending[t]
      BY <1>2, <2>3
    <3>2. Deliverable(pending[t])
      BY <3>1 DEF Deliverable
    <3>3. \A k \in 1..Len(log) :
            Deliverable(log[k]) /\ Deliverable(pending[t]) => log[k].seq < pending[t].seq
      BY DEF OrderInv, LockDiscipline, SequenceBounds
    <3> QED
      BY <2>1, <3>1, <3>2, <3>3
  <2> QED
    BY <2>2, <2>3
<1>5. SequenceBounds'
  <2>1. ASSUME NEW u \in Txns, pending'[u] # None
        PROVE  /\ pending'[u].seq < nextSeq'
               /\ \A i \in 1..Len(log') :
                    /\ log'[i].seq # pending'[u].seq
                    /\ Deliverable(log[i])' /\ Deliverable(pending[u])'
                         => log'[i].seq < pending'[u].seq
               /\ \A v \in Txns : pending'[v] # None /\ v # u => pending'[v].seq # pending'[u].seq
    BY <1>1, <1>2, <1>3, <2>1, SequencesAreNumbers
       DEF OrderInv, LockDiscipline, SequenceBounds, Deliverable
  <2>2. \A i \in 1..Len(log') :
            /\ log'[i].seq < nextSeq'
            /\ \A j \in 1..Len(log') : i # j => log'[i].seq # log'[j].seq
    BY <1>2, SequencesAreNumbers DEF OrderInv, LockDiscipline, SequenceBounds
  <2> QED
    BY <2>1, <2>2 DEF SequenceBounds
<1> QED
  BY <1>4, <1>5

-------------------------------------------------------------------------------
(* The order invariant is inductive, given types and references.           *)

LEMMA PublicationKeepsOrder ==
    ASSUME TypeOK, ReferencesExist, OrderInv, NEW w \in Writers, Publication(w)
    PROVE  OrderInv'
<1>1. CASE Preflight(w)
  <2>1. pc[w] \in Running /\ UNCHANGED <<log, indoubt, cmd, attempt>>
    BY <1>1 DEF Preflight, Running, Labels, tables
  <2>2. \/ Ended(w)
        \/ Read(w, "key")
    BY <1>1 DEF Preflight, Reply, Answer, Ended
  <2> QED
    BY <2>1, <2>2, RollbackKeepsOrder, AdvanceKeepsOrder DEF Ended, Reply, Answer, Read, Goto
<1>2. CASE PubKey(w)
  <2>1. pc[w] \in Running /\ CanLock(w) /\ UNCHANGED <<log, indoubt, cmd, attempt>>
    BY <1>2 DEF PubKey, Unmoved, Running, Labels, tables
  <2> QED
    BY <1>2, <2>1, RollbackKeepsOrder, AdvanceKeepsOrder
       DEF PubKey, Reply, Answer, Proceed, Goto
<1>3. CASE PubPolicy(w)
  <2>1. pc[w] \in Running /\ CanLock(w) /\ UNCHANGED <<log, indoubt, cmd, attempt>>
    BY <1>3 DEF PubPolicy, Unmoved, Running, Labels, tables
  <2>2. Locked(w)[PolicyRow] = Tx(w)
    BY <1>3, PolicyRowIsLock DEF PubPolicy, Locked, Wanted
  <2>3. \/ Ended(w)
        \/ Proceed(w, "source")
    BY <1>3 DEF PubPolicy, Reply, Answer, Ended
  <2> QED
    BY <2>1, <2>2, <2>3, RollbackKeepsOrder, AdvanceKeepsOrder
       DEF Ended, Reply, Answer, Proceed, Goto
<1>4. CASE PubSource(w)
  <2>1. pc[w] \in Running /\ CanLock(w) /\ UNCHANGED <<log, indoubt, cmd, attempt>>
    BY <1>4 DEF PubSource, Unmoved, Running, Labels, tables
  <2>2. Locked(w)[PolicyRow] = Tx(w)
    BY <1>4, PolicyRowIsLock, LockingKeepsHolders, TxIsTxn
       DEF PubSource, OrderInv, LockDiscipline, PolicyRowHeld, Locked
  <2>3. cmd[w] \in Commands
    BY <1>4 DEF PubSource, ReferencesExist, HandlerReferences, TypeOK
  <2>4. \/ Reply(w, "rejected", 0)
        \/ /\ Answer(w, "rejected", 0) /\ holder' = Released(Tx(w))
           /\ pending' = pending /\ nextSeq' = nextSeq + 1
        \/ \E version, content, intent : Write(w, NewEvent(w, version, content, intent))
    BY <1>4 DEF PubSource, CreateTransition, UpdateTransition
  <2>5. CASE \E version, content, intent : Write(w, NewEvent(w, version, content, intent))
    BY <2>1, <2>2, <2>3, <2>5, WriteKeepsOrder
  <2> QED
    BY <2>1, <2>4, <2>5, RollbackKeepsOrder DEF Reply, Answer
<1> QED
  BY <1>1, <1>2, <1>3, <1>4 DEF Publication

LEMMA LifecycleKeepsOrder ==
    ASSUME TypeOK, ReferencesExist, OrderInv, NEW w \in Writers, Lifecycle(w)
    PROVE  OrderInv'
<1>1. CASE LifeLookup(w)
  <2>1. pc[w] \in Running /\ UNCHANGED <<log, indoubt, cmd, attempt>>
    BY <1>1 DEF LifeLookup, Unmoved, Running, Labels, tables
  <2>2. \/ Ended(w)
        \/ Read(w, "key")
    BY <1>1 DEF LifeLookup, Reply, Answer, Ended
  <2> QED
    BY <2>1, <2>2, RollbackKeepsOrder, AdvanceKeepsOrder DEF Ended, Reply, Answer, Read, Goto
<1>2. CASE LifeKey(w) \/ LifeSource(w) \/ LifeLocators(w)
  <2>1. pc[w] \in Running /\ CanLock(w) /\ UNCHANGED <<log, indoubt, cmd, attempt>>
    BY <1>2 DEF LifeKey, LifeSource, LifeLocators, Unmoved, Running, Labels, tables
  <2>2. \/ Reply(w, "rejected", 0)
        \/ Proceed(w, "source") /\ cmd[w].op \in LifecycleOps
        \/ Proceed(w, "locators") \/ Proceed(w, "policy")
    BY <1>2 DEF LifeKey, LifeSource, LifeLocators
  <2>3. cmd[w].op \in LifecycleOps => cmd[w].op \notin PublicationOps
    BY DEF LifecycleOps, PublicationOps
  <2> QED
    BY <2>1, <2>2, <2>3, RollbackKeepsOrder, AdvanceKeepsOrder
       DEF Ended, Reply, Answer, Proceed, Goto
<1>3. CASE LifePolicy(w)
  <2>1. pc[w] \in Running /\ CanLock(w) /\ UNCHANGED <<log, indoubt, cmd, attempt>>
    BY <1>3 DEF LifePolicy, Unmoved, Running, Labels, tables
  <2>2. Locked(w)[PolicyRow] = Tx(w)
    BY <1>3, PolicyRowIsLock DEF LifePolicy, Locked, Wanted
  <2>3. cmd[w] \in Commands
    BY <1>3 DEF LifePolicy, ReferencesExist, HandlerReferences, TypeOK
  <2>4. \/ Reply(w, "rejected", 0)
        \/ \E version, content, intent : Write(w, NewEvent(w, version, content, intent))
    BY <1>3 DEF LifePolicy
  <2>5. CASE \E version, content, intent : Write(w, NewEvent(w, version, content, intent))
    BY <2>1, <2>2, <2>3, <2>5, WriteKeepsOrder
  <2> QED
    BY <2>1, <2>4, <2>5, RollbackKeepsOrder DEF Reply, Answer
<1> QED
  BY <1>1, <1>2, <1>3 DEF Lifecycle

LEMMA ConflictsKeepOrder ==
    ASSUME TypeOK, ReferencesExist, OrderInv, NEW w \in Writers, Conflicts(w)
    PROVE  OrderInv'
<1>0. /\ cmd[w].op \in ConflictOps => cmd[w].op \notin PublicationOps \cup DeliverableOps
      /\ ResolveOps \subseteq ConflictOps /\ "capture" \in ConflictOps
  BY DEF ConflictOps, ResolveOps, PublicationOps, DeliverableOps, LifecycleOps
<1>1. CASE ConfReview(w)
  <2>1. pc[w] \in Running /\ UNCHANGED <<log, indoubt, cmd, attempt>>
    BY <1>1 DEF ConfReview, Unmoved, Running, Labels, tables
  <2>2. \/ Ended(w)
        \/ Read(w, "key")
    BY <1>1 DEF ConfReview, Reply, Answer, Ended
  <2> QED
    BY <2>1, <2>2, RollbackKeepsOrder, AdvanceKeepsOrder DEF Ended, Reply, Answer, Read, Goto
<1>2. CASE ConfKeyCapture(w) \/ ConfKeyResolve(w) \/ ConfRow(w)
  <2>1. pc[w] \in Running /\ CanLock(w) /\ UNCHANGED <<log, indoubt, cmd, attempt>>
    BY <1>2 DEF ConfKeyCapture, ConfKeyResolve, ConfRow, Unmoved, Running, Labels, tables
  <2>2. \/ Ended(w)
        \/ Proceed(w, "source") /\ cmd[w].op \in ConflictOps
        \/ Proceed(w, "conflict")
    BY <1>0, <1>2 DEF ConfKeyCapture, ConfKeyResolve, ConfRow, ReferencesExist, HandlerReferences, Reply, Answer, Ended
  <2> QED
    BY <1>0, <2>1, <2>2, RollbackKeepsOrder, AdvanceKeepsOrder
       DEF Ended, Reply, Answer, Proceed, Goto
<1>3. CASE ConfSource(w)
  <2>1. pc[w] \in Running /\ CanLock(w) /\ UNCHANGED <<log, indoubt, cmd, attempt>>
    BY <1>3 DEF ConfSource, Unmoved, Running, Labels, tables
  <2>2. cmd[w] \in Commands /\ cmd[w].op \notin DeliverableOps
    BY <1>0, <1>3 DEF ConfSource, ReferencesExist, HandlerReferences, TypeOK
  <2>3. \/ Reply(w, "rejected", 0)
        \/ \E version, content, intent : Write(w, NewEvent(w, version, content, intent))
    BY <1>3 DEF ConfSource, CaptureTransition, StaleSuccessor, Winner
  <2>4. CASE \E version, content, intent : Write(w, NewEvent(w, version, content, intent))
    BY <2>1, <2>2, <2>4, WriteKeepsOrder
  <2> QED
    BY <2>1, <2>3, <2>4, RollbackKeepsOrder DEF Reply, Answer
<1> QED
  BY <1>1, <1>2, <1>3 DEF Conflicts

LEMMA FailuresKeepOrder ==
    ASSUME TypeOK, ReferencesExist, OrderInv, NEW w \in Writers,
           LockTimeout(w) \/ Recover(w) \/ Failure(w)
    PROVE  OrderInv'
<1>0. Tx(w) \in Txns /\ Tx(w)[1] = w /\ Tx(w)[2] = attempt[w]
  BY TxIsTxn
<1>1. CASE LockTimeout(w)
  <2>1. pc[w] \in Running
    BY <1>1 DEF LockTimeout, InTransaction, Running, Labels
  <2> QED
    BY <1>1, <2>1, RollbackKeepsOrder
       DEF LockTimeout, Retry, Goto, Answer, Restart, tables
<1>2. CASE ConnLost(w)
  <2>1. Tx(w) \notin indoubt
    BY <1>0, <1>2 DEF ConnLost, InTransaction, OrderInv, LockDiscipline, OneLiveTransaction
  <2>2. OneLiveTransaction' /\ PolicyRowHeld'
    BY <1>0, <1>2, <2>1, EndOfTransaction DEF ConnLost, Goto
  <2>3. SequenceBounds' /\ DeliverableOrder'
    BY <1>0, <1>2, AbortKeepsSequences DEF ConnLost, tables
  <2> QED
    BY <2>2, <2>3 DEF OrderInv, LockDiscipline
<1>3. CASE LookupLost(w)
  <2>1. pc[w] \in Running
    BY <1>3 DEF LookupLost, Running, Labels
  <2> QED
    BY <1>3, <2>1, RollbackKeepsOrder DEF LookupLost, Reply, Answer, tables
<1>4. CASE CommitLost(w)
  <2>1. /\ pc[w] = "commit" /\ pc' = [pc EXCEPT ![w] = "recover"]
        /\ indoubt' = indoubt \cup {Tx(w)}
        /\ UNCHANGED <<log, nextSeq, holder, pending, cmd, attempt>>
    BY <1>4 DEF CommitLost, Goto, tables
  <2>2. OneLiveTransaction'
    BY <1>0, <2>1, ControlTypes, TxnOfWriter
       DEF OrderInv, LockDiscipline, OneLiveTransaction, Tx
  <2>3. PolicyRowHeld'
    BY <2>1, ControlTypes DEF OrderInv, LockDiscipline, PolicyRowHeld, Deliverable, Tx
  <2>4. SequenceBounds' /\ DeliverableOrder'
    BY <2>1 DEF OrderInv, LockDiscipline, SequenceBounds, DeliverableOrder, Deliverable
  <2> QED
    BY <2>2, <2>3, <2>4 DEF OrderInv, LockDiscipline
<1>5. CASE Recover(w) \/ RecoverFails(w)
  <2>1. /\ pc[w] = "recover"
        /\ \/ pc' = [pc EXCEPT ![w] = "done"] /\ attempt' = attempt
           \/ /\ attempt[w] < MaxAttempts /\ attempt' = [attempt EXCEPT ![w] = @ + 1]
              /\ pc' = [pc EXCEPT ![w] = "key"] \/ pc' = [pc EXCEPT ![w] = "lookup"]
        /\ UNCHANGED <<log, nextSeq, holder, pending, indoubt, cmd>>
    BY <1>5 DEF Recover, RecoverFails, Retry, Answer, Goto, Restart, tables
  <2>2. OneLiveTransaction'
    <3>1. ASSUME NEW t \in Txns, pending'[t] # None
          PROVE  t \in indoubt' \/ (pc'[t[1]] = "commit" /\ t[2] = attempt'[t[1]])
      BY <2>1, <3>1, ControlTypes, TxnOfWriter DEF OrderInv, LockDiscipline, OneLiveTransaction
    <3>2. ASSUME NEW t \in indoubt'
          PROVE  /\ t[2] <= attempt'[t[1]]
                 /\ t[2] = attempt'[t[1]] => pc'[t[1]] \in {"recover", "idle", "done"}
      <4>1. t \in indoubt /\ t[1] \in Writers /\ t[2] \in Nat /\ attempt[t[1]] \in Nat
        BY <2>1, ControlTypes, TxnOfWriter
      <4>2. t[2] <= attempt[t[1]]
            /\ (t[2] = attempt[t[1]] => pc[t[1]] \in {"recover", "idle", "done"})
        BY <4>1 DEF OrderInv, LockDiscipline, OneLiveTransaction
      <4>3. CASE t[1] = w
        BY <2>1, <4>1, <4>2, <4>3, ControlTypes
      <4>4. CASE t[1] # w
        BY <2>1, <4>1, <4>2, <4>4, ControlTypes
      <4> QED
        BY <4>3, <4>4
    <3> QED
      BY <3>1, <3>2 DEF OneLiveTransaction
  <2>3. PolicyRowHeld'
    BY <2>1, ControlTypes DEF OrderInv, LockDiscipline, PolicyRowHeld, Deliverable, Tx
  <2>4. SequenceBounds' /\ DeliverableOrder'
    BY <2>1 DEF OrderInv, LockDiscipline, SequenceBounds, DeliverableOrder, Deliverable
  <2> QED
    BY <2>2, <2>3, <2>4 DEF OrderInv, LockDiscipline
<1>6. CASE Abandon(w)
  <2>1. CASE Tx(w) \in indoubt
    <3>1. /\ pc[w] = "recover" /\ pc' = [pc EXCEPT ![w] = "idle"]
          /\ UNCHANGED <<log, nextSeq, holder, pending, indoubt, cmd, attempt>>
      BY <1>0, <1>6, <2>1 DEF Abandon, OrderInv, LockDiscipline, OneLiveTransaction, tables
    <3>2. OneLiveTransaction'
      BY <1>0, <3>1, ControlTypes, TxnOfWriter
         DEF OrderInv, LockDiscipline, OneLiveTransaction, Tx
    <3>3. PolicyRowHeld'
      BY <3>1, ControlTypes DEF OrderInv, LockDiscipline, PolicyRowHeld, Deliverable, Tx
    <3>4. SequenceBounds' /\ DeliverableOrder'
      BY <3>1 DEF OrderInv, LockDiscipline, SequenceBounds, DeliverableOrder, Deliverable
    <3> QED
      BY <3>2, <3>3, <3>4 DEF OrderInv, LockDiscipline
  <2>2. CASE Tx(w) \notin indoubt
    <3>1. OneLiveTransaction' /\ PolicyRowHeld'
      BY <1>0, <1>6, <2>2, EndOfTransaction DEF Abandon
    <3>2. SequenceBounds' /\ DeliverableOrder'
      BY <1>0, <1>6, <2>2, AbortKeepsSequences DEF Abandon, tables
    <3> QED
      BY <3>1, <3>2 DEF OrderInv, LockDiscipline
  <2> QED
    BY <2>1, <2>2
<1> QED
  BY <1>1, <1>2, <1>3, <1>4, <1>5, <1>6 DEF Failure

LEMMA NextKeepsOrder ==
    ASSUME TypeOK, ReferencesExist, OrderInv, [Next]_vars
    PROVE  OrderInv'
<1>1. ASSUME NEW w \in Writers, NEW c \in Commands, Request(w, c)
      PROVE  OrderInv'
  <2>1. /\ pc[w] \in {"idle", "done"} /\ \A t \in indoubt : t[1] # w
        /\ \E label \in {"preflight", "lookup", "review"} : pc' = [pc EXCEPT ![w] = label]
        /\ attempt' = [attempt EXCEPT ![w] = 1]
        /\ cmd' = [cmd EXCEPT ![w] = c]
        /\ UNCHANGED <<log, nextSeq, holder, pending, indoubt>>
    <3>1. FirstStep(c.op) \in {"preflight", "lookup", "review"}
      BY DEF FirstStep
    <3> QED
      BY <1>1, <3>1 DEF Request, tables
  <2>2. OneLiveTransaction'
    BY <2>1, ControlTypes, TxnOfWriter DEF OrderInv, LockDiscipline, OneLiveTransaction
  <2>3. PolicyRowHeld'
    BY <2>1, ControlTypes DEF TypeOK, OrderInv, LockDiscipline, PolicyRowHeld, Deliverable, Tx
  <2>4. SequenceBounds' /\ DeliverableOrder'
    BY <2>1 DEF OrderInv, LockDiscipline, SequenceBounds, DeliverableOrder, Deliverable
  <2> QED
    BY <2>2, <2>3, <2>4 DEF OrderInv, LockDiscipline
<1>2. ASSUME NEW w \in Writers, Commit(w)
      PROVE  OrderInv'
  <2>0. Tx(w) \in Txns /\ Tx(w)[1] = w /\ Tx(w)[2] = attempt[w]
    BY TxIsTxn
  <2>1. pc[w] = "commit" /\ pending[Tx(w)] # None /\ Tx(w) \notin indoubt
    BY <1>2, <2>0
       DEF Commit, ReferencesExist, HandlerReferences, OrderInv, LockDiscipline, OneLiveTransaction
  <2>2. OneLiveTransaction' /\ PolicyRowHeld'
    BY <1>2, <2>0, <2>1, EndOfTransaction DEF Commit, Apply, Answer
  <2>3. SequenceBounds' /\ DeliverableOrder'
    BY <1>2, <2>0, <2>1, ApplyKeepsSequences DEF Commit, Apply
  <2> QED
    BY <2>2, <2>3 DEF OrderInv, LockDiscipline
<1>3. ASSUME NEW t \in Txns, Decide(t)
      PROVE  OrderInv'
  <2>1. t \in indoubt /\ pending[t] # None
    BY <1>3 DEF Decide, InDoubtCommit, InDoubtAbort, ReferencesExist, HandlerReferences
  <2>2. OneLiveTransaction' /\ PolicyRowHeld'
    BY <1>3, <2>1, EndOfTransaction DEF Decide, InDoubtCommit, InDoubtAbort, Apply
  <2>3. SequenceBounds' /\ DeliverableOrder'
    BY <1>3, <2>1, AbortKeepsSequences, ApplyKeepsSequences
       DEF Decide, InDoubtCommit, InDoubtAbort, Apply, tables
  <2> QED
    BY <2>2, <2>3 DEF OrderInv, LockDiscipline
<1>4. CASE PublishPolicy \/ UNCHANGED vars
  BY <1>4 DEF PublishPolicy, vars, tables, OrderInv, LockDiscipline, OneLiveTransaction,
              PolicyRowHeld, SequenceBounds, DeliverableOrder, Deliverable, Tx
<1> QED
  BY <1>1, <1>2, <1>3, <1>4, PublicationKeepsOrder, LifecycleKeepsOrder, ConflictsKeepOrder,
     FailuresKeepOrder DEF Next, Progress

-------------------------------------------------------------------------------
(* Theorems.                                                               *)

Inv == StateInv /\ OrderInv

LEMMA InitInv ==
    ASSUME Init
    PROVE  Inv
<1>1. OrderInv
  BY DEF Init, OrderInv, LockDiscipline, OneLiveTransaction, PolicyRowHeld, SequenceBounds,
         DeliverableOrder
<1> QED
  BY <1>1, InitState DEF Inv

LEMMA NextInv ==
    ASSUME Inv, [Next]_vars
    PROVE  Inv'
BY NextKeepsState, NextKeepsOrder DEF Inv, StateInv, OrderInv, LockDiscipline

THEOREM InvHolds == Spec => []Inv
<1>1. Init => Inv
  BY InitInv
<1>2. Inv /\ [Next]_vars => Inv'
  BY NextInv
<1> QED
  BY <1>1, <1>2, PTL DEF Spec

\* Type correctness: rows, locks, uncommitted events and handler states stay
\* well-formed through every interleaving, failure and retry.
THEOREM TypeCorrect == Spec => []TypeOK
<1>1. Inv => TypeOK
  BY DEF Inv, StateInv
<1> QED
  BY <1>1, InvHolds, PTL

\* No handler and no commit, an in-doubt one included, touches a row that is not
\* there.
THEOREM ReferencesAlwaysExist == Spec => []ReferencesExist
<1>1. Inv => ReferencesExist
  BY DEF Inv, StateInv
<1> QED
  BY <1>1, InvHolds, PTL

\* The FOR UPDATE lock on the policy row is held from before a deliverable event's
\* sequence number is allocated until its outcome is decided.
THEOREM LockDisciplineHolds == Spec => []LockDiscipline
<1>1. Inv => LockDiscipline
  BY DEF Inv, OrderInv
<1> QED
  BY <1>1, InvHolds, PTL

\* Deliverable events become visible in sequence order, for any number of writers,
\* sources and failures: the promise the device pull rests on.
THEOREM DeliverableOrderHolds == Spec => []DeliverableOrder
<1>1. Inv => DeliverableOrder
  BY DEF Inv, OrderInv
<1> QED
  BY <1>1, InvHolds, PTL

-------------------------------------------------------------------------------
(* The store implements EventLog.                                          *)

Shown(e) == [seq |-> e.seq, deliverable |-> Deliverable(e)]
Visible  == {[seq |-> log[i].seq, deliverable |-> Deliverable(log[i])] : i \in 1..Len(log)}

LEMMA ShownIsEvent ==
    ASSUME TypeOK, NEW e \in EventRecord
    PROVE  Shown(e) \in EL!Event
<1>1. e.seq \in Nat \ {0}
  BY DEF EventRecord
<1>2. Deliverable(e) \in BOOLEAN
  BY DEF Deliverable
<1> QED
  BY <1>1, <1>2 DEF Shown, EL!Event

\* A commit shows one more event, above the visible deliverable ones.
LEMMA ApplyIsCommit ==
    ASSUME Inv, NEW t \in Txns, pending[t] # None, log' = Append(log, pending[t])
    PROVE  EL!Next
<1> DEFINE e == pending[t]
<1>1. TypeOK /\ e \in EventRecord /\ e.seq \in Nat
  BY SequencesAreNumbers DEF Inv, StateInv
<1>2. /\ Len(log') = Len(log) + 1 /\ Len(log) \in Nat
      /\ \A i \in 1..Len(log') : log'[i] = IF i <= Len(log) THEN log[i] ELSE e
  BY <1>1 DEF TypeOK
<1>3. /\ \A i \in 1..Len(log) : log[i].seq # e.seq
      /\ Deliverable(e) => \A i \in 1..Len(log) : Deliverable(log[i]) => log[i].seq < e.seq
  BY DEF Inv, OrderInv, LockDiscipline, SequenceBounds
<1>4. Shown(e) \in EL!Event
  BY <1>1, ShownIsEvent
<1>5. Visible' = Visible \cup {Shown(e)}
  <2>1. ASSUME NEW x \in Visible' PROVE x \in Visible \cup {Shown(e)}
    <3>1. PICK i \in 1..Len(log') : x = [seq |-> log'[i].seq, deliverable |-> Deliverable(log[i])']
      BY <2>1 DEF Visible
    <3>2. CASE i <= Len(log)
      <4>1. i \in 1..Len(log) /\ log'[i] = log[i]
        BY <1>2, <3>2
      <4> QED
        BY <3>1, <4>1 DEF Visible, Deliverable
    <3>3. CASE ~(i <= Len(log))
      <4>1. log'[i] = e
        BY <1>2, <3>3
      <4> QED
        BY <3>1, <4>1 DEF Shown, Deliverable
    <3> QED
      BY <3>2, <3>3
  <2>2. ASSUME NEW x \in Visible PROVE x \in Visible'
    <3>1. PICK i \in 1..Len(log) : x = [seq |-> log[i].seq, deliverable |-> Deliverable(log[i])]
      BY <2>2 DEF Visible
    <3>2. i \in 1..Len(log') /\ log'[i] = log[i]
      BY <1>2
    <3> QED
      BY <3>1, <3>2 DEF Visible, Deliverable
  <2>3. Shown(e) \in Visible'
    <3>1. Len(log') \in 1..Len(log') /\ log'[Len(log')] = e
      BY <1>2
    <3> QED
      BY <3>1 DEF Visible, Shown, Deliverable
  <2> QED
    BY <2>1, <2>2, <2>3
<1>6. \A f \in Visible : f.seq # Shown(e).seq
  BY <1>3 DEF Visible, Shown
<1>7. Shown(e).deliverable => \A f \in Visible : f.deliverable => f.seq < Shown(e).seq
  BY <1>3 DEF Visible, Shown
<1>8. PICK x : x = Shown(e)
  OBVIOUS
<1>9. EL!Commit(x)
  BY <1>5, <1>6, <1>7, <1>8 DEF EL!Commit, Visible
<1>10. x \in Visible' /\ x \in EL!Event
  BY <1>4, <1>5, <1>8
<1> QED
  BY <1>9, <1>10 DEF EL!Next, Visible

\* Only a commit, in time or in doubt, changes what is visible.
LEMMA NextIsEventLogStep ==
    ASSUME Inv, [Next]_vars
    PROVE  EL!Next \/ log' = log
<1>0. TypeOK /\ ReferencesExist
  BY DEF Inv, StateInv
<1>1. ASSUME NEW w \in Writers, Commit(w)
      PROVE  EL!Next
  <2>1. Tx(w) \in Txns /\ pending[Tx(w)] # None
    BY <1>0, <1>1, TxIsTxn DEF Commit, ReferencesExist, HandlerReferences
  <2> QED
    BY <1>1, <2>1, ApplyIsCommit DEF Commit, Apply
<1>2. ASSUME NEW t \in Txns, Decide(t)
      PROVE  EL!Next \/ log' = log
  <2>1. t \in indoubt => pending[t] # None
    BY <1>0 DEF ReferencesExist
  <2>2. CASE InDoubtCommit(t)
    BY <2>1, <2>2, ApplyIsCommit DEF InDoubtCommit, Apply
  <2>3. CASE InDoubtAbort(t)
    BY <2>3 DEF InDoubtAbort, tables
  <2> QED
    BY <1>2, <2>2, <2>3 DEF Decide
<1>3. ASSUME NEW w \in Writers, Publication(w) \/ Lifecycle(w) \/ Conflicts(w)
      PROVE  log' = log
  BY <1>3 DEF Publication, Lifecycle, Conflicts, Preflight, PubKey, PubPolicy, PubSource,
              LifeLookup, LifeKey, LifeSource, LifeLocators, LifePolicy, ConfReview,
              ConfKeyCapture, ConfKeyResolve, ConfRow, ConfSource, Unmoved, tables
<1>4. ASSUME NEW w \in Writers, LockTimeout(w) \/ Recover(w) \/ Failure(w)
      PROVE  log' = log
  BY <1>4 DEF LockTimeout, Recover, Failure, ConnLost, LookupLost, CommitLost, RecoverFails,
              Abandon, tables
<1>5. ASSUME NEW w \in Writers, NEW c \in Commands, Request(w, c)
      PROVE  log' = log
  BY <1>5 DEF Request, tables
<1>6. CASE PublishPolicy \/ UNCHANGED vars
  BY <1>6 DEF PublishPolicy, vars, tables
<1> QED
  BY <1>1, <1>2, <1>3, <1>4, <1>5, <1>6 DEF Next, Progress

\* The canonical store implements the abstract event log: its visible events are
\* unique by sequence number and the deliverable ones only ever grow upwards.
THEOREM StoreImplementsEventLog == Spec => ImplementsEventLog
<1>1. Init => EL!Init
  BY DEF Init, EL!Init
<1>2. Inv /\ [Next]_vars => [EL!Next]_Visible
  <2> SUFFICES ASSUME Inv, [Next]_vars, log' = log
               PROVE  Visible' = Visible
    BY NextIsEventLogStep
  <2> QED
    BY DEF Visible, Deliverable
<1>3. Spec => EL!Spec
  BY <1>1, <1>2, InvHolds, PTL DEF Spec, EL!Spec, Visible
<1> QED
  BY <1>3 DEF ImplementsEventLog
-------------------------------------------------------------------------------
(***************************************************************************)
(* What the tables say, for every set of writers, commands and bounds: the *)
(* version chain of a source, its lifecycle over three tables, the         *)
(* hydration of every delivered update, conflicts that are closed once,    *)
(* and answers that are true.                                              *)
(*                                                                         *)
(* A handler decides in one statement and commits in another, so none of   *)
(* these is inductive by itself.  What makes them so is what the locks of  *)
(* a transaction keep true for it: "HandlerKnows" is what a handler has    *)
(* found and may still rely on at its next statement, "PendingKnows" what  *)
(* an uncommitted event may rely on until its outcome is decided, whether  *)
(* its handler is still there or its COMMIT is in doubt.                   *)
(***************************************************************************)
-------------------------------------------------------------------------------
(* The inductive invariant.                                                *)

\* What a handler that holds its key lock, its source lock or its conflict row
\* knows until it writes.
HandlerKnows(w) ==
    LET c == cmd[w] IN
    /\ pc[w] \in {"policy", "source", "locators", "conflict"} => holder[KeyLock(c.key)] = Tx(w)
    /\ pc[w] = "commit" => pending[Tx(w)].cmd = c
    /\ pc[w] \in {"locators", "policy"} /\ c.op \in LifecycleOps
         => holder[SourceLock(c.source)] = Tx(w)
    /\ pc[w] = "policy" /\ c.op \in LifecycleOps => LifecyclePreconditions(w)
    /\ pc[w] = "source" /\ c.op \in ResolveOps
         => holder[ConflictRow(c.conflict)] = Tx(w) /\ conflicts[c.conflict].status = "open"

\* The locks an uncommitted event keeps until its outcome is decided.
EventLocks(t) ==
    LET c == pending[t].cmd IN
    /\ holder[KeyLock(c.key)] = t
    /\ holder[SourceLock(c.source)] = t
    /\ c.op \in ResolveOps => holder[ConflictRow(c.conflict)] = t

\* What the rows must say for an event to follow them.
CreateFits(e) ==
    /\ row[e.cmd.source] = None /\ Holders(e.cmd.target) = {}
    /\ e.version = 1 /\ e.prior = 0 /\ e.intent = "upsert"
UpdateFits(e) ==
    LET s == e.cmd.source IN
    /\ row[s] # None /\ row[s].state = "active" /\ e.prior = row[s].version
    /\ e.version = IF e.intent = "upsert" THEN e.prior + 1 ELSE e.prior
LifecycleFits(e) ==
    LET s == e.cmd.source IN
    /\ row[s] # None /\ e.version = row[s].version
    /\ row[s].state = IF e.cmd.op = "restore" THEN "deleted" ELSE "active"
    /\ e.cmd.op # "delete" => Holders(e.cmd.target) \subseteq {s}
    /\ e.cmd.op = "restore" => TombstoneMatches(e.cmd)
ResolutionFits(e) ==
    LET s == e.cmd.source IN
    /\ row[s] # None
    /\ IF e.version = 0 \/ e.cmd.op = "keep_remote"
         THEN e.intent = "none" /\ e.version \in {0, row[s].version}
         ELSE /\ row[s].state = "active" /\ e.intent = "upsert"
              /\ e.prior = row[s].version /\ e.version = e.prior + 1

Fits(e) ==
    /\ e.cmd.op = "create" => CreateFits(e)
    /\ e.cmd.op = "update" => UpdateFits(e)
    /\ e.cmd.op \in LifecycleOps => LifecycleFits(e)
    /\ e.cmd.op \in ResolveOps => ResolutionFits(e) /\ conflicts[e.cmd.conflict].status = "open"

\* No event of this identity or key has been committed, and nobody else writes one.
Fresh(t) ==
    /\ ByKey(pending[t].cmd.key) = {} /\ ByEvent(pending[t].cmd.event) = {}
    /\ \A u \in Txns : u # t /\ pending[u] # None => pending[u].cmd.event # pending[t].cmd.event

PendingKnows(t) == pending[t] # None => EventLocks(t) /\ Fits(pending[t]) /\ Fresh(t)

Knowledge == (\A w \in Writers : HandlerKnows(w)) /\ (\A t \in Txns : PendingKnows(t))

\* One event per identity and per key.
Unique ==
    \A i, j \in 1..Len(log) :
        i # j => log[i].cmd.key # log[j].cmd.key /\ log[i].cmd.event # log[j].cmd.event

\* Rows that carry an event's identity belong to a committed event.
RowsAreCommitted ==
    \A e \in Events : tombstones[e] # None \/ conflicts[e] # None => ByEvent(e) # {}

Published(s) == {i \in 1..Len(log) : log[i].cmd.source = s /\ PublishesVersion(log[i])}

\* The chain of a source ends at its row.
Chain(s) ==
    /\ \A i \in Published(s) :
        /\ row[s] # None /\ log[i].version <= row[s].version
        /\ log[i].version = log[i].prior + 1
        /\ \A j \in Published(s) : j < i => log[j].version < log[i].version
    /\ row[s] # None => row[s].version > 0 /\ row[s].version = Cardinality(Published(s))

OpenTombstones(s) ==
    {e \in Events : tombstones[e] # None /\ tombstones[e].source = s /\ tombstones[e].closed = 0}

OneHolder == \A p, q \in locators : p.closed = 0 /\ q.closed = 0 /\ p.locator = q.locator => p = q

Lifecycle3(s) ==
    IF row[s] = None THEN OpenLocator(s) = {} /\ OpenTombstones(s) = {}
    ELSE IF row[s].state = "active"
    THEN (\E r \in locators : OpenLocator(s) = {r}) /\ OpenTombstones(s) = {}
    ELSE /\ OpenLocator(s) = {}
         /\ \E e \in Events : OpenTombstones(s) = {e} /\ tombstones[e].version = row[s].version

\* Locator rows are opened and closed at the numbers of delivered events.
DeliveredAt(n) == \E i \in 1..Len(log) : Deliverable(log[i]) /\ log[i].seq = n
LocatorTimes ==
    \A r \in locators : DeliveredAt(r.opened) /\ (r.closed # 0 => DeliveredAt(r.closed))

HeldAt(s, n) ==
    {r \in locators : r.source = s /\ r.opened <= n /\ (r.closed = 0 \/ r.closed > n)}
Hydrated ==
    \A i \in 1..Len(log) : log[i].cmd.op = "update" =>
        \E r \in locators : HeldAt(log[i].cmd.source, log[i].seq) = {r}

Closing(c) == {i \in 1..Len(log) : log[i].cmd.op \in ResolveOps /\ log[i].cmd.conflict = c}

\* An open conflict has no closing event, a closed one has one.
ConflictState(c) ==
    IF conflicts[c] = None \/ conflicts[c].status = "open" THEN Closing(c) = {}
    ELSE \E i \in 1..Len(log) :
           /\ Closing(c) = {i}
           /\ conflicts[c].status = "resolved" => log[i].version # 0
           /\ conflicts[c].status = "superseded" =>
                /\ conflicts[c].by \in Events /\ conflicts[conflicts[c].by] # None
                /\ conflicts[conflicts[c].by].candidate = conflicts[c].candidate

Tables ==
    /\ Unique /\ RowsAreCommitted /\ OneHolder /\ LocatorTimes /\ Hydrated
    /\ \A s \in Sources : Chain(s) /\ Lifecycle3(s)
    /\ \A c \in Events : ConflictState(c)

TableInv == Knowledge /\ Tables /\ AnswerTrue

-------------------------------------------------------------------------------
(* Locks, keys and receipts.                                               *)

LEMMA CommandLocks ==
    ASSUME NEW c \in Commands
    PROVE  /\ c.key \in Keys /\ KeyLock(c.key) \in Locks /\ SourceLock(c.source) \in Locks
           /\ c.op \in ResolveOps => ConflictRow(c.conflict) \in Locks
<1>1. c.key \in Keys /\ c.source \in Sources
  BY CommandsAssumption DEF Command
<1> QED
  BY <1>1, CommandFields DEF Locks

LEMMA LockNames ==
    ASSUME NEW a, NEW b
    PROVE  /\ KeyLock(a) = KeyLock(b) => a = b
           /\ SourceLock(a) = SourceLock(b) => a = b
           /\ ConflictRow(a) = ConflictRow(b) => a = b
BY DEF KeyLock, SourceLock, ConflictRow

\* The command of a handler that runs, and of an uncommitted event.
LEMMA CommandOf ==
    ASSUME StateInv
    PROVE  /\ \A w \in Writers : pc[w] # "idle" => cmd[w] \in Commands
           /\ \A t \in Txns : pending[t] # None => pending[t] \in EventRecord /\ pending[t].cmd \in Commands
           /\ \A i \in 1..Len(log) : log[i] \in EventRecord /\ log[i].cmd \in Commands
<1>1. \A e \in EventRecord : e.cmd \in Commands
  BY DEF EventRecord
<1> QED
  BY <1>1 DEF StateInv, TypeOK, ReferencesExist, HandlerReferences

\* seq is the number of the committed event of c.
Names(c, seq) ==
    \E i \in 1..Len(log) :
        /\ log[i].seq = seq
        /\ log[i].cmd.key = c.key /\ log[i].cmd.event = c.event
        /\ c.op \notin ResolveOps => log[i].cmd = c

LEMMA ReceiptNames ==
    ASSUME Unique, NEW c, Committed(c)
    PROVE  Names(c, Receipt(c))
<1>1. PICK j \in 1..Len(log) : log[j].cmd = c
  BY DEF Committed
<1>2. ByKey(c.key) = {j}
  BY <1>1 DEF ByKey, Unique
<1>3. (CHOOSE i \in ByKey(c.key) : TRUE) = j
  BY <1>2
<1> QED
  BY <1>1, <1>3 DEF Names, Receipt

-------------------------------------------------------------------------------
(* The shapes of a step.                                                   *)

\* Where a handler knows nothing from an earlier statement.
Outside == {"idle", "done", "recover", "preflight", "lookup", "review", "key"}

TrueAnswer(w) ==
    answer[w].kind \in {"committed", "replayed"} => Names(cmd[w], answer[w].seq)

Same(v) == pc'[v] = pc[v] /\ cmd'[v] = cmd[v] /\ Tx(v)' = Tx(v) /\ answer'[v] = answer[v]

Leaves(v) == pc'[v] \in Outside /\ (pc'[v] = "done" => TrueAnswer(v)')

\* Transaction t ends without a trace.
Ends(t) ==
    /\ holder' = Released(t)
    /\ pending' \in {pending, [pending EXCEPT ![t] = None]} /\ pending'[t] = None
    /\ \A v \in Writers : Tx(v) = t => pc'[v] \in Outside

\* A step that publishes nothing and after which nobody relies on more than before.
Retreats ==
    /\ UNCHANGED tables
    /\ \A v \in Writers : Same(v) \/ Leaves(v)
    /\ UNCHANGED <<holder, pending>> \/ \E t \in Txns : Ends(t)

Others1(w) == \A v \in Writers \ {w} : Same(v) /\ Tx(v) # Tx(w)

\* Handler w goes on to a statement that relies on what it has found.
Advances(w) ==
    /\ UNCHANGED <<tables, pending>> /\ Others1(w)
    /\ CanLock(w) /\ holder' = Locked(w)
    /\ pc'[w] # "done" /\ HandlerKnows(w)'

\* Handler w writes event e.
Writes(w, e) ==
    /\ UNCHANGED tables /\ Others1(w)
    /\ CanLock(w) /\ holder' = Locked(w)
    /\ pc'[w] = "commit" /\ cmd'[w] = cmd[w] /\ Tx(w)' = Tx(w)
    /\ pending' = [pending EXCEPT ![Tx(w)] = e]
    /\ e # None /\ e.cmd = cmd[w] /\ Fits(e)
    /\ EventLocks(Tx(w))'
    /\ ~EventInsertWaits(w) /\ ByEvent(cmd[w].event) = {} /\ ByKey(cmd[w].key) = {}

\* Transaction t commits.
Applies(t) ==
    /\ pending[t] # None /\ Apply(t)
    /\ \A v \in Writers :
        \/ Same(v) /\ (Tx(v) = t => pc[v] \in Outside)
        \/ /\ Tx(v) = t /\ pc[v] = "commit" /\ pc'[v] = "done" /\ cmd'[v] = cmd[v]
           /\ answer'[v] = [kind |-> "committed", seq |-> pending[t].seq]

Shape ==
    \/ Retreats
    \/ \E w \in Writers : Advances(w)
    \/ \E w \in Writers, e \in EventRecord : Writes(w, e)
    \/ \E t \in Txns : Applies(t)

\* A request that ends before its transaction wrote anything.
LEMMA ReplyRetreats ==
    ASSUME Inv, TableInv, NEW w \in Writers, pc[w] \in Running,
           UNCHANGED <<tables, cmd, attempt>>,
           NEW kind, NEW seq, Answer(w, kind, seq),
           kind \in {"committed", "replayed"} => Names(cmd[w], seq),
           holder' = Released(Tx(w)), pending' = pending
    PROVE  Retreats
<1>1. TypeOK /\ OrderInv
  BY DEF Inv, StateInv
<1>2. Tx(w) \in Txns /\ pending[Tx(w)] = None
  BY <1>1, RunningWroteNothing, TxIsTxn
<1>3. /\ pc' = [pc EXCEPT ![w] = "done"]
      /\ answer' = [answer EXCEPT ![w] = [kind |-> kind, seq |-> seq]]
      /\ log' = log
  BY DEF Answer, tables
<1>4. \A v \in Writers : v # w => Same(v) /\ Tx(v) # Tx(w)
  BY <1>1, <1>3 DEF Same, TypeOK, Tx
<1>5. pc'[w] = "done" /\ answer'[w] = [kind |-> kind, seq |-> seq] /\ cmd'[w] = cmd[w]
  BY <1>1, <1>3 DEF TypeOK
<1>6. TrueAnswer(w)'
  BY <1>3, <1>5 DEF TrueAnswer, Names
<1>7. Ends(Tx(w))
  BY <1>2, <1>4, <1>5 DEF Ends, Outside
<1> QED
  BY <1>2, <1>4, <1>5, <1>6, <1>7 DEF Retreats, Leaves, Outside

\* A handler that goes back to a label where it knows nothing yet.
LEMMA GotoRetreats ==
    ASSUME TypeOK, NEW w \in Writers, NEW label \in Outside \ {"done"},
           UNCHANGED <<tables, holder, pending>>,
           pc' = [pc EXCEPT ![w] = label],
           \A v \in Writers \ {w} : cmd'[v] = cmd[v] /\ Tx(v)' = Tx(v) /\ answer'[v] = answer[v]
    PROVE  Retreats
BY DEF TypeOK, Retreats, Same, Leaves

\* A handler that got its locks.
LEMMA ProceedAdvances ==
    ASSUME Inv, NEW w \in Writers, CanLock(w), UNCHANGED <<tables, cmd, attempt>>,
           NEW label, label # "done", Proceed(w, label), HandlerKnows(w)'
    PROVE  Advances(w)
<1>1. TypeOK
  BY DEF Inv, StateInv
<1>2. \A v \in Writers : v # w => Same(v) /\ Tx(v) # Tx(w)
  BY <1>1 DEF Same, TypeOK, Tx, Proceed, Goto
<1>3. pc'[w] = label
  BY <1>1 DEF TypeOK, Proceed, Goto
<1> QED
  BY <1>2, <1>3 DEF Advances, Others1, Proceed

\* A handler that writes an event that fits, or meets a committed duplicate.
LEMMA WriteShape ==
    ASSUME Inv, TableInv, NEW w \in Writers, pc[w] \in Running, CanLock(w),
           UNCHANGED <<tables, cmd, attempt>>,
           NEW version \in Nat, NEW content \in Contents \cup {None},
           NEW intent \in {"upsert", "delete", "none"},
           Write(w, NewEvent(w, version, content, intent)),
           Fits(NewEvent(w, version, content, intent)),
           Locked(w)[KeyLock(cmd[w].key)] = Tx(w),
           Locked(w)[SourceLock(cmd[w].source)] = Tx(w),
           cmd[w].op \in ResolveOps => Locked(w)[ConflictRow(cmd[w].conflict)] = Tx(w)
    PROVE  Shape
<1> DEFINE e == NewEvent(w, version, content, intent)
<1>1. TypeOK /\ StateInv /\ OrderInv /\ Tx(w) \in Txns
  BY TxIsTxn DEF Inv, StateInv
<1>2. CASE ByEvent(cmd[w].event) # {} \/ ByKey(cmd[w].key) # {}
  <2>1. Answer(w, "error", 0) /\ holder' = Released(Tx(w)) /\ pending' = pending
    BY <1>2 DEF Write
  <2> QED
    BY <2>1, ReplyRetreats DEF Shape
<1>3. CASE ~(ByEvent(cmd[w].event) # {} \/ ByKey(cmd[w].key) # {})
  <2>1. /\ ~EventInsertWaits(w) /\ pc' = [pc EXCEPT ![w] = "commit"] /\ answer' = answer
        /\ holder' = Locked(w) /\ pending' = [pending EXCEPT ![Tx(w)] = e]
    BY <1>3 DEF Write, Goto
  <2>2. cmd[w] \in Commands
    BY <1>1, CommandOf DEF Running
  <2>3. e \in EventRecord
    <3>1. nextSeq \in Nat \ {0} /\ policyRev \in Nat /\ cmd[w].base \in Nat
      BY <1>1, <2>2, CommandFields DEF TypeOK
    <3> QED
      BY <2>2, <3>1 DEF NewEvent, EventRecord
  <2>4. e # None /\ e.cmd = cmd[w]
    BY <2>3, NoneAssumption DEF NewEvent
  <2>5. Fits(e)
    OBVIOUS
  <2> HIDE DEF e
  <2>6. Tx(w)' = Tx(w) /\ pending'[Tx(w)] = e
    BY <1>1, <2>1 DEF Tx, TypeOK
  <2>7. EventLocks(Tx(w))'
    BY <2>1, <2>4, <2>6 DEF EventLocks
  <2>8. \A v \in Writers : v # w => Same(v) /\ Tx(v) # Tx(w)
    BY <1>1, <2>1 DEF Same, TypeOK, Tx
  <2>9. pc'[w] = "commit"
    BY <1>1, <2>1 DEF TypeOK
  <2>10. Writes(w, e)
    BY <1>3, <2>1, <2>4, <2>5, <2>6, <2>7, <2>8, <2>9 DEF Writes, Others1
  <2> QED
    BY <2>3, <2>10 DEF Shape
<1> QED
  BY <1>2, <1>3

-------------------------------------------------------------------------------
(* Every step has one of the shapes.                                       *)

\* Handler w leaves what it knew behind.
LEMMA MoverRetreats ==
    ASSUME TypeOK, NEW w \in Writers, UNCHANGED tables, Leaves(w),
           \A v \in Writers \ {w} : /\ pc'[v] = pc[v] /\ cmd'[v] = cmd[v]
                                    /\ attempt'[v] = attempt[v] /\ answer'[v] = answer[v],
           \/ UNCHANGED <<holder, pending>>
           \/ /\ holder' = Released(Tx(w)) /\ pending'[Tx(w)] = None
              /\ pending' \in {pending, [pending EXCEPT ![Tx(w)] = None]}
    PROVE  Retreats
<1>1. Tx(w) \in Txns /\ \A v \in Writers : v # w => Tx(v) # Tx(w)
  BY TxIsTxn DEF Tx
<1>2. \A v \in Writers : Same(v) \/ Leaves(v)
  BY DEF Same, Tx
<1>3. CASE holder' = Released(Tx(w)) /\ pending'[Tx(w)] = None
           /\ pending' \in {pending, [pending EXCEPT ![Tx(w)] = None]}
  <2>1. Ends(Tx(w))
    BY <1>1, <1>3 DEF Ends, Leaves
  <2> QED
    BY <1>1, <1>2, <2>1 DEF Retreats
<1> QED
  BY <1>2, <1>3 DEF Retreats

\* The locks a handler has after its statement.
LEMMA LockedHas ==
    ASSUME NEW w \in Writers, NEW l \in Locks, holder[l] = Tx(w) \/ l \in Wanted(w)
    PROVE  Locked(w)[l] = Tx(w)
BY DEF Locked

LEMMA PublicationShape ==
    ASSUME Inv, TableInv, NEW w \in Writers, Publication(w)
    PROVE  Shape
<1>0. /\ TypeOK /\ StateInv /\ Unique /\ HandlerKnows(w) /\ HandlerReferences(w)
      /\ "key" \in Outside \ {"done"}
  BY DEF Inv, StateInv, TableInv, Tables, Knowledge, ReferencesExist, Outside
<1>c. pc[w] # "idle" => cmd[w] \in Commands
  BY <1>0, CommandOf
<1>1. CASE Preflight(w)
  <2>1. pc[w] \in Running /\ UNCHANGED <<tables, cmd, attempt>>
    BY <1>1 DEF Preflight, Running, Labels, tables
  <2>2. \/ \E kind, seq : /\ Answer(w, kind, seq) /\ holder' = Released(Tx(w)) /\ pending' = pending
                          /\ kind \in {"committed", "replayed"} => Names(cmd[w], seq)
        \/ Read(w, "key")
    BY <1>0, <1>1, ReceiptNames DEF Preflight, Reply
  <2>3. CASE Read(w, "key")
    BY <1>0, <2>1, <2>3, GotoRetreats DEF Read, Goto, Shape, Tx
  <2> QED
    BY <2>1, <2>2, <2>3, ReplyRetreats DEF Shape
<1>2. CASE PubKey(w)
  <2>1. /\ pc[w] \in Running /\ UNCHANGED <<tables, cmd, attempt>> /\ CanLock(w)
        /\ pc[w] = "key" /\ cmd[w].op \in PublicationOps
    BY <1>2 DEF PubKey, Unmoved, Running, Labels, tables
  <2>2. CASE Proceed(w, "policy")
    <3>1. Locked(w)[KeyLock(cmd[w].key)] = Tx(w)
      BY <1>c, <2>1, CommandLocks, LockedHas DEF Wanted
    <3>2. pc'[w] = "policy" /\ cmd'[w] = cmd[w] /\ Tx(w)' = Tx(w) /\ holder' = Locked(w)
      BY <1>0, <2>1, <2>2 DEF Proceed, Goto, TypeOK, Tx
    <3>3. HandlerKnows(w)'
      BY <2>1, <3>1, <3>2, Families DEF HandlerKnows
    <3> QED
      BY <2>1, <2>2, <3>3, ProceedAdvances DEF Shape
  <2> QED
    BY <1>2, <2>1, <2>2, ReplyRetreats DEF PubKey, Reply, Shape
<1>3. CASE PubPolicy(w)
  <2>1. /\ pc[w] \in Running /\ UNCHANGED <<tables, cmd, attempt>> /\ CanLock(w)
        /\ pc[w] = "policy" /\ cmd[w].op \in PublicationOps
    BY <1>3 DEF PubPolicy, Unmoved, Running, Labels, tables
  <2>2. \/ \E kind, seq : /\ Answer(w, kind, seq) /\ holder' = Released(Tx(w)) /\ pending' = pending
                          /\ kind \in {"committed", "replayed"} => Names(cmd[w], seq)
        \/ Proceed(w, "source")
    BY <1>0, <1>3, ReceiptNames DEF PubPolicy, Reply
  <2>3. CASE Proceed(w, "source")
    <3>1. Locked(w)[KeyLock(cmd[w].key)] = Tx(w)
      BY <1>0, <1>c, <2>1, CommandLocks, LockedHas DEF HandlerKnows
    <3>2. pc'[w] = "source" /\ cmd'[w] = cmd[w] /\ Tx(w)' = Tx(w) /\ holder' = Locked(w)
      BY <1>0, <2>1, <2>3 DEF Proceed, Goto, TypeOK, Tx
    <3>3. HandlerKnows(w)'
      BY <2>1, <3>1, <3>2, Families DEF HandlerKnows
    <3> QED
      BY <2>1, <2>3, <3>3, ProceedAdvances DEF Shape
  <2> QED
    BY <2>1, <2>2, <2>3, ReplyRetreats DEF Shape
<1>4. CASE PubSource(w)
  <2>1. /\ pc[w] \in Running /\ UNCHANGED <<tables, cmd, attempt>> /\ CanLock(w)
        /\ pc[w] = "source" /\ cmd[w].op \in PublicationOps
    BY <1>4 DEF PubSource, Unmoved, Running, Labels, tables
  <2>2. cmd[w] \in Commands
    BY <1>c, <2>1
  <2>3. /\ Locked(w)[KeyLock(cmd[w].key)] = Tx(w)
        /\ Locked(w)[SourceLock(cmd[w].source)] = Tx(w)
    BY <1>0, <2>1, <2>2, CommandLocks, LockedHas DEF HandlerKnows, Wanted
  <2>4. cmd[w].op \notin LifecycleOps /\ cmd[w].op \notin ResolveOps
    BY <2>1, Families
  <2>5. Exists(w) => /\ Current(w) \in Nat /\ Content(w) \in Contents \cup {None}
                     /\ row[cmd[w].source] \in SourceRow
    BY <1>0, <2>2, CommandFields DEF Exists, Current, Content, TypeOK, SourceRow
  <2>6. CASE cmd[w].op = "create"
    <3>1. CASE ~Exists(w) /\ Holders(cmd[w].target) = {}
               /\ Write(w, NewEvent(w, 1, cmd[w].content, "upsert"))
      <4>1. Fits(NewEvent(w, 1, cmd[w].content, "upsert"))
        BY <2>2, <2>4, <2>6, <3>1, CommandsAssumption DEF Fits, CreateFits, NewEvent, Exists
      <4> QED
        BY <2>1, <2>2, <2>3, <2>4, <3>1, <4>1, CommandFields, WriteShape
    <3> QED
      BY <1>4, <2>1, <2>6, <3>1, ReplyRetreats DEF PubSource, CreateTransition, Reply, Shape
  <2>7. CASE cmd[w].op = "update"
    <3>1. CASE /\ InState(w, "active") /\ BaseIsCurrent(w)
               /\ Write(w, NewEvent(w, Current(w), Content(w), "none"))
      <4>1. Fits(NewEvent(w, Current(w), Content(w), "none"))
        BY <2>4, <2>7, <3>1 DEF Fits, UpdateFits, NewEvent, InState, Exists, BaseIsCurrent, Current
      <4> QED
        BY <2>1, <2>3, <2>4, <2>5, <3>1, <4>1, WriteShape DEF InState
    <3>2. CASE /\ InState(w, "active") /\ BaseIsCurrent(w)
               /\ Write(w, NewEvent(w, Current(w) + 1, cmd[w].content, "upsert"))
      <4>1. Fits(NewEvent(w, Current(w) + 1, cmd[w].content, "upsert"))
        BY <2>4, <2>7, <3>2 DEF Fits, UpdateFits, NewEvent, InState, Exists, BaseIsCurrent, Current
      <4>2. Current(w) + 1 \in Nat /\ cmd[w].content \in Contents \cup {None}
        BY <2>2, <2>5, <3>2, CommandFields DEF InState
      <4> QED
        BY <2>1, <2>3, <2>4, <3>2, <4>1, <4>2, WriteShape
    <3> QED
      BY <1>4, <2>1, <2>7, <3>1, <3>2, ReplyRetreats DEF PubSource, UpdateTransition, Reply, Shape
  <2> QED
    BY <2>1, <2>6, <2>7 DEF PublicationOps
<1> QED
  BY <1>1, <1>2, <1>3, <1>4 DEF Publication

LEMMA LifecycleShape ==
    ASSUME Inv, TableInv, NEW w \in Writers, Lifecycle(w)
    PROVE  Shape
<1>0. /\ TypeOK /\ StateInv /\ Unique /\ HandlerKnows(w) /\ HandlerReferences(w)
      /\ "key" \in Outside \ {"done"}
  BY DEF Inv, StateInv, TableInv, Tables, Knowledge, ReferencesExist, Outside
<1>c. pc[w] # "idle" => cmd[w] \in Commands
  BY <1>0, CommandOf
<1>1. CASE LifeLookup(w)
  <2>1. pc[w] \in Running /\ UNCHANGED <<tables, cmd, attempt>>
    BY <1>1 DEF LifeLookup, Unmoved, Running, Labels, tables
  <2>2. \/ \E kind, seq : /\ Answer(w, kind, seq) /\ holder' = Released(Tx(w)) /\ pending' = pending
                          /\ kind \in {"committed", "replayed"} => Names(cmd[w], seq)
        \/ Read(w, "key")
    BY <1>0, <1>1, ReceiptNames DEF LifeLookup, Reply
  <2>3. CASE Read(w, "key")
    BY <1>0, <2>1, <2>3, GotoRetreats DEF Read, Goto, Shape, Tx
  <2> QED
    BY <2>1, <2>2, <2>3, ReplyRetreats DEF Shape
<1>2. CASE LifeKey(w)
  <2>1. /\ UNCHANGED <<tables, cmd, attempt>> /\ CanLock(w) /\ Proceed(w, "source")
        /\ pc[w] = "key" /\ cmd[w].op \in LifecycleOps
    BY <1>2 DEF LifeKey, Unmoved, tables
  <2>2. Locked(w)[KeyLock(cmd[w].key)] = Tx(w)
    BY <1>c, <2>1, CommandLocks, LockedHas DEF Wanted
  <2>3. pc'[w] = "source" /\ cmd'[w] = cmd[w] /\ Tx(w)' = Tx(w) /\ holder' = Locked(w)
    BY <1>0, <2>1 DEF Proceed, Goto, TypeOK, Tx
  <2>4. HandlerKnows(w)'
    BY <2>1, <2>2, <2>3, Families DEF HandlerKnows
  <2> QED
    BY <2>1, <2>4, ProceedAdvances DEF Shape
<1>3. CASE LifeSource(w)
  <2>1. /\ UNCHANGED <<tables, cmd, attempt>> /\ CanLock(w) /\ Proceed(w, "locators")
        /\ pc[w] = "source" /\ cmd[w].op \in LifecycleOps
    BY <1>3 DEF LifeSource, Unmoved, tables
  <2>2. /\ Locked(w)[KeyLock(cmd[w].key)] = Tx(w)
        /\ Locked(w)[SourceLock(cmd[w].source)] = Tx(w)
    BY <1>0, <1>c, <2>1, CommandLocks, LockedHas DEF Wanted, HandlerKnows
  <2>3. pc'[w] = "locators" /\ cmd'[w] = cmd[w] /\ Tx(w)' = Tx(w) /\ holder' = Locked(w)
    BY <1>0, <2>1 DEF Proceed, Goto, TypeOK, Tx
  <2>4. HandlerKnows(w)'
    BY <2>1, <2>2, <2>3, Families DEF HandlerKnows
  <2> QED
    BY <2>1, <2>4, ProceedAdvances DEF Shape
<1>4. CASE LifeLocators(w)
  <2>1. /\ pc[w] \in Running /\ UNCHANGED <<tables, cmd, attempt>> /\ CanLock(w)
        /\ pc[w] = "locators" /\ cmd[w].op \in LifecycleOps
    BY <1>0, <1>4 DEF LifeLocators, Unmoved, Running, Labels, tables, HandlerReferences
  <2>2. CASE LifecyclePreconditions(w) /\ Proceed(w, "policy")
    <3>1. /\ Locked(w)[KeyLock(cmd[w].key)] = Tx(w)
          /\ Locked(w)[SourceLock(cmd[w].source)] = Tx(w)
      BY <1>0, <1>c, <2>1, CommandLocks, LockedHas DEF HandlerKnows
    <3>2. pc'[w] = "policy" /\ cmd'[w] = cmd[w] /\ Tx(w)' = Tx(w) /\ holder' = Locked(w)
      BY <1>0, <2>1, <2>2 DEF Proceed, Goto, TypeOK, Tx
    <3>3. LifecyclePreconditions(w)'
      BY <2>1, <2>2, <3>2 DEF LifecyclePreconditions, InState, Exists, BaseIsCurrent, Current,
                             OpenLocator, TombstoneMatches, tables
    <3>4. HandlerKnows(w)'
      BY <2>1, <3>1, <3>2, <3>3, Families DEF HandlerKnows
    <3> QED
      BY <2>1, <2>2, <3>4, ProceedAdvances DEF Shape
  <2> QED
    BY <1>4, <2>1, <2>2, ReplyRetreats DEF LifeLocators, Reply, Shape
<1>5. CASE LifePolicy(w)
  <2>1. /\ pc[w] \in Running /\ UNCHANGED <<tables, cmd, attempt>> /\ CanLock(w)
        /\ pc[w] = "policy" /\ cmd[w].op \in LifecycleOps
    BY <1>5 DEF LifePolicy, Unmoved, Running, Labels, tables
  <2>2. cmd[w] \in Commands /\ LifecyclePreconditions(w)
    BY <1>0, <1>c, <2>1 DEF HandlerKnows
  <2>3. /\ Locked(w)[KeyLock(cmd[w].key)] = Tx(w)
        /\ Locked(w)[SourceLock(cmd[w].source)] = Tx(w)
    BY <1>0, <2>1, <2>2, CommandLocks, LockedHas DEF HandlerKnows
  <2>4. cmd[w].op \notin PublicationOps /\ cmd[w].op \notin ResolveOps
    BY <2>1, Families
  <2> DEFINE e == NewEvent(w, Current(w), Content(w), LifecycleIntent(cmd[w]))
  <2>5. CASE /\ cmd[w].op = "delete" \/ Holders(cmd[w].target) \ {cmd[w].source} = {}
             /\ Write(w, e)
    <3>1. /\ Current(w) \in Nat /\ Content(w) \in Contents \cup {None}
          /\ LifecycleIntent(cmd[w]) \in {"upsert", "delete", "none"}
      BY <1>0, <2>2, CommandFields
         DEF LifecyclePreconditions, InState, Exists, Current, Content, TypeOK, SourceRow,
             LifecycleIntent
    <3>2. e.cmd = cmd[w] /\ e.version = Current(w)
      BY DEF NewEvent
    <3>3. LifecycleFits(e)
      BY <2>2, <2>5, <3>2 DEF LifecycleFits, LifecyclePreconditions, InState, Exists, Current
    <3>4. Fits(e)
      BY <2>4, <3>2, <3>3 DEF Fits, PublicationOps
    <3> QED
      BY <2>1, <2>3, <2>4, <2>5, <3>1, <3>4, WriteShape
  <2> QED
    BY <1>5, <2>1, <2>5, ReplyRetreats DEF LifePolicy, Reply, Shape
<1> QED
  BY <1>1, <1>2, <1>3, <1>4, <1>5 DEF Lifecycle

LEMMA ConflictsShape ==
    ASSUME Inv, TableInv, NEW w \in Writers, Conflicts(w)
    PROVE  Shape
<1>0. /\ TypeOK /\ StateInv /\ Unique /\ HandlerKnows(w) /\ HandlerReferences(w)
      /\ "key" \in Outside \ {"done"}
  BY DEF Inv, StateInv, TableInv, Tables, Knowledge, ReferencesExist, Outside
<1>c. pc[w] # "idle" => cmd[w] \in Commands
  BY <1>0, CommandOf
<1>1. CASE ConfReview(w)
  <2>1. pc[w] \in Running /\ UNCHANGED <<tables, cmd, attempt>>
    BY <1>1 DEF ConfReview, Unmoved, Running, Labels, tables
  <2>2. CASE Read(w, "key")
    BY <1>0, <2>1, <2>2, GotoRetreats DEF Read, Goto, Shape, Tx
  <2> QED
    BY <1>1, <2>1, <2>2, ReplyRetreats DEF ConfReview, Reply, Shape
<1>2. CASE ConfKeyCapture(w)
  <2>1. /\ pc[w] \in Running /\ UNCHANGED <<tables, cmd, attempt>> /\ CanLock(w)
        /\ pc[w] = "key" /\ cmd[w].op = "capture"
    BY <1>2 DEF ConfKeyCapture, Unmoved, Running, Labels, tables
  <2>2. \/ \E kind, seq : /\ Answer(w, kind, seq) /\ holder' = Released(Tx(w)) /\ pending' = pending
                          /\ kind \in {"committed", "replayed"} => Names(cmd[w], seq)
        \/ Proceed(w, "source")
    BY <1>0, <1>2, ReceiptNames DEF ConfKeyCapture, Reply
  <2>3. CASE Proceed(w, "source")
    <3>1. Locked(w)[KeyLock(cmd[w].key)] = Tx(w)
      BY <1>c, <2>1, CommandLocks, LockedHas DEF Wanted
    <3>2. pc'[w] = "source" /\ cmd'[w] = cmd[w] /\ Tx(w)' = Tx(w) /\ holder' = Locked(w)
      BY <1>0, <2>1, <2>3 DEF Proceed, Goto, TypeOK, Tx
    <3>3. cmd[w].op \notin LifecycleOps /\ cmd[w].op \notin ResolveOps
      BY <2>1, Families
    <3>4. HandlerKnows(w)'
      BY <2>1, <3>1, <3>2, <3>3 DEF HandlerKnows
    <3> QED
      BY <2>1, <2>3, <3>4, ProceedAdvances DEF Shape
  <2> QED
    BY <2>1, <2>2, <2>3, ReplyRetreats DEF Shape
<1>3. CASE ConfKeyResolve(w)
  <2>1. /\ pc[w] \in Running /\ UNCHANGED <<tables, cmd, attempt>> /\ CanLock(w)
        /\ pc[w] = "key" /\ cmd[w].op \in ResolveOps
    BY <1>3 DEF ConfKeyResolve, Unmoved, Running, Labels, tables
  <2>2. \A i \in Resolutions(cmd[w].event) :
          log[i].cmd.key = cmd[w].key => Names(cmd[w], log[i].seq)
    BY <2>1 DEF Resolutions, ByEvent, Names
  <2>3. \/ \E kind, seq : /\ Answer(w, kind, seq) /\ holder' = Released(Tx(w)) /\ pending' = pending
                          /\ kind \in {"committed", "replayed"} => Names(cmd[w], seq)
        \/ Proceed(w, "conflict")
    BY <1>3, <2>2 DEF ConfKeyResolve, Reply
  <2>4. CASE Proceed(w, "conflict")
    <3>1. Locked(w)[KeyLock(cmd[w].key)] = Tx(w)
      BY <1>c, <2>1, CommandLocks, LockedHas DEF Wanted
    <3>2. pc'[w] = "conflict" /\ cmd'[w] = cmd[w] /\ Tx(w)' = Tx(w) /\ holder' = Locked(w)
      BY <1>0, <2>1, <2>4 DEF Proceed, Goto, TypeOK, Tx
    <3>3. HandlerKnows(w)'
      BY <3>1, <3>2 DEF HandlerKnows
    <3> QED
      BY <2>1, <2>4, <3>3, ProceedAdvances DEF Shape
  <2> QED
    BY <2>1, <2>3, <2>4, ReplyRetreats DEF Shape
<1>4. CASE ConfRow(w)
  <2>1. /\ pc[w] \in Running /\ UNCHANGED <<tables, cmd, attempt>> /\ CanLock(w)
        /\ pc[w] = "conflict" /\ cmd[w].op \in ResolveOps
    BY <1>0, <1>4 DEF ConfRow, Unmoved, Running, Labels, tables, HandlerReferences
  <2>2. CASE conflicts[cmd[w].conflict].status = "open" /\ Proceed(w, "source")
    <3>1. /\ Locked(w)[KeyLock(cmd[w].key)] = Tx(w)
          /\ Locked(w)[ConflictRow(cmd[w].conflict)] = Tx(w)
      BY <1>0, <1>c, <2>1, CommandLocks, LockedHas DEF Wanted, HandlerKnows
    <3>2. pc'[w] = "source" /\ cmd'[w] = cmd[w] /\ Tx(w)' = Tx(w) /\ holder' = Locked(w)
          /\ conflicts' = conflicts
      BY <1>0, <2>1, <2>2 DEF Proceed, Goto, TypeOK, Tx, tables
    <3>3. HandlerKnows(w)'
      BY <2>1, <2>2, <3>1, <3>2, Families DEF HandlerKnows
    <3> QED
      BY <2>1, <2>2, <3>3, ProceedAdvances DEF Shape
  <2> QED
    BY <1>4, <2>1, <2>2, ReplyRetreats DEF ConfRow, Reply, Shape
<1>5. CASE ConfSource(w)
  <2>1. /\ pc[w] \in Running /\ UNCHANGED <<tables, cmd, attempt>> /\ CanLock(w)
        /\ pc[w] = "source" /\ cmd[w].op \in ConflictOps
    BY <1>5 DEF ConfSource, Unmoved, Running, Labels, tables
  <2>2. /\ cmd[w] \in Commands /\ row[cmd[w].source] # None
        /\ cmd[w].op \in ResolveOps =>
             /\ conflicts[cmd[w].conflict] \in ConflictRecord
             /\ conflicts[cmd[w].conflict].status = "open"
    BY <1>0, <1>c, <2>1, CommandFields DEF HandlerReferences, HandlerKnows, TypeOK
  <2>3. /\ Locked(w)[KeyLock(cmd[w].key)] = Tx(w)
        /\ Locked(w)[SourceLock(cmd[w].source)] = Tx(w)
        /\ cmd[w].op \in ResolveOps => Locked(w)[ConflictRow(cmd[w].conflict)] = Tx(w)
    BY <1>0, <2>1, <2>2, CommandLocks, LockedHas DEF HandlerKnows, Wanted
  <2>4. /\ cmd[w].op \notin LifecycleOps /\ cmd[w].op \notin {"create", "update"}
    BY <2>1, Families DEF PublicationOps
  <2>5. /\ Current(w) \in Nat /\ Content(w) \in Contents \cup {None}
        /\ cmd[w].content \in Contents \cup {None}
    BY <1>0, <2>2, CommandFields DEF Current, Content, TypeOK, SourceRow
  <2>6. ASSUME NEW version, NEW content, NEW intent, cmd[w].op \in ResolveOps,
               IF version = 0 \/ cmd[w].op = "keep_remote"
                 THEN intent = "none" /\ version \in {0, Current(w)}
                 ELSE /\ InState(w, "active") /\ BaseIsCurrent(w) /\ intent = "upsert"
                      /\ version = Current(w) + 1
        PROVE  Fits(NewEvent(w, version, content, intent))
    <3> DEFINE e == NewEvent(w, version, content, intent)
    <3>1. e.cmd = cmd[w] /\ e.version = version /\ e.intent = intent /\ e.prior = cmd[w].base
      BY DEF NewEvent
    <3> HIDE DEF e
    <3>2. ResolutionFits(e)
      BY <2>2, <2>6, <3>1 DEF ResolutionFits, Current, InState, BaseIsCurrent
    <3>3. Fits(e)
      BY <2>2, <2>4, <2>6, <3>1, <3>2 DEF Fits
    <3> QED
      BY <3>3 DEF e
  <2>7. CASE cmd[w].op = "capture" /\ CaptureTransition(w)
    <3>1. cmd[w].op \notin ResolveOps
      BY <2>7, Families
    <3>2. Fits(NewEvent(w, 0, cmd[w].content, "none"))
      BY <2>4, <3>1 DEF Fits, NewEvent
    <3> QED
      BY <2>1, <2>3, <2>5, <2>7, <3>1, <3>2, WriteShape DEF CaptureTransition
  <2>8. CASE cmd[w].op \in ResolveOps /\ StaleSuccessor(w)
    <3>1. Fits(NewEvent(w, 0, None, "none"))
      BY <2>6, <2>8
    <3> QED
      BY <2>1, <2>3, <2>8, <3>1, WriteShape DEF StaleSuccessor
  <2>9. CASE cmd[w].op \in ResolveOps /\ BaseIsCurrent(w) /\ Winner(w)
    <3>1. CASE /\ cmd[w].op = "keep_remote"
               /\ Write(w, NewEvent(w, Current(w), Content(w), "none"))
      <4>1. Fits(NewEvent(w, Current(w), Content(w), "none"))
        BY <2>6, <2>9, <3>1
      <4> QED
        BY <2>1, <2>3, <2>5, <3>1, <4>1, WriteShape
    <3>2. ASSUME cmd[w].op # "keep_remote", InState(w, "active"), NEW content \in Contents \cup {None},
                 Write(w, NewEvent(w, Current(w) + 1, content, "upsert"))
          PROVE  Shape
      <4>1. Current(w) + 1 \in Nat /\ Current(w) + 1 # 0
        BY <2>5
      <4>2. Fits(NewEvent(w, Current(w) + 1, content, "upsert"))
        BY <2>6, <2>9, <3>2, <4>1
      <4> QED
        BY <2>1, <2>3, <3>2, <4>1, <4>2, WriteShape
    <3>3. CASE Reply(w, "rejected", 0)
      BY <2>1, <3>3, ReplyRetreats DEF Reply, Shape
    <3>4. /\ conflicts[cmd[w].conflict].candidate \in Contents \cup {None}
      BY <2>2, <2>9 DEF ConflictRecord
    <3> QED
      BY <2>5, <2>9, <3>1, <3>2, <3>3, <3>4 DEF Winner
  <2> QED
    BY <1>5, <2>7, <2>8, <2>9 DEF ConfSource
<1> QED
  BY <1>1, <1>2, <1>3, <1>4, <1>5 DEF Conflicts

LEMMA FailuresShape ==
    ASSUME Inv, TableInv, NEW w \in Writers, LockTimeout(w) \/ Recover(w) \/ Failure(w)
    PROVE  Shape
<1>0. /\ TypeOK /\ StateInv /\ OrderInv /\ Unique
      /\ Tx(w) \in Txns /\ \A v \in Writers : v # w => Tx(v) # Tx(w)
  BY TxIsTxn DEF Inv, StateInv, TableInv, Tables
\* Another attempt, or the last answer, which promises nothing.
<1>1. ASSUME NEW kind \in {"busy", "unknown"}, Retry(w, kind), cmd' = cmd
      PROVE  /\ Leaves(w)
             /\ \A v \in Writers \ {w} : /\ pc'[v] = pc[v] /\ cmd'[v] = cmd[v]
                                         /\ attempt'[v] = attempt[v] /\ answer'[v] = answer[v]
  <2>1. Restart(cmd[w].op) \in Outside \ {"done"}
    BY DEF Restart, Outside
  <2> QED
    BY <1>0, <1>1, <2>1 DEF Retry, Goto, Answer, TypeOK, Leaves, TrueAnswer, Outside
<1>2. CASE LockTimeout(w)
  <2>1. pc[w] \in Running
    BY <1>2 DEF LockTimeout, InTransaction, Running, Labels
  <2>2. pending'[Tx(w)] = None
    BY <1>0, <1>2, <2>1, RunningWroteNothing DEF LockTimeout
  <2> QED
    BY <1>0, <1>1, <1>2, <2>2, MoverRetreats DEF LockTimeout, Shape
<1>3. CASE ConnLost(w)
  <2>1. pending'[Tx(w)] = None
    BY <1>0, <1>3 DEF ConnLost, TypeOK
  <2>2. Leaves(w)
    BY <1>0, <1>3 DEF ConnLost, Goto, Leaves, Outside, TypeOK
  <2>3. \A v \in Writers \ {w} : /\ pc'[v] = pc[v] /\ cmd'[v] = cmd[v]
                                 /\ attempt'[v] = attempt[v] /\ answer'[v] = answer[v]
    BY <1>0, <1>3 DEF ConnLost, Goto, TypeOK
  <2> QED
    BY <1>0, <1>3, <2>1, <2>2, <2>3, MoverRetreats DEF ConnLost, Shape
<1>4. CASE LookupLost(w)
  <2>1. pc[w] \in Running
    BY <1>4 DEF LookupLost, Running, Labels
  <2> QED
    BY <1>4, <2>1, ReplyRetreats DEF LookupLost, Reply, Shape
<1>5. CASE CommitLost(w)
  <2>1. "recover" \in Outside \ {"done"}
    BY DEF Outside
  <2>2. \A v \in Writers \ {w} : cmd'[v] = cmd[v] /\ Tx(v)' = Tx(v) /\ answer'[v] = answer[v]
    BY <1>5 DEF CommitLost, Goto, Tx
  <2> QED
    BY <1>0, <1>5, <2>1, <2>2, GotoRetreats DEF CommitLost, Goto, Shape
<1>6. CASE Recover(w)
  <2>1. CASE Retry(w, "unknown")
    BY <1>0, <1>1, <1>6, <2>1, MoverRetreats DEF Recover, Shape
  <2>2. ASSUME NEW kind, NEW seq, Answer(w, kind, seq), attempt' = attempt,
               kind \in {"committed", "replayed"} => Names(cmd[w], seq)
        PROVE  Shape
    <3>1. cmd' = cmd /\ log' = log
      BY <1>6 DEF Recover, tables
    <3>2. pc'[w] = "done" /\ answer'[w] = [kind |-> kind, seq |-> seq] /\ cmd'[w] = cmd[w]
      BY <1>0, <2>2, <3>1 DEF Answer, TypeOK
    <3>3. Leaves(w)
      BY <2>2, <3>1, <3>2 DEF Leaves, TrueAnswer, Names, Outside
    <3>4. \A v \in Writers \ {w} : /\ pc'[v] = pc[v] /\ cmd'[v] = cmd[v]
                                   /\ attempt'[v] = attempt[v] /\ answer'[v] = answer[v]
      BY <1>0, <2>2, <3>1 DEF Answer, TypeOK
    <3> QED
      BY <1>0, <1>6, <3>3, <3>4, MoverRetreats DEF Recover, Shape
  <2> QED
    BY <1>0, <1>6, <2>1, <2>2, ReceiptNames DEF Recover
<1>7. CASE RecoverFails(w)
  <2>1. Leaves(w)
    BY <1>0, <1>7 DEF RecoverFails, Answer, Leaves, TrueAnswer, Outside, TypeOK
  <2>2. \A v \in Writers \ {w} : /\ pc'[v] = pc[v] /\ cmd'[v] = cmd[v]
                                 /\ attempt'[v] = attempt[v] /\ answer'[v] = answer[v]
    BY <1>0, <1>7 DEF RecoverFails, Answer, TypeOK
  <2> QED
    BY <1>0, <1>7, <2>1, <2>2, MoverRetreats DEF RecoverFails, Shape
<1>8. CASE Abandon(w)
  <2>1. Leaves(w)
    BY <1>0, <1>8 DEF Abandon, Leaves, Outside, TypeOK
  <2>2. \A v \in Writers \ {w} : /\ pc'[v] = pc[v] /\ cmd'[v] = cmd[v]
                                 /\ attempt'[v] = attempt[v] /\ answer'[v] = answer[v]
    BY <1>0, <1>8 DEF Abandon, TypeOK
  <2>3. \/ UNCHANGED <<holder, pending>>
        \/ /\ holder' = Released(Tx(w)) /\ pending'[Tx(w)] = None
           /\ pending' = [pending EXCEPT ![Tx(w)] = None]
    BY <1>0, <1>8 DEF Abandon, TypeOK
  <2> QED
    BY <1>0, <1>8, <2>1, <2>2, <2>3, MoverRetreats DEF Abandon, Shape
<1> QED
  BY <1>2, <1>3, <1>4, <1>5, <1>6, <1>7, <1>8 DEF Failure

LEMMA NextShape ==
    ASSUME Inv, TableInv, [Next]_vars
    PROVE  Shape
<1>0. TypeOK /\ StateInv /\ OrderInv /\ ReferencesExist /\ OneLiveTransaction
  BY DEF Inv, StateInv, OrderInv, LockDiscipline
<1>1. ASSUME NEW w \in Writers, NEW c \in Commands, Request(w, c)
      PROVE  Shape
  <2>1. FirstStep(c.op) \in Outside \ {"done"}
    BY DEF FirstStep, Outside
  <2>2. Leaves(w)
    BY <1>0, <1>1, <2>1 DEF Request, Leaves, TypeOK
  <2>3. \A v \in Writers \ {w} : /\ pc'[v] = pc[v] /\ cmd'[v] = cmd[v]
                                 /\ attempt'[v] = attempt[v] /\ answer'[v] = answer[v]
    BY <1>0, <1>1 DEF Request, TypeOK
  <2> QED
    BY <1>0, <1>1, <2>2, <2>3, MoverRetreats DEF Request, Shape
<1>2. ASSUME NEW w \in Writers, Commit(w)
      PROVE  Shape
  <2>1. Tx(w) \in Txns /\ pending[Tx(w)] # None
    BY <1>0, <1>2, TxIsTxn DEF Commit, ReferencesExist, HandlerReferences
  <2>2. \A v \in Writers : v # w => Same(v) /\ Tx(v) # Tx(w)
    BY <1>0, <1>2, TxIsTxn DEF Commit, Answer, Same, TypeOK, Tx
  <2>3. /\ pc[w] = "commit" /\ pc'[w] = "done" /\ cmd'[w] = cmd[w]
        /\ answer'[w] = [kind |-> "committed", seq |-> pending[Tx(w)].seq]
    BY <1>0, <1>2 DEF Commit, Answer, TypeOK
  <2>4. Apply(Tx(w))
    BY <1>2 DEF Commit
  <2>5. Applies(Tx(w))
    BY <2>1, <2>2, <2>3, <2>4 DEF Applies
  <2> QED
    BY <2>1, <2>5 DEF Shape
<1>3. ASSUME NEW t \in Txns, InDoubtCommit(t)
      PROVE  Shape
  <2>1. t \in indoubt /\ pending[t] # None /\ Apply(t)
    BY <1>0, <1>3 DEF InDoubtCommit, ReferencesExist
  <2>2. \A v \in Writers : Same(v) /\ (Tx(v) = t => pc[v] \in Outside)
    BY <1>0, <1>3, <2>1, TxIsTxn DEF InDoubtCommit, Same, Tx, OneLiveTransaction, Outside
  <2>3. Applies(t)
    BY <2>1, <2>2 DEF Applies
  <2> QED
    BY <2>3 DEF Shape
<1>4. ASSUME NEW t \in Txns, InDoubtAbort(t)
      PROVE  Shape
  <2>1. \A v \in Writers : Same(v) /\ (Tx(v) = t => pc'[v] \in Outside)
    BY <1>0, <1>4, TxIsTxn DEF InDoubtAbort, Same, Tx, OneLiveTransaction, Outside
  <2>2. Ends(t)
    BY <1>0, <1>4, <2>1 DEF InDoubtAbort, Ends, TypeOK
  <2> QED
    BY <1>4, <2>1, <2>2 DEF InDoubtAbort, Retreats, Shape
<1>5. CASE PublishPolicy \/ UNCHANGED vars
  BY <1>5 DEF PublishPolicy, vars, Shape, Retreats, Same, Tx, tables
<1> QED
  BY <1>1, <1>2, <1>3, <1>4, <1>5, PublicationShape, LifecycleShape, ConflictsShape, FailuresShape
     DEF Next, Progress, Decide

-------------------------------------------------------------------------------
(* Steps that leave the tables alone.                                      *)

LEMMA FitsStays ==
    ASSUME NEW e, Fits(e), UNCHANGED tables
    PROVE  Fits(e)'
BY DEF Fits, CreateFits, UpdateFits, LifecycleFits, ResolutionFits, Holders, TombstoneMatches, tables

LEMMA TablesStay ==
    ASSUME Tables, UNCHANGED tables
    PROVE  Tables'
<1>1. UNCHANGED <<log, row, locators, tombstones, conflicts>>
  BY DEF tables
<1>2. Unique' /\ RowsAreCommitted' /\ OneHolder' /\ LocatorTimes' /\ Hydrated'
  BY <1>1 DEF Tables, Unique, RowsAreCommitted, ByEvent, OneHolder, LocatorTimes, DeliveredAt,
              Deliverable, Hydrated, HeldAt
<1>3. ASSUME NEW s \in Sources
      PROVE  Chain(s)' /\ Lifecycle3(s)'
  BY <1>1 DEF Tables, Chain, Published, PublishesVersion, Lifecycle3, OpenLocator, OpenTombstones
<1>4. ASSUME NEW c \in Events
      PROVE  ConflictState(c)'
  BY <1>1 DEF Tables, ConflictState, Closing
<1> QED
  BY <1>2, <1>3, <1>4 DEF Tables

\* A handler that did not move and whose locks were left alone knows what it knew.
LEMMA KnowsStays ==
    ASSUME StateInv, NEW v \in Writers, HandlerKnows(v), Same(v), UNCHANGED tables,
           pc[v] \in Outside \/ /\ \A l \in Locks : holder[l] = Tx(v) => holder'[l] = Tx(v)
                                /\ pending'[Tx(v)] = pending[Tx(v)]
    PROVE  HandlerKnows(v)'
<1>1. CASE pc[v] \in Outside
  BY <1>1 DEF HandlerKnows, Same, Outside
<1>2. CASE pc[v] \notin Outside
  <2>1. cmd[v] \in Commands
    BY <1>2, CommandOf DEF Outside
  <2>2. LifecyclePreconditions(v) => LifecyclePreconditions(v)'
    BY DEF LifecyclePreconditions, InState, Exists, BaseIsCurrent, Current, OpenLocator,
           TombstoneMatches, tables, Same
  <2>3. conflicts' = conflicts
    BY DEF tables
  <2> QED
    BY <1>2, <2>1, <2>2, <2>3, CommandLocks DEF HandlerKnows, Same
<1> QED
  BY <1>1, <1>2

LEMMA LeaverKnows ==
    ASSUME NEW v \in Writers, Leaves(v)
    PROVE  HandlerKnows(v)'
BY DEF HandlerKnows, Leaves, Outside

\* What an uncommitted event relies on stays while its locks do, and while nobody
\* else writes an event of its identity.
LEMMA PendingStays ==
    ASSUME StateInv, NEW t \in Txns, PendingKnows(t), UNCHANGED tables, pending'[t] = pending[t],
           \A l \in Locks : holder[l] = t => holder'[l] = t,
           \A u \in Txns : u # t /\ pending'[u] # None /\ pending[t] # None =>
              pending'[u] = pending[u] \/ pending'[u].cmd.event # pending[t].cmd.event
    PROVE  PendingKnows(t)'
<1> SUFFICES ASSUME pending[t] # None
             PROVE  (EventLocks(t) /\ Fits(pending[t]) /\ Fresh(t))'
  BY DEF PendingKnows
<1>1. EventLocks(t) /\ Fits(pending[t]) /\ Fresh(t) /\ pending[t].cmd \in Commands
  BY CommandOf DEF PendingKnows
<1>2. EventLocks(t)'
  BY <1>1, CommandLocks DEF EventLocks
<1>3. Fits(pending[t])'
  BY <1>1 DEF Fits, CreateFits, UpdateFits, LifecycleFits, ResolutionFits, Holders,
              TombstoneMatches, tables
<1>4. Fresh(t)'
  BY <1>1 DEF Fresh, ByKey, ByEvent, tables
<1> QED
  BY <1>2, <1>3, <1>4

\* An answer stays true, and a leaving handler's is.
LEMMA AnswersStay ==
    ASSUME AnswerTrue, UNCHANGED tables, \A v \in Writers : Same(v) \/ Leaves(v) \/ pc'[v] # "done"
    PROVE  AnswerTrue'
<1>1. ASSUME NEW v \in Writers, pc'[v] = "done"
      PROVE  TrueAnswer(v)'
  <2>1. CASE Leaves(v)
    BY <1>1, <2>1 DEF Leaves
  <2>2. CASE Same(v)
    <3>1. TrueAnswer(v)
      BY <1>1, <2>2 DEF AnswerTrue, TrueAnswer, Names, Same
    <3> QED
      BY <2>2, <3>1 DEF TrueAnswer, Same, Names, tables
  <2> QED
    BY <1>1, <2>1, <2>2
<1> QED
  BY <1>1 DEF AnswerTrue, TrueAnswer, Names

LEMMA RetreatKeepsInv ==
    ASSUME Inv, TableInv, Retreats
    PROVE  TableInv'
<1>0. /\ TypeOK /\ StateInv /\ Tables /\ AnswerTrue /\ UNCHANGED tables
      /\ \A v \in Writers : HandlerKnows(v) /\ Tx(v) \in Txns
      /\ \A t \in Txns : PendingKnows(t)
  BY TxIsTxn DEF Inv, StateInv, TableInv, Knowledge, Retreats
<1>1. Tables' /\ AnswerTrue'
  BY <1>0, TablesStay, AnswersStay DEF Retreats
<1>2. CASE UNCHANGED <<holder, pending>>
  <2>1. \A v \in Writers : HandlerKnows(v)'
    BY <1>0, <1>2, KnowsStays, LeaverKnows DEF Retreats
  <2>2. \A t \in Txns : PendingKnows(t)'
    BY <1>0, <1>2, PendingStays
  <2> QED
    BY <1>1, <2>1, <2>2 DEF TableInv, Knowledge
<1>3. ASSUME NEW t \in Txns, Ends(t)
      PROVE  TableInv'
  <2>1. \A l \in Locks, u \in Txns : u # t /\ holder[l] = u => holder'[l] = u
    BY <1>0, <1>3, ReleaseKeepsOthers DEF Ends
  <2>2. \A u \in Txns : pending'[u] = IF u = t THEN None ELSE pending[u]
    BY <1>0, <1>3 DEF Ends, TypeOK
  <2>3. ASSUME NEW v \in Writers
        PROVE  HandlerKnows(v)'
    <3>1. CASE Leaves(v)
      BY <3>1, LeaverKnows
    <3>2. CASE Same(v)
      <4>1. Tx(v) = t => pc[v] \in Outside
        BY <1>3, <3>2 DEF Ends, Same
      <4> QED
        BY <1>0, <2>1, <2>2, <3>2, <4>1, KnowsStays
    <3> QED
      BY <1>0, <3>1, <3>2 DEF Retreats
  <2>4. ASSUME NEW u \in Txns
        PROVE  PendingKnows(u)'
    <3>1. CASE u = t
      BY <2>2, <3>1 DEF PendingKnows
    <3>2. CASE u # t
      BY <1>0, <2>1, <2>2, <3>2, PendingStays
    <3> QED
      BY <3>1, <3>2
  <2> QED
    BY <1>1, <2>3, <2>4 DEF TableInv, Knowledge
<1> QED
  BY <1>2, <1>3 DEF Retreats

LEMMA AdvanceKeepsInv ==
    ASSUME Inv, TableInv, NEW w \in Writers, Advances(w)
    PROVE  TableInv'
<1>0. /\ TypeOK /\ StateInv /\ Tables /\ AnswerTrue /\ UNCHANGED tables /\ pending' = pending
      /\ \A v \in Writers : HandlerKnows(v) /\ Tx(v) \in Txns
      /\ \A t \in Txns : PendingKnows(t)
  BY TxIsTxn DEF Inv, StateInv, TableInv, Knowledge, Advances
<1>1. \A l \in Locks, u \in Txns : holder[l] = u => holder'[l] = u
  BY <1>0, LockingKeepsHolders DEF Advances
<1>2. Tables' /\ AnswerTrue'
  BY <1>0, TablesStay, AnswersStay DEF Advances, Others1
<1>3. \A v \in Writers : HandlerKnows(v)'
  BY <1>0, <1>1, KnowsStays DEF Advances, Others1
<1>4. \A t \in Txns : PendingKnows(t)'
  BY <1>0, <1>1, PendingStays
<1> QED
  BY <1>2, <1>3, <1>4 DEF TableInv, Knowledge

LEMMA WriteKeepsInv ==
    ASSUME Inv, TableInv, NEW w \in Writers, NEW e \in EventRecord, Writes(w, e)
    PROVE  TableInv'
<1>0. /\ TypeOK /\ StateInv /\ Tables /\ AnswerTrue /\ UNCHANGED tables
      /\ \A v \in Writers : HandlerKnows(v) /\ Tx(v) \in Txns
      /\ \A t \in Txns : PendingKnows(t)
  BY TxIsTxn DEF Inv, StateInv, TableInv, Knowledge, Writes
<1>1. \A l \in Locks, u \in Txns : holder[l] = u => holder'[l] = u
  BY <1>0, LockingKeepsHolders DEF Writes
<1>2. Tables' /\ AnswerTrue'
  BY <1>0, TablesStay, AnswersStay DEF Writes, Others1
<1>3. \A u \in Txns : pending'[u] = IF u = Tx(w) THEN e ELSE pending[u]
  BY <1>0 DEF Writes, TypeOK
<1>4. \A u \in Txns : u # Tx(w) /\ pending[u] # None => pending[u].cmd.event # e.cmd.event
  BY DEF Writes, EventInsertWaits
<1>5. ASSUME NEW v \in Writers
      PROVE  HandlerKnows(v)'
  <2>1. CASE v = w
    <3>1. pc'[w] = "commit" /\ cmd'[w] = cmd[w] /\ Tx(w)' = Tx(w) /\ e.cmd = cmd[w]
      BY DEF Writes
    <3>2. pending'[Tx(w)'] = e
      BY <1>0, <1>3, <3>1
    <3> QED
      BY <2>1, <3>1, <3>2 DEF HandlerKnows
  <2>2. CASE v # w
    BY <1>0, <1>1, <1>3, <2>2, KnowsStays DEF Writes, Others1
  <2> QED
    BY <2>1, <2>2
<1>6. ASSUME NEW u \in Txns
      PROVE  PendingKnows(u)'
  <2>1. CASE u = Tx(w)
    <3>1. Fits(e)' /\ EventLocks(Tx(w))' /\ Tx(w)' = Tx(w)
      BY <1>0, FitsStays DEF Writes
    <3>2. pending'[u] = e
      BY <1>3, <2>1
    <3>3. EventLocks(u)'
      BY <2>1, <3>1
    <3>4. Fits(pending[u])'
      BY <3>1, <3>2 DEF Fits, CreateFits, UpdateFits, LifecycleFits, ResolutionFits, Holders,
                        TombstoneMatches
    <3>5. Fresh(u)'
      BY <1>0, <1>3, <1>4, <2>1, <3>2 DEF Fresh, ByKey, ByEvent, Writes, tables
    <3> QED
      BY <3>3, <3>4, <3>5 DEF PendingKnows
  <2>2. CASE u # Tx(w)
    BY <1>0, <1>1, <1>3, <1>4, <2>2, PendingStays
  <2> QED
    BY <2>1, <2>2
<1> QED
  BY <1>2, <1>5, <1>6 DEF TableInv, Knowledge

-------------------------------------------------------------------------------
(* The commit: what it does to the tables.                                 *)

LocatorRow == [source : Sources, locator : Locators, opened : Nat, closed : Nat]

\* What a row of source_locators becomes when e is committed, and the row e opens.
Kept(e, r) ==
    IF e.cmd.op \in {"rename", "delete"} /\ r.source = e.cmd.source /\ r.closed = 0
      THEN [r EXCEPT !.closed = e.seq] ELSE r
Added(e) == IF e.cmd.op \in {"create", "rename", "restore"}
              THEN {Opened(e.cmd.source, e.cmd.target, e.seq)} ELSE {}

TombstoneAfter(e, d) ==
    IF e.cmd.op = "delete" /\ d = e.cmd.event
      THEN [source |-> e.cmd.source, version |-> e.version, closed |-> 0]
    ELSE IF e.cmd.op = "restore" /\ d = e.cmd.tomb
      THEN [tombstones[d] EXCEPT !.closed = e.seq]
    ELSE tombstones[d]

\* e becomes visible.
Committing(t, e) ==
    /\ e = pending[t] /\ e \in EventRecord /\ e.cmd \in Commands
    /\ EventLocks(t) /\ Fits(e) /\ Fresh(t)
    /\ EventReferences(e)
    /\ log' = Append(log, e)
    /\ row' = IF MovesSource(e) THEN [row EXCEPT ![e.cmd.source] = SourceAfter(e)] ELSE row
    /\ locators' = {Kept(e, r) : r \in locators} \cup Added(e)
    /\ \A d \in Events : tombstones'[d] = TombstoneAfter(e, d)
    /\ conflicts' = ConflictsAfter(e)
    /\ pending' = [pending EXCEPT ![t] = None] /\ holder' = Released(t)

LEMMA ApplyIsCommitting ==
    ASSUME Inv, TableInv, NEW t \in Txns, pending[t] # None, Apply(t), NEW e, e = pending[t]
    PROVE  Committing(t, e)
<1>0. StateInv /\ TypeOK /\ PendingKnows(t) /\ e # None
  BY DEF Inv, StateInv, TableInv, Knowledge
<1>1. /\ e \in EventRecord /\ e.cmd \in Commands /\ EventReferences(e)
      /\ EventLocks(t) /\ Fits(e) /\ Fresh(t)
  BY <1>0, PendingFields DEF PendingKnows
<1>2. /\ log' = Append(log, e) /\ locators' = LocatorsAfter(e) /\ tombstones' = TombstonesAfter(e)
      /\ row' = IF MovesSource(e) THEN [row EXCEPT ![e.cmd.source] = SourceAfter(e)] ELSE row
      /\ conflicts' = ConflictsAfter(e)
      /\ pending' = [pending EXCEPT ![t] = None] /\ holder' = Released(t)
  BY <1>1 DEF Apply
<1>3. locators' = {Kept(e, r) : r \in locators} \cup Added(e)
  <2>1. CASE e.cmd.op \in {"rename", "delete"}
    <3>1. {Kept(e, r) : r \in locators} = Closed(e.cmd.source, e.seq)
      BY <2>1 DEF Kept, Closed
    <3> QED
      BY <1>2, <2>1, <3>1 DEF LocatorsAfter, Added
  <2>2. CASE e.cmd.op \notin {"rename", "delete"}
    <3>1. {Kept(e, r) : r \in locators} = locators
      BY <2>2 DEF Kept
    <3> QED
      BY <1>2, <2>2, <3>1 DEF LocatorsAfter, Added
  <2> QED
    BY <2>1, <2>2
<1>4. ASSUME NEW d \in Events
      PROVE  tombstones'[d] = TombstoneAfter(e, d)
  <2>1. tombstones \in [Events -> {None} \cup TombstoneRow]
    BY <1>0 DEF TypeOK
  <2>2. e.cmd.event \in Events /\ (e.cmd.op = "restore" => e.cmd.tomb \in Events)
    BY <1>1, CommandFields
  <2> QED
    BY <1>2, <2>1, <2>2 DEF TombstonesAfter, TombstoneAfter
<1> QED
  BY <1>0, <1>1, <1>2, <1>3, <1>4 DEF Committing

LEMMA EventFields ==
    ASSUME NEW e \in EventRecord, e.cmd \in Commands
    PROVE  /\ e.seq \in Nat /\ e.seq # 0 /\ e.version \in Nat /\ e.prior \in Nat
           /\ e.cmd.op \in Ops /\ e.cmd.event \in Events /\ e.cmd.source \in Sources
           /\ e.cmd.op \in {"create", "rename", "restore"} => e.cmd.target \in Locators
           /\ e.cmd.op = "restore" => e.cmd.tomb \in Events
           /\ e.cmd.op \in ResolveOps => e.cmd.conflict \in Events
<1>1. e.seq \in Nat \ {0} /\ e.version \in Nat /\ e.prior \in Nat
  BY DEF EventRecord
<1> QED
  BY <1>1, CommandFields

\* The log grows by e.
LEMMA LogGrows ==
    ASSUME TypeOK, NEW t, NEW e, Committing(t, e)
    PROVE  /\ Len(log) \in Nat /\ Len(log') = Len(log) + 1 /\ log'[Len(log) + 1] = e
           /\ \A i \in 1..Len(log) : log'[i] = log[i] /\ i \in 1..Len(log')
           /\ \A i \in 1..Len(log') : i \in 1..Len(log) \/ (i = Len(log) + 1 /\ log'[i] = e)
BY DEF TypeOK, Committing

\* Where the commit leaves the locator rows.
LEMMA KeptRow ==
    ASSUME NEW e, e.seq \in Nat, e.seq # 0, NEW r \in LocatorRow
    PROVE  /\ Kept(e, r) \in LocatorRow
           /\ Kept(e, r).source = r.source /\ Kept(e, r).locator = r.locator
           /\ Kept(e, r).opened = r.opened
           /\ Kept(e, r) = r \/ (Kept(e, r).closed = e.seq /\ r.closed = 0
                                 /\ e.cmd.op \in {"rename", "delete"} /\ r.source = e.cmd.source)
           /\ e.cmd.op \in {"rename", "delete"} /\ r.source = e.cmd.source => Kept(e, r).closed # 0
BY DEF Kept, LocatorRow

\* Only a deliverable event moves locators and tombstones.
LEMMA Undelivered ==
    ASSUME NEW t, NEW e, Committing(t, e), ~Deliverable(e)
    PROVE  /\ locators' = locators
           /\ \A d \in Events : tombstones'[d] = tombstones[d]
<1>1. e.cmd.op \notin {"create", "rename", "delete", "restore"}
  BY DEF Deliverable, DeliverableOps, PublicationOps, LifecycleOps
<1>2. {Kept(e, r) : r \in locators} = locators /\ Added(e) = {}
  BY <1>1 DEF Kept, Added
<1> QED
  BY <1>1, <1>2 DEF Committing, TombstoneAfter

\* The rows a new event makes are new.
LEMMA NewRows ==
    ASSUME RowsAreCommitted, NEW t, NEW e, Committing(t, e)
    PROVE  tombstones[e.cmd.event] = None /\ conflicts[e.cmd.event] = None
<1>1. e.cmd.event \in Events /\ ByEvent(e.cmd.event) = {}
  BY EventFields DEF Committing, Fresh
<1> QED
  BY <1>1 DEF RowsAreCommitted

\* The commit leaves the other sources alone.
LEMMA OtherSources ==
    ASSUME TypeOK, RowsAreCommitted, NEW t, NEW e, Committing(t, e),
           NEW s \in Sources, s # e.cmd.source
    PROVE  /\ row'[s] = row[s]
           /\ \A r : r.source = s => (r \in locators' <=> r \in locators)
           /\ OpenLocator(s)' = OpenLocator(s)
           /\ \A d \in Events : tombstones[d] # None /\ tombstones[d].source = s
                                  => tombstones'[d] = tombstones[d]
           /\ OpenTombstones(s)' = OpenTombstones(s)
<1>n. tombstones[e.cmd.event] = None
  BY NewRows
<1>0. /\ e.seq \in Nat /\ e.seq # 0 /\ e.cmd.source \in Sources /\ e.cmd.event \in Events
      /\ locators \subseteq LocatorRow
      /\ tombstones[e.cmd.event] = None
  BY <1>n, EventFields DEF Committing, TypeOK, LocatorRow
<1>1. row'[s] = row[s]
  BY <1>0 DEF Committing, TypeOK
<1>2. ASSUME NEW r, r.source = s
      PROVE  r \in locators' <=> r \in locators
  <2>1. locators' = {Kept(e, q) : q \in locators} \cup Added(e)
    BY DEF Committing
  <2>2. r \notin Added(e)
    BY <1>2 DEF Added, Opened
  <2>3. \A q \in locators : q.source = s => Kept(e, q) = q
    BY DEF Kept
  <2>4. \A q \in locators : Kept(e, q).source = q.source
    BY <1>0, KeptRow
  <2> QED
    BY <1>2, <2>1, <2>2, <2>3, <2>4
<1>3. OpenLocator(s)' = OpenLocator(s)
  BY <1>2 DEF OpenLocator
<1>4. ASSUME NEW d \in Events
      PROVE  /\ tombstones[d] # None /\ tombstones[d].source = s => tombstones'[d] = tombstones[d]
             /\ d \in OpenTombstones(s)' <=> d \in OpenTombstones(s)
  <2>1. tombstones'[d] = TombstoneAfter(e, d) /\ EventReferences(e) /\ Fits(e)
    BY DEF Committing
  <2>2. CASE e.cmd.op = "delete" /\ d = e.cmd.event
    <3>1. tombstones'[d] = [source |-> e.cmd.source, version |-> e.version, closed |-> 0]
      BY <2>1, <2>2 DEF TombstoneAfter
    <3> QED
      BY <1>0, <2>2, <3>1 DEF OpenTombstones
  <2>3. CASE e.cmd.op = "restore" /\ d = e.cmd.tomb
    <3>1. tombstones[d] \in TombstoneRow /\ tombstones[d].source = e.cmd.source
      BY <2>1, <2>3, Families DEF EventReferences, Fits, LifecycleFits, TombstoneMatches, TypeOK
    <3>2. tombstones'[d] = [tombstones[d] EXCEPT !.closed = e.seq]
      BY <2>1, <2>3 DEF TombstoneAfter
    <3>3. tombstones'[d].source = e.cmd.source
      BY <3>1, <3>2 DEF TombstoneRow
    <3> QED
      BY <3>1, <3>3 DEF OpenTombstones
  <2>4. CASE ~(e.cmd.op = "delete" /\ d = e.cmd.event) /\ ~(e.cmd.op = "restore" /\ d = e.cmd.tomb)
    BY <2>1, <2>4 DEF TombstoneAfter, OpenTombstones
  <2> QED
    BY <2>2, <2>3, <2>4
<1>5. OpenTombstones(s)' = OpenTombstones(s)
  BY <1>4 DEF OpenTombstones
<1> QED
  BY <1>1, <1>2, <1>3, <1>4, <1>5

\* The commit closes the conflict it names and leaves the other rows alone.
LEMMA OtherConflicts ==
    ASSUME TypeOK, RowsAreCommitted, NEW t, NEW e, Committing(t, e), NEW c \in Events
    PROVE  /\ conflicts[c] # None /\ ~(e.cmd.op \in ResolveOps /\ c = e.cmd.conflict)
                => conflicts'[c] = conflicts[c]
           /\ conflicts[c] # None => conflicts'[c] # None /\ conflicts'[c].candidate = conflicts[c].candidate
           /\ conflicts'[c] # conflicts[c] =>
                \/ c = e.cmd.event /\ conflicts[c] = None /\ conflicts'[c].status = "open"
                \/ e.cmd.op \in ResolveOps /\ c = e.cmd.conflict
<1>n. conflicts[e.cmd.event] = None
  BY NewRows
<1>0. /\ e.cmd.event \in Events /\ conflicts[e.cmd.event] = None
      /\ e.cmd.op \in ResolveOps => e.cmd.conflict \in Events /\ conflicts[e.cmd.conflict] # None
      /\ conflicts \in [Events -> {None} \cup ConflictRecord] /\ None \notin ConflictRecord
      /\ conflicts' = ConflictsAfter(e)
  BY <1>n, EventFields, NoneAssumption DEF Committing, EventReferences, TypeOK
<1>1. CASE e.cmd.op = "capture"
  <2>1. conflicts' = [conflicts EXCEPT ![e.cmd.event] = Conflict(e.cmd.source, e.content)]
    BY <1>0, <1>1 DEF ConflictsAfter, ResolveOps
  <2> QED
    BY <1>0, <2>1 DEF Conflict
<1>2. CASE e.cmd.op \in ResolveOps
  <2> DEFINE old == conflicts[e.cmd.conflict]
             closed(st) == [[old EXCEPT !.status = st] EXCEPT !.by = e.cmd.event]
  <2>1. old \in ConflictRecord /\ e.cmd.op # "capture"
    BY <1>0, <1>2, Families
  <2>2. \A st \in {"resolved", "superseded"} :
          closed(st) \in ConflictRecord /\ closed(st).candidate = old.candidate
    BY <1>0, <2>1 DEF ConflictRecord
  <2>3. CASE e.version = 0
    <3> DEFINE mid == [conflicts EXCEPT ![e.cmd.conflict] = closed("superseded")]
    <3>1. conflicts' = [mid EXCEPT ![e.cmd.event] = Conflict(e.cmd.source, old.candidate)]
      BY <1>0, <1>2, <2>1, <2>3 DEF ConflictsAfter
    <3>2. Conflict(e.cmd.source, old.candidate).status = "open"
      BY DEF Conflict
    <3>3. \A d \in Events : mid[d] = IF d = e.cmd.conflict THEN closed("superseded") ELSE conflicts[d]
      BY <1>0
    <3>4. mid \in [Events -> {None} \cup ConflictRecord]
      BY <1>0, <2>2, <1>2
    <3> HIDE DEF mid, closed, old
    <3>5. conflicts'[c] = IF c = e.cmd.event THEN Conflict(e.cmd.source, old.candidate)
                          ELSE IF c = e.cmd.conflict THEN closed("superseded") ELSE conflicts[c]
      BY <1>0, <3>1, <3>3, <3>4
    <3>6. closed("superseded") # None
      BY <1>0, <2>2
    <3> QED
      BY <1>0, <1>2, <2>2, <3>2, <3>5, <3>6 DEF old
  <2>4. CASE e.version # 0
    <3>1. conflicts' = [conflicts EXCEPT ![e.cmd.conflict] = closed("resolved")]
      BY <1>0, <1>2, <2>1, <2>4 DEF ConflictsAfter
    <3>2. closed("resolved") # None
      BY <1>0, <2>2
    <3> HIDE DEF closed
    <3>3. conflicts'[c] = IF c = e.cmd.conflict THEN closed("resolved") ELSE conflicts[c]
      BY <1>0, <3>1
    <3> QED
      BY <1>0, <1>2, <2>2, <3>2, <3>3
  <2> QED
    BY <2>3, <2>4
<1>3. CASE e.cmd.op # "capture" /\ e.cmd.op \notin ResolveOps
  BY <1>0, <1>3 DEF ConflictsAfter
<1> QED
  BY <1>1, <1>2, <1>3

-------------------------------------------------------------------------------
(* The commit keeps what the others know.                                  *)

LEMMA CommitKeepsHandlers ==
    ASSUME Inv, TableInv, NEW t \in Txns, NEW e, Committing(t, e),
           NEW v \in Writers, Same(v), Tx(v) # t
    PROVE  HandlerKnows(v)'
<1>0. /\ StateInv /\ TypeOK /\ RowsAreCommitted /\ HandlerKnows(v) /\ HandlerReferences(v)
      /\ Tx(v) \in Txns
  BY TxIsTxn DEF Inv, StateInv, TableInv, Knowledge, Tables, ReferencesExist
<1> SUFFICES ASSUME pc[v] \notin Outside
             PROVE  HandlerKnows(v)'
  BY DEF HandlerKnows, Same, Outside
<1>c. PICK c : c = cmd[v]
  OBVIOUS
<1>1. c \in Commands
  BY <1>0, <1>c, CommandOf DEF Outside
<1>2. /\ KeyLock(c.key) \in Locks /\ SourceLock(c.source) \in Locks /\ c.source \in Sources
      /\ c.op \in ResolveOps => ConflictRow(c.conflict) \in Locks /\ c.conflict \in Events
      /\ c.op = "restore" => c.tomb \in Events
  BY <1>1, CommandLocks, CommandFields
<1>3. /\ \A l \in Locks : holder[l] = Tx(v) => holder'[l] = Tx(v)
      /\ pending'[Tx(v)] = pending[Tx(v)]
  BY <1>0, ReleaseKeepsOthers DEF Committing, TypeOK
<1>4. /\ holder[SourceLock(e.cmd.source)] = t
      /\ e.cmd.op \in ResolveOps => holder[ConflictRow(e.cmd.conflict)] = t
  BY DEF Committing, EventLocks
<1>5. ASSUME pc[v] = "policy", c.op \in LifecycleOps
      PROVE  LifecyclePreconditions(v)'
  <2>1. c.source # e.cmd.source
    BY <1>0, <1>c, <1>4, <1>5 DEF HandlerKnows
  <2>2. /\ row'[c.source] = row[c.source] /\ OpenLocator(c.source)' = OpenLocator(c.source)
        /\ \A d \in Events : tombstones[d] # None /\ tombstones[d].source = c.source
                               => tombstones'[d] = tombstones[d]
    BY <1>0, <1>2, <2>1, OtherSources
  <2>3. LifecyclePreconditions(v) /\ cmd'[v] = c
    BY <1>0, <1>c, <1>5 DEF HandlerKnows, Same
  <2>4. c.op = "restore" => TombstoneMatches(c)'
    BY <1>c, <1>2, <2>2, <2>3 DEF LifecyclePreconditions, TombstoneMatches
  <2>5. InState(v, IF c.op = "restore" THEN "deleted" ELSE "active")' /\ BaseIsCurrent(v)'
    BY <1>c, <2>2, <2>3 DEF LifecyclePreconditions, InState, Exists, BaseIsCurrent, Current
  <2>6. c.op \in {"rename", "delete"} => \E r \in OpenLocator(c.source)' : r.locator = c.expected
    BY <1>c, <2>2, <2>3 DEF LifecyclePreconditions
  <2> QED
    BY <1>c, <2>3, <2>4, <2>5, <2>6 DEF LifecyclePreconditions, OpenLocator, TombstoneMatches
<1>6. ASSUME pc[v] = "source", c.op \in ResolveOps
      PROVE  conflicts'[c.conflict].status = "open"
  <2>1. /\ conflicts[c.conflict] # None /\ conflicts[c.conflict].status = "open"
        /\ holder[ConflictRow(c.conflict)] = Tx(v)
    BY <1>0, <1>c, <1>6, Families DEF HandlerKnows, HandlerReferences
  <2>2. ~(e.cmd.op \in ResolveOps /\ c.conflict = e.cmd.conflict)
    BY <1>4, <2>1
  <2> QED
    BY <1>0, <1>2, <1>6, <2>1, <2>2, OtherConflicts
<1> QED
  BY <1>0, <1>c, <1>2, <1>3, <1>5, <1>6 DEF HandlerKnows, Same

LEMMA CommitKeepsPending ==
    ASSUME Inv, TableInv, NEW t \in Txns, NEW e, Committing(t, e),
           NEW u \in Txns, u # t
    PROVE  PendingKnows(u)'
<1>0. /\ StateInv /\ TypeOK /\ RowsAreCommitted /\ PendingKnows(u) /\ PolicyRowHeld
  BY DEF Inv, StateInv, OrderInv, LockDiscipline, TableInv, Knowledge, Tables
<1>1. pending'[u] = pending[u]
  BY <1>0 DEF Committing, TypeOK
<1> SUFFICES ASSUME pending[u] # None
             PROVE  (EventLocks(u) /\ Fits(pending[u]) /\ Fresh(u))'
  BY <1>1 DEF PendingKnows
<1>2. PICK f : f = pending[u]
  OBVIOUS
<1>3. /\ f \in EventRecord /\ f.cmd \in Commands /\ EventReferences(f)
      /\ EventLocks(u) /\ Fits(f) /\ Fresh(u)
  BY <1>0, <1>2, PendingFields DEF PendingKnows
<1>4. /\ KeyLock(f.cmd.key) \in Locks /\ SourceLock(f.cmd.source) \in Locks
      /\ f.cmd.source \in Sources
      /\ f.cmd.op \in ResolveOps => ConflictRow(f.cmd.conflict) \in Locks /\ f.cmd.conflict \in Events
      /\ f.cmd.op = "restore" => f.cmd.tomb \in Events
  BY <1>3, CommandLocks, CommandFields
<1>5. /\ holder[KeyLock(f.cmd.key)] = u /\ holder[SourceLock(f.cmd.source)] = u
      /\ f.cmd.op \in ResolveOps => holder[ConflictRow(f.cmd.conflict)] = u
  BY <1>2, <1>3 DEF EventLocks
<1>6. /\ holder[KeyLock(e.cmd.key)] = t /\ holder[SourceLock(e.cmd.source)] = t
      /\ e.cmd.op \in ResolveOps => holder[ConflictRow(e.cmd.conflict)] = t
  BY DEF Committing, EventLocks
<1>7. /\ f.cmd.key # e.cmd.key /\ f.cmd.source # e.cmd.source
      /\ ~(f.cmd.op \in ResolveOps /\ e.cmd.op \in ResolveOps /\ f.cmd.conflict = e.cmd.conflict)
  BY <1>5, <1>6
<1>8. f.cmd.event # e.cmd.event
  BY <1>2, <1>3 DEF Committing, Fresh
<1>9. EventLocks(u)'
  <2>1. \A l \in Locks : holder[l] = u => holder'[l] = u
    BY <1>0, ReleaseKeepsOthers DEF Committing
  <2> QED
    BY <1>1, <1>2, <1>4, <1>5, <2>1 DEF EventLocks
<1>10. Fresh(u)'
  <2>1. /\ ByKey(f.cmd.key) = {} /\ ByEvent(f.cmd.event) = {}
        /\ \A x \in Txns : x # u /\ pending[x] # None => pending[x].cmd.event # f.cmd.event
    BY <1>2, <1>3 DEF Fresh
  <2>2. ByKey(f.cmd.key)' = {} /\ ByEvent(f.cmd.event)' = {}
    BY <1>0, <1>7, <1>8, <2>1, LogGrows DEF ByKey, ByEvent
  <2>3. \A x \in Txns : pending'[x] # None => pending'[x] = pending[x]
    BY <1>0 DEF Committing, TypeOK
  <2> QED
    BY <1>1, <1>2, <2>1, <2>2, <2>3 DEF Fresh, ByKey, ByEvent
<1>11. Fits(f)'
  <2>1. row'[f.cmd.source] = row[f.cmd.source]
    BY <1>0, <1>4, <1>7, OtherSources
  <2>2. f.cmd.op \in ResolveOps => conflicts'[f.cmd.conflict] = conflicts[f.cmd.conflict]
    BY <1>0, <1>3, <1>4, <1>7, OtherConflicts DEF EventReferences
  <2>3. Deliverable(f) => locators' = locators /\ \A d \in Events : tombstones'[d] = tombstones[d]
    <3>1. Deliverable(f) => ~Deliverable(e)
      BY <1>0, <1>2, <1>3, NoneAssumption DEF PolicyRowHeld, Committing
    <3> QED
      BY <3>1, Undelivered
  <2>4. f.cmd.op \in LifecycleOps \cup {"create", "update"} => Deliverable(f)
    BY DEF Deliverable, DeliverableOps, PublicationOps
  <2>5. f.cmd.op = "create" => CreateFits(f)'
    BY <1>3, <2>1, <2>3, <2>4 DEF Fits, CreateFits, Holders
  <2>6. f.cmd.op = "update" => UpdateFits(f)'
    BY <1>3, <2>1 DEF Fits, UpdateFits
  <2>7. f.cmd.op \in LifecycleOps => LifecycleFits(f)'
    BY <1>3, <1>4, <2>1, <2>3, <2>4, Families DEF Fits, LifecycleFits, Holders, TombstoneMatches
  <2>8. f.cmd.op \in ResolveOps => ResolutionFits(f)' /\ conflicts'[f.cmd.conflict].status = "open"
    BY <1>3, <2>1, <2>2 DEF Fits, ResolutionFits
  <2> QED
    BY <2>5, <2>6, <2>7, <2>8 DEF Fits
<1>12. Fits(pending[u])'
  BY <1>1, <1>2, <1>11
     DEF Fits, CreateFits, UpdateFits, LifecycleFits, ResolutionFits, Holders, TombstoneMatches
<1> QED
  BY <1>9, <1>10, <1>12

LEMMA CommitKeepsKnowledge ==
    ASSUME Inv, TableInv, NEW t \in Txns, Applies(t), NEW e, Committing(t, e)
    PROVE  Knowledge'
<1>0. TypeOK
  BY DEF Inv, StateInv
<1>1. ASSUME NEW v \in Writers
      PROVE  HandlerKnows(v)'
  <2>1. CASE Same(v) /\ Tx(v) # t
    BY <2>1, CommitKeepsHandlers
  <2>2. CASE pc'[v] \in Outside
    BY <2>2 DEF HandlerKnows, Outside
  <2> QED
    BY <2>1, <2>2 DEF Applies, Same, Outside
<1>2. PendingKnows(t)'
  BY <1>0 DEF PendingKnows, Committing, TypeOK
<1> QED
  BY <1>1, <1>2, CommitKeepsPending DEF Knowledge

-------------------------------------------------------------------------------
(* The commit keeps what the tables say.                                   *)

LEMMA CommitKeepsUnique ==
    ASSUME Inv, TableInv, NEW t \in Txns, NEW e, Committing(t, e)
    PROVE  Unique' /\ RowsAreCommitted'
<1>0. /\ TypeOK /\ Unique /\ RowsAreCommitted
      /\ e.cmd.op = "restore" => tombstones[e.cmd.tomb] # None
      /\ e.cmd.op \in ResolveOps => conflicts[e.cmd.conflict] # None
  BY DEF Inv, StateInv, TableInv, Tables, Committing, EventReferences
<1>1. ByKey(e.cmd.key) = {} /\ ByEvent(e.cmd.event) = {}
  BY DEF Committing, Fresh
<1>2. Unique'
  BY <1>0, <1>1, LogGrows DEF Unique, ByKey, ByEvent
<1>3. ASSUME NEW d \in Events
      PROVE  tombstones'[d] # None \/ conflicts'[d] # None => ByEvent(d)' # {}
  <2>1. ByEvent(d) # {} \/ d = e.cmd.event => ByEvent(d)' # {}
    BY <1>0, LogGrows DEF ByEvent
  <2>2. tombstones'[d] # None => tombstones[d] # None \/ d = e.cmd.event
    BY <1>0 DEF Committing, TombstoneAfter
  <2>3. conflicts'[d] # None => conflicts[d] # None \/ d = e.cmd.event
    BY <1>0, OtherConflicts
  <2> QED
    BY <1>0, <2>1, <2>2, <2>3 DEF RowsAreCommitted
<1> QED
  BY <1>2, <1>3 DEF RowsAreCommitted

\* An open row of source_locators that survives the commit of e was open before it,
\* and where e opens a locator nobody else holds it.
LEMMA CommitKeepsOneHolder ==
    ASSUME Inv, TableInv, NEW t \in Txns, NEW e, Committing(t, e)
    PROVE  OneHolder'
<1>0. /\ TypeOK /\ OneHolder /\ locators \subseteq LocatorRow /\ Fits(e)
      /\ e.seq \in Nat /\ e.seq # 0 /\ e.cmd.source \in Sources /\ Lifecycle3(e.cmd.source)
      /\ locators' = {Kept(e, r) : r \in locators} \cup Added(e)
  BY EventFields DEF Inv, StateInv, TypeOK, LocatorRow, TableInv, Tables, Committing
<1>1. ASSUME NEW p \in locators', p.closed = 0, p \notin Added(e)
      PROVE  p \in locators /\ ~(e.cmd.op \in {"rename", "delete"} /\ p.source = e.cmd.source)
  <2>1. PICK q \in locators : p = Kept(e, q)
    BY <1>0, <1>1
  <2> QED
    BY <1>0, <1>1, <2>1, KeptRow
<1>2. ASSUME NEW p \in locators', p.closed = 0, p \notin Added(e), NEW q \in Added(e)
      PROVE  p.locator # q.locator
  <2>1. /\ q.locator = e.cmd.target /\ e.cmd.op \in {"create", "rename", "restore"}
    BY DEF Added, Opened
  <2>2. p \in locators /\ ~(e.cmd.op = "rename" /\ p.source = e.cmd.source)
    BY <1>1, <1>2
  <2>3. p.locator = e.cmd.target => p.source \in Holders(e.cmd.target)
    BY <1>2, <2>2 DEF Holders
  <2>4. CASE e.cmd.op = "create"
    BY <1>0, <2>1, <2>3, <2>4 DEF Fits, CreateFits
  <2>5. CASE e.cmd.op = "rename"
    BY <1>0, <2>1, <2>2, <2>3, <2>5 DEF Fits, LifecycleFits, LifecycleOps
  <2>6. CASE e.cmd.op = "restore"
    <3>1. /\ row[e.cmd.source] # None /\ row[e.cmd.source].state = "deleted"
          /\ Holders(e.cmd.target) \subseteq {e.cmd.source}
      BY <1>0, <2>6 DEF Fits, LifecycleFits, LifecycleOps
    <3>2. OpenLocator(e.cmd.source) = {}
      BY <1>0, <3>1 DEF Lifecycle3
    <3> QED
      BY <1>2, <2>1, <2>2, <2>3, <3>1, <3>2 DEF OpenLocator
  <2> QED
    BY <2>1, <2>4, <2>5, <2>6
<1>3. \A p, q \in Added(e) : p = q
  BY DEF Added
<1>4. ASSUME NEW p \in locators', NEW q \in locators', p.closed = 0, q.closed = 0,
             p.locator = q.locator
      PROVE  p = q
  <2>1. CASE p \in Added(e) \/ q \in Added(e)
    BY <1>2, <1>3, <1>4, <2>1
  <2>2. CASE p \notin Added(e) /\ q \notin Added(e)
    BY <1>0, <1>1, <1>4, <2>2 DEF OneHolder
  <2> QED
    BY <2>1, <2>2
<1> QED
  BY <1>4 DEF OneHolder

LEMMA CommitKeepsLocatorTimes ==
    ASSUME Inv, TableInv, NEW t \in Txns, NEW e, Committing(t, e)
    PROVE  LocatorTimes'
<1>0. /\ TypeOK /\ LocatorTimes /\ locators \subseteq LocatorRow
      /\ e.seq \in Nat /\ e.seq # 0
      /\ locators' = {Kept(e, r) : r \in locators} \cup Added(e)
  BY EventFields DEF Inv, StateInv, TypeOK, LocatorRow, TableInv, Tables, Committing
<1>1. \A n : DeliveredAt(n) => DeliveredAt(n)'
  <2>1. \A i \in 1..Len(log) : i \in 1..Len(log') /\ log'[i] = log[i]
    BY <1>0, LogGrows
  <2> QED
    BY <2>1 DEF DeliveredAt, Deliverable
<1>2. Deliverable(e) => DeliveredAt(e.seq)'
  <2>1. Len(log') \in 1..Len(log') /\ log'[Len(log')] = e
    BY <1>0, LogGrows
  <2> QED
    BY <2>1 DEF DeliveredAt, Deliverable
<1>3. e.cmd.op \in {"create", "rename", "delete", "restore"} => Deliverable(e)
  BY DEF Deliverable, DeliverableOps, PublicationOps, LifecycleOps
<1>4. ASSUME NEW r \in locators'
      PROVE  DeliveredAt(r.opened)' /\ (r.closed # 0 => DeliveredAt(r.closed)')
  <2>1. CASE r \in Added(e)
    BY <1>0, <1>2, <1>3, <2>1 DEF Added, Opened
  <2>2. ASSUME NEW q \in locators, r = Kept(e, q)
        PROVE  DeliveredAt(r.opened)' /\ (r.closed # 0 => DeliveredAt(r.closed)')
    <3>1. DeliveredAt(q.opened) /\ (q.closed # 0 => DeliveredAt(q.closed))
      BY <1>0 DEF LocatorTimes
    <3>2. /\ r.opened = q.opened
          /\ r = q \/ (r.closed = e.seq /\ e.cmd.op \in {"rename", "delete"})
      BY <1>0, <2>2, KeptRow
    <3> QED
      BY <1>1, <1>2, <1>3, <3>1, <3>2
  <2> QED
    BY <1>0, <2>1, <2>2
<1> QED
  BY <1>4 DEF LocatorTimes

LEMMA CommitKeepsHydrated ==
    ASSUME Inv, TableInv, NEW t \in Txns, NEW e, Committing(t, e), e # None
    PROVE  Hydrated'
<1>0. /\ TypeOK /\ Hydrated /\ LocatorTimes /\ locators \subseteq LocatorRow /\ Fits(e)
      /\ e.seq \in Nat /\ e.seq # 0 /\ e.cmd.source \in Sources /\ Lifecycle3(e.cmd.source)
      /\ locators' = {Kept(e, r) : r \in locators} \cup Added(e) /\ SequenceBounds
      /\ e = pending[t]
  BY EventFields DEF Inv, OrderInv, LockDiscipline, StateInv, TypeOK, LocatorRow, TableInv, Tables,
                     Committing
<1>1. \A i \in 1..Len(log) : Deliverable(log[i]) /\ Deliverable(e) => log[i].seq < e.seq
  BY <1>0 DEF SequenceBounds
<1>2. \A i \in 1..Len(log) : log[i].seq \in Nat
  BY <1>0, SequencesAreNumbers
<1>3. /\ \A i \in 1..Len(log) : log[i].cmd.op = "update" => Deliverable(log[i])
      /\ e.cmd.op \in {"create", "rename", "delete", "restore", "update"} => Deliverable(e)
  BY DEF Deliverable, DeliverableOps, PublicationOps, LifecycleOps
<1>4. ASSUME NEW i \in 1..Len(log), log[i].cmd.op = "update"
      PROVE  \E r \in locators' : HeldAt(log[i].cmd.source, log[i].seq)' = {r}
  <2>1. PICK s, n : s = log[i].cmd.source /\ n = log[i].seq
    OBVIOUS
  <2>2. PICK r \in locators : HeldAt(s, n) = {r}
    BY <1>0, <1>4, <2>1 DEF Hydrated
  <2>3. n \in Nat /\ (Deliverable(e) => n < e.seq)
    BY <1>1, <1>2, <1>3, <1>4, <2>1
  <2>4. ASSUME NEW q \in locators
        PROVE  /\ Kept(e, q) \in locators'
               /\ Kept(e, q) \in HeldAt(s, n)' <=> q \in HeldAt(s, n)
    <3>1. Kept(e, q) \in locators'
      BY <1>0
    <3>2. /\ q.closed \in Nat /\ q.opened \in Nat
          /\ Kept(e, q).source = q.source /\ Kept(e, q).opened = q.opened
          /\ Kept(e, q) = q \/ (Kept(e, q).closed = e.seq /\ q.closed = 0 /\ n < e.seq)
      BY <1>0, <1>3, <2>3, KeptRow DEF LocatorRow
    <3> QED
      BY <1>0, <2>3, <3>1, <3>2 DEF HeldAt
  <2>5. \A q \in Added(e) : q \notin HeldAt(s, n)'
    BY <1>0, <1>3, <2>3 DEF Added, Opened, HeldAt
  <2>6. HeldAt(s, n)' = {Kept(e, r)}
    <3>1. \A p \in HeldAt(s, n)' : p = Kept(e, r)
      BY <1>0, <2>2, <2>4, <2>5 DEF HeldAt
    <3>2. Kept(e, r) \in HeldAt(s, n)'
      BY <2>2, <2>4
    <3> QED
      BY <3>1, <3>2
  <2>7. log'[i] = log[i]
    BY <1>0, LogGrows
  <2>8. HeldAt(log[i].cmd.source, log[i].seq)' = HeldAt(s, n)'
    BY <2>1, <2>7 DEF HeldAt
  <2> QED
    BY <2>4, <2>6, <2>8
<1>5. ASSUME e.cmd.op = "update"
      PROVE  \E r \in locators' : HeldAt(e.cmd.source, e.seq)' = {r}
  <2>1. row[e.cmd.source] # None /\ row[e.cmd.source].state = "active"
    BY <1>0, <1>5 DEF Fits, UpdateFits
  <2>2. PICK r \in locators : OpenLocator(e.cmd.source) = {r}
    BY <1>0, <2>1 DEF Lifecycle3
  <2>3. locators' = locators
    <3>1. {Kept(e, q) : q \in locators} = locators /\ Added(e) = {}
      BY <1>5 DEF Kept, Added
    <3> QED
      BY <1>0, <3>1
  <2>4. ASSUME NEW q \in locators
        PROVE  q.opened <= e.seq /\ (q.closed # 0 => ~(q.closed > e.seq))
    <3>1. \A n : DeliveredAt(n) => n \in Nat /\ n < e.seq
      BY <1>1, <1>2, <1>3, <1>5 DEF DeliveredAt
    <3> QED
      BY <1>0, <3>1 DEF LocatorTimes
  <2>5. HeldAt(e.cmd.source, e.seq)' = OpenLocator(e.cmd.source)
    BY <2>3, <2>4 DEF HeldAt, OpenLocator
  <2> QED
    BY <2>2, <2>3, <2>5
<1>6. ASSUME NEW i \in 1..Len(log'), log'[i].cmd.op = "update"
      PROVE  \E r \in locators' : HeldAt(log[i].cmd.source, log[i].seq)' = {r}
  <2>1. CASE i \in 1..Len(log)
    BY <1>0, <1>4, <1>6, <2>1, LogGrows
  <2>2. CASE i \notin 1..Len(log)
    <3>1. log'[i] = e
      BY <1>0, <2>2, LogGrows
    <3>2. HeldAt(log[i].cmd.source, log[i].seq)' = HeldAt(e.cmd.source, e.seq)'
      BY <3>1 DEF HeldAt
    <3> QED
      BY <1>5, <1>6, <3>1, <3>2
  <2> QED
    BY <2>1, <2>2
<1> QED
  BY <1>6 DEF Hydrated, HeldAt

LEMMA SourceMoves ==
    ASSUME NEW e \in EventRecord, e.cmd \in Commands, Fits(e)
    PROVE  LET r == row[e.cmd.source] IN
           IF PublishesVersion(e)
             THEN /\ MovesSource(e) /\ e.version = e.prior + 1
                  /\ e.prior = IF r = None THEN 0 ELSE r.version
             ELSE MovesSource(e) => r # None /\ e.version = r.version
<1>0. /\ e.version \in Nat /\ e.prior \in Nat /\ e.cmd.op \in Ops
  BY EventFields
<1>1. CASE e.cmd.op = "create"
  BY <1>0, <1>1 DEF Fits, CreateFits, PublishesVersion, MovesSource, DeliverableOps, PublicationOps
<1>2. CASE e.cmd.op = "update"
  BY <1>0, <1>2 DEF Fits, UpdateFits, PublishesVersion, MovesSource, DeliverableOps, PublicationOps
<1>3. CASE e.cmd.op \in LifecycleOps
  <2>1. ~PublishesVersion(e)
    BY <1>3 DEF LifecycleOps, PublishesVersion
  <2> QED
    BY <1>3, <2>1 DEF Fits, LifecycleFits
<1>4. CASE e.cmd.op \in ResolveOps
  <2>1. ResolutionFits(e) /\ ~(e.cmd.op \in DeliverableOps)
        /\ e.cmd.op \in {"keep_remote", "keep_local", "save_merged"}
    BY <1>4 DEF Fits, DeliverableOps, PublicationOps, LifecycleOps, ResolveOps
  <2> QED
    BY <1>0, <2>1 DEF ResolutionFits, PublishesVersion, MovesSource
<1>5. CASE e.cmd.op = "capture"
  BY <1>5 DEF PublishesVersion, MovesSource, DeliverableOps, PublicationOps, LifecycleOps
<1> QED
  BY <1>0, <1>1, <1>2, <1>3, <1>4, <1>5 DEF Ops, PublicationOps, ConflictOps

LEMMA CommitKeepsChain ==
    ASSUME Inv, TableInv, NEW t \in Txns, NEW e, Committing(t, e), NEW s \in Sources
    PROVE  Chain(s)'
<1>0. /\ TypeOK /\ RowsAreCommitted /\ Chain(s) /\ Fits(e)
      /\ e \in EventRecord /\ e.cmd \in Commands /\ e.version \in Nat /\ e.prior \in Nat
  BY EventFields DEF Inv, StateInv, TableInv, Tables, Committing
<1>1. /\ Len(log) \in Nat /\ Len(log') = Len(log) + 1 /\ log'[Len(log) + 1] = e
      /\ \A i \in 1..Len(log) : log'[i] = log[i] /\ i \in 1..Len(log')
      /\ \A i \in 1..Len(log') : i \in 1..Len(log) \/ (i = Len(log) + 1 /\ log'[i] = e)
  BY <1>0, LogGrows
<1>2. CASE ~(e.cmd.source = s /\ PublishesVersion(e))
  <2>1. Published(s)' = Published(s)
    BY <1>1, <1>2 DEF Published, PublishesVersion
  <2>2. \/ row'[s] = row[s]
        \/ row[s] # None /\ row'[s] # None /\ row'[s].version = row[s].version
    <3>1. CASE e.cmd.source # s
      BY <1>0, <3>1, OtherSources
    <3>2. CASE e.cmd.source = s
      <4>1. MovesSource(e) => row[s] # None /\ e.version = row[s].version
        BY <1>0, <1>2, <3>2, SourceMoves
      <4>2. row'[s] = IF MovesSource(e) THEN SourceAfter(e) ELSE row[s]
        BY <1>0, <3>2 DEF Committing, TypeOK
      <4>3. SourceAfter(e) # None /\ SourceAfter(e).version = e.version
        <5>1. e.content \in Contents \cup {None}
          BY <1>0 DEF EventRecord
        <5>2. SourceAfter(e) \in SourceRow
          BY <1>0, <5>1 DEF SourceAfter, SourceRow
        <5> QED
          BY <5>2, NoneAssumption DEF SourceAfter
      <4> QED
        BY <4>1, <4>2, <4>3
    <3> QED
      BY <3>1, <3>2
  <2>3. \A i \in Published(s) : i \in 1..Len(log) /\ log'[i] = log[i]
    BY <1>1 DEF Published
  <2> QED
    BY <1>0, <2>1, <2>2, <2>3 DEF Chain
<1>3. CASE e.cmd.source = s /\ PublishesVersion(e)
  <2> DEFINE n == Len(log) + 1
  <2>1. /\ MovesSource(e) /\ e.version = e.prior + 1
        /\ e.prior = IF row[s] = None THEN 0 ELSE row[s].version
    BY <1>0, <1>3, SourceMoves
  <2>2. row'[s] # None /\ row'[s].version = e.version
    <3>1. e.content \in Contents \cup {None}
      BY <1>0 DEF EventRecord
    <3>2. SourceAfter(e) \in SourceRow
      BY <1>0, <3>1 DEF SourceAfter, SourceRow
    <3>3. row'[s] = SourceAfter(e)
      BY <1>0, <1>3, <2>1 DEF Committing, TypeOK
    <3> QED
      BY <3>2, <3>3, NoneAssumption DEF SourceAfter
  <2>3. Published(s)' = Published(s) \cup {n}
    BY <1>1, <1>3 DEF Published, PublishesVersion
  <2>4. n \notin Published(s) /\ \A i \in Published(s) : i \in 1..Len(log) /\ i < n
    BY <1>1 DEF Published
  <2>5. IsFiniteSet(Published(s))
    <3>1. IsFiniteSet(1..Len(log))
      BY <1>1, FS_Interval
    <3>2. Published(s) \subseteq 1..Len(log)
      BY <2>4, Zenon
    <3> QED
      BY <3>1, <3>2, FS_Subset
  <2>6. Cardinality(Published(s)) = e.prior
    <3>1. CASE row[s] = None
      <4>1. Published(s) = {}
        BY <1>0, <3>1 DEF Chain
      <4> QED
        BY <2>1, <3>1, <4>1, FS_EmptySet
    <3>2. CASE row[s] # None
      BY <1>0, <2>1, <3>2 DEF Chain
    <3> QED
      BY <3>1, <3>2
  <2>7. Cardinality(Published(s)') = e.prior + 1
    BY <2>3, <2>4, <2>5, <2>6, FS_AddElement
  <2>8. \A i \in Published(s) :
          /\ log'[i] = log[i] /\ log[i].version \in Nat /\ log[i].version <= e.prior
          /\ log[i].version = log[i].prior + 1
          /\ \A j \in Published(s) : j < i => log[j].version < log[i].version
    <3>1. \A i \in Published(s) : /\ row[s] # None /\ log[i].version <= row[s].version
                                  /\ log[i].version = log[i].prior + 1
                                  /\ \A j \in Published(s) : j < i => log[j].version < log[i].version
      BY <1>0 DEF Chain
    <3>2. \A i \in 1..Len(log) : log[i].version \in Nat
      <4>1. \A x \in EventRecord : x.version \in Nat
        BY DEF EventRecord
      <4> QED
        BY <1>0, <4>1, SequencesAreNumbers
    <3> QED
      BY <1>1, <2>1, <2>4, <3>1, <3>2
  <2>9. ASSUME NEW i \in Published(s)'
        PROVE  /\ row'[s] # None /\ log'[i].version <= row'[s].version
               /\ log'[i].version = log'[i].prior + 1
               /\ \A j \in Published(s)' : j < i => log'[j].version < log'[i].version
    <3>1. CASE i \in Published(s)
      BY <1>0, <1>1, <2>1, <2>2, <2>3, <2>4, <2>8, <3>1
    <3>2. CASE i = n
      BY <1>0, <1>1, <2>1, <2>2, <2>3, <2>4, <2>8, <3>2
    <3> QED
      BY <2>3, <3>1, <3>2
  <2>10. row'[s].version > 0 /\ row'[s].version = Cardinality(Published(s)')
    BY <1>0, <2>1, <2>2, <2>7
  <2> QED
    BY <2>9, <2>10 DEF Chain
<1> QED
  BY <1>2, <1>3

\* The open locators of the source the commit is about.
LEMMA LocatorsOfSource ==
    ASSUME TypeOK, NEW t, NEW e, Committing(t, e)
    PROVE  OpenLocator(e.cmd.source)' =
             (IF e.cmd.op \in {"rename", "delete"} THEN {} ELSE OpenLocator(e.cmd.source)) \cup Added(e)
<1>0. /\ locators \subseteq LocatorRow /\ e.seq \in Nat /\ e.seq # 0
      /\ locators' = {Kept(e, r) : r \in locators} \cup Added(e)
  BY EventFields DEF TypeOK, LocatorRow, Committing
<1>1. \A r \in Added(e) : r.source = e.cmd.source /\ r.closed = 0
  BY DEF Added, Opened
<1>2. CASE e.cmd.op \in {"rename", "delete"}
  <2>1. \A r \in locators : Kept(e, r).source = e.cmd.source => Kept(e, r).closed # 0
    BY <1>0, <1>2, KeptRow
  <2> QED
    BY <1>0, <1>1, <1>2, <2>1 DEF OpenLocator
<1>3. CASE e.cmd.op \notin {"rename", "delete"}
  <2>1. {Kept(e, r) : r \in locators} = locators
    BY <1>3 DEF Kept
  <2> QED
    BY <1>0, <1>1, <1>3, <2>1 DEF OpenLocator
<1> QED
  BY <1>2, <1>3

\* The open tombstones of the source the commit is about.
LEMMA TombstonesOfSource ==
    ASSUME TypeOK, RowsAreCommitted, NEW t, NEW e, Committing(t, e)
    PROVE  LET old == OpenTombstones(e.cmd.source) IN
           OpenTombstones(e.cmd.source)' =
             IF e.cmd.op = "delete" THEN old \cup {e.cmd.event}
             ELSE IF e.cmd.op = "restore" THEN old \ {e.cmd.tomb} ELSE old
<1>0. /\ e.seq \in Nat /\ e.seq # 0 /\ e.cmd.event \in Events
      /\ \A d \in Events : tombstones'[d] = TombstoneAfter(e, d)
      /\ e.cmd.op = "restore" => e.cmd.tomb \in Events /\ tombstones[e.cmd.tomb] \in TombstoneRow
      /\ None \notin TombstoneRow
  BY EventFields, NoneAssumption DEF TypeOK, Committing, EventReferences
<1>1. ASSUME NEW d \in Events, ~(e.cmd.op = "delete" /\ d = e.cmd.event),
             ~(e.cmd.op = "restore" /\ d = e.cmd.tomb)
      PROVE  d \in OpenTombstones(e.cmd.source)' <=> d \in OpenTombstones(e.cmd.source)
  BY <1>0, <1>1 DEF TombstoneAfter, OpenTombstones
<1>2. CASE e.cmd.op = "delete"
  <2>1. tombstones'[e.cmd.event] = [source |-> e.cmd.source, version |-> e.version, closed |-> 0]
    BY <1>0, <1>2 DEF TombstoneAfter
  <2>2. [source |-> e.cmd.source, version |-> e.version, closed |-> 0] \in TombstoneRow
    BY <1>2, EventFields DEF Committing, TombstoneRow
  <2>3. e.cmd.event \in OpenTombstones(e.cmd.source)'
    BY <1>0, <2>1, <2>2 DEF OpenTombstones
  <2>4. OpenTombstones(e.cmd.source)' \subseteq Events /\ OpenTombstones(e.cmd.source) \subseteq Events
    BY DEF OpenTombstones
  <2> QED
    BY <1>1, <1>2, <2>3, <2>4
<1>3. CASE e.cmd.op = "restore"
  <2>1. tombstones'[e.cmd.tomb] = [tombstones[e.cmd.tomb] EXCEPT !.closed = e.seq]
    BY <1>0, <1>3 DEF TombstoneAfter
  <2>2. e.cmd.tomb \notin OpenTombstones(e.cmd.source)'
    BY <1>0, <1>3, <2>1 DEF OpenTombstones, TombstoneRow
  <2>3. OpenTombstones(e.cmd.source)' \subseteq Events /\ OpenTombstones(e.cmd.source) \subseteq Events
    BY DEF OpenTombstones
  <2> QED
    BY <1>1, <1>3, <2>2, <2>3
<1>4. CASE e.cmd.op \notin {"delete", "restore"}
  BY <1>1, <1>4 DEF OpenTombstones
<1> QED
  BY <1>2, <1>3, <1>4

LEMMA CommitKeepsLifecycle ==
    ASSUME Inv, TableInv, NEW t \in Txns, NEW e, Committing(t, e), NEW s \in Sources
    PROVE  Lifecycle3(s)'
<1>0. /\ TypeOK /\ RowsAreCommitted /\ Lifecycle3(s) /\ Fits(e)
      /\ e \in EventRecord /\ e.cmd \in Commands /\ e.version \in Nat
      /\ e.cmd.op \in Ops /\ e.cmd.event \in Events /\ e.content \in Contents \cup {None}
  BY EventFields, CommandFields DEF Inv, StateInv, TableInv, Tables, Committing, EventRecord
<1>1. CASE e.cmd.source # s
  <2>1. /\ row'[s] = row[s] /\ OpenLocator(s)' = OpenLocator(s)
        /\ OpenTombstones(s)' = OpenTombstones(s)
        /\ \A d \in OpenTombstones(s) : tombstones'[d] = tombstones[d]
    <3>1. \A d \in OpenTombstones(s) : d \in Events /\ tombstones[d] # None /\ tombstones[d].source = s
      BY DEF OpenTombstones
    <3> QED
      BY <1>0, <1>1, <3>1, OtherSources
  <2>2. \A r : {r} = OpenLocator(s) => r \in locators /\ r \in locators'
    <3>1. \A r \in OpenLocator(s)' : r \in locators'
      BY DEF OpenLocator
    <3> QED
      BY <2>1, <3>1 DEF OpenLocator
  <2> QED
    BY <1>0, <2>1, <2>2 DEF Lifecycle3
<1>2. CASE e.cmd.source = s
  <2>1. OpenLocator(s)' =
          (IF e.cmd.op \in {"rename", "delete"} THEN {} ELSE OpenLocator(s)) \cup Added(e)
    BY <1>0, <1>2, LocatorsOfSource
  <2>2. OpenTombstones(s)' = IF e.cmd.op = "delete" THEN OpenTombstones(s) \cup {e.cmd.event}
                             ELSE IF e.cmd.op = "restore" THEN OpenTombstones(s) \ {e.cmd.tomb}
                             ELSE OpenTombstones(s)
    BY <1>0, <1>2, TombstonesOfSource
  <2>3. row'[s] = IF MovesSource(e) THEN SourceAfter(e) ELSE row[s]
    BY <1>0, <1>2 DEF Committing, TypeOK
  <2>4. /\ SourceAfter(e) # None /\ SourceAfter(e).version = e.version
        /\ SourceAfter(e).state = IF e.cmd.op = "delete" THEN "deleted" ELSE "active"
    <3>1. SourceAfter(e) \in SourceRow
      BY <1>0 DEF SourceAfter, SourceRow
    <3> QED
      BY <3>1, NoneAssumption DEF SourceAfter
  <2>5. \A r \in OpenLocator(s)' : r \in locators'
    BY DEF OpenLocator
  <2>6. Chain(s) /\ (row[s] # None => row[s].version > 0)
    BY DEF TableInv, Tables, Chain
  <2>7. e.cmd.op \in LifecycleOps => e.version = row[s].version /\ row[s] # None /\ MovesSource(e)
    BY <1>0, <1>2, <2>6 DEF Fits, LifecycleFits, MovesSource, DeliverableOps
  <2>8. CASE e.cmd.op = "create"
    <3>1. row[s] = None /\ e.version = 1 /\ MovesSource(e)
      BY <1>0, <1>2, <2>8 DEF Fits, CreateFits, MovesSource, DeliverableOps, PublicationOps
    <3>2. OpenLocator(s)' = {Opened(s, e.cmd.target, e.seq)} /\ OpenTombstones(s)' = {}
      BY <1>0, <1>2, <2>1, <2>2, <2>8, <3>1 DEF Lifecycle3, Added
    <3> QED
      BY <2>3, <2>4, <2>5, <2>8, <3>1, <3>2 DEF Lifecycle3
  <2>9. CASE e.cmd.op = "rename"
    <3>1. row[s] # None /\ row[s].state = "active"
      BY <1>0, <1>2, <2>9 DEF Fits, LifecycleFits, LifecycleOps
    <3>2. OpenLocator(s)' = {Opened(s, e.cmd.target, e.seq)} /\ OpenTombstones(s)' = {}
      BY <1>0, <1>2, <2>1, <2>2, <2>9, <3>1 DEF Lifecycle3, Added
    <3>3. MovesSource(e)
      BY <2>7, <2>9 DEF LifecycleOps
    <3> QED
      BY <2>3, <2>4, <2>5, <2>9, <3>2, <3>3 DEF Lifecycle3
  <2>10. CASE e.cmd.op = "restore"
    <3>1. /\ row[s] # None /\ row[s].state = "deleted" /\ TombstoneMatches(e.cmd)
      BY <1>0, <1>2, <2>10 DEF Fits, LifecycleFits, LifecycleOps
    <3>2. OpenLocator(s)' = {Opened(s, e.cmd.target, e.seq)}
      BY <1>0, <1>2, <2>1, <2>10, <3>1 DEF Lifecycle3, Added
    <3>3. e.cmd.tomb \in OpenTombstones(s)
      BY <1>0, <1>2, <2>10, <3>1, CommandFields DEF TombstoneMatches, OpenTombstones
    <3>4. OpenTombstones(s)' = {}
      BY <1>0, <2>2, <2>10, <3>1, <3>3 DEF Lifecycle3
    <3>5. MovesSource(e)
      BY <2>7, <2>10 DEF LifecycleOps
    <3> QED
      BY <2>3, <2>4, <2>5, <2>10, <3>2, <3>4, <3>5 DEF Lifecycle3
  <2>11. CASE e.cmd.op = "delete"
    <3>1. row[s] # None /\ row[s].state = "active" /\ MovesSource(e) /\ e.version = row[s].version
      BY <1>0, <1>2, <2>7, <2>11 DEF Fits, LifecycleFits, LifecycleOps
    <3>2. OpenLocator(s)' = {} /\ OpenTombstones(s)' = {e.cmd.event}
      BY <1>0, <2>1, <2>2, <2>11, <3>1 DEF Lifecycle3, Added
    <3>3. tombstones'[e.cmd.event].version = e.version
      BY <1>0, <2>11 DEF Committing, TombstoneAfter
    <3> QED
      BY <1>0, <2>3, <2>4, <2>11, <3>1, <3>2, <3>3 DEF Lifecycle3
  <2>12. CASE e.cmd.op \notin {"create", "rename", "restore", "delete"}
    <3>1. OpenLocator(s)' = OpenLocator(s) /\ OpenTombstones(s)' = OpenTombstones(s)
      BY <2>1, <2>2, <2>12 DEF Added
    <3>2. ~Deliverable(e) \/ e.cmd.op = "update"
      BY <2>12 DEF Deliverable, DeliverableOps, PublicationOps, LifecycleOps
    <3>3. \A d \in Events : tombstones'[d] = tombstones[d]
      BY <2>12 DEF Committing, TombstoneAfter
    <3>4. row'[s] = row[s] \/ /\ row[s] # None /\ row[s].state = "active"
                              /\ row'[s] # None /\ row'[s].state = "active"
      <4>1. CASE e.cmd.op = "update"
        BY <1>0, <1>2, <2>3, <2>4, <4>1 DEF Fits, UpdateFits
      <4>2. CASE e.cmd.op \in {"keep_local", "save_merged"}
        <5>1. ResolutionFits(e)
          BY <1>0, <4>2 DEF Fits, ResolveOps
        <5> QED
          BY <1>2, <2>3, <2>4, <4>2, <5>1 DEF ResolutionFits, MovesSource
      <4>3. CASE e.cmd.op \in {"keep_remote", "capture"}
        BY <2>3, <4>3 DEF MovesSource, DeliverableOps, PublicationOps, LifecycleOps
      <4> QED
        BY <1>0, <2>12, <4>1, <4>2, <4>3
           DEF Ops, PublicationOps, LifecycleOps, ConflictOps, ResolveOps
    <3>5. \A d \in OpenTombstones(s) : d \in Events
      BY DEF OpenTombstones
    <3>6. \A r : OpenLocator(s) = {r} => r \in locators'
      BY <2>5, <3>1
    <3> QED
      BY <1>0, <3>1, <3>3, <3>4, <3>5, <3>6 DEF Lifecycle3
  <2> QED
    BY <2>8, <2>9, <2>10, <2>11, <2>12
<1> QED
  BY <1>1, <1>2

LEMMA CommitKeepsConflictState ==
    ASSUME Inv, TableInv, NEW t \in Txns, NEW e, Committing(t, e), NEW c \in Events
    PROVE  ConflictState(c)'
<1>0. /\ TypeOK /\ RowsAreCommitted /\ ConflictState(c) /\ Fits(e)
      /\ e.cmd.event \in Events /\ e.version \in Nat
      /\ e.cmd.op \in ResolveOps => e.cmd.conflict \in Events /\ conflicts[e.cmd.conflict] # None
      /\ conflicts' = ConflictsAfter(e)
      /\ conflicts \in [Events -> {None} \cup ConflictRecord] /\ None \notin ConflictRecord
  BY EventFields, NoneAssumption
     DEF Inv, StateInv, TypeOK, TableInv, Tables, Committing, EventReferences
<1>1. /\ Len(log) \in Nat /\ Len(log') = Len(log) + 1 /\ log'[Len(log) + 1] = e
      /\ \A i \in 1..Len(log) : log'[i] = log[i] /\ i \in 1..Len(log')
      /\ \A i \in 1..Len(log') : i \in 1..Len(log) \/ (i = Len(log) + 1 /\ log'[i] = e)
  BY <1>0, LogGrows
<1>2. CASE e.cmd.op \in ResolveOps /\ e.cmd.conflict = c
  <2> DEFINE n == Len(log) + 1
             old == conflicts[c]
             closed(st) == [[old EXCEPT !.status = st] EXCEPT !.by = e.cmd.event]
  <2>1. Closing(c)' = {n}
    <3>1. Closing(c) = {}
      BY <1>0, <1>2 DEF ConflictState, Fits
    <3>2. \A i \in Closing(c)' : i = n
      BY <1>1, <3>1 DEF Closing
    <3>3. n \in Closing(c)'
      BY <1>1, <1>2 DEF Closing
    <3> QED
      BY <3>2, <3>3
  <2>2. n \in 1..Len(log') /\ log'[n] = e
    BY <1>1
  <2>3. /\ old \in ConflictRecord /\ c # e.cmd.event /\ e.cmd.op # "capture"
    <3>1. conflicts[e.cmd.event] = None
      BY <1>0, NewRows
    <3> QED
      BY <1>0, <1>2, <3>1, Families
  <2>4. \A st \in {"resolved", "superseded"} :
          /\ closed(st) \in ConflictRecord /\ closed(st).candidate = old.candidate
          /\ closed(st).status = st /\ closed(st).by = e.cmd.event
    BY <1>0, <2>3 DEF ConflictRecord
  <2>5. CASE e.version = 0
    <3> DEFINE mid == [conflicts EXCEPT ![c] = closed("superseded")]
    <3>1. conflicts' = [mid EXCEPT ![e.cmd.event] = Conflict(e.cmd.source, old.candidate)]
      BY <1>0, <1>2, <2>3, <2>5 DEF ConflictsAfter
    <3>2. mid \in [Events -> {None} \cup ConflictRecord] /\ mid[c] = closed("superseded")
      BY <1>0, <2>4
    <3>3. Conflict(e.cmd.source, old.candidate) # None
          /\ Conflict(e.cmd.source, old.candidate).candidate = old.candidate
      <4>1. old.candidate \in Contents \cup {None} /\ e.cmd.source \in Sources
        BY <2>3, EventFields DEF Committing, ConflictRecord
      <4>2. Conflict(e.cmd.source, old.candidate) \in ConflictRecord
        BY <4>1 DEF Conflict, ConflictRecord
      <4> QED
        BY <1>0, <4>2 DEF Conflict
    <3> HIDE DEF mid, closed, old
    <3>4. /\ conflicts'[c] = closed("superseded")
          /\ conflicts'[e.cmd.event] = Conflict(e.cmd.source, old.candidate)
      BY <1>0, <2>3, <3>1, <3>2
    <3>5. /\ conflicts'[c].status = "superseded" /\ conflicts'[c].by = e.cmd.event
          /\ conflicts'[c].candidate = old.candidate /\ conflicts'[c] # None
      BY <1>0, <2>4, <3>4
    <3> HIDE DEF n
    <3> QED
      BY <1>0, <2>1, <2>2, <3>3, <3>4, <3>5 DEF ConflictState
  <2>6. CASE e.version # 0
    <3>1. conflicts' = [conflicts EXCEPT ![c] = closed("resolved")]
      BY <1>0, <1>2, <2>3, <2>6 DEF ConflictsAfter
    <3>2. conflicts'[c].status = "resolved" /\ conflicts'[c] # None
      BY <1>0, <2>4, <3>1
    <3> HIDE DEF n
    <3> QED
      BY <2>1, <2>2, <2>6, <3>2 DEF ConflictState
  <2> QED
    BY <2>5, <2>6
<1>3. CASE ~(e.cmd.op \in ResolveOps /\ e.cmd.conflict = c)
  <2>1. Closing(c)' = Closing(c)
    BY <1>1, <1>3 DEF Closing
  <2>2. CASE conflicts[c] = None
    <3>1. Closing(c) = {}
      BY <1>0, <2>2 DEF ConflictState
    <3>2. conflicts'[c] = None \/ conflicts'[c].status = "open"
      BY <1>0, <1>3, <2>2, OtherConflicts
    <3> QED
      BY <2>1, <3>1, <3>2 DEF ConflictState
  <2>3. CASE conflicts[c] # None
    <3>1. conflicts'[c] = conflicts[c]
      BY <1>0, <1>3, <2>3, OtherConflicts
    <3>2. \A d \in Events : conflicts[d] # None =>
            conflicts'[d] # None /\ conflicts'[d].candidate = conflicts[d].candidate
      BY <1>0, OtherConflicts
    <3>3. \A i \in 1..Len(log) : i \in 1..Len(log') /\ log'[i] = log[i]
      BY <1>1
    <3> QED
      BY <1>0, <2>1, <2>3, <3>1, <3>2, <3>3 DEF ConflictState
  <2> QED
    BY <2>2, <2>3
<1> QED
  BY <1>2, <1>3

LEMMA CommitKeepsAnswers ==
    ASSUME Inv, TableInv, NEW t \in Txns, Applies(t), NEW e, Committing(t, e)
    PROVE  AnswerTrue'
<1>0. TypeOK /\ AnswerTrue
  BY DEF Inv, StateInv, TableInv
<1>1. /\ Len(log) + 1 \in 1..Len(log') /\ log'[Len(log) + 1] = e
      /\ \A i \in 1..Len(log) : log'[i] = log[i] /\ i \in 1..Len(log')
  BY <1>0, LogGrows
<1>2. ASSUME NEW v \in Writers, pc'[v] = "done"
      PROVE  TrueAnswer(v)'
  <2>1. CASE Same(v)
    <3>1. TrueAnswer(v)
      BY <1>0, <1>2, <2>1 DEF AnswerTrue, TrueAnswer, Names, Same
    <3>2. \A d, n : Names(d, n) => Names(d, n)'
      BY <1>1 DEF Names
    <3>3. cmd'[v] = cmd[v] /\ answer'[v] = answer[v]
      BY <2>1 DEF Same
    <3> QED
      BY <1>1, <3>1, <3>3 DEF TrueAnswer, Names
  <2>2. CASE /\ Tx(v) = t /\ pc[v] = "commit" /\ cmd'[v] = cmd[v]
             /\ answer'[v] = [kind |-> "committed", seq |-> pending[t].seq]
    <3>1. e.cmd = cmd[v] /\ e = pending[t]
      BY <2>2 DEF TableInv, Knowledge, HandlerKnows, Committing
    <3>2. answer'[v].seq = e.seq /\ cmd'[v] = e.cmd
      BY <2>2, <3>1
    <3> QED
      BY <1>1, <3>2 DEF TrueAnswer, Names
  <2> QED
    BY <2>1, <2>2 DEF Applies
<1> QED
  BY <1>2 DEF AnswerTrue, TrueAnswer, Names

LEMMA CommitKeepsInv ==
    ASSUME Inv, TableInv, NEW t \in Txns, Applies(t)
    PROVE  TableInv'
<1>1. PICK e : e = pending[t]
  OBVIOUS
<1>2. Committing(t, e)
  BY <1>1, ApplyIsCommitting DEF Applies
<1>3. e # None
  BY <1>1 DEF Applies
<1>4. Unique' /\ RowsAreCommitted' /\ OneHolder' /\ LocatorTimes' /\ Hydrated'
  BY <1>2, <1>3, CommitKeepsUnique, CommitKeepsOneHolder, CommitKeepsLocatorTimes,
     CommitKeepsHydrated
<1>5. /\ \A s \in Sources : Chain(s)' /\ Lifecycle3(s)'
      /\ \A c \in Events : ConflictState(c)'
  BY <1>2, CommitKeepsChain, CommitKeepsLifecycle, CommitKeepsConflictState
<1>6. Knowledge' /\ AnswerTrue'
  BY <1>2, CommitKeepsKnowledge, CommitKeepsAnswers
<1> QED
  BY <1>4, <1>5, <1>6 DEF TableInv, Tables

LEMMA NextKeepsTables ==
    ASSUME Inv, TableInv, [Next]_vars
    PROVE  TableInv'
BY NextShape, RetreatKeepsInv, AdvanceKeepsInv, WriteKeepsInv, CommitKeepsInv DEF Shape

LEMMA InitTables ==
    ASSUME Init
    PROVE  TableInv
<1>1. Len(log) = 0 /\ 1..Len(log) = {}
  BY DEF Init
<1>2. Knowledge
  BY DEF Init, Knowledge, HandlerKnows, PendingKnows
<1>3. Unique /\ RowsAreCommitted /\ OneHolder /\ LocatorTimes /\ Hydrated
  BY <1>1 DEF Init, Unique, RowsAreCommitted, OneHolder, LocatorTimes, Hydrated
<1>4. ASSUME NEW s \in Sources
      PROVE  Chain(s) /\ Lifecycle3(s)
  BY <1>1 DEF Init, Chain, Published, Lifecycle3, OpenLocator, OpenTombstones
<1>5. ASSUME NEW c \in Events
      PROVE  ConflictState(c)
  BY <1>1 DEF Init, ConflictState, Closing
<1>6. AnswerTrue
  BY DEF Init, AnswerTrue
<1> QED
  BY <1>2, <1>3, <1>4, <1>5, <1>6 DEF TableInv, Tables

-------------------------------------------------------------------------------
(* Theorems.                                                               *)

\* What handlers and uncommitted events rely on, and what the tables say, hold in
\* every reachable state.
THEOREM TableInvHolds == Spec => []TableInv
<1>1. Init => TableInv
  BY InitTables
<1>2. TableInv /\ Inv /\ [Next]_vars => TableInv'
  BY NextKeepsTables
<1> QED
  BY <1>1, <1>2, InvHolds, PTL DEF Spec

\* No lost update: the versions of a source form one chain, each built on the one
\* right before it, whatever writes them concurrently.
THEOREM VersionChainHolds == Spec => []VersionChain
<1>1. TableInv => VersionChain
  BY DEF TableInv, Tables, Chain, Published, VersionChain
<1> QED
  BY <1>1, TableInvHolds, PTL

\* A locator is open for at most one source, an active source has exactly one open
\* locator, a deleted one exactly one open tombstone of its current version.
THEOREM LifecycleConsistentHolds == Spec => []LifecycleConsistent
<1>1. ASSUME TypeOK, TableInv
      PROVE  LifecycleConsistent
  <2>1. OneHolder /\ \A s \in Sources : Lifecycle3(s)
    BY <1>1 DEF TableInv, Tables
  <2>2. ASSUME NEW s \in Sources
        PROVE  CASE row[s] = None -> OpenLocator(s) = {} /\ OpenTombstones(s) = {}
                 [] row[s] # None /\ row[s].state = "active" ->
                      Cardinality(OpenLocator(s)) = 1 /\ OpenTombstones(s) = {}
                 [] row[s] # None /\ row[s].state = "deleted" ->
                      /\ OpenLocator(s) = {} /\ Cardinality(OpenTombstones(s)) = 1
                      /\ \A e \in OpenTombstones(s) : tombstones[e].version = row[s].version
    <3>1. row[s] # None => row[s].state \in {"active", "deleted"}
      BY <1>1 DEF TypeOK, SourceRow
    <3>2. Lifecycle3(s)
      BY <2>1
    <3>3. \A x : Cardinality({x}) = 1
      BY FS_Singleton
    <3>4. CASE row[s] = None
      BY <3>2, <3>4 DEF Lifecycle3
    <3>5. CASE row[s] # None /\ row[s].state = "active"
      BY <3>2, <3>3, <3>5 DEF Lifecycle3
    <3>6. CASE row[s] # None /\ row[s].state = "deleted"
      BY <3>2, <3>3, <3>6 DEF Lifecycle3
    <3> QED
      BY <3>1, <3>4, <3>5, <3>6
  <2> QED
    BY <2>1, <2>2 DEF LifecycleConsistent, OneHolder, OpenTombstones
<1> QED
  BY <1>1, TableInvHolds, TypeCorrect, PTL

\* Every delivered update can be hydrated: exactly one locator was open for its
\* source at its own sequence number, whatever has renamed or deleted it since.
THEOREM HydrationTotalHolds == Spec => []HydrationTotal
<1>1. ASSUME TableInv
      PROVE  HydrationTotal
  <2>1. Hydrated
    BY <1>1 DEF TableInv, Tables
  <2>2. ASSUME NEW i \in 1..Len(log), log[i].cmd.op = "update"
        PROVE  Cardinality(HeldAt(log[i].cmd.source, log[i].seq)) = 1
    BY <2>1, <2>2, FS_Singleton DEF Hydrated
  <2> QED
    BY <2>2 DEF HydrationTotal, HeldAt
<1> QED
  BY <1>1, TableInvHolds, PTL

\* A conflict is closed by exactly one committed resolution, and a superseded one
\* hands its candidate on.
THEOREM ConflictClosedOnceHolds == Spec => []ConflictClosedOnce
<1>1. ASSUME TypeOK, TableInv
      PROVE  ConflictClosedOnce
  <2>1. ASSUME NEW c \in Events, conflicts[c] # None
        PROVE  CASE conflicts[c].status = "open" -> Closing(c) = {}
                 [] conflicts[c].status = "resolved" ->
                      Cardinality(Closing(c)) = 1 /\ \A i \in Closing(c) : log[i].version # 0
                 [] conflicts[c].status = "superseded" ->
                      /\ Cardinality(Closing(c)) = 1
                      /\ conflicts[conflicts[c].by] # None
                      /\ conflicts[conflicts[c].by].candidate = conflicts[c].candidate
    <3>1. ConflictState(c)
      BY <1>1 DEF TableInv, Tables
    <3>2. conflicts[c].status \in {"open", "resolved", "superseded"}
      BY <1>1, <2>1 DEF TypeOK, ConflictRecord
    <3>3. \A x : Cardinality({x}) = 1
      BY FS_Singleton
    <3>4. CASE conflicts[c].status = "open"
      BY <2>1, <3>1, <3>4 DEF ConflictState
    <3>5. CASE conflicts[c].status = "resolved"
      BY <2>1, <3>1, <3>3, <3>5 DEF ConflictState
    <3>6. CASE conflicts[c].status = "superseded"
      BY <2>1, <3>1, <3>3, <3>6 DEF ConflictState
    <3> QED
      BY <3>2, <3>4, <3>5, <3>6
  <2> QED
    BY <2>1 DEF ConflictClosedOnce, Closing
<1> QED
  BY <1>1, TableInvHolds, TypeCorrect, PTL

\* An answer "committed" or "replayed" names the committed event of that very
\* command, even after lost connections.
THEOREM AnswerTrueHolds == Spec => []AnswerTrue
<1>1. TableInv => AnswerTrue
  BY DEF TableInv
<1> QED
  BY <1>1, TableInvHolds, PTL

-------------------------------------------------------------------------------
(***************************************************************************)
(* What a step of CanonicalStore may never do, for every set of writers,   *)
(* commands and bounds: tell a client "no" for good while its command is   *)
(* or can still become committed, and commit a deliverable event under a   *)
(* policy revision that did not authorise it.                              *)
(*                                                                         *)
(* Both are facts about one step that rest on what earlier statements of   *)
(* the same transaction, or of an earlier attempt, have found.  "StepInv"  *)
(* is that memory: the preflight verdict a handler still carries, the      *)
(* verdict the policy row it holds keeps true, the replay lookup its key   *)
(* lock keeps true, and the revision an uncommitted event was written      *)
(* under.                                                                  *)
(***************************************************************************)
-------------------------------------------------------------------------------
(* The inductive invariant.                                                *)

\* The revision a publication carries as evidence allows its target.
EvidenceAllows(w) ==
    pc[w] \in {"key", "policy", "source", "commit", "recover"} /\ cmd[w].op \in PublicationOps
      => Allowed(evidence[w], cmd[w].target)

\* A create that has passed the policy row is allowed by the revision it holds.
SourceAllowed(w) ==
    pc[w] = "source" /\ cmd[w].op = "create" => Allowed(policyRev, cmd[w].target)

\* Past its replay lookup, a publication or conflict command is not committed.
NotYet(w) ==
    pc[w] \in {"source", "conflict"} /\ cmd[w].op \notin LifecycleOps => ~Committed(cmd[w])

\* An uncommitted deliverable event belongs to the active revision.
Authorised(e) ==
    Deliverable(e) =>
        /\ e.rev = policyRev
        /\ e.cmd.op \in {"create", "rename", "restore"} /\ e.intent = "upsert"
             => Allowed(policyRev, e.cmd.target)

\* A committed capture has left its conflict row.
CapturesHaveRows ==
    \A i \in 1..Len(log) : log[i].cmd.op = "capture" => conflicts[log[i].cmd.event] # None

StepInv ==
    /\ CapturesHaveRows
    /\ \A w \in Writers : EvidenceAllows(w) /\ SourceAllowed(w) /\ NotYet(w)
    /\ \A t \in Txns : pending[t] # None => Authorised(pending[t])

-------------------------------------------------------------------------------
(* StepInv is inductive.                                                   *)

\* A step of handler w that publishes nothing.
LEMMA HandlerKeeps ==
    ASSUME TypeOK, StepInv, NEW w \in Writers, UNCHANGED <<tables, policyRev>>,
           \A v \in Writers \ {w} : pc'[v] = pc[v] /\ cmd'[v] = cmd[v] /\ evidence'[v] = evidence[v],
           EvidenceAllows(w)', SourceAllowed(w)', NotYet(w)',
           \A t \in Txns : \/ pending'[t] = None \/ pending'[t] = pending[t]
                           \/ Authorised(pending'[t])
    PROVE  StepInv'
<1>1. CapturesHaveRows'
  BY DEF StepInv, CapturesHaveRows, tables
<1>2. ASSUME NEW v \in Writers
      PROVE  EvidenceAllows(v)' /\ SourceAllowed(v)' /\ NotYet(v)'
  BY DEF StepInv, EvidenceAllows, SourceAllowed, NotYet, Committed, tables
<1>3. ASSUME NEW t \in Txns, pending'[t] # None
      PROVE  Authorised(pending[t])'
  <2>1. Authorised(pending'[t])
    BY <1>3 DEF StepInv
  <2> QED
    BY <2>1 DEF Authorised, Deliverable
<1> QED
  BY <1>1, <1>2, <1>3 DEF StepInv

\* Handler w answers, or goes where it knows no more than before.
LEMMA LabelKeeps ==
    ASSUME TypeOK, StepInv, NEW w \in Writers,
           UNCHANGED <<tables, policyRev, cmd, evidence>>,
           NEW label, pc' = [pc EXCEPT ![w] = label],
           label \notin {"source", "conflict"},
           label \in {"key", "policy", "commit", "recover"} /\ cmd[w].op \in PublicationOps
             => pc[w] \in {"key", "policy", "source", "commit", "recover"},
           \A t \in Txns : \/ pending'[t] = None \/ pending'[t] = pending[t]
                           \/ Authorised(pending'[t])
    PROVE  StepInv'
<1>1. pc'[w] = label /\ \A v \in Writers \ {w} : pc'[v] = pc[v]
  BY DEF TypeOK
<1>2. EvidenceAllows(w)' /\ SourceAllowed(w)' /\ NotYet(w)'
  BY <1>1 DEF StepInv, EvidenceAllows, SourceAllowed, NotYet
<1> QED
  BY <1>1, <1>2, HandlerKeeps

LEMMA ReplyKeeps ==
    ASSUME TypeOK, StepInv, NEW w \in Writers,
           UNCHANGED <<tables, policyRev, cmd, evidence>>,
           NEW kind, NEW seq, Reply(w, kind, seq)
    PROVE  StepInv'
BY LabelKeeps DEF Reply, Answer

\* A handler that goes on to a statement with less to remember.
LEMMA ProceedKeeps ==
    ASSUME TypeOK, StepInv, NEW w \in Writers,
           UNCHANGED <<tables, policyRev, cmd, evidence>>,
           NEW label, Proceed(w, label) \/ Read(w, label),
           label \in {"source", "conflict"} =>
             /\ cmd[w].op = "create" /\ label = "source" => Allowed(policyRev, cmd[w].target)
             /\ cmd[w].op \in LifecycleOps \/ ~Committed(cmd[w]),
           cmd[w].op \in PublicationOps => pc[w] \in {"key", "policy", "source"}
    PROVE  StepInv'
<1>1. pc'[w] = label /\ pending' = pending /\ \A v \in Writers \ {w} : pc'[v] = pc[v]
  BY DEF TypeOK, Proceed, Read, Goto
<1>2. EvidenceAllows(w)'
  BY <1>1 DEF StepInv, EvidenceAllows
<1>3. SourceAllowed(w)'
  BY <1>1 DEF SourceAllowed
<1>4. NotYet(w)'
  BY <1>1 DEF NotYet, Committed, tables
<1> QED
  BY <1>1, <1>2, <1>3, <1>4, HandlerKeeps

\* A handler that writes an event it is authorised to.
LEMMA WriteKeeps ==
    ASSUME TypeOK, StepInv, NEW w \in Writers,
           UNCHANGED <<tables, policyRev, cmd, evidence>>,
           NEW version, NEW content, NEW intent,
           Write(w, NewEvent(w, version, content, intent)),
           cmd[w].op \in {"create", "rename", "restore"} /\ intent = "upsert"
             => Allowed(policyRev, cmd[w].target),
           cmd[w].op \in PublicationOps => pc[w] = "source"
    PROVE  StepInv'
<1> DEFINE e == NewEvent(w, version, content, intent)
<1>1. Authorised(e)
  BY DEF NewEvent, Authorised
<1>2. pending' = pending \/ pending' = [pending EXCEPT ![Tx(w)] = e]
  BY DEF Write
<1> HIDE DEF e
<1>3. \A t \in Txns : pending'[t] = pending[t] \/ Authorised(pending'[t])
  BY <1>1, <1>2 DEF TypeOK
<1>4. pc' = [pc EXCEPT ![w] = "done"] \/ pc' = [pc EXCEPT ![w] = "commit"]
  BY DEF Write, Answer, Goto
<1> QED
  BY <1>3, <1>4, LabelKeeps

LEMMA PublicationKeepsStep ==
    ASSUME Inv, StepInv, NEW w \in Writers, Publication(w)
    PROVE  StepInv'
<1>0. TypeOK /\ HandlerReferences(w)
  BY DEF Inv, StateInv, ReferencesExist
<1>1. CASE Preflight(w)
  <2>1. /\ UNCHANGED <<tables, policyRev, cmd, pending>>
        /\ evidence' = [evidence EXCEPT ![w] = policyRev]
        /\ \/ pc' = [pc EXCEPT ![w] = "done"]
           \/ pc' = [pc EXCEPT ![w] = "key"] /\ Allowed(policyRev, cmd[w].target)
    BY <1>1 DEF Preflight, Reply, Answer, Read, Goto
  <2>2. /\ pc'[w] \in {"done", "key"} /\ evidence'[w] = policyRev
        /\ pc'[w] = "key" => Allowed(policyRev, cmd[w].target)
        /\ \A v \in Writers \ {w} : pc'[v] = pc[v] /\ evidence'[v] = evidence[v]
    BY <1>0, <2>1 DEF TypeOK
  <2>3. EvidenceAllows(w)' /\ SourceAllowed(w)' /\ NotYet(w)'
    BY <2>1, <2>2 DEF EvidenceAllows, SourceAllowed, NotYet, Allowed
  <2> QED
    BY <1>0, <2>1, <2>2, <2>3, HandlerKeeps
<1>2. CASE PubKey(w)
  <2>1. /\ UNCHANGED <<tables, policyRev, cmd, evidence>> /\ pc[w] = "key"
        /\ Reply(w, "rejected", 0) \/ Proceed(w, "policy")
    BY <1>2 DEF PubKey, Unmoved
  <2> QED
    BY <1>0, <2>1, ReplyKeeps, ProceedKeeps
<1>3. CASE PubPolicy(w)
  <2>1. /\ UNCHANGED <<tables, policyRev, cmd, evidence>> /\ pc[w] = "policy"
        /\ cmd[w].op \in PublicationOps
        /\ \/ Reply(w, "denied", 0) \/ Reply(w, "replayed", Receipt(cmd[w]))
           \/ /\ Proceed(w, "source") /\ ~Committed(cmd[w])
              /\ evidence[w] = policyRev \/ Allowed(policyRev, LockedLocator(cmd[w]))
    BY <1>3 DEF PubPolicy, Unmoved
  <2>2. Allowed(evidence[w], cmd[w].target)
    BY <2>1 DEF StepInv, EvidenceAllows
  <2>3. CASE Reply(w, "denied", 0) \/ Reply(w, "replayed", Receipt(cmd[w]))
    BY <1>0, <2>1, <2>3, ReplyKeeps
  <2>4. CASE /\ Proceed(w, "source") /\ ~Committed(cmd[w])
             /\ evidence[w] = policyRev \/ Allowed(policyRev, LockedLocator(cmd[w]))
    <3>1. cmd[w].op = "create" => Allowed(policyRev, cmd[w].target)
      BY <2>2, <2>4 DEF LockedLocator
    <3> QED
      BY <1>0, <2>1, <2>4, <3>1, ProceedKeeps
  <2> QED
    BY <2>1, <2>3, <2>4
<1>4. CASE PubSource(w)
  <2>1. /\ UNCHANGED <<tables, policyRev, cmd, evidence>> /\ pc[w] = "source"
        /\ cmd[w].op \in PublicationOps
        /\ IF cmd[w].op = "create" THEN CreateTransition(w) ELSE UpdateTransition(w)
    BY <1>4 DEF PubSource, Unmoved
  <2>2. \/ Reply(w, "rejected", 0)
        \/ pc' = [pc EXCEPT ![w] = "done"] /\ pending' = pending
        \/ \E version, content, intent : Write(w, NewEvent(w, version, content, intent))
    BY <2>1 DEF CreateTransition, UpdateTransition, Answer
  <2>3. cmd[w].op \in {"create", "rename", "restore"} => Allowed(policyRev, cmd[w].target)
    BY <2>1 DEF StepInv, SourceAllowed, PublicationOps
  <2>4. CASE Reply(w, "rejected", 0)
    BY <1>0, <2>1, <2>4, ReplyKeeps
  <2>5. CASE pc' = [pc EXCEPT ![w] = "done"] /\ pending' = pending
    <3>1. PICK label : label = "done"
      OBVIOUS
    <3>2. /\ pc' = [pc EXCEPT ![w] = label]
          /\ label \notin {"source", "conflict", "key", "policy", "commit", "recover"}
      BY <2>5, <3>1
    <3> QED
      BY <1>0, <2>1, <2>5, <3>2, LabelKeeps
  <2>6. ASSUME NEW version, NEW content, NEW intent,
               Write(w, NewEvent(w, version, content, intent))
        PROVE  StepInv'
    BY <1>0, <2>1, <2>3, <2>6, WriteKeeps
  <2> QED
    BY <2>2, <2>4, <2>5, <2>6
<1> QED
  BY <1>1, <1>2, <1>3, <1>4 DEF Publication

LEMMA LifecycleKeepsStep ==
    ASSUME Inv, StepInv, NEW w \in Writers, Lifecycle(w)
    PROVE  StepInv'
<1>1. /\ TypeOK /\ UNCHANGED <<tables, policyRev, cmd, evidence>>
      /\ cmd[w].op \in LifecycleOps /\ cmd[w].op \notin PublicationOps /\ cmd[w].op # "create"
  <2>1. HandlerReferences(w)
    BY DEF Inv, StateInv, ReferencesExist
  <2>2. cmd[w].op \in LifecycleOps
    BY <2>1 DEF Lifecycle, LifeLookup, LifeKey, LifeSource, LifeLocators, LifePolicy,
                HandlerReferences
  <2> QED
    BY <2>2, Families DEF Inv, StateInv, Lifecycle, LifeLookup, LifeKey, LifeSource, LifeLocators,
                          LifePolicy, Unmoved, LifecycleOps
<1>2. \/ \E kind, seq : Reply(w, kind, seq)
      \/ \E label : Proceed(w, label) \/ Read(w, label)
      \/ /\ LifePolicy(w)
         /\ Write(w, NewEvent(w, Current(w), Content(w), LifecycleIntent(cmd[w])))
  BY DEF Lifecycle, LifeLookup, LifeKey, LifeSource, LifeLocators, LifePolicy
<1>3. ASSUME NEW kind, NEW seq, Reply(w, kind, seq)
      PROVE  StepInv'
  BY <1>1, <1>3, ReplyKeeps
<1>4. ASSUME NEW label, Proceed(w, label) \/ Read(w, label)
      PROVE  StepInv'
  BY <1>1, <1>4, ProceedKeeps
<1>5. CASE Write(w, NewEvent(w, Current(w), Content(w), LifecycleIntent(cmd[w])))
  <2>1. LifecycleIntent(cmd[w]) = "upsert" => Allowed(policyRev, cmd[w].target)
    BY DEF LifecycleIntent
  <2> QED
    BY <1>1, <1>5, <2>1, WriteKeeps
<1> QED
  BY <1>2, <1>3, <1>4, <1>5

LEMMA ConflictsKeepStep ==
    ASSUME Inv, StepInv, NEW w \in Writers, Conflicts(w)
    PROVE  StepInv'
<1>1. /\ TypeOK /\ UNCHANGED <<tables, policyRev, cmd, evidence>>
      /\ cmd[w].op \in ConflictOps /\ cmd[w].op \notin PublicationOps
      /\ cmd[w].op \notin {"create", "rename", "restore"}
  <2>1. HandlerReferences(w)
    BY DEF Inv, StateInv, ReferencesExist
  <2>2. cmd[w].op \in ConflictOps
    BY <2>1, Families DEF Conflicts, ConfReview, ConfKeyCapture, ConfKeyResolve, ConfRow, ConfSource,
                HandlerReferences
  <2>3. cmd[w].op \notin {"create", "rename", "restore"}
    BY <2>2 DEF ConflictOps, ResolveOps
  <2> QED
    BY <2>2, <2>3, Families DEF Inv, StateInv, Conflicts, ConfReview, ConfKeyCapture, ConfKeyResolve,
                          ConfRow, ConfSource, Unmoved
<1>r. ASSUME NEW kind, NEW seq, Reply(w, kind, seq)
      PROVE  StepInv'
  BY <1>1, <1>r, ReplyKeeps
<1>p. ASSUME NEW label, Proceed(w, label) \/ Read(w, label),
             label \in {"source", "conflict"} => ~Committed(cmd[w])
      PROVE  StepInv'
  BY <1>1, <1>p, ProceedKeeps
<1>w. ASSUME NEW version, NEW content, NEW intent,
             Write(w, NewEvent(w, version, content, intent))
      PROVE  StepInv'
  BY <1>1, <1>w, WriteKeeps
<1>2. CASE ConfReview(w)
  <2>1. Reply(w, "rejected", 0) \/ Reply(w, "denied", 0) \/ Read(w, "key")
    BY <1>2 DEF ConfReview
  <2> QED
    BY <2>1, <1>r, <1>p
<1>3. CASE ConfKeyCapture(w)
  <2>1. \/ Reply(w, "replayed", Receipt(cmd[w])) \/ Reply(w, "rejected", 0)
        \/ cmd[w].op = "capture" /\ conflicts[cmd[w].event] = None /\ Proceed(w, "source")
    BY <1>3 DEF ConfKeyCapture
  <2>2. cmd[w].op = "capture" /\ conflicts[cmd[w].event] = None => ~Committed(cmd[w])
    BY DEF StepInv, CapturesHaveRows, Committed
  <2> QED
    BY <2>1, <2>2, <1>r, <1>p
<1>4. CASE ConfKeyResolve(w)
  <2>1. \/ \E kind, seq : Reply(w, kind, seq)
        \/ cmd[w].op \in ResolveOps /\ Resolutions(cmd[w].event) = {} /\ Proceed(w, "conflict")
    BY <1>4 DEF ConfKeyResolve
  <2>2. cmd[w].op \in ResolveOps /\ Resolutions(cmd[w].event) = {} => ~Committed(cmd[w])
    BY DEF Resolutions, ByEvent, Committed
  <2> QED
    BY <2>1, <2>2, <1>r, <1>p
<1>5. CASE ConfRow(w)
  <2>1. Reply(w, "rejected", 0) \/ (pc[w] = "conflict" /\ Proceed(w, "source"))
    BY <1>5 DEF ConfRow
  <2>2. pc[w] = "conflict" => ~Committed(cmd[w])
    BY <1>1, Families DEF StepInv, NotYet
  <2> QED
    BY <2>1, <2>2, <1>r, <1>p
<1>6. CASE ConfSource(w)
  <2>1. \/ Reply(w, "rejected", 0)
        \/ \E version, content, intent : Write(w, NewEvent(w, version, content, intent))
    BY <1>6 DEF ConfSource, CaptureTransition, StaleSuccessor, Winner
  <2> QED
    BY <2>1, <1>r, <1>w
<1> QED
  BY <1>2, <1>3, <1>4, <1>5, <1>6 DEF Conflicts

\* Timeouts, broken connections, outcome lookups and dying handlers.
LEMMA FailuresKeepStep ==
    ASSUME Inv, StepInv, NEW w \in Writers, LockTimeout(w) \/ Recover(w) \/ Failure(w)
    PROVE  StepInv'
<1>0. TypeOK /\ HandlerReferences(w)
  BY DEF Inv, StateInv, ReferencesExist
<1>1. /\ UNCHANGED <<tables, policyRev, cmd, evidence>>
      /\ pending' = pending \/ pending' = [pending EXCEPT ![Tx(w)] = None]
  BY DEF LockTimeout, Recover, Failure, ConnLost, LookupLost, CommitLost, RecoverFails, Abandon,
         Reply, tables
<1>2. \A t \in Txns : pending'[t] = None \/ pending'[t] = pending[t]
  BY <1>0, <1>1 DEF TypeOK
<1>3. cmd[w].op \in PublicationOps /\ pc[w] \in InTransaction \cup {"review", "commit", "recover"}
        => pc[w] \in {"key", "policy", "source", "commit", "recover"}
  BY <1>0, Families DEF HandlerReferences, InTransaction
<1>4. \/ \E label \in {"done", "idle"} : pc' = [pc EXCEPT ![w] = label]
      \/ /\ pc[w] \in InTransaction \cup {"review", "commit", "recover"}
         /\ \E label \in {"key", "lookup", "recover"} : pc' = [pc EXCEPT ![w] = label]
  <2>1. Restart(cmd[w].op) \in {"key", "lookup"}
    BY DEF Restart
  <2> QED
    BY <2>1 DEF LockTimeout, Recover, Failure, ConnLost, LookupLost, CommitLost, RecoverFails,
                Abandon, Reply, Answer, Goto, Retry
<1>5. PICK label : /\ pc' = [pc EXCEPT ![w] = label]
                   /\ \/ label \in {"done", "idle"}
                      \/ /\ label \in {"key", "lookup", "recover"}
                         /\ pc[w] \in InTransaction \cup {"review", "commit", "recover"}
  BY <1>4
<1> QED
  BY <1>0, <1>1, <1>2, <1>3, <1>5, LabelKeeps

\* A commit shows nobody else's command: its key is locked by the transaction.
LEMMA ApplyKeepsStep ==
    ASSUME Inv, TableInv, StepInv, NEW t \in Txns, pending[t] # None, Apply(t),
           UNCHANGED <<policyRev, cmd, evidence>>,
           \A v \in Writers : pc'[v] = pc[v] \/ pc'[v] = "done"
    PROVE  StepInv'
<1> PICK e : e = pending[t]
  OBVIOUS
<1>0. /\ TypeOK /\ OrderInv /\ StateInv /\ PendingKnows(t) /\ RowsAreCommitted
      /\ e \in EventRecord /\ e.cmd \in Commands
  BY CommandOf DEF Inv, StateInv, TableInv, Knowledge, Tables
<1>1. /\ log' = Append(log, e) /\ conflicts' = ConflictsAfter(e)
      /\ pending' = [pending EXCEPT ![t] = None]
  BY DEF Apply
<1>2. /\ Len(log) \in Nat /\ Len(log') = Len(log) + 1 /\ log'[Len(log) + 1] = e
      /\ \A i \in 1..Len(log) : log'[i] = log[i]
      /\ \A i \in 1..Len(log') : i \in 1..Len(log) \/ (i = Len(log) + 1 /\ log'[i] = e)
  BY <1>0, <1>1 DEF TypeOK
<1>3. ASSUME NEW v \in Writers
      PROVE  EvidenceAllows(v)' /\ SourceAllowed(v)'
  BY DEF StepInv, EvidenceAllows, SourceAllowed
<1>4. ASSUME NEW v \in Writers
      PROVE  NotYet(v)'
  <2> SUFFICES ASSUME pc[v] \in {"source", "conflict"}, cmd[v].op \notin LifecycleOps,
                      Committed(cmd[v])'
               PROVE  FALSE
    BY DEF NotYet, Committed
  <2>1. PICK i \in 1..Len(log') : log'[i].cmd = cmd[v]
    BY DEF Committed
  <2>2. ~Committed(cmd[v]) /\ holder[KeyLock(cmd[v].key)] = Tx(v)
    BY DEF StepInv, NotYet, TableInv, Knowledge, HandlerKnows
  <2>3. e.cmd = cmd[v]
    BY <1>2, <2>1, <2>2 DEF Committed
  <2>4. holder[KeyLock(e.cmd.key)] = t
    BY <1>0 DEF PendingKnows, EventLocks
  <2>5. pending[Tx(v)] = None
    BY <1>0, RunningWroteNothing DEF Running, Labels
  <2> QED
    BY <2>2, <2>3, <2>4, <2>5
<1>5. ASSUME NEW u \in Txns, pending'[u] # None
      PROVE  Authorised(pending[u])'
  <2>1. pending'[u] = pending[u] /\ Authorised(pending[u])
    BY <1>0, <1>1, <1>5 DEF StepInv, TypeOK
  <2> QED
    BY <2>1 DEF Authorised, Deliverable
<1>6. CapturesHaveRows'
  <2>1. \A c \in Events : conflicts[c] # None => conflicts'[c] # None
    BY <1>0, ApplyIsCommitting, OtherConflicts
  <2>2. e.cmd.op = "capture" => conflicts'[e.cmd.event] # None
    <3>1. Conflict(e.cmd.source, e.content) \in ConflictRecord
      <4>1. e.content \in Contents \cup {None}
        BY <1>0 DEF EventRecord
      <4> QED
        BY <1>0, <4>1, EventFields DEF Conflict, ConflictRecord
    <3>2. e.cmd.event \in Events
      BY <1>0, EventFields
    <3>3. e.cmd.op = "capture" =>
            conflicts' = [conflicts EXCEPT ![e.cmd.event] = Conflict(e.cmd.source, e.content)]
      BY <1>1 DEF ConflictsAfter, ResolveOps
    <3>4. conflicts \in [Events -> {None} \cup ConflictRecord] /\ None \notin ConflictRecord
      BY <1>0, NoneAssumption DEF TypeOK
    <3> QED
      BY <3>1, <3>2, <3>3, <3>4
  <2>3. \A i \in 1..Len(log) : log[i].cmd.event \in Events
    BY <1>0, CommandOf, CommandFields
  <2> QED
    BY <1>2, <2>1, <2>2, <2>3 DEF StepInv, CapturesHaveRows
<1> QED
  BY <1>3, <1>4, <1>5, <1>6 DEF StepInv

LEMMA NextKeepsStep ==
    ASSUME Inv, TableInv, StepInv, [Next]_vars
    PROVE  StepInv'
<1>0. TypeOK /\ ReferencesExist
  BY DEF Inv, StateInv
<1>1. ASSUME NEW w \in Writers, NEW c \in Commands, Request(w, c)
      PROVE  StepInv'
  <2>1. FirstStep(c.op) \in {"preflight", "lookup", "review"}
    BY DEF FirstStep
  <2>2. /\ UNCHANGED <<tables, policyRev, pending>>
        /\ pc'[w] \in {"preflight", "lookup", "review"}
        /\ \A v \in Writers \ {w} : pc'[v] = pc[v] /\ cmd'[v] = cmd[v] /\ evidence'[v] = evidence[v]
    BY <1>0, <1>1, <2>1 DEF Request, TypeOK
  <2>3. EvidenceAllows(w)' /\ SourceAllowed(w)' /\ NotYet(w)'
    BY <2>2 DEF EvidenceAllows, SourceAllowed, NotYet
  <2> QED
    BY <1>0, <2>2, <2>3, HandlerKeeps
<1>2. ASSUME NEW w \in Writers, Commit(w)
      PROVE  StepInv'
  <2>1. /\ Tx(w) \in Txns /\ pending[Tx(w)] # None /\ Apply(Tx(w))
        /\ UNCHANGED <<policyRev, cmd, evidence>> /\ pc' = [pc EXCEPT ![w] = "done"]
    BY <1>0, <1>2, TxIsTxn DEF Commit, Answer, ReferencesExist, HandlerReferences
  <2>2. \A v \in Writers : pc'[v] = pc[v] \/ pc'[v] = "done"
    BY <1>0, <2>1 DEF TypeOK
  <2> QED
    BY <2>1, <2>2, ApplyKeepsStep
<1>3. ASSUME NEW t \in Txns, InDoubtCommit(t)
      PROVE  StepInv'
  BY <1>0, <1>3, ApplyKeepsStep DEF InDoubtCommit, ReferencesExist
<1>4. ASSUME NEW t \in Txns, InDoubtAbort(t)
      PROVE  StepInv'
  <2>1. /\ UNCHANGED <<tables, policyRev, pc, cmd, evidence>>
        /\ pending' = [pending EXCEPT ![t] = None]
    BY <1>4 DEF InDoubtAbort
  <2>2. \A u \in Txns : pending'[u] = None \/ pending'[u] = pending[u]
    BY <1>0, <2>1 DEF TypeOK
  <2>3. ASSUME NEW u \in Txns, pending'[u] # None
        PROVE  Authorised(pending[u])'
    BY <2>1, <2>2, <2>3 DEF StepInv, Authorised, Deliverable
  <2> QED
    BY <2>1, <2>3 DEF StepInv, CapturesHaveRows, EvidenceAllows, SourceAllowed, NotYet, Committed,
                      tables
<1>5. CASE PublishPolicy
  <2>1. /\ UNCHANGED <<tables, pending, pc, cmd, evidence>> /\ holder[PolicyRow] = None
    BY <1>5 DEF PublishPolicy, Free
  <2>2. \A t \in Txns : pending[t] # None => ~Deliverable(pending[t])
    BY <2>1, NoneIsNoTxn DEF Inv, OrderInv, LockDiscipline, PolicyRowHeld
  <2>3. \A w \in Writers : ~(pc[w] = "source" /\ cmd[w].op \in PublicationOps)
    BY <1>0, <2>1, NoneIsNoTxn, TxIsTxn DEF Inv, OrderInv, LockDiscipline, PolicyRowHeld
  <2>4. \A w \in Writers : SourceAllowed(w)'
    BY <2>1, <2>3 DEF SourceAllowed, PublicationOps
  <2>5. \A t \in Txns : pending'[t] # None => Authorised(pending[t])'
    BY <2>1, <2>2 DEF Authorised, Deliverable
  <2> QED
    BY <2>1, <2>4, <2>5 DEF StepInv, CapturesHaveRows, EvidenceAllows, NotYet, Committed, tables
<1>6. CASE UNCHANGED vars
  BY <1>6 DEF vars, tables, StepInv, CapturesHaveRows, EvidenceAllows, SourceAllowed, NotYet,
              Committed, Authorised, Deliverable
<1> QED
  BY <1>1, <1>2, <1>3, <1>4, <1>5, <1>6, PublicationKeepsStep, LifecycleKeepsStep,
     ConflictsKeepStep, FailuresKeepStep DEF Next, Progress, Decide

LEMMA InitStep ==
    ASSUME Init
    PROVE  StepInv
BY DEF Init, StepInv, CapturesHaveRows, EvidenceAllows, SourceAllowed, NotYet

\* What a handler has learnt and what an uncommitted event was written under stay
\* true until the transaction ends.
THEOREM StepInvHolds == Spec => []StepInv
<1>1. Init => StepInv
  BY InitStep
<1>2. Inv /\ TableInv /\ StepInv /\ [Next]_vars => StepInv'
  BY NextKeepsStep
<1> QED
  BY <1>1, <1>2, InvHolds, TableInvHolds, PTL DEF Spec

-------------------------------------------------------------------------------
(* Rejections.                                                             *)

\* An uncommitted event of a command excludes a committed one with its key or its
\* identity.
LEMMA SeenElsewhere ==
    ASSUME TableInv, NEW c, ByKey(c.key) # {} \/ ByEvent(c.event) # {}
    PROVE  ~Undecided(c)
BY DEF Undecided, TableInv, Knowledge, PendingKnows, Fresh

\* Nobody else can have an uncommitted event of a command whose key is free or held
\* by a transaction that has written nothing.
LEMMA LockedOut ==
    ASSUME Inv, TableInv, NEW w \in Writers, cmd[w] \in Commands, pc[w] \in Running,
           holder[KeyLock(cmd[w].key)] \in {None, Tx(w)}
    PROVE  ~Undecided(cmd[w])
<1> SUFFICES ASSUME NEW t \in Txns, pending[t] # None, pending[t].cmd = cmd[w]
             PROVE  FALSE
  BY DEF Undecided
<1>1. holder[KeyLock(cmd[w].key)] = t
  BY DEF TableInv, Knowledge, PendingKnows, EventLocks
<1>2. pending[Tx(w)] = None
  BY RunningWroteNothing DEF Inv, StateInv
<1> QED
  BY <1>1, <1>2, NoneIsNoTxn

\* Only the handler itself answers, and only in a step of its own.
LEMMA OwnAnswer ==
    ASSUME TypeOK, [Next]_vars, NEW w \in Writers, pc[w] # "done", pc'[w] = "done"
    PROVE  Progress(w) \/ Failure(w)
<1>1. ASSUME NEW v \in Writers, NEW c \in Commands, Request(v, c)
      PROVE  FALSE
  <2>1. FirstStep(c.op) # "done"
    BY DEF FirstStep
  <2> QED
    BY <1>1, <2>1 DEF Request, TypeOK
<1>2. ASSUME NEW v \in Writers, Progress(v) \/ Failure(v)
      PROVE  v = w
  <2>1. \E label : pc' = [pc EXCEPT ![v] = label]
    <3>1. CASE Publication(v) \/ Lifecycle(v) \/ Conflicts(v)
      BY <3>1 DEF Publication, Lifecycle, Conflicts, Preflight, PubKey, PubPolicy, PubSource,
                  CreateTransition, UpdateTransition, LifeLookup, LifeKey, LifeSource, LifeLocators,
                  LifePolicy, ConfReview, ConfKeyCapture, ConfKeyResolve, ConfRow, ConfSource,
                  CaptureTransition, StaleSuccessor, Winner, Reply, Read, Proceed, Write, Answer,
                  Goto
    <3>2. CASE Commit(v) \/ LockTimeout(v) \/ Recover(v) \/ Failure(v)
      BY <3>2 DEF Commit, LockTimeout, Recover, Failure, ConnLost, LookupLost, CommitLost,
                  RecoverFails, Abandon, Reply, Answer, Goto, Retry
    <3> QED
      BY <1>2, <3>1, <3>2 DEF Progress
  <2> QED
    BY <2>1 DEF TypeOK
<1>3. ASSUME NEW t \in Txns, Decide(t)
      PROVE  FALSE
  BY <1>3 DEF Decide, InDoubtCommit, InDoubtAbort
<1>4. CASE PublishPolicy \/ UNCHANGED vars
  BY <1>4 DEF PublishPolicy, vars
<1> QED
  BY <1>1, <1>2, <1>3, <1>4 DEF Next

\* A publication that is told "no" has found its key or identity used by another
\* command, or holds the lock of its key.
LEMMA PublicationRejects ==
    ASSUME Inv, TableInv, StepInv, NEW w \in Writers, cmd[w] \in Commands,
           Publication(w), Rejects(w)
    PROVE  ~Committed(cmd[w]) /\ ~Undecided(cmd[w])
<1>1. CASE Misused(cmd[w])
  BY <1>1, SeenElsewhere DEF Misused
<1>2. CASE ~Misused(cmd[w])
  <2>1. PubSource(w)
    <3>1. answer'[w].kind \in {"rejected", "error"} /\ pc'[w] = "done"
      BY DEF Rejects
    <3>2. ~Preflight(w)
      BY <1>2, <3>1 DEF Preflight, Reply, Answer, Read, Goto, Inv, StateInv, TypeOK
    <3>3. ~PubKey(w) /\ ~PubPolicy(w)
      BY <1>2, <3>1 DEF PubKey, PubPolicy, Reply, Proceed, Answer, Goto, Inv, StateInv, TypeOK
    <3> QED
      BY <3>2, <3>3 DEF Publication
  <2>2. pc[w] = "source" /\ cmd[w].op \in PublicationOps
    BY <2>1 DEF PubSource
  <2>3. ~Committed(cmd[w])
    BY <2>2, Families DEF StepInv, NotYet
  <2>4. holder[KeyLock(cmd[w].key)] = Tx(w)
    BY <2>2 DEF TableInv, Knowledge, HandlerKnows
  <2> QED
    BY <2>2, <2>3, <2>4, LockedOut DEF Running, Labels
<1> QED
  BY <1>1, <1>2

LEMMA ConflictsReject ==
    ASSUME Inv, TableInv, StepInv, NEW w \in Writers, cmd[w] \in Commands,
           Conflicts(w), Rejects(w)
    PROVE  ~Committed(cmd[w]) /\ ~Undecided(cmd[w])
<1> PICK c : c = cmd[w]
  OBVIOUS
<1>0. /\ TypeOK /\ ReferencesExist /\ Unique
      /\ answer'[w].kind \in {"rejected", "error"} /\ pc'[w] = "done"
      /\ pc \in [Writers -> Labels] /\ DOMAIN answer = Writers
  BY DEF Inv, StateInv, TypeOK, TableInv, Tables, Rejects
<1>r. ASSUME NEW kind, NEW seq, Reply(w, kind, seq)
      PROVE  kind \in {"rejected", "error"}
  BY <1>0, <1>r DEF Reply, Answer
<1>p. ASSUME NEW label, Proceed(w, label) \/ Read(w, label)
      PROVE  label = "done"
  BY <1>0, <1>p DEF Proceed, Read, Goto
<1>1. CASE ConfReview(w)
  <2>1. pc[w] = "review" /\ conflicts[c.conflict] = None
    <3>1. pc[w] = "review" /\ \/ conflicts[c.conflict] = None
                              \/ Reply(w, "denied", 0) \/ Read(w, "key")
      BY <1>1 DEF ConfReview
    <3> QED
      BY <3>1, <1>r, <1>p
  <2>2. c.op \in ResolveOps /\ c.conflict \in Events
    BY <1>0, <2>1, CommandFields DEF ReferencesExist, HandlerReferences
  <2>3. ~Committed(c)
    <3>1. Closing(c.conflict) = {}
      BY <2>1, <2>2 DEF TableInv, Tables, ConflictState
    <3> QED
      BY <2>2, <3>1 DEF Committed, Closing
  <2>4. ~Undecided(c)
    BY <1>0, <2>1, <2>2 DEF ReferencesExist, EventReferences, Undecided
  <2> QED
    BY <2>3, <2>4
<1>2. CASE ConfKeyCapture(w)
  <2>1. pc[w] = "key" /\ CanLock(w) /\ ~Committed(c)
    <3>1. /\ pc[w] = "key" /\ CanLock(w)
          /\ Reply(w, "replayed", Receipt(c)) \/ ~Committed(c) \/ Proceed(w, "source")
      BY <1>2 DEF ConfKeyCapture
    <3> QED
      BY <3>1, <1>r, <1>p
  <2>2. holder[KeyLock(c.key)] = None
    BY <2>1 DEF CanLock, Wanted, Free
  <2> QED
    BY <2>1, <2>2, LockedOut DEF Running, Labels
<1>3. CASE ConfKeyResolve(w)
  <2>1. /\ pc[w] = "key" /\ CanLock(w) /\ c.op \in ResolveOps
        /\ \/ \E i \in Resolutions(c.event) : log[i].cmd.key # c.key
           \/ Resolutions(c.event) = {}
    <3>1. /\ pc[w] = "key" /\ CanLock(w) /\ c.op \in ResolveOps
          /\ \/ \E i \in Resolutions(c.event) : log[i].cmd.key # c.key
             \/ \E seq : Reply(w, "replayed", seq)
             \/ Resolutions(c.event) = {}
      BY <1>3 DEF ConfKeyResolve
    <3> QED
      BY <3>1, <1>r
  <2>2. ~Committed(c)
    <3> SUFFICES ASSUME NEW j \in 1..Len(log), log[j].cmd = c
                 PROVE  FALSE
      BY DEF Committed
    <3>1. j \in Resolutions(c.event)
      BY <2>1 DEF Resolutions, ByEvent
    <3>2. PICK i \in Resolutions(c.event) : log[i].cmd.key # c.key
      BY <2>1, <3>1
    <3>3. i \in 1..Len(log) /\ log[i].cmd.event = c.event
      BY <3>2 DEF Resolutions, ByEvent
    <3> QED
      BY <1>0, <3>2, <3>3 DEF Unique
  <2>3. holder[KeyLock(c.key)] = None
    BY <2>1 DEF CanLock, Wanted, Free
  <2> QED
    BY <2>1, <2>2, <2>3, LockedOut DEF Running, Labels
<1>4. CASE ConfRow(w) \/ ConfSource(w)
  <2>1. pc[w] \in {"conflict", "source"} /\ c.op \in ConflictOps
    BY <1>0, <1>4, Families
       DEF ConfRow, ConfSource, ReferencesExist, HandlerReferences
  <2>2. ~Committed(c)
    BY <2>1, Families DEF StepInv, NotYet
  <2>3. holder[KeyLock(c.key)] = Tx(w)
    BY <2>1 DEF TableInv, Knowledge, HandlerKnows
  <2> QED
    BY <2>1, <2>2, <2>3, LockedOut DEF Running, Labels
<1> QED
  BY <1>1, <1>2, <1>3, <1>4 DEF Conflicts

\* Every other way to end is no rejection, but for a publication whose outcome
\* lookup finds its key or identity used by another command.
LEMMA OthersReject ==
    ASSUME Inv, TableInv, NEW w \in Writers, Rejects(w),
           Commit(w) \/ LockTimeout(w) \/ Recover(w) \/ Failure(w)
    PROVE  ~Committed(cmd[w]) /\ ~Undecided(cmd[w])
<1>0. /\ pc \in [Writers -> Labels] /\ DOMAIN answer = Writers
      /\ answer'[w].kind \in {"rejected", "error"} /\ pc'[w] = "done"
  BY DEF Inv, StateInv, TypeOK, Rejects
<1>1. ASSUME NEW kind, NEW seq, Answer(w, kind, seq)
      PROVE  kind \in {"rejected", "error"}
  BY <1>0, <1>1 DEF Answer
<1>2. ASSUME NEW label, Goto(w, label)
      PROVE  label = "done"
  BY <1>0, <1>2 DEF Goto
<1>3. \A op : Restart(op) \in {"key", "lookup"}
  BY DEF Restart
<1>4. ~Retry(w, "busy") /\ ~Retry(w, "unknown")
  BY <1>1, <1>2, <1>3 DEF Retry
<1>5. ~Commit(w) /\ ~LockTimeout(w)
  BY <1>1, <1>4 DEF Commit, LockTimeout
<1>6. ~Failure(w)
  <2>1. ~ConnLost(w) /\ ~CommitLost(w)
    BY <1>2 DEF ConnLost, CommitLost
  <2>2. ~LookupLost(w) /\ ~RecoverFails(w)
    BY <1>1 DEF LookupLost, RecoverFails, Reply
  <2>3. ~Abandon(w)
    BY <1>0 DEF Abandon
  <2> QED
    BY <2>1, <2>2, <2>3 DEF Failure
<1>7. Recover(w) => Misused(cmd[w])
  BY <1>1, <1>4 DEF Recover
<1> QED
  BY <1>5, <1>6, <1>7, SeenElsewhere DEF Misused

\* A publication or conflict command is told "no" for good only when it neither has
\* committed nor can still commit: not through another attempt of the same handler,
\* nor another handler, nor a COMMIT whose outcome is open.
THEOREM RejectionIsDefiniteHolds == Spec => RejectionIsDefinite
<1>1. ASSUME Inv, TableInv, StepInv, [Next]_vars, NEW w \in Writers, Rejects(w),
             cmd[w].op \notin LifecycleOps
      PROVE  ~Committed(cmd[w]) /\ ~Undecided(cmd[w])
  <2>1. TypeOK /\ pc[w] # "done" /\ pc'[w] = "done"
    BY <1>1 DEF Inv, StateInv, Rejects
  <2>2. Progress(w) \/ Failure(w)
    BY <1>1, <2>1, OwnAnswer
  <2>3. pc[w] # "idle"
    BY <2>2 DEF Progress, Publication, Lifecycle, Conflicts, Preflight, PubKey, PubPolicy,
                PubSource, LifeLookup, LifeKey, LifeSource, LifeLocators, LifePolicy, ConfReview,
                ConfKeyCapture, ConfKeyResolve, ConfRow, ConfSource, Commit, LockTimeout,
                InTransaction, Recover, Failure, ConnLost, LookupLost, CommitLost, RecoverFails,
                Abandon
  <2>4. cmd[w] \in Commands
    BY <1>1, <2>3, CommandOf DEF Inv
  <2>5. ~Lifecycle(w)
    BY <1>1 DEF Inv, StateInv, ReferencesExist, HandlerReferences, Lifecycle, LifeLookup, LifeKey,
                LifeSource, LifeLocators, LifePolicy
  <2> QED
    BY <1>1, <2>2, <2>4, <2>5, PublicationRejects, ConflictsReject, OthersReject DEF Progress
<1>2. Inv /\ TableInv /\ StepInv /\ [Next]_vars =>
        [\A w \in Writers : Rejects(w) /\ cmd[w].op \notin LifecycleOps =>
           ~Committed(cmd[w]) /\ ~Undecided(cmd[w])]_vars
  BY <1>1
<1> QED
  BY <1>2, InvHolds, TableInvHolds, StepInvHolds, PTL DEF Spec, RejectionIsDefinite

-------------------------------------------------------------------------------
(* Commits.                                                                *)

\* Only the commit of a transaction makes the log longer.
LEMMA OnlyApplyPublishes ==
    ASSUME Inv, [Next]_vars, Len(log') > Len(log)
    PROVE  \E t \in Txns : pending[t] # None /\ Apply(t)
<1>0. TypeOK /\ ReferencesExist
  BY DEF Inv, StateInv
<1>1. log' # log
  BY <1>0 DEF TypeOK
<1>2. ASSUME NEW w \in Writers, Publication(w) \/ Lifecycle(w) \/ Conflicts(w)
      PROVE  FALSE
  BY <1>1, <1>2 DEF Publication, Lifecycle, Conflicts, Preflight, PubKey, PubPolicy, PubSource,
              LifeLookup, LifeKey, LifeSource, LifeLocators, LifePolicy, ConfReview,
              ConfKeyCapture, ConfKeyResolve, ConfRow, ConfSource, Unmoved, tables
<1>3. ASSUME NEW w \in Writers, LockTimeout(w) \/ Recover(w) \/ Failure(w)
      PROVE  FALSE
  BY <1>1, <1>3 DEF LockTimeout, Recover, Failure, ConnLost, LookupLost, CommitLost, RecoverFails,
              Abandon, tables
<1>4. ASSUME NEW w \in Writers, NEW c \in Commands, Request(w, c)
      PROVE  FALSE
  BY <1>1, <1>4 DEF Request, tables
<1>5. ~PublishPolicy /\ ~UNCHANGED vars
  BY <1>1 DEF PublishPolicy, vars, tables
<1>6. ASSUME NEW w \in Writers, Commit(w)
      PROVE  \E t \in Txns : pending[t] # None /\ Apply(t)
  BY <1>0, <1>6, TxIsTxn DEF Commit, ReferencesExist, HandlerReferences
<1>7. ASSUME NEW t \in Txns, Decide(t)
      PROVE  pending[t] # None /\ Apply(t)
  BY <1>0, <1>1, <1>7 DEF Decide, InDoubtCommit, InDoubtAbort, ReferencesExist, tables
<1> QED
  BY <1>2, <1>3, <1>4, <1>5, <1>6, <1>7 DEF Next, Progress

\* A deliverable event commits, in time or in doubt, under the revision that
\* authorised it, and what it publishes or projects is allowed by that revision.
THEOREM AuthorisedAtCommitHolds == Spec => AuthorisedAtCommit
<1>1. ASSUME Inv, StepInv, [Next]_vars, Len(log') > Len(log)
      PROVE  Authorised(log'[Len(log')])
  <2>1. PICK t \in Txns : pending[t] # None /\ Apply(t)
    BY <1>1, OnlyApplyPublishes
  <2>2. log' = Append(log, pending[t]) /\ log \in Seq(EventRecord)
    BY <1>1, <2>1 DEF Apply, Inv, StateInv, TypeOK
  <2>3. log'[Len(log')] = pending[t]
    BY <2>2
  <2> QED
    BY <1>1, <2>1, <2>3 DEF StepInv
<1>2. Inv /\ StepInv /\ [Next]_vars =>
        [Len(log') > Len(log) =>
           LET e == log'[Len(log')] IN
           Deliverable(e) =>
              /\ e.rev = policyRev
              /\ e.cmd.op \in {"create", "rename", "restore"} /\ e.intent = "upsert"
                   => Allowed(policyRev, e.cmd.target)]_vars
  BY <1>1 DEF Authorised
<1> QED
  BY <1>2, InvHolds, StepInvHolds, PTL DEF Spec, AuthorisedAtCommit
===============================================================================
