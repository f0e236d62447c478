---------------------------- MODULE PolicyProofs ----------------------------
(***************************************************************************)
(* The two halves of an exclusion policy's way to the sources: from the    *)
(* draft to a published revision (PolicyPublishing), and from the revision *)
(* to every source (PolicyReconciliation).                                 *)
(*                                                                         *)
(* The scan, first: for every set of sources and dispatchers, every page   *)
(* size and bound, no source without a tombstone was passed over when the  *)
(* scan says it is complete, and what it wrote down about a source is true *)
(* of the event it names.  Nothing is locked between the read of a page    *)
(* and its commit, and the page, the batch and the whole workflow may be   *)
(* repeated.  So the invariant says of a plan that is not written yet what *)
(* it may still rely on ("PlanTrue"), and of a page which sources it       *)
(* leaves to a later one ("Ahead").  That an intent is stuck only when an  *)
(* attempt was lost needs the acknowledgement a dispatcher is about to     *)
(* send ("Promised").                                                      *)
(*                                                                         *)
(* The publication, second: a revision is what its preview showed, however *)
(* the draft, the active revision and the sources move in between.  The    *)
(* request looks at versions, hashes and a count of events; "RowTrue" says *)
(* why that is enough.                                                     *)
(***************************************************************************)
EXTENDS PolicyReconciliation, FiniteSetTheorems, WellFoundedInduction, TLAPS

Decisions == {"allowed", "excluded"}
Transitions == {"unchanged", "to_excluded", "to_allowed"}
States == {"none", "pending", "leased", "dispatched", "terminal"}
SourceRow == [class : Classes, sequence : Nat, under : Nat, gone : BOOLEAN]
Evaluation == [rev : Revisions, source : Sources, sequence : Nat, decision : Decisions]
Item == [source : Sources, sequence : Nat, decision : Decisions, transition : Transitions]
Ended == [status : {"none", "failing", "failed", "completed"}]
Scanning == [status : {"running"}, pc : {"scan", "complete"}, after : Nat, attempt : Nat]
Planning == [status : {"running"}, pc : {"planned", "checked"}, after : Nat, attempt : Nat,
             plan : SUBSET Item]
Flow == Ended \union Scanning \union Planning

Types ==
    /\ rules \in Seq(SUBSET Classes) /\ Len(rules) <= MaxRevision
    /\ sources \in [Sources -> SourceRow]
    /\ evaluations \subseteq Evaluation
    /\ intents \in [Revisions -> [state : States, token : Dispatchers \union {0}]]
    /\ audits \subseteq 1 .. Active
    /\ leases \in [Dispatchers -> [rev : 0 .. MaxRevision,
                                   step : {"none", "start", "acknowledge"}]]
    /\ flows \in [Revisions -> Flow]

\* Only a published revision has an intent, a workflow or a dispatcher at work.
RowsKept ==
    /\ \A n \in Revisions : IF n <= Active THEN IntentRow(intents[n]) ELSE intents[n] = NoIntent
    /\ \A n \in Revisions : flows[n].status # "none" => n <= Active
    /\ \A d \in Dispatchers : leases[d] # NoLease => leases[d].rev \in 1 .. Active

EvaluationKept(e) ==
    /\ EvaluationRow(e)
    /\ e.sequence <= sources[e.source].sequence
    /\ e.sequence = sources[e.source].sequence
          => e.decision = Evaluate(e.rev, sources[e.source].class)
EvaluationsKept == \A e \in evaluations : EvaluationKept(e)

HasPlan(n) == flows[n].status = "running" /\ flows[n].pc \in {"planned", "checked"}

\* What a plan says is true of the event it names, and agrees with what an
\* earlier attempt may have written about that event.
ItemTrue(n, item) ==
    /\ item.sequence \in 1 .. sources[item.source].sequence
    /\ item.sequence = sources[item.source].sequence
          => item.decision = Evaluate(n, sources[item.source].class)
    /\ \A e \in Recorded(n, item.source) :
          e.sequence = item.sequence => e.decision = item.decision
PlanTrue(n) ==
    /\ \A item \in flows[n].plan : ItemTrue(n, item)
    /\ \A item, other \in flows[n].plan : other.source = item.source => other = item

Covered(n, s) == Present(s) => Recorded(n, s) # {} \/ sources[s].under >= n
InPlan(n, s) == \E item \in flows[n].plan : item.source = s
Ahead(n, s) == HasMore(n) /\ \A item \in flows[n].plan : item.source < s

\* A running scan has covered what lies behind it, and its plan and the pages
\* after it cover the rest.
ScanCovers(n) ==
    /\ \A s \in Sources : (s <= flows[n].after \/ flows[n].pc = "complete") => Covered(n, s)
    /\ HasPlan(n) => \A s \in Sources : Covered(n, s) \/ InPlan(n, s) \/ Ahead(n, s)

FlowTrue(n) ==
    flows[n].status = "running" => ScanCovers(n) /\ (HasPlan(n) => PlanTrue(n))
FlowsTrue == \A n \in Revisions : FlowTrue(n)
AuditsTrue == \A n \in audits, s \in Sources : Covered(n, s)

\* The intent is dispatched, or a dispatcher that still holds it will say so.
Promised(n) ==
    \/ intents[n].state = "dispatched"
    \/ \E d \in Dispatchers : leases[d] = [rev |-> n, step |-> "acknowledge"] /\ HoldsLease(n, d)
LossKept ==
    \A n \in Revisions : Promised(n) /\ flows[n].status \in {"failing", "failed"} => n \in lost

ScanInv ==
    Types /\ RowsKept /\ EvaluationsKept /\ FlowsTrue /\ AuditsTrue /\ LossKept

-------------------------------------------------------------------------------
(* Pages.                                                                  *)

\* A bounded set of numbers that has an element has a greatest one.
LEMMA GreatestExists ==
    ASSUME NEW S, S \subseteq Nat, S # {}, NEW b \in Nat, \A x \in S : x <= b
    PROVE  Max(S) \in S /\ \A x \in S : x <= Max(S)
<1> DEFINE T == {b - x : x \in S}
<1>1. T \subseteq Nat /\ T # {}
  OBVIOUS
<1>2. PICK d \in T : \A y \in T : <<y, d>> \notin OpToRel(<, Nat)
  BY <1>1, NatLessThanWellFounded, WFMin
<1>3. PICK m \in S : d = b - m
  OBVIOUS
<1>4. \A x \in S : x <= m
  <2> TAKE x \in S
  <2>1. ~(b - x < b - m)
    BY <1>1, <1>2, <1>3 DEF OpToRel
  <2> QED BY <2>1
<1>5. \E n \in S : \A x \in S : n >= x
  BY <1>4
<1> QED BY <1>5 DEF Max

\* A finite set of numbers that has an element has a greatest one: the element
\* with the most elements below it.
LEMMA FiniteGreatest ==
    ASSUME NEW S, S \subseteq Nat, S # {}, IsFiniteSet(S)
    PROVE  Max(S) \in S /\ \A x \in S : x <= Max(S)
<1> DEFINE Below(s) == {r \in S : r < s}
           Rank(s) == Cardinality(Below(s))
           Ranks == {Rank(s) : s \in S}
<1>1. \A s : \A r : r \in Below(s) <=> r \in S /\ r < s
  OBVIOUS
<1>2. \A s : IsFiniteSet(Below(s)) /\ Rank(s) \in Nat /\ Rank(s) <= Cardinality(S)
  <2> TAKE s
  <2>1. IsFiniteSet(Below(s)) /\ Cardinality(Below(s)) <= Cardinality(S)
    BY FS_Subset
  <2> QED BY <2>1, FS_CardinalityType
<1>3. \A s, p : Below(s) \subseteq Below(p) =>
         Rank(s) <= Rank(p) /\ (Rank(s) = Rank(p) => Below(s) = Below(p))
  <2> TAKE s, p
  <2> SUFFICES ASSUME Below(s) \subseteq Below(p)
               PROVE  Rank(s) <= Rank(p) /\ (Rank(s) = Rank(p) => Below(s) = Below(p))
    OBVIOUS
  <2>1. IsFiniteSet(Below(p))
    BY <1>2
  <2>2. Below(s) \in SUBSET Below(p)
    OBVIOUS
  <2> HIDE DEF Below
  <2> QED BY <2>1, <2>2, FS_Subset
<1>4. Cardinality(S) \in Nat
  BY FS_CardinalityType
<1> HIDE DEF Below, Rank
<1>5. Ranks \subseteq Nat /\ Ranks # {} /\ \A k \in Ranks : k <= Cardinality(S)
  BY <1>2
<1>6. Max(Ranks) \in Ranks /\ \A k \in Ranks : k <= Max(Ranks)
  <2> HIDE DEF Ranks
  <2> QED BY <1>4, <1>5, GreatestExists
<1>7. PICK top \in S : \A s \in S : Rank(s) <= Rank(top)
  BY <1>6
<1>8. ASSUME NEW p \in S PROVE p <= top
  <2>1. p \in Nat /\ top \in Nat
    OBVIOUS
  <2>2. SUFFICES ASSUME p > top PROVE FALSE
    BY <2>1
  <2>3. ASSUME NEW r \in Below(top) PROVE r \in Below(p)
    <3>1. r \in S /\ r < top
      BY <1>1
    <3>2. r \in Nat
      BY <3>1
    <3>3. r < p
      BY <3>1, <3>2, <2>1, <2>2
    <3> QED BY <3>1, <3>3, <1>1
  <2>4. top \in Below(p)
    BY <2>1, <2>2, <1>1
  <2>5. top \notin Below(top)
    <3>1. ~(top < top)
      BY <2>1
    <3> QED BY <3>1, <1>1
  <2>6. Rank(top) # Rank(p) /\ Rank(top) <= Rank(p)
    BY <2>3, <2>4, <2>5, <1>3
  <2> QED BY <2>6, <1>2, <1>7
<1>9. \A x \in S : x <= top
  BY <1>8
<1> QED BY <1>9, GreatestExists

\* A set of numbers that has an element has a least one.
LEMMA LeastExists ==
    ASSUME NEW S, S \subseteq Nat, S # {}
    PROVE  \E m \in S : \A x \in S : m <= x
<1>1. \E m \in S : \A y \in S : <<y, m>> \notin OpToRel(<, Nat)
  BY NatLessThanWellFounded, WFMin
<1>2. PICK m \in S : \A y \in S : <<y, m>> \notin OpToRel(<, Nat)
  BY <1>1
<1>3. \A x \in S : m <= x
  <2> TAKE x \in S
  <2>1. x \in Nat /\ m \in Nat
    OBVIOUS
  <2>2. ~(x < m)
    BY <2>1, <1>2 DEF OpToRel
  <2> QED BY <2>1, <2>2
<1> QED BY <1>3

\* A page lies below everything it leaves out, and it is full when it leaves
\* anything out.
LEMMA FirstIsPage ==
    ASSUME NEW rest, rest \subseteq Nat, IsFiniteSet(rest)
    PROVE  /\ First(rest) \subseteq rest
           /\ IsFiniteSet(First(rest))
           /\ \A s \in rest \ First(rest) :
                 /\ Cardinality(First(rest)) = PageSize
                 /\ \A p \in First(rest) : p < s
           /\ First(rest) = {} => rest = {}
<1> DEFINE P == First(rest)
           Below(s) == {r \in rest : r < s}
           Rank(s) == Cardinality(Below(s))
<1>1. P \subseteq rest /\ \A s \in rest : s \in P <=> Rank(s) < PageSize
  BY DEF First
<1>2. \A s : \A r : r \in Below(s) <=> r \in rest /\ r < s
  OBVIOUS
<1>3. \A s : IsFiniteSet(Below(s)) /\ Rank(s) \in Nat
  <2> TAKE s
  <2>1. IsFiniteSet(Below(s))
    BY FS_Subset
  <2> QED BY <2>1, FS_CardinalityType
<1>4. \A s, p : Below(s) \subseteq Below(p) =>
         Rank(s) <= Rank(p) /\ (Rank(s) = Rank(p) => Below(s) = Below(p))
  <2> TAKE s, p
  <2> SUFFICES ASSUME Below(s) \subseteq Below(p)
               PROVE  Rank(s) <= Rank(p) /\ (Rank(s) = Rank(p) => Below(s) = Below(p))
    OBVIOUS
  <2>1. IsFiniteSet(Below(p))
    BY <1>3
  <2>2. Below(s) \in SUBSET Below(p)
    OBVIOUS
  <2> HIDE DEF Below
  <2> QED BY <2>1, <2>2, FS_Subset
<1>5. \A s : Cardinality(Below(s) \union {s}) = Rank(s) + 1 /\ IsFiniteSet(Below(s) \union {s})
  <2> TAKE s
  <2>1. s \notin Below(s)
    <3>1. s \in rest => s \in Nat
      OBVIOUS
    <3> QED BY <3>1
  <2>2. IsFiniteSet(Below(s))
    BY <1>3
  <2> HIDE DEF Below
  <2> QED BY <2>1, <2>2, FS_AddElement
<1>6. IsFiniteSet(P) /\ Cardinality(P) \in Nat
  <2>1. IsFiniteSet(P)
    BY <1>1, FS_Subset
  <2> QED BY <2>1, FS_CardinalityType
<1>7. PageSize \in Nat /\ PageSize > 0
  BY PageSizeAssumption
<1> HIDE DEF P, Below, Rank
<1>8. ASSUME NEW s \in rest \ P, NEW p \in P PROVE p < s
  <2>1. s \in rest /\ p \in rest /\ s \in Nat /\ p \in Nat
    BY <1>1
  <2>2. SUFFICES ASSUME s <= p PROVE FALSE
    BY <2>1
  <2>3. Below(s) \subseteq Below(p)
    <3> SUFFICES ASSUME NEW r \in Below(s) PROVE r \in Below(p)
      OBVIOUS
    <3>1. r \in rest /\ r < s
      BY <1>2
    <3>2. r \in Nat
      BY <3>1
    <3>3. r < p
      BY <3>1, <3>2, <2>1, <2>2
    <3> QED BY <3>1, <3>3, <1>2
  <2>4. Rank(s) <= Rank(p)
    BY <2>3, <1>4
  <2> QED BY <2>1, <2>4, <1>1, <1>3, <1>7
<1>9. ASSUME rest \ P # {} PROVE Cardinality(P) >= PageSize
  <2>1. rest \ P \subseteq Nat
    OBVIOUS
  <2>2. PICK m \in rest \ P : \A x \in rest \ P : m <= x
    BY <1>9, <2>1, LeastExists
  <2>3. ASSUME NEW r \in Below(m) PROVE r \in P
    <3>1. r \in rest /\ r < m
      BY <1>2
    <3>2. r \in Nat /\ m \in Nat
      BY <3>1
    <3>3. ~(m <= r)
      BY <3>1, <3>2
    <3> QED BY <3>1, <3>3, <2>2
  <2>4. Below(m) = P
    BY <2>3, <1>1, <1>2, <1>8
  <2>5. ~(Rank(m) < PageSize)
    BY <1>1
  <2> QED BY <2>4, <2>5, <1>3, <1>7 DEF Rank
<1>10. Cardinality(P) <= PageSize
  <2>1. CASE P = {}
    BY <2>1, <1>7, FS_EmptySet
  <2>2. CASE P # {}
    <3>1. P \subseteq Nat
      BY <1>1
    <3>2. Max(P) \in P /\ \A p \in P : p <= Max(P)
      BY <2>2, <3>1, <1>6, FiniteGreatest
    <3>3. PICK top \in P : \A p \in P : p <= top
      BY <3>2
    <3>4. P \subseteq Below(top) \union {top}
      <4> SUFFICES ASSUME NEW p \in P, p # top PROVE p \in Below(top)
        OBVIOUS
      <4>1. p \in Nat /\ top \in Nat /\ p \in rest
        BY <1>1
      <4> QED BY <4>1, <3>3, <1>2
    <3>5. Cardinality(P) <= Cardinality(Below(top) \union {top})
      BY <3>4, <1>5, FS_Subset
    <3>6. Rank(top) < PageSize
      BY <1>1
    <3> QED BY <3>5, <3>6, <1>3, <1>5, <1>6, <1>7
  <2> QED BY <2>1, <2>2
<1>11. ASSUME P = {} PROVE rest = {}
  <2>1. rest # {} => PageSize <= 0
    BY <1>9, <1>11, FS_EmptySet
  <2> QED BY <2>1, <1>7
<1>12. \A s \in rest \ P : Cardinality(P) = PageSize /\ \A p \in P : p < s
  BY <1>6, <1>7, <1>8, <1>9, <1>10
<1> QED BY <1>1, <1>6, <1>11, <1>12 DEF P

-------------------------------------------------------------------------------
(* Shapes.                                                                 *)

LEMMA RevisionsAre == MaxRevision \in Nat /\ Revisions \subseteq Nat /\ Sources \subseteq Nat
  BY BoundsAssumption, SourcesAssumption DEF Revisions

\* What the status and the place of a workflow say about its record.
LEMMA FlowFields ==
    ASSUME NEW f \in Flow
    PROVE  /\ f.status \in {"none", "running", "failing", "failed", "completed"}
           /\ f.status = "running" =>
                /\ f.pc \in {"scan", "complete", "planned", "checked"}
                /\ f.after \in Nat /\ f.attempt \in Nat
           /\ f.status = "running" /\ f.pc \in {"planned", "checked"} => f.plan \subseteq Item
<1>1. CASE f \in Ended
  BY <1>1 DEF Ended
<1>2. CASE f \in Scanning
  BY <1>2 DEF Scanning
<1>3. CASE f \in Planning
  BY <1>3 DEF Planning
<1> QED BY <1>1, <1>2, <1>3 DEF Flow

\* What is decided about an evaluation under a revision stays so when another
\* one is published.
LEMMA AppendKeeps ==
    ASSUME rules \in Seq(SUBSET Classes), NEW excluded \in RuleSets,
           rules' = Append(rules, excluded)
    PROVE  /\ rules' \in Seq(SUBSET Classes)
           /\ Active \in Nat /\ Active' = Active + 1
           /\ \A n \in 1 .. Active : rules'[n] = rules[n]
<1>1. excluded \in SUBSET Classes
  BY DEF RuleSets, Classes
<1> QED BY <1>1 DEF Active

LEMMA InitHolds == Init => ScanInv
<1> SUFFICES ASSUME Init PROVE ScanInv
  OBVIOUS
<1>1. rules = <<>> /\ Active = 0
  BY DEF Init, Active
<1>2. {NoSource, OldSource, OldTombstone} \subseteq SourceRow
  BY DEF NoSource, OldSource, OldTombstone, SourceRow, Classes
<1>3. sources \in [Sources -> SourceRow]
  BY <1>2 DEF Init
<1>4. NoFlow \in Flow /\ NoFlow.status = "none"
  BY DEF NoFlow, Flow, Ended
<1>5. flows \in [Revisions -> Flow] /\ \A n \in Revisions : flows[n].status = "none"
  BY <1>4 DEF Init
<1>6. Types
  BY <1>1, <1>3, <1>5, BoundsAssumption
     DEF Init, Types, States, NoIntent, NoLease
<1>7. RowsKept
  BY <1>1, <1>5, RevisionsAre DEF Init, RowsKept, NoLease, Revisions
<1>8. EvaluationsKept /\ AuditsTrue
  BY DEF Init, EvaluationsKept, AuditsTrue
<1>9. FlowsTrue /\ LossKept
  BY <1>5 DEF FlowsTrue, FlowTrue, LossKept
<1> QED BY <1>6, <1>7, <1>8, <1>9 DEF ScanInv

-------------------------------------------------------------------------------
(* Publication and source writes.                                          *)

LEMMA PublishKeeps ==
    ASSUME ScanInv, PublishRevision PROVE ScanInv'
<1> USE RevisionsAre
<1>1. PICK excluded \in RuleSets : rules' = Append(rules, excluded)
  BY DEF PublishRevision
<1>2. /\ rules' \in Seq(SUBSET Classes)
      /\ Active \in Nat /\ Active' = Active + 1
      /\ \A n \in 1 .. Active : rules'[n] = rules[n]
  BY <1>1, AppendKeeps DEF ScanInv, Types
<1>3. /\ Active < MaxRevision /\ Active + 1 \in Revisions
      /\ intents' = [intents EXCEPT ![Active + 1] = NewIntent]
      /\ UNCHANGED <<sources, evaluations, transitions, audits, leases, flows, lost>>
  BY <1>2 DEF PublishRevision, resultVars, Revisions
<1>4. /\ intents \in [Revisions -> [state : States, token : Dispatchers \union {0}]]
      /\ NewIntent \in [state : States, token : Dispatchers \union {0}]
  BY DEF ScanInv, Types, NewIntent, States
<1>5. /\ intents'[Active + 1] = NewIntent
      /\ \A n \in Revisions : n # Active + 1 => intents'[n] = intents[n]
      /\ intents' \in [Revisions -> [state : States, token : Dispatchers \union {0}]]
  BY <1>3, <1>4
<1>6. Types'
  <2>1. Len(rules)' <= MaxRevision
    BY <1>2, <1>3 DEF Active
  <2>2. audits' \subseteq (1 .. Active)'
    BY <1>2, <1>3 DEF ScanInv, Types
  <2> QED BY <1>2, <1>3, <1>5, <2>1, <2>2 DEF ScanInv, Types
<1>7. RowsKept'
  <2>1. IntentRow(NewIntent)
    BY DispatchersAssumption DEF IntentRow, NewIntent
  <2>2. ASSUME NEW n \in Revisions
        PROVE  IF n <= Active' THEN IntentRow(intents'[n]) ELSE intents'[n] = NoIntent
    <3>1. CASE n = Active + 1
      BY <3>1, <2>1, <1>2, <1>5
    <3>2. CASE n # Active + 1
      BY <3>2, <1>2, <1>5 DEF ScanInv, RowsKept
    <3> QED BY <3>1, <3>2
  <2>3. ASSUME NEW n \in Revisions, flows'[n].status # "none" PROVE n <= Active'
    <3>1. n \in Nat /\ n <= Active
      BY <2>3, <1>3 DEF ScanInv, RowsKept
    <3> QED BY <3>1, <1>2
  <2>4. \A d \in Dispatchers : leases'[d] # NoLease => leases'[d].rev \in 1 .. Active'
    BY <1>2, <1>3 DEF ScanInv, RowsKept
  <2> QED BY <2>2, <2>3, <2>4 DEF RowsKept, IntentRow
<1>8. \A n \in 1 .. Active : \A class : Evaluate(n, class)' = Evaluate(n, class)
  BY <1>2 DEF Evaluate
<1>9. EvaluationsKept'
  <2> SUFFICES ASSUME NEW e \in evaluations PROVE EvaluationKept(e)'
    BY <1>3 DEF EvaluationsKept
  <2>1. EvaluationKept(e) /\ e.rev \in 1 .. Active
    BY DEF ScanInv, EvaluationsKept, EvaluationKept, EvaluationRow
  <2>2. EvaluationRow(e)'
    BY <2>1, <1>2, <1>3 DEF EvaluationKept, EvaluationRow
  <2> QED BY <2>1, <2>2, <1>3, <1>8 DEF EvaluationKept
<1>10. FlowsTrue'
  <2> SUFFICES ASSUME NEW n \in Revisions, flows[n].status = "running"
               PROVE  ScanCovers(n)' /\ (HasPlan(n)' => PlanTrue(n)')
    BY <1>3 DEF FlowsTrue, FlowTrue
  <2>1. n \in 1 .. Active /\ FlowTrue(n)
    BY <1>2 DEF ScanInv, RowsKept, FlowsTrue, Revisions
  <2>2. ScanCovers(n)'
    BY <2>1, <1>3 DEF FlowTrue, ScanCovers, Covered, Present, Exists, Recorded, HasPlan,
       InPlan, Ahead, HasMore
  <2>3. HasPlan(n)' => PlanTrue(n)'
    BY <2>1, <1>3, <1>8 DEF FlowTrue, HasPlan, PlanTrue, ItemTrue, Recorded
  <2> QED BY <2>2, <2>3
<1>11. AuditsTrue'
  BY <1>3 DEF ScanInv, AuditsTrue, Covered, Present, Exists, Recorded
<1>12. LossKept'
  <2> SUFFICES ASSUME NEW n \in Revisions, Promised(n)', flows[n].status \in {"failing", "failed"}
               PROVE  n \in lost
    BY <1>3 DEF LossKept
  <2>1. n # Active + 1
    BY <1>2 DEF ScanInv, RowsKept
  <2>2. Promised(n)
    BY <2>1, <1>3, <1>5 DEF Promised, HoldsLease
  <2> QED BY <2>2 DEF ScanInv, LossKept
<1> QED BY <1>6, <1>7, <1>9, <1>10, <1>11, <1>12 DEF ScanInv

\* A write makes what was read of the source old, and decides about it under the
\* active revision, which is at least as late as that of any scan.
LEMMA WrittenKeeps ==
    ASSUME ScanInv, NEW s \in Sources, NEW class \in Classes, NEW gone \in BOOLEAN,
           Written(s, class, gone),
           UNCHANGED <<rules, resultVars, intents, leases, flows, lost>>
    PROVE  ScanInv'
<1> USE RevisionsAre
<1>1. UNCHANGED <<rules, evaluations, transitions, audits, intents, leases, flows, lost>>
  BY DEF resultVars
<1>2. Active \in Nat /\ Active' = Active
  BY <1>1 DEF ScanInv, Types, Active
<1>3. \A r \in Sources : sources[r] \in SourceRow
  BY DEF ScanInv, Types
<1>4. /\ sources'[s] = [class |-> class, sequence |-> sources[s].sequence + 1,
                        under |-> Active, gone |-> gone]
      /\ \A r \in Sources : r # s => sources'[r] = sources[r]
      /\ DOMAIN sources' = Sources
  BY DEF ScanInv, Types, Written
<1>5. \A r \in Sources : sources[r].sequence \in Nat /\ sources'[r].sequence \in Nat
  BY <1>3, <1>4 DEF SourceRow
<1>6. sources'[s].sequence = sources[s].sequence + 1 /\ sources'[s].under = Active
  BY <1>4
<1>7. Types'
  <2>1. sources' \in [Sources -> SourceRow]
    <3>1. sources'[s] \in SourceRow
      BY <1>2, <1>4, <1>5 DEF SourceRow
    <3>2. \A r \in Sources : sources'[r] \in SourceRow
      BY <3>1, <1>3, <1>4
    <3>3. sources' = [r \in Sources |-> sources'[r]]
      BY <1>4 DEF Written, ScanInv, Types
    <3> QED BY <3>2, <3>3
  <2> QED BY <2>1, <1>1, <1>2 DEF ScanInv, Types
<1>8. RowsKept'
  BY <1>1, <1>2 DEF ScanInv, RowsKept, IntentRow
<1>9. EvaluationsKept'
  <2> SUFFICES ASSUME NEW e \in evaluations PROVE EvaluationKept(e)'
    BY <1>1 DEF EvaluationsKept
  <2>1. EvaluationKept(e) /\ e.source \in Sources /\ e.sequence \in Nat
    BY DEF ScanInv, Types, Evaluation, EvaluationsKept
  <2>2. EvaluationRow(e)'
    BY <2>1, <1>1, <1>2 DEF EvaluationKept, EvaluationRow
  <2>3. CASE e.source = s
    <3>1. e.sequence < sources'[s].sequence
      BY <2>1, <2>3, <1>5, <1>6 DEF EvaluationKept
    <3> QED BY <3>1, <2>1, <2>2, <2>3, <1>5 DEF EvaluationKept
  <2>4. CASE e.source # s
    BY <2>1, <2>2, <2>4, <1>1, <1>4 DEF EvaluationKept, Evaluate
  <2> QED BY <2>3, <2>4
<1>10. ASSUME NEW n \in Nat, n <= Active, NEW r \in Sources, Covered(n, r) PROVE Covered(n, r)'
  <2>1. CASE r = s
    BY <2>1, <1>2, <1>6, <1>10 DEF Covered
  <2>2. CASE r # s
    BY <2>2, <1>1, <1>4, <1>10 DEF Covered, Present, Exists, Recorded
  <2> QED BY <2>1, <2>2
<1>11. FlowsTrue'
  <2> SUFFICES ASSUME NEW n \in Revisions, flows[n].status = "running"
               PROVE  ScanCovers(n)' /\ (HasPlan(n)' => PlanTrue(n)')
    BY <1>1 DEF FlowsTrue, FlowTrue
  <2>1. n \in Nat /\ n <= Active /\ FlowTrue(n)
    BY DEF ScanInv, RowsKept, FlowsTrue
  <2>2. ScanCovers(n)'
    <3>1. ScanCovers(n) /\ (HasPlan(n)' <=> HasPlan(n)) /\ flows' = flows
      BY <2>1, <1>1 DEF FlowTrue, HasPlan
    <3>2. \A r \in Sources : (InPlan(n, r)' <=> InPlan(n, r)) /\ (Ahead(n, r)' <=> Ahead(n, r))
      BY <1>1 DEF InPlan, Ahead, HasMore
    <3>3. \A r \in Sources : Covered(n, r) => Covered(n, r)'
      BY <2>1, <1>10
    <3> QED BY <3>1, <3>2, <3>3 DEF ScanCovers
  <2>3. ASSUME HasPlan(n) PROVE PlanTrue(n)'
    <3>1. PlanTrue(n) /\ flows[n].plan \subseteq Item
      BY <2>1, <2>3, FlowFields DEF FlowTrue, HasPlan, ScanInv, Types
    <3>2. ASSUME NEW item \in flows[n].plan PROVE ItemTrue(n, item)'
      <4>1. ItemTrue(n, item) /\ item.source \in Sources /\ item.sequence \in Nat
        BY <3>1 DEF PlanTrue, Item
      <4>2. Recorded(n, item.source)' = Recorded(n, item.source)
        BY <1>1 DEF Recorded
      <4>3. CASE item.source = s
        BY <4>1, <4>2, <4>3, <1>5, <1>6 DEF ItemTrue
      <4>4. CASE item.source # s
        BY <4>1, <4>2, <4>4, <1>1, <1>4 DEF ItemTrue, Evaluate
      <4> QED BY <4>3, <4>4
    <3> QED BY <3>1, <3>2, <1>1 DEF PlanTrue
  <2>4. HasPlan(n)' => HasPlan(n)
    BY <1>1 DEF HasPlan
  <2> QED BY <2>2, <2>3, <2>4
<1>12. AuditsTrue'
  <2> SUFFICES ASSUME NEW n \in audits, NEW r \in Sources PROVE Covered(n, r)'
    BY <1>1 DEF AuditsTrue
  <2>1. n \in Nat /\ n <= Active /\ Covered(n, r)
    BY <1>2 DEF ScanInv, Types, AuditsTrue
  <2> QED BY <2>1, <1>10
<1>13. LossKept'
  BY <1>1 DEF ScanInv, LossKept, Promised, HoldsLease
<1> QED BY <1>7, <1>8, <1>9, <1>11, <1>12, <1>13 DEF ScanInv

-------------------------------------------------------------------------------
(* Dispatch.                                                               *)

\* A workflow that did not move keeps what is known about it, as long as nobody
\* else writes evaluations of its revision.
LEMMA FlowStays ==
    ASSUME ScanInv, UNCHANGED <<rules, sources>>, evaluations \subseteq evaluations',
           NEW n \in Revisions, flows'[n] = flows[n],
           \A e \in evaluations' : e.rev = n => e \in evaluations
    PROVE  FlowTrue(n)'
<1>1. FlowTrue(n)
  BY DEF ScanInv, FlowsTrue
<1>2. \A s : Recorded(n, s)' = Recorded(n, s)
  BY DEF Recorded
<1> QED BY <1>1, <1>2 DEF FlowTrue, ScanCovers, HasPlan, PlanTrue, ItemTrue, Covered, Present,
      Exists, InPlan, Ahead, HasMore, Evaluate

\* A started workflow begins before the first source.
LEMMA FlowBegins ==
    ASSUME NEW n \in Revisions, flows'[n] = NewFlow
    PROVE  FlowTrue(n)'
<1>1. flows'[n].after = 0 /\ flows'[n].pc = "scan"
  BY DEF NewFlow
<1>2. \A s \in Sources : ~(s <= 0)
  BY SourcesAssumption
<1> QED BY <1>1, <1>2 DEF FlowTrue, ScanCovers, HasPlan

LEMMA CoverageStays ==
    ASSUME ScanInv, UNCHANGED <<rules, sources>>, evaluations \subseteq evaluations', audits' = audits
    PROVE  AuditsTrue'
  BY DEF ScanInv, AuditsTrue, Covered, Present, Exists, Recorded

LEMMA EvaluationsStay ==
    ASSUME ScanInv, UNCHANGED <<rules, sources, evaluations>>
    PROVE  EvaluationsKept'
<1>1. Active' = Active
  BY DEF Active
<1> QED
  BY <1>1 DEF ScanInv, EvaluationsKept, EvaluationKept, EvaluationRow, Evaluate

IntentType == [state : States, token : Dispatchers \union {0}]
LeaseType == [rev : 0 .. MaxRevision, step : {"none", "start", "acknowledge"}]

\* What every step of the dispatchers leaves true, whether it starts a workflow
\* or not.
LEMMA DispatchFrame ==
    ASSUME ScanInv, UNCHANGED <<sourceVars, resultVars>>,
           intents' \in [Revisions -> IntentType], leases' \in [Dispatchers -> LeaseType],
           NEW n \in Revisions, flows[n].status # "none" \/ n <= Active,
           flows' = flows \/ flows' = Started(n)
    PROVE  /\ Active \in Nat /\ Active' = Active
           /\ Types' /\ EvaluationsKept' /\ FlowsTrue' /\ AuditsTrue'
           /\ \A m \in Revisions : flows'[m].status # "none" => m <= Active
           /\ \A m \in Revisions :
                 flows'[m].status \in {"failing", "failed"} => flows[m].status = flows'[m].status
           /\ flows' = Started(n) => flows'[n].status # "failed"
<1>1. UNCHANGED <<rules, sources, evaluations, transitions, audits>>
  BY DEF sourceVars, resultVars
<1>2. Active \in Nat /\ Active' = Active
  BY <1>1 DEF ScanInv, Types, Active
<1>3. NewFlow \in Flow /\ NewFlow.status = "running"
  BY DEF NewFlow, Flow, Scanning
<1>4. flows \in [Revisions -> Flow]
  BY DEF ScanInv, Types
<1>5. flows' \in [Revisions -> Flow]
  BY <1>3, <1>4 DEF Started
<1>6. \A m \in Revisions :
         flows'[m] = flows[m] \/ (m = n /\ flows'[m] = NewFlow)
  BY <1>4 DEF Started
<1>7. Types'
  BY <1>1, <1>2, <1>5 DEF ScanInv, Types, IntentType, LeaseType
<1>8. EvaluationsKept' /\ AuditsTrue'
  BY <1>1, EvaluationsStay, CoverageStays
<1>9. ASSUME NEW m \in Revisions PROVE FlowTrue(m)'
  <2>1. CASE flows'[m] = flows[m]
    BY <2>1, <1>1, FlowStays
  <2>2. CASE flows'[m] = NewFlow
    BY <2>2, FlowBegins
  <2> QED BY <2>1, <2>2, <1>6
<1>10. \A m \in Revisions : flows'[m].status # "none" => m <= Active
  BY <1>6 DEF ScanInv, RowsKept
<1>11. \A m \in Revisions :
          flows'[m].status \in {"failing", "failed"} => flows[m].status = flows'[m].status
  BY <1>3, <1>6
<1>12. flows' = Started(n) => flows'[n].status # "failed"
  BY <1>3, <1>4 DEF Started
<1> QED BY <1>2, <1>7, <1>8, <1>9, <1>10, <1>11, <1>12 DEF FlowsTrue

\* Which intents and leases there are.
LEMMA IntentFields ==
    ASSUME ScanInv
    PROVE  /\ intents \in [Revisions -> IntentType] /\ leases \in [Dispatchers -> LeaseType]
           /\ Active \in Nat
           /\ \A n \in Revisions : intents[n].state # "none" => n <= Active /\ IntentRow(intents[n])
           /\ \A n \in Revisions : n <= Active => IntentRow(intents[n])
           /\ \A d \in Dispatchers : leases[d] # NoLease =>
                 leases[d].rev \in Revisions /\ leases[d].rev <= Active
           /\ NoLease.step = "none"
           /\ NewIntent \in IntentType /\ IntentRow(NewIntent) /\ NoLease \in LeaseType
           /\ \A d \in Dispatchers : d # 0
<1>1. /\ NewIntent \in IntentType /\ NoLease \in LeaseType /\ IntentRow(NewIntent)
      /\ NoLease.step = "none"
  BY BoundsAssumption, DispatchersAssumption
     DEF NewIntent, NoLease, IntentType, LeaseType, States, IntentRow
<1>2. Active \in Nat
  BY DEF ScanInv, Types, Active
<1>3. NoIntent.state = "none"
  BY DEF NoIntent
<1>4. \A d \in Dispatchers : leases[d] # NoLease =>
         leases[d].rev \in Revisions /\ leases[d].rev <= Active
  BY <1>2 DEF ScanInv, RowsKept, Types, Revisions, Active
<1> QED BY <1>1, <1>2, <1>3, <1>4, DispatchersAssumption
      DEF ScanInv, Types, RowsKept, IntentType, LeaseType

LEMMA ClaimKeeps ==
    ASSUME ScanInv, NEW d \in Dispatchers, ClaimPending(d) PROVE ScanInv'
<1> USE IntentFields
<1>1. PICK n \in Revisions :
         /\ Claimable(n) /\ intents' = LeaseUpdate(n, d)
         /\ leases' = [leases EXCEPT ![d] = [rev |-> n, step |-> "start"]]
  BY DEF ClaimPending
<1>2. UNCHANGED <<sourceVars, resultVars, flows, lost>>
  BY DEF ClaimPending
<1>3. n <= Active
  BY <1>1 DEF Claimable
<1>4. [state |-> "leased", token |-> d] \in IntentType /\ [rev |-> n, step |-> "start"] \in LeaseType
  BY RevisionsAre DEF IntentType, LeaseType, States, Revisions
<1>5. intents' \in [Revisions -> IntentType] /\ leases' \in [Dispatchers -> LeaseType]
  BY <1>1, <1>4 DEF LeaseUpdate
<1>6. /\ Active' = Active /\ Types' /\ EvaluationsKept' /\ FlowsTrue' /\ AuditsTrue'
      /\ \A m \in Revisions : flows'[m].status # "none" => m <= Active
  BY <1>2, <1>3, <1>5, DispatchFrame
<1>7. /\ intents'[n] = [state |-> "leased", token |-> d]
      /\ \A m \in Revisions : m # n => intents'[m] = intents[m]
      /\ leases'[d] = [rev |-> n, step |-> "start"]
      /\ \A b \in Dispatchers : b # d => leases'[b] = leases[b]
  BY <1>1 DEF LeaseUpdate
<1>8. RowsKept'
  <2>1. IntentRow(intents'[n])
    BY <1>7 DEF IntentRow
  <2>2. ASSUME NEW m \in Revisions
        PROVE  IF m <= Active THEN IntentRow(intents'[m]) ELSE intents'[m] = NoIntent
    BY <2>1, <1>3, <1>7 DEF ScanInv, RowsKept
  <2>3. ASSUME NEW b \in Dispatchers, leases'[b] # NoLease PROVE leases'[b].rev \in 1 .. Active
    BY <2>3, <1>3, <1>7, RevisionsAre DEF ScanInv, RowsKept, Revisions
  <2> QED BY <2>2, <2>3, <1>6 DEF RowsKept, IntentRow
<1>9. LossKept'
  <2> SUFFICES ASSUME NEW m \in Revisions, Promised(m)', flows[m].status \in {"failing", "failed"}
               PROVE  m \in lost
    BY <1>2 DEF LossKept
  <2>1. CASE m = n
    <3>1. \A b \in Dispatchers : HoldsLease(n, b)' => b = d
      BY <1>7 DEF HoldsLease
    <3> QED BY <2>1, <3>1, <1>7 DEF Promised
  <2>2. CASE m # n
    <3>1. intents'[m] = intents[m]
      BY <2>2, <1>7
    <3>2. CASE intents'[m].state = "dispatched"
      BY <3>1, <3>2 DEF ScanInv, LossKept, Promised
    <3>3. CASE intents'[m].state # "dispatched"
      <4>1. PICK b \in Dispatchers : /\ leases'[b] = [rev |-> m, step |-> "acknowledge"]
                                     /\ HoldsLease(m, b)'
        BY <3>3 DEF Promised
      <4>2. b # d
        BY <4>1, <1>7
      <4>3. leases[b] = [rev |-> m, step |-> "acknowledge"] /\ HoldsLease(m, b)
        BY <4>1, <4>2, <3>1, <1>7 DEF HoldsLease
      <4> QED BY <4>3 DEF ScanInv, LossKept, Promised
    <3> QED BY <3>2, <3>3
  <2> QED BY <2>1, <2>2
<1> QED BY <1>6, <1>8, <1>9 DEF ScanInv

\* An intent that is given back, by whoever gives it back, is owed to nobody.
LEMMA GivenBackKeeps ==
    ASSUME ScanInv, UNCHANGED <<sourceVars, resultVars, lost>>,
           NEW n \in Revisions, n <= Active,
           intents' = intents \/ intents' = BackToPending(n),
           leases' = leases \/ \E d \in Dispatchers : leases' = [leases EXCEPT ![d] = NoLease],
           flows' = flows \/ flows' = Started(n)
    PROVE  ScanInv'
<1> USE IntentFields
<1>1. intents' \in [Revisions -> IntentType] /\ leases' \in [Dispatchers -> LeaseType]
  BY DEF BackToPending
<1>2. /\ Active' = Active /\ Types' /\ EvaluationsKept' /\ FlowsTrue' /\ AuditsTrue'
      /\ \A m \in Revisions : flows'[m].status # "none" => m <= Active
      /\ \A m \in Revisions :
            flows'[m].status \in {"failing", "failed"} => flows[m].status = flows'[m].status
  BY <1>1, DispatchFrame
<1>3. \A m \in Revisions : intents'[m] = intents[m] \/ (m = n /\ intents'[m] = NewIntent)
  BY DEF BackToPending
<1>4. \A d \in Dispatchers : leases'[d] = leases[d] \/ leases'[d] = NoLease
  OBVIOUS
<1>5. RowsKept'
  <2>1. ASSUME NEW m \in Revisions
        PROVE  IF m <= Active THEN IntentRow(intents'[m]) ELSE intents'[m] = NoIntent
    BY <1>3 DEF ScanInv, RowsKept
  <2>2. ASSUME NEW d \in Dispatchers, leases'[d] # NoLease PROVE leases'[d].rev \in 1 .. Active
    BY <2>2, <1>4 DEF ScanInv, RowsKept, NoLease
  <2> QED BY <2>1, <2>2, <1>2 DEF RowsKept, IntentRow
<1>6. LossKept'
  <2> SUFFICES ASSUME NEW m \in Revisions, Promised(m)', flows'[m].status \in {"failing", "failed"}
               PROVE  m \in lost
    BY DEF LossKept
  <2>1. flows[m].status \in {"failing", "failed"}
    BY <1>2
  <2>2. intents'[m].state \in {"dispatched", "leased"}
    <3>1. ASSUME NEW d \in Dispatchers, HoldsLease(m, d)' PROVE intents'[m].state = "leased"
      BY <3>1 DEF HoldsLease
    <3> QED BY <3>1 DEF Promised
  <2>3. intents'[m] = intents[m]
    BY <2>2, <1>3 DEF NewIntent
  <2>4. \A d \in Dispatchers :
           leases'[d] = [rev |-> m, step |-> "acknowledge"] => leases[d] = leases'[d]
    BY <1>4 DEF NoLease
  <2>5. Promised(m)
    BY <2>3, <2>4 DEF Promised, HoldsLease
  <2> QED BY <2>1, <2>5 DEF ScanInv, LossKept
<1> QED BY <1>2, <1>5, <1>6 DEF ScanInv

LEMMA ReclaimKeeps ==
    ASSUME ScanInv, NEW n \in Revisions, ReclaimExpired(n) PROVE ScanInv'
<1>1. n <= Active
  BY IntentFields DEF ReclaimExpired
<1> QED BY <1>1, GivenBackKeeps DEF ReclaimExpired

LEMMA ReleaseKeeps ==
    ASSUME ScanInv, NEW d \in Dispatchers, ReleaseRetry(d) PROVE ScanInv'
<1>1. leases[d].rev \in Revisions /\ leases[d].rev <= Active
  BY IntentFields DEF ReleaseRetry
<1> QED BY <1>1, GivenBackKeeps DEF ReleaseRetry

LEMMA CrashKeeps ==
    ASSUME ScanInv, NEW d \in Dispatchers, CrashDispatcher(d) PROVE ScanInv'
<1>1. leases' = [leases EXCEPT ![d] = NoLease] /\ UNCHANGED <<sourceVars, resultVars, lost, intents, flows>>
  BY DEF CrashDispatcher
<1>2. leases[d].rev \in Revisions /\ leases[d].rev <= Active
  BY IntentFields DEF CrashDispatcher
<1> QED BY <1>1, <1>2, GivenBackKeeps

\* A start call that joins an ending workflow is the lost case; any other leaves
\* the intent with a workflow that runs or has completed.
LEMMA StartKeeps ==
    ASSUME ScanInv, NEW d \in Dispatchers, StartWorkflow(d) PROVE ScanInv'
<1> USE IntentFields
<1> DEFINE n == leases[d].rev
<1>1. leases[d].step = "start" /\ n \in Revisions /\ n <= Active
  BY DEF StartWorkflow
<1>2. /\ flows' = Started(n) /\ leases' = [leases EXCEPT ![d].step = "acknowledge"]
      /\ lost' = lost \union {m \in {n} : flows[m].status = "failing"}
      /\ UNCHANGED <<sourceVars, resultVars, intents>>
  BY DEF StartWorkflow
<1> HIDE DEF n
<1>3. PICK old \in LeaseType : old = leases[d]
  OBVIOUS
<1>4. /\ leases'[d] = [old EXCEPT !.step = "acknowledge"]
      /\ \A b \in Dispatchers : b # d => leases'[b] = leases[b]
      /\ leases' \in [Dispatchers -> LeaseType]
  BY <1>2, <1>3 DEF LeaseType
<1>5. /\ Active' = Active /\ Types' /\ EvaluationsKept' /\ FlowsTrue' /\ AuditsTrue'
      /\ \A m \in Revisions : flows'[m].status # "none" => m <= Active
      /\ \A m \in Revisions :
            flows'[m].status \in {"failing", "failed"} => flows[m].status = flows'[m].status
      /\ flows'[n].status # "failed"
  BY <1>1, <1>2, <1>4, DispatchFrame
<1>6. leases'[d].rev = n
  BY <1>3, <1>4 DEF n, LeaseType
<1>7. RowsKept'
  <2>1. \A m \in Revisions : IF m <= Active THEN IntentRow(intents'[m]) ELSE intents'[m] = NoIntent
    BY <1>2 DEF ScanInv, RowsKept
  <2>2. ASSUME NEW b \in Dispatchers, leases'[b] # NoLease PROVE leases'[b].rev \in 1 .. Active
    <3>1. CASE b = d
      BY <3>1, <1>1, <1>6 DEF Revisions
    <3>2. CASE b # d
      BY <2>2, <3>2, <1>4 DEF ScanInv, RowsKept
    <3> QED BY <3>1, <3>2
  <2> QED BY <2>1, <2>2, <1>5 DEF RowsKept, IntentRow
<1>8. LossKept'
  <2> SUFFICES ASSUME NEW m \in Revisions, Promised(m)', flows'[m].status \in {"failing", "failed"}
               PROVE  m \in lost'
    BY DEF LossKept
  <2>1. flows[m].status = flows'[m].status
    BY <1>5
  <2>2. CASE m = n
    BY <2>1, <2>2, <1>2, <1>5
  <2>3. CASE m # n
    <3>1. \A b \in Dispatchers :
             leases'[b] = [rev |-> m, step |-> "acknowledge"] => leases[b] = leases'[b]
      BY <2>3, <1>4, <1>6
    <3>2. Promised(m)
      BY <3>1, <1>2 DEF Promised, HoldsLease
    <3> QED BY <3>2, <2>1, <1>2 DEF ScanInv, LossKept
  <2> QED BY <2>2, <2>3
<1> QED BY <1>5, <1>7, <1>8 DEF ScanInv

LEMMA AcknowledgeKeeps ==
    ASSUME ScanInv, NEW d \in Dispatchers, AcknowledgeDispatched(d) PROVE ScanInv'
<1> USE IntentFields
<1> DEFINE n == leases[d].rev
           Done == [state |-> "dispatched", token |-> 0]
<1>1. leases[d].step = "acknowledge" /\ n \in Revisions /\ n <= Active
  BY DEF AcknowledgeDispatched
<1>2. /\ leases' = [leases EXCEPT ![d] = NoLease]
      /\ UNCHANGED <<sourceVars, resultVars, flows, lost>>
      /\ IF HoldsLease(n, d) THEN intents' = [intents EXCEPT ![n] = Done] ELSE intents' = intents
  BY DEF AcknowledgeDispatched
<1>3. Done \in IntentType /\ IntentRow(Done)
  BY DispatchersAssumption DEF IntentType, States, IntentRow
<1>4. leases[d] = [rev |-> n, step |-> "acknowledge"]
  BY <1>1 DEF LeaseType
<1> HIDE DEF n, Done
<1>5. /\ intents' \in [Revisions -> IntentType] /\ leases' \in [Dispatchers -> LeaseType]
      /\ \A m \in Revisions :
            intents'[m] = intents[m] \/ (m = n /\ HoldsLease(n, d) /\ intents'[m] = Done)
      /\ \A b \in Dispatchers : leases'[b] = leases[b] \/ leases'[b] = NoLease
  BY <1>1, <1>2, <1>3
<1>6. /\ Active' = Active /\ Types' /\ EvaluationsKept' /\ FlowsTrue' /\ AuditsTrue'
      /\ \A m \in Revisions : flows'[m].status # "none" => m <= Active
  BY <1>1, <1>2, <1>5, DispatchFrame
<1>7. RowsKept'
  <2>1. \A m \in Revisions : IF m <= Active THEN IntentRow(intents'[m]) ELSE intents'[m] = NoIntent
    BY <1>1, <1>3, <1>5 DEF ScanInv, RowsKept
  <2>2. \A b \in Dispatchers : leases'[b] # NoLease => leases'[b].rev \in 1 .. Active
    BY <1>5 DEF ScanInv, RowsKept
  <2> QED BY <2>1, <2>2, <1>6 DEF RowsKept, IntentRow
<1>8. LossKept'
  <2> SUFFICES ASSUME NEW m \in Revisions, Promised(m)', flows[m].status \in {"failing", "failed"}
               PROVE  m \in lost
    BY <1>2 DEF LossKept
  <2>1. CASE m = n /\ HoldsLease(n, d)
    <3>1. Promised(m)
      BY <2>1, <1>4 DEF Promised
    <3> QED BY <3>1 DEF ScanInv, LossKept
  <2>2. CASE ~(m = n /\ HoldsLease(n, d))
    <3>1. intents'[m] = intents[m]
      BY <2>2, <1>5
    <3>2. \A b \in Dispatchers :
             leases'[b] = [rev |-> m, step |-> "acknowledge"] => leases[b] = leases'[b]
      BY <1>5 DEF NoLease
    <3>3. Promised(m)
      BY <3>1, <3>2 DEF Promised, HoldsLease
    <3> QED BY <3>3 DEF ScanInv, LossKept
  <2> QED BY <2>1, <2>2
<1> QED BY <1>6, <1>7, <1>8 DEF ScanInv

-------------------------------------------------------------------------------
(* The scan.                                                               *)

\* A failed revision owes its intent to nobody: it is pending, terminal or was
\* neither leased nor dispatched.
LEMMA FailDispatchedIs ==
    ASSUME ScanInv, NEW n \in Revisions, n <= Active, NEW retryable,
           intents' = FailDispatched(n, retryable)
    PROVE  /\ intents' \in [Revisions -> IntentType] /\ IntentRow(intents'[n])
           /\ \A m \in Revisions : m # n => intents'[m] = intents[m]
           /\ intents'[n].state \notin {"leased", "dispatched"}
<1> USE IntentFields
<1> DEFINE new == [state |-> IF retryable THEN "pending" ELSE "terminal", token |-> 0]
<1>1. new \in IntentType /\ IntentRow(new) /\ new.state \notin {"leased", "dispatched"}
  BY DispatchersAssumption DEF IntentType, States, IntentRow
<1> HIDE DEF new
<1>2. CASE intents[n].state \in {"leased", "dispatched"}
  <2>1. intents' = [intents EXCEPT ![n] = new]
    BY <1>2 DEF FailDispatched, new
  <2> QED BY <2>1, <1>1
<1>3. CASE intents[n].state \notin {"leased", "dispatched"}
  BY <1>3 DEF FailDispatched
<1> QED BY <1>2, <1>3

\* What a step of one workflow has to show.
LEMMA ScanFrame ==
    ASSUME ScanInv, UNCHANGED <<sourceVars, leases>>,
           NEW n \in Revisions, flows[n].status # "none",
           NEW flow \in Flow, flows' = [flows EXCEPT ![n] = flow],
           intents' = intents \/ \E retryable : intents' = FailDispatched(n, retryable),
           evaluations \subseteq evaluations', evaluations' \subseteq Evaluation,
           \A e \in evaluations' : e \notin evaluations => e.rev = n,
           EvaluationsKept', FlowTrue(n)',
           audits' \subseteq audits \union {n}, n \in audits' => n \in audits \/ \A s \in Sources : Covered(n, s)',
           lost \subseteq lost',
           flow.status \in {"failing", "failed"} =>
              \/ n \in lost'
              \/ flows[n].status = "failing" /\ intents' = intents
              \/ \E retryable : intents' = FailDispatched(n, retryable)
    PROVE  ScanInv'
<1> USE IntentFields
<1>1. UNCHANGED <<rules, sources>> /\ Active' = Active
  BY DEF sourceVars, Active
<1>2. n <= Active
  BY DEF ScanInv, RowsKept
<1>3. /\ intents' \in [Revisions -> IntentType] /\ IntentRow(intents'[n])
      /\ \A m \in Revisions : m # n => intents'[m] = intents[m]
  BY <1>2, FailDispatchedIs
<1>4. /\ flows' \in [Revisions -> Flow] /\ flows'[n] = flow
      /\ \A m \in Revisions : m # n => flows'[m] = flows[m]
  BY DEF ScanInv, Types
<1>5. n \in 1 .. Active
  BY <1>2, RevisionsAre DEF Revisions
<1>6. Types'
  BY <1>1, <1>3, <1>4, <1>5 DEF ScanInv, Types, IntentType
<1>7. RowsKept'
  <2>1. ASSUME NEW m \in Revisions
        PROVE  IF m <= Active THEN IntentRow(intents'[m]) ELSE intents'[m] = NoIntent
    BY <1>2, <1>3 DEF ScanInv, RowsKept
  <2>2. \A m \in Revisions : flows'[m].status # "none" => m <= Active
    BY <1>2, <1>4 DEF ScanInv, RowsKept
  <2>3. \A d \in Dispatchers : leases'[d] # NoLease => leases'[d].rev \in 1 .. Active
    BY DEF ScanInv, RowsKept
  <2> QED BY <2>1, <2>2, <2>3, <1>1 DEF RowsKept, IntentRow
<1>8. FlowsTrue'
  <2> SUFFICES ASSUME NEW m \in Revisions, m # n PROVE FlowTrue(m)'
    BY DEF FlowsTrue
  <2>1. flows'[m] = flows[m]
    BY <1>4
  <2> QED BY <2>1, <1>1, FlowStays
<1>9. AuditsTrue'
  <2> SUFFICES ASSUME NEW m \in audits', NEW s \in Sources PROVE Covered(m, s)'
    BY DEF AuditsTrue
  <2>1. CASE m \in audits
    <3>1. Covered(m, s)
      BY <2>1 DEF ScanInv, AuditsTrue
    <3> QED BY <3>1, <1>1 DEF Covered, Present, Exists, Recorded
  <2>2. CASE m \notin audits
    BY <2>2
  <2> QED BY <2>1, <2>2
<1>10. LossKept'
  <2> SUFFICES ASSUME NEW m \in Revisions, Promised(m)', flows'[m].status \in {"failing", "failed"}
               PROVE  m \in lost'
    BY DEF LossKept
  <2>1. ASSUME intents'[m] = intents[m], flows[m].status \in {"failing", "failed"}
        PROVE  m \in lost'
    <3>1. Promised(m)
      BY <2>1 DEF Promised, HoldsLease
    <3> QED BY <3>1, <2>1 DEF ScanInv, LossKept
  <2>2. CASE m # n
    BY <2>1, <2>2, <1>3, <1>4
  <2>3. CASE m = n
    <3>1. intents'[n].state \in {"dispatched", "leased"}
      <4>1. ASSUME NEW d \in Dispatchers, HoldsLease(m, d)' PROVE intents'[m].state = "leased"
        BY <4>1 DEF HoldsLease
      <4> QED BY <2>3, <4>1 DEF Promised
    <3>2. ~ \E retryable : intents' = FailDispatched(n, retryable)
      BY <3>1, <1>2, FailDispatchedIs
    <3> QED BY <2>1, <2>3, <3>2, <1>4
  <2> QED BY <2>2, <2>3
<1> QED BY <1>6, <1>7, <1>8, <1>9, <1>10 DEF ScanInv

\* The steps of a workflow that write no evaluation and no audit.
LEMMA QuietScan ==
    ASSUME ScanInv, UNCHANGED <<sourceVars, resultVars, leases>>,
           NEW n \in Revisions, flows[n].status # "none",
           NEW flow \in Flow, flows' = [flows EXCEPT ![n] = flow],
           intents' = intents \/ \E retryable : intents' = FailDispatched(n, retryable),
           FlowTrue(n)', lost \subseteq lost',
           flow.status \in {"failing", "failed"} =>
              \/ n \in lost'
              \/ flows[n].status = "failing" /\ intents' = intents
              \/ \E retryable : intents' = FailDispatched(n, retryable)
    PROVE  ScanInv'
<1>1. UNCHANGED <<rules, sources, evaluations, audits>>
  BY DEF sourceVars, resultVars
<1>2. EvaluationsKept'
  BY <1>1, EvaluationsStay
<1>3. evaluations' \subseteq Evaluation
  BY <1>1 DEF ScanInv, Types
<1> QED BY <1>1, <1>2, <1>3, ScanFrame

\* A planned item names the newest event of its source.
LEMMA PlannedIs ==
    ASSUME ScanInv, NEW n \in Revisions, NEW s \in Sources, Present(s)
    PROVE  /\ Planned(n, s) \in Item
           /\ Planned(n, s).source = s
           /\ Planned(n, s).sequence = sources[s].sequence
           /\ sources[s].sequence \in Nat /\ sources[s].sequence > 0
           /\ Planned(n, s).decision = Evaluate(n, sources[s].class)
<1>1. sources[s].sequence \in Nat /\ sources[s].sequence > 0
  BY DEF ScanInv, Types, SourceRow, Present, Exists
<1>2. Evaluate(n, sources[s].class) \in Decisions
  BY DEF Evaluate, Decisions
<1>3. Transition(PriorDecision(n, s), Evaluate(n, sources[s].class)) \in Transitions
  BY DEF Transition, Transitions
<1> QED BY <1>1, <1>2, <1>3 DEF Planned, Item

\* What the page says about the sources behind the last one read.
LEMMA PageIs ==
    ASSUME ScanInv, NEW after \in Nat
    PROVE  /\ \A s \in Page(after) : s \in Sources /\ Present(s) /\ s > after
           /\ IsFiniteSet(Page(after))
           /\ \A s \in Sources : Present(s) /\ s > after /\ s \notin Page(after) =>
                 Cardinality(Page(after)) = PageSize /\ \A p \in Page(after) : p < s
           /\ Page(after) = {} => \A s \in Sources : Present(s) => s <= after
<1> DEFINE rest == {s \in Sources : Present(s) /\ s > after}
<1>1. rest \subseteq Nat /\ IsFiniteSet(rest)
  BY SourcesAssumption, FS_Subset
<1>2. Page(after) = First(rest)
  BY DEF Page
<1>3. \A s \in Sources : s \in Nat
  BY SourcesAssumption
<1>4. /\ First(rest) \subseteq rest /\ IsFiniteSet(First(rest))
      /\ \A s \in rest \ First(rest) :
            Cardinality(First(rest)) = PageSize /\ \A p \in First(rest) : p < s
      /\ First(rest) = {} => rest = {}
  <2> HIDE DEF rest
  <2> QED BY <1>1, FirstIsPage
<1> QED BY <1>2, <1>3, <1>4

\* A new plan is true, holds each source once, and leaves only later sources to
\* the next page.
LEMMA NewPlanIsTrue ==
    ASSUME ScanInv, NEW n \in Revisions, UNCHANGED <<rules, sources, evaluations>>,
           flows[n].status = "running", flows[n].pc = "scan",
           flows'[n].status = "running", flows'[n].pc = "planned",
           flows'[n].after = flows[n].after,
           flows'[n].plan = {Planned(n, s) : s \in Page(flows[n].after)}
    PROVE  flows'[n].plan \subseteq Item /\ FlowTrue(n)'
<1> DEFINE after == flows[n].after
           plan == {Planned(n, s) : s \in Page(after)}
<1>1. after \in Nat /\ FlowTrue(n)
  BY FlowFields DEF ScanInv, Types, FlowsTrue
<1>2. \A s \in Page(after) : s \in Sources /\ Present(s) /\ s > after
  BY <1>1, PageIs
<1>3. \A s \in Page(after) : /\ Planned(n, s) \in Item /\ Planned(n, s).source = s
                            /\ Planned(n, s).sequence = sources[s].sequence
                            /\ sources[s].sequence \in Nat /\ sources[s].sequence > 0
                            /\ Planned(n, s).decision = Evaluate(n, sources[s].class)
  BY <1>2, PlannedIs
<1>4. Cardinality(plan) = Cardinality(Page(after))
  <2> DEFINE f == [s \in Page(after) |-> Planned(n, s)]
  <2>1. f \in Bijection(Page(after), plan)
    <3>1. f \in [Page(after) -> plan]
      OBVIOUS
    <3>2. \A r, s \in Page(after) : f[r] = f[s] => r = s
      BY <1>3
    <3>3. \A item \in plan : \E s \in Page(after) : f[s] = item
      OBVIOUS
    <3> HIDE DEF f, plan
    <3>4. f \in Injection(Page(after), plan)
      BY <3>1, <3>2 DEF Injection, IsInjective
    <3>5. f \in Surjection(Page(after), plan)
      BY <3>1, <3>3 DEF Surjection
    <3> QED BY <3>4, <3>5 DEF Bijection
  <2>2. ExistsBijection(Page(after), plan) /\ IsFiniteSet(Page(after))
    BY <2>1, <1>1, PageIs DEF ExistsBijection
  <2> HIDE DEF plan
  <2> QED BY <2>2, FS_Bijection
<1>5. \A item \in plan : \E s \in Page(after) : item = Planned(n, s)
  OBVIOUS
<1>6. plan \subseteq Item
  BY <1>3
<1> HIDE DEF after, plan
<1>7. flows'[n].plan = plan /\ flows'[n].after = after
  BY DEF plan, after
<1>8. PlanTrue(n)'
  <2>1. ASSUME NEW item \in plan PROVE ItemTrue(n, item)'
    <3>1. PICK s \in Page(after) : item = Planned(n, s)
      BY <1>5
    <3>2. /\ s \in Sources /\ item.source = s /\ item.sequence = sources[s].sequence
          /\ item.sequence \in 1 .. sources[s].sequence
          /\ item.decision = Evaluate(n, sources[s].class)
      BY <1>2, <1>3, <3>1
    <3>3. ASSUME NEW e \in Recorded(n, s), e.sequence = item.sequence
          PROVE  e.decision = item.decision
      BY <3>2, <3>3 DEF Recorded, ScanInv, EvaluationsKept, EvaluationKept
    <3> QED BY <3>2, <3>3 DEF ItemTrue, Recorded, Evaluate
  <2>2. \A item, other \in plan : other.source = item.source => other = item
    BY <1>3, <1>5
  <2> QED BY <2>1, <2>2, <1>7 DEF PlanTrue
<1>9. ScanCovers(n)'
  <2>1. \A s \in Sources : Covered(n, s)' <=> Covered(n, s)
    BY DEF Covered, Present, Exists, Recorded
  <2>2. \A s \in Sources : s <= after => Covered(n, s)
    BY <1>1 DEF FlowTrue, ScanCovers, after
  <2>3. ASSUME NEW s \in Sources PROVE Covered(n, s) \/ InPlan(n, s)' \/ Ahead(n, s)'
    <3>1. CASE ~Present(s) \/ s <= after
      BY <3>1, <2>2 DEF Covered
    <3>2. CASE s \in Page(after)
      <4>1. Planned(n, s) \in plan /\ Planned(n, s).source = s
        BY <3>2, <1>3 DEF plan
      <4> QED BY <4>1, <1>7 DEF InPlan
    <3>3. CASE Present(s) /\ ~(s <= after) /\ s \notin Page(after)
      <4>1. s \in Nat /\ s > after
        BY <3>3, <1>1, SourcesAssumption
      <4>2. Cardinality(Page(after)) = PageSize /\ \A p \in Page(after) : p < s
        BY <3>3, <4>1, <1>1, PageIs
      <4>3. Cardinality(plan) = PageSize /\ \A item \in plan : item.source < s
        BY <4>2, <1>3, <1>4, <1>5
      <4> QED BY <4>3, <1>7 DEF Ahead, HasMore
    <3> QED BY <3>1, <3>2, <3>3
  <2> QED BY <2>1, <2>2, <2>3, <1>7 DEF ScanCovers
<1> QED BY <1>6, <1>7, <1>8, <1>9 DEF FlowTrue

\* A workflow that has ended promises nothing.
LEMMA FlowEnds ==
    ASSUME NEW n \in Revisions, flows'[n].status # "running"
    PROVE  FlowTrue(n)'
  BY DEF FlowTrue

LEMMA BatchReadKeeps ==
    ASSUME ScanInv, NEW n \in Revisions, BatchRead(n) PROVE ScanInv'
<1>1. /\ flows[n].status = "running" /\ flows[n].pc = "scan"
      /\ UNCHANGED <<sourceVars, resultVars, intents, leases, lost>>
      /\ UNCHANGED <<rules, sources, evaluations>>
  BY DEF BatchRead, Running, sourceVars, resultVars
<1>2. /\ flows[n].after \in Nat /\ flows[n].attempt \in Nat /\ FlowTrue(n)
      /\ flows \in [Revisions -> Flow]
  BY <1>1, FlowFields DEF ScanInv, Types, FlowsTrue
<1>3. CASE Superseded(n)
  <2> DEFINE flow == [status |-> "completed"]
  <2>1. flow \in Flow /\ flows' = [flows EXCEPT ![n] = flow] /\ flow.status = "completed"
    BY <1>3 DEF Superseded, Flow, Ended
  <2>2. FlowTrue(n)'
    BY <2>1, <1>2, FlowEnds
  <2> HIDE DEF flow
  <2> QED BY <2>1, <2>2, <1>1, QuietScan
<1>4. CASE Page(flows[n].after) = {} /\ flows' = [flows EXCEPT ![n] = NothingLeft(n)]
  <2>1. NothingLeft(n) \in Flow /\ NothingLeft(n).status = "running"
    BY <1>2 DEF NothingLeft, Flow, Scanning
  <2>2. flows'[n] = NothingLeft(n)
    BY <1>2, <1>4
  <2>3. \A s \in Sources : Covered(n, s)
    BY <1>1, <1>2, <1>4, PageIs DEF FlowTrue, ScanCovers, Covered
  <2>4. \A s \in Sources : Covered(n, s)'
    BY <2>3, <1>1 DEF Covered, Present, Exists, Recorded
  <2>5. FlowTrue(n)'
    BY <2>2, <2>4 DEF FlowTrue, ScanCovers, HasPlan, NothingLeft
  <2> QED BY <2>1, <2>5, <1>1, <1>4, QuietScan
<1>5. CASE flows' = [flows EXCEPT ![n] =
                        [status |-> "running", pc |-> "planned", after |-> flows[n].after,
                         attempt |-> flows[n].attempt,
                         plan |-> {Planned(n, s) : s \in Page(flows[n].after)}]]
  <2> DEFINE plan == {Planned(n, s) : s \in Page(flows[n].after)}
             flow == [status |-> "running", pc |-> "planned", after |-> flows[n].after,
                      attempt |-> flows[n].attempt, plan |-> plan]
  <2>1. /\ flow.status = "running" /\ flow.pc = "planned" /\ flow.after = flows[n].after
        /\ flow.plan = plan
    OBVIOUS
  <2>2. flows'[n] = flow /\ flows' = [flows EXCEPT ![n] = flow]
    BY <1>2, <1>5
  <2>3. plan \subseteq Item /\ FlowTrue(n)'
    BY <2>1, <2>2, <1>1, NewPlanIsTrue
  <2>4. flow \in Flow
    <3> HIDE DEF plan
    <3> QED BY <2>3, <1>2 DEF Flow, Planning
  <2> HIDE DEF flow
  <2> QED BY <2>1, <2>2, <2>3, <2>4, <1>1, QuietScan
<1> QED BY <1>3, <1>4, <1>5 DEF BatchRead

\* An attempt that ends early takes up the same page again.
LEMMA NextAttemptIsTrue ==
    ASSUME ScanInv, NEW n \in Revisions, flows[n].status = "running",
           UNCHANGED <<rules, sources>>, evaluations \subseteq evaluations',
           flows'[n].status = "running", flows'[n].after = flows[n].after,
           flows'[n].pc = "scan" \/ (flows'[n].pc = "complete" /\ flows[n].pc = "complete")
    PROVE  FlowTrue(n)'
<1>1. FlowTrue(n)
  BY DEF ScanInv, FlowsTrue
<1>2. \A s \in Sources : Covered(n, s) => Covered(n, s)'
  BY DEF Covered, Present, Exists, Recorded
<1>3. ~HasPlan(n)'
  BY DEF HasPlan
<1> QED BY <1>1, <1>2, <1>3 DEF FlowTrue, ScanCovers

LEMMA NextAttemptFields ==
    ASSUME ScanInv, NEW n \in Revisions, flows[n].status = "running"
    PROVE  /\ NextAttempt(n) \in Scanning
           /\ NextAttempt(n).status = "running" /\ NextAttempt(n).after = flows[n].after
           /\ NextAttempt(n).pc = "scan"
<1>1. flows[n].after \in Nat /\ flows[n].attempt \in Nat
  BY FlowFields DEF ScanInv, Types
<1> QED BY <1>1 DEF NextAttempt, Scanning

\* A retryable failure either retries or ends the workflow and releases the
\* intent; the batch may have been written or not.
LEMMA RetryableFailureKeeps ==
    ASSUME ScanInv, NEW n \in Revisions, flows[n].status = "running", RetryableFailure(n),
           UNCHANGED <<sourceVars, audits, leases, lost>>,
           evaluations \subseteq evaluations', evaluations' \subseteq Evaluation,
           \A e \in evaluations' : e \notin evaluations => e.rev = n, EvaluationsKept'
    PROVE  ScanInv'
<1>1. flows \in [Revisions -> Flow] /\ UNCHANGED <<rules, sources>>
  BY DEF ScanInv, Types, sourceVars
<1>2. CASE flows' = [flows EXCEPT ![n] = NextAttempt(n)] /\ UNCHANGED intents
  <2>1. /\ NextAttempt(n) \in Flow /\ NextAttempt(n).status = "running"
        /\ NextAttempt(n).after = flows[n].after /\ NextAttempt(n).pc = "scan"
    BY NextAttemptFields DEF Flow
  <2>2. flows'[n] = NextAttempt(n)
    BY <1>1, <1>2
  <2>3. FlowTrue(n)'
    BY <2>1, <2>2, <1>1, NextAttemptIsTrue
  <2> QED BY <2>1, <2>3, <1>2, ScanFrame
<1>3. CASE flows' = [flows EXCEPT ![n] = Failing] /\ FailReconciliation(n, TRUE)
  <2>1. Failing \in Flow /\ Failing.status = "failing"
    BY DEF Failing, Flow, Ended
  <2>2. FlowTrue(n)'
    BY <2>1, <1>1, <1>3, FlowEnds
  <2>3. \E retryable : intents' = FailDispatched(n, retryable)
    BY <1>3 DEF FailReconciliation
  <2> QED BY <2>1, <2>2, <2>3, <1>3, ScanFrame
<1> QED BY <1>2, <1>3 DEF RetryableFailure

LEMMA BatchRecheckKeeps ==
    ASSUME ScanInv, NEW n \in Revisions, BatchRecheck(n) PROVE ScanInv'
<1>1. /\ flows[n].status = "running" /\ flows[n].pc = "planned"
      /\ UNCHANGED <<sourceVars, resultVars, leases, lost>>
      /\ UNCHANGED <<rules, sources, evaluations, audits>>
  BY DEF BatchRecheck, Running, sourceVars, resultVars
<1>2. flows \in [Revisions -> Flow] /\ FlowTrue(n)
  BY DEF ScanInv, Types, FlowsTrue
<1>3. CASE Superseded(n) /\ UNCHANGED intents
  <2> DEFINE flow == [status |-> "completed"]
  <2>1. flow \in Flow /\ flows' = [flows EXCEPT ![n] = flow] /\ flow.status = "completed"
    BY <1>3 DEF Superseded, Flow, Ended
  <2>2. FlowTrue(n)'
    BY <2>1, <1>2, FlowEnds
  <2> HIDE DEF flow
  <2> QED BY <2>1, <2>2, <1>1, <1>3, QuietScan
<1>4. CASE flows' = [flows EXCEPT ![n].pc = "checked"] /\ UNCHANGED intents
  <2>1. PICK old \in Planning : old = flows[n]
    BY <1>1, <1>2 DEF Flow, Ended, Scanning
  <2> DEFINE flow == [old EXCEPT !.pc = "checked"]
  <2>2. /\ flow \in Planning /\ flow.status = "running" /\ flow.pc = "checked"
        /\ flow.after = old.after /\ flow.plan = old.plan
    BY DEF Planning
  <2>3. flows' = [flows EXCEPT ![n] = flow] /\ flows'[n] = flow
    BY <2>1, <1>2, <1>4
  <2> HIDE DEF flow
  <2>4. HasPlan(n) /\ flows'[n].plan = flows[n].plan /\ flows'[n].after = flows[n].after
    BY <2>1, <2>2, <2>3, <1>1 DEF HasPlan
  <2>5. ScanCovers(n)'
    BY <2>2, <2>3, <2>4, <1>1, <1>2 DEF FlowTrue, ScanCovers, Covered, Present, Exists, Recorded,
       InPlan, Ahead, HasMore
  <2>6. PlanTrue(n)'
    BY <2>4, <1>1, <1>2 DEF FlowTrue, PlanTrue, ItemTrue, Recorded, Evaluate
  <2>7. FlowTrue(n)'
    BY <2>5, <2>6 DEF FlowTrue
  <2> QED BY <2>2, <2>3, <2>7, <1>1, <1>4, QuietScan DEF Flow
<1>5. CASE RetryableFailure(n)
  <2>1. EvaluationsKept' /\ evaluations' \subseteq Evaluation
    BY <1>1, EvaluationsStay DEF ScanInv, Types
  <2> QED BY <2>1, <1>1, <1>5, RetryableFailureKeeps
<1> QED BY <1>3, <1>4, <1>5 DEF BatchRecheck

\* The rows of a plan fit the rows of earlier attempts, and cover its sources.
LEMMA InsertKeeps ==
    ASSUME ScanInv, NEW n \in Revisions, HasPlan(n), UNCHANGED <<rules, sources>>,
           evaluations' = evaluations \union EvaluationRows(n)
    PROVE  /\ evaluations \subseteq evaluations' /\ evaluations' \subseteq Evaluation
           /\ \A e \in evaluations' : e \notin evaluations => e.rev = n
           /\ EvaluationsKept'
           /\ \A s \in Sources : Covered(n, s) \/ InPlan(n, s) => Covered(n, s)'
<1>1. /\ flows[n].plan \subseteq Item /\ PlanTrue(n)
      /\ n \in Nat /\ n <= Active /\ 1 <= n /\ Active \in Nat /\ Active' = Active
  BY FlowFields, RevisionsAre DEF HasPlan, ScanInv, Types, RowsKept, FlowsTrue, FlowTrue, Active,
     Revisions
<1>2. \A s \in Sources : sources[s].sequence \in Nat
  BY DEF ScanInv, Types, SourceRow
<1>3. \A e \in evaluations : e \in Evaluation /\ EvaluationKept(e)
  BY DEF ScanInv, Types, EvaluationsKept
<1>4. ASSUME NEW row \in EvaluationRows(n)
      PROVE  \E item \in flows[n].plan :
                /\ ItemTrue(n, item) /\ item \in Item
                /\ row \in Evaluation /\ row.rev = n /\ row.source = item.source
                /\ row.sequence = item.sequence /\ row.decision = item.decision
  <2>1. PICK item \in flows[n].plan :
           row = [rev |-> n, source |-> item.source, sequence |-> item.sequence,
                  decision |-> item.decision]
    BY DEF EvaluationRows
  <2>2. item \in Item /\ ItemTrue(n, item)
    BY <1>1 DEF PlanTrue
  <2> QED BY <2>1, <2>2 DEF Item, Evaluation
<1>5. ASSUME NEW row \in evaluations', NEW other \in evaluations', other.rev = row.rev,
             other.source = row.source, other.sequence = row.sequence
      PROVE  other.decision = row.decision
  <2>1. CASE row \in evaluations /\ other \in evaluations
    <3>1. EvaluationRow(row)
      BY <2>1, <1>3 DEF EvaluationKept
    <3> QED BY <3>1, <2>1, <1>5 DEF EvaluationRow
  <2>2. ASSUME NEW old \in evaluations, NEW new \in EvaluationRows(n), old.rev = new.rev,
               old.source = new.source, old.sequence = new.sequence
        PROVE  old.decision = new.decision
    <3>1. PICK item \in flows[n].plan :
             /\ ItemTrue(n, item) /\ new.rev = n /\ new.source = item.source
             /\ new.sequence = item.sequence /\ new.decision = item.decision
      BY <1>4
    <3>2. old \in Recorded(n, item.source)
      BY <2>2, <3>1 DEF Recorded
    <3> QED BY <2>2, <3>1, <3>2 DEF ItemTrue
  <2>3. CASE row \in EvaluationRows(n) /\ other \in EvaluationRows(n)
    <3>1. PICK a \in flows[n].plan : row.source = a.source /\ row.decision = a.decision
      BY <2>3, <1>4
    <3>2. PICK b \in flows[n].plan : other.source = b.source /\ other.decision = b.decision
      BY <2>3, <1>4
    <3>3. a = b
      BY <3>1, <3>2, <1>1, <1>5 DEF PlanTrue
    <3> QED BY <3>1, <3>2, <3>3
  <2> QED BY <2>1, <2>2, <2>3, <1>5
<1>6. ASSUME NEW row \in evaluations' PROVE row \in Evaluation
  BY <1>3, <1>4
<1>7. ASSUME NEW row \in evaluations' PROVE EvaluationKept(row)'
  <2>1. \A other \in evaluations' :
           other.rev = row.rev /\ other.source = row.source /\ other.sequence = row.sequence
             => other = row
    BY <1>5, <1>6 DEF Evaluation
  <2>2. CASE row \in evaluations
    <3>1. EvaluationKept(row)
      BY <2>2, <1>3
    <3>2. EvaluationRow(row)'
      BY <2>1, <3>1, <1>1 DEF EvaluationKept, EvaluationRow
    <3> QED BY <3>1, <3>2 DEF EvaluationKept, Evaluate
  <2>3. CASE row \in EvaluationRows(n)
    <3>1. PICK item \in flows[n].plan :
             /\ ItemTrue(n, item) /\ item \in Item /\ row.rev = n /\ row.source = item.source
             /\ row.sequence = item.sequence /\ row.decision = item.decision
      BY <2>3, <1>4
    <3>2. /\ item.source \in Sources /\ item.decision \in Decisions /\ item.sequence \in Nat
          /\ item.sequence >= 1 /\ item.sequence <= sources[item.source].sequence
      BY <3>1, <1>2 DEF Item, ItemTrue
    <3>3. EvaluationRow(row)'
      BY <2>1, <3>1, <3>2, <1>1 DEF EvaluationRow, Decisions
    <3> QED BY <3>1, <3>2, <3>3 DEF EvaluationKept, ItemTrue, Evaluate
  <2> QED BY <2>2, <2>3
<1>8. ASSUME NEW s \in Sources, Covered(n, s) \/ InPlan(n, s) PROVE Covered(n, s)'
  <2>1. CASE Covered(n, s)
    BY <2>1 DEF Covered, Present, Exists, Recorded
  <2>2. CASE InPlan(n, s)
    <3>1. PICK item \in flows[n].plan : item.source = s
      BY <2>2 DEF InPlan
    <3> DEFINE row == [rev |-> n, source |-> item.source, sequence |-> item.sequence,
                       decision |-> item.decision]
    <3>2. row \in evaluations' /\ row.rev = n /\ row.source = s
      BY <3>1 DEF EvaluationRows
    <3> HIDE DEF row
    <3>3. row \in Recorded(n, s)'
      BY <3>2 DEF Recorded
    <3> QED BY <3>3 DEF Covered
  <2> QED BY <2>1, <2>2, <1>8
<1>9. \A e \in evaluations' : e \notin evaluations => e.rev = n
  BY <1>4
<1> QED BY <1>6, <1>7, <1>8, <1>9 DEF EvaluationsKept

\* A page that is committed and full takes the scan to its last source, and one
\* that is not full ends it.
LEMMA AfterBatchIsTrue ==
    ASSUME ScanInv, NEW n \in Revisions, HasPlan(n),
           \A s \in Sources : Covered(n, s) \/ InPlan(n, s) => Covered(n, s)',
           flows'[n] = AfterBatch(n)
    PROVE  AfterBatch(n) \in Scanning /\ FlowTrue(n)'
<1>1. /\ flows[n].plan \subseteq Item /\ flows[n].after \in Nat
      /\ flows[n].status = "running" /\ ScanCovers(n)
  BY FlowFields DEF HasPlan, ScanInv, Types, FlowsTrue, FlowTrue
<1> DEFINE seen == {item.source : item \in flows[n].plan}
<1>2. seen \subseteq Sources
  BY <1>1 DEF Item
<1>3. HasMore(n) => LastSource(n) \in seen
  <2> SUFFICES ASSUME HasMore(n) PROVE LastSource(n) \in seen
    OBVIOUS
  <2>1. flows[n].plan # {}
    BY PageSizeAssumption, FS_EmptySet DEF HasMore
  <2>2. seen # {} /\ seen \subseteq Nat /\ IsFiniteSet(seen)
    <3>1. seen # {} /\ seen \subseteq Nat
      BY <2>1, <1>2, SourcesAssumption
    <3> HIDE DEF seen
    <3> QED BY <3>1, <1>2, SourcesAssumption, FS_Subset
  <2>3. LastSource(n) = Max(seen)
    BY DEF LastSource
  <2> HIDE DEF seen
  <2> QED BY <2>2, <2>3, FiniteGreatest
<1>4. HasMore(n) => LastSource(n) \in Nat
  <2> HIDE DEF seen
  <2> QED BY <1>2, <1>3, SourcesAssumption
<1>5. AfterBatch(n) \in Scanning
  BY <1>1, <1>4 DEF AfterBatch, Scanning
<1>6. ASSUME NEW s \in Sources, s <= AfterBatch(n).after \/ AfterBatch(n).pc = "complete"
      PROVE  Covered(n, s)'
  <2>1. Covered(n, s) \/ InPlan(n, s) \/ Ahead(n, s)
    BY <1>1 DEF ScanCovers
  <2>2. CASE HasMore(n)
    <3>1. s <= LastSource(n) /\ LastSource(n) \in Nat /\ s \in Nat
      BY <2>2, <1>4, <1>6, SourcesAssumption DEF AfterBatch
    <3>2. PICK item \in flows[n].plan : item.source = LastSource(n)
      BY <2>2, <1>3
    <3>3. ~Ahead(n, s)
      BY <3>1, <3>2 DEF Ahead
    <3> QED BY <2>1, <3>3
  <2>3. CASE ~HasMore(n)
    BY <2>1, <2>3 DEF Ahead
  <2> QED BY <2>2, <2>3
<1>7. AfterBatch(n).pc \in {"scan", "complete"}
  BY DEF AfterBatch
<1> QED BY <1>5, <1>6, <1>7 DEF FlowTrue, ScanCovers, HasPlan

LEMMA BatchCommitKeeps ==
    ASSUME ScanInv, NEW n \in Revisions, BatchCommit(n) PROVE ScanInv'
<1>1. /\ flows[n].status = "running" /\ HasPlan(n)
      /\ UNCHANGED <<sourceVars, audits, leases, lost>> /\ UNCHANGED <<rules, sources>>
  BY DEF BatchCommit, Running, sourceVars, HasPlan
<1>2. flows \in [Revisions -> Flow]
  BY DEF ScanInv, Types
<1>3. CASE InsertBatch(n) /\ flows' = [flows EXCEPT ![n] = AfterBatch(n)] /\ UNCHANGED intents
  <2>1. evaluations' = evaluations \union EvaluationRows(n)
    BY <1>3 DEF InsertBatch
  <2>2. /\ evaluations \subseteq evaluations' /\ evaluations' \subseteq Evaluation
        /\ \A e \in evaluations' : e \notin evaluations => e.rev = n
        /\ EvaluationsKept'
        /\ \A s \in Sources : Covered(n, s) \/ InPlan(n, s) => Covered(n, s)'
    BY <2>1, <1>1, InsertKeeps
  <2>3. flows'[n] = AfterBatch(n) /\ AfterBatch(n).status = "running"
    BY <1>2, <1>3 DEF AfterBatch
  <2>4. AfterBatch(n) \in Flow /\ FlowTrue(n)'
    BY <2>2, <2>3, <1>1, AfterBatchIsTrue DEF Flow
  <2> QED BY <2>2, <2>3, <2>4, <1>1, <1>3, ScanFrame
<1>4. CASE /\ InsertBatch(n) \/ UNCHANGED <<evaluations, transitions>>
           /\ RetryableFailure(n)
  <2>1. CASE InsertBatch(n)
    <3>1. evaluations' = evaluations \union EvaluationRows(n)
      BY <2>1 DEF InsertBatch
    <3>2. /\ evaluations \subseteq evaluations' /\ evaluations' \subseteq Evaluation
          /\ \A e \in evaluations' : e \notin evaluations => e.rev = n
          /\ EvaluationsKept'
      BY <3>1, <1>1, InsertKeeps
    <3> QED BY <3>2, <1>1, <1>4, RetryableFailureKeeps
  <2>2. CASE UNCHANGED <<evaluations, transitions>>
    <3>1. EvaluationsKept' /\ evaluations' \subseteq Evaluation
      BY <2>2, <1>1, EvaluationsStay DEF ScanInv, Types
    <3> QED BY <3>1, <2>2, <1>1, <1>4, RetryableFailureKeeps
  <2> QED BY <2>1, <2>2, <1>4
<1>5. CASE /\ flows' = [flows EXCEPT ![n] = Failing] /\ FailReconciliation(n, FALSE)
           /\ UNCHANGED <<evaluations, transitions>>
  <2>1. Failing \in Flow /\ Failing.status = "failing"
    BY DEF Failing, Flow, Ended
  <2>2. FlowTrue(n)'
    BY <2>1, <1>2, <1>5, FlowEnds
  <2>3. \E retryable : intents' = FailDispatched(n, retryable)
    BY <1>5 DEF FailReconciliation
  <2> QED BY <2>1, <2>2, <2>3, <1>1, <1>5, QuietScan DEF resultVars
<1> QED BY <1>3, <1>4, <1>5 DEF BatchCommit

LEMMA AttemptLostKeeps ==
    ASSUME ScanInv, NEW n \in Revisions, AttemptLost(n) PROVE ScanInv'
<1>1. /\ flows[n].status = "running"
      /\ UNCHANGED <<sourceVars, resultVars, intents, leases>>
      /\ UNCHANGED <<rules, sources, evaluations>>
  BY DEF AttemptLost, sourceVars, resultVars
<1>2. flows \in [Revisions -> Flow]
  BY DEF ScanInv, Types
<1>3. CASE /\ flows' = [flows EXCEPT ![n] = [NextAttempt(n) EXCEPT !.pc =
                           IF flows[n].pc = "complete" THEN "complete" ELSE "scan"]]
           /\ UNCHANGED lost
  <2>1. PICK next \in Scanning : next = NextAttempt(n)
    BY <1>1, NextAttemptFields
  <2> DEFINE flow == [next EXCEPT !.pc = IF flows[n].pc = "complete" THEN "complete" ELSE "scan"]
  <2>2. /\ flow \in Scanning /\ flow.status = "running" /\ flow.after = next.after
        /\ flow.pc = "scan" \/ (flow.pc = "complete" /\ flows[n].pc = "complete")
    BY DEF Scanning
  <2>3. flows' = [flows EXCEPT ![n] = flow] /\ flows'[n] = flow
    BY <2>1, <1>2, <1>3
  <2>4. next.after = flows[n].after
    BY <2>1, <1>1, NextAttemptFields
  <2> HIDE DEF flow
  <2>5. FlowTrue(n)'
    BY <2>2, <2>3, <2>4, <1>1, NextAttemptIsTrue
  <2> QED BY <2>2, <2>3, <2>5, <1>1, <1>3, QuietScan DEF Flow
<1>4. CASE flows' = [flows EXCEPT ![n] = Failing] /\ lost' = lost \union {n}
  <2>1. Failing \in Flow /\ Failing.status = "failing"
    BY DEF Failing, Flow, Ended
  <2>2. FlowTrue(n)'
    BY <2>1, <1>2, <1>4, FlowEnds
  <2> QED BY <2>1, <2>2, <1>1, <1>4, QuietScan
<1> QED BY <1>3, <1>4 DEF AttemptLost

\* The audit is written when the whole scan is behind the workflow.
LEMMA CompleteKeeps ==
    ASSUME ScanInv, NEW n \in Revisions, CompleteReconciliation(n) PROVE ScanInv'
<1> DEFINE flow == [status |-> "completed"]
<1>1. /\ flows[n].status = "running" /\ flows[n].pc = "complete"
      /\ audits' = audits \union {n} /\ flows' = [flows EXCEPT ![n] = flow]
      /\ UNCHANGED <<sourceVars, evaluations, transitions, intents, leases, lost>>
      /\ UNCHANGED <<rules, sources, evaluations>>
  BY DEF CompleteReconciliation, Running, sourceVars, FinishFlow
<1>2. flow \in Flow /\ flow.status = "completed"
  BY DEF Flow, Ended
<1>3. flows'[n] = flow
  BY <1>1 DEF ScanInv, Types
<1>4. FlowTrue(n)'
  BY <1>2, <1>3, FlowEnds
<1>5. \A s \in Sources : Covered(n, s)
  BY <1>1 DEF ScanInv, FlowsTrue, FlowTrue, ScanCovers
<1>6. \A s \in Sources : Covered(n, s)'
  BY <1>1, <1>5 DEF Covered, Present, Exists, Recorded
<1>7. EvaluationsKept' /\ evaluations' \subseteq Evaluation
  BY <1>1, EvaluationsStay DEF ScanInv, Types
<1> HIDE DEF flow
<1> QED BY <1>1, <1>2, <1>4, <1>6, <1>7, ScanFrame

LEMMA EndFlowKeeps ==
    ASSUME ScanInv, NEW n \in Revisions, EndFlow(n) PROVE ScanInv'
<1> DEFINE flow == [status |-> "failed"]
<1>1. /\ flows[n].status = "failing" /\ flows' = [flows EXCEPT ![n] = flow]
      /\ UNCHANGED <<sourceVars, resultVars, intents, leases, lost>>
  BY DEF EndFlow
<1>2. flow \in Flow /\ flow.status = "failed"
  BY DEF Flow, Ended
<1>3. flows'[n] = flow
  BY <1>1 DEF ScanInv, Types
<1>4. FlowTrue(n)'
  BY <1>2, <1>3, FlowEnds
<1> HIDE DEF flow
<1> QED BY <1>1, <1>2, <1>4, QuietScan

-------------------------------------------------------------------------------
(* Theorems.                                                               *)

LEMMA StutterKeeps ==
    ASSUME ScanInv, UNCHANGED vars PROVE ScanInv'
<1>1. /\ UNCHANGED <<rules, sources, evaluations, intents, audits, leases, flows, lost>>
      /\ Active' = Active
  BY DEF vars, Active
<1>2. Types' /\ RowsKept' /\ LossKept'
  BY <1>1 DEF ScanInv, Types, RowsKept, IntentRow, LossKept, Promised, HoldsLease
<1>3. EvaluationsKept' /\ AuditsTrue'
  BY <1>1, EvaluationsStay, CoverageStays
<1>4. FlowsTrue'
  BY <1>1, FlowStays DEF FlowsTrue
<1> QED BY <1>2, <1>3, <1>4 DEF ScanInv

LEMMA NextKeeps ==
    ASSUME ScanInv, [Next]_vars PROVE ScanInv'
<1>1. CASE PublishRevision
  BY <1>1, PublishKeeps
<1>2. ASSUME NEW s \in Sources, WriteSource(s) PROVE ScanInv'
  BY <1>2, WrittenKeeps DEF WriteSource
<1>3. ASSUME NEW s \in Sources, LifecycleSource(s) PROVE ScanInv'
  BY <1>3, WrittenKeeps DEF LifecycleSource
<1>4. CASE Dispatching
  BY <1>4, ClaimKeeps, StartKeeps, AcknowledgeKeeps, ReleaseKeeps, CrashKeeps, ReclaimKeeps
     DEF Dispatching
<1>5. CASE Scan
  BY <1>5, BatchReadKeeps, BatchRecheckKeeps, BatchCommitKeeps, AttemptLostKeeps, CompleteKeeps,
     EndFlowKeeps DEF Scan
<1>6. CASE UNCHANGED vars
  BY <1>6, StutterKeeps
<1> QED BY <1>1, <1>2, <1>3, <1>4, <1>5, <1>6 DEF Next, Quiet

\* The inductive invariant holds through every retry, restart, lost answer and
\* concurrent write.
THEOREM ScanInvHolds == Spec => []ScanInv
<1>1. Init => ScanInv
  BY InitHolds
<1>2. ScanInv /\ [Next]_vars => ScanInv'
  BY NextKeeps
<1> QED BY <1>1, <1>2, PTL DEF Spec

\* A completed scan covered every source with no tombstone, what it wrote down
\* is true of the event it names, and an intent is stuck only when its last
\* attempt was lost.
THEOREM ScanIsSafe == Spec => []ScanSafe
<1>1. ScanInv => TypeOK
  <2> SUFFICES ASSUME ScanInv PROVE TypeOK
    OBVIOUS
  <2>1. \A n \in Revisions :
           flows[n].status \in {"none", "running", "failing", "failed", "completed"}
    BY FlowFields DEF ScanInv, Types
  <2> QED BY <2>1 DEF ScanInv, RowsKept, EvaluationsKept, EvaluationKept, TypeOK
<1>2. ScanInv => CompletionCovers
  BY DEF ScanInv, AuditsTrue, Covered, CompletionCovers
<1>3. ScanInv => EvaluationTrue
  BY DEF ScanInv, EvaluationsKept, EvaluationKept, EvaluationTrue
<1>4. ScanInv => StuckOnlyWhenLost
  BY DEF ScanInv, LossKept, Promised, StuckOnlyWhenLost
<1> QED BY <1>1, <1>2, <1>3, <1>4, ScanInvHolds, PTL DEF ScanSafe

\* A terminal intent is not touched by a late claim, acknowledgement, release or
\* failure of its workflow.
THEOREM TerminalStaysFinal == Spec => TerminalIsFinal
<1>1. ASSUME ScanInv, [Next]_vars, NEW n \in Revisions, intents[n].state = "terminal"
      PROVE  intents'[n] = intents[n]
  <2> USE IntentFields, <1>1
  <2>1. \A d : ~HoldsLease(n, d)
    BY DEF HoldsLease
  <2>2. CASE PublishRevision
    <3>1. n <= Active /\ n # Active + 1
      OBVIOUS
    <3> QED BY <3>1, <2>2 DEF PublishRevision
  <2>3. CASE \E s \in Sources : WriteSource(s) \/ LifecycleSource(s)
    BY <2>3 DEF WriteSource, LifecycleSource
  <2>4. ASSUME NEW d \in Dispatchers,
               ClaimPending(d) \/ StartWorkflow(d) \/ CrashDispatcher(d)
        PROVE  intents'[n] = intents[n]
    BY <2>4 DEF ClaimPending, Claimable, LeaseUpdate, StartWorkflow, CrashDispatcher
  <2>5. ASSUME NEW d \in Dispatchers, AcknowledgeDispatched(d) \/ ReleaseRetry(d)
        PROVE  intents'[n] = intents[n]
    BY <2>1, <2>5 DEF AcknowledgeDispatched, ReleaseRetry, BackToPending
  <2>6. ASSUME NEW m \in Revisions, ReclaimExpired(m) PROVE intents'[n] = intents[n]
    BY <2>6 DEF ReclaimExpired, BackToPending
  <2>7. ASSUME NEW m \in Revisions, NEW retryable, FailReconciliation(m, retryable)
        PROVE  intents'[n] = intents[n]
    BY <2>7 DEF FailReconciliation, FailDispatched
  <2>8. ASSUME NEW m \in Revisions, RetryableFailure(m) PROVE intents'[n] = intents[n]
    BY <2>7, <2>8 DEF RetryableFailure
  <2>9. CASE Scan
    BY <2>7, <2>8, <2>9 DEF Scan, BatchRead, BatchRecheck, BatchCommit, AttemptLost,
       CompleteReconciliation, EndFlow
  <2>10. CASE UNCHANGED vars
    BY <2>10 DEF vars
  <2> QED BY <2>2, <2>3, <2>4, <2>5, <2>6, <2>9, <2>10, <1>1 DEF Next, Dispatching, Quiet
<1>2. ScanInv /\ [Next]_vars =>
         [\A n \in Revisions : intents[n].state = "terminal" => intents'[n] = intents[n]]_vars
  BY <1>1
<1> QED BY <1>2, ScanInvHolds, PTL DEF Spec, TerminalIsFinal

-------------------------------------------------------------------------------
(* From the draft to a published revision.                                 *)

CONSTANTS Rules, Previews, Slots, Keys, MaxVersion, MaxWorld, MaxConflict, MaxRequests

VARIABLES draft, revisions, revisionIntents, previews, world, conflicts, locked, slots,
          previewLeases, previewFlows, requests, previewFaults

Pub == INSTANCE PolicyPublishing WITH
        intents <- revisionIntents, leases <- previewLeases, flows <- previewFlows,
        faults <- previewFaults

-------------------------------------------------------------------------------
(* The inductive invariant.                                                *)

DraftRecord == [version : 1..MaxVersion, rules : Rules, base : 0..MaxRevision]
Digest == [kind : {"digest"}, rules : Rules, previous : 0..MaxRevision, world : 0..MaxWorld]
RowStates == {"pending", "leased", "ready", "failed", "expired", "consumed"}
Row == [state : RowStates, version : 1..MaxVersion, sha : Rules, base : 0..MaxRevision,
        checkpoint : Nat, digest : Digest \union {Pub!None}, token : Dispatchers \union {0}]
Snap == [kind : {"snapshot"}, row : Row, draft : DraftRecord, active : 0..MaxRevision,
         checkpoint : Nat, world : 0..MaxWorld]
PreviewFlow == [state : {"none", "running", "completed", "failed"}, attempt : 1..MaxAttempts,
                snap : Snap \union {Pub!None}]
Cmd == [preview : Previews, key : Keys, version : 1..MaxVersion, sha : Rules, digest : Digest,
        active : 0..MaxRevision]
Revision == [rules : Rules, parent : 0..MaxRevision, checkpoint : Nat, cmd : Cmd, world : 0..MaxWorld]

ReplacedAnswer == [result : {"replaced"}, version : 1..MaxVersion, rules : Rules]
PublishedAnswer == [result : {"published"}, cmd : Cmd, revision : 1..MaxRevision]
OtherAnswer == [result : {"draft_conflict", "idempotency_mismatch", "rejected", "signing_unavailable"}]

Replacing == [kind : {"replace", "replace_unknown"}, version : 1..MaxVersion, rules : Rules]
Binding == [kind : {"binding"}, preview : Previews, version : 1..MaxVersion, base : 0..MaxRevision]
Committing == [kind : {"resolve", "publish", "locked", "publish_unknown"}, preview : Previews, cmd : Cmd]
Answered == [kind : {"answered"}, what : ReplacedAnswer \union PublishedAnswer \union OtherAnswer]
Slot == {Pub!None} \union Replacing \union Binding \union Committing \union Answered

PublishingTypes ==
    /\ draft \in DraftRecord
    /\ revisions \in Seq(Revision) /\ Len(revisions) <= MaxRevision
    /\ revisionIntents = 1..Pub!Active
    /\ previews \in [Previews -> Row \union {Pub!Absent}]
    /\ world \in 0..MaxWorld /\ conflicts \in 0..MaxConflict
    /\ locked \in Slots \union {0}
    /\ slots \in [Slots -> Slot]
    /\ previewLeases \in [Dispatchers -> Previews \union {0}]
    /\ previewFlows \in [Previews -> PreviewFlow]
    /\ requests \in 0..MaxRequests /\ previewFaults \in 0..MaxFaults

\* The rules and the base of a draft are those of its version: a row that names the
\* present version was bound to the present rules, even though its version and its rules
\* were read in two statements.  A digest tells what its row was bound to, and the
\* sources it was computed over are told by its checkpoint.
RowTrue(r) ==
    /\ r.version <= draft.version
    /\ r.version = draft.version => r.sha = draft.rules /\ r.base = draft.base
    /\ (r.state = "leased") = (r.token # 0)
    /\ r.state \in {"pending", "leased", "failed"} => r.digest = Pub!None
    /\ r.state \in {"ready", "consumed"} => r.digest # Pub!None
    /\ r.digest # Pub!None =>
          /\ r.digest.rules = r.sha /\ r.digest.previous = r.base
          /\ r.digest.world <= r.checkpoint /\ r.digest.world <= world
          /\ r.checkpoint - r.digest.world <= conflicts

\* What an attempt read in its snapshot belongs together.
SnapTrue(x) ==
    /\ x.row.state \in {"pending", "leased"}
    /\ x.draft.version = x.row.version => x.draft.rules = x.row.sha
    /\ x.world <= x.checkpoint /\ x.world <= world
    /\ x.checkpoint - x.world <= conflicts

\* What a request knows between two transactions: a preview that is to be inserted has no
\* row, and an answer on its way is still true.
SlotTrue(k) ==
    /\ k.kind \in {"replace", "replace_unknown"} => k.version < MaxVersion
    /\ k.kind = "binding" =>
          /\ previews[k.preview] = Pub!Absent
          /\ k.version <= draft.version
          /\ k.version = draft.version => k.base = draft.base
    /\ k.kind \in {"resolve", "publish", "locked", "publish_unknown"} => k.cmd.preview = k.preview
    /\ k.kind = "answered" =>
          /\ k.what.result = "published" =>
                k.what.revision \in 1..Pub!Active /\ revisions[k.what.revision].cmd = k.what.cmd
          /\ k.what.result = "replaced" =>
                /\ k.what.version <= draft.version
                /\ k.what.version = draft.version => k.what.rules = draft.rules

BindingsApart ==
    \A s, t \in Slots :
       slots[s].kind = "binding" /\ slots[t].kind = "binding" /\ slots[s].preview = slots[t].preview
          => s = t

\* What a publication has rechecked holds until it commits, because of the locks it holds.
LockedTrue(k) ==
    LET r == previews[k.preview] IN
    /\ Pub!Active < MaxRevision /\ draft.version < MaxVersion
    /\ r.state = "ready" /\ r.version = draft.version
    /\ r.digest.world = world

\* A revision is what its consumed preview says, and no other revision has that preview.
RevisionTrue(n) ==
    LET r == revisions[n]
        p == previews[r.cmd.preview]
    IN /\ r.parent = n - 1
       /\ p.state = "consumed"
       /\ p.digest = [kind |-> "digest", rules |-> r.rules, previous |-> n - 1, world |-> r.world]
       /\ \A m \in 1..Pub!Active : revisions[m].cmd.preview = r.cmd.preview => m = n

RowsTrue == \A p \in Previews : previews[p] # Pub!Absent => RowTrue(previews[p])
PreviewFlowsTrue == \A p \in Previews : previewFlows[p].snap # Pub!None => SnapTrue(previewFlows[p].snap)
SlotsTrue == (\A s \in Slots : SlotTrue(slots[s])) /\ BindingsApart
LockTrue ==
    /\ \A s \in Slots : slots[s].kind = "locked" <=> locked = s
    /\ locked # 0 => LockedTrue(slots[locked])
RevisionsTrue == \A n \in 1..Pub!Active : RevisionTrue(n)

PublishingInv ==
    /\ PublishingTypes /\ draft.base = Pub!Active
    /\ RowsTrue /\ PreviewFlowsTrue /\ SlotsTrue /\ LockTrue /\ RevisionsTrue

-------------------------------------------------------------------------------
(* Facts about the records.                                                *)

\* A slot is of the shape its kind says.
LEMMA SlotKinds ==
    ASSUME NEW k \in Slot
    PROVE  /\ k.kind = "none" => k = Pub!None
           /\ k.kind \in {"replace", "replace_unknown"} => k \in Replacing
           /\ k.kind = "binding" => k \in Binding
           /\ k.kind \in {"resolve", "publish", "locked", "publish_unknown"} => k \in Committing
           /\ k.kind = "answered" => k \in Answered
           /\ k.kind \in {"none", "replace", "replace_unknown", "binding", "resolve", "publish", "locked",
                          "publish_unknown", "answered"}
<1>1. CASE k = Pub!None
  BY <1>1 DEF Pub!None
<1>2. CASE k \in Replacing
  BY <1>2 DEF Replacing
<1>3. CASE k \in Binding
  BY <1>3 DEF Binding
<1>4. CASE k \in Committing
  BY <1>4 DEF Committing
<1>5. CASE k \in Answered
  BY <1>5 DEF Answered
<1> QED BY <1>1, <1>2, <1>3, <1>4, <1>5 DEF Slot

\* A row is there when its state says so.
LEMMA RowOrAbsent ==
    ASSUME NEW r \in Row \union {Pub!Absent}
    PROVE  /\ r # Pub!Absent => r \in Row
           /\ r = Pub!Absent => r.state = "absent"
           /\ r.state # "absent" => r \in Row /\ r # Pub!Absent
           /\ r \in Row => r # Pub!Absent /\ r.state \in RowStates
<1>1. Pub!Absent.state = "absent"
  BY DEF Pub!Absent
<1>2. \A x \in Row : x.state \in RowStates
  BY DEF Row
<1>3. "absent" \notin RowStates
  BY DEF RowStates
<1> QED BY <1>1, <1>2, <1>3

LEMMA NoneIsNothing ==
    /\ Pub!None \notin Digest /\ Pub!None \notin Snap /\ Pub!None \in Slot /\ Pub!None.kind = "none"
<1>1. Pub!None.kind = "none"
  BY DEF Pub!None
<1>2. Pub!None \notin Digest
  BY <1>1 DEF Digest
<1>3. Pub!None \notin Snap
  BY <1>1 DEF Snap
<1> QED BY <1>1, <1>2, <1>3 DEF Slot

\* A step counts a fault or a request within their bounds.
LEMMA CountersKept ==
    ASSUME Pub!PublishingConstants, PublishingTypes
    PROVE  /\ Pub!Fault => previewFaults' \in 0..MaxFaults
           /\ Pub!Ask => requests' \in 0..MaxRequests
           /\ previewFaults' = previewFaults => previewFaults' \in 0..MaxFaults
           /\ requests' = requests => requests' \in 0..MaxRequests
BY DEF Pub!PublishingConstants, PublishingTypes, Pub!Fault, Pub!Ask

\* What the invariant says of a preview and of its workflow.
LEMMA PreviewKnown ==
    ASSUME PublishingInv, NEW p \in Previews
    PROVE  /\ previews \in [Previews -> Row \union {Pub!Absent}] /\ previews[p] \in Row \union {Pub!Absent}
           /\ previews[p] # Pub!Absent => previews[p] \in Row /\ RowTrue(previews[p])
           /\ previews[p].state # "absent" => previews[p] # Pub!Absent
           /\ previewFlows \in [Previews -> PreviewFlow] /\ previewFlows[p] \in PreviewFlow
           /\ previewFlows[p].snap # Pub!None => previewFlows[p].snap \in Snap /\ SnapTrue(previewFlows[p].snap)
<1>1. previews[p] \in Row \union {Pub!Absent} /\ previewFlows[p] \in PreviewFlow
  BY DEF PublishingInv, PublishingTypes
<1>2. previewFlows[p].snap \in Snap \union {Pub!None}
  BY <1>1 DEF PreviewFlow
<1> QED BY <1>1, <1>2, RowOrAbsent DEF PublishingInv, PublishingTypes, RowsTrue, PreviewFlowsTrue

LEMMA SlotKnown ==
    ASSUME PublishingInv, NEW s \in Slots
    PROVE  /\ slots \in [Slots -> Slot] /\ slots[s] \in Slot /\ SlotTrue(slots[s])
           /\ slots[s].kind = "locked" <=> locked = s
BY DEF PublishingInv, PublishingTypes, SlotsTrue, LockTrue

-------------------------------------------------------------------------------
(* What a step of one part leaves to the others.                           *)

\* A step of a request that is not at its commit.
LEMMA SlotFrame ==
    ASSUME PublishingInv, NEW s \in Slots, NEW k \in Slot, slots' = [slots EXCEPT ![s] = k], SlotTrue(k),
           k.kind = "binding" =>
              \A t \in Slots : t # s /\ slots[t].kind = "binding" => slots[t].preview # k.preview,
           slots[s].kind # "locked", k.kind # "locked",
           UNCHANGED <<draft, revisions, revisionIntents, previews, locked, Pub!sourceVars, Pub!workerVars>>,
           requests' \in 0..MaxRequests, previewFaults' \in 0..MaxFaults
    PROVE  PublishingInv'
<1>1. PublishingTypes /\ draft.base = Pub!Active /\ RowsTrue /\ PreviewFlowsTrue /\ SlotsTrue /\ LockTrue /\ RevisionsTrue
  BY DEF PublishingInv
<1>2. /\ draft' = draft /\ revisions' = revisions /\ revisionIntents' = revisionIntents /\ previews' = previews
      /\ locked' = locked /\ world' = world /\ conflicts' = conflicts /\ previewLeases' = previewLeases /\ previewFlows' = previewFlows
  BY DEF Pub!sourceVars, Pub!workerVars
<1>3. slots \in [Slots -> Slot]
  BY <1>1 DEF PublishingTypes
<1>4. \A t \in Slots : slots'[t] = IF t = s THEN k ELSE slots[t]
  BY <1>3
<1>5. PublishingTypes'
  <2>1. slots' \in [Slots -> Slot]
    BY <1>3
  <2> QED BY <1>1, <1>2, <2>1 DEF PublishingTypes, Pub!Active
<1>6. draft'.base = Pub!Active'
  BY <1>1, <1>2 DEF Pub!Active
<1>7. RowsTrue' /\ PreviewFlowsTrue'
  BY <1>1, <1>2 DEF RowsTrue, PreviewFlowsTrue, RowTrue, SnapTrue
<1>8. SlotsTrue'
  <2>1. ASSUME NEW t \in Slots PROVE SlotTrue(slots[t])'
    <3>1. SlotTrue(slots'[t])
      BY <1>1, <1>4 DEF SlotsTrue
    <3> QED BY <1>2, <3>1 DEF SlotTrue, Pub!Active
  <2>2. BindingsApart'
    BY <1>1, <1>4 DEF BindingsApart, SlotsTrue
  <2> QED BY <2>1, <2>2 DEF SlotsTrue
<1>9. LockTrue'
  <2>1. \A t \in Slots : slots'[t].kind = "locked" <=> locked' = t
    BY <1>1, <1>2, <1>4 DEF LockTrue
  <2>2. locked' # 0 => LockedTrue(slots[locked])'
    <3>1. SUFFICES ASSUME locked # 0 PROVE LockedTrue(slots[locked])'
      BY <1>2
    <3>2. locked \in Slots /\ locked # s
      BY <1>1, <3>1 DEF PublishingTypes, LockTrue
    <3>3. slots'[locked] = slots[locked]
      BY <1>4, <3>2
    <3> QED BY <1>1, <1>2, <3>1, <3>3 DEF LockTrue, LockedTrue, Pub!Active
  <2> QED BY <2>1, <2>2 DEF LockTrue
<1>10. RevisionsTrue'
  BY <1>1, <1>2 DEF RevisionsTrue, RevisionTrue, Pub!Active
<1> QED BY <1>5, <1>6, <1>7, <1>8, <1>9, <1>10 DEF PublishingInv

\* A step that changes workflows and leases only.
LEMMA FlowFrame ==
    ASSUME PublishingInv, UNCHANGED <<Pub!ownerVars, previews, Pub!sourceVars>>,
           previewLeases' \in [Dispatchers -> Previews \union {0}], previewFlows' \in [Previews -> PreviewFlow], PreviewFlowsTrue',
           previewFaults' \in 0..MaxFaults
    PROVE  PublishingInv'
<1>1. PublishingTypes /\ draft.base = Pub!Active /\ RowsTrue /\ SlotsTrue /\ LockTrue /\ RevisionsTrue
  BY DEF PublishingInv
<1>2. /\ draft' = draft /\ revisions' = revisions /\ revisionIntents' = revisionIntents /\ previews' = previews /\ slots' = slots
      /\ locked' = locked /\ world' = world /\ conflicts' = conflicts /\ requests' = requests
  BY DEF Pub!sourceVars, Pub!ownerVars
<1>3. PublishingTypes' /\ draft'.base = Pub!Active'
  BY <1>1, <1>2 DEF PublishingTypes, Pub!Active
<1>4. RowsTrue'
  BY <1>1, <1>2 DEF RowsTrue, RowTrue
<1>5. SlotsTrue'
  BY <1>1, <1>2 DEF SlotsTrue, SlotTrue, BindingsApart, Pub!Active
<1>6. LockTrue'
  BY <1>1, <1>2 DEF LockTrue, LockedTrue, Pub!Active
<1>7. RevisionsTrue'
  BY <1>1, <1>2 DEF RevisionsTrue, RevisionTrue, Pub!Active
<1> QED BY <1>3, <1>4, <1>5, <1>6, <1>7 DEF PublishingInv

\* A step that also changes one preview row, which nobody holds a lock on.
LEMMA RowFrame ==
    ASSUME PublishingInv, NEW p \in Previews, NEW r \in Row, RowTrue(r),
           previews[p] # Pub!Absent, previews[p].state # "consumed", Pub!PreviewFree(p),
           previews' = [previews EXCEPT ![p] = r], UNCHANGED <<Pub!ownerVars, Pub!sourceVars>>,
           previewLeases' \in [Dispatchers -> Previews \union {0}], previewFlows' \in [Previews -> PreviewFlow], PreviewFlowsTrue',
           previewFaults' \in 0..MaxFaults
    PROVE  PublishingInv'
<1>1. PublishingTypes /\ draft.base = Pub!Active /\ RowsTrue /\ SlotsTrue /\ LockTrue /\ RevisionsTrue
  BY DEF PublishingInv
<1>2. /\ draft' = draft /\ revisions' = revisions /\ revisionIntents' = revisionIntents /\ slots' = slots
      /\ locked' = locked /\ world' = world /\ conflicts' = conflicts /\ requests' = requests
  BY DEF Pub!sourceVars, Pub!ownerVars
<1>3. previews \in [Previews -> Row \union {Pub!Absent}]
  BY <1>1 DEF PublishingTypes
<1>4. \A q \in Previews : previews'[q] = IF q = p THEN r ELSE previews[q]
  BY <1>3
<1>5. PublishingTypes' /\ draft'.base = Pub!Active'
  <2>1. previews' \in [Previews -> Row \union {Pub!Absent}]
    BY <1>3
  <2> QED BY <1>1, <1>2, <2>1 DEF PublishingTypes, Pub!Active
<1>6. RowsTrue'
  <2>1. ASSUME NEW q \in Previews, previews'[q] # Pub!Absent PROVE RowTrue(previews[q])'
    <3>1. RowTrue(previews'[q])
      BY <1>1, <1>4, <2>1 DEF RowsTrue
    <3> QED BY <1>2, <3>1 DEF RowTrue
  <2> QED BY <2>1 DEF RowsTrue
<1>7. SlotsTrue'
  <2>1. ASSUME NEW t \in Slots PROVE SlotTrue(slots[t])'
    <3>1. slots[t] \in Slot /\ SlotTrue(slots[t])
      BY SlotKnown
    <3>2. slots[t].kind = "binding" => slots[t].preview \in Previews
      BY <3>1, SlotKinds DEF Binding
    <3>3. slots[t].kind = "binding" => previews'[slots[t].preview] = Pub!Absent
      BY <1>4, <3>1, <3>2 DEF SlotTrue
    <3> QED BY <1>2, <3>1, <3>3 DEF SlotTrue, Pub!Active
  <2> QED BY <1>1, <1>2, <2>1 DEF SlotsTrue, BindingsApart
<1>8. LockTrue'
  <2>1. locked # 0 => LockedTrue(slots[locked])'
    <3>1. SUFFICES ASSUME locked # 0 PROVE LockedTrue(slots[locked])'
      OBVIOUS
    <3>2. locked \in Slots
      BY <1>1, <3>1 DEF PublishingTypes
    <3>3. slots[locked] \in Committing
      BY <3>2, SlotKnown, SlotKinds
    <3>4. slots[locked].preview \in Previews /\ slots[locked].preview # p
      BY <3>1, <3>3 DEF Committing, Pub!PreviewFree
    <3>5. previews'[slots[locked].preview] = previews[slots[locked].preview]
      BY <1>4, <3>4
    <3> QED BY <1>1, <1>2, <3>1, <3>5 DEF LockTrue, LockedTrue, Pub!Active
  <2> QED BY <1>1, <1>2, <2>1 DEF LockTrue
<1>9. RevisionsTrue'
  <2>1. ASSUME NEW n \in 1..Pub!Active PROVE RevisionTrue(n)'
    <3>1. RevisionTrue(n)
      BY <1>1 DEF RevisionsTrue
    <3>2. revisions[n] \in Revision
      BY <1>1 DEF PublishingTypes, Pub!Active
    <3>3. PICK q \in Previews : q = revisions[n].cmd.preview
      BY <3>2 DEF Revision, Cmd
    <3>4. previews'[q] = previews[q]
      BY <1>4, <3>1, <3>3 DEF RevisionTrue
    <3> QED BY <1>2, <3>1, <3>3, <3>4 DEF RevisionTrue, Pub!Active
  <2> QED BY <1>2, <2>1 DEF RevisionsTrue, Pub!Active
<1> QED BY <1>5, <1>6, <1>7, <1>8, <1>9 DEF PublishingInv

-------------------------------------------------------------------------------
(* Requests between their transactions.                                    *)

AnswerTrue(w) ==
    /\ w.result = "published" => w.revision \in 1..Pub!Active /\ revisions[w.revision].cmd = w.cmd
    /\ w.result = "replaced" =>
          w.version <= draft.version /\ (w.version = draft.version => w.rules = draft.rules)

LEMMA AnswerFrame ==
    ASSUME PublishingInv, NEW s \in Slots, NEW w \in ReplacedAnswer \union PublishedAnswer \union OtherAnswer,
           Pub!Answer(s, w), AnswerTrue(w), slots[s].kind # "locked",
           UNCHANGED <<draft, revisions, revisionIntents, previews, locked, Pub!sourceVars, Pub!workerVars>>,
           requests' \in 0..MaxRequests, previewFaults' \in 0..MaxFaults
    PROVE  PublishingInv'
<1>1. PICK k : k = [kind |-> "answered", what |-> w]
  OBVIOUS
<1>2. k \in Answered /\ k.kind = "answered" /\ k.what = w
  BY <1>1 DEF Answered
<1>3. k \in Slot
  BY <1>2 DEF Slot
<1>4. SlotTrue(k)
  BY <1>2 DEF SlotTrue, AnswerTrue
<1>5. slots' = [slots EXCEPT ![s] = k]
  BY <1>1 DEF Pub!Answer
<1> QED BY <1>2, <1>3, <1>4, <1>5, SlotFrame

\* An answer that carries no claim.
LEMMA PlainAnswer ==
    ASSUME NEW a \in {"draft_conflict", "idempotency_mismatch", "rejected", "signing_unavailable"}
    PROVE  /\ [result |-> a] \in OtherAnswer
           /\ AnswerTrue([result |-> a])
BY DEF OtherAnswer, AnswerTrue

\* Two commands with one fingerprint and one key are one command.
LEMMA SameCommand ==
    ASSUME NEW c \in Cmd, NEW d \in Cmd, Pub!Fingerprint(c) = Pub!Fingerprint(d), c.key = d.key
    PROVE  c = d
<1>1. PICK x : x = Pub!Fingerprint(c)
  OBVIOUS
<1>2. PICK y : y = Pub!Fingerprint(d)
  OBVIOUS
<1>3. /\ x.preview = c.preview /\ x.version = c.version /\ x.sha = c.sha /\ x.digest = c.digest
      /\ x.active = c.active
  BY <1>1 DEF Pub!Fingerprint, Cmd
<1>4. /\ y.preview = d.preview /\ y.version = d.version /\ y.sha = d.sha /\ y.digest = d.digest
      /\ y.active = d.active
  BY <1>2 DEF Pub!Fingerprint, Cmd
<1>5. x = y
  BY <1>1, <1>2
<1> QED BY <1>3, <1>4, <1>5 DEF Cmd

\* What is found under a key is answered truly.
LEMMA ReplayIsTrue ==
    ASSUME Pub!PublishingConstants, PublishingInv, NEW cmd \in Cmd, Pub!Recorded(cmd.key) # {}
    PROVE  Pub!Replayed(cmd) \in PublishedAnswer \union OtherAnswer /\ AnswerTrue(Pub!Replayed(cmd))
<1>1. PICK n \in Pub!Recorded(cmd.key) : n = CHOOSE m \in Pub!Recorded(cmd.key) : TRUE
  OBVIOUS
<1>2. n \in 1..Pub!Active /\ revisions[n].cmd.key = cmd.key
  BY <1>1 DEF Pub!Recorded
<1>3. revisions \in Seq(Revision) /\ Pub!Active <= MaxRevision /\ Pub!Active \in Nat
  BY DEF PublishingInv, PublishingTypes, Pub!Active
<1>4. revisions[n] \in Revision
  BY <1>2, <1>3 DEF Pub!Active
<1>5. PICK c \in Cmd : c = revisions[n].cmd
  BY <1>4 DEF Revision
<1>6. CASE Pub!Fingerprint(c) = Pub!Fingerprint(cmd)
  <2>1. c = cmd
    BY <1>2, <1>5, <1>6, SameCommand
  <2>2. PICK w : w = [result |-> "published", cmd |-> cmd, revision |-> n]
    OBVIOUS
  <2>3. Pub!Replayed(cmd) = w
    BY <1>1, <1>5, <1>6, <2>2 DEF Pub!Replayed
  <2>4. n \in 1..MaxRevision
    BY <1>2, <1>3 DEF Pub!PublishingConstants
  <2>5. w \in PublishedAnswer /\ w.result = "published" /\ w.cmd = cmd /\ w.revision = n
    BY <2>2, <2>4 DEF PublishedAnswer
  <2> QED BY <1>2, <1>5, <2>1, <2>3, <2>5 DEF AnswerTrue
<1>7. CASE Pub!Fingerprint(c) # Pub!Fingerprint(cmd)
  <2>1. Pub!Replayed(cmd) = [result |-> "idempotency_mismatch"]
    BY <1>1, <1>5, <1>7 DEF Pub!Replayed
  <2> QED BY <2>1, PlainAnswer
<1> QED BY <1>6, <1>7

\* A request that commits to nothing yet.
LEMMA CommittingFrame ==
    ASSUME PublishingInv, NEW s \in Slots, NEW k \in Committing, slots' = [slots EXCEPT ![s] = k],
           k.kind # "locked", k.cmd.preview = k.preview, slots[s].kind # "locked",
           UNCHANGED <<draft, revisions, revisionIntents, previews, locked, Pub!sourceVars, Pub!workerVars>>,
           requests' \in 0..MaxRequests, previewFaults' \in 0..MaxFaults
    PROVE  PublishingInv'
<1>1. k \in Slot /\ k.kind \in {"resolve", "publish", "locked", "publish_unknown"}
  BY DEF Slot, Committing
<1>2. SlotTrue(k)
  BY <1>1 DEF SlotTrue
<1> QED BY <1>1, <1>2, SlotFrame

LEMMA EditDraftKeeps ==
    ASSUME Pub!PublishingConstants, PublishingInv, NEW s \in Slots, Pub!EditDraft(s)
    PROVE  PublishingInv'
<1>1. PICK chosen \in Rules :
        slots' = [slots EXCEPT ![s] = [kind |-> "replace", version |-> draft.version, rules |-> chosen]]
  BY DEF Pub!EditDraft, Pub!Status
<1>2. PICK k : k = [kind |-> "replace", version |-> draft.version, rules |-> chosen]
  OBVIOUS
<1>3. draft.version \in 1..MaxVersion
  BY DEF PublishingInv, PublishingTypes, DraftRecord
<1>4. k \in Replacing /\ k.kind = "replace" /\ k.version = draft.version
  BY <1>2, <1>3 DEF Replacing
<1>5. k \in Slot /\ SlotTrue(k)
  BY <1>4 DEF Slot, SlotTrue, Pub!EditDraft
<1>6. slots[s].kind = "none"
  BY NoneIsNothing DEF Pub!EditDraft
<1>7. requests' \in 0..MaxRequests /\ previewFaults' \in 0..MaxFaults
  BY CountersKept DEF Pub!EditDraft, PublishingInv
<1>8. slots' = [slots EXCEPT ![s] = k]
  BY <1>1, <1>2
<1>9. UNCHANGED <<draft, revisions, revisionIntents, previews, locked, Pub!sourceVars, Pub!workerVars>>
  BY DEF Pub!EditDraft
<1> QED BY <1>4, <1>5, <1>6, <1>7, <1>8, <1>9, SlotFrame

LEMMA RecoverReplacementKeeps ==
    ASSUME Pub!PublishingConstants, PublishingInv, NEW s \in Slots, Pub!RecoverReplacement(s)
    PROVE  PublishingInv'
<1>1. slots[s].kind = "replace_unknown"
  BY DEF Pub!RecoverReplacement
<1>2. PICK m \in Replacing : m = slots[s]
  BY <1>1, SlotKnown, SlotKinds
<1>3. m.version \in 1..MaxVersion /\ m.version < MaxVersion /\ m.rules \in Rules /\ MaxVersion \in Nat
  BY <1>1, <1>2, SlotKnown DEF SlotTrue, Replacing, Pub!PublishingConstants
<1>4. UNCHANGED <<draft, revisions, revisionIntents, previews, locked, Pub!sourceVars, Pub!workerVars>>
  BY DEF Pub!RecoverReplacement
<1>5. requests' \in 0..MaxRequests /\ previewFaults' \in 0..MaxFaults
  BY CountersKept DEF Pub!RecoverReplacement, PublishingInv
<1>6. CASE Pub!MatchesReplacement(m.version, m.rules)
  <2>1. PICK w : w = [result |-> "replaced", version |-> m.version + 1, rules |-> m.rules]
    OBVIOUS
  <2>2. Pub!Answer(s, w)
    BY <1>2, <1>6, <2>1 DEF Pub!RecoverReplacement
  <2>3. w \in ReplacedAnswer
    BY <1>3, <2>1 DEF ReplacedAnswer
  <2>4. draft.version \in Nat
    BY DEF PublishingInv, PublishingTypes, DraftRecord
  <2>5. AnswerTrue(w)
    BY <1>6, <2>1, <2>4 DEF AnswerTrue, Pub!MatchesReplacement
  <2> QED BY <1>1, <1>4, <1>5, <2>2, <2>3, <2>5, AnswerFrame
<1>7. CASE ~Pub!MatchesReplacement(m.version, m.rules)
  <2>1. PICK k : k = [m EXCEPT !.kind = "replace"]
    OBVIOUS
  <2>2. slots' = [slots EXCEPT ![s] = k]
    BY <1>2, <1>7, <2>1 DEF Pub!RecoverReplacement
  <2>3. k \in Replacing /\ k.kind = "replace" /\ k.version = m.version
    BY <2>1 DEF Replacing
  <2>4. k \in Slot /\ SlotTrue(k)
    BY <1>3, <2>3 DEF Slot, SlotTrue
  <2> QED BY <1>1, <1>4, <1>5, <2>2, <2>3, <2>4, SlotFrame
<1> QED BY <1>6, <1>7

LEMMA RequestPreviewKeeps ==
    ASSUME Pub!PublishingConstants, PublishingInv, NEW s \in Slots, Pub!RequestPreview(s)
    PROVE  PublishingInv'
<1>1. PICK p \in Previews :
        /\ Pub!Fresh(p)
        /\ slots' = [slots EXCEPT ![s] = [kind |-> "binding", preview |-> p,
                                          version |-> draft.version, base |-> draft.base]]
  BY DEF Pub!RequestPreview
<1>2. PICK k : k = [kind |-> "binding", preview |-> p, version |-> draft.version, base |-> draft.base]
  OBVIOUS
<1>3. draft.version \in 1..MaxVersion /\ draft.base \in 0..MaxRevision
  BY DEF PublishingInv, PublishingTypes, DraftRecord
<1>4. k \in Binding /\ k.kind = "binding" /\ k.version = draft.version /\ k.base = draft.base /\ k.preview = p
  BY <1>2, <1>3 DEF Binding
<1>5. k \in Slot /\ SlotTrue(k)
  BY <1>1, <1>3, <1>4 DEF Slot, SlotTrue, Pub!Fresh
<1>6. \A t \in Slots : slots[t].kind = "binding" => slots[t].preview # k.preview
  BY <1>1, <1>4 DEF Pub!Fresh
<1>7. slots[s].kind = "none"
  BY NoneIsNothing DEF Pub!RequestPreview
<1>8. requests' \in 0..MaxRequests /\ previewFaults' \in 0..MaxFaults
  BY CountersKept DEF Pub!RequestPreview, PublishingInv
<1>9. slots' = [slots EXCEPT ![s] = k]
  BY <1>1, <1>2
<1>10. UNCHANGED <<draft, revisions, revisionIntents, previews, locked, Pub!sourceVars, Pub!workerVars>>
  BY DEF Pub!RequestPreview
<1> QED BY <1>4, <1>5, <1>6, <1>7, <1>8, <1>9, <1>10, SlotFrame

LEMMA PublishRequestKeeps ==
    ASSUME Pub!PublishingConstants, PublishingInv, NEW s \in Slots, Pub!Publish(s)
    PROVE  PublishingInv'
<1>1. PICK p \in Previews, key \in Keys :
        /\ previews[p].state = "ready"
        /\ slots' = [slots EXCEPT ![s] = [kind |-> "resolve", preview |-> p, cmd |-> Pub!Command(p, key)]]
  BY DEF Pub!Publish
<1>2. PICK r \in Row : r = previews[p]
  BY <1>1, PreviewKnown
<1>3. r.digest \in Digest
  BY <1>1, <1>2, PreviewKnown DEF RowTrue, Row
<1>4. Pub!Active \in 0..MaxRevision
  BY DEF PublishingInv, PublishingTypes, Pub!Active, DraftRecord
<1>5. PICK c : c = Pub!Command(p, key)
  OBVIOUS
<1>6. c \in Cmd /\ c.preview = p
  BY <1>2, <1>3, <1>4, <1>5 DEF Pub!Command, Pub!Status, Cmd, Row
<1>7. PICK k : k = [kind |-> "resolve", preview |-> p, cmd |-> c]
  OBVIOUS
<1>8. k \in Committing /\ k.kind = "resolve" /\ k.cmd.preview = k.preview
  BY <1>6, <1>7 DEF Committing
<1>9. slots' = [slots EXCEPT ![s] = k]
  BY <1>1, <1>5, <1>7
<1>10. slots[s].kind = "none"
  BY NoneIsNothing DEF Pub!Publish
<1>11. requests' \in 0..MaxRequests /\ previewFaults' \in 0..MaxFaults
  BY CountersKept DEF Pub!Publish, PublishingInv
<1>12. UNCHANGED <<draft, revisions, revisionIntents, previews, locked, Pub!sourceVars, Pub!workerVars>>
  BY DEF Pub!Publish
<1> QED BY <1>8, <1>9, <1>10, <1>11, <1>12, CommittingFrame

\* The request looks for its command before it does anything, and again when it does not
\* know whether it was committed.
LEMMA LookUpKeeps ==
    ASSUME Pub!PublishingConstants, PublishingInv, NEW s \in Slots, Pub!ResolveCommitted(s) \/ Pub!RecoverPublication(s)
    PROVE  PublishingInv'
<1>1. slots[s].kind \in {"resolve", "publish_unknown"}
  BY DEF Pub!ResolveCommitted, Pub!RecoverPublication
<1>2. PICK m \in Committing : m = slots[s]
  BY <1>1, SlotKnown, SlotKinds
<1>3. m.cmd \in Cmd /\ m.cmd.preview = m.preview
  BY <1>1, <1>2, SlotKnown DEF SlotTrue, Committing
<1>4. UNCHANGED <<draft, revisions, revisionIntents, previews, locked, Pub!sourceVars, Pub!workerVars>>
  BY DEF Pub!ResolveCommitted, Pub!RecoverPublication
<1>5. requests' \in 0..MaxRequests /\ previewFaults' \in 0..MaxFaults
  BY CountersKept DEF Pub!ResolveCommitted, Pub!RecoverPublication, PublishingInv
<1>6. CASE Pub!Recorded(m.cmd.key) # {}
  <2>1. PICK w : w = Pub!Replayed(m.cmd)
    OBVIOUS
  <2>2. Pub!Answer(s, w)
    BY <1>2, <1>6, <2>1 DEF Pub!ResolveCommitted, Pub!RecoverPublication
  <2>3. w \in PublishedAnswer \union OtherAnswer /\ AnswerTrue(w)
    BY <1>3, <1>6, <2>1, ReplayIsTrue
  <2> QED BY <1>1, <1>4, <1>5, <2>2, <2>3, AnswerFrame
<1>7. CASE Pub!Recorded(m.cmd.key) = {}
  <2>1. PICK k : k = [m EXCEPT !.kind = "publish"]
    OBVIOUS
  <2>2. slots' = [slots EXCEPT ![s] = k]
    BY <1>2, <1>7, <2>1 DEF Pub!ResolveCommitted, Pub!RecoverPublication
  <2>3. k \in Committing /\ k.kind = "publish" /\ k.cmd = m.cmd /\ k.preview = m.preview
    BY <2>1 DEF Committing
  <2> QED BY <1>1, <1>3, <1>4, <1>5, <2>2, <2>3, CommittingFrame
<1> QED BY <1>6, <1>7

LEMMA SettleKeeps ==
    ASSUME Pub!PublishingConstants, PublishingInv, NEW s \in Slots, Pub!Settle(s)
    PROVE  PublishingInv'
<1>1. slots[s].kind = "answered"
  BY DEF Pub!Settle
<1>2. UNCHANGED <<draft, revisions, revisionIntents, previews, locked, Pub!sourceVars, Pub!workerVars>>
  BY DEF Pub!Settle
<1>3. requests' \in 0..MaxRequests /\ previewFaults' \in 0..MaxFaults
  BY CountersKept DEF Pub!Settle, PublishingInv
<1>4. CASE slots' = [slots EXCEPT ![s] = Pub!None]
  <2>1. SlotTrue(Pub!None)
    BY NoneIsNothing DEF SlotTrue
  <2> QED BY <1>1, <1>2, <1>3, <1>4, <2>1, NoneIsNothing, SlotFrame
<1>5. CASE /\ slots[s].what.result = "published"
           /\ slots' = [slots EXCEPT ![s] = [kind |-> "resolve", cmd |-> slots[s].what.cmd,
                                             preview |-> slots[s].what.cmd.preview]]
  <2>1. slots[s].what \in PublishedAnswer
    <3>1. slots[s] \in Answered
      BY <1>1, SlotKnown, SlotKinds
    <3>2. slots[s].what \in ReplacedAnswer \union PublishedAnswer \union OtherAnswer
      BY <3>1 DEF Answered
    <3> QED BY <1>5, <3>2 DEF ReplacedAnswer, OtherAnswer
  <2>2. PICK c \in Cmd : c = slots[s].what.cmd
    BY <2>1 DEF PublishedAnswer
  <2>3. PICK k : k = [kind |-> "resolve", cmd |-> c, preview |-> c.preview]
    OBVIOUS
  <2>4. k \in Committing /\ k.kind = "resolve" /\ k.cmd.preview = k.preview
    BY <2>2, <2>3 DEF Committing, Cmd
  <2>5. slots' = [slots EXCEPT ![s] = k]
    BY <1>5, <2>2, <2>3
  <2> QED BY <1>1, <1>2, <1>3, <2>4, <2>5, CommittingFrame
<1> QED BY <1>4, <1>5 DEF Pub!Settle

-------------------------------------------------------------------------------
(* Publication.                                                            *)

\* A step that takes or releases the lock on the policy row, and changes no table.
LEMMA LockFrame ==
    ASSUME PublishingInv, NEW s \in Slots, NEW k \in Slot, slots' = [slots EXCEPT ![s] = k], SlotTrue(k),
           k.kind # "binding", 0 \notin Slots,
           \/ locked = 0 /\ locked' = s /\ k.kind = "locked" /\ LockedTrue(k)
           \/ locked = s /\ locked' = 0 /\ k.kind # "locked",
           UNCHANGED <<draft, revisions, revisionIntents, previews, Pub!sourceVars, Pub!workerVars>>,
           requests' \in 0..MaxRequests, previewFaults' \in 0..MaxFaults
    PROVE  PublishingInv'
<1>1. PublishingTypes /\ draft.base = Pub!Active /\ RowsTrue /\ PreviewFlowsTrue /\ SlotsTrue /\ LockTrue /\ RevisionsTrue
  BY DEF PublishingInv
<1>2. /\ draft' = draft /\ revisions' = revisions /\ revisionIntents' = revisionIntents /\ previews' = previews
      /\ world' = world /\ conflicts' = conflicts /\ previewLeases' = previewLeases /\ previewFlows' = previewFlows
  BY DEF Pub!sourceVars, Pub!workerVars
<1>3. slots \in [Slots -> Slot]
  BY <1>1 DEF PublishingTypes
<1>4. \A t \in Slots : slots'[t] = IF t = s THEN k ELSE slots[t]
  BY <1>3
<1>5. PublishingTypes'
  <2>1. slots' \in [Slots -> Slot]
    BY <1>3
  <2>2. locked' \in Slots \union {0}
    OBVIOUS
  <2> QED BY <1>1, <1>2, <2>1, <2>2 DEF PublishingTypes, Pub!Active
<1>6. draft'.base = Pub!Active'
  BY <1>1, <1>2 DEF Pub!Active
<1>7. RowsTrue' /\ PreviewFlowsTrue'
  BY <1>1, <1>2 DEF RowsTrue, PreviewFlowsTrue, RowTrue, SnapTrue
<1>8. SlotsTrue'
  <2>1. ASSUME NEW t \in Slots PROVE SlotTrue(slots[t])'
    <3>1. SlotTrue(slots'[t])
      BY <1>1, <1>4 DEF SlotsTrue
    <3> QED BY <1>2, <3>1 DEF SlotTrue, Pub!Active
  <2>2. BindingsApart'
    BY <1>1, <1>4 DEF BindingsApart, SlotsTrue
  <2> QED BY <2>1, <2>2 DEF SlotsTrue
<1>9. LockTrue'
  <2>1. \A t \in Slots : slots'[t].kind = "locked" <=> locked' = t
    BY <1>1, <1>4 DEF LockTrue
  <2>2. locked' # 0 => LockedTrue(slots[locked])'
    <3>1. SUFFICES ASSUME locked' # 0 PROVE LockedTrue(slots[locked])'
      OBVIOUS
    <3>2. locked' = s /\ LockedTrue(k)
      BY <3>1
    <3>3. slots'[locked'] = k
      BY <1>4, <3>2
    <3> QED BY <1>2, <3>2, <3>3 DEF LockedTrue, Pub!Active
  <2> QED BY <2>1, <2>2 DEF LockTrue
<1>10. RevisionsTrue'
  BY <1>1, <1>2 DEF RevisionsTrue, RevisionTrue, Pub!Active
<1> QED BY <1>5, <1>6, <1>7, <1>8, <1>9, <1>10 DEF PublishingInv

\* The checkpoint counts every event, and the digest was computed before the checkpoint
\* could move: an unmoved checkpoint says that no source has changed.
LEMMA RecheckedIsLocked ==
    ASSUME PublishingInv, NEW cmd \in Cmd, NEW k \in Committing, k.preview = cmd.preview,
           Pub!Rechecked(cmd), Pub!Active < MaxRevision, draft.version < MaxVersion
    PROVE  LockedTrue(k)
<1>1. PICK p \in Previews : p = cmd.preview
  BY DEF Cmd
<1>2. previews[p].state = "ready" /\ draft.version = previews[p].version
      /\ previews[p].checkpoint = Pub!Checkpoint
  BY <1>1 DEF Pub!Rechecked, Pub!RecheckPreviewState, Pub!RecheckDraft, Pub!RecheckCheckpoint
<1>3. PICK r \in Row : r = previews[p]
  BY <1>2, PreviewKnown
<1>4. RowTrue(r) /\ r.state = "ready"
  BY <1>2, <1>3, PreviewKnown
<1>5. r.digest \in Digest /\ r.digest # Pub!None
  BY <1>4 DEF RowTrue, Row
<1>6. r.digest.world <= world /\ r.checkpoint - r.digest.world <= conflicts
  BY <1>4, <1>5 DEF RowTrue
<1>7. PICK w \in 0..MaxWorld : w = r.digest.world
  BY <1>5 DEF Digest
<1>8. world \in 0..MaxWorld /\ conflicts \in 0..MaxConflict
  BY DEF PublishingInv, PublishingTypes
<1>9. w = world
  BY <1>2, <1>3, <1>6, <1>7, <1>8 DEF Pub!Checkpoint
<1> QED BY <1>1, <1>2, <1>3, <1>4, <1>7, <1>9 DEF LockedTrue

LEMMA PublishLockedKeeps ==
    ASSUME Pub!PublishingConstants, PublishingInv, NEW s \in Slots, Pub!PublishLocked(s)
    PROVE  PublishingInv'
<1>1. slots[s].kind = "publish" /\ locked = 0
  BY DEF Pub!PublishLocked
<1>2. PICK m \in Committing : m = slots[s]
  BY <1>1, SlotKnown, SlotKinds
<1>3. m.cmd \in Cmd /\ m.cmd.preview = m.preview
  BY <1>1, <1>2, SlotKnown DEF SlotTrue, Committing
<1>4. UNCHANGED <<draft, revisions, revisionIntents, previews, Pub!sourceVars, Pub!workerVars>>
  BY DEF Pub!PublishLocked
<1>5. requests' \in 0..MaxRequests /\ previewFaults' \in 0..MaxFaults
  BY CountersKept DEF Pub!PublishLocked, PublishingInv
<1>6. CASE Pub!Recorded(m.cmd.key) # {}
  <2>1. PICK w : w = Pub!Replayed(m.cmd)
    OBVIOUS
  <2>2. Pub!Answer(s, w) /\ locked' = locked
    BY <1>2, <1>6, <2>1 DEF Pub!PublishLocked
  <2>3. w \in PublishedAnswer \union OtherAnswer /\ AnswerTrue(w)
    BY <1>3, <1>6, <2>1, ReplayIsTrue
  <2> QED BY <1>1, <1>4, <1>5, <2>2, <2>3, AnswerFrame
<1>7. CASE Pub!Recorded(m.cmd.key) = {} /\ ~Pub!Rechecked(m.cmd)
  <2>1. PICK w : w = [result |-> "rejected"]
    OBVIOUS
  <2>2. Pub!Answer(s, w) /\ locked' = locked
    BY <1>2, <1>7, <2>1 DEF Pub!PublishLocked
  <2>3. w \in OtherAnswer /\ AnswerTrue(w)
    BY <2>1, PlainAnswer
  <2> QED BY <1>1, <1>4, <1>5, <2>2, <2>3, AnswerFrame
<1>8. CASE Pub!Recorded(m.cmd.key) = {} /\ Pub!Rechecked(m.cmd)
  <2>1. PICK k : k = [m EXCEPT !.kind = "locked"]
    OBVIOUS
  <2>2. /\ slots' = [slots EXCEPT ![s] = k] /\ locked' = s
        /\ Pub!Active < MaxRevision /\ draft.version < MaxVersion
    BY <1>2, <1>8, <2>1 DEF Pub!PublishLocked
  <2>3. k \in Committing /\ k.kind = "locked" /\ k.cmd = m.cmd /\ k.preview = m.preview
    BY <2>1 DEF Committing
  <2>4. k \in Slot /\ SlotTrue(k)
    BY <1>3, <2>3 DEF Slot, SlotTrue
  <2>5. LockedTrue(k)
    BY <1>3, <1>8, <2>2, <2>3, RecheckedIsLocked
  <2>6. 0 \notin Slots
    BY DEF Pub!PublishingConstants
  <2> QED BY <1>1, <1>4, <1>5, <2>2, <2>3, <2>4, <2>5, <2>6, LockFrame
<1> QED BY <1>6, <1>7, <1>8

LEMMA AbortPublicationKeeps ==
    ASSUME Pub!PublishingConstants, PublishingInv, NEW s \in Slots, Pub!AbortPublication(s)
    PROVE  PublishingInv'
<1>1. slots[s].kind = "locked" /\ locked' = 0
  BY DEF Pub!AbortPublication
<1>2. PICK m \in Committing : m = slots[s]
  BY <1>1, SlotKnown, SlotKinds
<1>3. locked = s /\ m.cmd.preview = m.preview
  BY <1>1, <1>2, SlotKnown DEF SlotTrue
<1>4. UNCHANGED <<draft, revisions, revisionIntents, previews, Pub!sourceVars, Pub!workerVars>>
  BY DEF Pub!AbortPublication
<1>5. requests' \in 0..MaxRequests /\ previewFaults' \in 0..MaxFaults
  BY CountersKept DEF Pub!AbortPublication, PublishingInv
<1>6. 0 \notin Slots
  BY DEF Pub!PublishingConstants
<1>7. CASE Pub!Answer(s, [result |-> "signing_unavailable"])
  <2>1. PICK w : w = [result |-> "signing_unavailable"]
    OBVIOUS
  <2>2. PICK k : k = [kind |-> "answered", what |-> w]
    OBVIOUS
  <2>3. slots' = [slots EXCEPT ![s] = k]
    BY <1>7, <2>1, <2>2 DEF Pub!Answer
  <2>4. w \in OtherAnswer /\ w.result = "signing_unavailable"
    BY <2>1, PlainAnswer
  <2>5. k \in Answered /\ k.kind = "answered" /\ k.what = w
    BY <2>2, <2>4 DEF Answered
  <2>6. k \in Slot /\ SlotTrue(k)
    BY <2>4, <2>5 DEF Slot, SlotTrue
  <2> QED BY <1>1, <1>3, <1>4, <1>5, <1>6, <2>3, <2>5, <2>6, LockFrame
<1>8. CASE slots' = [slots EXCEPT ![s].kind = "publish_unknown"]
  <2>1. PICK k : k = [m EXCEPT !.kind = "publish_unknown"]
    OBVIOUS
  <2>2. slots' = [slots EXCEPT ![s] = k]
    BY <1>2, <1>8, <2>1
  <2>3. k \in Committing /\ k.kind = "publish_unknown" /\ k.cmd = m.cmd /\ k.preview = m.preview
    BY <2>1 DEF Committing
  <2>4. k \in Slot /\ SlotTrue(k)
    BY <1>3, <2>3 DEF Slot, SlotTrue
  <2> QED BY <1>1, <1>3, <1>4, <1>5, <1>6, <2>2, <2>3, <2>4, LockFrame
<1> QED BY <1>7, <1>8 DEF Pub!AbortPublication

\* What the publication commits is what its preview showed.
LEMMA CommitKnows ==
    ASSUME Pub!PublishingConstants, PublishingInv, NEW s \in Slots, Pub!CommitPublication(s)
    PROVE  /\ locked = s /\ slots[s] \in Committing /\ slots[s].cmd \in Cmd
           /\ slots[s].cmd.preview = slots[s].preview
           /\ LockedTrue(slots[s])
           /\ previews[slots[s].preview] \in Row /\ RowTrue(previews[slots[s].preview])
           /\ previews[slots[s].preview].digest \in Digest
<1>1. slots[s].kind = "locked"
  BY DEF Pub!CommitPublication
<1>2. locked = s /\ slots[s] \in Committing /\ slots[s].cmd.preview = slots[s].preview
  BY <1>1, SlotKnown, SlotKinds DEF SlotTrue
<1>3. s # 0
  BY DEF Pub!PublishingConstants
<1>4. LockedTrue(slots[s])
  BY <1>2, <1>3 DEF PublishingInv, LockTrue
<1>5. PICK p \in Previews : p = slots[s].preview
  BY <1>2 DEF Committing
<1>6. previews[p].state = "ready"
  BY <1>4, <1>5 DEF LockedTrue
<1>7. previews[p] \in Row /\ RowTrue(previews[p])
  BY <1>6, PreviewKnown
<1>8. previews[p].digest \in Digest
  BY <1>6, <1>7 DEF RowTrue, Row
<1>9. slots[s].cmd \in Cmd
  BY <1>2 DEF Committing
<1> QED BY <1>2, <1>4, <1>5, <1>7, <1>8, <1>9

LEMMA CommitPublicationKeeps ==
    ASSUME Pub!PublishingConstants, PublishingInv, NEW s \in Slots, Pub!CommitPublication(s)
    PROVE  PublishingInv'
<1>1. PublishingTypes /\ draft.base = Pub!Active /\ RowsTrue /\ PreviewFlowsTrue /\ SlotsTrue /\ LockTrue /\ RevisionsTrue
  BY DEF PublishingInv
<1>2. PICK m \in Committing : m = slots[s]
  BY CommitKnows
<1>3. PICK p \in Previews : p = m.preview
  BY <1>2 DEF Committing
<1>4. PICK c \in Cmd : c = m.cmd
  BY <1>2, CommitKnows
<1>5. PICK r \in Row : r = previews[p]
  BY <1>2, <1>3, CommitKnows
<1>6. /\ c.preview = p /\ locked = s /\ RowTrue(r) /\ r.digest \in Digest /\ slots[s].kind = "locked"
      /\ Pub!Active < MaxRevision /\ draft.version < MaxVersion
      /\ r.state = "ready" /\ r.version = draft.version /\ r.digest.world = world
  BY <1>2, <1>3, <1>4, <1>5, CommitKnows DEF LockedTrue, Pub!CommitPublication
<1>7. PICK x : x = Pub!SnapshotMaterial(c)
  OBVIOUS
<1>8. /\ revisions' = Append(revisions, x) /\ revisionIntents' = revisionIntents \union {Pub!Active + 1}
      /\ previews' = [previews EXCEPT ![p].state = "consumed"]
      /\ draft' = [draft EXCEPT !.version = @ + 1, !.base = Pub!Active + 1]
      /\ locked' = 0 /\ requests' = requests
      /\ world' = world /\ conflicts' = conflicts /\ previewLeases' = previewLeases /\ previewFlows' = previewFlows
  BY <1>2, <1>4, <1>6, <1>7 DEF Pub!CommitPublication, Pub!Intent, Pub!Consume, Pub!RebaseDraft, Pub!sourceVars, Pub!workerVars
<1>9. PICK e \in DraftRecord : e = draft
  BY <1>1 DEF PublishingTypes
<1>10. /\ draft'.version = draft.version + 1 /\ draft'.rules = draft.rules /\ draft'.base = Pub!Active + 1
       /\ draft.version \in 1..MaxVersion /\ draft.rules \in Rules /\ Pub!Active \in Nat
       /\ Pub!Active + 1 \in 0..MaxRevision /\ Pub!Active \in 0..MaxRevision
  BY <1>1, <1>6, <1>8, <1>9 DEF DraftRecord, PublishingTypes, Pub!Active, Pub!PublishingConstants
<1>11. /\ x \in Revision /\ x.rules = draft.rules /\ x.parent = Pub!Active /\ x.cmd = c /\ x.world = world
  <2>1. x = [rules |-> draft.rules, parent |-> Pub!Active, checkpoint |-> r.checkpoint, cmd |-> c, world |-> world]
    BY <1>5, <1>6, <1>7 DEF Pub!SnapshotMaterial
  <2>2. r.checkpoint \in Nat /\ world \in 0..MaxWorld
    BY <1>1 DEF Row, PublishingTypes
  <2> QED BY <1>10, <2>1, <2>2 DEF Revision
<1>12. /\ revisions' \in Seq(Revision) /\ Pub!Active' = Pub!Active + 1 /\ revisions'[Pub!Active + 1] = x
       /\ \A n \in 1..Pub!Active : revisions'[n] = revisions[n] /\ revisions[n] \in Revision
  BY <1>1, <1>8, <1>11 DEF PublishingTypes, Pub!Active
<1>13. PICK z : z = [r EXCEPT !.state = "consumed"]
  OBVIOUS
<1>14. z \in Row /\ z.state = "consumed" /\ z.version = r.version /\ z.sha = r.sha /\ z.base = r.base
       /\ z.checkpoint = r.checkpoint /\ z.digest = r.digest /\ z.token = r.token
  BY <1>13 DEF Row, RowStates
<1>15. \A q \in Previews : previews'[q] = IF q = p THEN z ELSE previews[q]
  BY <1>1, <1>5, <1>8, <1>13 DEF PublishingTypes
<1>16. PICK k \in Slot : slots' = [slots EXCEPT ![s] = k] /\ k.kind \in {"answered", "publish_unknown"} /\ SlotTrue(k)'
  <2>1. CASE Pub!Answer(s, [result |-> "published", cmd |-> c, revision |-> Pub!Active + 1])
    <3>1. PICK w : w = [result |-> "published", cmd |-> c, revision |-> Pub!Active + 1]
      OBVIOUS
    <3>2. PICK k : k = [kind |-> "answered", what |-> w]
      OBVIOUS
    <3>3. slots' = [slots EXCEPT ![s] = k]
      BY <2>1, <3>1, <3>2 DEF Pub!Answer
    <3>4. Pub!Active + 1 \in 1..MaxRevision
      BY <1>10 DEF Pub!PublishingConstants
    <3>5. w \in PublishedAnswer /\ w.result = "published" /\ w.cmd = c /\ w.revision = Pub!Active + 1
      BY <3>1, <3>4 DEF PublishedAnswer
    <3>6. k \in Answered /\ k.kind = "answered" /\ k.what = w
      BY <3>2, <3>5 DEF Answered
    <3>7. Pub!Active + 1 \in 1..Pub!Active' /\ revisions'[Pub!Active + 1].cmd = c
      BY <1>10, <1>11, <1>12
    <3>8. SlotTrue(k)'
      BY <3>5, <3>6, <3>7 DEF SlotTrue
    <3> QED BY <3>3, <3>6, <3>8 DEF Slot
  <2>2. CASE slots' = [slots EXCEPT ![s].kind = "publish_unknown"]
    <3>1. PICK k : k = [m EXCEPT !.kind = "publish_unknown"]
      OBVIOUS
    <3>2. slots' = [slots EXCEPT ![s] = k]
      BY <1>2, <2>2, <3>1
    <3>3. k \in Committing /\ k.kind = "publish_unknown" /\ k.cmd = c /\ k.preview = p
      BY <1>3, <1>4, <3>1 DEF Committing
    <3>4. SlotTrue(k)'
      BY <1>6, <3>3 DEF SlotTrue
    <3> QED BY <3>2, <3>3, <3>4 DEF Slot
  <2> QED BY <1>2, <1>4, <2>1, <2>2 DEF Pub!CommitPublication
<1>17. \A t \in Slots : slots'[t] = IF t = s THEN k ELSE slots[t]
  BY <1>1, <1>16 DEF PublishingTypes
<1>18. PublishingTypes' /\ draft'.base = Pub!Active'
  <2>1. draft' \in DraftRecord
    <3>1. draft.version + 1 \in 1..MaxVersion
      BY <1>6, <1>10 DEF Pub!PublishingConstants
    <3> QED BY <1>8, <1>9, <1>10, <3>1 DEF DraftRecord
  <2>2. previews' \in [Previews -> Row \union {Pub!Absent}]
    BY <1>1, <1>5, <1>8, <1>13, <1>14 DEF PublishingTypes
  <2>3. slots' \in [Slots -> Slot]
    BY <1>1, <1>16 DEF PublishingTypes
  <2>4. revisionIntents' = 1..Pub!Active'
    BY <1>1, <1>8, <1>10, <1>12 DEF PublishingTypes
  <2>5. Len(revisions') <= MaxRevision
    BY <1>10, <1>12 DEF Pub!Active, Pub!PublishingConstants
  <2>6. previewFaults' \in 0..MaxFaults
    BY <1>1, CountersKept DEF Pub!CommitPublication
  <2> QED BY <1>1, <1>8, <1>10, <1>12, <2>1, <2>2, <2>3, <2>4, <2>5, <2>6 DEF PublishingTypes
<1>19. RowsTrue'
  <2>1. ASSUME NEW q \in Previews, previews'[q] # Pub!Absent PROVE RowTrue(previews[q])'
    <3>1. PICK y \in Row : y = previews'[q] /\ RowTrue(y)
      <4>1. CASE q = p
        BY <1>6, <1>14, <1>15, <4>1 DEF RowTrue
      <4>2. CASE q # p
        BY <1>15, <2>1, <4>2, PreviewKnown
      <4> QED BY <4>1, <4>2
    <3>2. y.version \in 1..MaxVersion
      BY DEF Row
    <3>3. y.version <= draft'.version /\ y.version # draft'.version
      BY <1>10, <3>1, <3>2 DEF RowTrue
    <3>4. RowTrue(y)'
      BY <1>8, <3>1, <3>3 DEF RowTrue
    <3> QED BY <3>1, <3>4
  <2> QED BY <2>1 DEF RowsTrue
<1>20. PreviewFlowsTrue'
  BY <1>1, <1>8 DEF PreviewFlowsTrue, SnapTrue
<1>21. SlotsTrue'
  <2>1. ASSUME NEW t \in Slots PROVE SlotTrue(slots[t])'
    <3>1. CASE t = s
      BY <1>16, <1>17, <3>1
    <3>2. CASE t # s
      <4>1. PICK l \in Slot : l = slots[t] /\ SlotTrue(l)
        BY SlotKnown
      <4>2. SlotTrue(l)'
        <5>1. l.kind \in {"replace", "replace_unknown"} => l.version < MaxVersion
          BY <4>1 DEF SlotTrue
        <5>2. l.kind = "binding" => /\ previews'[l.preview] = Pub!Absent /\ l.version <= draft'.version
                                    /\ (l.version = draft'.version => l.base = draft'.base)
          <6> SUFFICES ASSUME l.kind = "binding"
                       PROVE  /\ previews'[l.preview] = Pub!Absent /\ l.version <= draft'.version
                              /\ (l.version = draft'.version => l.base = draft'.base)
            OBVIOUS
          <6>1. l.preview \in Previews /\ l.version \in 1..MaxVersion
            BY SlotKinds DEF Binding
          <6>2. previews[l.preview] = Pub!Absent /\ l.version <= draft.version
            BY <4>1 DEF SlotTrue
          <6>3. l.preview # p
            BY <1>5, <6>2, RowOrAbsent
          <6> QED BY <1>10, <1>15, <6>1, <6>2, <6>3
        <5>3. l.kind \in {"resolve", "publish", "locked", "publish_unknown"} => l.cmd.preview = l.preview
          BY <4>1 DEF SlotTrue
        <5>4. l.kind = "answered" /\ l.what.result = "published" =>
                l.what.revision \in 1..Pub!Active' /\ revisions'[l.what.revision].cmd = l.what.cmd
          BY <1>10, <1>12, <4>1 DEF SlotTrue
        <5>5. l.kind = "answered" /\ l.what.result = "replaced" =>
                /\ l.what.version <= draft'.version
                /\ l.what.version = draft'.version => l.what.rules = draft'.rules
          <6> SUFFICES ASSUME l.kind = "answered", l.what.result = "replaced"
                       PROVE  l.what.version <= draft'.version /\ l.what.version # draft'.version
            OBVIOUS
          <6>1. l.what \in ReplacedAnswer \union PublishedAnswer \union OtherAnswer
            BY SlotKinds DEF Answered
          <6>2. l.what.version \in 1..MaxVersion
            BY <6>1 DEF ReplacedAnswer, PublishedAnswer, OtherAnswer
          <6>3. l.what.version <= draft.version
            BY <4>1 DEF SlotTrue
          <6> QED BY <1>10, <6>2, <6>3
        <5> QED BY <5>1, <5>2, <5>3, <5>4, <5>5 DEF SlotTrue
      <4> QED BY <1>17, <3>2, <4>1, <4>2
    <3> QED BY <3>1, <3>2
  <2>2. BindingsApart'
    BY <1>1, <1>16, <1>17 DEF BindingsApart, SlotsTrue
  <2> QED BY <2>1, <2>2 DEF SlotsTrue
<1>22. LockTrue'
  <2>1. ASSUME NEW t \in Slots PROVE slots'[t].kind # "locked" /\ locked' # t
    BY <1>1, <1>6, <1>8, <1>16, <1>17 DEF LockTrue, Pub!PublishingConstants
  <2> QED BY <1>8, <2>1 DEF LockTrue
<1>23. RevisionsTrue'
  <2>1. ASSUME NEW n \in 1..Pub!Active, NEW q \in Previews, q = revisions[n].cmd.preview
        PROVE  q # p /\ RevisionTrue(n) /\ previews'[q] = previews[q]
    <3>1. RevisionTrue(n)
      BY <1>1, <2>1 DEF RevisionsTrue
    <3>2. previews[q].state = "consumed"
      BY <2>1, <3>1 DEF RevisionTrue
    <3>3. q # p
      BY <1>5, <1>6, <3>2
    <3> QED BY <1>15, <3>1, <3>3
  <2>2. ASSUME NEW n \in 1..Pub!Active PROVE revisions[n].cmd.preview \in Previews
    BY <1>12 DEF Revision, Cmd
  <2>3. ASSUME NEW n \in 1..Pub!Active PROVE RevisionTrue(n)'
    <3>1. PICK q \in Previews : q = revisions[n].cmd.preview
      BY <2>2
    <3>2. q # p /\ RevisionTrue(n) /\ previews'[q] = previews[q]
      BY <2>1, <3>1
    <3>3. revisions'[n] = revisions[n]
      BY <1>12
    <3>4. ASSUME NEW j \in 1..Pub!Active', revisions'[j].cmd.preview = q PROVE j = n
      <4>1. CASE j \in 1..Pub!Active
        BY <1>12, <3>1, <3>2, <3>4, <4>1 DEF RevisionTrue
      <4>2. CASE j = Pub!Active + 1
        BY <1>6, <1>11, <1>12, <3>2, <3>4, <4>2
      <4> QED BY <1>10, <1>12, <4>1, <4>2
    <3> QED BY <3>1, <3>2, <3>3, <3>4 DEF RevisionTrue
  <2>4. PICK a \in Nat : a = Pub!Active + 1
    BY <1>10
  <2>5. RevisionTrue(a)'
    <3>1. revisions'[Pub!Active + 1] = x /\ x.cmd.preview = p
      BY <1>6, <1>11, <1>12
    <3>2. previews'[p] = z
      BY <1>15
    <3>3. r.digest.rules = draft.rules /\ r.digest.previous = Pub!Active /\ r.digest.world = world
          /\ r.digest.kind = "digest"
      BY <1>1, <1>6 DEF RowTrue, Digest
    <3>4. z.digest = [kind |-> "digest", rules |-> x.rules, previous |-> Pub!Active, world |-> x.world]
      BY <1>6, <1>11, <1>14, <3>3 DEF Digest
    <3>5. ASSUME NEW j \in 1..Pub!Active', revisions'[j].cmd.preview = p PROVE j = Pub!Active + 1
      <4>1. CASE j \in 1..Pub!Active
        <5>1. revisions[j].cmd.preview = p
          BY <1>12, <3>5, <4>1
        <5> QED BY <2>1, <4>1, <5>1
      <4> QED BY <1>10, <1>12, <4>1
    <3>6. (Pub!Active + 1) - 1 = Pub!Active
      BY <1>10
    <3>7. x.parent = (Pub!Active + 1) - 1
      BY <1>11, <3>6
    <3>8. z.digest = [kind |-> "digest", rules |-> x.rules, previous |-> (Pub!Active + 1) - 1, world |-> x.world]
      BY <3>4, <3>6
    <3> QED BY <1>14, <2>4, <3>1, <3>2, <3>5, <3>7, <3>8 DEF RevisionTrue
  <2>6. \A n \in 1..Pub!Active' : RevisionTrue(n)'
    <3> TAKE n \in 1..Pub!Active'
    <3>1. n \in 1..Pub!Active \/ n = Pub!Active + 1
      BY <1>10, <1>12
    <3>2. CASE n = a
      BY <2>5, <3>2
    <3> QED BY <2>3, <2>4, <3>1, <3>2
  <2> QED BY <2>6 DEF RevisionsTrue
<1> QED BY <1>18, <1>19, <1>20, <1>21, <1>22, <1>23 DEF PublishingInv

-------------------------------------------------------------------------------
(* The draft, new previews and source writes.                              *)

\* The replacement makes a new version, so that no row names the present one.
LEMMA ReplaceFrame ==
    ASSUME Pub!PublishingConstants, PublishingInv, NEW s \in Slots, NEW k \in Slot, NEW chosen \in Rules,
           locked = 0, draft.version < MaxVersion, Pub!ReplaceRules(draft.version, chosen),
           slots' = [slots EXCEPT ![s] = k], k.kind # "binding", k.kind # "locked", SlotTrue(k)',
           UNCHANGED <<revisions, revisionIntents, locked, Pub!sourceVars, Pub!workerVars>>,
           requests' \in 0..MaxRequests, previewFaults' \in 0..MaxFaults
    PROVE  PublishingInv'
<1>1. PublishingTypes /\ draft.base = Pub!Active /\ RowsTrue /\ PreviewFlowsTrue /\ SlotsTrue /\ LockTrue /\ RevisionsTrue
  BY DEF PublishingInv
<1>2. /\ revisions' = revisions /\ revisionIntents' = revisionIntents /\ locked' = locked /\ world' = world
      /\ conflicts' = conflicts /\ previewLeases' = previewLeases /\ previewFlows' = previewFlows
  BY DEF Pub!sourceVars, Pub!workerVars
<1>3. PICK e \in DraftRecord : e = draft
  BY <1>1 DEF PublishingTypes
<1>4. /\ draft' = [e EXCEPT !.version = draft.version + 1, !.rules = chosen]
      /\ draft.version \in 1..MaxVersion /\ draft.version + 1 \in 1..MaxVersion
  BY <1>3 DEF Pub!ReplaceRules, DraftRecord, Pub!PublishingConstants
<1>5. draft' \in DraftRecord /\ draft'.version = draft.version + 1 /\ draft'.rules = chosen /\ draft'.base = draft.base
  BY <1>3, <1>4 DEF DraftRecord
<1>6. ASSUME NEW q \in Previews
      PROVE  \/ previews'[q] = previews[q]
             \/ /\ previews[q] \in Row /\ previews[q].state = "ready" /\ RowTrue(previews[q])
                /\ previews'[q] = [previews[q] EXCEPT !.state = "expired"]
  <2>1. previews'[q] = IF previews[q].state = "ready" /\ previews[q].version = draft.version
                       THEN [previews[q] EXCEPT !.state = "expired"] ELSE previews[q]
    BY DEF Pub!ReplaceRules, Pub!ExpireReady
  <2>2. previews[q].state = "ready" => previews[q] \in Row /\ RowTrue(previews[q])
    BY PreviewKnown
  <2> QED BY <2>1, <2>2
<1>7. ASSUME NEW q \in Previews
      PROVE  /\ previews'[q] \in Row \union {Pub!Absent}
             /\ previews'[q] # Pub!Absent => RowTrue(previews'[q])
             /\ previews[q] = Pub!Absent => previews'[q] = Pub!Absent
             /\ previews[q].state = "consumed" => previews'[q] = previews[q]
  <2>1. CASE previews'[q] = previews[q]
    BY <2>1, PreviewKnown
  <2>2. CASE /\ previews[q] \in Row /\ previews[q].state = "ready" /\ RowTrue(previews[q])
             /\ previews'[q] = [previews[q] EXCEPT !.state = "expired"]
    <3>1. PICK r \in Row : r = previews[q]
      BY <2>2
    <3>2. PICK z : z = [r EXCEPT !.state = "expired"]
      OBVIOUS
    <3>3. /\ z \in Row /\ z.state = "expired" /\ z.version = r.version /\ z.sha = r.sha /\ z.base = r.base
          /\ z.checkpoint = r.checkpoint /\ z.digest = r.digest /\ z.token = r.token
      BY <3>2 DEF Row, RowStates
    <3>4. RowTrue(z)
      BY <2>2, <3>1, <3>3 DEF RowTrue
    <3>5. previews[q] # Pub!Absent
      BY <2>2, RowOrAbsent
    <3> QED BY <2>2, <3>1, <3>2, <3>3, <3>4, <3>5
  <2> QED BY <1>6, <2>1, <2>2
<1>8. \A t \in Slots : slots'[t] = IF t = s THEN k ELSE slots[t]
  BY <1>1 DEF PublishingTypes
<1>9. PublishingTypes' /\ draft'.base = Pub!Active'
  <2>1. previews' \in [Previews -> Row \union {Pub!Absent}]
    <3>1. previews' = [q \in Previews |-> previews'[q]]
      BY DEF Pub!ReplaceRules, Pub!ExpireReady
    <3> QED BY <1>7, <3>1
  <2>2. slots' \in [Slots -> Slot]
    BY <1>1 DEF PublishingTypes
  <2> QED BY <1>1, <1>2, <1>5, <2>1, <2>2 DEF PublishingTypes, Pub!Active
<1>10. RowsTrue'
  <2>1. ASSUME NEW q \in Previews, previews'[q] # Pub!Absent PROVE RowTrue(previews[q])'
    <3>1. PICK y \in Row : y = previews'[q] /\ RowTrue(y)
      BY <1>7, <2>1
    <3>2. y.version \in 1..MaxVersion
      BY DEF Row
    <3>3. y.version <= draft'.version /\ y.version # draft'.version
      BY <1>4, <1>5, <3>1, <3>2 DEF RowTrue
    <3>4. RowTrue(y)'
      BY <1>2, <3>1, <3>3 DEF RowTrue
    <3> QED BY <3>1, <3>4
  <2> QED BY <2>1 DEF RowsTrue
<1>11. PreviewFlowsTrue'
  BY <1>1, <1>2 DEF PreviewFlowsTrue, SnapTrue
<1>12. SlotsTrue'
  <2>1. ASSUME NEW t \in Slots PROVE SlotTrue(slots[t])'
    <3>1. CASE t = s
      BY <1>8, <3>1
    <3>2. CASE t # s
      <4>1. PICK l \in Slot : l = slots[t] /\ SlotTrue(l)
        BY SlotKnown
      <4>2. SlotTrue(l)'
        <5>1. l.kind \in {"replace", "replace_unknown"} => l.version < MaxVersion
          BY <4>1 DEF SlotTrue
        <5>2. l.kind = "binding" => /\ previews'[l.preview] = Pub!Absent /\ l.version <= draft'.version
                                    /\ (l.version = draft'.version => l.base = draft'.base)
          <6> SUFFICES ASSUME l.kind = "binding"
                       PROVE  /\ previews'[l.preview] = Pub!Absent /\ l.version <= draft'.version
                              /\ (l.version = draft'.version => l.base = draft'.base)
            OBVIOUS
          <6>1. l.preview \in Previews /\ l.version \in 1..MaxVersion
            BY SlotKinds DEF Binding
          <6>2. previews[l.preview] = Pub!Absent /\ l.version <= draft.version
            BY <4>1 DEF SlotTrue
          <6> QED BY <1>4, <1>5, <1>7, <6>1, <6>2
        <5>3. l.kind \in {"resolve", "publish", "locked", "publish_unknown"} => l.cmd.preview = l.preview
          BY <4>1 DEF SlotTrue
        <5>4. l.kind = "answered" /\ l.what.result = "published" =>
                l.what.revision \in 1..Pub!Active' /\ revisions'[l.what.revision].cmd = l.what.cmd
          BY <1>2, <4>1 DEF SlotTrue, Pub!Active
        <5>5. l.kind = "answered" /\ l.what.result = "replaced" =>
                /\ l.what.version <= draft'.version
                /\ l.what.version = draft'.version => l.what.rules = draft'.rules
          <6> SUFFICES ASSUME l.kind = "answered", l.what.result = "replaced"
                       PROVE  l.what.version <= draft'.version /\ l.what.version # draft'.version
            OBVIOUS
          <6>1. l.what \in ReplacedAnswer \union PublishedAnswer \union OtherAnswer
            BY SlotKinds DEF Answered
          <6>2. l.what.version \in 1..MaxVersion
            BY <6>1 DEF ReplacedAnswer, PublishedAnswer, OtherAnswer
          <6>3. l.what.version <= draft.version
            BY <4>1 DEF SlotTrue
          <6> QED BY <1>4, <1>5, <6>2, <6>3
        <5> QED BY <5>1, <5>2, <5>3, <5>4, <5>5 DEF SlotTrue
      <4> QED BY <1>8, <3>2, <4>1, <4>2
    <3> QED BY <3>1, <3>2
  <2>2. BindingsApart'
    BY <1>1, <1>8 DEF BindingsApart, SlotsTrue
  <2> QED BY <2>1, <2>2 DEF SlotsTrue
<1>13. LockTrue'
  <2>1. ASSUME NEW t \in Slots PROVE slots'[t].kind # "locked" /\ locked' # t
    BY <1>1, <1>2, <1>8 DEF LockTrue, Pub!PublishingConstants
  <2> QED BY <1>2, <2>1 DEF LockTrue
<1>14. RevisionsTrue'
  <2>1. ASSUME NEW n \in 1..Pub!Active PROVE RevisionTrue(n)'
    <3>1. RevisionTrue(n)
      BY <1>1 DEF RevisionsTrue
    <3>2. revisions[n] \in Revision
      BY <1>1 DEF PublishingTypes, Pub!Active
    <3>3. PICK q \in Previews : q = revisions[n].cmd.preview
      BY <3>2 DEF Revision, Cmd
    <3>4. previews'[q] = previews[q]
      BY <1>7, <3>1, <3>3 DEF RevisionTrue
    <3> QED BY <1>2, <3>1, <3>3, <3>4 DEF RevisionTrue, Pub!Active
  <2> QED BY <1>2, <2>1 DEF RevisionsTrue, Pub!Active
<1> QED BY <1>9, <1>10, <1>11, <1>12, <1>13, <1>14 DEF PublishingInv

LEMMA ReplaceOnceKeeps ==
    ASSUME Pub!PublishingConstants, PublishingInv, NEW s \in Slots, Pub!ReplaceOnce(s)
    PROVE  PublishingInv'
<1>1. slots[s].kind = "replace" /\ locked = 0
  BY DEF Pub!ReplaceOnce, Pub!DraftFree
<1>2. PICK m \in Replacing : m = slots[s]
  BY <1>1, SlotKnown, SlotKinds
<1>3. m.version \in 1..MaxVersion /\ m.version < MaxVersion /\ m.rules \in Rules /\ MaxVersion \in Nat
  BY <1>1, <1>2, SlotKnown DEF SlotTrue, Replacing, Pub!PublishingConstants
<1>4. UNCHANGED <<revisions, revisionIntents, locked, Pub!sourceVars, Pub!workerVars>> /\ requests' = requests
  BY DEF Pub!ReplaceOnce
<1>5. requests' \in 0..MaxRequests /\ previewFaults' \in 0..MaxFaults
  BY <1>4, CountersKept DEF Pub!ReplaceOnce, PublishingInv
<1>6. CASE draft.version # m.version
  <2>1. PICK w : w = [result |-> "draft_conflict"]
    OBVIOUS
  <2>2. Pub!Answer(s, w) /\ UNCHANGED <<draft, previews>>
    BY <1>2, <1>6, <2>1 DEF Pub!ReplaceOnce
  <2>3. w \in OtherAnswer /\ AnswerTrue(w)
    BY <2>1, PlainAnswer
  <2> QED BY <1>1, <1>4, <1>5, <2>2, <2>3, AnswerFrame
<1>7. CASE draft.version = m.version
  <2>1. PICK w : w = [result |-> "replaced", version |-> m.version + 1, rules |-> m.rules]
    OBVIOUS
  <2>2. \/ Pub!ReplaceRules(m.version, m.rules) /\ Pub!Answer(s, w)
        \/ /\ Pub!ReplaceRules(m.version, m.rules) \/ UNCHANGED <<draft, previews>>
           /\ slots' = [slots EXCEPT ![s].kind = "replace_unknown"]
    BY <1>2, <1>7, <2>1 DEF Pub!ReplaceOnce
  <2>3. w \in ReplacedAnswer /\ w.result = "replaced" /\ w.version = m.version + 1 /\ w.rules = m.rules
    BY <1>3, <2>1 DEF ReplacedAnswer
  <2>4. PICK u : u = [m EXCEPT !.kind = "replace_unknown"]
    OBVIOUS
  <2>5. u \in Replacing /\ u.kind = "replace_unknown" /\ u.version = m.version
    BY <2>4 DEF Replacing
  <2>6. u \in Slot /\ SlotTrue(u) /\ SlotTrue(u)'
    BY <1>3, <2>5 DEF Slot, SlotTrue
  <2>7. CASE Pub!ReplaceRules(m.version, m.rules) /\ Pub!Answer(s, w)
    <3>1. PICK k : k = [kind |-> "answered", what |-> w]
      OBVIOUS
    <3>2. k \in Answered /\ k.kind = "answered" /\ k.what = w
      BY <2>3, <3>1 DEF Answered
    <3>3. slots' = [slots EXCEPT ![s] = k]
      BY <2>7, <3>1 DEF Pub!Answer
    <3>4. draft'.version = m.version + 1 /\ draft'.rules = m.rules
      <4>1. draft \in DraftRecord
        BY DEF PublishingInv, PublishingTypes
      <4> QED BY <2>7, <4>1 DEF Pub!ReplaceRules, DraftRecord
    <3>5. SlotTrue(k)'
      BY <1>3, <2>3, <3>2, <3>4 DEF SlotTrue
    <3>6. k \in Slot
      BY <3>2 DEF Slot
    <3> QED BY <1>1, <1>3, <1>4, <1>5, <1>7, <2>7, <3>2, <3>3, <3>5, <3>6, ReplaceFrame
  <2>8. CASE Pub!ReplaceRules(m.version, m.rules) /\ slots' = [slots EXCEPT ![s].kind = "replace_unknown"]
    <3>1. slots' = [slots EXCEPT ![s] = u]
      BY <1>2, <2>4, <2>8
    <3> QED BY <1>1, <1>3, <1>4, <1>5, <1>7, <2>5, <2>6, <2>8, <3>1, ReplaceFrame
  <2>9. CASE UNCHANGED <<draft, previews>> /\ slots' = [slots EXCEPT ![s].kind = "replace_unknown"]
    <3>1. slots' = [slots EXCEPT ![s] = u]
      BY <1>2, <2>4, <2>9
    <3> QED BY <1>1, <1>4, <1>5, <2>5, <2>6, <2>9, <3>1, SlotFrame
  <2> QED BY <2>2, <2>7, <2>8, <2>9
<1> QED BY <1>6, <1>7

\* The rules are read after the version: when the version is still the draft's, so are they.
LEMMA InsertPreviewKeeps ==
    ASSUME Pub!PublishingConstants, PublishingInv, NEW s \in Slots, Pub!InsertPreview(s)
    PROVE  PublishingInv'
<1>1. PublishingTypes /\ draft.base = Pub!Active /\ RowsTrue /\ PreviewFlowsTrue /\ SlotsTrue /\ LockTrue /\ RevisionsTrue
  BY DEF PublishingInv
<1>2. slots[s].kind = "binding"
  BY DEF Pub!InsertPreview
<1>3. PICK m \in Binding : m = slots[s]
  BY <1>2, SlotKnown, SlotKinds
<1>4. PICK p \in Previews : p = m.preview
  BY DEF Binding
<1>5. /\ previews[p] = Pub!Absent /\ m.version <= draft.version /\ m.version \in 1..MaxVersion
      /\ m.base \in 0..MaxRevision
      /\ m.version = draft.version => m.base = draft.base
  BY <1>2, <1>3, <1>4, SlotKnown DEF SlotTrue, Binding
<1>6. PICK z : z = Pub!Requested(m.version, m.base)
  OBVIOUS
<1>7. /\ draft' = draft /\ revisions' = revisions /\ revisionIntents' = revisionIntents /\ locked' = locked
      /\ world' = world /\ conflicts' = conflicts /\ previewLeases' = previewLeases /\ previewFlows' = previewFlows
      /\ requests' = requests /\ previewFaults' = previewFaults
      /\ previews' = [previews EXCEPT ![p] = z] /\ slots' = [slots EXCEPT ![s] = Pub!None]
  BY <1>3, <1>4, <1>6 DEF Pub!InsertPreview, Pub!sourceVars, Pub!workerVars
<1>8. draft.rules \in Rules /\ world + conflicts \in Nat
  BY <1>1 DEF PublishingTypes, DraftRecord
<1>9. /\ z \in Row /\ z.state = "pending" /\ z.version = m.version /\ z.sha = draft.rules /\ z.base = m.base
      /\ z.digest = Pub!None /\ z.token = 0
  BY <1>5, <1>6, <1>8 DEF Pub!Requested, Pub!Checkpoint, Row, RowStates
<1>10. RowTrue(z)
  BY <1>5, <1>9 DEF RowTrue
<1>11. \A q \in Previews : previews'[q] = IF q = p THEN z ELSE previews[q]
  BY <1>1, <1>7 DEF PublishingTypes
<1>12. \A t \in Slots : slots'[t] = IF t = s THEN Pub!None ELSE slots[t]
  BY <1>1, <1>7 DEF PublishingTypes
<1>13. PublishingTypes' /\ draft'.base = Pub!Active'
  <2>1. previews' \in [Previews -> Row \union {Pub!Absent}]
    BY <1>1, <1>7, <1>9 DEF PublishingTypes
  <2>2. slots' \in [Slots -> Slot]
    BY <1>1, <1>7, NoneIsNothing DEF PublishingTypes
  <2> QED BY <1>1, <1>7, <2>1, <2>2 DEF PublishingTypes, Pub!Active
<1>14. RowsTrue'
  <2>1. ASSUME NEW q \in Previews, previews'[q] # Pub!Absent PROVE RowTrue(previews[q])'
    <3>1. RowTrue(previews'[q])
      BY <1>1, <1>10, <1>11, <2>1 DEF RowsTrue
    <3> QED BY <1>7, <3>1 DEF RowTrue
  <2> QED BY <2>1 DEF RowsTrue
<1>15. PreviewFlowsTrue'
  BY <1>1, <1>7 DEF PreviewFlowsTrue, SnapTrue
<1>16. SlotsTrue'
  <2>1. ASSUME NEW t \in Slots PROVE SlotTrue(slots[t])'
    <3>1. CASE t = s
      <4>1. SlotTrue(Pub!None)'
        BY NoneIsNothing DEF SlotTrue
      <4> QED BY <1>12, <3>1, <4>1
    <3>2. CASE t # s
      <4>1. PICK l \in Slot : l = slots[t] /\ SlotTrue(l)
        BY SlotKnown
      <4>2. l.kind = "binding" => l.preview \in Previews /\ l.preview # p
        BY <1>1, <1>2, <1>3, <1>4, <3>2, <4>1, SlotKinds DEF SlotsTrue, BindingsApart, Binding
      <4>3. l.kind = "binding" => previews'[l.preview] = Pub!Absent
        BY <1>11, <4>1, <4>2 DEF SlotTrue
      <4>4. SlotTrue(l)'
        BY <1>7, <4>1, <4>3 DEF SlotTrue, Pub!Active
      <4> QED BY <1>12, <3>2, <4>1, <4>4
    <3> QED BY <3>1, <3>2
  <2>2. BindingsApart'
    BY <1>1, <1>12, NoneIsNothing DEF BindingsApart, SlotsTrue
  <2> QED BY <2>1, <2>2 DEF SlotsTrue
<1>17. LockTrue'
  <2>1. ASSUME NEW t \in Slots PROVE slots'[t].kind = "locked" <=> locked' = t
    BY <1>1, <1>2, <1>7, <1>12, NoneIsNothing DEF LockTrue
  <2>2. locked' # 0 => LockedTrue(slots[locked])'
    <3>1. SUFFICES ASSUME locked # 0 PROVE LockedTrue(slots[locked])'
      BY <1>7
    <3>2. locked \in Slots /\ locked # s /\ LockedTrue(slots[locked]) /\ slots[locked].kind = "locked"
      BY <1>1, <1>2, <3>1 DEF PublishingTypes, LockTrue
    <3>3. PICK l \in Committing : l = slots[locked]
      BY <3>2, SlotKnown, SlotKinds
    <3>4. LockedTrue(l) /\ slots'[locked'] = l
      BY <1>7, <1>12, <3>2, <3>3
    <3>5. l.preview \in Previews /\ l.preview # p
      BY <1>5, <3>4, RowOrAbsent DEF Committing, LockedTrue
    <3>6. LockedTrue(l)'
      BY <1>7, <1>11, <3>4, <3>5 DEF LockedTrue, Pub!Active
    <3> QED BY <3>4, <3>6
  <2> QED BY <2>1, <2>2 DEF LockTrue
<1>18. RevisionsTrue'
  <2>1. ASSUME NEW n \in 1..Pub!Active PROVE RevisionTrue(n)'
    <3>1. RevisionTrue(n)
      BY <1>1 DEF RevisionsTrue
    <3>2. revisions[n] \in Revision
      BY <1>1 DEF PublishingTypes, Pub!Active
    <3>3. PICK q \in Previews : q = revisions[n].cmd.preview
      BY <3>2 DEF Revision, Cmd
    <3>4. previews'[q] = previews[q]
      BY <1>5, <1>11, <3>1, <3>3, RowOrAbsent DEF RevisionTrue
    <3> QED BY <1>7, <3>1, <3>3, <3>4 DEF RevisionTrue, Pub!Active
  <2> QED BY <1>7, <2>1 DEF RevisionsTrue, Pub!Active
<1> QED BY <1>13, <1>14, <1>15, <1>16, <1>17, <1>18 DEF PublishingInv

\* Events of the sources: the counts only grow, and no source changes under the lock.
LEMMA EventKeeps ==
    ASSUME Pub!PublishingConstants, PublishingInv, Pub!SourceWrite \/ Pub!ConflictEvent
    PROVE  PublishingInv'
<1>1. PublishingTypes /\ draft.base = Pub!Active /\ RowsTrue /\ PreviewFlowsTrue /\ SlotsTrue /\ LockTrue /\ RevisionsTrue
  BY DEF PublishingInv
<1>2. /\ draft' = draft /\ revisions' = revisions /\ revisionIntents' = revisionIntents /\ previews' = previews
      /\ locked' = locked /\ slots' = slots /\ previewLeases' = previewLeases /\ previewFlows' = previewFlows
      /\ requests' = requests /\ previewFaults' = previewFaults
  BY DEF Pub!SourceWrite, Pub!ConflictEvent, Pub!ownerVars, Pub!workerVars
<1>3. /\ world \in 0..MaxWorld /\ conflicts \in 0..MaxConflict
      /\ world' \in 0..MaxWorld /\ conflicts' \in 0..MaxConflict
      /\ world \in Nat /\ world' \in Nat /\ conflicts \in Nat /\ conflicts' \in Nat
      /\ world <= world' /\ conflicts <= conflicts'
      /\ locked # 0 => world' = world
  BY <1>1 DEF PublishingTypes, Pub!SourceWrite, Pub!ConflictEvent, Pub!PolicyStateFree, Pub!PublishingConstants
<1>4. PublishingTypes' /\ draft'.base = Pub!Active'
  BY <1>1, <1>2, <1>3 DEF PublishingTypes, Pub!Active
<1>5. RowsTrue'
  <2>1. ASSUME NEW q \in Previews, previews[q] # Pub!Absent PROVE RowTrue(previews[q])'
    <3>1. PICK r \in Row : r = previews[q] /\ RowTrue(r)
      BY <2>1, PreviewKnown
    <3>2. r.digest # Pub!None => r.digest.world \in Nat
      BY DEF Row, Digest, Pub!PublishingConstants
    <3>3. r.checkpoint \in Nat
      BY DEF Row
    <3>4. RowTrue(r)'
      BY <1>2, <1>3, <3>1, <3>2, <3>3 DEF RowTrue
    <3> QED BY <1>2, <3>1, <3>4
  <2> QED BY <1>2, <2>1 DEF RowsTrue
<1>6. PreviewFlowsTrue'
  <2>1. ASSUME NEW q \in Previews, previewFlows[q].snap # Pub!None PROVE SnapTrue(previewFlows[q].snap)'
    <3>1. PICK x \in Snap : x = previewFlows[q].snap /\ SnapTrue(x)
      BY <2>1, PreviewKnown
    <3>2. x.world \in Nat /\ x.checkpoint \in Nat
      BY DEF Snap, Pub!PublishingConstants
    <3>3. SnapTrue(x)'
      BY <1>3, <3>1, <3>2 DEF SnapTrue
    <3> QED BY <1>2, <3>1, <3>3
  <2> QED BY <1>2, <2>1 DEF PreviewFlowsTrue
<1>7. SlotsTrue'
  BY <1>1, <1>2 DEF SlotsTrue, SlotTrue, BindingsApart, Pub!Active
<1>8. LockTrue'
  <2>1. CASE locked = 0
    BY <1>1, <1>2, <2>1 DEF LockTrue
  <2>2. CASE locked # 0
    <3>1. world' = world
      BY <1>3, <2>2
    <3> QED BY <1>1, <1>2, <3>1 DEF LockTrue, LockedTrue, Pub!Active
  <2> QED BY <2>1, <2>2
<1>9. RevisionsTrue'
  BY <1>1, <1>2 DEF RevisionsTrue, RevisionTrue, Pub!Active
<1> QED BY <1>4, <1>5, <1>6, <1>7, <1>8, <1>9 DEF PublishingInv

-------------------------------------------------------------------------------
(* Workflows and leases.                                                   *)

LEMMA FlowChanged ==
    ASSUME PublishingInv, NEW p \in Previews, NEW f \in PreviewFlow, f.snap # Pub!None => SnapTrue(f.snap),
           previewFlows' = [previewFlows EXCEPT ![p] = f], UNCHANGED Pub!sourceVars
    PROVE  previewFlows' \in [Previews -> PreviewFlow] /\ PreviewFlowsTrue'
<1>1. previewFlows \in [Previews -> PreviewFlow] /\ PreviewFlowsTrue
  BY DEF PublishingInv, PublishingTypes
<1>2. \A q \in Previews : previewFlows'[q] = IF q = p THEN f ELSE previewFlows[q]
  BY <1>1
<1>3. world' = world /\ conflicts' = conflicts
  BY DEF Pub!sourceVars
<1>4. ASSUME NEW q \in Previews, previewFlows'[q].snap # Pub!None PROVE SnapTrue(previewFlows[q].snap)'
  <2>1. SnapTrue(previewFlows'[q].snap)
    BY <1>1, <1>2, <1>4 DEF PreviewFlowsTrue
  <2> QED BY <1>3, <2>1 DEF SnapTrue
<1> QED BY <1>1, <1>4 DEF PreviewFlowsTrue

LEMMA FlowsSame ==
    ASSUME PublishingInv, previewFlows' = previewFlows, UNCHANGED Pub!sourceVars
    PROVE  previewFlows' \in [Previews -> PreviewFlow] /\ PreviewFlowsTrue'
BY DEF PublishingInv, PublishingTypes, PreviewFlowsTrue, SnapTrue, Pub!sourceVars

LEMMA LeasesKept ==
    ASSUME PublishingInv, NEW d \in Dispatchers, NEW p \in Previews \union {0},
           previewLeases' = [previewLeases EXCEPT ![d] = p] \/ previewLeases' = previewLeases
    PROVE  previewLeases' \in [Dispatchers -> Previews \union {0}]
BY DEF PublishingInv, PublishingTypes

LEMMA StartWorkflowKeeps ==
    ASSUME PublishingInv, NEW p \in Previews, previewFlows' = Pub!StartWorkflow(p) \/ previewFlows' = previewFlows, UNCHANGED Pub!sourceVars
    PROVE  previewFlows' \in [Previews -> PreviewFlow] /\ PreviewFlowsTrue'
<1>1. CASE previewFlows' = previewFlows
  BY <1>1, FlowsSame
<1>2. CASE previewFlows[p].state = "none" /\ previewFlows' = [previewFlows EXCEPT ![p].state = "running"]
  <2>1. PICK g \in PreviewFlow : g = previewFlows[p]
    BY PreviewKnown
  <2>2. g.snap # Pub!None => SnapTrue(g.snap)
    BY <2>1, PreviewKnown
  <2>3. PICK f : f = [g EXCEPT !.state = "running"]
    OBVIOUS
  <2>4. f \in PreviewFlow /\ f.snap = g.snap
    BY <2>3 DEF PreviewFlow
  <2>5. previewFlows' = [previewFlows EXCEPT ![p] = f]
    BY <1>2, <2>1, <2>3
  <2> QED BY <2>2, <2>4, <2>5, FlowChanged
<1> QED BY <1>1, <1>2 DEF Pub!StartWorkflow

\* An attempt that ends gives its snapshot back.
LEMMA AttemptEnds ==
    ASSUME Pub!PublishingConstants, PublishingInv, NEW p \in Previews, UNCHANGED Pub!sourceVars,
           \/ previewFlows' = [previewFlows EXCEPT ![p].snap = Pub!None]
           \/ previewFlows' = [previewFlows EXCEPT ![p].snap = Pub!None, ![p].state = "failed"]
           \/ /\ previewFlows[p].attempt < MaxAttempts
              /\ previewFlows' = [previewFlows EXCEPT ![p].snap = Pub!None, ![p].attempt = @ + 1]
    PROVE  previewFlows' \in [Previews -> PreviewFlow] /\ PreviewFlowsTrue'
<1>1. PICK g \in PreviewFlow : g = previewFlows[p]
  BY PreviewKnown
<1>2. g.attempt \in 1..MaxAttempts /\ g.state \in {"none", "running", "completed", "failed"}
  BY DEF PreviewFlow
<1>3. previewFlows \in [Previews -> PreviewFlow]
  BY DEF PublishingInv, PublishingTypes
<1>4. CASE previewFlows' = [previewFlows EXCEPT ![p].snap = Pub!None]
  <2>1. PICK f : f = [g EXCEPT !.snap = Pub!None]
    OBVIOUS
  <2>2. f \in PreviewFlow /\ f.snap = Pub!None
    BY <2>1 DEF PreviewFlow
  <2>3. previewFlows' = [previewFlows EXCEPT ![p] = f]
    BY <1>1, <1>4, <2>1
  <2> QED BY <2>2, <2>3, FlowChanged
<1>5. CASE previewFlows' = [previewFlows EXCEPT ![p].snap = Pub!None, ![p].state = "failed"]
  <2>1. PICK f : f = [g EXCEPT !.snap = Pub!None, !.state = "failed"]
    OBVIOUS
  <2>2. f \in PreviewFlow /\ f.snap = Pub!None
    BY <2>1 DEF PreviewFlow
  <2>3. previewFlows' = [previewFlows EXCEPT ![p] = f]
    BY <1>1, <1>3, <1>5, <2>1
  <2> QED BY <2>2, <2>3, FlowChanged
<1>6. CASE /\ previewFlows[p].attempt < MaxAttempts
           /\ previewFlows' = [previewFlows EXCEPT ![p].snap = Pub!None, ![p].attempt = @ + 1]
  <2>1. PICK f : f = [g EXCEPT !.snap = Pub!None, !.attempt = g.attempt + 1]
    OBVIOUS
  <2>2. g.attempt + 1 \in 1..MaxAttempts
    BY <1>1, <1>2, <1>6 DEF Pub!PublishingConstants
  <2>3. f \in PreviewFlow /\ f.snap = Pub!None
    BY <2>1, <2>2 DEF PreviewFlow
  <2>4. previewFlows' = [previewFlows EXCEPT ![p] = f]
    BY <1>1, <1>3, <1>6, <2>1
  <2> QED BY <2>3, <2>4, FlowChanged
<1> QED BY <1>4, <1>5, <1>6

\* An attempt opens its snapshot: what it reads belongs together.
LEMMA OpenAttemptKeeps ==
    ASSUME Pub!PublishingConstants, PublishingInv, NEW p \in Previews, Pub!OpenAttempt(p)
    PROVE  PublishingInv'
<1>1. UNCHANGED <<Pub!ownerVars, previews, Pub!sourceVars>> /\ previewFaults' = previewFaults /\ previewLeases' = previewLeases
  BY DEF Pub!OpenAttempt
<1>2. previews[p].state \in Pub!Executable
  BY DEF Pub!OpenAttempt
<1>3. PICK m \in Row : m = previews[p]
  BY <1>2, PreviewKnown DEF Pub!Executable
<1>4. m.state \in {"pending", "leased"} /\ RowTrue(m)
  BY <1>2, <1>3, PreviewKnown DEF Pub!Executable, Row, RowStates
<1>5. PICK x : x = Pub!Snapshot(p)
  OBVIOUS
<1>6. PICK e \in DraftRecord : e = Pub!Draft
  BY DEF PublishingInv, PublishingTypes, Pub!Draft, DraftRecord
<1>7. e.version = draft.version /\ e.rules = draft.rules
  BY <1>6 DEF Pub!Draft
<1>8. /\ world \in 0..MaxWorld /\ world \in Nat /\ conflicts \in Nat /\ Pub!Active \in 0..MaxRevision
      /\ Pub!Checkpoint \in Nat /\ Pub!Checkpoint = world + conflicts
  BY DEF PublishingInv, PublishingTypes, DraftRecord, Pub!Checkpoint, Pub!PublishingConstants
<1>9. x \in Snap /\ x.row = m /\ x.draft = e /\ x.checkpoint = Pub!Checkpoint /\ x.world = world
  BY <1>3, <1>5, <1>6, <1>8 DEF Pub!Snapshot, Snap
<1>10. SnapTrue(x)
  BY <1>4, <1>7, <1>8, <1>9 DEF SnapTrue, RowTrue
<1>11. PICK g \in PreviewFlow : g = previewFlows[p]
  BY PreviewKnown
<1>12. PICK f : f = [g EXCEPT !.snap = x]
  OBVIOUS
<1>13. f \in PreviewFlow /\ f.snap = x
  BY <1>9, <1>12 DEF PreviewFlow
<1>14. previewFlows' = [previewFlows EXCEPT ![p] = f]
  BY <1>5, <1>11, <1>12 DEF Pub!OpenAttempt
<1>15. previewFlows' \in [Previews -> PreviewFlow] /\ PreviewFlowsTrue'
  BY <1>1, <1>10, <1>13, <1>14, FlowChanged
<1>16. previewLeases' \in [Dispatchers -> Previews \union {0}] /\ previewFaults' \in 0..MaxFaults
  BY <1>1 DEF PublishingInv, PublishingTypes
<1> QED BY <1>1, <1>15, <1>16, FlowFrame

LEMMA FlowOnlyKeeps ==
    ASSUME Pub!PublishingConstants, PublishingInv, NEW p \in Previews,
           Pub!RetryAttempt(p) \/ Pub!AbandonFlow(p) \/ Pub!EndFlow(p)
    PROVE  PublishingInv'
<1>1. UNCHANGED <<Pub!ownerVars, previews, Pub!sourceVars>> /\ previewLeases' = previewLeases
  BY DEF Pub!RetryAttempt, Pub!AbandonFlow, Pub!EndFlow
<1>2. previewFaults' \in 0..MaxFaults
  BY CountersKept DEF Pub!RetryAttempt, Pub!AbandonFlow, Pub!EndFlow, PublishingInv
<1>3. previewLeases' \in [Dispatchers -> Previews \union {0}]
  BY <1>1 DEF PublishingInv, PublishingTypes
<1>4. CASE Pub!RetryAttempt(p) \/ Pub!AbandonFlow(p)
  <2>1. previewFlows' \in [Previews -> PreviewFlow] /\ PreviewFlowsTrue'
    BY <1>1, <1>4, AttemptEnds DEF Pub!RetryAttempt, Pub!AbandonFlow
  <2> QED BY <1>1, <1>2, <1>3, <2>1, FlowFrame
<1>5. CASE Pub!EndFlow(p)
  <2>1. PICK g \in PreviewFlow : g = previewFlows[p]
    BY PreviewKnown
  <2>2. PICK st \in {"completed", "failed"} : st = IF previews[p].state = "ready" THEN "completed" ELSE "failed"
    OBVIOUS
  <2>3. PICK f : f = [g EXCEPT !.state = st]
    OBVIOUS
  <2>4. f \in PreviewFlow /\ f.snap = Pub!None
    BY <1>5, <2>1, <2>3 DEF PreviewFlow, Pub!EndFlow
  <2>5. previewFlows' = [previewFlows EXCEPT ![p] = f]
    BY <1>5, <2>1, <2>2, <2>3 DEF Pub!EndFlow
  <2>6. previewFlows' \in [Previews -> PreviewFlow] /\ PreviewFlowsTrue'
    BY <1>1, <2>4, <2>5, FlowChanged
  <2> QED BY <1>1, <1>2, <1>3, <2>6, FlowFrame
<1> QED BY <1>4, <1>5

LEMMA LeaveLeaseKeeps ==
    ASSUME Pub!PublishingConstants, PublishingInv, NEW d \in Dispatchers, Pub!LeaveLease(d)
    PROVE  PublishingInv'
<1>1. UNCHANGED <<Pub!ownerVars, previews, Pub!sourceVars>> /\ previewFlows' = previewFlows
  BY DEF Pub!LeaveLease
<1>2. previewLeases' \in [Dispatchers -> Previews \union {0}]
  BY LeasesKept DEF Pub!LeaveLease
<1>3. previewFaults' \in 0..MaxFaults
  BY CountersKept DEF Pub!LeaveLease, PublishingInv
<1> QED BY <1>1, <1>2, <1>3, FlowsSame, FlowFrame

-------------------------------------------------------------------------------
(* Preview rows.                                                           *)

LEMMA RowMoved ==
    ASSUME PublishingInv, NEW m \in Row, RowTrue(m), NEW st \in RowStates, NEW d \in Dispatchers \union {0},
           NEW z, z = [m EXCEPT !.state = st, !.token = d],
           (st = "leased") = (d # 0),
           st \in {"pending", "leased", "failed"} => m.digest = Pub!None,
           st \in {"ready", "consumed"} => m.digest # Pub!None
    PROVE  z \in Row /\ RowTrue(z)
<1>1. /\ z \in Row /\ z.state = st /\ z.version = m.version /\ z.sha = m.sha /\ z.base = m.base
      /\ z.checkpoint = m.checkpoint /\ z.digest = m.digest /\ z.token = d
  BY DEF Row
<1> QED BY <1>1 DEF RowTrue

\* A row that is still executable, or READY, is moved on by whoever may lock it.
LEMMA RowStep ==
    ASSUME PublishingInv, NEW p \in Previews, NEW st \in {"pending", "leased", "failed", "expired"},
           NEW d \in Dispatchers \union {0}, previews[p].state \in Pub!Executable \union {"ready"},
           Pub!PreviewFree(p), (st = "leased") = (d # 0), st = "expired" <=> previews[p].state = "ready",
           \/ previews' = [previews EXCEPT ![p].state = st, ![p].token = d]
           \/ previews' = [previews EXCEPT ![p].state = st] /\ d = previews[p].token,
           UNCHANGED <<Pub!ownerVars, Pub!sourceVars>>,
           previewLeases' \in [Dispatchers -> Previews \union {0}], previewFlows' \in [Previews -> PreviewFlow], PreviewFlowsTrue',
           previewFaults' \in 0..MaxFaults
    PROVE  PublishingInv'
<1>1. previews[p].state # "absent"
  BY DEF Pub!Executable
<1>2. PICK m \in Row : m = previews[p]
  BY <1>1, PreviewKnown
<1>3. RowTrue(m) /\ previews[p] # Pub!Absent /\ previews \in [Previews -> Row \union {Pub!Absent}]
  BY <1>1, <1>2, PreviewKnown
<1>4. m.state \in {"pending", "leased", "ready"}
  BY <1>2 DEF Pub!Executable, Row, RowStates
<1>5. st \in RowStates /\ st \notin {"ready", "consumed"}
  BY DEF RowStates
<1>6. st \in {"pending", "leased", "failed"} => m.digest = Pub!None
  BY <1>2, <1>3, <1>4 DEF RowTrue
<1>7. CASE previews' = [previews EXCEPT ![p].state = st, ![p].token = d]
  <2>1. PICK z : z = [m EXCEPT !.state = st, !.token = d]
    OBVIOUS
  <2>2. z \in Row /\ RowTrue(z)
    BY <1>3, <1>5, <1>6, <2>1, RowMoved
  <2>3. previews' = [previews EXCEPT ![p] = z]
    BY <1>2, <1>3, <1>7, <2>1
  <2> QED BY <1>2, <1>3, <1>4, <2>2, <2>3, RowFrame
<1>8. CASE previews' = [previews EXCEPT ![p].state = st] /\ d = previews[p].token
  <2>1. PICK z : z = [m EXCEPT !.state = st]
    OBVIOUS
  <2>2. z \in Row /\ RowTrue(z)
    <3>1. z = [m EXCEPT !.state = st] /\ d = m.token
      BY <1>2, <1>8, <2>1
    <3>2. z = [m EXCEPT !.state = st, !.token = d]
      BY <3>1 DEF Row
    <3> QED BY <1>3, <1>5, <1>6, <3>2, RowMoved
  <2>3. previews' = [previews EXCEPT ![p] = z]
    BY <1>2, <1>3, <1>8, <2>1
  <2> QED BY <1>2, <1>3, <1>4, <2>2, <2>3, RowFrame
<1> QED BY <1>7, <1>8

\* READY has no token, so the row may be expired by its state alone.
LEMMA ExpireStep ==
    ASSUME PublishingInv, NEW p \in Previews, previews[p].state = "ready", Pub!PreviewFree(p),
           previews' = [previews EXCEPT ![p].state = "expired"],
           UNCHANGED <<Pub!ownerVars, Pub!sourceVars>>, previewLeases' = previewLeases, previewFlows' = previewFlows, previewFaults' = previewFaults
    PROVE  PublishingInv'
<1>1. PICK m \in Row : m = previews[p] /\ RowTrue(m)
  BY PreviewKnown
<1>2. PICK d \in Dispatchers \union {0} : d = m.token /\ d = 0
  BY <1>1 DEF Row, RowTrue
<1>3. previewLeases' \in [Dispatchers -> Previews \union {0}] /\ previewFaults' \in 0..MaxFaults
  BY DEF PublishingInv, PublishingTypes
<1>4. previewFlows' \in [Previews -> PreviewFlow] /\ PreviewFlowsTrue'
  BY FlowsSame
<1> QED BY <1>1, <1>2, <1>3, <1>4, RowStep

LEMMA FailStep ==
    ASSUME PublishingInv, NEW p \in Previews, Pub!PreviewFree(p), previews' = Pub!FailExecutable(p),
           UNCHANGED <<Pub!ownerVars, Pub!sourceVars>>,
           previewLeases' \in [Dispatchers -> Previews \union {0}], previewFlows' \in [Previews -> PreviewFlow], PreviewFlowsTrue',
           previewFaults' \in 0..MaxFaults
    PROVE  PublishingInv'
<1>1. CASE previews[p].state \in Pub!Executable
  <2>1. previews' = [previews EXCEPT ![p].state = "failed", ![p].token = 0]
    BY <1>1 DEF Pub!FailExecutable
  <2>2. previews[p].state # "ready"
    BY <1>1 DEF Pub!Executable
  <2> QED BY <1>1, <2>1, <2>2, RowStep
<1>2. CASE previews[p].state \notin Pub!Executable
  BY <1>2, FlowFrame DEF Pub!FailExecutable
<1> QED BY <1>1, <1>2

LEMMA RowActionKeeps ==
    ASSUME Pub!PublishingConstants, PublishingInv, NEW d \in Dispatchers,
           Pub!ClaimPending(d) \/ Pub!ReclaimExpired(d) \/ Pub!ExpireOverdue(d)
    PROVE  PublishingInv'
<1>1. UNCHANGED <<Pub!ownerVars, Pub!sourceVars>> /\ previewFlows' = previewFlows /\ previewFaults' = previewFaults
  BY DEF Pub!ClaimPending, Pub!ReclaimExpired, Pub!ExpireOverdue, Pub!workerVars
<1>2. previewFlows' \in [Previews -> PreviewFlow] /\ PreviewFlowsTrue'
  BY <1>1, FlowsSame
<1>3. previewFaults' \in 0..MaxFaults
  BY <1>1 DEF PublishingInv, PublishingTypes
<1>4. CASE Pub!ClaimPending(d)
  <2>1. PICK p \in Previews : Pub!Claimable(p) /\ previews' = Pub!Leased(p, d) /\ previewLeases' = [previewLeases EXCEPT ![d] = p]
    BY <1>4 DEF Pub!ClaimPending
  <2>2. previewLeases' \in [Dispatchers -> Previews \union {0}]
    BY <2>1, LeasesKept
  <2>3. previews[p].state = "pending" /\ Pub!PreviewFree(p) /\ d # 0
    BY <2>1 DEF Pub!Claimable, Pub!PublishingConstants
  <2>4. previews' = [previews EXCEPT ![p].state = "leased", ![p].token = d]
    BY <2>1 DEF Pub!Leased
  <2> QED BY <1>1, <1>2, <1>3, <2>2, <2>3, <2>4, RowStep DEF Pub!Executable
<1>5. CASE Pub!ReclaimExpired(d)
  <2>1. PICK p \in Previews : previews[p].state = "leased" /\ Pub!PreviewFree(p) /\ previews' = Pub!BackToPending(p)
    BY <1>5 DEF Pub!ReclaimExpired
  <2>2. previewLeases' \in [Dispatchers -> Previews \union {0}]
    BY <1>5 DEF PublishingInv, PublishingTypes, Pub!ReclaimExpired, Pub!workerVars
  <2>3. previews' = [previews EXCEPT ![p].state = "pending", ![p].token = 0]
    BY <2>1 DEF Pub!BackToPending
  <2> QED BY <1>1, <1>2, <1>3, <2>1, <2>2, <2>3, RowStep DEF Pub!Executable
<1>6. CASE Pub!ExpireOverdue(d)
  <2>1. PICK p \in Previews :
          previews[p].state \in Pub!Executable \union {"ready"} /\ Pub!PreviewFree(p) /\ previews' = Pub!Overdue(p)
    BY <1>6 DEF Pub!ExpireOverdue
  <2>2. previewLeases' = previewLeases /\ previewLeases' \in [Dispatchers -> Previews \union {0}]
    BY <1>6 DEF PublishingInv, PublishingTypes, Pub!ExpireOverdue, Pub!workerVars
  <2>3. CASE previews[p].state \in Pub!Executable
    <3>1. previews' = [previews EXCEPT ![p].state = "failed", ![p].token = 0]
      BY <2>1, <2>3 DEF Pub!Overdue, Pub!FailOverdue
    <3>2. previews[p].state # "ready"
      BY <2>3 DEF Pub!Executable
    <3> QED BY <1>1, <1>2, <1>3, <2>1, <2>2, <3>1, <3>2, RowStep
  <2>4. CASE previews[p].state \notin Pub!Executable
    <3>1. previews[p].state = "ready" /\ previews' = [previews EXCEPT ![p].state = "expired"]
      BY <2>1, <2>4 DEF Pub!Overdue, Pub!FailOverdue
    <3> QED BY <1>1, <2>1, <2>2, <3>1, ExpireStep
  <2> QED BY <2>3, <2>4
<1> QED BY <1>4, <1>5, <1>6

LEMMA GetPreviewKeeps ==
    ASSUME PublishingInv, NEW p \in Previews, Pub!GetPreview(p)
    PROVE  PublishingInv'
BY ExpireStep DEF Pub!GetPreview, Pub!workerVars

LEMMA DispatchKeeps ==
    ASSUME Pub!PublishingConstants, PublishingInv, NEW d \in Dispatchers, Pub!Dispatch(d) \/ Pub!ReleaseRetry(d)
    PROVE  PublishingInv'
<1>1. UNCHANGED <<Pub!ownerVars, Pub!sourceVars>> /\ previewLeases' = [previewLeases EXCEPT ![d] = 0]
  BY DEF Pub!Dispatch, Pub!ReleaseRetry
<1>2. PICK p \in Previews : p = previewLeases[d] /\ Pub!PreviewFree(p)
  BY DEF Pub!Dispatch, Pub!ReleaseRetry, PublishingInv, PublishingTypes
<1>3. previewLeases' \in [Dispatchers -> Previews \union {0}]
  BY <1>1, LeasesKept
<1>4. previewFlows' \in [Previews -> PreviewFlow] /\ PreviewFlowsTrue'
  BY <1>1, <1>2, StartWorkflowKeeps DEF Pub!Dispatch, Pub!ReleaseRetry
<1>5. previewFaults' \in 0..MaxFaults
  BY CountersKept DEF Pub!Dispatch, Pub!ReleaseRetry, PublishingInv
<1>6. CASE previews' = Pub!FailExecutable(p)
  BY <1>1, <1>2, <1>3, <1>4, <1>5, <1>6, FailStep
<1>7. CASE previews' = previews
  BY <1>1, <1>3, <1>4, <1>5, <1>7, FlowFrame
<1>8. CASE previews[p].state = "leased" /\ previews' = Pub!BackToPending(p)
  <2>1. previews' = [previews EXCEPT ![p].state = "pending", ![p].token = 0]
    BY <1>8 DEF Pub!BackToPending
  <2> QED BY <1>1, <1>2, <1>3, <1>4, <1>5, <1>8, <2>1, RowStep DEF Pub!Executable
<1> QED BY <1>2, <1>6, <1>7, <1>8 DEF Pub!Dispatch, Pub!ReleaseRetry, Pub!ReleasedBy

LEMMA FailedAttemptKeeps ==
    ASSUME Pub!PublishingConstants, PublishingInv, NEW p \in Previews, Pub!StaleAttempt(p) \/ Pub!FailAttempt(p)
    PROVE  PublishingInv'
<1>1. UNCHANGED <<Pub!ownerVars, Pub!sourceVars>> /\ previewLeases' = previewLeases /\ Pub!PreviewFree(p)
  BY DEF Pub!StaleAttempt, Pub!FailAttempt
<1>2. previewLeases' \in [Dispatchers -> Previews \union {0}]
  BY <1>1 DEF PublishingInv, PublishingTypes
<1>3. previewFlows' \in [Previews -> PreviewFlow] /\ PreviewFlowsTrue'
  BY <1>1, AttemptEnds DEF Pub!StaleAttempt, Pub!FailAttempt
<1>4. previewFaults' \in 0..MaxFaults
  BY CountersKept DEF Pub!StaleAttempt, Pub!FailAttempt, PublishingInv
<1>5. previews' = Pub!FailExecutable(p) \/ previews' = previews
  BY DEF Pub!StaleAttempt, Pub!FailAttempt
<1> QED BY <1>1, <1>2, <1>3, <1>4, <1>5, FailStep, FlowFrame

\* The digest is of what the row was bound to, and of the sources its checkpoint counts.
LEMMA CommitAttemptKeeps ==
    ASSUME Pub!PublishingConstants, PublishingInv, NEW p \in Previews, Pub!CommitAttempt(p)
    PROVE  PublishingInv'
<1>1. UNCHANGED <<Pub!ownerVars, Pub!sourceVars>> /\ previewLeases' = previewLeases /\ previewFaults' = previewFaults /\ Pub!PreviewFree(p)
  BY DEF Pub!CommitAttempt
<1>2. PICK x \in Snap : x = previewFlows[p].snap /\ SnapTrue(x)
  BY PreviewKnown DEF Pub!CommitAttempt
<1>3. Pub!Bound(x) /\ previews[p] = x.row /\ previews' = Pub!MarkReady(p, x)
  BY <1>2 DEF Pub!CommitAttempt
<1>4. PICK m \in Row : m = previews[p] /\ m = x.row
  BY <1>3 DEF Snap
<1>5. RowTrue(m) /\ previews[p] # Pub!Absent /\ previews \in [Previews -> Row \union {Pub!Absent}]
  BY <1>4, PreviewKnown, RowOrAbsent
<1>6. m.state \in {"pending", "leased"}
  BY <1>2, <1>4 DEF SnapTrue
<1>7. PICK e : e = Pub!Evaluated(x)
  OBVIOUS
<1>8. /\ e \in Digest /\ e.rules = x.draft.rules /\ e.previous = x.active /\ e.world = x.world
  BY <1>7 DEF Pub!Evaluated, Digest, Snap, DraftRecord
<1>9. PICK z : z = [m EXCEPT !.state = "ready", !.token = 0, !.digest = e]
  OBVIOUS
<1>10. /\ z \in Row /\ z.state = "ready" /\ z.version = m.version /\ z.sha = m.sha /\ z.base = m.base
       /\ z.checkpoint = m.checkpoint /\ z.digest = e /\ z.token = 0
  BY <1>8, <1>9 DEF Row, RowStates
<1>11. RowTrue(z)
  <2>1. e # Pub!None
    BY <1>8, NoneIsNothing
  <2>2. x.draft.rules = m.sha /\ x.active = m.base /\ x.checkpoint = m.checkpoint
    BY <1>2, <1>3, <1>4 DEF Pub!Bound, SnapTrue
  <2> QED BY <1>2, <1>5, <1>8, <1>10, <2>1, <2>2 DEF RowTrue, SnapTrue
<1>12. previews' = [previews EXCEPT ![p] = z]
  BY <1>3, <1>4, <1>5, <1>7, <1>9 DEF Pub!MarkReady
<1>13. previewFlows' \in [Previews -> PreviewFlow] /\ PreviewFlowsTrue'
  BY <1>1, AttemptEnds DEF Pub!CommitAttempt
<1>14. previewLeases' \in [Dispatchers -> Previews \union {0}] /\ previewFaults' \in 0..MaxFaults
  BY <1>1 DEF PublishingInv, PublishingTypes
<1> QED BY <1>1, <1>4, <1>5, <1>6, <1>10, <1>11, <1>12, <1>13, <1>14, RowFrame

-------------------------------------------------------------------------------
(* The theorems.                                                           *)

LEMMA PublishingStarts ==
    ASSUME Pub!PublishingConstants, Pub!Init
    PROVE  PublishingInv
<1>1. Pub!Active = 0
  BY DEF Pub!Init, Pub!Active
<1>2. draft \in DraftRecord /\ draft.base = Pub!Active
  BY <1>1 DEF Pub!Init, Pub!SeededDraft, DraftRecord, Pub!PublishingConstants
<1>3. \A p \in Previews : previews[p] = Pub!Absent
  BY DEF Pub!Init
<1>4. \A p \in Previews : previewFlows[p] = [state |-> "none", attempt |-> 1, snap |-> Pub!None]
  BY DEF Pub!Init
<1>5. previewFlows \in [Previews -> PreviewFlow]
  <2>1. 1 \in 1..MaxAttempts
    BY DEF Pub!PublishingConstants
  <2> QED BY <2>1 DEF Pub!Init, PreviewFlow
<1>6. PublishingTypes
  <2>1. revisions \in Seq(Revision) /\ Len(revisions) <= MaxRevision
    BY DEF Pub!Init, Pub!PublishingConstants
  <2>2. revisionIntents = 1..Pub!Active
    BY <1>1 DEF Pub!Init
  <2>3. slots \in [Slots -> Slot]
    BY NoneIsNothing DEF Pub!Init
  <2>4. world \in 0..MaxWorld /\ conflicts \in 0..MaxConflict /\ requests \in 0..MaxRequests /\ previewFaults \in 0..MaxFaults
    BY DEF Pub!Init, Pub!PublishingConstants
  <2> QED BY <1>2, <1>5, <2>1, <2>2, <2>3, <2>4 DEF Pub!Init, PublishingTypes
<1>7. RowsTrue
  BY <1>3 DEF RowsTrue
<1>8. PreviewFlowsTrue
  BY <1>4 DEF PreviewFlowsTrue
<1>9. SlotsTrue
  BY NoneIsNothing DEF Pub!Init, SlotsTrue, SlotTrue, BindingsApart
<1>10. LockTrue
  BY NoneIsNothing DEF Pub!Init, LockTrue, Pub!PublishingConstants
<1>11. RevisionsTrue
  BY <1>1 DEF RevisionsTrue
<1> QED BY <1>2, <1>6, <1>7, <1>8, <1>9, <1>10, <1>11 DEF PublishingInv

LEMMA PublishingStays ==
    ASSUME PublishingInv, UNCHANGED Pub!vars
    PROVE  PublishingInv'
<1>1. /\ draft' = draft /\ revisions' = revisions /\ revisionIntents' = revisionIntents /\ previews' = previews
      /\ world' = world /\ conflicts' = conflicts /\ locked' = locked /\ slots' = slots
      /\ previewLeases' = previewLeases /\ previewFlows' = previewFlows /\ requests' = requests /\ previewFaults' = previewFaults
  BY DEF Pub!vars
<1> QED BY <1>1, FlowsSame, FlowFrame DEF PublishingInv, PublishingTypes, Pub!ownerVars, Pub!sourceVars

LEMMA PublishingMoves ==
    ASSUME Pub!PublishingConstants, PublishingInv, [Pub!Next]_Pub!vars
    PROVE  PublishingInv'
<1>1. CASE Pub!Owner
  <2>1. ASSUME NEW s \in Slots, Pub!EditDraft(s) \/ Pub!ReplaceOnce(s) \/ Pub!RecoverReplacement(s)
                                \/ Pub!RequestPreview(s) \/ Pub!InsertPreview(s)
        PROVE  PublishingInv'
    BY <2>1, EditDraftKeeps, ReplaceOnceKeeps, RecoverReplacementKeeps, RequestPreviewKeeps, InsertPreviewKeeps
  <2>2. ASSUME NEW s \in Slots, Pub!Publish(s) \/ Pub!ResolveCommitted(s) \/ Pub!PublishLocked(s)
                                \/ Pub!CommitPublication(s) \/ Pub!AbortPublication(s)
                                \/ Pub!RecoverPublication(s) \/ Pub!Settle(s)
        PROVE  PublishingInv'
    BY <2>2, PublishRequestKeeps, LookUpKeeps, PublishLockedKeeps, CommitPublicationKeeps, AbortPublicationKeeps, SettleKeeps
  <2> QED BY <1>1, <2>1, <2>2, GetPreviewKeeps DEF Pub!Owner
<1>2. CASE Pub!Dispatching
  BY <1>2, RowActionKeeps, DispatchKeeps, LeaveLeaseKeeps DEF Pub!Dispatching
<1>3. CASE Pub!Activity
  BY <1>3, OpenAttemptKeeps, CommitAttemptKeeps, FlowOnlyKeeps, FailedAttemptKeeps DEF Pub!Activity
<1>4. CASE Pub!SourceWrite \/ Pub!ConflictEvent
  BY <1>4, EventKeeps
<1>5. CASE Pub!Quiet \/ UNCHANGED Pub!vars
  BY <1>5, PublishingStays DEF Pub!Quiet
<1> QED BY <1>1, <1>2, <1>3, <1>4, <1>5 DEF Pub!Next

\* Whatever requests, dispatchers and attempts do to each other, what each of them may
\* still rely on is so (policy_drafts.py, policy_previews.py, policy_publication.py).
THEOREM PublishingInvHolds ==
    ASSUME Pub!PublishingConstants
    PROVE  Pub!Spec => []PublishingInv
<1>1. Pub!Init => PublishingInv
  BY PublishingStarts
<1>2. PublishingInv /\ [Pub!Next]_Pub!vars => PublishingInv'
  BY PublishingMoves
<1> QED BY <1>1, <1>2, PTL DEF Pub!Spec

LEMMA InvariantIsSafe ==
    ASSUME Pub!PublishingConstants, PublishingInv
    PROVE  Pub!PublishingSafe
<1>1. PublishingTypes /\ draft.base = Pub!Active /\ RowsTrue /\ PreviewFlowsTrue /\ SlotsTrue /\ LockTrue /\ RevisionsTrue
  BY DEF PublishingInv
<1>2. Pub!TypeOK
  <2>1. ASSUME NEW p \in Previews, previews[p] # Pub!Absent
        PROVE  /\ previews[p].state \in Pub!Executable \union {"ready", "failed", "expired", "consumed"}
               /\ previews[p].version \in 1..MaxVersion
               /\ previews[p].sha \in Rules
               /\ previews[p].base \in 0..MaxRevision
               /\ previews[p].token \in Dispatchers \union {0}
    <3>1. previews[p] \in Row
      BY <2>1, PreviewKnown
    <3> QED BY <3>1 DEF Row, RowStates, Pub!Executable
  <2>2. ASSUME NEW p \in Previews
        PROVE  /\ previewFlows[p].state \in {"none", "running", "completed", "failed"}
               /\ previewFlows[p].attempt \in 1..MaxAttempts
    BY PreviewKnown DEF PreviewFlow
  <2>3. revisionIntents \subseteq 1..MaxRevision
    BY <1>1 DEF PublishingTypes, Pub!Active, Pub!PublishingConstants
  <2> QED BY <1>1, <2>1, <2>2, <2>3 DEF Pub!TypeOK, PublishingTypes, DraftRecord
<1>3. Pub!RevisionAsPreviewed
  BY <1>1 DEF Pub!RevisionAsPreviewed, RevisionsTrue, RevisionTrue
<1>4. Pub!AnswerRecorded
  <2>1. ASSUME NEW s \in Slots, slots[s].kind = "answered"
        PROVE  /\ slots[s].what.result = "published" => revisions[slots[s].what.revision].cmd = slots[s].what.cmd
               /\ slots[s].what.result = "replaced" =>
                     /\ draft.version >= slots[s].what.version
                     /\ draft.version = slots[s].what.version => draft.rules = slots[s].what.rules
    BY <2>1, SlotKnown DEF SlotTrue
  <2> QED BY <1>1, <2>1 DEF Pub!AnswerRecorded, PublishingTypes
<1>5. Pub!PolicyRowsAccepted
  <2>1. ASSUME NEW p \in Previews, previews[p] # Pub!Absent
        PROVE  Pub!PreviewRow(previews[p]) /\ previews[p].state # "running"
    <3>1. PICK r \in Row : r = previews[p] /\ RowTrue(r)
      BY <2>1, PreviewKnown
    <3>2. r.state # "running"
      BY DEF Row, RowStates
    <3> QED BY <3>1, <3>2 DEF RowTrue, Pub!PreviewRow, Pub!Executable
  <2>2. ASSUME NEW n \in 1..Pub!Active PROVE Pub!RevisionRow(n)
    <3>1. RevisionTrue(n)
      BY <1>1 DEF RevisionsTrue
    <3>2. revisions[n] \in Revision
      BY <1>1 DEF PublishingTypes, Pub!Active
    <3>4. revisions[n].checkpoint \in Nat
      BY <3>2 DEF Revision
    <3>3. n \in Nat
      OBVIOUS
    <3> QED BY <3>1, <3>3, <3>4 DEF RevisionTrue, Pub!RevisionRow
  <2> QED BY <1>1, <2>1, <2>2 DEF Pub!PolicyRowsAccepted
<1> QED BY <1>2, <1>3, <1>4, <1>5 DEF Pub!PublishingSafe

\* A published revision is what its preview showed, an answer tells what is committed, and
\* no statement writes a row its table refuses (_publish_locked with the rechecks before it).
THEOREM PublishingIsSafe ==
    ASSUME Pub!PublishingConstants
    PROVE  Pub!Spec => []Pub!PublishingSafe
BY PublishingInvHolds, InvariantIsSafe, PTL

\* What one step may do to a row that has settled.
SettledStep(p) ==
    /\ previews[p].state = "ready" => previews'[p].state \in {"ready", "expired", "consumed"}
    /\ previews[p].state \in {"failed", "expired", "consumed"} => previews'[p] = previews[p]

\* A step that touches the row of p only, and p has not settled.
LEMMA OtherRowsSettle ==
    ASSUME NEW p \in Previews, NEW q \in Previews,
           \A x \in Previews : x # p => previews'[x] = previews[x],
           previews[p].state \notin {"failed", "expired", "consumed"},
           previews[p].state = "ready" => previews'[p].state \in {"ready", "expired", "consumed"}
    PROVE  SettledStep(q)
BY DEF SettledStep

LEMMA StepSettles ==
    ASSUME Pub!PublishingConstants, PublishingInv, [Pub!Next]_Pub!vars, NEW q \in Previews
    PROVE  SettledStep(q)
<1>1. previews \in [Previews -> Row \union {Pub!Absent}]
  BY DEF PublishingInv, PublishingTypes
<1>2. CASE previews' = previews
  BY <1>2 DEF SettledStep
<1>3. ASSUME NEW s \in Slots, Pub!ReplaceOnce(s) PROVE SettledStep(q)
  <2>1. \/ previews' = previews
        \/ previews'[q] = previews[q]
        \/ previews[q].state = "ready" /\ previews'[q] = [previews[q] EXCEPT !.state = "expired"]
    BY <1>3 DEF Pub!ReplaceOnce, Pub!ReplaceRules, Pub!ExpireReady
  <2>2. previews[q].state = "ready" => previews[q] \in Row
    BY PreviewKnown
  <2> QED BY <2>1, <2>2 DEF SettledStep, Row
<1>4. ASSUME NEW s \in Slots, Pub!InsertPreview(s) PROVE SettledStep(q)
  <2>1. PICK m \in Binding : m = slots[s] /\ SlotTrue(m) /\ m.kind = "binding"
    BY <1>4, SlotKnown, SlotKinds DEF Pub!InsertPreview
  <2>2. PICK p \in Previews : p = m.preview /\ previews[p] = Pub!Absent
    BY <2>1 DEF Binding, SlotTrue
  <2>3. \A x \in Previews : x # p => previews'[x] = previews[x]
    BY <1>1, <1>4, <2>1, <2>2 DEF Pub!InsertPreview
  <2>4. previews[p].state = "absent"
    BY <2>2 DEF Pub!Absent
  <2> QED BY <2>3, <2>4, OtherRowsSettle
<1>5. ASSUME NEW s \in Slots, Pub!CommitPublication(s) PROVE SettledStep(q)
  <2>1. PICK p \in Previews : p = slots[s].preview /\ p = slots[s].cmd.preview
    BY <1>5, CommitKnows DEF Committing
  <2>2. previews[p].state = "ready" /\ previews[p] \in Row
    BY <1>5, <2>1, CommitKnows DEF LockedTrue
  <2>3. previews' = [previews EXCEPT ![p].state = "consumed"]
    BY <1>5, <2>1 DEF Pub!CommitPublication, Pub!Consume
  <2>4. \A x \in Previews : x # p => previews'[x] = previews[x]
    BY <1>1, <2>3
  <2>5. previews'[p].state = "consumed"
    BY <1>1, <2>2, <2>3 DEF Row
  <2> QED BY <2>2, <2>4, <2>5, OtherRowsSettle
<1>6. ASSUME NEW p \in Previews, previews[p].state = "ready", previews' = [previews EXCEPT ![p].state = "expired"]
      PROVE  SettledStep(q)
  <2>1. previews[p] \in Row
    BY <1>6, PreviewKnown
  <2>2. \A x \in Previews : x # p => previews'[x] = previews[x]
    BY <1>1, <1>6
  <2>3. previews'[p].state = "expired"
    BY <1>1, <1>6, <2>1 DEF Row
  <2> QED BY <1>6, <2>2, <2>3, OtherRowsSettle
<1>7. ASSUME NEW p \in Previews, NEW st, NEW d, previews[p].state \in Pub!Executable,
             previews' = [previews EXCEPT ![p].state = st, ![p].token = d]
      PROVE  SettledStep(q)
  <2>1. \A x \in Previews : x # p => previews'[x] = previews[x]
    BY <1>1, <1>7
  <2>2. previews[p].state \notin {"ready", "failed", "expired", "consumed"}
    BY <1>7 DEF Pub!Executable
  <2> QED BY <2>1, <2>2, OtherRowsSettle
<1>8. ASSUME NEW d \in Dispatchers, Pub!ClaimPending(d) \/ Pub!ReclaimExpired(d) PROVE SettledStep(q)
  <2>1. PICK p \in Previews : /\ previews[p].state \in {"pending", "leased"}
                              /\ previews' = Pub!Leased(p, d) \/ previews' = Pub!BackToPending(p)
    BY <1>8 DEF Pub!ClaimPending, Pub!ReclaimExpired, Pub!Claimable
  <2>2. previews[p].state \in Pub!Executable
    BY <2>1 DEF Pub!Executable
  <2>3. CASE previews' = Pub!Leased(p, d)
    BY <1>7, <2>2, <2>3 DEF Pub!Leased
  <2>4. CASE previews' = Pub!BackToPending(p)
    <3>1. previews' = [previews EXCEPT ![p].state = "pending", ![p].token = 0]
      BY <2>4 DEF Pub!BackToPending
    <3> QED BY <1>7, <2>2, <3>1
  <2> QED BY <2>1, <2>3, <2>4
<1>9. ASSUME NEW d \in Dispatchers, Pub!ExpireOverdue(d) PROVE SettledStep(q)
  <2>1. PICK p \in Previews : previews[p].state \in Pub!Executable \union {"ready"} /\ previews' = Pub!Overdue(p)
    BY <1>9 DEF Pub!ExpireOverdue
  <2>2. CASE previews[p].state \in Pub!Executable
    BY <1>7, <2>1, <2>2 DEF Pub!Overdue, Pub!FailOverdue
  <2>3. CASE previews[p].state \notin Pub!Executable
    BY <1>6, <2>1, <2>3 DEF Pub!Overdue, Pub!FailOverdue
  <2> QED BY <2>2, <2>3
<1>10. ASSUME NEW p \in Previews, previews' = Pub!FailExecutable(p) PROVE SettledStep(q)
  BY <1>2, <1>7, <1>10 DEF Pub!FailExecutable
<1>11. ASSUME NEW d \in Dispatchers, Pub!Dispatch(d) \/ Pub!ReleaseRetry(d) PROVE SettledStep(q)
  <2>1. PICK p \in Previews : p = previewLeases[d]
    BY <1>11 DEF Pub!Dispatch, Pub!ReleaseRetry, PublishingInv, PublishingTypes
  <2>2. CASE previews[p].state = "leased" /\ previews' = Pub!BackToPending(p)
    <3>1. previews' = [previews EXCEPT ![p].state = "pending", ![p].token = 0]
      BY <2>2 DEF Pub!BackToPending
    <3>2. previews[p].state \in Pub!Executable
      BY <2>2 DEF Pub!Executable
    <3> QED BY <1>7, <3>1, <3>2
  <2> QED BY <1>2, <1>10, <1>11, <2>1, <2>2 DEF Pub!Dispatch, Pub!ReleaseRetry, Pub!ReleasedBy
<1>12. ASSUME NEW p \in Previews, Pub!CommitAttempt(p) PROVE SettledStep(q)
  <2>1. PICK x \in Snap : x = previewFlows[p].snap /\ SnapTrue(x)
    BY <1>12, PreviewKnown DEF Pub!CommitAttempt
  <2>2. previews[p] = x.row /\ previews' = Pub!MarkReady(p, x)
    BY <1>12, <2>1 DEF Pub!CommitAttempt
  <2>3. previews[p].state \in {"pending", "leased"}
    BY <2>1, <2>2 DEF SnapTrue
  <2>4. \A y \in Previews : y # p => previews'[y] = previews[y]
    BY <1>1, <2>2 DEF Pub!MarkReady
  <2> QED BY <2>3, <2>4, OtherRowsSettle
<1>13. CASE Pub!Owner
  <2>1. ASSUME NEW s \in Slots, Pub!EditDraft(s) \/ Pub!RecoverReplacement(s) \/ Pub!RequestPreview(s) \/ Pub!Publish(s)
                 \/ Pub!ResolveCommitted(s) \/ Pub!PublishLocked(s) \/ Pub!AbortPublication(s) \/ Pub!RecoverPublication(s) \/ Pub!Settle(s)
        PROVE  previews' = previews
    BY <2>1 DEF Pub!EditDraft, Pub!RecoverReplacement, Pub!RequestPreview, Pub!Publish, Pub!ResolveCommitted, Pub!PublishLocked,
                Pub!AbortPublication, Pub!RecoverPublication, Pub!Settle
  <2>2. ASSUME NEW p \in Previews, Pub!GetPreview(p) PROVE SettledStep(q)
    BY <1>6, <2>2 DEF Pub!GetPreview
  <2> QED BY <1>2, <1>3, <1>4, <1>5, <1>13, <2>1, <2>2 DEF Pub!Owner
<1>14. CASE Pub!Dispatching
  <2>1. ASSUME NEW d \in Dispatchers, Pub!LeaveLease(d) PROVE previews' = previews
    BY <2>1 DEF Pub!LeaveLease
  <2> QED BY <1>2, <1>8, <1>9, <1>11, <1>14, <2>1 DEF Pub!Dispatching
<1>15. CASE Pub!Activity
  <2>1. ASSUME NEW p \in Previews, Pub!OpenAttempt(p) \/ Pub!RetryAttempt(p) \/ Pub!AbandonFlow(p) \/ Pub!EndFlow(p)
        PROVE  previews' = previews
    BY <2>1 DEF Pub!OpenAttempt, Pub!RetryAttempt, Pub!AbandonFlow, Pub!EndFlow
  <2>2. ASSUME NEW p \in Previews, Pub!StaleAttempt(p) \/ Pub!FailAttempt(p)
        PROVE  previews' = previews \/ previews' = Pub!FailExecutable(p)
    BY <2>2 DEF Pub!StaleAttempt, Pub!FailAttempt
  <2> QED BY <1>2, <1>10, <1>12, <1>15, <2>1, <2>2 DEF Pub!Activity
<1>16. CASE Pub!SourceWrite \/ Pub!ConflictEvent \/ Pub!Quiet \/ UNCHANGED Pub!vars
  BY <1>2, <1>16 DEF Pub!SourceWrite, Pub!ConflictEvent, Pub!Quiet, Pub!vars
<1> QED BY <1>13, <1>14, <1>15, <1>16 DEF Pub!Next

\* READY only expires or is consumed, and what has failed, expired or been consumed never
\* changes again, whatever late answer arrives (the guarded updates of policy_previews.py).
THEOREM SettledAlwaysStays ==
    ASSUME Pub!PublishingConstants
    PROVE  Pub!Spec => Pub!SettledStays
<1>1. PublishingInv /\ [Pub!Next]_Pub!vars => [\A p \in Previews : SettledStep(p)]_Pub!vars
  BY StepSettles
<1>2. (\A p \in Previews : SettledStep(p)) =>
         \A p \in Previews :
            /\ previews[p].state = "ready" => previews'[p].state \in {"ready", "expired", "consumed"}
            /\ previews[p].state \in {"failed", "expired", "consumed"} => previews'[p] = previews[p]
  BY DEF SettledStep
<1> QED BY <1>1, <1>2, PublishingInvHolds, PTL DEF Pub!Spec, Pub!SettledStays
===============================================================================
