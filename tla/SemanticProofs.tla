--------------------------- MODULE SemanticProofs ---------------------------
(***************************************************************************)
(* Theorems about SemanticMeaning and SemanticDiff, for any texts, clocks, *)
(* subjects, amounts and roles, and for any number of decisions and        *)
(* commits.                                                                *)
(***************************************************************************)
EXTENDS SemanticDiff, FiniteMaxima, TLAPS

-----------------------------------------------------------------------------
(* The last decision of each kind.                                         *)

Decision(t) == Decisions(Ambiguities(t))

\* What a decision of each kind decides is a value of that kind.
LEMMA DecisionKinds ==
  ASSUME NEW t, NEW d \in Decision(t)
  PROVE  /\ d.type \in DecisionTypes
         /\ d.field \in DecisionFields
         /\ d.selected = None => d.value = None
         /\ d.type = "threshold" => d.value \in Amounts
         /\ d.type = "timestamp_source" => d.value \in Clocks
         /\ d.type = "snapshot_subject" => d.value \in Subjects
         /\ d.type = "clarification" => d.value = None
<1>1. PICK type, values, about :
        /\ type \in DecisionTypes
        /\ d \in DecisionsOf(type, values, about)
        /\ type = "threshold" => values = Amounts
        /\ type = "timestamp_source" => values = Clocks
        /\ type = "snapshot_subject" => values = Subjects
        /\ type = "clarification" => values = {None}
  BY DEF Decision, Decisions, DecisionTypes
<1>2. /\ d.type = type /\ d.value \in values /\ d.field \in {type} \cup Labels
      /\ d.selected \in {d.value} \cup Wordings
  BY <1>1 DEF DecisionsOf
<1> QED
  BY <1>1, <1>2, NoneAssumption DEF DecisionTypes, DecisionFields

Places(ds, field) == {k \in DOMAIN ds : ds[k].type = field}

LEMMA FinalExists ==
  ASSUME NEW S, \E m \in S : \A j \in S : j <= m
  PROVE  LastPlace(S) \in S /\ \A j \in S : j <= LastPlace(S)
BY Zenon DEF LastPlace

LEMMA DecidedAtFinal ==
  ASSUME NEW ds, NEW field
  PROVE  DecidedValue(ds, field) =
           IF Places(ds, field) = {} THEN None ELSE ds[LastPlace(Places(ds, field))].value
BY Zenon DEF DecidedValue, Places, LastPlace

LEMMA FinalIsPlace ==
  ASSUME NEW t, NEW ds \in Seq(Decision(t)), NEW field, Places(ds, field) # {}
  PROVE  /\ LastPlace(Places(ds, field)) \in Places(ds, field)
         /\ \A j \in Places(ds, field) : j <= LastPlace(Places(ds, field))
<1>1. Places(ds, field) \in SUBSET (1 .. Len(ds)) /\ Len(ds) \in Nat
  BY DEF Places
<1>2. IsFiniteSet(1 .. Len(ds))
  BY <1>1, FS_Interval
<1>3. IsFiniteSet(Places(ds, field))
  BY <1>1, <1>2, FS_Subset
<1>4. \E m \in Places(ds, field) : \A x \in Places(ds, field) : x <= m
  BY <1>1, <1>3, Maximum
<1> QED
  BY <1>4, FinalExists

\* What was decided of a kind is a value of that kind.
LEMMA DecidedOfKind ==
  ASSUME NEW t, NEW ds \in Seq(Decision(t))
  PROVE  /\ DecidedValue(ds, "threshold") \in Amounts \cup {None}
         /\ DecidedValue(ds, "timestamp_source") \in Clocks \cup {None}
         /\ DecidedValue(ds, "snapshot_subject") \in Subjects \cup {None}
<1>1. ASSUME NEW field, Places(ds, field) # {}
      PROVE  /\ ds[LastPlace(Places(ds, field))] \in Decision(t)
             /\ ds[LastPlace(Places(ds, field))].type = field
  <2>1. LastPlace(Places(ds, field)) \in Places(ds, field)
    BY <1>1, FinalIsPlace
  <2> QED
    BY <2>1 DEF Places
<1> QED
  BY <1>1, DecidedAtFinal, DecisionKinds

LEMMA DecidedFirst ==
  ASSUME NEW field
  PROVE  DecidedValue(<<>>, field) = None
<1>1. Places(<<>>, field) = {}
  BY DEF Places
<1> QED
  BY <1>1, DecidedAtFinal

\* One more decision replaces what was decided of its kind, and nothing else.
LEMMA DecidedNext ==
  ASSUME NEW t, NEW ds \in Seq(Decision(t)), NEW d \in Decision(t), NEW field
  PROVE  DecidedValue(Append(ds, d), field) =
           IF d.type = field THEN d.value ELSE DecidedValue(ds, field)
<1> DEFINE next == Append(ds, d)
           n == Len(ds)
<1>1. /\ n \in Nat /\ DOMAIN ds = 1 .. n /\ DOMAIN next = 1 .. n + 1
      /\ \A k \in 1 .. n : next[k] = ds[k]
      /\ next[n + 1] = d
      /\ next \in Seq(Decision(t))
  OBVIOUS
<1> HIDE DEF next, n
<1>2. CASE d.type = field
  <2>1. n + 1 \in Places(next, field)
    BY <1>1, <1>2 DEF Places
  <2>2. Places(next, field) \subseteq 1 .. n + 1
    BY <1>1 DEF Places
  <2>3. LastPlace(Places(next, field)) = n + 1
    BY <1>1, <2>1, <2>2, FinalIsPlace
  <2> QED
    BY <1>1, <1>2, <2>1, <2>3, DecidedAtFinal DEF next
<1>3. CASE d.type # field
  <2>1. Places(next, field) = Places(ds, field)
    BY <1>1, <1>3 DEF Places
  <2>2. CASE Places(ds, field) = {}
    BY <1>3, <2>1, <2>2, DecidedAtFinal DEF next
  <2>3. CASE Places(ds, field) # {}
    <3>1. LastPlace(Places(ds, field)) \in 1 .. n
      BY <1>1, <2>3, FinalIsPlace DEF Places
    <3> QED
      BY <1>1, <1>3, <2>1, <2>3, <3>1, DecidedAtFinal DEF next
  <2> QED
    BY <2>2, <2>3
<1> QED
  BY <1>2, <1>3

-----------------------------------------------------------------------------
(* What the decisions make of the candidate.                               *)

DecidedThreshold(t, ds) ==
  IF DecidedValue(ds, "threshold") = None THEN t.threshold ELSE DecidedValue(ds, "threshold")

DecidedTemporal(t, ds) ==
  IF DecidedValue(ds, "timestamp_source") = None THEN Temporal(t)
  ELSE [source |-> DecidedValue(ds, "timestamp_source"),
        window |-> IF Temporal(t) = None THEN None ELSE t.validity]

DecidedSnapshot(t, ds) ==
  IF DecidedValue(ds, "snapshot_subject") = None THEN Snapshot(t)
  ELSE [subject |-> DecidedValue(ds, "snapshot_subject"), comparison |-> "active_state"]

\* The candidate with the last decision of each kind: what the loop over the
\* decisions arrives at.
Decided(t, ds) ==
  [f \in DOMAIN Candidate(t) |->
     IF f = "threshold" THEN DecidedThreshold(t, ds)
     ELSE IF f = "temporal" THEN DecidedTemporal(t, ds)
     ELSE IF f = "snapshot" THEN DecidedSnapshot(t, ds)
     ELSE Candidate(t)[f]]

LEMMA CandidateFields ==
  ASSUME NEW t
  PROVE  /\ {"threshold", "temporal", "snapshot"} \subseteq DOMAIN Candidate(t)
         /\ Candidate(t) = [f \in DOMAIN Candidate(t) |-> Candidate(t)[f]]
         /\ Candidate(t).threshold = t.threshold
         /\ Candidate(t).temporal = Temporal(t)
         /\ Candidate(t).snapshot = Snapshot(t)
BY DEF Candidate

LEMMA DecidedStart ==
  ASSUME NEW t
  PROVE  Decided(t, <<>>) = Candidate(t)
<1>1. /\ DecidedThreshold(t, <<>>) = t.threshold
      /\ DecidedTemporal(t, <<>>) = Temporal(t)
      /\ DecidedSnapshot(t, <<>>) = Snapshot(t)
  BY DecidedFirst DEF DecidedThreshold, DecidedTemporal, DecidedSnapshot
<1>2. \A f \in DOMAIN Candidate(t) : Decided(t, <<>>)[f] = Candidate(t)[f]
  BY <1>1, CandidateFields DEF Decided
<1> QED
  BY <1>2, CandidateFields DEF Decided

LEMMA DecidedFields ==
  ASSUME NEW t, NEW ds
  PROVE  /\ DOMAIN Decided(t, ds) = DOMAIN Candidate(t)
         /\ Decided(t, ds) = [f \in DOMAIN Candidate(t) |-> Decided(t, ds)[f]]
         /\ Decided(t, ds).threshold = DecidedThreshold(t, ds)
         /\ Decided(t, ds).temporal = DecidedTemporal(t, ds)
         /\ Decided(t, ds).snapshot = DecidedSnapshot(t, ds)
         /\ \A f \in DOMAIN Candidate(t) \ {"threshold", "temporal", "snapshot"} :
              Decided(t, ds)[f] = Candidate(t)[f]
BY CandidateFields DEF Decided

\* What one decision changes of a meaning.
LEMMA NormalizeOne ==
  ASSUME NEW m, NEW d
  PROVE  /\ d.type = "threshold" => Normalize(m, d) = [m EXCEPT !.threshold = d.value]
         /\ d.type = "timestamp_source" =>
              Normalize(m, d) =
                [m EXCEPT !.temporal =
                   [source |-> d.value,
                    window |-> IF m.temporal = None THEN None ELSE m.temporal.window]]
         /\ d.type = "snapshot_subject" =>
              Normalize(m, d) =
                [m EXCEPT !.snapshot = [subject |-> d.value, comparison |-> "active_state"]]
         /\ d.type \notin {"threshold", "timestamp_source", "snapshot_subject"} =>
              Normalize(m, d) = m
<1>1. ASSUME d.type = "threshold"
      PROVE  Normalize(m, d) = [m EXCEPT !.threshold = d.value]
  BY <1>1, Zenon DEF Normalize
<1>2. ASSUME d.type = "timestamp_source"
      PROVE  Normalize(m, d) =
               [m EXCEPT !.temporal =
                  [source |-> d.value,
                   window |-> IF m.temporal = None THEN None ELSE m.temporal.window]]
  BY <1>2, Zenon DEF Normalize
<1>3. ASSUME d.type = "snapshot_subject"
      PROVE  Normalize(m, d) =
               [m EXCEPT !.snapshot = [subject |-> d.value, comparison |-> "active_state"]]
  BY <1>3, Zenon DEF Normalize
<1>4. ASSUME d.type \notin {"threshold", "timestamp_source", "snapshot_subject"}
      PROVE  Normalize(m, d) = m
  BY <1>4, Zenon DEF Normalize
<1> QED
  BY <1>1, <1>2, <1>3, <1>4, Zenon

\* The closed form is kept by one more turn of the loop.  A decision on the
\* timestamp source keeps the window that the text has, or has none.
LEMMA DecidedStep ==
  ASSUME NEW t \in Texts, NEW ds \in Seq(Decision(t)), NEW d \in Decision(t)
  PROVE  Normalize(Decided(t, ds), d) = Decided(t, Append(ds, d))
<1> DEFINE m == Decided(t, ds)
           next == Decided(t, Append(ds, d))
           C == Candidate(t)
<1>1. /\ DOMAIN m = DOMAIN C /\ DOMAIN next = DOMAIN C
      /\ m = [f \in DOMAIN C |-> m[f]] /\ next = [f \in DOMAIN C |-> next[f]]
      /\ {"threshold", "temporal", "snapshot"} \subseteq DOMAIN C
      /\ \A f \in DOMAIN C \ {"threshold", "temporal", "snapshot"} : m[f] = next[f]
  BY DecidedFields, CandidateFields
<1>2. /\ m.threshold = DecidedThreshold(t, ds) /\ next.threshold = DecidedThreshold(t, Append(ds, d))
      /\ m.temporal = DecidedTemporal(t, ds) /\ next.temporal = DecidedTemporal(t, Append(ds, d))
      /\ m.snapshot = DecidedSnapshot(t, ds) /\ next.snapshot = DecidedSnapshot(t, Append(ds, d))
  BY DecidedFields
<1>3. \A f : DecidedValue(Append(ds, d), f) = IF d.type = f THEN d.value ELSE DecidedValue(ds, f)
  BY DecidedNext
<1> HIDE DEF m, next, C
<1>4. CASE d.type = "threshold"
  <2>1. d.value # None
    BY <1>4, DecisionKinds, NoneAssumption
  <2>2. next.threshold = d.value /\ next.temporal = m.temporal /\ next.snapshot = m.snapshot
    BY <1>2, <1>3, <1>4, <2>1 DEF DecidedThreshold, DecidedTemporal, DecidedSnapshot
  <2>3. Normalize(m, d) = [m EXCEPT !.threshold = d.value]
    BY <1>4, NormalizeOne
  <2>4. \A f \in DOMAIN C : [m EXCEPT !.threshold = d.value][f] = next[f]
    BY <1>1, <2>2
  <2> QED
    BY <1>1, <2>3, <2>4 DEF m, next
<1>5. CASE d.type = "timestamp_source"
  <2> DEFINE source == [source |-> d.value,
                        window |-> IF m.temporal = None THEN None ELSE m.temporal.window]
  <2>1. d.value # None
    BY <1>5, DecisionKinds, NoneAssumption
  <2>2. next.threshold = m.threshold /\ next.snapshot = m.snapshot
    BY <1>2, <1>3, <1>5 DEF DecidedThreshold, DecidedSnapshot
  <2>3. next.temporal = source
    <3>1. next.temporal = [source |-> d.value,
                           window |-> IF Temporal(t) = None THEN None ELSE t.validity]
      BY <1>2, <1>3, <1>5, <2>1 DEF DecidedTemporal
    <3>2. CASE DecidedValue(ds, "timestamp_source") = None
      <4>1. m.temporal = Temporal(t)
        BY <1>2, <3>2 DEF DecidedTemporal
      <4> QED
        BY <3>1, <4>1 DEF Temporal
    <3>3. CASE DecidedValue(ds, "timestamp_source") # None
      <4>1. m.temporal = [source |-> DecidedValue(ds, "timestamp_source"),
                          window |-> IF Temporal(t) = None THEN None ELSE t.validity]
        BY <1>2, <3>3 DEF DecidedTemporal
      <4>2. DecidedValue(ds, "timestamp_source") \in Clocks
        BY <3>3, DecidedOfKind
      <4>3. t.validity \in Nat \cup {None}
        BY TextsAssumption DEF WellFormed
      <4>4. m.temporal \in [source : Clocks, window : Nat \cup {None}]
        BY <4>1, <4>2, <4>3
      <4>5. m.temporal # None
        BY <4>4, NoneAssumption
      <4> QED
        BY <3>1, <4>1, <4>5
    <3> QED
      BY <3>2, <3>3
  <2>4. Normalize(m, d) = [m EXCEPT !.temporal = source]
    BY <1>5, NormalizeOne
  <2> HIDE DEF source
  <2>5. \A f \in DOMAIN C : [m EXCEPT !.temporal = source][f] = next[f]
    BY <1>1, <2>2, <2>3
  <2> QED
    BY <1>1, <2>4, <2>5 DEF m, next
<1>6. CASE d.type = "snapshot_subject"
  <2> DEFINE snapshot == [subject |-> d.value, comparison |-> "active_state"]
  <2>1. d.value # None
    BY <1>6, DecisionKinds, NoneAssumption
  <2>2. next.threshold = m.threshold /\ next.temporal = m.temporal /\ next.snapshot = snapshot
    BY <1>2, <1>3, <1>6, <2>1 DEF DecidedThreshold, DecidedTemporal, DecidedSnapshot
  <2>3. Normalize(m, d) = [m EXCEPT !.snapshot = snapshot]
    BY <1>6, NormalizeOne
  <2> HIDE DEF snapshot
  <2>4. \A f \in DOMAIN C : [m EXCEPT !.snapshot = snapshot][f] = next[f]
    BY <1>1, <2>2
  <2> QED
    BY <1>1, <2>3, <2>4 DEF m, next
<1>7. CASE d.type = "clarification"
  <2>1. next.threshold = m.threshold /\ next.temporal = m.temporal /\ next.snapshot = m.snapshot
    BY <1>2, <1>3, <1>7 DEF DecidedThreshold, DecidedTemporal, DecidedSnapshot
  <2>2. Normalize(m, d) = m
    BY <1>7, NormalizeOne
  <2>3. \A f \in DOMAIN C : m[f] = next[f]
    BY <1>1, <2>1
  <2> QED
    BY <1>1, <2>2, <2>3 DEF m, next
<1> QED
  BY <1>4, <1>5, <1>6, <1>7, DecisionKinds DEF DecisionTypes

-----------------------------------------------------------------------------
(* The inductive invariant.                                                *)

\* The meaning that a commit of the text and the decisions has.
Meaning(t, ds) ==
  [authority |-> Decided(t, ds), capabilities |-> Capabilities(Candidate(t), t.evidence)]

VersionHeld(v) ==
  /\ v.text \in Texts
  /\ v.decisions \in Seq(Decision(v.text))
  /\ v.meaning = Meaning(v.text, v.decisions)
  /\ Unresolved(Ambiguities(v.text), v.decisions) = {}
  /\ Conflicts(Candidate(v.text), v.decisions) = {}

VersionsHeld ==
  /\ versions \in Seq(ToSet(versions))
  /\ \A v \in ToSet(versions) : VersionHeld(v)

\* The reconciliation at work is that of its text and its decisions.
InterpretationHeld ==
  IF text = None THEN decisions = <<>>
  ELSE /\ text \in Texts
       /\ decisions \in Seq(Decision(text))
       /\ normalized = Decided(text, decisions)

IInv == InterpretationHeld /\ VersionsHeld

LEMMA InitIInv == Init => IInv
<1> SUFFICES ASSUME Init PROVE IInv
  OBVIOUS
<1>1. InterpretationHeld
  BY DEF Init, InterpretationHeld
<1>2. ToSet(versions) = {} /\ versions \in Seq(ToSet(versions))
  BY DEF Init, ToSet
<1> QED
  BY <1>1, <1>2 DEF IInv, VersionsHeld

LEMMA CommitHeld ==
  ASSUME IInv, Commit
  PROVE  VersionsHeld'
<1> DEFINE v == [text |-> text, decisions |-> decisions,
                 meaning |-> Reconciliation(text, decisions, normalized).meaning]
<1>1. text # None /\ versions' = Append(versions, v) /\ Complete(Reconciliation(text, decisions, normalized))
  BY DEF Commit
<1>2. /\ text \in Texts /\ decisions \in Seq(Decision(text))
      /\ normalized = Decided(text, decisions)
  BY <1>1 DEF IInv, InterpretationHeld
<1>3. VersionHeld(v)
  <2>1. v.text = text /\ v.decisions = decisions
    OBVIOUS
  <2>2. v.meaning = Meaning(text, decisions)
    BY <1>2 DEF Reconciliation, Extraction, Meaning
  <2>3. /\ Unresolved(Ambiguities(text), decisions) = {}
        /\ Conflicts(Candidate(text), decisions) = {}
    BY <1>1 DEF Complete, Reconciliation, Extraction
  <2> HIDE DEF v
  <2> QED
    BY <1>2, <2>1, <2>2, <2>3 DEF VersionHeld
<1>4. versions \in Seq(ToSet(versions)) /\ \A w \in ToSet(versions) : VersionHeld(w)
  BY DEF IInv, VersionsHeld
<1> HIDE DEF v
<1>5. versions \in Seq(ToSet(versions) \cup {v})
  BY <1>4
<1>6. ToSet(versions') = ToSet(versions) \cup {v}
  <2>1. /\ Len(versions) \in Nat /\ DOMAIN versions = 1 .. Len(versions)
        /\ DOMAIN versions' = 1 .. Len(versions) + 1
        /\ \A i \in 1 .. Len(versions) : versions'[i] = versions[i]
        /\ versions'[Len(versions) + 1] = v
    BY <1>1, <1>4
  <2>2. \A w \in ToSet(versions') : w \in ToSet(versions) \cup {v}
    BY <2>1 DEF ToSet
  <2>3. \A w \in ToSet(versions) : w \in ToSet(versions')
    BY <2>1 DEF ToSet
  <2>4. v \in ToSet(versions')
    BY <2>1 DEF ToSet
  <2> QED
    BY <2>2, <2>3, <2>4
<1>7. versions' \in Seq(ToSet(versions'))
  BY <1>1, <1>5, <1>6
<1>8. \A w \in ToSet(versions') : VersionHeld(w)
  BY <1>3, <1>4, <1>6
<1> QED
  BY <1>7, <1>8 DEF VersionsHeld, VersionHeld

LEMMA NextIInv == IInv /\ [Next]_vars => IInv'
<1> SUFFICES ASSUME IInv, [Next]_vars PROVE IInv'
  OBVIOUS
<1>1. ASSUME versions' = versions
      PROVE  VersionsHeld'
  BY <1>1 DEF IInv, VersionsHeld, VersionHeld
<1>2. ASSUME Start
      PROVE  InterpretationHeld'
  BY <1>2 DEF Start, InterpretationHeld
<1>3. ASSUME NEW t \in Texts, Extract(t)
      PROVE  IInv'
  <2>1. text' = t /\ decisions' = <<>> /\ normalized' = Candidate(t) /\ versions' = versions
    BY <1>3 DEF Extract, IInv, InterpretationHeld
  <2>2. normalized' = Decided(text', decisions')
    BY <2>1, DecidedStart
  <2>3. InterpretationHeld'
    BY <2>1, <2>2 DEF InterpretationHeld
  <2> QED
    BY <1>1, <2>1, <2>3 DEF IInv
<1>4. ASSUME text # None, NEW d \in Decisions(Ambiguities(text)), Decide(d)
      PROVE  IInv'
  <2>1. /\ text \in Texts /\ decisions \in Seq(Decision(text)) /\ normalized = Decided(text, decisions)
        /\ d \in Decision(text)
    BY <1>4 DEF IInv, InterpretationHeld, Decision
  <2>2. /\ text' = text /\ decisions' = Append(decisions, d)
        /\ normalized' = Normalize(normalized, d) /\ versions' = versions
    BY <1>4 DEF Decide
  <2>3. decisions' \in Seq(Decision(text)) /\ normalized' = Decided(text, decisions')
    BY <2>1, <2>2, DecidedStep
  <2>4. InterpretationHeld'
    BY <1>4, <2>1, <2>2, <2>3 DEF InterpretationHeld
  <2> QED
    BY <1>1, <2>2, <2>4 DEF IInv
<1>5. ASSUME Commit
      PROVE  IInv'
  <2>1. Start
    BY <1>5 DEF Commit
  <2> QED
    BY <1>2, <1>5, <2>1, CommitHeld DEF IInv
<1>6. ASSUME Abandon
      PROVE  IInv'
  BY <1>1, <1>2, <1>6 DEF Abandon, IInv
<1>7. ASSUME UNCHANGED vars
      PROVE  IInv'
  BY <1>7 DEF vars, IInv, InterpretationHeld, VersionsHeld, VersionHeld
<1> QED
  BY <1>3, <1>4, <1>5, <1>6, <1>7 DEF Next

LEMMA Invariance == Spec => []IInv
<1>1. Init => IInv
  BY InitIInv
<1>2. IInv /\ [Next]_vars => IInv'
  BY NextIInv
<1> QED
  BY <1>1, <1>2, PTL DEF Spec

-----------------------------------------------------------------------------
(* The theorems about SemanticMeaning.                                     *)

LEMMA VersionsAre ==
  ASSUME IInv
  PROVE  /\ Len(versions) \in Nat /\ DOMAIN versions = 1 .. Len(versions)
         /\ \A i \in 1 .. Len(versions) : VersionHeld(versions[i])
<1>1. versions \in Seq(ToSet(versions))
  BY DEF IInv, VersionsHeld
<1>2. Len(versions) \in Nat /\ DOMAIN versions = 1 .. Len(versions)
  BY <1>1
<1>3. \A i \in 1 .. Len(versions) : versions[i] \in ToSet(versions)
  BY <1>2 DEF ToSet
<1> QED
  BY <1>2, <1>3 DEF IInv, VersionsHeld

LEMMA NewestIs ==
  ASSUME IInv, Committed
  PROVE  Newest \in 1 .. Len(versions) /\ VersionHeld(versions[Newest])
<1>1. versions # <<>> /\ versions \in Seq(ToSet(versions))
  BY DEF Committed, IInv, VersionsHeld
<1>2. Newest \in 1 .. Len(versions)
  BY <1>1 DEF Newest
<1> QED
  BY <1>2, VersionsAre

\* Without a conflict, a stated threshold is the one that is decided.
LEMMA StatedThreshold ==
  ASSUME NEW t, NEW ds \in Seq(Decision(t)), Conflicts(Candidate(t), ds) = {}, t.threshold # None
  PROVE  DecidedThreshold(t, ds) = t.threshold
<1>1. CASE Places(ds, "threshold") = {}
  BY <1>1, DecidedAtFinal DEF DecidedThreshold
<1>2. CASE Places(ds, "threshold") # {}
  <2> DEFINE k == LastPlace(Places(ds, "threshold"))
  <2>1. k \in DOMAIN ds /\ ds[k].type = "threshold"
    BY <1>2, FinalIsPlace DEF Places
  <2> HIDE DEF k
  <2>2. t.threshold \in {None, ds[k].value}
    BY <2>1, CandidateFields DEF Conflicts
  <2>3. DecidedValue(ds, "threshold") = ds[k].value
    BY <1>2, DecidedAtFinal DEF k
  <2> QED
    BY <2>2, <2>3 DEF DecidedThreshold
<1> QED
  BY <1>1, <1>2

\* Every commit is settled: its ambiguities are answered, and the threshold
\* of its contract is the one that its text states.
THEOREM CommitsSettled == Spec => []CommitIsSettled
<1>1. IInv => CommitIsSettled
  <2> SUFFICES ASSUME IInv, Committed
               PROVE  LET v == versions[Newest] IN
                      /\ Unresolved(Ambiguities(v.text), v.decisions) = {}
                      /\ v.text.threshold # None =>
                           CompileThreshold(v.meaning.authority, None) = v.text.threshold
    BY DEF CommitIsSettled
  <2> DEFINE v == versions[Newest]
  <2>1. VersionHeld(v)
    BY NewestIs
  <2> HIDE DEF v
  <2>2. CompileThreshold(v.meaning.authority, None) = DecidedThreshold(v.text, v.decisions)
    BY <2>1, DecidedFields DEF VersionHeld, Meaning, CompileThreshold
  <2>3. v.text.threshold # None => DecidedThreshold(v.text, v.decisions) = v.text.threshold
    BY <2>1, StatedThreshold DEF VersionHeld
  <2> QED
    BY <2>1, <2>2, <2>3 DEF VersionHeld, v
<1> QED
  BY <1>1, Invariance, PTL

\* The decisions of a type are those of a field.
NamedFor(ds, type, field) == \A d \in ToSet(ds) : d.field = field <=> d.type = type

\* The last decision of a type, and what was selected for its field.
LEMMA SelectedAtFinal ==
  ASSUME NEW t, NEW ds \in Seq(Decision(t)), NEW type, NEW field, Places(ds, type) # {},
         NamedFor(ds, type, field)
  PROVE  \E d \in ToSet(ds) :
           /\ d.type = type /\ d.field = field /\ d \in Decision(t)
           /\ DecidedValue(ds, type) = d.value
           /\ Selected(ds, field) = d.selected
<1> DEFINE k == LastPlace(Places(ds, type))
<1>1. k \in Places(ds, type)
  BY FinalIsPlace
<1>2. {j \in DOMAIN ds : ds[j].field = field} = Places(ds, type)
  BY DEF NamedFor, Places, ToSet
<1>3. Selected(ds, field) = ds[k].selected
  BY <1>2, Zenon DEF Selected
<1>4. DecidedValue(ds, type) = ds[k].value
  BY DecidedAtFinal
<1> HIDE DEF k
<1>5. ds[k] \in ToSet(ds) /\ ds[k].type = type /\ ds[k] \in Decision(t)
  BY <1>1 DEF Places, ToSet
<1>6. ds[k].field = field
  BY <1>5 DEF NamedFor
<1> QED
  BY <1>3, <1>4, <1>5, <1>6

LEMMA NoneSelected ==
  ASSUME NEW ds, NEW type, NEW field, Places(ds, type) = {},
         NamedFor(ds, type, field)
  PROVE  DecidedValue(ds, type) = None /\ Selected(ds, field) = None
<1>1. {j \in DOMAIN ds : ds[j].field = field} = {}
  BY DEF NamedFor, Places, ToSet
<1>2. Selected(ds, field) = None
  BY <1>1, Zenon DEF Selected
<1> QED
  BY <1>2, DecidedAtFinal

MadeAlike(made) ==
  \A d, e \in made :
    /\ d.field = e.field <=> d.type = e.type
    /\ d.type = e.type /\ d.selected = e.selected => d.value = e.value

\* Where all decisions are named alike, and what was selected last is the
\* same for each field, so is the value that was applied last of each type.
LEMMA SelectedDecides ==
  ASSUME NEW t, NEW u, NEW before \in Seq(Decision(t)), NEW after \in Seq(Decision(u)), NEW type,
         NEW made, made = ToSet(before) \cup ToSet(after),
         MadeAlike(made),
         \A f \in DecisionFields : Selected(before, f) = Selected(after, f)
  PROVE  DecidedValue(before, type) = DecidedValue(after, type)
<1>2. \A d \in made : d.field \in DecisionFields /\ (d.selected = None => d.value = None)
  <2>1. \A d \in ToSet(before) : d \in Decision(t)
    BY DEF ToSet
  <2>2. \A d \in ToSet(after) : d \in Decision(u)
    BY DEF ToSet
  <2> QED
    BY <2>1, <2>2, DecisionKinds
<1>4. CASE \A d \in made : d.type # type
  <2>1. Places(before, type) = {} /\ Places(after, type) = {}
    BY <1>4 DEF Places, ToSet
  <2> QED
    BY <2>1, DecidedAtFinal
<1>5. CASE \E d \in made : d.type = type
  <2>1. PICK some \in made : some.type = type
    BY <1>5
  <2> DEFINE field == some.field
  <2>2. field \in DecisionFields
    BY <1>2, <2>1
  <2>3. NamedFor(before, type, field)
    BY <2>1 DEF NamedFor, MadeAlike
  <2>13. NamedFor(after, type, field)
    BY <2>1 DEF NamedFor, MadeAlike
  <2>4. Selected(before, field) = Selected(after, field)
    BY <2>2
  <2> HIDE DEF field
  <2>9. ASSUME Places(before, type) # {}
        PROVE  \E d \in ToSet(before) : /\ d.type = type
                                        /\ DecidedValue(before, type) = d.value
                                        /\ Selected(before, field) = d.selected
    BY <2>3, <2>9, SelectedAtFinal
  <2>10. ASSUME Places(after, type) # {}
         PROVE  \E e \in ToSet(after) : /\ e.type = type
                                        /\ DecidedValue(after, type) = e.value
                                        /\ Selected(after, field) = e.selected
    BY <2>13, <2>10, SelectedAtFinal
  <2>11. ASSUME Places(before, type) = {}
         PROVE  DecidedValue(before, type) = None /\ Selected(before, field) = None
    BY <2>3, <2>11, NoneSelected, Zenon
  <2>12. ASSUME Places(after, type) = {}
         PROVE  DecidedValue(after, type) = None /\ Selected(after, field) = None
    BY <2>13, <2>12, NoneSelected, Zenon
  <2>5. CASE Places(before, type) # {} /\ Places(after, type) # {}
    <3>1. PICK d \in ToSet(before) : /\ d.type = type
                                     /\ DecidedValue(before, type) = d.value
                                     /\ Selected(before, field) = d.selected
      BY <2>5, <2>9
    <3>2. PICK e \in ToSet(after) : /\ e.type = type
                                    /\ DecidedValue(after, type) = e.value
                                    /\ Selected(after, field) = e.selected
      BY <2>5, <2>10
    <3>3. d \in made /\ e \in made
      OBVIOUS
    <3>4. d.type = e.type /\ d.selected = e.selected
      BY <2>4, <3>1, <3>2
    <3>5. d.value = e.value
      BY <3>3, <3>4 DEF MadeAlike
    <3> QED
      BY <3>1, <3>2, <3>5
  <2>6. CASE Places(before, type) # {} /\ Places(after, type) = {}
    BY <1>2, <2>4, <2>6, <2>9, <2>12
  <2>7. CASE Places(before, type) = {} /\ Places(after, type) # {}
    BY <1>2, <2>4, <2>7, <2>10, <2>11
  <2>8. CASE Places(before, type) = {} /\ Places(after, type) = {}
    BY <2>8, <2>11, <2>12
  <2> QED
    BY <2>5, <2>6, <2>7, <2>8
<1> QED
  BY <1>4, <1>5

\* Equal texts with equal last values have one meaning, so that another
\* contract of the same text comes with a decision that the stability
\* projection sees, if the decisions are named alike.
THEOREM ReinterpretationsNoticed == Spec => []ReinterpretationNoticed
<1>1. ASSUME NEW p, NEW c, VersionHeld(p), VersionHeld(c), p.text = c.text,
             NamedAlike(p, c), DecisionChanges(p, c) = {}
      PROVE  p.meaning = c.meaning
  <2>1. /\ DecidedValue(p.decisions, "threshold") = DecidedValue(c.decisions, "threshold")
        /\ DecidedValue(p.decisions, "timestamp_source") = DecidedValue(c.decisions, "timestamp_source")
        /\ DecidedValue(p.decisions, "snapshot_subject") = DecidedValue(c.decisions, "snapshot_subject")
    <3>1. p.decisions \in Seq(Decision(p.text)) /\ c.decisions \in Seq(Decision(c.text))
      BY <1>1 DEF VersionHeld
    <3>2. \A f \in DecisionFields : Selected(p.decisions, f) = Selected(c.decisions, f)
      BY <1>1 DEF DecisionChanges
    <3> DEFINE made == ToSet(p.decisions) \cup ToSet(c.decisions)
    <3>3. MadeAlike(made)
      BY <1>1, Zenon DEF NamedAlike, MadeAlike
    <3>4. made = ToSet(p.decisions) \cup ToSet(c.decisions)
      OBVIOUS
    <3> HIDE DEF made
    <3>5. ASSUME NEW type
          PROVE  DecidedValue(p.decisions, type) = DecidedValue(c.decisions, type)
      BY <3>1, <3>2, <3>3, <3>4, SelectedDecides
    <3> QED
      BY <3>5
  <2>2. /\ DecidedThreshold(p.text, p.decisions) = DecidedThreshold(c.text, c.decisions)
        /\ DecidedTemporal(p.text, p.decisions) = DecidedTemporal(c.text, c.decisions)
        /\ DecidedSnapshot(p.text, p.decisions) = DecidedSnapshot(c.text, c.decisions)
    BY <1>1, <2>1 DEF DecidedThreshold, DecidedTemporal, DecidedSnapshot
  <2>3. Decided(p.text, p.decisions) = Decided(c.text, c.decisions)
    BY <1>1, <2>2 DEF Decided
  <2> QED
    BY <1>1, <2>3 DEF VersionHeld, Meaning
<1>2. IInv => ReinterpretationNoticed
  <2> SUFFICES ASSUME IInv, Committed, NEW i \in Reinterpreted,
                      NamedAlike(versions[i], versions[Newest])
               PROVE  DriftNoticed(i)
    BY DEF ReinterpretationNoticed
  <2>1. /\ i \in 1 .. Newest - 1
        /\ versions[i].text = versions[Newest].text
        /\ Compile(versions[i].meaning) # Compile(versions[Newest].meaning)
    BY DEF Reinterpreted
  <2>2. VersionHeld(versions[Newest]) /\ Newest \in 1 .. Len(versions)
    BY NewestIs
  <2>3. VersionHeld(versions[i])
    BY <2>1, <2>2, VersionsAre
  <2>4. DecisionChanges(versions[i], versions[Newest]) # {}
    BY <1>1, <2>1, <2>2, <2>3
  <2> QED
    BY <2>4 DEF StabilityPosture, DriftNoticed
<1> QED
  BY <1>2, Invariance, PTL

\* A capability has its own copy of what the text says of time and snapshots.
LEMMA OwnCopies ==
  ASSUME NEW t, NEW id \in CapabilityIds(Candidate(t)), NEW cap,
         cap = Capabilities(Candidate(t), t.evidence)[id]
  PROVE  /\ cap.constraints # None => cap.constraints.temporal = Temporal(t)
         /\ cap.continuity # None => cap.continuity.snapshot = Snapshot(t)
<1> DEFINE c == Candidate(t)
<1>1. c.temporal = Temporal(t) /\ c.snapshot = Snapshot(t)
  BY CandidateFields
<1> HIDE DEF c
<1>2. /\ cap.constraints \in {None, ExecutionConstraints(c)}
      /\ cap.continuity \in {None, CapabilityContinuity(c)}
  BY DEF Capabilities, Capability, c
<1>3. ExecutionConstraints(c) # None => ExecutionConstraints(c).temporal = c.temporal
  BY DEF ExecutionConstraints
<1>4. CapabilityContinuity(c) # None => CapabilityContinuity(c).snapshot = c.snapshot
  BY DEF CapabilityContinuity
<1> QED
  BY <1>1, <1>2, <1>3, <1>4

\* What was decided of time and of snapshots is compiled for the authority,
\* and for each capability without a copy of the text's own words.
THEOREM DecisionsCompiled == Spec => []DecidedIsCompiled
<1>1. IInv => DecidedIsCompiled
  <2> SUFFICES ASSUME IInv, Committed
               PROVE  DecidedIsCompiled
    BY DEF DecidedIsCompiled
  <2> DEFINE v == versions[Newest]
             t == v.text
             ds == v.decisions
             a == Decided(t, ds)
             contract == Compile(v.meaning)
             clock == DecidedValue(ds, "timestamp_source")
             subject == DecidedValue(ds, "snapshot_subject")
             caps == {contract.capabilities[id] : id \in DOMAIN contract.capabilities}
             made == Capabilities(Candidate(t), t.evidence)
  <2>1. v.meaning = Meaning(t, ds)
    BY NewestIs DEF VersionHeld
  <2>2. /\ clock # None => a.temporal.source = clock
        /\ subject # None => a.snapshot.subject = subject
    <3>1. a.temporal = DecidedTemporal(t, ds) /\ a.snapshot = DecidedSnapshot(t, ds)
      BY DecidedFields
    <3> HIDE DEF a, t, ds
    <3> QED
      BY <3>1 DEF DecidedTemporal, DecidedSnapshot
  <2>3. /\ contract.execution = CompileExecution(a, None)
        /\ contract.continuity = CompileContinuity(a, None)
        /\ contract.capabilities = [id \in CapabilityIds(Candidate(t)) |-> CompileCapability(a, made[id])]
    BY <2>1 DEF Compile, Meaning, Capabilities
  <2>4. ASSUME NEW cap \in caps
        PROVE  /\ cap.execution.temporal \in {a.temporal, Temporal(t)}
               /\ cap.continuity.snapshot \in {a.snapshot, Snapshot(t)}
    <3>1. PICK id \in CapabilityIds(Candidate(t)) : cap = CompileCapability(a, made[id])
      BY <2>3, <2>4
    <3> DEFINE own == made[id]
    <3>2. /\ own.constraints # None => own.constraints.temporal = Temporal(t)
          /\ own.continuity # None => own.continuity.snapshot = Snapshot(t)
      BY OwnCopies
    <3> HIDE DEF own, a, t
    <3>3. CompileExecution(a, own).temporal \in {a.temporal, Temporal(t)}
      BY <3>2 DEF CompileExecution
    <3>4. CompileContinuity(a, own).snapshot \in {a.snapshot, Snapshot(t)}
      BY <3>2 DEF CompileContinuity
    <3> QED
      BY <3>1, <3>3, <3>4 DEF CompileCapability, own
  <2>5. /\ contract.execution.temporal = a.temporal
        /\ contract.continuity.snapshot = a.snapshot
    BY <2>3 DEF CompileExecution, CompileContinuity
  <2>6. clock # None =>
          /\ contract.execution.temporal.source = clock
          /\ \A cap \in caps :
               cap.execution.temporal.source = clock \/ cap.execution.temporal = Temporal(v.text)
    BY <2>2, <2>4, <2>5
  <2>7. subject # None =>
          /\ contract.continuity.snapshot.subject = subject
          /\ \A cap \in caps :
               cap.continuity.snapshot.subject = subject \/ cap.continuity.snapshot = Snapshot(v.text)
    BY <2>2, <2>4, <2>5
  <2> QED
    BY <2>6, <2>7 DEF DecidedIsCompiled
<1> QED
  BY <1>1, Invariance, PTL

-----------------------------------------------------------------------------
(* What the operators of SemanticDiff read of a meaning.                   *)

\* The facts about one meaning that the diff and the compiler both rest on.
ChainShape(a) ==
  a.chain # None =>
    /\ {a.chain.independence, a.chain.noSelfApproval, a.chain.attested} \subseteq BOOLEAN
    /\ {a.role} \ {None} \subseteq a.chain.roles
    /\ a.chain.count = a.count

IdentityShape(a) ==
  /\ a.identity # None => a.identity.required = TRUE
  /\ a.identity = None => Field(a.actor, "continuity") # TRUE

ExecutionShape(a) ==
  a.execution # None =>
    /\ a.execution.context \in Contexts
    /\ a.execution.replay \in BOOLEAN

NumberShape(a) ==
  /\ Number(ApprovalCount_(a)) \in Nat
  /\ Number(a.threshold) \in Int
  /\ Number(Field(a.temporal, "window")) \in Int

EmergencyShape(m) ==
  /\ m.authority.emergency # None => m.authority.emergency.posture = "temporary_emergency_override"
  /\ (<<"emergency", None>> \in DOMAIN m.capabilities) <=> (m.authority.emergency # None)
  /\ m.capabilities[<<"emergency", None>>].requirements = {"emergency"} \/ m.authority.emergency = None

Shape(m) ==
  /\ ChainShape(m.authority) /\ IdentityShape(m.authority) /\ ExecutionShape(m.authority)
  /\ NumberShape(m.authority) /\ EmergencyShape(m)

LEMMA DecidedRest ==
  ASSUME NEW t, NEW ds
  PROVE  /\ Decided(t, ds).role = Role(t)
         /\ Decided(t, ds).count = ApprovalCount(t)
         /\ Decided(t, ds).chain = ApprovalChain(t)
         /\ Decided(t, ds).execution = ExecutionContext(t)
         /\ Decided(t, ds).emergency = EmergencyDelegation(t)
         /\ Decided(t, ds).identity = IdentityContinuity(t)
         /\ Decided(t, ds).actor = GovernanceActor(t)
<1>1. /\ {"role", "count", "chain", "execution", "emergency", "identity", "actor"}
           \subseteq DOMAIN Candidate(t)
      /\ Candidate(t).role = Role(t) /\ Candidate(t).count = ApprovalCount(t)
      /\ Candidate(t).chain = ApprovalChain(t) /\ Candidate(t).execution = ExecutionContext(t)
      /\ Candidate(t).emergency = EmergencyDelegation(t)
      /\ Candidate(t).identity = IdentityContinuity(t) /\ Candidate(t).actor = GovernanceActor(t)
  BY DEF Candidate
<1> QED
  BY <1>1, DecidedFields

LEMMA RoleInRoles ==
  ASSUME NEW t \in Texts, t.roles # <<>>
  PROVE  Role(t) \in ToSet(t.roles)
<1>1. t.roles \in Seq(Roles)
  BY TextsAssumption DEF WellFormed
<1>2. 1 \in DOMAIN t.roles
  BY <1>1
<1> QED
  BY <1>2 DEF Role, ToSet

LEMMA DecidedChain ==
  ASSUME NEW t \in Texts, NEW ds
  PROVE  ChainShape(Decided(t, ds))
<1> SUFFICES ASSUME ApprovalChain(t) # None
             PROVE  /\ {ApprovalChain(t).independence, ApprovalChain(t).noSelfApproval,
                        ApprovalChain(t).attested} \subseteq BOOLEAN
                    /\ {Role(t)} \ {None} \subseteq ApprovalChain(t).roles
                    /\ ApprovalChain(t).count = ApprovalCount(t)
  BY DecidedRest DEF ChainShape
<1>1. {t.independent, t.separation, t.attested} \subseteq BOOLEAN
  BY TextsAssumption DEF WellFormed
<1>2. /\ ApprovalChain(t).independence = (t.independent \/ t.separation)
      /\ ApprovalChain(t).noSelfApproval = t.separation
      /\ ApprovalChain(t).attested = t.attested
      /\ ApprovalChain(t).count = ApprovalCount(t)
      /\ ApprovalChain(t).roles = IF t.roles # <<>> THEN ToSet(t.roles) ELSE {Role(t)} \ {None}
  BY DEF ApprovalChain
<1>3. {Role(t)} \ {None} \subseteq ApprovalChain(t).roles
  BY <1>2, RoleInRoles
<1> QED
  BY <1>1, <1>2, <1>3

LEMMA DecidedIdentity ==
  ASSUME NEW t, NEW ds
  PROVE  IdentityShape(Decided(t, ds))
<1>1. IdentityContinuity(t) # None => IdentityContinuity(t).required = TRUE
  BY DEF IdentityContinuity
<1>2. ASSUME IdentityContinuity(t) = None
      PROVE  Field(GovernanceActor(t), "continuity") # TRUE
  <2>4. [required |-> TRUE] \in [required : BOOLEAN]
    OBVIOUS
  <2>5. [required |-> TRUE] # None
    BY <2>4, NoneAssumption
  <2>1. ~ (t.revalidates \/ t.sameOperator)
    BY <1>2, <2>5 DEF IdentityContinuity
  <2>2. GovernanceActor(t) # None =>
          GovernanceActor(t).continuity = (t.revalidates \/ t.sameOperator)
    BY DEF GovernanceActor
  <2>3. None # TRUE
    BY NoneAssumption
  <2> QED
    BY <2>1, <2>2, <2>3 DEF Field
<1> QED
  BY <1>1, <1>2, DecidedRest DEF IdentityShape

LEMMA DecidedExecution ==
  ASSUME NEW t \in Texts, NEW ds
  PROVE  ExecutionShape(Decided(t, ds))
<1> SUFFICES ASSUME ExecutionContext(t) # None
             PROVE  ExecutionContext(t).context \in Contexts /\ ExecutionContext(t).replay \in BOOLEAN
  BY DecidedRest DEF ExecutionShape
<1>1. t.context \in {None} \cup Contexts
  BY TextsAssumption DEF WellFormed
<1>2. t.context # None
  BY DEF ExecutionContext
<1>3. /\ ExecutionContext(t).context = t.context
      /\ ExecutionContext(t).replay =
           (t.context # "local_interactive" \/ t.evidence \cap ReplayTerms # {})
  BY <1>2 DEF ExecutionContext
<1> QED
  BY <1>1, <1>2, <1>3

LEMMA DecidedNumbers ==
  ASSUME NEW t \in Texts, NEW ds \in Seq(Decision(t))
  PROVE  NumberShape(Decided(t, ds))
<1>1. /\ t.roles \in Seq(Roles)
      /\ t.approvals \in Nat \cup {None} /\ t.threshold \in Nat \cup {None}
      /\ t.validity \in Nat \cup {None}
  BY TextsAssumption DEF WellFormed
<1>2. Number(ApprovalCount(t)) \in Nat
  BY <1>1 DEF ApprovalCount, Number
<1>3. ApprovalCount_(Decided(t, ds)) = ApprovalCount(t)
  <2>1. ApprovalChain(t) # None => ApprovalChain(t).count = ApprovalCount(t)
    BY DEF ApprovalChain
  <2> QED
    BY <2>1, DecidedRest DEF ApprovalCount_
<1>4. Number(DecidedThreshold(t, ds)) \in Int
  <2>1. DecidedValue(ds, "threshold") \in Amounts \cup {None}
    BY DecidedOfKind
  <2>2. DecidedThreshold(t, ds) \in Int \cup {None}
    <3>1. Amounts \subseteq Int
      BY DecidedAssumption
    <3>2. DecidedThreshold(t, ds) \in {t.threshold} \cup Amounts
      BY <2>1, Zenon DEF DecidedThreshold
    <3>3. CASE DecidedThreshold(t, ds) \in Amounts
      BY <3>1, <3>3
    <3>4. CASE DecidedThreshold(t, ds) = t.threshold
      <4>1. t.threshold \in Nat \cup {None}
        BY <1>1
      <4> QED
        BY <4>1, <3>4
    <3> QED
      BY <3>2, <3>3, <3>4
  <2> QED
    BY <2>2 DEF Number
<1>5. Field(DecidedTemporal(t, ds), "window") \in {None, t.validity}
  BY DEF DecidedTemporal, Temporal, Field
<1>6. Number(Field(DecidedTemporal(t, ds), "window")) \in Int
  BY <1>1, <1>5 DEF Number
<1> QED
  BY <1>2, <1>3, <1>4, <1>6, DecidedFields DEF NumberShape

LEMMA EmergencyId ==
  ASSUME NEW c
  PROVE  <<"emergency", None>> \in CapabilityIds(c) <=> c.emergency # None
<1> DEFINE resumes == c.revalidates \/ c.snapshot # None
           ids == [execute |-> TRUE,
                   approve |-> c.role # None \/ Positive(c.count),
                   recommend |-> c.ai # None,
                   resume |-> resumes,
                   resumeAi |-> resumes /\ c.ai # None,
                   delegate |-> CandidateDelegation(c) \notin {None, "not_allowed"},
                   emergency |-> c.emergency # None]
           named == {"execute", "approve", "resume"}
           kinds == {k \in DOMAIN ids : ids[k]}
<1>1. CapabilityIds(c) =
        {<<kind, IF kind \in named THEN c.action ELSE None>> : kind \in kinds}
          \cup (IF c.ai # None THEN {<<"execute", AiModification>>} ELSE {})
  BY DEF CapabilityIds
<1>2. "emergency" \in kinds <=> c.emergency # None
  OBVIOUS
<1>3. "emergency" \notin named
  OBVIOUS
<1> HIDE DEF kinds, named
<1>4. ASSUME "emergency" \in kinds
      PROVE  <<"emergency", None>> \in CapabilityIds(c)
  BY <1>1, <1>3, <1>4
<1>5. ASSUME <<"emergency", None>> \in CapabilityIds(c)
      PROVE  "emergency" \in kinds
  BY <1>1, <1>5
<1> QED
  BY <1>2, <1>4, <1>5

LEMMA DecidedEmergency ==
  ASSUME NEW t, NEW ds
  PROVE  EmergencyShape(Meaning(t, ds))
<1> DEFINE c == Candidate(t)
           m == Meaning(t, ds)
           id == <<"emergency", None>>
<1>1. /\ m.authority.emergency = EmergencyDelegation(t)
      /\ DOMAIN m.capabilities = CapabilityIds(c)
      /\ c.emergency = EmergencyDelegation(t)
  BY DecidedRest DEF Meaning, Capabilities, Candidate
<1>2. EmergencyDelegation(t) # None => EmergencyDelegation(t).posture = "temporary_emergency_override"
  BY DEF EmergencyDelegation
<1>3. id \in CapabilityIds(c) <=> c.emergency # None
  BY EmergencyId
<1>4. id \in CapabilityIds(c) => m.capabilities[id].requirements = {"emergency"}
  BY DEF Meaning, Capabilities, Capability
<1> QED
  BY <1>1, <1>2, <1>3, <1>4 DEF EmergencyShape

LEMMA VersionShape ==
  ASSUME NEW v, VersionHeld(v)
  PROVE  Shape(v.meaning)
<1>1. v.text \in Texts /\ v.decisions \in Seq(Decision(v.text)) /\ v.meaning = Meaning(v.text, v.decisions)
  BY DEF VersionHeld
<1>2. v.meaning.authority = Decided(v.text, v.decisions)
  BY <1>1 DEF Meaning
<1> QED
  BY <1>1, <1>2, DecidedChain, DecidedIdentity, DecidedExecution, DecidedNumbers, DecidedEmergency DEF Shape

-----------------------------------------------------------------------------
(* What one change makes the enforcement projection say.                   *)

LEMMA ChangeFields ==
  ASSUME NEW class, NEW path, NEW lost, NEW obliges
  PROVE  /\ Change(class, path, lost, obliges).class = class
         /\ Change(class, path, lost, obliges).path = path
         /\ Change(class, path, lost, obliges).lost = lost
         /\ Change(class, path, lost, obliges).obliges = obliges
BY DEF Change

LEMMA UnsafeByChange ==
  ASSUME NEW diff, NEW change \in diff
  PROVE  /\ change.class = "continuity_change" =>
              "resumed_workflow_no_longer_admissible" \in UnsafeNow(diff)
         /\ change.class = "approval_weakened" => "approval_requirements_weakened" \in UnsafeNow(diff)
         /\ change.class = "approval_strengthened" => "approval_evidence_stale" \in UnsafeNow(diff)
         /\ change.class = "delegation_change" =>
              "delegated_authority_boundary_changed" \in UnsafeNow(diff)
         /\ change.class = "identity_change" => "identity_continuity_broken" \in UnsafeNow(diff)
         /\ change.class = "capability_removed" => "removed_capability_reliance" \in UnsafeNow(diff)
         /\ change.path[1] = "execution" => "execution_boundary_expanded" \in UnsafeNow(diff)
<1>1. UnsafeObservations(change) \subseteq UnsafeNow(diff)
  BY DEF UnsafeNow
<1>2. /\ change.class = "continuity_change" =>
           "resumed_workflow_no_longer_admissible" \in UnsafeObservations(change)
      /\ change.class = "approval_weakened" =>
           "approval_requirements_weakened" \in UnsafeObservations(change)
      /\ change.class = "approval_strengthened" =>
           "approval_evidence_stale" \in UnsafeObservations(change)
      /\ change.class = "delegation_change" =>
           "delegated_authority_boundary_changed" \in UnsafeObservations(change)
      /\ change.class = "identity_change" =>
           "identity_continuity_broken" \in UnsafeObservations(change)
      /\ change.class = "capability_removed" =>
           "removed_capability_reliance" \in UnsafeObservations(change)
      /\ change.path[1] = "execution" =>
           "execution_boundary_expanded" \in UnsafeObservations(change)
  BY DEF UnsafeObservations, BoundaryChanged
<1> QED
  BY <1>1, <1>2

LEMMA UnsafeByObligation ==
  ASSUME NEW diff, NEW change \in diff, change.obliges
  PROVE  UnsafeNow(diff) # {}
<1>1. GuardPosture(diff) = "changed"
  BY DEF GuardPosture
<1>2. "guard_policy_projection_changed" \in UnsafeNow(diff)
  BY <1>1 DEF UnsafeNow
<1> QED
  BY <1>2

\* A change of what continuity or replay rests on is never called stable.
LEMMA ReplayByChange ==
  ASSUME NEW diff, NEW change \in diff,
         change.class = "continuity_change" \/ EvidenceRemoved(change)
  PROVE  ReplayPosture(diff) \in {"invalidated", "revalidation_required"}
<1>1. change.class = "continuity_change" => ContinuityImpact(change) = "revalidation_required"
  BY Zenon DEF ContinuityImpact
<1>2. EvidenceRemoved(change) => ContinuityImpact(change) = "replay_continuity_degraded"
  <2> SUFFICES ASSUME EvidenceRemoved(change)
               PROVE  ContinuityImpact(change) = "replay_continuity_degraded"
    OBVIOUS
  <2>1. change.class = "replay_change"
    BY DEF EvidenceRemoved
  <2> QED
    BY <2>1, Zenon DEF ContinuityImpact
<1>3. ContinuityImpact(change) \in {"revalidation_required", "replay_continuity_degraded"}
  BY <1>1, <1>2
<1> QED
  BY <1>3 DEF ReplayPosture

-----------------------------------------------------------------------------
(* The diff, by concern.                                                   *)

LEMMA DiffOf ==
  ASSUME NEW p, NEW c
  PROVE  /\ CapabilityChanges(p, c) \subseteq Diff(p, c)
         /\ ApprovalChanges(p.authority, c.authority) \subseteq Diff(p, c)
         /\ AiAutonomyChanges(p.authority, c.authority) \subseteq Diff(p, c)
         /\ ContinuityChanges(p.authority, c.authority) \subseteq Diff(p, c)
         /\ ReplayChanges(p, c) \subseteq Diff(p, c)
         /\ EscalationChanges(p.authority, c.authority) \subseteq Diff(p, c)
         /\ ExecutionBoundaryChanges(p.authority, c.authority) \subseteq Diff(p, c)
         /\ IdentityChanges(p.authority, c.authority) \subseteq Diff(p, c)
         /\ DelegationChanges(p.authority, c.authority) \subseteq Diff(p, c)
         /\ ValidityWindowChanges(p.authority, c.authority) \subseteq Diff(p, c)
         /\ ScopeChanges(p.authority, c.authority) \subseteq Diff(p, c)
BY DEF Diff

\* Where the earlier approval count is other than the later one, a change says
\* which way it went.
LEMMA CountChanged ==
  ASSUME NEW p, NEW c, ApprovalCount_(p) # ApprovalCount_(c)
  PROVE  \E change \in ApprovalChanges(p, c) :
           change.class = IF Number(ApprovalCount_(c)) > Number(ApprovalCount_(p))
                          THEN "approval_strengthened" ELSE "approval_weakened"
<1> DEFINE change == ApprovalChange("count", Number(ApprovalCount_(c)) > Number(ApprovalCount_(p)))
<1>1. change \in ApprovalChanges(p, c)
  BY DEF ApprovalChanges
<1>2. change.class = IF Number(ApprovalCount_(c)) > Number(ApprovalCount_(p))
                     THEN "approval_strengthened" ELSE "approval_weakened"
  BY DEF ApprovalChange, Change
<1> HIDE DEF change
<1> QED
  BY <1>1, <1>2

LEMMA FlagChanged ==
  ASSUME NEW p, NEW c, NEW f \in ApprovalFields, Field(p.chain, f) # Field(c.chain, f)
  PROVE  \E change \in ApprovalChanges(p, c) :
           change.class = IF Field(c.chain, f) = TRUE
                          THEN "approval_strengthened" ELSE "approval_weakened"
<1> DEFINE change == ApprovalChange(f, Field(c.chain, f) = TRUE)
<1>1. change \in ApprovalChanges(p, c)
  BY DEF ApprovalChanges
<1>2. change.class = IF Field(c.chain, f) = TRUE THEN "approval_strengthened" ELSE "approval_weakened"
  BY DEF ApprovalChange, Change
<1> HIDE DEF change
<1> QED
  BY <1>1, <1>2

LEMMA RolesChanged ==
  ASSUME NEW p, NEW c, ApprovalRoles(p) # ApprovalRoles(c)
  PROVE  \E change \in ApprovalChanges(p, c) : change.class = "identity_change"
<1> DEFINE change == Change("identity_change", <<"approval", "roles">>, {}, TRUE)
<1>1. change \in ApprovalChanges(p, c)
  BY DEF ApprovalChanges
<1>2. change.class = "identity_change"
  BY DEF Change
<1> HIDE DEF change
<1> QED
  BY <1>1, <1>2

LEMMA ContinuityChanged ==
  ASSUME NEW p, NEW c,
         \/ p.revalidates # c.revalidates
         \/ p.revocation # c.revocation
         \/ p.snapshot # c.snapshot
  PROVE  \E change \in ContinuityChanges(p, c) : change.class = "continuity_change"
<1>1. ASSUME NEW f \in {"revalidates", "revocation"}, p[f] # c[f]
      PROVE  \E change \in ContinuityChanges(p, c) : change.class = "continuity_change"
  <2> DEFINE change == Change("continuity_change", <<"continuity", f>>, {}, c[f])
  <2>1. change \in ContinuityChanges(p, c)
    BY <1>1 DEF ContinuityChanges
  <2>2. change.class = "continuity_change"
    BY DEF Change
  <2> HIDE DEF change
  <2> QED
    BY <2>1, <2>2
<1>2. ASSUME p.snapshot # c.snapshot
      PROVE  \E change \in ContinuityChanges(p, c) : change.class = "continuity_change"
  <2> DEFINE change == Change("continuity_change", <<"continuity", "snapshot">>, {}, c.snapshot # None)
  <2>1. change \in ContinuityChanges(p, c)
    BY <1>2 DEF ContinuityChanges
  <2>2. change.class = "continuity_change"
    BY DEF Change
  <2> HIDE DEF change
  <2> QED
    BY <2>1, <2>2
<1> QED
  BY <1>1, <1>2

ExecutionFields == {"context", "boundary", "replay", "snapshot", "temporal", "resume"}

LEMMA ExecutionChanged ==
  ASSUME NEW p, NEW c, NEW f \in ExecutionFields, Field(p.execution, f) # Field(c.execution, f)
  PROVE  \E change \in ExecutionBoundaryChanges(p, c) :
           change.path = <<"execution", f>> /\ (f # "context" => change.class = "continuity_change")
<1> DEFINE change == Change(IF f = "context" THEN "scope_expansion" ELSE "continuity_change",
                            <<"execution", f>>, {}, TRUE)
<1>1. change \in ExecutionBoundaryChanges(p, c)
  BY DEF ExecutionBoundaryChanges, ExecutionFields
<1>2. change.path = <<"execution", f>> /\ (f # "context" => change.class = "continuity_change")
  BY DEF Change
<1> HIDE DEF change
<1> QED
  BY <1>1, <1>2

-----------------------------------------------------------------------------
(* What the contract says of the authority.                                *)

LEMMA CompiledApproval ==
  ASSUME NEW m, NEW a, a = m.authority, ChainShape(a)
  PROVE  /\ Compile(m).approval.count = ApprovalCount_(a)
         /\ Compile(m).approval.roles = IF a.chain = None THEN {a.role} \ {None} ELSE a.chain.roles
         /\ Compile(m).approval.independence <=> (a.chain # None /\ a.chain.independence)
         /\ Compile(m).approval.noSelfApproval <=> (a.chain # None /\ a.chain.noSelfApproval)
         /\ Compile(m).approval.attested <=> (a.chain # None /\ a.chain.attested)
<1>1. Compile(m).approval = CompileApproval(a, None)
  BY DEF Compile
<1>2. CompileApproval(a, None) =
        IF a.chain = None
        THEN [count |-> a.count, roles |-> {a.role} \ {None}, independence |-> FALSE,
              noSelfApproval |-> FALSE, attested |-> FALSE, human |-> FALSE]
        ELSE [count |-> IF Positive(a.chain.count) THEN a.chain.count ELSE a.count,
              roles |-> a.chain.roles, independence |-> a.chain.independence,
              noSelfApproval |-> a.chain.noSelfApproval, attested |-> a.chain.attested,
              human |-> a.chain.human]
  BY DEF CompileApproval
<1>3. a.chain # None => a.chain.count = a.count
  BY DEF ChainShape
<1> QED
  BY <1>1, <1>2, <1>3 DEF ApprovalCount_

LEMMA CompiledContinuity ==
  ASSUME NEW m, NEW a, a = m.authority
  PROVE  /\ Compile(m).continuity.revalidates = a.revalidates
         /\ Compile(m).continuity.revocation = a.revocation
         /\ Compile(m).continuity.snapshot = a.snapshot
         /\ Compile(m).execution.temporal = a.temporal
         /\ Compile(m).continuity.identity <=> a.identity # None
         /\ Compile(m).threshold = a.threshold
<1>1. /\ Compile(m).continuity = CompileContinuity(a, None)
      /\ Compile(m).execution = CompileExecution(a, None)
      /\ Compile(m).threshold = CompileThreshold(a, None)
  BY DEF Compile
<1>2. Compile(m).continuity.identity = (a.identity # None)
  BY <1>1 DEF CompileContinuity
<1>3. Compile(m).threshold = a.threshold
  BY <1>1 DEF CompileThreshold
<1>4. Compile(m).continuity.revalidates = a.revalidates
  BY <1>1 DEF CompileContinuity
<1>5. Compile(m).continuity.revocation = a.revocation
  BY <1>1 DEF CompileContinuity
<1>6. Compile(m).continuity.snapshot = a.snapshot
  BY <1>1 DEF CompileContinuity
<1>7. Compile(m).execution.temporal = a.temporal
  BY <1>1 DEF CompileExecution
<1> QED
  BY <1>2, <1>3, <1>4, <1>5, <1>6, <1>7

LEMMA CompiledObligations ==
  ASSUME NEW m, NEW a, a = m.authority
  PROVE  Compile(m).obligations # {} <=> \/ a.execution # None /\ a.execution.replay
                                         \/ a.snapshot # None
<1>1. Compile(m).obligations = CompileObligations(a, {})
  BY DEF Compile
<1> QED
  BY <1>1 DEF CompileObligations

LEMMA CompiledDelegation ==
  ASSUME NEW m, NEW a, a = m.authority, EmergencyShape(m)
  PROVE  Compile(m).delegation.allowed =
           (a.emergency # None \/ DiffDelegation(a) \notin {"not_allowed", "ambiguous"})
<1>1. Compile(m).delegation = CompileDelegation(a)
  BY DEF Compile
<1>2. CASE a.emergency # None
  <2>1. a.emergency.posture = "temporary_emergency_override"
    BY <1>2 DEF EmergencyShape
  <2> QED
    BY <1>1, <1>2, <2>1 DEF CompileDelegation
<1>3. CASE a.emergency = None
  BY <1>1, <1>3 DEF CompileDelegation, DiffDelegation
<1> QED
  BY <1>2, <1>3

LEMMA SameConditions ==
  ASSUME NEW p, NEW c,
         p.obligations # {} <=> c.obligations # {},
         p.continuity.snapshot # None <=> c.continuity.snapshot # None,
         p.continuity.revalidates <=> c.continuity.revalidates,
         p.continuity.revocation <=> c.continuity.revocation,
         p.approval.count = c.approval.count,
         p.approval.independence <=> c.approval.independence,
         p.approval.attested <=> c.approval.attested,
         p.delegation.allowed <=> c.delegation.allowed,
         (p.execution.temporal # None /\ p.execution.temporal.window # None)
           <=> (c.execution.temporal # None /\ c.execution.temporal.window # None)
  PROVE  RuntimeConditions(p) = RuntimeConditions(c)
BY DEF RuntimeConditions

-----------------------------------------------------------------------------
(* A changed condition.                                                    *)

\* Where nothing is unsafe, the two meanings agree on all that the conditions
\* are made of.
LEMMA SafeIsSame ==
  ASSUME NEW p, NEW c, Shape(p), Shape(c), UnsafeNow(Diff(p, c)) = {}
  PROVE  RuntimeConditions(Compile(p)) = RuntimeConditions(Compile(c))
<1> DEFINE a == p.authority
           b == c.authority
           diff == Diff(p, c)
<1>1. ~ \E change \in diff :
          \/ change.class \in {"continuity_change", "approval_weakened", "approval_strengthened",
                               "delegation_change", "identity_change", "capability_removed"}
          \/ change.path[1] = "execution"
          \/ change.obliges
  BY UnsafeByChange, UnsafeByObligation
<1> HIDE DEF diff
<1>2. /\ CapabilityChanges(p, c) \subseteq diff
      /\ ApprovalChanges(a, b) \subseteq diff
      /\ ContinuityChanges(a, b) \subseteq diff
      /\ ExecutionBoundaryChanges(a, b) \subseteq diff
      /\ DelegationChanges(a, b) \subseteq diff
      /\ ValidityWindowChanges(a, b) \subseteq diff
  BY DiffOf DEF diff
<1>3. /\ ChainShape(a) /\ ExecutionShape(a) /\ EmergencyShape(p)
      /\ ChainShape(b) /\ ExecutionShape(b) /\ EmergencyShape(c)
  BY DEF Shape
<1> HIDE DEF a, b
<1>4. a.revalidates = b.revalidates /\ a.revocation = b.revocation /\ a.snapshot = b.snapshot
  BY <1>1, <1>2, ContinuityChanged
<1>5. ApprovalCount_(a) = ApprovalCount_(b)
  BY <1>1, <1>2, CountChanged
<1>6. \A f \in ApprovalFields : Field(a.chain, f) = Field(b.chain, f)
  BY <1>1, <1>2, FlagChanged
<1>7. \A f \in ExecutionFields : Field(a.execution, f) = Field(b.execution, f)
  <2> SUFFICES ASSUME NEW f \in ExecutionFields, Field(a.execution, f) # Field(b.execution, f)
               PROVE  FALSE
    OBVIOUS
  <2>1. PICK change \in ExecutionBoundaryChanges(a, b) : change.path = <<"execution", f>>
    BY ExecutionChanged
  <2>2. change.path[1] = "execution"
    BY <2>1
  <2> QED
    BY <1>1, <1>2, <2>1, <2>2
<1>8. DiffDelegation(a) = DiffDelegation(b)
  <2> SUFFICES ASSUME DiffDelegation(a) # DiffDelegation(b) PROVE FALSE
    OBVIOUS
  <2> DEFINE change == Change("delegation_change", <<"delegation", "posture">>, {},
                              DelegationRank(DiffDelegation(b)) > DelegationRank(DiffDelegation(a)))
  <2>1. change \in DelegationChanges(a, b)
    BY DEF DelegationChanges
  <2>2. change.class = "delegation_change"
    BY DEF Change
  <2> HIDE DEF change
  <2> QED
    BY <1>1, <1>2, <2>1, <2>2
<1>9. Field(a.temporal, "window") = Field(b.temporal, "window")
  <2> SUFFICES ASSUME Field(a.temporal, "window") # Field(b.temporal, "window") PROVE FALSE
    OBVIOUS
  <2> DEFINE class == IF Number(Field(b.temporal, "window")) > Number(Field(a.temporal, "window"))
                      THEN "relaxed_control" ELSE "tightened_control"
             change == Change(class, <<"temporal", "validity_window">>, {}, TRUE)
  <2>1. change \in ValidityWindowChanges(a, b)
    BY DEF ValidityWindowChanges
  <2>2. change.obliges
    BY DEF Change
  <2> HIDE DEF change
  <2> QED
    BY <1>1, <1>2, <2>1, <2>2
<1>10. a.emergency = None <=> b.emergency = None
  <2> DEFINE id == <<"emergency", None>>
  <2>1. /\ id \in DOMAIN p.capabilities <=> a.emergency # None
        /\ id \in DOMAIN c.capabilities <=> b.emergency # None
        /\ b.emergency # None => c.capabilities[id].requirements = {"emergency"}
    BY <1>3 DEF EmergencyShape, a, b
  <2>2. ASSUME a.emergency # None, b.emergency = None
        PROVE  FALSE
    <3> DEFINE change == Change("capability_removed", <<"capabilities", id>>, {}, FALSE)
    <3>1. change \in CapabilityChanges(p, c)
      BY <2>1, <2>2 DEF CapabilityChanges
    <3>2. change.class = "capability_removed"
      BY DEF Change
    <3> HIDE DEF change
    <3> QED
      BY <1>1, <1>2, <3>1, <3>2
  <2>3. ASSUME a.emergency = None, b.emergency # None
        PROVE  FALSE
    <3> DEFINE obliges == \/ c.capabilities[id].requirements # {}
                          \/ /\ c.capabilities[id].continuity # None
                             /\ c.authority.revalidates \/ c.authority.snapshot # None
                          \/ c.capabilities[id].evidence # {}
               change == Change("capability_added", <<"capabilities", id>>, {}, obliges)
    <3>1. change \in CapabilityChanges(p, c)
      BY <2>1, <2>3 DEF CapabilityChanges
    <3>2. obliges
      BY <2>1, <2>3
    <3>3. change.obliges
      BY <3>2 DEF Change
    <3> HIDE DEF change
    <3> QED
      BY <1>1, <1>2, <3>1, <3>3
  <2> QED
    BY <2>2, <2>3
<1>11. (a.execution # None /\ a.execution.replay) <=> (b.execution # None /\ b.execution.replay)
  <2>1. /\ Field(a.execution, "context") = Field(b.execution, "context")
        /\ Field(a.execution, "replay") = Field(b.execution, "replay")
    BY <1>7 DEF ExecutionFields
  <2>2. None \notin Contexts
    BY NoneAssumption
  <2> QED
    BY <1>3, <2>1, <2>2 DEF Field, ExecutionShape
<1>12. /\ (a.chain # None /\ a.chain.independence) <=> (b.chain # None /\ b.chain.independence)
       /\ (a.chain # None /\ a.chain.attested) <=> (b.chain # None /\ b.chain.attested)
  <2>1. /\ Field(a.chain, "independence") = Field(b.chain, "independence")
        /\ Field(a.chain, "attested") = Field(b.chain, "attested")
    BY <1>6 DEF ApprovalFields
  <2>2. None \notin BOOLEAN
    BY NoneAssumption
  <2> QED
    BY <1>3, <2>1, <2>2 DEF Field, ChainShape
<1>13. (a.temporal # None /\ a.temporal.window # None) <=> (b.temporal # None /\ b.temporal.window # None)
  BY <1>9 DEF Field
<1> QED
  <2> DEFINE pc == Compile(p)
             cc == Compile(c)
  <2>1. pc.obligations # {} <=> cc.obligations # {}
    BY <1>4, <1>11, CompiledObligations DEF a, b
  <2>2. /\ pc.continuity.snapshot = cc.continuity.snapshot
        /\ pc.continuity.revalidates = cc.continuity.revalidates
        /\ pc.continuity.revocation = cc.continuity.revocation
    BY <1>4, CompiledContinuity DEF a, b
  <2>3. /\ pc.approval.count = cc.approval.count
        /\ pc.approval.independence <=> cc.approval.independence
        /\ pc.approval.attested <=> cc.approval.attested
    BY <1>3, <1>5, <1>12, CompiledApproval DEF a, b
  <2>4. pc.delegation.allowed <=> cc.delegation.allowed
    BY <1>3, <1>8, <1>10, CompiledDelegation DEF a, b
  <2>5. (pc.execution.temporal # None /\ pc.execution.temporal.window # None)
          <=> (cc.execution.temporal # None /\ cc.execution.temporal.window # None)
    BY <1>13, CompiledContinuity DEF a, b
  <2> HIDE DEF pc, cc
  <2>6. RuntimeConditions(pc) = RuntimeConditions(cc)
    BY <2>1, <2>2, <2>3, <2>4, <2>5, SameConditions
  <2> QED
    BY <2>6 DEF pc, cc

\* The versions before the newest one.
LEMMA EarlierIs ==
  ASSUME IInv, Committed, NEW k \in Nat, Newest > k
  PROVE  /\ Newest - k \in 1 .. Len(versions)
         /\ VersionHeld(versions[Newest - k])
         /\ Shape(versions[Newest - k].meaning)
<1>1. Newest \in 1 .. Len(versions) /\ Len(versions) \in Nat
  BY NewestIs, VersionsAre
<1>2. Newest - k \in 1 .. Len(versions)
  BY <1>1
<1> QED
  BY <1>2, VersionsAre, VersionShape

\* Other conditions than before leave something that is unsafe now.
THEOREM ConditionsFlagged == Spec => []ChangedConditionsAreFlagged
<1>1. IInv => ChangedConditionsAreFlagged
  <2> SUFFICES ASSUME IInv, Committed, Newest > 1,
                      RuntimeConditions(Compile(versions[Newest - 1].meaning))
                        # RuntimeConditions(Compile(versions[Newest].meaning))
               PROVE  UnsafeNow(StepDiff(Newest)) # {}
    BY DEF ChangedConditionsAreFlagged
  <2>1. Shape(versions[Newest - 1].meaning)
    BY EarlierIs
  <2>2. Shape(versions[Newest].meaning)
    BY NewestIs, VersionShape
  <2> QED
    BY <2>1, <2>2, SafeIsSame DEF StepDiff
<1> QED
  BY <1>1, Invariance, PTL

-----------------------------------------------------------------------------
(* A lost requirement.                                                     *)

\* For a meaning of the right shape the diff reads the roles of the contract.
LEMMA RolesAgree ==
  ASSUME NEW m, NEW a, a = m.authority, ChainShape(a)
  PROVE  Compile(m).approval.roles = ApprovalRoles(a)
<1>1. Compile(m).approval.roles = IF a.chain = None THEN {a.role} \ {None} ELSE a.chain.roles
  BY CompiledApproval
<1> QED
  BY <1>1 DEF ApprovalRoles, ChainShape

LEMMA FlaggedBy ==
  ASSUME NEW r, NEW diff
  PROVE  /\ r[1] \in {"approvals", "independence", "noSelfApproval", "attested"} =>
              (Flagged(r, diff) <=> "approval_requirements_weakened" \in UnsafeNow(diff))
         /\ r[1] \in {"revalidates", "revocation", "snapshot"} =>
              (Flagged(r, diff) <=> "resumed_workflow_no_longer_admissible" \in UnsafeNow(diff))
         /\ r[1] \in {"role", "identity"} =>
              (Flagged(r, diff) <=> "identity_continuity_broken" \in UnsafeNow(diff))
         /\ r[1] = "evidence" =>
              (Flagged(r, diff) <=> ReplayPosture(diff) \in {"invalidated", "revalidation_required"})
         /\ r[1] = "escalation" =>
              (Flagged(r, diff) <=> \E change \in diff : change.path = <<"escalation", "threshold">>)
<1>1. ASSUME r[1] \in {"approvals", "independence", "noSelfApproval", "attested"}
      PROVE  Flagged(r, diff) <=> "approval_requirements_weakened" \in UnsafeNow(diff)
  BY <1>1, Zenon DEF Flagged
<1>2. ASSUME r[1] \in {"revalidates", "revocation", "snapshot"}
      PROVE  Flagged(r, diff) <=> "resumed_workflow_no_longer_admissible" \in UnsafeNow(diff)
  BY <1>2, Zenon DEF Flagged
<1>3. ASSUME r[1] \in {"role", "identity"}
      PROVE  Flagged(r, diff) <=> "identity_continuity_broken" \in UnsafeNow(diff)
  BY <1>3, Zenon DEF Flagged
<1>4. ASSUME r[1] = "evidence"
      PROVE  Flagged(r, diff) <=> ReplayPosture(diff) \in {"invalidated", "revalidation_required"}
  BY <1>4, Zenon DEF Flagged
<1>5. ASSUME r[1] = "escalation"
      PROVE  Flagged(r, diff) <=> \E change \in diff : change.path = <<"escalation", "threshold">>
  BY <1>5, Zenon DEF Flagged
<1> QED
  BY <1>1, <1>2, <1>3, <1>4, <1>5

\* What a requirement says of the contract.
Required(r, m) ==
  \/ \E n \in 1 .. Number(Compile(m).approval.count) : r = <<"approvals", n>>
  \/ \E role \in Compile(m).approval.roles : r = <<"role", role>>
  \/ \E o \in CommitObligations(m) : r = <<"evidence", o>>
  \/ /\ r = <<"independence", TRUE>>
     /\ Compile(m).approval.independence
  \/ /\ r = <<"noSelfApproval", TRUE>>
     /\ Compile(m).approval.noSelfApproval
  \/ /\ r = <<"attested", TRUE>>
     /\ Compile(m).approval.attested
  \/ /\ r = <<"revalidates", TRUE>>
     /\ Compile(m).continuity.revalidates
  \/ /\ r = <<"revocation", TRUE>>
     /\ Compile(m).continuity.revocation
  \/ /\ r = <<"snapshot", TRUE>>
     /\ Compile(m).continuity.snapshot # None
  \/ /\ r = <<"identity", TRUE>>
     /\ Compile(m).continuity.identity
  \/ /\ r = <<"escalation", TRUE>>
     /\ Compile(m).threshold # None

LEMMA RequiredIs ==
  ASSUME NEW m, NEW r
  PROVE  r \in Requirements(m) <=> Required(r, m)
<1> DEFINE approval == Compile(m).approval
           continuity == Compile(m).continuity
           threshold == Compile(m).threshold
           flags == [independence |-> approval.independence, noSelfApproval |-> approval.noSelfApproval,
                     attested |-> approval.attested, revalidates |-> continuity.revalidates,
                     revocation |-> continuity.revocation, snapshot |-> continuity.snapshot # None,
                     identity |-> continuity.identity, escalation |-> threshold # None]
           raised == {g \in DOMAIN flags : flags[g]}
<1>1. Requirements(m) =
        {<<"approvals", n>> : n \in 1 .. Number(approval.count)}
          \cup {<<"role", role>> : role \in approval.roles}
          \cup {<<"evidence", o>> : o \in CommitObligations(m)}
          \cup {<<f, TRUE>> : f \in raised}
  BY DEF Requirements
<1>2. \A f : f \in raised <=>
        \/ f = "independence" /\ approval.independence
        \/ f = "noSelfApproval" /\ approval.noSelfApproval
        \/ f = "attested" /\ approval.attested
        \/ f = "revalidates" /\ continuity.revalidates
        \/ f = "revocation" /\ continuity.revocation
        \/ f = "snapshot" /\ continuity.snapshot # None
        \/ f = "identity" /\ continuity.identity
        \/ f = "escalation" /\ threshold # None
  <2>1. \A f \in raised : f \in {"independence", "noSelfApproval", "attested",
                                "revalidates", "revocation", "snapshot", "identity", "escalation"}
    OBVIOUS
  <2>2. /\ "independence" \in raised <=> approval.independence
        /\ "noSelfApproval" \in raised <=> approval.noSelfApproval
        /\ "attested" \in raised <=> approval.attested
    OBVIOUS
  <2>3. /\ "revalidates" \in raised <=> continuity.revalidates
        /\ "revocation" \in raised <=> continuity.revocation
        /\ "snapshot" \in raised <=> continuity.snapshot # None
    OBVIOUS
  <2>4. /\ "identity" \in raised <=> continuity.identity
        /\ "escalation" \in raised <=> threshold # None
    OBVIOUS
  <2> HIDE DEF approval, continuity, threshold, raised
  <2> QED
    BY <2>1, <2>2, <2>3, <2>4
<1> HIDE DEF approval, continuity, threshold, raised
<1>3. (\E f \in raised : r = <<f, TRUE>>) <=>
        \/ r = <<"independence", TRUE>> /\ approval.independence
        \/ r = <<"noSelfApproval", TRUE>> /\ approval.noSelfApproval
        \/ r = <<"attested", TRUE>> /\ approval.attested
        \/ r = <<"revalidates", TRUE>> /\ continuity.revalidates
        \/ r = <<"revocation", TRUE>> /\ continuity.revocation
        \/ r = <<"snapshot", TRUE>> /\ continuity.snapshot # None
        \/ r = <<"identity", TRUE>> /\ continuity.identity
        \/ r = <<"escalation", TRUE>> /\ threshold # None
  BY <1>2, Zenon
<1>4. r \in Requirements(m) <=>
        \/ \E n \in 1 .. Number(approval.count) : r = <<"approvals", n>>
        \/ \E role \in approval.roles : r = <<"role", role>>
        \/ \E o \in CommitObligations(m) : r = <<"evidence", o>>
        \/ \E f \in raised : r = <<f, TRUE>>
  BY <1>1, Zenon
<1> QED
  BY <1>3, <1>4, Zenon DEF Required, approval, continuity, threshold

LEMMA LostApprovals ==
  ASSUME NEW p, NEW c, Shape(p), Shape(c), NEW n \in 1 .. Number(Compile(p).approval.count),
         n \notin 1 .. Number(Compile(c).approval.count)
  PROVE  "approval_requirements_weakened" \in UnsafeNow(Diff(p, c))
<1> DEFINE before == ApprovalCount_(p.authority)
           after == ApprovalCount_(c.authority)
<1>1. Compile(p).approval.count = before /\ Compile(c).approval.count = after
  BY CompiledApproval DEF Shape
<1>2. Number(before) \in Nat /\ Number(after) \in Nat
  BY DEF Shape, NumberShape
<1> HIDE DEF before, after
<1>3. Number(before) > Number(after) /\ before # after
  BY <1>1, <1>2
<1>4. PICK change \in ApprovalChanges(p.authority, c.authority) :
        change.class = IF Number(after) > Number(before)
                       THEN "approval_strengthened" ELSE "approval_weakened"
  BY <1>3, CountChanged DEF before, after
<1>5. change.class = "approval_weakened"
  BY <1>2, <1>3, <1>4
<1> QED
  BY <1>4, <1>5, DiffOf, UnsafeByChange

\* What an approval flag asks for and the next contract does not.
LEMMA LostFlag ==
  ASSUME NEW p, NEW c, Shape(p), Shape(c), NEW f \in ApprovalFields,
         p.authority.chain # None, p.authority.chain[f],
         c.authority.chain = None \/ ~ c.authority.chain[f]
  PROVE  "approval_requirements_weakened" \in UnsafeNow(Diff(p, c))
<1> DEFINE a == p.authority
           b == c.authority
<1>1. /\ a.chain[f] \in BOOLEAN
      /\ b.chain # None => b.chain[f] \in BOOLEAN
  BY DEF Shape, ChainShape, ApprovalFields
<1>2. Field(a.chain, f) = TRUE
  BY <1>1 DEF Field
<1>3. Field(b.chain, f) # TRUE
  BY <1>1, NoneAssumption DEF Field
<1>4. PICK change \in ApprovalChanges(a, b) :
        change.class = IF Field(b.chain, f) = TRUE
                       THEN "approval_strengthened" ELSE "approval_weakened"
  BY <1>2, <1>3, FlagChanged
<1>5. change.class = "approval_weakened"
  BY <1>3, <1>4
<1> QED
  BY <1>4, <1>5, DiffOf, UnsafeByChange

LEMMA LostRole ==
  ASSUME NEW p, NEW c, Shape(p), Shape(c), NEW role \in Compile(p).approval.roles,
         role \notin Compile(c).approval.roles
  PROVE  "identity_continuity_broken" \in UnsafeNow(Diff(p, c))
<1>1. /\ Compile(p).approval.roles = ApprovalRoles(p.authority)
      /\ Compile(c).approval.roles = ApprovalRoles(c.authority)
  BY RolesAgree DEF Shape
<1>2. PICK change \in ApprovalChanges(p.authority, c.authority) : change.class = "identity_change"
  BY <1>1, RolesChanged
<1> QED
  BY <1>2, DiffOf, UnsafeByChange

LEMMA LostIdentity ==
  ASSUME NEW p, NEW c, Shape(p), Shape(c), p.authority.identity # None, c.authority.identity = None
  PROVE  "identity_continuity_broken" \in UnsafeNow(Diff(p, c))
<1> DEFINE a == p.authority
           b == c.authority
           change == Change("identity_change", <<"identity", "continuity">>, {}, TRUE)
<1>1. /\ a.identity.required = TRUE
      /\ Field(b.actor, "continuity") # TRUE
  BY DEF Shape, IdentityShape
<1>2. IdentityField(a, "continuity") # IdentityField(b, "continuity")
  BY <1>1 DEF IdentityField
<1>3. change \in IdentityChanges(a, b)
  BY <1>2 DEF IdentityChanges
<1>4. change.class = "identity_change"
  BY DEF Change
<1> HIDE DEF change
<1> QED
  BY <1>3, <1>4, DiffOf, UnsafeByChange

\* A threshold that is gone is reported, though as a control that was tightened.
LEMMA LostThreshold ==
  ASSUME NEW p, NEW c, p.authority.threshold # c.authority.threshold
  PROVE  \E change \in Diff(p, c) : change.path = <<"escalation", "threshold">>
<1>1. \E change \in EscalationChanges(p.authority, c.authority) :
        change.path = <<"escalation", "threshold">>
  BY DEF EscalationChanges, Change
<1> QED
  BY <1>1, DiffOf

LEMMA LostContinuity ==
  ASSUME NEW p, NEW c,
         \/ p.authority.revalidates # c.authority.revalidates
         \/ p.authority.revocation # c.authority.revocation
         \/ p.authority.snapshot # c.authority.snapshot
  PROVE  /\ "resumed_workflow_no_longer_admissible" \in UnsafeNow(Diff(p, c))
         /\ ReplayPosture(Diff(p, c)) \in {"invalidated", "revalidation_required"}
<1>1. PICK change \in ContinuityChanges(p.authority, c.authority) : change.class = "continuity_change"
  BY ContinuityChanged
<1>2. change \in Diff(p, c)
  BY <1>1, DiffOf
<1> QED
  BY <1>1, <1>2, UnsafeByChange, ReplayByChange

\* Evidence is lost with a capability, with the execution context or with the
\* snapshot that asked for it.
LEMMA LostEvidence ==
  ASSUME NEW p, NEW c, Shape(p), Shape(c), NEW o \in CommitObligations(p),
         o \notin CommitObligations(c)
  PROVE  ReplayPosture(Diff(p, c)) \in {"invalidated", "revalidation_required"}
<1> DEFINE a == p.authority
           b == c.authority
<1>1. \/ o \in Evidence(p) /\ o \notin Evidence(c)
      \/ /\ a.execution # None /\ a.execution.replay
         /\ b.execution = None \/ ~ b.execution.replay
      \/ a.snapshot # None /\ b.snapshot = None
  BY DEF CommitObligations, CompileObligations
<1>2. CASE o \in Evidence(p) /\ o \notin Evidence(c)
  <2> DEFINE change == Change("replay_change", <<"replay", "obligations">>,
                              Evidence(p) \ Evidence(c), Evidence(c) \ Evidence(p) # {})
  <2>1. change \in ReplayChanges(p, c)
    BY <1>2 DEF ReplayChanges
  <2>2. EvidenceRemoved(change)
    BY <1>2 DEF EvidenceRemoved, Change
  <2> HIDE DEF change
  <2>3. change \in Diff(p, c)
    BY <2>1, DiffOf
  <2> QED
    BY <2>2, <2>3, ReplayByChange
<1>3. CASE /\ a.execution # None /\ a.execution.replay
           /\ b.execution = None \/ ~ b.execution.replay
  <2>1. /\ a.execution.replay \in BOOLEAN
        /\ b.execution # None => b.execution.replay \in BOOLEAN
    BY <1>3 DEF Shape, ExecutionShape
  <2>2. Field(a.execution, "replay") = TRUE
    BY <1>3, <2>1 DEF Field
  <2>3. Field(b.execution, "replay") # TRUE
    BY <1>3, <2>1, NoneAssumption DEF Field
  <2>4. "replay" \in ExecutionFields
    BY DEF ExecutionFields
  <2>5. PICK change \in ExecutionBoundaryChanges(a, b) :
          /\ change.path = <<"execution", "replay">>
          /\ "replay" # "context" => change.class = "continuity_change"
    BY <2>2, <2>3, <2>4, ExecutionChanged
  <2>6. change \in Diff(p, c)
    BY <2>5, DiffOf
  <2> QED
    BY <2>5, <2>6, ReplayByChange
<1>4. CASE a.snapshot # None /\ b.snapshot = None
  BY <1>4, LostContinuity
<1> QED
  BY <1>1, <1>2, <1>3, <1>4

LEMMA LostIsFlagged ==
  ASSUME NEW p, NEW c, Shape(p), Shape(c), NEW r \in Requirements(p) \ Requirements(c)
  PROVE  Flagged(r, Diff(p, c))
<1> DEFINE diff == Diff(p, c)
           before == Compile(p)
           after == Compile(c)
<1>1. Required(r, p) /\ ~ Required(r, c)
  BY RequiredIs
<1>2. ASSUME NEW n \in 1 .. Number(before.approval.count), r = <<"approvals", n>>
      PROVE  Flagged(r, diff)
  <2>1. n \notin 1 .. Number(after.approval.count)
    BY <1>1, <1>2 DEF Required
  <2>2. "approval_requirements_weakened" \in UnsafeNow(diff)
    BY <2>1, LostApprovals
  <2>3. r[1] = "approvals"
    BY <1>2
  <2> QED
    BY <2>2, <2>3, FlaggedBy
<1>3. ASSUME NEW role \in before.approval.roles, r = <<"role", role>>
      PROVE  Flagged(r, diff)
  <2>1. role \notin after.approval.roles
    BY <1>1, <1>3 DEF Required
  <2>2. "identity_continuity_broken" \in UnsafeNow(diff)
    BY <2>1, LostRole
  <2>3. r[1] = "role"
    BY <1>3
  <2> QED
    BY <2>2, <2>3, FlaggedBy
<1>4. ASSUME NEW o \in CommitObligations(p), r = <<"evidence", o>>
      PROVE  Flagged(r, diff)
  <2>1. o \notin CommitObligations(c)
    BY <1>1, <1>4 DEF Required
  <2>2. ReplayPosture(diff) \in {"invalidated", "revalidation_required"}
    BY <2>1, LostEvidence
  <2>3. r[1] = "evidence"
    BY <1>4
  <2> QED
    BY <2>2, <2>3, FlaggedBy
<1>5. ASSUME NEW f \in ApprovalFields, r = <<f, TRUE>>
      PROVE  Flagged(r, diff)
  <2>1. /\ f = "independence" => before.approval.independence /\ ~ after.approval.independence
        /\ f = "noSelfApproval" => before.approval.noSelfApproval /\ ~ after.approval.noSelfApproval
        /\ f = "attested" => before.approval.attested /\ ~ after.approval.attested
    BY <1>1, <1>5 DEF Required, ApprovalFields
  <2>2. /\ p.authority.chain # None /\ p.authority.chain[f]
        /\ c.authority.chain = None \/ ~ c.authority.chain[f]
    BY <2>1, CompiledApproval DEF ApprovalFields, Shape
  <2>3. "approval_requirements_weakened" \in UnsafeNow(diff)
    BY <2>2, LostFlag
  <2>4. r[1] \in {"approvals", "independence", "noSelfApproval", "attested"}
    BY <1>5 DEF ApprovalFields
  <2> QED
    BY <2>3, <2>4, FlaggedBy
<1>6. ASSUME NEW f \in {"revalidates", "revocation", "snapshot"}, r = <<f, TRUE>>
      PROVE  Flagged(r, diff)
  <2>1. /\ f = "revalidates" => before.continuity.revalidates /\ ~ after.continuity.revalidates
        /\ f = "revocation" => before.continuity.revocation /\ ~ after.continuity.revocation
        /\ f = "snapshot" => before.continuity.snapshot # None /\ after.continuity.snapshot = None
    BY <1>1, <1>6 DEF Required
  <2>2. /\ f = "revalidates" => p.authority.revalidates # c.authority.revalidates
        /\ f = "revocation" => p.authority.revocation # c.authority.revocation
        /\ f = "snapshot" => p.authority.snapshot # c.authority.snapshot
    BY <2>1, CompiledContinuity
  <2>3. "resumed_workflow_no_longer_admissible" \in UnsafeNow(diff)
    BY <2>2, LostContinuity
  <2>4. r[1] \in {"revalidates", "revocation", "snapshot"}
    BY <1>6
  <2> QED
    BY <2>3, <2>4, FlaggedBy
<1>7. ASSUME r = <<"identity", TRUE>>
      PROVE  Flagged(r, diff)
  <2>1. before.continuity.identity /\ ~ after.continuity.identity
    BY <1>1, <1>7 DEF Required
  <2>2. p.authority.identity # None /\ c.authority.identity = None
    BY <2>1, CompiledContinuity
  <2>3. "identity_continuity_broken" \in UnsafeNow(diff)
    BY <2>2, LostIdentity
  <2>4. r[1] = "identity"
    BY <1>7
  <2> QED
    BY <2>3, <2>4, FlaggedBy
<1>8. ASSUME r = <<"escalation", TRUE>>
      PROVE  Flagged(r, diff)
  <2>1. before.threshold # None /\ after.threshold = None
    BY <1>1, <1>8 DEF Required
  <2>2. p.authority.threshold # c.authority.threshold
    BY <2>1, CompiledContinuity
  <2>3. \E change \in diff : change.path = <<"escalation", "threshold">>
    BY <2>2, LostThreshold
  <2>4. r[1] = "escalation"
    BY <1>8
  <2> QED
    BY <2>3, <2>4, FlaggedBy
<1> QED
  BY <1>1, <1>2, <1>3, <1>4, <1>5, <1>6, <1>7, <1>8 DEF Required, ApprovalFields

\* What the next version no longer requires is flagged, of all that
\* Requirements names: the compiler and the diff read a meaning each by its
\* own rules, but none of it falls between them.
THEOREM LostRequirementsFlagged == Spec => []LostRequirementIsFlagged
<1>1. IInv => LostRequirementIsFlagged
  <2> SUFFICES ASSUME IInv, Committed, Newest > 1,
                      NEW r \in Requirements(versions[Newest - 1].meaning)
                                  \ Requirements(versions[Newest].meaning)
               PROVE  Flagged(r, StepDiff(Newest))
    BY DEF LostRequirementIsFlagged
  <2>1. Shape(versions[Newest - 1].meaning)
    BY EarlierIs
  <2>2. Shape(versions[Newest].meaning)
    BY NewestIs, VersionShape
  <2> QED
    BY <2>1, <2>2, LostIsFlagged DEF StepDiff
<1> QED
  BY <1>1, Invariance, PTL

-----------------------------------------------------------------------------
(* A version in between.                                                   *)

\* The steps report a change: on its path, whatever it loses, and with its
\* class unless it is one of scope.
Reported(change, steps) ==
  LET same == {s \in steps : s.path = change.path} IN
  /\ same # {}
  /\ change.lost \subseteq UNION {s.lost : s \in same}
  /\ change.path[1] # "scope" => change.class \in {s.class : s \in same}

LEMMA ReportedBy ==
  ASSUME NEW steps, NEW change, NEW s \in steps,
         s.path = change.path, s.class = change.class, change.lost = {}
  PROVE  Reported(change, steps)
BY DEF Reported

LEMMA ReportedMore ==
  ASSUME NEW steps, NEW more, steps \subseteq more, NEW change, Reported(change, steps)
  PROVE  Reported(change, more)
<1> DEFINE same == {s \in steps : s.path = change.path}
           wider == {s \in more : s.path = change.path}
<1>1. same \subseteq wider
  OBVIOUS
<1>2. /\ same # {}
      /\ change.lost \subseteq UNION {s.lost : s \in same}
      /\ change.path[1] # "scope" => change.class \in {s.class : s \in same}
  BY DEF Reported
<1> HIDE DEF same, wider
<1>3. /\ wider # {}
      /\ change.lost \subseteq UNION {s.lost : s \in wider}
      /\ change.path[1] # "scope" => change.class \in {s.class : s \in wider}
  BY <1>1, <1>2
<1> QED
  BY <1>3 DEF Reported, wider

LEMMA CapabilitySteps ==
  ASSUME NEW p, NEW q, NEW r, NEW change \in CapabilityChanges(p, r)
  PROVE  Reported(change, CapabilityChanges(p, q) \cup CapabilityChanges(q, r))
<1> DEFINE steps == CapabilityChanges(p, q) \cup CapabilityChanges(q, r)
           Obliges(c, id) == \/ c.capabilities[id].requirements # {}
                             \/ /\ c.capabilities[id].continuity # None
                                /\ c.authority.revalidates \/ c.authority.snapshot # None
                             \/ c.capabilities[id].evidence # {}
           Added(c, id) == Change("capability_added", <<"capabilities", id>>, {}, Obliges(c, id))
           Removed(id) == Change("capability_removed", <<"capabilities", id>>, {}, FALSE)
<1>1. \A x, y : CapabilityChanges(x, y) =
        {Added(y, id) : id \in DOMAIN y.capabilities \ DOMAIN x.capabilities}
          \cup {Removed(id) : id \in DOMAIN x.capabilities \ DOMAIN y.capabilities}
  BY DEF CapabilityChanges
<1>2. \A c, id : /\ Added(c, id).class = "capability_added" /\ Added(c, id).path = <<"capabilities", id>>
                 /\ Added(c, id).lost = {}
  BY DEF Change
<1>3. \A id : /\ Removed(id).class = "capability_removed" /\ Removed(id).path = <<"capabilities", id>>
              /\ Removed(id).lost = {}
  BY DEF Change
<1> HIDE DEF Added, Removed
<1>4. ASSUME NEW id \in DOMAIN r.capabilities \ DOMAIN p.capabilities, change = Added(r, id)
      PROVE  Reported(change, steps)
  <2>1. CASE id \in DOMAIN q.capabilities
    <3>1. Added(q, id) \in steps
      BY <1>1, <1>4, <2>1
    <3> HIDE DEF steps
    <3> QED
      BY <1>2, <1>4, <3>1, ReportedBy
  <2>2. CASE id \notin DOMAIN q.capabilities
    <3>1. Added(r, id) \in steps
      BY <1>1, <1>4, <2>2
    <3> HIDE DEF steps
    <3> QED
      BY <1>2, <1>4, <3>1, ReportedBy
  <2> QED
    BY <2>1, <2>2
<1>5. ASSUME NEW id \in DOMAIN p.capabilities \ DOMAIN r.capabilities, change = Removed(id)
      PROVE  Reported(change, steps)
  <2>1. Removed(id) \in steps
    BY <1>1, <1>5
  <2> HIDE DEF steps
  <2> QED
    BY <1>3, <1>5, <2>1, ReportedBy
<1> QED
  BY <1>1, <1>4, <1>5

\* What went one way from the first to the third went that way in some step.
LEMMA CountSteps ==
  ASSUME NEW p, NEW q, NEW r, ApprovalCount_(p) # ApprovalCount_(r), NEW change,
         change = ApprovalChange("count", Number(ApprovalCount_(r)) > Number(ApprovalCount_(p))),
         Number(ApprovalCount_(p)) \in Nat, Number(ApprovalCount_(q)) \in Nat,
         Number(ApprovalCount_(r)) \in Nat
  PROVE  Reported(change, ApprovalChanges(p, q) \cup ApprovalChanges(q, r))
<1> DEFINE steps == ApprovalChanges(p, q) \cup ApprovalChanges(q, r)
           C(x, y) == ApprovalChange("count", Number(ApprovalCount_(y)) > Number(ApprovalCount_(x)))
           Class(x, y) == IF Number(ApprovalCount_(y)) > Number(ApprovalCount_(x))
                          THEN "approval_strengthened" ELSE "approval_weakened"
<1>1. \A x, y : /\ C(x, y).class = Class(x, y)
                /\ C(x, y).path = <<"approval", "count">> /\ C(x, y).lost = {}
  BY DEF ApprovalChange, Change
<1>2. \A x, y : ApprovalCount_(x) # ApprovalCount_(y) => C(x, y) \in ApprovalChanges(x, y)
  BY DEF ApprovalChanges
<1>3. \/ ApprovalCount_(p) # ApprovalCount_(q) /\ Class(p, q) = Class(p, r)
      \/ ApprovalCount_(q) # ApprovalCount_(r) /\ Class(q, r) = Class(p, r)
  OBVIOUS
<1>4. change = C(p, r)
  OBVIOUS
<1>5. \E s \in steps : s.class = Class(p, r) /\ s.path = <<"approval", "count">>
  <2> HIDE DEF C, Class
  <2>1. CASE ApprovalCount_(p) # ApprovalCount_(q) /\ Class(p, q) = Class(p, r)
    BY <1>1, <1>2, <2>1
  <2>2. CASE ApprovalCount_(q) # ApprovalCount_(r) /\ Class(q, r) = Class(p, r)
    BY <1>1, <1>2, <2>2
  <2> QED
    BY <1>3, <2>1, <2>2
<1> HIDE DEF steps, C, Class
<1> QED
  BY <1>1, <1>4, <1>5, ReportedBy DEF steps

LEMMA FlagSteps ==
  ASSUME NEW p, NEW q, NEW r, NEW f \in ApprovalFields, Field(p.chain, f) # Field(r.chain, f), NEW change,
         change = ApprovalChange(f, Field(r.chain, f) = TRUE)
  PROVE  Reported(change, ApprovalChanges(p, q) \cup ApprovalChanges(q, r))
<1> DEFINE steps == ApprovalChanges(p, q) \cup ApprovalChanges(q, r)
           C(x, y) == ApprovalChange(f, Field(y.chain, f) = TRUE)
           Class(x, y) == IF Field(y.chain, f) = TRUE THEN "approval_strengthened" ELSE "approval_weakened"
<1>1. \A x, y : /\ C(x, y).class = Class(x, y)
                /\ C(x, y).path = <<"approval", f>> /\ C(x, y).lost = {}
  BY DEF ApprovalChange, Change
<1>2. \A x, y : Field(x.chain, f) # Field(y.chain, f) => C(x, y) \in ApprovalChanges(x, y)
  BY DEF ApprovalChanges
<1>3. \/ Field(p.chain, f) # Field(q.chain, f) /\ Class(p, q) = Class(p, r)
      \/ Field(q.chain, f) # Field(r.chain, f) /\ Class(q, r) = Class(p, r)
  OBVIOUS
<1>4. change = C(p, r)
  OBVIOUS
<1>5. \E s \in steps : s.class = Class(p, r) /\ s.path = <<"approval", f>>
  <2> HIDE DEF C, Class
  <2>1. CASE Field(p.chain, f) # Field(q.chain, f) /\ Class(p, q) = Class(p, r)
    BY <1>1, <1>2, <2>1
  <2>2. CASE Field(q.chain, f) # Field(r.chain, f) /\ Class(q, r) = Class(p, r)
    BY <1>1, <1>2, <2>2
  <2> QED
    BY <1>3, <2>1, <2>2
<1> HIDE DEF steps, C, Class
<1> QED
  BY <1>1, <1>4, <1>5, ReportedBy DEF steps

LEMMA ApprovalSteps ==
  ASSUME NEW p, NEW q, NEW r, NumberShape(p), NumberShape(q), NumberShape(r),
         NEW change \in ApprovalChanges(p, r)
  PROVE  Reported(change, ApprovalChanges(p, q) \cup ApprovalChanges(q, r))
<1> DEFINE steps == ApprovalChanges(p, q) \cup ApprovalChanges(q, r)
           roles == Change("identity_change", <<"approval", "roles">>, {}, TRUE)
<1>1. \/ /\ ApprovalCount_(p) # ApprovalCount_(r)
         /\ change = ApprovalChange("count", Number(ApprovalCount_(r)) > Number(ApprovalCount_(p)))
      \/ ApprovalRoles(p) # ApprovalRoles(r) /\ change = roles
      \/ \E f \in ApprovalFields : /\ Field(p.chain, f) # Field(r.chain, f)
                                   /\ change = ApprovalChange(f, Field(r.chain, f) = TRUE)
  BY DEF ApprovalChanges
<1>2. CASE /\ ApprovalCount_(p) # ApprovalCount_(r)
           /\ change = ApprovalChange("count", Number(ApprovalCount_(r)) > Number(ApprovalCount_(p)))
  BY <1>2, CountSteps DEF NumberShape
<1>3. CASE ApprovalRoles(p) # ApprovalRoles(r) /\ change = roles
  <2>1. roles \in steps
    BY <1>3 DEF ApprovalChanges
  <2>2. change.lost = {}
    BY <1>3 DEF Change
  <2> HIDE DEF steps, roles
  <2>3. Reported(change, steps)
    BY <1>3, <2>1, <2>2, ReportedBy
  <2> QED
    BY <2>3 DEF steps
<1>4. CASE \E f \in ApprovalFields : /\ Field(p.chain, f) # Field(r.chain, f)
                                     /\ change = ApprovalChange(f, Field(r.chain, f) = TRUE)
  BY <1>4, FlagSteps
<1> QED
  BY <1>1, <1>2, <1>3, <1>4

LEMMA AiSteps ==
  ASSUME NEW p, NEW q, NEW r, NEW change \in AiAutonomyChanges(p, r)
  PROVE  Reported(change, AiAutonomyChanges(p, q) \cup AiAutonomyChanges(q, r))
<1> DEFINE steps == AiAutonomyChanges(p, q) \cup AiAutonomyChanges(q, r)
           Expanded(x, y) == AiAutonomyRank(AiPosture(y)) > AiAutonomyRank(AiPosture(x))
           Class(x, y) == IF Expanded(x, y) THEN "relaxed_control" ELSE "tightened_control"
           C(x, y) == Change(Class(x, y), <<"ai", "autonomy">>, {}, Expanded(x, y))
<1>1. \A x, y : /\ C(x, y).class = Class(x, y)
                /\ C(x, y).path = <<"ai", "autonomy">> /\ C(x, y).lost = {}
  BY DEF Change
<1>2. \A x, y : AiAutonomyChanges(x, y) = IF AiPosture(x) = AiPosture(y) THEN {} ELSE {C(x, y)}
  BY DEF AiAutonomyChanges
<1>3. AiPosture(p) # AiPosture(r) /\ change = C(p, r)
  BY <1>2
<1>4. \/ AiPosture(p) # AiPosture(q) /\ Class(p, q) = Class(p, r)
      \/ AiPosture(q) # AiPosture(r) /\ Class(q, r) = Class(p, r)
  BY <1>3 DEF AiAutonomyRank
<1>5. \E s \in steps : s.class = Class(p, r) /\ s.path = <<"ai", "autonomy">>
  <2> HIDE DEF C, Class
  <2>1. CASE AiPosture(p) # AiPosture(q) /\ Class(p, q) = Class(p, r)
    BY <1>1, <1>2, <2>1
  <2>2. CASE AiPosture(q) # AiPosture(r) /\ Class(q, r) = Class(p, r)
    BY <1>1, <1>2, <2>2
  <2> QED
    BY <1>4, <2>1, <2>2
<1> HIDE DEF steps, C, Class
<1> QED
  BY <1>1, <1>3, <1>5, ReportedBy DEF steps

LEMMA ContinuitySteps ==
  ASSUME NEW p, NEW q, NEW r, NEW change \in ContinuityChanges(p, r)
  PROVE  Reported(change, ContinuityChanges(p, q) \cup ContinuityChanges(q, r))
<1> DEFINE steps == ContinuityChanges(p, q) \cup ContinuityChanges(q, r)
           C(y, f) == Change("continuity_change", <<"continuity", f>>, {}, y[f])
           S(y) == Change("continuity_change", <<"continuity", "snapshot">>, {}, y.snapshot # None)
<1>1. \A y, f : /\ C(y, f).class = "continuity_change"
                /\ C(y, f).path = <<"continuity", f>> /\ C(y, f).lost = {}
  BY DEF Change
<1>2. \A y : /\ S(y).class = "continuity_change"
             /\ S(y).path = <<"continuity", "snapshot">> /\ S(y).lost = {}
  BY DEF Change
<1>3. \A x, y : ContinuityChanges(x, y) =
        {C(y, f) : f \in {g \in {"revalidates", "revocation"} : x[g] # y[g]}}
          \cup (IF x.snapshot = y.snapshot THEN {} ELSE {S(y)})
  BY DEF ContinuityChanges
<1> HIDE DEF C, S
<1>4. \/ \E f \in {"revalidates", "revocation"} : p[f] # r[f] /\ change = C(r, f)
      \/ p.snapshot # r.snapshot /\ change = S(r)
  BY <1>3
<1>5. ASSUME NEW f \in {"revalidates", "revocation"}, p[f] # r[f], change = C(r, f)
      PROVE  \E s \in steps : s.class = change.class /\ s.path = change.path
  <2>1. CASE p[f] # q[f]
    <3>1. C(q, f) \in steps
      BY <1>3, <2>1
    <3> QED
      BY <1>1, <1>5, <3>1
  <2>2. CASE q[f] # r[f]
    <3>1. C(r, f) \in steps
      BY <1>3, <2>2
    <3> QED
      BY <1>5, <3>1
  <2> QED
    BY <1>5, <2>1, <2>2
<1>6. ASSUME p.snapshot # r.snapshot, change = S(r)
      PROVE  \E s \in steps : s.class = change.class /\ s.path = change.path
  <2>1. CASE p.snapshot # q.snapshot
    <3>1. S(q) \in steps
      BY <1>3, <2>1
    <3> QED
      BY <1>2, <1>6, <3>1
  <2>2. CASE q.snapshot # r.snapshot
    <3>1. S(r) \in steps
      BY <1>3, <2>2
    <3> QED
      BY <1>6, <3>1
  <2> QED
    BY <1>6, <2>1, <2>2
<1>7. change.lost = {}
  BY <1>1, <1>2, <1>4
<1>8. \E s \in steps : s.class = change.class /\ s.path = change.path
  BY <1>4, <1>5, <1>6
<1> HIDE DEF steps
<1> QED
  BY <1>7, <1>8, ReportedBy DEF steps

\* What is lost from the first to the third is lost in one of the two steps.
LEMMA ReplaySteps ==
  ASSUME NEW p, NEW q, NEW r, NEW change \in ReplayChanges(p, r)
  PROVE  Reported(change, ReplayChanges(p, q) \cup ReplayChanges(q, r))
<1> DEFINE steps == ReplayChanges(p, q) \cup ReplayChanges(q, r)
           C(x, y) == Change("replay_change", <<"replay", "obligations">>,
                             Evidence(x) \ Evidence(y), Evidence(y) \ Evidence(x) # {})
           same == {s \in steps : s.path = change.path}
<1>1. \A x, y : /\ C(x, y).class = "replay_change" /\ C(x, y).path = <<"replay", "obligations">>
                /\ C(x, y).lost = Evidence(x) \ Evidence(y)
  BY DEF Change
<1>2. \A x, y : ReplayChanges(x, y) = IF Evidence(x) = Evidence(y) THEN {} ELSE {C(x, y)}
  BY DEF ReplayChanges
<1> HIDE DEF C
<1>3. Evidence(p) # Evidence(r) /\ change = C(p, r)
  BY <1>2
<1>4. \A s \in steps : s.path = change.path /\ s.class = change.class
  BY <1>1, <1>2, <1>3
<1>5. same = steps
  BY <1>4
<1>6. steps # {}
  BY <1>2, <1>3
<1>7. ASSUME NEW o \in change.lost
      PROVE  \E s \in steps : o \in s.lost
  <2>1. o \in Evidence(p) /\ o \notin Evidence(r)
    BY <1>1, <1>3, <1>7
  <2>2. CASE o \in Evidence(q)
    <3>1. C(q, r) \in steps
      BY <1>2, <2>1, <2>2
    <3> QED
      BY <1>1, <2>1, <2>2, <3>1
  <2>3. CASE o \notin Evidence(q)
    <3>1. C(p, q) \in steps
      BY <1>2, <2>1, <2>3
    <3> QED
      BY <1>1, <2>1, <2>3, <3>1
  <2> QED
    BY <2>2, <2>3
<1> HIDE DEF same, steps
<1>8. /\ same # {}
      /\ change.lost \subseteq UNION {s.lost : s \in same}
      /\ change.path[1] # "scope" => change.class \in {s.class : s \in same}
  BY <1>4, <1>5, <1>6, <1>7
<1> QED
  BY <1>8 DEF Reported, same, steps

LEMMA EscalationSteps ==
  ASSUME NEW p, NEW q, NEW r, NumberShape(p), NumberShape(q), NumberShape(r),
         NEW change \in EscalationChanges(p, r)
  PROVE  Reported(change, EscalationChanges(p, q) \cup EscalationChanges(q, r))
<1> DEFINE steps == EscalationChanges(p, q) \cup EscalationChanges(q, r)
           Class(x, y) == IF Number(y.threshold) < Number(x.threshold)
                          THEN "tightened_control" ELSE "relaxed_control"
           C(x, y) == Change(Class(x, y), <<"escalation", "threshold">>, {}, y.threshold # None)
<1>1. \A x, y : /\ C(x, y).class = Class(x, y)
                /\ C(x, y).path = <<"escalation", "threshold">> /\ C(x, y).lost = {}
  BY DEF Change
<1>2. \A x, y : EscalationChanges(x, y) = IF x.threshold = y.threshold THEN {} ELSE {C(x, y)}
  BY DEF EscalationChanges
<1>3. p.threshold # r.threshold /\ change = C(p, r)
  BY <1>2
<1>4. \/ p.threshold # q.threshold /\ Class(p, q) = Class(p, r)
      \/ q.threshold # r.threshold /\ Class(q, r) = Class(p, r)
  BY <1>3 DEF NumberShape
<1>5. \E s \in steps : s.class = Class(p, r) /\ s.path = <<"escalation", "threshold">>
  <2> HIDE DEF C, Class
  <2>1. CASE p.threshold # q.threshold /\ Class(p, q) = Class(p, r)
    BY <1>1, <1>2, <2>1
  <2>2. CASE q.threshold # r.threshold /\ Class(q, r) = Class(p, r)
    BY <1>1, <1>2, <2>2
  <2> QED
    BY <1>4, <2>1, <2>2
<1> HIDE DEF steps, C, Class
<1> QED
  BY <1>1, <1>3, <1>5, ReportedBy DEF steps

LEMMA WindowSteps ==
  ASSUME NEW p, NEW q, NEW r, NumberShape(p), NumberShape(q), NumberShape(r),
         NEW change \in ValidityWindowChanges(p, r)
  PROVE  Reported(change, ValidityWindowChanges(p, q) \cup ValidityWindowChanges(q, r))
<1> DEFINE steps == ValidityWindowChanges(p, q) \cup ValidityWindowChanges(q, r)
           W(x) == Field(x.temporal, "window")
           Class(x, y) == IF Number(W(y)) > Number(W(x)) THEN "relaxed_control" ELSE "tightened_control"
           C(x, y) == Change(Class(x, y), <<"temporal", "validity_window">>, {}, TRUE)
<1>1. \A x, y : /\ C(x, y).class = Class(x, y)
                /\ C(x, y).path = <<"temporal", "validity_window">> /\ C(x, y).lost = {}
  BY DEF Change
<1>2. \A x, y : ValidityWindowChanges(x, y) = IF W(x) = W(y) THEN {} ELSE {C(x, y)}
  BY DEF ValidityWindowChanges
<1>3. W(p) # W(r) /\ change = C(p, r)
  BY <1>2
<1>4. \/ W(p) # W(q) /\ Class(p, q) = Class(p, r)
      \/ W(q) # W(r) /\ Class(q, r) = Class(p, r)
  BY <1>3 DEF NumberShape
<1>5. \E s \in steps : s.class = Class(p, r) /\ s.path = <<"temporal", "validity_window">>
  <2> HIDE DEF C, Class, W
  <2>1. CASE W(p) # W(q) /\ Class(p, q) = Class(p, r)
    BY <1>1, <1>2, <2>1
  <2>2. CASE W(q) # W(r) /\ Class(q, r) = Class(p, r)
    BY <1>1, <1>2, <2>2
  <2> QED
    BY <1>4, <2>1, <2>2
<1> HIDE DEF steps, C, Class
<1> QED
  BY <1>1, <1>3, <1>5, ReportedBy DEF steps

LEMMA ExecutionSteps ==
  ASSUME NEW p, NEW q, NEW r, NEW change \in ExecutionBoundaryChanges(p, r)
  PROVE  Reported(change, ExecutionBoundaryChanges(p, q) \cup ExecutionBoundaryChanges(q, r))
<1> DEFINE steps == ExecutionBoundaryChanges(p, q) \cup ExecutionBoundaryChanges(q, r)
           C(f) == Change(IF f = "context" THEN "scope_expansion" ELSE "continuity_change",
                          <<"execution", f>>, {}, TRUE)
<1>1. \A x, y : ExecutionBoundaryChanges(x, y) =
        {C(f) : f \in {g \in ExecutionFields : Field(x.execution, g) # Field(y.execution, g)}}
  BY DEF ExecutionBoundaryChanges, ExecutionFields
<1>2. \A f : C(f).lost = {}
  BY DEF Change
<1> HIDE DEF C
<1>3. PICK f \in ExecutionFields : Field(p.execution, f) # Field(r.execution, f) /\ change = C(f)
  BY <1>1
<1>4. change \in steps
  BY <1>1, <1>3
<1> HIDE DEF steps
<1>5. Reported(change, steps)
  BY <1>2, <1>3, <1>4, ReportedBy
<1> QED
  BY <1>5 DEF steps

LEMMA IdentitySteps ==
  ASSUME NEW p, NEW q, NEW r, NEW change \in IdentityChanges(p, r)
  PROVE  Reported(change, IdentityChanges(p, q) \cup IdentityChanges(q, r))
<1> DEFINE steps == IdentityChanges(p, q) \cup IdentityChanges(q, r)
           fields == {"actor", "type", "scope", "attested", "continuity"}
           C(f) == Change("identity_change", <<"identity", f>>, {}, TRUE)
<1>1. \A x, y : IdentityChanges(x, y) =
        {C(f) : f \in {g \in fields : IdentityField(x, g) # IdentityField(y, g)}}
  BY DEF IdentityChanges
<1>2. \A f : C(f).lost = {}
  BY DEF Change
<1> HIDE DEF C, fields
<1>3. PICK f \in fields : IdentityField(p, f) # IdentityField(r, f) /\ change = C(f)
  BY <1>1
<1>4. change \in steps
  BY <1>1, <1>3
<1> HIDE DEF steps
<1>5. Reported(change, steps)
  BY <1>2, <1>3, <1>4, ReportedBy
<1> QED
  BY <1>5 DEF steps

LEMMA DelegationSteps ==
  ASSUME NEW p, NEW q, NEW r, NEW change \in DelegationChanges(p, r)
  PROVE  Reported(change, DelegationChanges(p, q) \cup DelegationChanges(q, r))
<1> DEFINE steps == DelegationChanges(p, q) \cup DelegationChanges(q, r)
           C(x, y) == Change("delegation_change", <<"delegation", "posture">>, {},
                             DelegationRank(DiffDelegation(y)) > DelegationRank(DiffDelegation(x)))
<1>1. \A x, y : DelegationChanges(x, y) =
        IF DiffDelegation(x) = DiffDelegation(y) THEN {} ELSE {C(x, y)}
  BY DEF DelegationChanges
<1>2. \A x, y : /\ C(x, y).class = "delegation_change"
                /\ C(x, y).path = <<"delegation", "posture">> /\ C(x, y).lost = {}
  BY DEF Change
<1> HIDE DEF C
<1>3. DiffDelegation(p) # DiffDelegation(r) /\ change = C(p, r)
  BY <1>1
<1>4. C(p, q) \in steps \/ C(q, r) \in steps
  BY <1>1, <1>3
<1> HIDE DEF steps
<1>5. Reported(change, steps)
  BY <1>2, <1>3, <1>4, ReportedBy
<1> QED
  BY <1>5 DEF steps

\* The class of a change of scope depends on what is added as well as on what
\* is lost, so that only the path and what is lost are kept.
LEMMA ScopeSteps ==
  ASSUME NEW p, NEW q, NEW r, NEW change \in ScopeChanges(p, r)
  PROVE  Reported(change, ScopeChanges(p, q) \cup ScopeChanges(q, r))
<1> DEFINE steps == ScopeChanges(p, q) \cup ScopeChanges(q, r)
           fields == {"targets", "operations", "mutations", "mutation_targets"}
           Added(x, y, f) == ScopeField(y, f) \ ScopeField(x, f)
           Gone(x, y, f) == ScopeField(x, f) \ ScopeField(y, f)
           Class(x, y, f) == CASE Gone(x, y, f) = {} -> "scope_expansion"
                               [] Added(x, y, f) = {} -> "scope_reduction"
                               [] OTHER -> "scope_change"
           C(x, y, f) == Change(Class(x, y, f), <<"scope", f>>, Gone(x, y, f), Added(x, y, f) # {})
           same == {s \in steps : s.path = change.path}
<1>1. \A x, y : ScopeChanges(x, y) =
        {C(x, y, f) : f \in {g \in fields : ScopeField(x, g) # ScopeField(y, g)}}
  BY Zenon DEF ScopeChanges
<1> HIDE DEF Class
<1>2. \A x, y, f : C(x, y, f).path = <<"scope", f>> /\ C(x, y, f).lost = Gone(x, y, f)
  BY DEF Change
<1> HIDE DEF C, fields
<1>3. PICK f \in fields : ScopeField(p, f) # ScopeField(r, f) /\ change = C(p, r, f)
  BY <1>1
<1>4. /\ ScopeField(p, f) # ScopeField(q, f) => C(p, q, f) \in steps
      /\ ScopeField(q, f) # ScopeField(r, f) => C(q, r, f) \in steps
  BY <1>1, <1>3
<1> HIDE DEF steps
<1>5. \A x, y : C(x, y, f) \in steps => C(x, y, f) \in same
  BY <1>2, <1>3
<1>6. same # {}
  BY <1>3, <1>4, <1>5
<1>7. ASSUME NEW o \in change.lost
      PROVE  \E s \in same : o \in s.lost
  <2>1. o \in ScopeField(p, f) /\ o \notin ScopeField(r, f)
    BY <1>2, <1>3, <1>7
  <2>2. CASE o \in ScopeField(q, f)
    <3>1. C(q, r, f) \in same
      BY <1>4, <1>5, <2>1, <2>2
    <3> QED
      BY <1>2, <2>1, <2>2, <3>1
  <2>3. CASE o \notin ScopeField(q, f)
    <3>1. C(p, q, f) \in same
      BY <1>4, <1>5, <2>1, <2>3
    <3> QED
      BY <1>2, <2>1, <2>3, <3>1
  <2> QED
    BY <2>2, <2>3
<1>8. change.path[1] = "scope"
  BY <1>2, <1>3
<1> HIDE DEF same
<1>9. /\ same # {}
      /\ change.lost \subseteq UNION {s.lost : s \in same}
      /\ change.path[1] # "scope" => change.class \in {s.class : s \in same}
  BY <1>6, <1>7, <1>8
<1> QED
  BY <1>9 DEF Reported, same, steps

LEMMA DiffSteps ==
  ASSUME NEW p, NEW q, NEW r, Shape(p), Shape(q), Shape(r), NEW change \in Diff(p, r)
  PROVE  Reported(change, Diff(p, q) \cup Diff(q, r))
<1> DEFINE a == p.authority
           b == q.authority
           c == r.authority
           steps == Diff(p, q) \cup Diff(q, r)
<1> SUFFICES Reported(change, steps)
  OBVIOUS
<1>1. NumberShape(a) /\ NumberShape(b) /\ NumberShape(c)
  BY DEF Shape
<1>2. /\ CapabilityChanges(p, q) \cup CapabilityChanges(q, r) \subseteq steps
      /\ ApprovalChanges(a, b) \cup ApprovalChanges(b, c) \subseteq steps
      /\ AiAutonomyChanges(a, b) \cup AiAutonomyChanges(b, c) \subseteq steps
      /\ ContinuityChanges(a, b) \cup ContinuityChanges(b, c) \subseteq steps
      /\ ReplayChanges(p, q) \cup ReplayChanges(q, r) \subseteq steps
      /\ EscalationChanges(a, b) \cup EscalationChanges(b, c) \subseteq steps
      /\ ExecutionBoundaryChanges(a, b) \cup ExecutionBoundaryChanges(b, c) \subseteq steps
      /\ IdentityChanges(a, b) \cup IdentityChanges(b, c) \subseteq steps
      /\ DelegationChanges(a, b) \cup DelegationChanges(b, c) \subseteq steps
      /\ ValidityWindowChanges(a, b) \cup ValidityWindowChanges(b, c) \subseteq steps
      /\ ScopeChanges(a, b) \cup ScopeChanges(b, c) \subseteq steps
  BY DiffOf
<1>3. \/ change \in CapabilityChanges(p, r)
      \/ change \in ApprovalChanges(a, c)
      \/ change \in AiAutonomyChanges(a, c)
      \/ change \in ContinuityChanges(a, c)
      \/ change \in ReplayChanges(p, r)
      \/ change \in EscalationChanges(a, c)
      \/ change \in ExecutionBoundaryChanges(a, c)
      \/ change \in IdentityChanges(a, c)
      \/ change \in DelegationChanges(a, c)
      \/ change \in ValidityWindowChanges(a, c)
      \/ change \in ScopeChanges(a, c)
  BY DEF Diff
<1> HIDE DEF steps, a, b, c
<1>4. CASE change \in CapabilityChanges(p, r)
  <2>1. Reported(change, CapabilityChanges(p, q) \cup CapabilityChanges(q, r))
    BY <1>4, CapabilitySteps
  <2> QED
    BY <1>2, <2>1, ReportedMore
<1>5. CASE change \in ApprovalChanges(a, c)
  <2>1. Reported(change, ApprovalChanges(a, b) \cup ApprovalChanges(b, c))
    BY <1>1, <1>5, ApprovalSteps
  <2> QED
    BY <1>2, <2>1, ReportedMore
<1>6. CASE change \in AiAutonomyChanges(a, c)
  <2>1. Reported(change, AiAutonomyChanges(a, b) \cup AiAutonomyChanges(b, c))
    BY <1>6, AiSteps
  <2> QED
    BY <1>2, <2>1, ReportedMore
<1>7. CASE change \in ContinuityChanges(a, c)
  <2>1. Reported(change, ContinuityChanges(a, b) \cup ContinuityChanges(b, c))
    BY <1>7, ContinuitySteps
  <2> QED
    BY <1>2, <2>1, ReportedMore
<1>8. CASE change \in ReplayChanges(p, r)
  <2>1. Reported(change, ReplayChanges(p, q) \cup ReplayChanges(q, r))
    BY <1>8, ReplaySteps
  <2> QED
    BY <1>2, <2>1, ReportedMore
<1>9. CASE change \in EscalationChanges(a, c)
  <2>1. Reported(change, EscalationChanges(a, b) \cup EscalationChanges(b, c))
    BY <1>1, <1>9, EscalationSteps
  <2> QED
    BY <1>2, <2>1, ReportedMore
<1>10. CASE change \in ExecutionBoundaryChanges(a, c)
  <2>1. Reported(change, ExecutionBoundaryChanges(a, b) \cup ExecutionBoundaryChanges(b, c))
    BY <1>10, ExecutionSteps
  <2> QED
    BY <1>2, <2>1, ReportedMore
<1>11. CASE change \in IdentityChanges(a, c)
  <2>1. Reported(change, IdentityChanges(a, b) \cup IdentityChanges(b, c))
    BY <1>11, IdentitySteps
  <2> QED
    BY <1>2, <2>1, ReportedMore
<1>12. CASE change \in DelegationChanges(a, c)
  <2>1. Reported(change, DelegationChanges(a, b) \cup DelegationChanges(b, c))
    BY <1>12, DelegationSteps
  <2> QED
    BY <1>2, <2>1, ReportedMore
<1>13. CASE change \in ValidityWindowChanges(a, c)
  <2>1. Reported(change, ValidityWindowChanges(a, b) \cup ValidityWindowChanges(b, c))
    BY <1>1, <1>13, WindowSteps
  <2> QED
    BY <1>2, <2>1, ReportedMore
<1>14. CASE change \in ScopeChanges(a, c)
  <2>1. Reported(change, ScopeChanges(a, b) \cup ScopeChanges(b, c))
    BY <1>14, ScopeSteps
  <2> QED
    BY <1>2, <2>1, ReportedMore
<1> QED
  BY <1>3, <1>4, <1>5, <1>6, <1>7, <1>8, <1>9, <1>10, <1>11, <1>12, <1>13, <1>14

\* What the diff of the first and the third of three versions reports is
\* reported by one of the steps, so that nothing is relaxed by way of a
\* version in between.
THEOREM WeakeningsNotLaundered == Spec => []WeakeningNotLaundered
<1>1. IInv => WeakeningNotLaundered
  <2> SUFFICES ASSUME IInv, Committed, Newest > 2,
                      NEW change \in Diff(versions[Newest - 2].meaning, versions[Newest].meaning)
               PROVE  LET steps == StepDiff(Newest - 1) \cup StepDiff(Newest)
                          same == {s \in steps : s.path = change.path}
                      IN /\ same # {}
                         /\ change.lost \subseteq UNION {s.lost : s \in same}
                         /\ change.path[1] # "scope" => change.class \in {s.class : s \in same}
    BY DEF WeakeningNotLaundered
  <2> DEFINE p == versions[Newest - 2].meaning
             q == versions[Newest - 1].meaning
             r == versions[Newest].meaning
  <2>1. Newest \in Nat
    BY NewestIs, VersionsAre
  <2>2. Shape(p) /\ Shape(q) /\ Shape(r)
    <3>1. Newest > 1 /\ Newest > 2
      BY <2>1
    <3>2. Shape(versions[Newest - 2].meaning)
      BY <3>1, EarlierIs
    <3>3. Shape(versions[Newest - 1].meaning)
      BY <3>1, EarlierIs
    <3>4. Shape(versions[Newest].meaning)
      BY NewestIs, VersionShape
    <3> QED
      BY <3>2, <3>3, <3>4
  <2>3. StepDiff(Newest - 1) = Diff(p, q) /\ StepDiff(Newest) = Diff(q, r)
    BY <2>1 DEF StepDiff
  <2> HIDE DEF p, q, r
  <2>4. change \in Diff(p, r)
    BY DEF p, r
  <2>5. Reported(change, StepDiff(Newest - 1) \cup StepDiff(Newest))
    BY <2>2, <2>3, <2>4, DiffSteps
  <2> QED
    BY <2>5 DEF Reported
<1> QED
  BY <1>1, Invariance, PTL
==============================================================================
