--------------------- MODULE PolicyInterpretationProofs ---------------------
(***************************************************************************)
(* Theorems about the interpretation of a policy without a translator: for *)
(* any policies, literals and times, and lists of any length.              *)
(***************************************************************************)
EXTENDS PolicyInterpretation, FiniteMaxima, TLAPS

-----------------------------------------------------------------------------
(* The inductive invariant.  What the caller collected are answers it was  *)
(* offered, and a draft is what its own decisions lead to from the source: *)
(* every claim about answers and drafts follows from that.                 *)

Records(src) ==
  UNION {[ambiguity : {a}, option : Options(src, a), at : Times] : a \in Ambiguities[src]}

AnyDecision(src, catalog) ==
  UNION {UNION {Decisions(catalog, i, t) : t \in Times} : i \in DOMAIN src}

DraftHeld ==
  draft # None =>
    /\ draft.catalog \in Catalogs
    /\ draft.decisions \in Seq(AnyDecision(source, draft.catalog))
    /\ Replays(source, draft.catalog, draft.decisions)
    /\ draft = Replayed(source, draft.catalog, draft.decisions)

IInv ==
  /\ source \in Sources
  /\ resolutions \in Seq(Records(source))
  /\ DraftHeld
  /\ publication # None => publication.version \in {"v1", "v2"} /\ DOMAIN publication.rules # {}

-----------------------------------------------------------------------------
(* Statements and their rules.                                             *)

LEMMA ConflictSymmetric ==
  ASSUME NEW l, NEW r, RulesConflict(l, r)
  PROVE  RulesConflict(r, l)
<1>1. CASE l = r
  BY <1>1 DEF RulesConflict
<1>2. CASE l # r
  <2>1. Opposed(l, r) => Opposed(r, l)
    BY DEF Opposed
  <2> QED
    BY <1>2, <2>1 DEF RulesConflict
<1> QED
  BY <1>1, <1>2

LEMMA SourceShape ==
  ASSUME NEW src \in Sources
  PROVE  /\ src \in Seq(Statements)
         /\ DOMAIN src \subseteq Nat
         /\ IsFiniteSet(DOMAIN src)
         /\ \A i \in DOMAIN src :
              /\ src[i].reading \in Readings
              /\ src[i].meaning \in Meanings \cup {None}
              /\ src[i].reading = "enforced" => src[i].meaning \in Meanings
              /\ src[i].pair \in Seq(Rules)
              /\ src[i].actions \in Seq(Rules)
<1>1. src \in Seq(Statements)
  BY SourcesAssumption
<1>2. DOMAIN src = 1..Len(src) /\ Len(src) \in Nat
  BY <1>1
<1>3. IsFiniteSet(DOMAIN src)
  BY <1>2, FS_Interval
<1>4. DOMAIN src \subseteq Nat
  BY <1>2
<1>5. ASSUME NEW i \in DOMAIN src
      PROVE  /\ src[i].reading \in Readings
             /\ src[i].meaning \in Meanings \cup {None}
             /\ src[i].reading = "enforced" => src[i].meaning \in Meanings
             /\ src[i].pair \in Seq(Rules)
             /\ src[i].actions \in Seq(Rules)
  <2>1. src[i] \in Statements
    BY <1>1
  <2> QED
    BY <2>1 DEF Statements
<1> QED
  BY <1>1, <1>3, <1>4, <1>5

(* A rule that allows or denies is about a path.                           *)
LEMMA MeaningShape ==
  ASSUME NEW m \in Meanings
  PROVE  m.effect \in {"allow", "deny"} => IsPathRule(m)
<1>1. CASE m \in Rules
  <2>1. PICK type \in ControlTypes : m \in [action : {"create", "modify"}, type : {type},
                effect : Effects(type), value : WellFormed[type] \cup Bindings]
    BY <1>1 DEF Rules, Controls
  <2> QED
    BY <2>1 DEF Effects, IsPathRule
<1>2. CASE m \in [action : {"modify"}, type : {"approval_threshold", "separation_of_duties"},
                  effect : {"require"}, value : Literals]
  BY <1>2
<1> QED
  BY <1>1, <1>2 DEF Meanings

-----------------------------------------------------------------------------
(* Disputes: what conflicts lead to is the same from wherever one starts.  *)

Closed(src, S) == \A k \in S, l \in Recognised(src) : Clash(src, k, l) => l \in S

LEMMA ClashSymmetric ==
  ASSUME NEW src, NEW i, NEW j, Clash(src, i, j)
  PROVE  Clash(src, j, i)
BY ConflictSymmetric DEF Clash

LEMMA ComponentDef ==
  ASSUME NEW src, NEW i
  PROVE  Component(src, i) =
           {j \in Recognised(src) :
              \A S \in SUBSET Recognised(src) : i \in S /\ Closed(src, S) => j \in S}
BY DEF Component, Closed

LEMMA ComponentClosed ==
  ASSUME NEW src, NEW i \in Recognised(src)
  PROVE  /\ i \in Component(src, i)
         /\ Component(src, i) \subseteq Recognised(src)
         /\ Closed(src, Component(src, i))
<1>1. i \in Component(src, i) /\ Component(src, i) \subseteq Recognised(src)
  BY ComponentDef
<1>2. ASSUME NEW k \in Component(src, i), NEW l \in Recognised(src), Clash(src, k, l)
      PROVE  l \in Component(src, i)
  <2>1. ASSUME NEW S \in SUBSET Recognised(src), i \in S, Closed(src, S)
        PROVE  l \in S
    <3>1. k \in S
      BY <2>1, ComponentDef
    <3> QED
      BY <1>2, <2>1, <3>1 DEF Closed
  <2> QED
    BY <2>1, ComponentDef
<1> QED
  BY <1>1, <1>2 DEF Closed

LEMMA ComponentLeast ==
  ASSUME NEW src, NEW i, NEW S \in SUBSET Recognised(src), i \in S, Closed(src, S)
  PROVE  Component(src, i) \subseteq S
BY ComponentDef

LEMMA ComponentSymmetric ==
  ASSUME NEW src, NEW i \in Recognised(src), NEW j \in Component(src, i)
  PROVE  i \in Component(src, j)
<1> DEFINE C == Component(src, j)
           S == Recognised(src) \ C
<1> SUFFICES ASSUME i \notin C PROVE FALSE
  OBVIOUS
<1>1. j \in Recognised(src)
  BY ComponentClosed
<1>2. j \in C /\ C \subseteq Recognised(src) /\ Closed(src, C)
  BY <1>1, ComponentClosed
<1>3. Closed(src, S)
  <2> HIDE DEF C
  <2>1. ASSUME NEW k \in S, NEW l \in Recognised(src), Clash(src, k, l), l \in C
        PROVE  FALSE
    BY <1>2, <2>1, ClashSymmetric DEF Closed
  <2> QED
    BY <2>1 DEF Closed
<1> HIDE DEF C
<1>4. Component(src, i) \subseteq S
  BY <1>3, ComponentLeast
<1> QED
  BY <1>2, <1>4

LEMMA ComponentsEqual ==
  ASSUME NEW src, NEW i \in Recognised(src), NEW j \in Component(src, i)
  PROVE  Component(src, j) = Component(src, i)
<1>1. j \in Recognised(src)
  BY ComponentClosed
<1>2. Component(src, j) \subseteq Component(src, i)
  BY ComponentClosed, ComponentLeast
<1>3. Component(src, i) \subseteq Component(src, j)
  <2>1. i \in Component(src, j)
    BY ComponentSymmetric
  <2>2. /\ Component(src, j) \in SUBSET Recognised(src)
        /\ Closed(src, Component(src, j))
    BY <1>1, ComponentClosed
  <2> QED
    BY <2>1, <2>2, ComponentLeast
<1> QED
  BY <1>2, <1>3

LEMMA DisputeShape ==
  ASSUME NEW src \in Sources
  PROVE  /\ \A a \in Disputes[src] : a \subseteq Recognised(src)
         /\ \A a, b \in Disputes[src] : \A x : x \in a /\ x \in b => a = b
         /\ \A i, j \in Recognised(src) :
              Clash(src, i, j) => \E a \in Disputes[src] : i \in a /\ j \in a
<1> DEFINE Disputed == {k \in Recognised(src) : \E j \in Recognised(src) : Clash(src, k, j)}
<1>1. Disputes[src] = {Component(src, i) : i \in Disputed}
  BY DEF Disputes
<1>2. ASSUME NEW a \in Disputes[src]
      PROVE  /\ a \subseteq Recognised(src)
             /\ \A x \in a : Component(src, x) = a
  <2>1. PICK i \in Disputed : a = Component(src, i)
    BY <1>1
  <2>2. i \in Recognised(src)
    OBVIOUS
  <2> QED
    BY <2>1, <2>2, ComponentClosed, ComponentsEqual
<1>3. ASSUME NEW i \in Recognised(src), NEW j \in Recognised(src), Clash(src, i, j)
      PROVE  \E a \in Disputes[src] : i \in a /\ j \in a
  <2>1. Component(src, i) \in Disputes[src]
    BY <1>1, <1>3
  <2>2. i \in Component(src, i) /\ j \in Component(src, i)
    BY <1>3, ComponentClosed DEF Closed
  <2> QED
    BY <2>1, <2>2
<1> QED
  BY <1>2, <1>3

Classes == {"enforced", "unsupported", "informational"}

LEMMA AmbiguityShape ==
  ASSUME NEW src \in Sources
  PROVE  /\ Ambiguities[src] = {{i} : i \in Lexical(src)} \cup Disputes[src]
         /\ \A a \in Ambiguities[src] : a \subseteq DOMAIN src
         /\ \A a, b \in Ambiguities[src] : \A x : x \in a /\ x \in b => a = b
         /\ \A i \in DOMAIN src : i \notin UNION Ambiguities[src] =>
              /\ Classification[src][i] = src[i].reading
              /\ src[i].reading # "requires_resolution"
         /\ \A i \in UNION Disputes[src] : Classification[src][i] = "requires_resolution"
<1>1. Ambiguities[src] = {{i} : i \in Lexical(src)} \cup Disputes[src]
  BY DEF Ambiguities
<1>2. /\ \A a \in Disputes[src] : a \subseteq Recognised(src)
      /\ \A a, b \in Disputes[src] : \A x : x \in a /\ x \in b => a = b
  BY DisputeShape
<1>3. Recognised(src) \subseteq DOMAIN src /\ Lexical(src) \subseteq DOMAIN src
  BY DEF Recognised, Lexical
<1>4. Recognised(src) \cap Lexical(src) = {}
  BY DEF Recognised, Lexical
<1>5. Classification[src] =
        [i \in DOMAIN src |->
           IF i \in UNION Disputes[src] THEN "requires_resolution" ELSE src[i].reading]
  BY DEF Classification
<1>6. ASSUME NEW i \in DOMAIN src, i \notin UNION Ambiguities[src]
      PROVE  /\ Classification[src][i] = src[i].reading
             /\ src[i].reading # "requires_resolution"
  <2>1. i \notin Lexical(src) /\ i \notin UNION Disputes[src]
    BY <1>1, <1>6
  <2> QED
    BY <1>5, <2>1 DEF Lexical
<1>7. ASSUME NEW a \in Ambiguities[src], NEW b \in Ambiguities[src], NEW x, x \in a, x \in b
      PROVE  a = b
  <2>1. CASE a \in Disputes[src] /\ b \in Disputes[src]
    BY <1>2, <1>7, <2>1
  <2>2. CASE a \notin Disputes[src] /\ b \notin Disputes[src]
    <3>1. a = {x} /\ b = {x}
      BY <1>1, <1>7, <2>2
    <3> QED
      BY <3>1
  <2>3. CASE a \in Disputes[src] /\ b \notin Disputes[src]
    <3>1. x \in Recognised(src) /\ x \in Lexical(src)
      BY <1>1, <1>2, <1>7, <2>3
    <3> QED
      BY <1>4, <3>1
  <2>4. CASE a \notin Disputes[src] /\ b \in Disputes[src]
    <3>1. x \in Recognised(src) /\ x \in Lexical(src)
      BY <1>1, <1>2, <1>7, <2>4
    <3> QED
      BY <1>4, <3>1
  <2> QED
    BY <2>1, <2>2, <2>3, <2>4
<1>8. \A a \in Ambiguities[src] : a \subseteq DOMAIN src
  BY <1>1, <1>2, <1>3
<1>9. \A i \in UNION Disputes[src] : Classification[src][i] = "requires_resolution"
  BY <1>2, <1>3, <1>5
<1> QED
  BY <1>1, <1>6, <1>7, <1>8, <1>9

LEMMA OptionShape ==
  ASSUME NEW src \in Sources, NEW a \in Ambiguities[src], NEW option \in Options(src, a)
  PROVE  /\ option \in [a -> Classes]
         /\ a \in Disputes[src] =>
              \A i, j \in a : option[i] = "enforced" /\ option[j] = "enforced" => i = j
         /\ \A i \in a : option[i] = "enforced" => src[i].meaning # None
<1>1. CASE a \in Disputes[src]
  <2>1. PICK kept \in {{}} \cup {{i} : i \in a} :
          option = [i \in a |-> IF i \in kept THEN "enforced" ELSE "unsupported"]
    BY <1>1 DEF Options
  <2>2. a \subseteq Recognised(src)
    BY <1>1, DisputeShape
  <2>3. \A i \in a : src[i].meaning # None
    BY <2>2, SourceShape, SourcesAssumption DEF Recognised
  <2>4. \A i, j \in kept : i = j
    OBVIOUS
  <2>5. \A i \in a : option[i] = IF i \in kept THEN "enforced" ELSE "unsupported"
    BY <2>1
  <2>6. option \in [a -> Classes]
    BY <2>1 DEF Classes
  <2> QED
    BY <2>3, <2>4, <2>5, <2>6
<1>2. CASE a \notin Disputes[src]
  BY <1>2 DEF Options, Classes
<1> QED
  BY <1>1, <1>2

-----------------------------------------------------------------------------
(* Answers.                                                                *)

LEMMA RecordShape ==
  ASSUME NEW src \in Sources, NEW r \in Records(src)
  PROVE  /\ r.ambiguity \in Ambiguities[src]
         /\ r.ambiguity \subseteq DOMAIN src
         /\ r.option \in Options(src, r.ambiguity)
         /\ r.option \in [r.ambiguity -> Classes]
         /\ r.at \in Times
<1>1. PICK a \in Ambiguities[src] : r \in [ambiguity : {a}, option : Options(src, a), at : Times]
  BY DEF Records
<1>2. r.ambiguity = a /\ r.option \in Options(src, a) /\ r.at \in Times
  BY <1>1
<1> QED
  BY <1>2, AmbiguityShape, OptionShape

(* Of the records of full answers at most one is about a statement, and it *)
(* decides about it; the others are left as they were read.                *)
LEMMA OutcomeOfAnswers ==
  ASSUME NEW src \in Sources, NEW records, DOMAIN records \subseteq Nat,
         Answered(src, records), NEW i \in DOMAIN src
  PROVE  /\ \A k \in DOMAIN records :
              i \in records[k].ambiguity => Outcome(src, records)[i] = records[k].option[i]
         /\ i \notin UNION Ambiguities[src] =>
              /\ Outcome(src, records)[i] = Classification[src][i]
              /\ Classification[src][i] = src[i].reading
         /\ i \in UNION Ambiguities[src] => \E k \in DOMAIN records : i \in records[k].ambiguity
<1> DEFINE about == {k \in DOMAIN records : i \in records[k].ambiguity}
           last == CHOOSE k \in about : \A l \in about : l <= k
<1>1. Outcome(src, records)[i] =
        IF about = {} THEN Classification[src][i] ELSE records[last].option[i]
  BY DEF Outcome
<1>2. \A k \in DOMAIN records : records[k].ambiguity \in Ambiguities[src]
  BY DEF Answered
<1>3. \A k, l \in about : k = l
  <2> SUFFICES ASSUME NEW k \in about, NEW l \in about, k # l PROVE FALSE
    OBVIOUS
  <2>1. records[k].ambiguity # records[l].ambiguity
    BY DEF Answered
  <2>2. /\ records[k].ambiguity \in Ambiguities[src] /\ i \in records[k].ambiguity
        /\ records[l].ambiguity \in Ambiguities[src] /\ i \in records[l].ambiguity
    BY <1>2
  <2> QED
    BY <2>1, <2>2, AmbiguityShape
<1>4. ASSUME NEW k \in about
      PROVE  Outcome(src, records)[i] = records[k].option[i]
  <2>1. about \subseteq Nat
    OBVIOUS
  <2> HIDE DEF about
  <2>2. \E m \in about : \A l \in about : l <= m
    <3>1. \A l \in about : l <= k
      BY <1>3, <2>1
    <3> QED
      BY <3>1
  <2>3. last = k
    BY <1>3, <2>2
  <2> QED
    BY <1>1, <2>3
<1>5. ASSUME i \notin UNION Ambiguities[src]
      PROVE  about = {}
  BY <1>2, <1>5
<1>6. i \in UNION Ambiguities[src] => \E k \in DOMAIN records : i \in records[k].ambiguity
  BY DEF Answered
<1> QED
  BY <1>1, <1>4, <1>5, <1>6, AmbiguityShape

LEMMA AnsweredClass ==
  ASSUME NEW src \in Sources, NEW records, DOMAIN records \subseteq Nat,
         Answered(src, records), NEW i \in DOMAIN src
  PROVE  /\ Outcome(src, records)[i] # "requires_resolution"
         /\ Outcome(src, records)[i] = "enforced" => src[i].meaning \in Meanings
<1>1. CASE i \in UNION Ambiguities[src]
  <2>1. PICK k \in DOMAIN records : i \in records[k].ambiguity
    BY <1>1, OutcomeOfAnswers
  <2>2. Outcome(src, records)[i] = records[k].option[i]
    BY <2>1, OutcomeOfAnswers
  <2>3. /\ records[k].ambiguity \in Ambiguities[src]
        /\ records[k].option \in Options(src, records[k].ambiguity)
    BY DEF Answered
  <2>4. /\ records[k].option \in [records[k].ambiguity -> Classes]
        /\ records[k].option[i] = "enforced" => src[i].meaning # None
    BY <2>1, <2>3, OptionShape
  <2> QED
    BY <2>1, <2>2, <2>4, SourceShape DEF Classes
<1>2. CASE i \notin UNION Ambiguities[src]
  BY <1>2, OutcomeOfAnswers, AmbiguityShape, SourceShape
<1> QED
  BY <1>1, <1>2

LEMMA EnforcedShape ==
  ASSUME NEW src \in Sources, NEW records
  PROVE  /\ EnforcedOf(src, records) \subseteq DOMAIN src
         /\ EnforcedOf(src, records) \subseteq Nat
         /\ IsFiniteSet(EnforcedOf(src, records))
BY SourceShape, FS_Subset DEF EnforcedOf

(* Of the statements of a dispute at most one is enforced.                 *)
LEMMA DisputesSettled ==
  ASSUME NEW src \in Sources, NEW records, DOMAIN records \subseteq Nat, Answered(src, records)
  PROVE  \A i, j \in EnforcedOf(src, records) :
           Clash(src, i, j) => {i, j} \cap Lexical(src) # {}
<1> SUFFICES ASSUME NEW i \in EnforcedOf(src, records), NEW j \in EnforcedOf(src, records),
                    Clash(src, i, j), i \notin Lexical(src), j \notin Lexical(src)
             PROVE  FALSE
  OBVIOUS
<1>1. ASSUME NEW x \in EnforcedOf(src, records), x \notin Lexical(src)
      PROVE  x \in Recognised(src)
  <2>1. x \in DOMAIN src /\ Outcome(src, records)[x] = "enforced"
    BY DEF EnforcedOf
  <2>2. CASE x \in UNION Ambiguities[src]
    BY <1>1, <2>2, AmbiguityShape, DisputeShape
  <2>3. CASE x \notin UNION Ambiguities[src]
    <3>1. src[x].reading = "enforced"
      BY <2>1, <2>3, OutcomeOfAnswers
    <3> QED
      BY <2>1, <3>1 DEF Recognised
  <2> QED
    BY <2>2, <2>3
<1>2. i \in Recognised(src) /\ j \in Recognised(src)
  BY <1>1
<1>3. PICK a \in Disputes[src] : i \in a /\ j \in a
  BY <1>2, DisputeShape
<1>4. a \in Ambiguities[src]
  BY AmbiguityShape
<1>5. PICK k \in DOMAIN records : records[k].ambiguity = a
  BY <1>4 DEF Answered
<1>6. records[k].option \in Options(src, a)
  BY <1>5 DEF Answered
<1>7. /\ i \in DOMAIN src /\ Outcome(src, records)[i] = "enforced"
      /\ j \in DOMAIN src /\ Outcome(src, records)[j] = "enforced"
  BY DEF EnforcedOf
<1>8. records[k].option[i] = "enforced" /\ records[k].option[j] = "enforced"
  BY <1>3, <1>5, <1>7, OutcomeOfAnswers
<1>9. i = j
  BY <1>3, <1>4, <1>6, <1>8, OptionShape
<1> QED
  BY <1>9 DEF Clash

-----------------------------------------------------------------------------
(* Lists in another order.                                                 *)

LEMMA ShuffleShape ==
  ASSUME NEW s, NEW other \in Shuffled(s)
  PROVE  \E f \in [DOMAIN s -> DOMAIN s] :
           /\ other = [k \in DOMAIN s |-> s[f[k]]]
           /\ \A k, l \in DOMAIN s : f[k] = f[l] => k = l
           /\ \A l \in DOMAIN s : \E k \in DOMAIN s : f[k] = l
           /\ DOMAIN other = DOMAIN s
           /\ \A k \in DOMAIN s : other[k] = s[f[k]]
<1>1. PICK f \in Bijection(DOMAIN s, DOMAIN s) : other = [k \in DOMAIN s |-> s[f[k]]]
  BY DEF Shuffled
<1>2. /\ f \in [DOMAIN s -> DOMAIN s]
      /\ \A k, l \in DOMAIN s : f[k] = f[l] => k = l
      /\ \A l \in DOMAIN s : \E k \in DOMAIN s : f[k] = l
  BY DEF Bijection, Injection, Surjection, IsInjective
<1> QED
  BY <1>1, <1>2

LEMMA ShuffledAnswers ==
  ASSUME NEW src \in Sources, NEW records, DOMAIN records \subseteq Nat,
         Answered(src, records), NEW other \in Shuffled(records)
  PROVE  Answered(src, other) /\ Outcome(src, other) = Outcome(src, records)
<1>1. PICK f \in [DOMAIN records -> DOMAIN records] :
        /\ \A k, l \in DOMAIN records : f[k] = f[l] => k = l
        /\ \A l \in DOMAIN records : \E k \in DOMAIN records : f[k] = l
        /\ DOMAIN other = DOMAIN records
        /\ \A k \in DOMAIN records : other[k] = records[f[k]]
  BY ShuffleShape
<1>2. Answered(src, other)
  <2>1. {other[k].ambiguity : k \in DOMAIN other} = {records[k].ambiguity : k \in DOMAIN records}
    BY <1>1
  <2>2. ASSUME NEW k \in DOMAIN other, NEW l \in DOMAIN other, k # l
        PROVE  other[k].ambiguity # other[l].ambiguity
    <3>1. /\ f[k] \in DOMAIN records /\ f[l] \in DOMAIN records /\ f[k] # f[l]
          /\ other[k] = records[f[k]] /\ other[l] = records[f[l]]
      BY <1>1, <2>2
    <3> QED
      BY <3>1 DEF Answered
  <2>3. ASSUME NEW k \in DOMAIN other
        PROVE  other[k].option \in Options(src, other[k].ambiguity)
    <3>1. f[k] \in DOMAIN records /\ other[k] = records[f[k]]
      BY <1>1
    <3> QED
      BY <3>1 DEF Answered
  <2> QED
    BY <2>1, <2>2, <2>3 DEF Answered
<1>3. ASSUME NEW i \in DOMAIN src
      PROVE  Outcome(src, other)[i] = Outcome(src, records)[i]
  <2>1. CASE i \in UNION Ambiguities[src]
    <3>1. PICK k \in DOMAIN other : i \in other[k].ambiguity
      BY <1>1, <1>2, <2>1, OutcomeOfAnswers
    <3>2. Outcome(src, other)[i] = other[k].option[i]
      BY <1>1, <1>2, <3>1, OutcomeOfAnswers
    <3>3. f[k] \in DOMAIN records /\ other[k] = records[f[k]]
      BY <1>1
    <3>4. Outcome(src, records)[i] = records[f[k]].option[i]
      BY <3>1, <3>3, OutcomeOfAnswers
    <3> QED
      BY <3>2, <3>3, <3>4
  <2>2. CASE i \notin UNION Ambiguities[src]
    BY <1>1, <1>2, <2>2, OutcomeOfAnswers
  <2> QED
    BY <2>1, <2>2
<1>4. /\ Outcome(src, other) = [i \in DOMAIN src |-> Outcome(src, other)[i]]
      /\ Outcome(src, records) = [i \in DOMAIN src |-> Outcome(src, records)[i]]
  BY DEF Outcome
<1>5. Outcome(src, other) = Outcome(src, records)
  BY <1>3, <1>4
<1> QED
  BY <1>2, <1>5

-----------------------------------------------------------------------------
(* What the first finalizer accepts.                                       *)

LEMMA Minimum ==
  ASSUME NEW S \in SUBSET Nat, S # {}
  PROVE  \E m \in S : \A x \in S : m <= x
<1>1. PICK m \in S : \A y \in S : ~ (<<y, m>> \in OpToRel(<, Nat))
  BY NatLessThanWellFounded, WFMin
<1>2. ASSUME NEW y \in S
      PROVE  m <= y
  <2>1. ~ (y < m)
    BY <1>1 DEF OpToRel
  <2> QED
    BY <2>1
<1> QED
  BY <1>2

LEMMA LateEnough ==
  ASSUME NEW D, IsFiniteSet(D), NEW at, \A k \in D : at[k].at \in Times
  PROVE  \E t \in Times : \A k \in D : at[k].at <= t
<1> DEFINE T == {at[k].at : k \in D}
           g == [k \in D |-> at[k].at]
<1>1. T \subseteq Times /\ Times \subseteq Nat /\ Times # {}
  BY TimesAssumption
<1>2. IsFiniteSet({g[k] : k \in D})
  BY FiniteImage
<1>3. {g[k] : k \in D} = T
  OBVIOUS
<1>4. IsFiniteSet(T)
  BY <1>2, <1>3
<1> HIDE DEF T, g
<1>5. \E t \in Times : \A x \in T : x <= t
  <2>1. CASE T = {}
    BY <1>1, <2>1
  <2>2. CASE T # {}
    <3>1. PICK m \in T : \A x \in T : x <= m
      BY <1>1, <1>4, <2>2, Maximum
    <3> QED
      BY <1>1, <3>1
  <2> QED
    BY <2>1, <2>2
<1> QED
  BY <1>5 DEF T

(* The rules that are confirmed are those of the first statements to state *)
(* them; every enforced statement has one.                                 *)
First(src, records) ==
  {i \in EnforcedOf(src, records) :
     \A j \in EnforcedOf(src, records) : src[j].meaning = src[i].meaning => i <= j}

LEMMA FirstStated ==
  ASSUME NEW src \in Sources, NEW records
  PROVE  /\ ConfirmedRules(src, records) = [i \in First(src, records) |-> src[i].meaning]
         /\ First(src, records) \subseteq EnforcedOf(src, records)
         /\ \A i \in EnforcedOf(src, records) :
              \E j \in First(src, records) : src[j].meaning = src[i].meaning
         /\ \A i, j \in First(src, records) : src[i].meaning = src[j].meaning => i = j
<1>1. ConfirmedRules(src, records) = [i \in First(src, records) |-> src[i].meaning]
  BY DEF ConfirmedRules, First
<1>2. ASSUME NEW i \in EnforcedOf(src, records)
      PROVE  \E j \in First(src, records) : src[j].meaning = src[i].meaning
  <2> DEFINE S == {j \in EnforcedOf(src, records) : src[j].meaning = src[i].meaning}
  <2>1. S \in SUBSET Nat /\ S # {}
    BY EnforcedShape
  <2>2. PICK j \in S : \A x \in S : j <= x
    <3> HIDE DEF S
    <3> QED BY <2>1, Minimum
  <2> QED
    BY <2>2 DEF First
<1>3. ASSUME NEW i \in First(src, records), NEW j \in First(src, records),
             src[i].meaning = src[j].meaning
      PROVE  i = j
  <2>1. i \in Nat /\ j \in Nat /\ i <= j /\ j <= i
    BY <1>3, EnforcedShape DEF First
  <2> QED
    BY <2>1
<1> QED
  BY <1>1, <1>2, <1>3 DEF First

LEMMA ConfirmedConflict ==
  ASSUME NEW src \in Sources, NEW records
  PROVE  Conflicting(ConfirmedRules(src, records)) <=>
           \E i, j \in EnforcedOf(src, records) :
             Clash(src, i, j) /\ src[i].meaning # src[j].meaning
<1> DEFINE rules == ConfirmedRules(src, records)
           first == First(src, records)
           enforced == EnforcedOf(src, records)
<1>1. /\ rules = [i \in first |-> src[i].meaning]
      /\ first \subseteq enforced
      /\ \A i \in enforced : \E j \in first : src[j].meaning = src[i].meaning
      /\ \A i, j \in first : src[i].meaning = src[j].meaning => i = j
  BY FirstStated
<1> HIDE DEF rules, first, enforced
<1>2. ASSUME Conflicting(rules)
      PROVE  \E i, j \in enforced : Clash(src, i, j) /\ src[i].meaning # src[j].meaning
  <2>1. PICK i \in first, j \in first : i # j /\ RulesConflict(rules[i], rules[j])
    BY <1>1, <1>2 DEF Conflicting
  <2>2. rules[i] = src[i].meaning /\ rules[j] = src[j].meaning
    BY <1>1
  <2>3. src[i].meaning # src[j].meaning /\ Clash(src, i, j)
    BY <1>1, <2>1, <2>2 DEF Clash
  <2> QED
    BY <1>1, <2>3
<1>3. ASSUME NEW i \in enforced, NEW j \in enforced,
             Clash(src, i, j), src[i].meaning # src[j].meaning
      PROVE  Conflicting(rules)
  <2>1. PICK k \in first : src[k].meaning = src[i].meaning
    BY <1>1
  <2>2. PICK l \in first : src[l].meaning = src[j].meaning
    BY <1>1
  <2>3. k # l /\ RulesConflict(rules[k], rules[l])
    BY <1>1, <1>3, <2>1, <2>2 DEF Clash
  <2> QED
    BY <1>1, <2>3 DEF Conflicting
<1> QED
  BY <1>2, <1>3 DEF rules, enforced

AnswersConsistent(src, records) ==
  \A i, j \in EnforcedOf(src, records) :
    Clash(src, i, j) => src[i].meaning = src[j].meaning

LEMMA SizesOfAnswers ==
  ASSUME NEW src \in Sources, NEW records, Answered(src, records)
  PROVE  (\A k \in DOMAIN records : Cardinality(records[k].ambiguity) <= MaxReferenced)
           <=> \A a \in Disputes[src] : Cardinality(a) <= MaxReferenced
<1>1. \A i : Cardinality({i}) = 1
  BY FS_Singleton
<1>2. 1 <= MaxReferenced
  BY TimesAssumption
<1>3. \A k \in DOMAIN records : records[k].ambiguity \in Ambiguities[src]
  BY DEF Answered
<1>4. \A a \in Ambiguities[src] : \E k \in DOMAIN records : records[k].ambiguity = a
  BY DEF Answered
<1>5. Ambiguities[src] = {{i} : i \in Lexical(src)} \cup Disputes[src]
  BY AmbiguityShape
<1>6. \A a \in {{i} : i \in Lexical(src)} : Cardinality(a) <= MaxReferenced
  BY <1>1, <1>2
<1>7. ASSUME \A a \in Disputes[src] : Cardinality(a) <= MaxReferenced, NEW k \in DOMAIN records
      PROVE  Cardinality(records[k].ambiguity) <= MaxReferenced
  BY <1>3, <1>5, <1>6, <1>7
<1>8. ASSUME \A k \in DOMAIN records : Cardinality(records[k].ambiguity) <= MaxReferenced,
             NEW a \in Disputes[src]
      PROVE  Cardinality(a) <= MaxReferenced
  BY <1>4, <1>5, <1>8
<1> QED
  BY <1>7, <1>8

LEMMA PublishableAnswers ==
  ASSUME NEW src \in Sources, NEW records, records \in Seq(Records(src)),
         Answered(src, records)
  PROVE  V1Publishable(src, records) <=>
           /\ EnforcedOf(src, records) # {}
           /\ AnswersConsistent(src, records)
           /\ \A a \in Disputes[src] : Cardinality(a) <= MaxReferenced
<1>1. DOMAIN records = 1..Len(records) /\ Len(records) \in Nat
  OBVIOUS
<1>2. DOMAIN records \subseteq Nat /\ IsFiniteSet(DOMAIN records)
  BY <1>1, FS_Interval
<1>3. \A k \in DOMAIN records : records[k].at \in Times
  BY RecordShape
<1>4. PICK t \in Times : \A k \in DOMAIN records : records[k].at <= t
  BY <1>2, <1>3, LateEnough
<1>5. \A i \in DOMAIN src : Outcome(src, records)[i] # "requires_resolution"
  BY <1>2, AnsweredClass
<1>6. DOMAIN ConfirmedRules(src, records) # {} <=> EnforcedOf(src, records) # {}
  BY FirstStated
<1>7. Conflicting(ConfirmedRules(src, records)) <=> ~ AnswersConsistent(src, records)
  BY ConfirmedConflict DEF AnswersConsistent
<1>8. (\A k \in DOMAIN records : Cardinality(records[k].ambiguity) <= MaxReferenced)
        <=> \A a \in Disputes[src] : Cardinality(a) <= MaxReferenced
  BY SizesOfAnswers
<1>9. InOrder({records[k].at : k \in DOMAIN records}, t, t, t)
  BY <1>4, TimesAssumption DEF InOrder
<1>10. ASSUME V1Publishable(src, records)
       PROVE  /\ EnforcedOf(src, records) # {}
              /\ AnswersConsistent(src, records)
              /\ \A a \in Disputes[src] : Cardinality(a) <= MaxReferenced
  BY <1>6, <1>7, <1>8, <1>10 DEF V1Publishable, V1Accepts
<1>11. ASSUME EnforcedOf(src, records) # {}, AnswersConsistent(src, records),
              \A a \in Disputes[src] : Cardinality(a) <= MaxReferenced
       PROVE  V1Publishable(src, records)
  BY <1>5, <1>6, <1>7, <1>8, <1>9, <1>11 DEF V1Publishable, V1Accepts
<1> QED
  BY <1>10, <1>11

-----------------------------------------------------------------------------
(* The constraints of a draft.                                             *)

LEMMA DirectShape ==
  ASSUME NEW src \in Sources, NEW catalog \in Catalogs, NEW i \in DOMAIN src
  PROVE  Direct(src, catalog, i) \in Seq(Rules)
<1>1. src[i].pair \in Seq(Rules) /\ src[i].actions \in Seq(Rules)
  BY SourceShape
<1>2. CASE catalog # "1.0.0"
  <2>1. Direct(src, catalog, i) = src[i].actions
    BY <1>2 DEF Direct
  <2> QED
    BY <1>1, <2>1
<1>3. CASE /\ catalog = "1.0.0"
           /\ Classification[src][i] = "enforced" /\ src[i].meaning \in Rules
  <2>1. Direct(src, catalog, i) = <<src[i].meaning>> /\ src[i].meaning \in Rules
    BY <1>3 DEF Direct
  <2> HIDE DEF Rules
  <2> QED
    BY <2>1
<1>4. CASE /\ catalog = "1.0.0"
           /\ ~ (Classification[src][i] = "enforced" /\ src[i].meaning \in Rules)
  <2>1. Direct(src, catalog, i) = src[i].pair
    BY <1>4 DEF Direct
  <2> QED
    BY <1>1, <2>1
<1> QED
  BY <1>2, <1>3, <1>4

(* Without the sentence of two paths: a statement is direct when it is     *)
(* enforced as it stands.                                                  *)
LEMMA DirectHistorical ==
  ASSUME NEW src \in Sources, NEW i \in DOMAIN src, src[i].pair = <<>>
  PROVE  /\ Direct(src, "1.0.0", i) # <<>> =>
              /\ i \in Recognised(src) /\ i \notin UNION Ambiguities[src]
              /\ src[i].meaning \in Rules
              /\ Direct(src, "1.0.0", i) = <<src[i].meaning>>
         /\ i \in Recognised(src) /\ i \notin UNION Ambiguities[src]
              /\ src[i].meaning \in Rules => Direct(src, "1.0.0", i) # <<>>
<1>1. Classification[src][i] =
        IF i \in UNION Disputes[src] THEN "requires_resolution" ELSE src[i].reading
  BY DEF Classification
<1>2. i \in Recognised(src) /\ i \notin UNION Ambiguities[src]
        <=> Classification[src][i] = "enforced"
  BY <1>1, AmbiguityShape DEF Recognised, Lexical
<1>3. CASE Classification[src][i] = "enforced" /\ src[i].meaning \in Rules
  <2>1. Direct(src, "1.0.0", i) = <<src[i].meaning>>
    BY <1>3 DEF Direct
  <2> QED
    BY <1>2, <1>3, <2>1
<1>4. CASE ~ (Classification[src][i] = "enforced" /\ src[i].meaning \in Rules)
  <2>1. Direct(src, "1.0.0", i) = <<>>
    BY <1>4 DEF Direct
  <2> QED
    BY <1>2, <1>4, <2>1
<1> QED
  BY <1>3, <1>4

LEMMA DirectPlaces ==
  ASSUME NEW src \in Sources, NEW catalog \in Catalogs, NEW id \in DirectIds(src, catalog)
  PROVE  /\ id[1] = "direct" /\ id[2] \in DOMAIN src /\ id[3] \in DOMAIN Direct(src, catalog, id[2])
         /\ id = <<"direct", id[2], id[3]>>
         /\ DirectRules(src, catalog)[id] = Direct(src, catalog, id[2])[id[3]]
         /\ DirectRules(src, catalog)[id] \in Rules
<1>1. PICK i \in DOMAIN src : \E j \in DOMAIN Direct(src, catalog, i) : id = <<"direct", i, j>>
  BY DEF DirectIds
<1>2. PICK j \in DOMAIN Direct(src, catalog, i) : id = <<"direct", i, j>>
  BY <1>1
<1>3. Direct(src, catalog, i)[j] \in Rules
  BY DirectShape
<1> QED
  BY <1>2, <1>3 DEF DirectRules

(* Rules that Constraint IR refuses are in conflict.                       *)
LEMMA SelectorConflict ==
  ASSUME NEW l \in Meanings, NEW r \in Meanings, SameSelector(l, r), Opposed(l, r)
  PROVE  RulesConflict(l, r)
<1>1. l.effect \in {"allow", "deny"} /\ r.effect \in {"allow", "deny"}
  BY DEF Opposed
<1>2. IsPathRule(l) /\ IsPathRule(r)
  BY <1>1, MeaningShape
<1>3. l.value = r.value
  <2>1. [l EXCEPT !.effect = r.effect].value = l.value
    <3>1. l \in [action : {"create", "modify"}, type : {l.type}, effect : {l.effect},
                 value : {l.value}]
      BY DEF Meanings, Rules, Controls
    <3> QED
      BY <3>1
  <2> QED
    BY <2>1 DEF SameSelector
<1> QED
  BY <1>2, <1>3 DEF RulesConflict

(* A family of rules none of which conflict is one that Constraint IR takes. *)
LEMMA AgreementFits ==
  ASSUME NEW rules, \A x \in DOMAIN rules : rules[x] \in Meanings, ~ Conflicting(rules)
  PROVE  IRFits(rules)
<1>1. ASSUME NEW x \in DOMAIN rules, NEW y \in DOMAIN rules, x # y
      PROVE  /\ rules[x] # rules[y]
             /\ ~ (SameSelector(rules[x], rules[y]) /\ Opposed(rules[x], rules[y]))
  <2>1. ~ RulesConflict(rules[x], rules[y])
    BY <1>1 DEF Conflicting
  <2>2. rules[x] # rules[y]
    BY <2>1 DEF RulesConflict
  <2> QED
    BY <2>1, <2>2, SelectorConflict
<1> QED
  BY <1>1 DEF IRFits, IRAccepts

(* What fits, fits without some of the rules.                              *)
LEMMA FewerFit ==
  ASSUME NEW rules, IRFits(rules), NEW fewer, NEW f \in [DOMAIN fewer -> DOMAIN rules],
         \A x, y \in DOMAIN fewer : f[x] = f[y] => x = y,
         \A x \in DOMAIN fewer : fewer[x] = rules[f[x]]
  PROVE  IRFits(fewer)
<1>1. CASE DOMAIN fewer = {}
  BY <1>1 DEF IRFits
<1>2. CASE DOMAIN fewer # {}
  <2>1. IRAccepts(rules)
    BY <1>2 DEF IRFits
  <2>2. ASSUME NEW x \in DOMAIN fewer, NEW y \in DOMAIN fewer, x # y
        PROVE  /\ fewer[x] # fewer[y]
               /\ ~ (SameSelector(fewer[x], fewer[y]) /\ Opposed(fewer[x], fewer[y]))
    <3>1. f[x] \in DOMAIN rules /\ f[y] \in DOMAIN rules /\ f[x] # f[y]
      BY <2>2
    <3>2. fewer[x] = rules[f[x]] /\ fewer[y] = rules[f[y]]
      OBVIOUS
    <3> QED
      BY <2>1, <3>1, <3>2 DEF IRAccepts
  <2> QED
    BY <1>2, <2>2 DEF IRFits, IRAccepts
<1> QED
  BY <1>1, <1>2

LEMMA DirectAgrees ==
  ASSUME NEW src \in Sources, \A i \in DOMAIN src : src[i].pair = <<>>
  PROVE  /\ Interpretable(src, "1.0.0")
         /\ ~ Conflicting(DirectRules(src, "1.0.0"))
<1> DEFINE rules == DirectRules(src, "1.0.0")
<1>1. "1.0.0" \in Catalogs
  BY DEF Catalogs
<1>2. DOMAIN rules = DirectIds(src, "1.0.0")
  BY DEF DirectRules
<1>3. ASSUME NEW id \in DirectIds(src, "1.0.0")
      PROVE  /\ id[2] \in Recognised(src) /\ id[2] \notin UNION Ambiguities[src]
             /\ id = <<"direct", id[2], 1>>
             /\ rules[id] = src[id[2]].meaning
             /\ rules[id] \in Meanings
  <2>1. /\ id[2] \in DOMAIN src /\ id[3] \in DOMAIN Direct(src, "1.0.0", id[2])
        /\ id = <<"direct", id[2], id[3]>>
        /\ rules[id] = Direct(src, "1.0.0", id[2])[id[3]]
        /\ rules[id] \in Rules
    BY <1>1, DirectPlaces
  <2> DEFINE i == id[2]
             j == id[3]
  <2>2. Direct(src, "1.0.0", i) # <<>>
    <3>1. Direct(src, "1.0.0", i) \in Seq(Rules)
      BY <1>1, <2>1, DirectShape
    <3> QED
      BY <2>1, <3>1
  <2>3. /\ i \in Recognised(src) /\ i \notin UNION Ambiguities[src]
        /\ Direct(src, "1.0.0", i) = <<src[i].meaning>>
    BY <2>1, <2>2, DirectHistorical
  <2>4. j = 1 /\ rules[id] = src[i].meaning
    BY <2>1, <2>3
  <2> QED
    BY <2>1, <2>3, <2>4 DEF Meanings
<1> HIDE DEF rules
<1>4. ~ Conflicting(rules)
  <2> SUFFICES ASSUME NEW x \in DOMAIN rules, NEW y \in DOMAIN rules, x # y,
                      RulesConflict(rules[x], rules[y])
               PROVE  FALSE
    BY DEF Conflicting
  <2>1. x[2] # y[2]
    BY <1>2, <1>3
  <2>2. Clash(src, x[2], y[2])
    BY <1>2, <1>3, <2>1 DEF Clash
  <2>3. \E a \in Disputes[src] : x[2] \in a
    BY <1>2, <1>3, <2>2, DisputeShape
  <2> QED
    BY <1>2, <1>3, <2>3, AmbiguityShape
<1>5. IRFits(rules)
  BY <1>2, <1>3, <1>4, AgreementFits
<1> QED
  BY <1>4, <1>5 DEF rules, Interpretable

-----------------------------------------------------------------------------
(* What a list of decisions leads to.                                      *)

Made(catalog, ds) == [catalog |-> catalog, decisions |-> ds, ready |-> FALSE]

(* The readiness of a draft is not looked at.                              *)
LEMMA SameDecisions ==
  ASSUME NEW src, NEW d
  PROVE  /\ Decided(d) = Decided(Made(d.catalog, d.decisions))
         /\ Pending(src, d) = Pending(src, Made(d.catalog, d.decisions))
         /\ Constraints(src, d) = Constraints(src, Made(d.catalog, d.decisions))
         /\ Status(src, d) = Status(src, Made(d.catalog, d.decisions))
<1> DEFINE e == Made(d.catalog, d.decisions)
<1>1. e.catalog = d.catalog /\ e.decisions = d.decisions
  BY DEF Made
<1> HIDE DEF e
<1>2. Decided(d) = Decided(e)
  BY <1>1 DEF Decided
<1>3. Pending(src, d) = Pending(src, e)
  BY <1>1, <1>2 DEF Pending
<1>4. DecidedIds(d) = DecidedIds(e)
  BY <1>1 DEF DecidedIds
<1>5. Constraints(src, d) = Constraints(src, e)
  BY <1>1, <1>4 DEF Constraints
<1>6. Status(src, d) = Status(src, e)
  BY <1>3, <1>5 DEF Status
<1> QED
  BY <1>2, <1>3, <1>5, <1>6 DEF e

LEMMA AppliedShape ==
  ASSUME NEW src, NEW d, NEW decision,
         d = [catalog |-> d.catalog, decisions |-> d.decisions, ready |-> d.ready]
  PROVE  Applied(src, d, decision) =
           [catalog |-> d.catalog, decisions |-> Append(d.decisions, decision),
            ready |-> Status(src, Made(d.catalog, Append(d.decisions, decision)))]
<1> DEFINE next == [catalog |-> d.catalog, decisions |-> Append(d.decisions, decision),
                    ready |-> d.ready]
<1>1. [d EXCEPT !.decisions = Append(@, decision)] = next
  OBVIOUS
<1>2. Applied(src, d, decision) = [next EXCEPT !.ready = Status(src, next)]
  BY <1>1 DEF Applied
<1>3. next.catalog = d.catalog /\ next.decisions = Append(d.decisions, decision)
  OBVIOUS
<1>4. Status(src, next) = Status(src, Made(next.catalog, next.decisions))
  BY SameDecisions
<1> QED
  BY <1>2, <1>3, <1>4

LEMMA ReplayedShape ==
  ASSUME NEW src, NEW catalog, NEW D, NEW ds \in Seq(D)
  PROVE  Replayed(src, catalog, ds) =
           [catalog |-> catalog, decisions |-> ds,
            ready |-> IF ds = <<>> THEN Interpreted(src, catalog).ready
                      ELSE Status(src, Made(catalog, ds))]
<1>1. CASE ds = <<>>
  <2>1. Replayed(src, catalog, ds) = Interpreted(src, catalog)
    BY <1>1 DEF Replayed
  <2>2. Interpreted(src, catalog) = [catalog |-> catalog, decisions |-> <<>>,
                                     ready |-> Interpreted(src, catalog).ready]
    BY DEF Interpreted
  <2> QED
    BY <1>1, <2>1, <2>2
<1>2. CASE ds # <<>>
  <2> DEFINE n == Len(ds)
             d == Made(catalog, SubSeq(ds, 1, n - 1))
  <2>1. n \in Nat /\ n # 0
    BY <1>2
  <2>2. Append(d.decisions, ds[n]) = ds
    BY <2>1 DEF Made
  <2>3. Replayed(src, catalog, ds) = Applied(src, d, ds[n])
    BY <2>1 DEF Replayed, Made
  <2>4. /\ d.catalog = catalog
        /\ d = [catalog |-> d.catalog, decisions |-> d.decisions, ready |-> d.ready]
    BY DEF Made
  <2> HIDE DEF d, n
  <2>5. Applied(src, d, ds[n]) =
           [catalog |-> d.catalog, decisions |-> Append(d.decisions, ds[n]),
            ready |-> Status(src, Made(d.catalog, Append(d.decisions, ds[n])))]
    BY <2>4, AppliedShape
  <2> QED
    BY <1>2, <2>2, <2>3, <2>4, <2>5
<1> QED
  BY <1>1, <1>2

(* The constraints of a list of decisions and where each comes from.       *)
Composed(src, catalog, ds) ==
  /\ DOMAIN Constraints(src, Made(catalog, ds)) =
       DirectIds(src, catalog) \cup DecidedIds(Made(catalog, ds))
  /\ \A id \in DirectIds(src, catalog) :
       /\ id[1] = "direct"
       /\ Constraints(src, Made(catalog, ds))[id] = DirectRules(src, catalog)[id]
  /\ \A k \in DOMAIN ds : \A j \in DOMAIN ds[k].constraint :
       /\ <<"decided", k, j>> \in DecidedIds(Made(catalog, ds))
       /\ Constraints(src, Made(catalog, ds))[<<"decided", k, j>>] = ds[k].constraint[j]
  /\ \A id \in DecidedIds(Made(catalog, ds)) :
       /\ id[2] \in DOMAIN ds /\ id[3] \in DOMAIN ds[id[2]].constraint
       /\ id = <<"decided", id[2], id[3]>>

LEMMA ConstraintsShape ==
  ASSUME NEW src \in Sources, NEW catalog \in Catalogs, NEW ds
  PROVE  Composed(src, catalog, ds)
<1> DEFINE d == Made(catalog, ds)
<1>1. d.catalog = catalog /\ d.decisions = ds
  BY DEF Made
<1> HIDE DEF d
<1>2. Constraints(src, d) =
        [id \in DirectIds(src, catalog) \cup DecidedIds(d) |->
           IF id[1] = "direct" THEN DirectRules(src, catalog)[id]
           ELSE ds[id[2]].constraint[id[3]]]
  BY <1>1 DEF Constraints
<1>3. ASSUME NEW id \in DirectIds(src, catalog)
      PROVE  id[1] = "direct" /\ Constraints(src, d)[id] = DirectRules(src, catalog)[id]
  BY <1>2, DirectPlaces
<1>4. ASSUME NEW k \in DOMAIN ds, NEW j \in DOMAIN ds[k].constraint
      PROVE  /\ <<"decided", k, j>> \in DecidedIds(d)
             /\ Constraints(src, d)[<<"decided", k, j>>] = ds[k].constraint[j]
  <2>1. <<"decided", k, j>> \in DecidedIds(d)
    BY <1>1 DEF DecidedIds
  <2> QED
    BY <1>2, <2>1
<1>5. ASSUME NEW id \in DecidedIds(d)
      PROVE  /\ id[2] \in DOMAIN ds /\ id[3] \in DOMAIN ds[id[2]].constraint
             /\ id = <<"decided", id[2], id[3]>>
  <2>1. PICK k \in DOMAIN ds : \E j \in DOMAIN ds[k].constraint : id = <<"decided", k, j>>
    BY <1>1 DEF DecidedIds
  <2> QED
    BY <2>1
<1> QED
  BY <1>2, <1>3, <1>4, <1>5 DEF Composed, d

(* Whether a list of decisions is refused on the way is seen from the whole. *)
Fit(src, catalog, ds) ==
  /\ Interpretable(src, catalog)
  /\ \A k \in DOMAIN ds :
       ds[k].statement \in DOMAIN src /\ Direct(src, catalog, ds[k].statement) = <<>>
  /\ \A k, l \in DOMAIN ds : ds[k].statement = ds[l].statement => k = l
  /\ IRFits(Constraints(src, Made(catalog, ds)))

LEMMA NoDecisions ==
  ASSUME NEW src \in Sources, NEW catalog \in Catalogs
  PROVE  Constraints(src, Made(catalog, <<>>)) = DirectRules(src, catalog)
<1> DEFINE d == Made(catalog, <<>>)
<1>1. d.catalog = catalog /\ DecidedIds(d) = {}
  BY DEF Made, DecidedIds
<1> HIDE DEF d
<1>2. Constraints(src, d) = [id \in DirectIds(src, catalog) |->
                               IF id[1] = "direct" THEN DirectRules(src, catalog)[id]
                               ELSE d.decisions[id[2]].constraint[id[3]]]
  BY <1>1 DEF Constraints
<1>3. \A id \in DirectIds(src, catalog) : id[1] = "direct"
  BY DirectPlaces
<1>4. DirectRules(src, catalog) =
        [id \in DirectIds(src, catalog) |-> DirectRules(src, catalog)[id]]
  BY DEF DirectRules
<1>5. Constraints(src, d) = [id \in DirectIds(src, catalog) |-> DirectRules(src, catalog)[id]]
  BY <1>2, <1>3
<1> QED
  BY <1>4, <1>5 DEF d

(* Some of the decisions, in any order, put no more than their constraints. *)
LEMMA SomeDecisionsFit ==
  ASSUME NEW src \in Sources, NEW catalog \in Catalogs, NEW ds, NEW es,
         IRFits(Constraints(src, Made(catalog, ds))),
         NEW f \in [DOMAIN es -> DOMAIN ds],
         \A k, l \in DOMAIN es : f[k] = f[l] => k = l,
         \A k \in DOMAIN es : es[k] = ds[f[k]]
  PROVE  IRFits(Constraints(src, Made(catalog, es)))
<1> DEFINE rules == Constraints(src, Made(catalog, ds))
           fewer == Constraints(src, Made(catalog, es))
           direct == DirectIds(src, catalog)
           decided == DecidedIds(Made(catalog, ds))
           again == DecidedIds(Made(catalog, es))
           g == [id \in direct \cup again |->
                   IF id \in direct THEN id ELSE <<"decided", f[id[2]], id[3]>>]
<1>1. /\ DOMAIN rules = direct \cup decided
      /\ \A id \in direct : id[1] = "direct" /\ rules[id] = DirectRules(src, catalog)[id]
      /\ \A k \in DOMAIN ds : \A j \in DOMAIN ds[k].constraint :
           /\ <<"decided", k, j>> \in decided
           /\ rules[<<"decided", k, j>>] = ds[k].constraint[j]
  <2>1. Composed(src, catalog, ds)
    BY ConstraintsShape
  <2> QED
    BY <2>1 DEF Composed
<1>2. /\ DOMAIN fewer = direct \cup again
      /\ \A id \in direct : fewer[id] = DirectRules(src, catalog)[id]
      /\ \A k \in DOMAIN es : \A j \in DOMAIN es[k].constraint :
           fewer[<<"decided", k, j>>] = es[k].constraint[j]
      /\ \A id \in again :
           /\ id[2] \in DOMAIN es /\ id[3] \in DOMAIN es[id[2]].constraint
           /\ id = <<"decided", id[2], id[3]>>
  <2>1. Composed(src, catalog, es)
    BY ConstraintsShape
  <2> QED
    BY <2>1 DEF Composed
<1>3. IRFits(rules)
  OBVIOUS
<1>4. ASSUME NEW id \in again
      PROVE  /\ id \notin direct
             /\ g[id] = <<"decided", f[id[2]], id[3]>>
             /\ g[id] \in decided /\ g[id] \notin direct
             /\ fewer[id] = rules[g[id]]
  <2>1. /\ id[2] \in DOMAIN es /\ id[3] \in DOMAIN es[id[2]].constraint
        /\ id = <<"decided", id[2], id[3]>>
    BY <1>2
  <2>2. id \notin direct
    BY <1>1, <2>1
  <2>3. g[id] = <<"decided", f[id[2]], id[3]>>
    BY <2>2
  <2>4. /\ f[id[2]] \in DOMAIN ds /\ es[id[2]] = ds[f[id[2]]]
    BY <2>1
  <2>5. /\ <<"decided", f[id[2]], id[3]>> \in decided
        /\ rules[<<"decided", f[id[2]], id[3]>>] = ds[f[id[2]]].constraint[id[3]]
    BY <1>1, <2>1, <2>4
  <2>6. fewer[<<"decided", id[2], id[3]>>] = es[id[2]].constraint[id[3]]
    BY <1>2, <2>1
  <2>7. <<"decided", f[id[2]], id[3]>> \notin direct
    BY <1>1
  <2> HIDE DEF g, rules, fewer, direct, decided, again
  <2> QED
    BY <2>1, <2>2, <2>3, <2>4, <2>5, <2>6, <2>7
<1>5. ASSUME NEW id \in direct
      PROVE  g[id] = id /\ fewer[id] = rules[g[id]]
  BY <1>1, <1>2
<1> HIDE DEF g
<1>6. g \in [DOMAIN fewer -> DOMAIN rules]
  <2>1. DOMAIN g = direct \cup again /\ g = [id \in direct \cup again |-> g[id]]
    BY DEF g
  <2> HIDE DEF rules, fewer, direct, decided, again
  <2>2. \A id \in direct \cup again : g[id] \in direct \cup decided
    BY <1>4, <1>5
  <2> QED
    BY <1>1, <1>2, <2>1, <2>2
<1>7. ASSUME NEW x \in DOMAIN fewer, NEW y \in DOMAIN fewer, g[x] = g[y]
      PROVE  x = y
  <2> HIDE DEF rules, fewer, direct, decided, again
  <2>1. CASE x \in direct \/ y \in direct
    BY <1>2, <1>4, <1>5, <1>7, <2>1
  <2>2. CASE x \in again /\ y \in again
    <3>1. f[x[2]] = f[y[2]] /\ x[3] = y[3]
      BY <1>4, <1>7, <2>2
    <3>2. x[2] \in DOMAIN es /\ y[2] \in DOMAIN es
      BY <1>2, <2>2
    <3>3. x[2] = y[2]
      BY <3>1, <3>2
    <3> QED
      BY <1>2, <2>2, <3>1, <3>3
  <2> QED
    BY <1>2, <2>1, <2>2
<1>8. \A x \in DOMAIN fewer : fewer[x] = rules[g[x]]
  <2> HIDE DEF rules, fewer, direct, decided, again
  <2> QED
    BY <1>2, <1>4, <1>5
<1> HIDE DEF rules, fewer
<1>9. IRFits(fewer)
  BY <1>3, <1>6, <1>7, <1>8, FewerFit
<1> QED
  BY <1>9 DEF fewer

LEMMA ReplayStep ==
  ASSUME NEW src \in Sources, NEW catalog \in Catalogs, NEW D, NEW ds \in Seq(D),
         NEW k \in DOMAIN ds
  PROVE  CanApply(src, Replayed(src, catalog, SubSeq(ds, 1, k - 1)), ds[k]) <=>
           /\ ds[k].statement \in DOMAIN src /\ Direct(src, catalog, ds[k].statement) = <<>>
           /\ \A l \in 1..(k - 1) : ds[l].statement # ds[k].statement
           /\ IRFits(Constraints(src, Made(catalog, SubSeq(ds, 1, k))))
<1> DEFINE front == SubSeq(ds, 1, k - 1)
           d == Replayed(src, catalog, front)
           next == Applied(src, d, ds[k])
<1>1. k \in 1..Len(ds) /\ Len(ds) \in Nat /\ k \in Nat
  OBVIOUS
<1>2. front \in Seq(D) /\ DOMAIN front = 1..(k - 1) /\ \A l \in 1..(k - 1) : front[l] = ds[l]
  BY <1>1
<1>3. Append(front, ds[k]) = SubSeq(ds, 1, k)
  BY <1>1
<1> HIDE DEF front
<1>4. d.catalog = catalog /\ d.decisions = front
      /\ d = [catalog |-> d.catalog, decisions |-> d.decisions, ready |-> d.ready]
  BY <1>2, ReplayedShape
<1> HIDE DEF d
<1>5. next.catalog = catalog /\ next.decisions = SubSeq(ds, 1, k)
  BY <1>3, <1>4, AppliedShape
<1> HIDE DEF next
<1>6. Constraints(src, next) = Constraints(src, Made(catalog, SubSeq(ds, 1, k)))
  <2>1. Constraints(src, next) = Constraints(src, Made(next.catalog, next.decisions))
    BY SameDecisions
  <2> QED
    BY <1>5, <2>1
<1>7. ds[k].statement \in Pending(src, d) <=>
        /\ ds[k].statement \in DOMAIN src /\ Direct(src, catalog, ds[k].statement) = <<>>
        /\ \A l \in 1..(k - 1) : ds[l].statement # ds[k].statement
  <2>1. Decided(d) = {ds[l].statement : l \in 1..(k - 1)}
    BY <1>2, <1>4 DEF Decided
  <2> QED
    BY <1>4, <2>1 DEF Pending
<1> QED
  BY <1>6, <1>7 DEF CanApply, d, front, next

LEMMA ReplaysIsFit ==
  ASSUME NEW src \in Sources, NEW catalog \in Catalogs, NEW D, NEW ds \in Seq(D)
  PROVE  Replays(src, catalog, ds) <=> Fit(src, catalog, ds)
<1>1. DOMAIN ds = 1..Len(ds) /\ Len(ds) \in Nat
  OBVIOUS
<1>2. ASSUME Replays(src, catalog, ds)
      PROVE  Fit(src, catalog, ds)
  <2>1. Interpretable(src, catalog)
    BY <1>2 DEF Replays
  <2>2. ASSUME NEW k \in DOMAIN ds
        PROVE  /\ ds[k].statement \in DOMAIN src
               /\ Direct(src, catalog, ds[k].statement) = <<>>
               /\ \A l \in 1..(k - 1) : ds[l].statement # ds[k].statement
               /\ IRFits(Constraints(src, Made(catalog, SubSeq(ds, 1, k))))
    <3>1. CanApply(src, Replayed(src, catalog, SubSeq(ds, 1, k - 1)), ds[k])
      BY <1>2 DEF Replays
    <3> QED
      BY <3>1, ReplayStep
  <2>3. ASSUME NEW k \in DOMAIN ds, NEW l \in DOMAIN ds, ds[k].statement = ds[l].statement
        PROVE  k = l
    <3>1. ~ (l \in 1..(k - 1)) /\ ~ (k \in 1..(l - 1))
      BY <2>2, <2>3
    <3> QED
      BY <1>1, <3>1
  <2>4. IRFits(Constraints(src, Made(catalog, ds)))
    <3>1. CASE ds = <<>>
      BY <2>1, <3>1, NoDecisions DEF Interpretable
    <3>2. CASE ds # <<>>
      <4>1. Len(ds) \in DOMAIN ds /\ SubSeq(ds, 1, Len(ds)) = ds
        BY <3>2
      <4> QED
        BY <2>2, <4>1
    <3> QED
      BY <3>1, <3>2
  <2> QED
    BY <2>1, <2>2, <2>3, <2>4 DEF Fit
<1>3. ASSUME Fit(src, catalog, ds)
      PROVE  Replays(src, catalog, ds)
  <2>1. ASSUME NEW k \in DOMAIN ds
        PROVE  CanApply(src, Replayed(src, catalog, SubSeq(ds, 1, k - 1)), ds[k])
    <3> DEFINE es == SubSeq(ds, 1, k)
               f == [l \in DOMAIN es |-> l]
    <3>1. /\ DOMAIN es = 1..k /\ k \in Nat /\ k <= Len(ds)
          /\ \A l \in DOMAIN es : es[l] = ds[l]
      BY <1>1
    <3>2. /\ f \in [DOMAIN es -> DOMAIN ds]
          /\ \A x, y \in DOMAIN es : f[x] = f[y] => x = y
          /\ \A l \in DOMAIN es : es[l] = ds[f[l]]
      BY <1>1, <3>1
    <3>3. IRFits(Constraints(src, Made(catalog, ds)))
      BY <1>3 DEF Fit
    <3> HIDE DEF es, f
    <3>4. IRFits(Constraints(src, Made(catalog, es)))
      BY <3>2, <3>3, SomeDecisionsFit
    <3>5. \A l \in 1..(k - 1) : ds[l].statement # ds[k].statement
      BY <1>1, <1>3 DEF Fit
    <3>6. ds[k].statement \in DOMAIN src /\ Direct(src, catalog, ds[k].statement) = <<>>
      BY <1>3 DEF Fit
    <3> QED
      BY <3>4, <3>5, <3>6, ReplayStep DEF es
  <2> QED
    BY <1>3, <2>1 DEF Replays, Fit
<1> QED
  BY <1>2, <1>3

LEMMA SomeDecisionsRange ==
  ASSUME NEW src \in Sources, NEW catalog \in Catalogs, NEW ds, NEW es,
         NEW f \in [DOMAIN es -> DOMAIN ds],
         \A k \in DOMAIN es : es[k] = ds[f[k]]
  PROVE  Range(Constraints(src, Made(catalog, es)))
           \subseteq Range(Constraints(src, Made(catalog, ds)))
<1>1. Composed(src, catalog, ds) /\ Composed(src, catalog, es)
  BY ConstraintsShape
<1> DEFINE rules == Constraints(src, Made(catalog, ds))
           fewer == Constraints(src, Made(catalog, es))
           direct == DirectIds(src, catalog)
           decided == DecidedIds(Made(catalog, ds))
           again == DecidedIds(Made(catalog, es))
<1>2. ASSUME NEW id \in DOMAIN fewer
      PROVE  \E x \in DOMAIN rules : rules[x] = fewer[id]
  <2>1. CASE id \in direct
    <3>1. id \in DOMAIN rules /\ rules[id] = fewer[id]
      BY <1>1, <2>1 DEF Composed
    <3> QED
      BY <3>1
  <2>2. CASE id \in again
    <3>1. /\ id[2] \in DOMAIN es /\ id[3] \in DOMAIN es[id[2]].constraint
          /\ id = <<"decided", id[2], id[3]>>
      BY <1>1, <2>2 DEF Composed
    <3>2. fewer[<<"decided", id[2], id[3]>>] = es[id[2]].constraint[id[3]]
      BY <1>1, <3>1 DEF Composed
    <3>3. f[id[2]] \in DOMAIN ds /\ es[id[2]] = ds[f[id[2]]]
      BY <3>1
    <3>4. /\ <<"decided", f[id[2]], id[3]>> \in DOMAIN rules
          /\ rules[<<"decided", f[id[2]], id[3]>>] = ds[f[id[2]]].constraint[id[3]]
      BY <1>1, <3>1, <3>3 DEF Composed
    <3> QED
      BY <3>1, <3>2, <3>3, <3>4
  <2>3. id \in direct \cup again
    BY <1>1 DEF Composed
  <2> QED
    BY <2>1, <2>2, <2>3
<1> HIDE DEF rules, fewer
<1>3. Range(fewer) \subseteq Range(rules)
  BY <1>2 DEF Range
<1> QED
  BY <1>3 DEF rules, fewer

LEMMA SameRangeStatus ==
  ASSUME NEW src, NEW d, NEW e, d.catalog = e.catalog, Decided(d) = Decided(e),
         Range(Constraints(src, d)) = Range(Constraints(src, e))
  PROVE  Status(src, d) = Status(src, e)
<1>1. Pending(src, d) = Pending(src, e)
  BY DEF Pending
<1>2. DOMAIN Constraints(src, d) # {} <=> DOMAIN Constraints(src, e) # {}
  BY DEF Range
<1> QED
  BY <1>1, <1>2 DEF Status

LEMMA ShuffledDecisions ==
  ASSUME NEW src \in Sources, NEW catalog \in Catalogs, NEW D, NEW ds \in Seq(D),
         Replays(src, catalog, ds), NEW other \in Shuffled(ds)
  PROVE  /\ Replays(src, catalog, other)
         /\ Replayed(src, catalog, other).ready = Replayed(src, catalog, ds).ready
         /\ Range(Constraints(src, Replayed(src, catalog, other))) =
              Range(Constraints(src, Replayed(src, catalog, ds)))
<1>1. PICK f \in [DOMAIN ds -> DOMAIN ds] :
        /\ other = [k \in DOMAIN ds |-> ds[f[k]]]
        /\ \A k, l \in DOMAIN ds : f[k] = f[l] => k = l
        /\ \A l \in DOMAIN ds : \E k \in DOMAIN ds : f[k] = l
        /\ DOMAIN other = DOMAIN ds
        /\ \A k \in DOMAIN ds : other[k] = ds[f[k]]
  BY ShuffleShape
<1>2. other \in Seq(D)
  <2>1. DOMAIN ds = 1..Len(ds) /\ Len(ds) \in Nat /\ \A k \in DOMAIN ds : ds[k] \in D
    OBVIOUS
  <2>2. \A k \in 1..Len(ds) : ds[f[k]] \in D
    BY <2>1
  <2> QED
    BY <1>1, <2>1, <2>2
<1> DEFINE g == [l \in DOMAIN ds |-> CHOOSE k \in DOMAIN ds : f[k] = l]
<1>3. /\ g \in [DOMAIN ds -> DOMAIN other]
      /\ \A l \in DOMAIN ds : ds[l] = other[g[l]]
  <2>1. \A l \in DOMAIN ds : g[l] \in DOMAIN ds /\ f[g[l]] = l
    BY <1>1
  <2>2. g \in [DOMAIN ds -> DOMAIN ds]
    BY <2>1
  <2> HIDE DEF g
  <2> QED
    BY <1>1, <2>1, <2>2
<1> HIDE DEF g
<1>4. /\ f \in [DOMAIN other -> DOMAIN ds]
      /\ \A k, l \in DOMAIN other : f[k] = f[l] => k = l
      /\ \A k \in DOMAIN other : other[k] = ds[f[k]]
  BY <1>1
<1>5. Fit(src, catalog, ds)
  BY ReplaysIsFit
<1>6. Fit(src, catalog, other)
  <2>1. IRFits(Constraints(src, Made(catalog, other)))
    <3>1. IRFits(Constraints(src, Made(catalog, ds)))
      BY <1>5 DEF Fit
    <3> QED
      BY <1>4, <3>1, SomeDecisionsFit
  <2>2. ASSUME NEW k \in DOMAIN other
        PROVE  other[k].statement \in DOMAIN src /\ Direct(src, catalog, other[k].statement) = <<>>
    <3>1. f[k] \in DOMAIN ds /\ other[k] = ds[f[k]]
      BY <1>4
    <3> QED
      BY <1>5, <3>1 DEF Fit
  <2>3. ASSUME NEW k \in DOMAIN other, NEW l \in DOMAIN other,
               other[k].statement = other[l].statement
        PROVE  k = l
    <3>1. /\ f[k] \in DOMAIN ds /\ other[k] = ds[f[k]]
          /\ f[l] \in DOMAIN ds /\ other[l] = ds[f[l]]
      BY <1>4
    <3>2. f[k] = f[l]
      BY <1>5, <2>3, <3>1 DEF Fit
    <3> QED
      BY <1>4, <3>2
  <2> QED
    BY <1>5, <2>1, <2>2, <2>3 DEF Fit
<1>7. Replays(src, catalog, other)
  BY <1>2, <1>6, ReplaysIsFit
<1> DEFINE d == Made(catalog, ds)
           e == Made(catalog, other)
<1>8. Range(Constraints(src, e)) = Range(Constraints(src, d))
  <2>1. Range(Constraints(src, e)) \subseteq Range(Constraints(src, d))
    BY <1>4, SomeDecisionsRange
  <2>2. Range(Constraints(src, d)) \subseteq Range(Constraints(src, e))
    BY <1>3, SomeDecisionsRange
  <2> QED
    BY <2>1, <2>2
<1>9. Decided(e) = Decided(d)
  <2>1. e.decisions = other /\ d.decisions = ds
    BY DEF Made
  <2> HIDE DEF d, e
  <2> QED
    BY <1>3, <1>4, <2>1 DEF Decided
<1>10. Status(src, e) = Status(src, d)
  <2>1. e.catalog = d.catalog
    BY DEF Made
  <2> HIDE DEF d, e
  <2> QED
    BY <1>8, <1>9, <2>1, SameRangeStatus
<1>11. other = <<>> <=> ds = <<>>
  BY <1>1, <1>2
<1> DEFINE rd == Replayed(src, catalog, ds)
           re == Replayed(src, catalog, other)
<1>12. rd = [catalog |-> catalog, decisions |-> ds,
             ready |-> IF ds = <<>> THEN Interpreted(src, catalog).ready
                       ELSE Status(src, Made(catalog, ds))]
  BY ReplayedShape
<1>13. re = [catalog |-> catalog, decisions |-> other,
             ready |-> IF other = <<>> THEN Interpreted(src, catalog).ready
                       ELSE Status(src, Made(catalog, other))]
  BY <1>2, ReplayedShape
<1> HIDE DEF rd, re
<1>14. /\ rd.catalog = catalog /\ rd.decisions = ds
       /\ re.catalog = catalog /\ re.decisions = other
  BY <1>12, <1>13
<1>15. re.ready = rd.ready
  BY <1>10, <1>11, <1>12, <1>13
<1>16. Constraints(src, rd) = Constraints(src, d)
  <2>1. Constraints(src, rd) = Constraints(src, Made(rd.catalog, rd.decisions))
    BY SameDecisions
  <2> QED
    BY <1>14, <2>1
<1>17. Constraints(src, re) = Constraints(src, e)
  <2>1. Constraints(src, re) = Constraints(src, Made(re.catalog, re.decisions))
    BY SameDecisions
  <2> QED
    BY <1>14, <2>1
<1> QED
  BY <1>7, <1>8, <1>15, <1>16, <1>17 DEF rd, re

-----------------------------------------------------------------------------
(* The invariant is inductive.                                             *)

LEMMA DecisionShape ==
  ASSUME NEW src, NEW catalog, NEW decision \in AnyDecision(src, catalog)
  PROVE  /\ decision.statement \in DOMAIN src /\ decision.at \in Times
         /\ IF decision.disposition = "enforced"
            THEN \E r \in Rules : r.action \in ActionsOf(catalog) /\ decision.constraint = <<r>>
            ELSE decision.constraint = <<>>
<1>1. PICK i \in DOMAIN src, t \in Times : decision \in Decisions(catalog, i, t)
  BY DEF AnyDecision
<1> DEFINE controls == {<<r>> : r \in {c \in Rules : c.action \in ActionsOf(catalog)}}
<1>2. CASE decision \in [statement : {i}, disposition : {"enforced"}, at : {t},
                         constraint : controls]
  <2>1. decision.constraint \in controls
    BY <1>2
  <2> QED
    BY <1>2, <2>1
<1>3. CASE decision \in [statement : {i}, disposition : {"informational", "unsupported"}, at : {t},
                         constraint : {<<>>}]
  BY <1>3
<1> QED
  BY <1>1, <1>2, <1>3 DEF Decisions

LEMMA DecisionAdded ==
  ASSUME NEW src, NEW catalog, NEW D, NEW ds \in Seq(D), NEW decision \in D,
         Replays(src, catalog, ds), CanApply(src, Replayed(src, catalog, ds), decision)
  PROVE  /\ Replays(src, catalog, Append(ds, decision))
         /\ Applied(src, Replayed(src, catalog, ds), decision) =
              Replayed(src, catalog, Append(ds, decision))
         /\ Replayed(src, catalog, Append(ds, decision)).catalog = catalog
         /\ Replayed(src, catalog, Append(ds, decision)).decisions = Append(ds, decision)
<1> DEFINE all == Append(ds, decision)
           n == Len(ds)
<1>1. /\ n \in Nat /\ all \in Seq(D) /\ all # <<>> /\ DOMAIN all = 1..(n + 1)
      /\ all[n + 1] = decision /\ SubSeq(all, 1, n) = ds
      /\ \A k \in 1..n : all[k] = ds[k] /\ SubSeq(all, 1, k - 1) = SubSeq(ds, 1, k - 1)
  OBVIOUS
<1>2. ASSUME NEW k \in DOMAIN all
      PROVE  CanApply(src, Replayed(src, catalog, SubSeq(all, 1, k - 1)), all[k])
  <2>1. CASE k \in 1..n
    <3>1. all[k] = ds[k] /\ SubSeq(all, 1, k - 1) = SubSeq(ds, 1, k - 1) /\ k \in DOMAIN ds
      BY <1>1, <2>1
    <3>2. CanApply(src, Replayed(src, catalog, SubSeq(ds, 1, k - 1)), ds[k])
      BY <3>1 DEF Replays
    <3> HIDE DEF all
    <3> QED
      BY <3>1, <3>2
  <2>2. CASE k = n + 1
    <3>1. k - 1 = n
      BY <1>1, <2>2
    <3>2. all[k] = decision /\ SubSeq(all, 1, k - 1) = ds
      BY <1>1, <2>2, <3>1
    <3> HIDE DEF all
    <3> QED
      BY <3>2
  <2>3. k \in 1..n \/ k = n + 1
    BY <1>1
  <2> QED
    BY <2>1, <2>2, <2>3
<1>3. Replays(src, catalog, all)
  BY <1>2 DEF Replays
<1> DEFINE d == Replayed(src, catalog, ds)
<1>4. /\ d.catalog = catalog /\ d.decisions = ds
      /\ d = [catalog |-> d.catalog, decisions |-> d.decisions, ready |-> d.ready]
  BY ReplayedShape
<1> HIDE DEF d
<1>5. Applied(src, d, decision) =
        [catalog |-> catalog, decisions |-> all, ready |-> Status(src, Made(catalog, all))]
  BY <1>4, AppliedShape
<1>6. Replayed(src, catalog, all) =
        [catalog |-> catalog, decisions |-> all,
         ready |-> IF all = <<>> THEN Interpreted(src, catalog).ready
                   ELSE Status(src, Made(catalog, all))]
  BY <1>1, ReplayedShape
<1>7. all # <<>>
  BY <1>1
<1> HIDE DEF all
<1>8. /\ Applied(src, d, decision) = Replayed(src, catalog, all)
      /\ Replayed(src, catalog, all).catalog = catalog
      /\ Replayed(src, catalog, all).decisions = all
  BY <1>5, <1>6, <1>7
<1> QED
  BY <1>3, <1>8 DEF d, all

LEMMA InitHolds == Init => IInv
BY DEF Init, IInv, DraftHeld

LEMMA NextHolds == IInv /\ [Next]_vars => IInv'
<1> SUFFICES ASSUME IInv, [Next]_vars PROVE IInv'
  OBVIOUS
<1> USE DEF IInv
<1>1. ASSUME NEW a \in Ambiguities[source], NEW t \in Times, NEW option \in Options(source, a),
             Resolve(a, option, t)
      PROVE  IInv'
  <2>1. /\ source' = source /\ draft' = draft /\ publication' = publication
        /\ resolutions' = Append(resolutions, [ambiguity |-> a, option |-> option, at |-> t])
    BY <1>1 DEF Resolve
  <2>2. [ambiguity |-> a, option |-> option, at |-> t] \in Records(source)
    BY DEF Records
  <2>3. resolutions' \in Seq(Records(source))
    <3> HIDE DEF Records
    <3> QED BY <2>1, <2>2
  <2>4. DraftHeld'
    BY <2>1 DEF DraftHeld
  <2> QED
    BY <2>1, <2>3, <2>4
<1>2. ASSUME NEW catalog \in Catalogs, Interpret(catalog)
      PROVE  IInv'
  <2>1. /\ source' = source /\ resolutions' = resolutions /\ publication' = publication
        /\ draft' = Interpreted(source, catalog) /\ Interpretable(source, catalog)
    BY <1>2 DEF Interpret
  <2>2. draft'.catalog = catalog /\ draft'.decisions = <<>>
    BY <2>1 DEF Interpreted
  <2>3. Replays(source, catalog, <<>>) /\ draft' = Replayed(source, catalog, <<>>)
    BY <2>1 DEF Replays, Replayed
  <2>4. <<>> \in Seq(AnyDecision(source, catalog))
    OBVIOUS
  <2>5. DraftHeld'
    BY <2>1, <2>2, <2>3, <2>4 DEF DraftHeld
  <2> QED
    BY <2>1, <2>5
<1>3. ASSUME draft # None, NEW i \in Pending(source, draft), NEW t \in Times,
             NEW decision \in Decisions(draft.catalog, i, t), Decide(decision)
      PROVE  IInv'
  <2>1. /\ source' = source /\ resolutions' = resolutions /\ publication' = publication
        /\ CanApply(source, draft, decision) /\ draft' = Applied(source, draft, decision)
    BY <1>3 DEF Decide
  <2> DEFINE catalog == draft.catalog
             ds == draft.decisions
             D == AnyDecision(source, catalog)
  <2>2. /\ catalog \in Catalogs /\ ds \in Seq(D)
        /\ Replays(source, catalog, ds) /\ draft = Replayed(source, catalog, ds)
    BY <1>3 DEF DraftHeld
  <2>3. decision \in D
    BY DEF Pending, AnyDecision
  <2>4. CanApply(source, Replayed(source, catalog, ds), decision)
    BY <2>1, <2>2
  <2>5. draft' = Applied(source, Replayed(source, catalog, ds), decision)
    BY <2>1, <2>2
  <2> HIDE DEF catalog, ds, D
  <2>6. /\ Replays(source, catalog, Append(ds, decision))
        /\ draft' = Replayed(source, catalog, Append(ds, decision))
        /\ draft'.catalog = catalog /\ draft'.decisions = Append(ds, decision)
    BY <2>2, <2>3, <2>4, <2>5, DecisionAdded
  <2>7. Append(ds, decision) \in Seq(D)
    BY <2>2, <2>3
  <2>8. DraftHeld'
    BY <2>1, <2>2, <2>6, <2>7 DEF DraftHeld, D
  <2> QED
    BY <2>1, <2>8
<1>4. ASSUME NEW approved \in Times, NEW committed \in Times, NEW published \in Times,
             FinalizeV1(approved, committed, published)
      PROVE  IInv'
  <2>1. /\ source' = source /\ resolutions' = resolutions /\ draft' = draft
        /\ publication' = [version |-> "v1", rules |-> ConfirmedRules(source, resolutions)]
        /\ DOMAIN ConfirmedRules(source, resolutions) # {}
    BY <1>4 DEF FinalizeV1, Publish, V1Accepts
  <2>2. DraftHeld'
    BY <2>1 DEF DraftHeld
  <2> QED
    BY <2>1, <2>2
<1>5. ASSUME NEW approved \in Times, NEW committed \in Times, NEW published \in Times,
             FinalizeV2(approved, committed, published)
      PROVE  IInv'
  <2>1. /\ source' = source /\ resolutions' = resolutions /\ draft' = draft
        /\ publication' = [version |-> "v2", rules |-> Constraints(source, draft)]
        /\ HasGrant(Constraints(source, draft))
    BY <1>5 DEF FinalizeV2, Publish, V2Accepts
  <2>2. DOMAIN Constraints(source, draft) # {}
    BY <2>1 DEF HasGrant
  <2>3. DraftHeld'
    BY <2>1 DEF DraftHeld
  <2> QED
    BY <2>1, <2>2, <2>3
<1>6. CASE UNCHANGED vars
  BY <1>6 DEF vars, DraftHeld
<1>7. CASE Next
  BY <1>1, <1>2, <1>3, <1>4, <1>5, <1>7 DEF Next
<1> QED
  BY <1>6, <1>7

LEMMA Invariance == Spec => []IInv
BY InitHolds, NextHolds, PTL DEF Spec

-----------------------------------------------------------------------------
(* The properties.                                                         *)

LEMMA HeldResolutions ==
  ASSUME IInv
  PROVE  /\ source \in Sources
         /\ resolutions \in Seq(Records(source))
         /\ DOMAIN resolutions \subseteq Nat
BY DEF IInv

LEMMA TypeHolds == IInv => TypeOK
<1> SUFFICES ASSUME IInv PROVE TypeOK
  OBVIOUS
<1>1. source \in Sources /\ resolutions \in Seq(Records(source))
  BY HeldResolutions
<1>2. ASSUME NEW k \in DOMAIN resolutions
      PROVE  /\ resolutions[k].ambiguity \subseteq DOMAIN source
             /\ resolutions[k].option \in [resolutions[k].ambiguity -> Classes]
             /\ resolutions[k].at \in Times
  <2>1. resolutions[k] \in Records(source)
    BY <1>1
  <2> QED
    BY <1>1, <2>1, RecordShape
<1>3. ASSUME draft # None
      PROVE  /\ draft.catalog \in Catalogs /\ draft.ready \in BOOLEAN
             /\ \A k \in DOMAIN draft.decisions :
                  draft.decisions[k] \in AnyDecision(source, draft.catalog)
  <2> DEFINE catalog == draft.catalog
             ds == draft.decisions
  <2>1. /\ catalog \in Catalogs /\ ds \in Seq(AnyDecision(source, catalog))
        /\ draft = Replayed(source, catalog, ds)
    BY <1>3 DEF IInv, DraftHeld
  <2>2. Interpreted(source, catalog).ready \in BOOLEAN
    BY DEF Interpreted
  <2>3. Status(source, Made(catalog, ds)) \in BOOLEAN
    BY DEF Status
  <2> HIDE DEF catalog, ds
  <2>4. Replayed(source, catalog, ds) =
          [catalog |-> catalog, decisions |-> ds,
           ready |-> IF ds = <<>> THEN Interpreted(source, catalog).ready
                     ELSE Status(source, Made(catalog, ds))]
    BY <2>1, ReplayedShape
  <2>5. draft.ready \in BOOLEAN
    BY <2>1, <2>2, <2>3, <2>4
  <2> QED
    BY <2>1, <2>5 DEF catalog, ds
<1>4. publication # None => publication.version \in {"v1", "v2"} /\ DOMAIN publication.rules # {}
  BY DEF IInv
<1> QED
  BY <1>1, <1>2, <1>3, <1>4, DecisionShape DEF TypeOK, Classes

(* Whatever a caller does with a source, what it holds of resolutions and  *)
(* drafts, and what was published, has its shape.                          *)
THEOREM TypeCorrect == Spec => []TypeOK
BY Invariance, TypeHolds, PTL

(* Full answers leave no two plain statements in conflict, however long    *)
(* the chains of conflicts were and whichever answers were given.          *)
THEOREM AnswersSettle == Spec => []AnswersSettleDisputes
<1>1. IInv => AnswersSettleDisputes
  BY HeldResolutions, DisputesSettled DEF AnswersSettleDisputes
<1> QED
  BY <1>1, Invariance, PTL

(* What full answers amount to does not depend on their order, although a  *)
(* later record overrides an earlier one: ambiguities have no statement in *)
(* common.                                                                 *)
THEOREM AnyOrderOfAnswers == Spec => []ResolutionOrderImmaterial
<1>1. IInv => ResolutionOrderImmaterial
  BY HeldResolutions, ShuffledAnswers DEF ResolutionOrderImmaterial
<1> QED
  BY <1>1, Invariance, PTL

(* Full answers can be published unless nothing is enforced, a recovered   *)
(* meaning overlaps another one, or a dispute is longer than a record may  *)
(* be; nothing else is in the way.                                         *)
THEOREM AnswersPublishable == Spec => []AnsweredIsPublishable
<1>1. IInv => AnsweredIsPublishable
  BY HeldResolutions, PublishableAnswers DEF AnsweredIsPublishable, AnswersConsistent
<1> QED
  BY <1>1, Invariance, PTL

(* Without the sentence of two paths, what the historical catalog reads    *)
(* directly neither stops the interpretation nor contradicts itself.       *)
THEOREM DirectMeanings == Spec => []DirectMeaningsAgree
<1>1. IInv => DirectMeaningsAgree
  BY HeldResolutions, DirectAgrees DEF DirectMeaningsAgree
<1> QED
  BY <1>1, Invariance, PTL

(* The decisions of a draft can be made in any order, with the same        *)
(* readiness and the same constraints.                                     *)
THEOREM AnyOrderOfDecisions == Spec => []DecisionOrderImmaterial
<1>1. IInv => DecisionOrderImmaterial
  <2> SUFFICES ASSUME IInv, draft # None, NEW other \in Shuffled(draft.decisions)
               PROVE  LET d == Replayed(source, draft.catalog, other)
                      IN /\ Replays(source, draft.catalog, other)
                         /\ d.ready = draft.ready
                         /\ Range(Constraints(source, d)) = Range(Constraints(source, draft))
    BY DEF DecisionOrderImmaterial
  <2> DEFINE catalog == draft.catalog
             ds == draft.decisions
             D == AnyDecision(source, catalog)
  <2>1. /\ source \in Sources /\ catalog \in Catalogs /\ ds \in Seq(D)
        /\ Replays(source, catalog, ds) /\ draft = Replayed(source, catalog, ds)
    BY DEF IInv, DraftHeld
  <2>2. other \in Shuffled(ds)
    OBVIOUS
  <2> HIDE DEF catalog, ds, D
  <2>3. /\ Replays(source, catalog, other)
        /\ Replayed(source, catalog, other).ready = Replayed(source, catalog, ds).ready
        /\ Range(Constraints(source, Replayed(source, catalog, other))) =
             Range(Constraints(source, Replayed(source, catalog, ds)))
    BY <2>1, <2>2, ShuffledDecisions
  <2> QED
    BY <2>1, <2>3 DEF catalog
<1> QED
  BY <1>1, Invariance, PTL

-----------------------------------------------------------------------------
(* The tracks compared.                                                    *)

Open(src) == {i \in DOMAIN src : Direct(src, "1.0.0", i) = <<>>}
UpTo(S, i) == {j \in S : j <= i}
Nth(S, k) == CHOOSE i \in S : Cardinality(UpTo(S, i)) = k

(* The members of a finite set of numbers, counted.                        *)
LEMMA Counting ==
  ASSUME NEW S \in SUBSET Nat, IsFiniteSet(S)
  PROVE  /\ Cardinality(S) \in Nat
         /\ \A k \in 1..Cardinality(S) : Nth(S, k) \in S
         /\ \A k, l \in 1..Cardinality(S) : Nth(S, k) = Nth(S, l) => k = l
         /\ \A i \in S : \E k \in 1..Cardinality(S) : Nth(S, k) = i
<1> DEFINE n == Cardinality(S)
           rank == [i \in S |-> Cardinality(UpTo(S, i))]
<1>1. n \in Nat
  BY FS_CardinalityType
<1>2. ASSUME NEW i \in S
      PROVE  /\ UpTo(S, i) \in SUBSET S /\ IsFiniteSet(UpTo(S, i)) /\ i \in UpTo(S, i)
             /\ rank[i] = Cardinality(UpTo(S, i)) /\ rank[i] \in 1..n
  <2>1. UpTo(S, i) \in SUBSET S /\ i \in UpTo(S, i)
    BY DEF UpTo
  <2>2. IsFiniteSet(UpTo(S, i)) /\ Cardinality(UpTo(S, i)) <= n
    BY <2>1, FS_Subset
  <2>3. Cardinality(UpTo(S, i)) \in Nat /\ Cardinality(UpTo(S, i)) # 0
    BY <2>1, <2>2, FS_CardinalityType, FS_EmptySet
  <2> QED
    BY <1>1, <2>1, <2>2, <2>3
<1> HIDE DEF rank
<1>3. ASSUME NEW i \in S, NEW j \in S, i < j
      PROVE  rank[i] # rank[j]
  <2>1. UpTo(S, i) \in SUBSET UpTo(S, j) /\ j \notin UpTo(S, i)
    <3>1. S \subseteq Nat
      OBVIOUS
    <3>2. \A x \in Nat : x <= i => x <= j
      BY <1>3, <3>1
    <3>3. i \in Nat /\ j \in Nat /\ ~ (j <= i)
      BY <1>3, <3>1
    <3> QED
      BY <3>1, <3>2, <3>3 DEF UpTo
  <2>2. Cardinality(UpTo(S, j)) = Cardinality(UpTo(S, i)) => UpTo(S, j) = UpTo(S, i)
    BY <1>2, <2>1, FS_Subset
  <2> QED
    BY <1>2, <2>1, <2>2
<1>4. \A i, j \in S : rank[i] = rank[j] => i = j
  BY <1>3
<1>5. rank \in [S -> 1..n]
  BY <1>2 DEF rank
<1>6. rank \in Injection(S, 1..n)
  BY <1>4, <1>5 DEF Injection, IsInjective
<1>7. IsFiniteSet(1..n) /\ Cardinality(1..n) = n
  BY <1>1, FS_Interval
<1>8. rank \in Surjection(S, 1..n)
  BY <1>6, <1>7, FS_Injection
<1>9. \A k \in 1..n : \E i \in S : rank[i] = k
  BY <1>8 DEF Surjection
<1>10. \A k \in 1..n : Nth(S, k) \in S /\ rank[Nth(S, k)] = k
  BY <1>2, <1>9 DEF Nth
<1>11. ASSUME NEW i \in S
       PROVE  \E k \in 1..n : Nth(S, k) = i
  BY <1>2, <1>4, <1>10
<1>12. ASSUME NEW k \in 1..n, NEW l \in 1..n, Nth(S, k) = Nth(S, l)
       PROVE  k = l
  BY <1>10, <1>12
<1> QED
  BY <1>1, <1>10, <1>11, <1>12

DecidedAs(src, records, i) ==
  [statement |-> i, disposition |-> Outcome(src, records)[i], at |-> records[1].at,
   constraint |-> IF Outcome(src, records)[i] = "enforced" THEN <<src[i].meaning>> ELSE <<>>]

LEMMA AsDecidedShape ==
  ASSUME NEW src \in Sources, NEW records
  PROVE  /\ Cardinality(Open(src)) \in Nat
         /\ AsDecided(src, records) =
              [k \in 1..Cardinality(Open(src)) |-> DecidedAs(src, records, Nth(Open(src), k))]
         /\ \A k \in 1..Cardinality(Open(src)) : Nth(Open(src), k) \in Open(src)
         /\ \A k, l \in 1..Cardinality(Open(src)) : Nth(Open(src), k) = Nth(Open(src), l) => k = l
         /\ \A i \in Open(src) : \E k \in 1..Cardinality(Open(src)) : Nth(Open(src), k) = i
<1>1. Open(src) \in SUBSET Nat /\ IsFiniteSet(Open(src))
  BY SourceShape, FS_Subset DEF Open
<1>2. AsDecided(src, records) =
        [k \in 1..Cardinality(Open(src)) |-> DecidedAs(src, records, Nth(Open(src), k))]
  BY DEF AsDecided, Open, Nth, UpTo, DecidedAs
<1> QED
  BY <1>1, <1>2, Counting

(* What both tracks enforce, statement by statement: each enforced         *)
(* statement has one constraint in the draft.                              *)
LEMMA DecidedRules ==
  ASSUME NEW src \in Sources, NEW records, DOMAIN records \subseteq Nat,
         Answered(src, records), Comparable(src)
  PROVE  \E place \in [EnforcedOf(src, records) ->
                         DOMAIN Constraints(src, Made("1.0.0", AsDecided(src, records)))] :
           /\ \A i, j \in EnforcedOf(src, records) : place[i] = place[j] => i = j
           /\ \A id \in DOMAIN Constraints(src, Made("1.0.0", AsDecided(src, records))) :
                \E i \in EnforcedOf(src, records) : place[i] = id
           /\ \A i \in EnforcedOf(src, records) :
                Constraints(src, Made("1.0.0", AsDecided(src, records)))[place[i]] = src[i].meaning
<1> DEFINE ds == AsDecided(src, records)
           n == Cardinality(Open(src))
           enforced == EnforcedOf(src, records)
           direct == DirectIds(src, "1.0.0")
           decided == DecidedIds(Made("1.0.0", ds))
           rules == Constraints(src, Made("1.0.0", ds))
           nth(k) == Nth(Open(src), k)
           nr(i) == CHOOSE k \in 1..n : nth(k) = i
           place == [i \in enforced |-> IF i \in Open(src) THEN <<"decided", nr(i), 1>>
                                        ELSE <<"direct", i, 1>>]
<1>1. "1.0.0" \in Catalogs
  BY DEF Catalogs
<1>2. Composed(src, "1.0.0", ds)
  BY <1>1, ConstraintsShape
<1>3. /\ ds = [k \in 1..n |-> DecidedAs(src, records, nth(k))]
      /\ \A k \in 1..n : nth(k) \in Open(src)
      /\ \A k, l \in 1..n : nth(k) = nth(l) => k = l
      /\ \A i \in Open(src) : \E k \in 1..n : nth(k) = i
  BY AsDecidedShape
<1>4. ASSUME NEW k \in 1..n
      PROVE  /\ k \in DOMAIN ds /\ nth(k) \in DOMAIN src
             /\ nth(k) \in enforced => ds[k].constraint = <<src[nth(k)].meaning>>
             /\ nth(k) \notin enforced => ds[k].constraint = <<>>
  <2>1. nth(k) \in DOMAIN src
    BY <1>3 DEF Open
  <2>2. k \in DOMAIN ds /\ ds[k] = DecidedAs(src, records, nth(k))
    BY <1>3
  <2>3. nth(k) \in enforced <=> Outcome(src, records)[nth(k)] = "enforced"
    BY <2>1 DEF EnforcedOf
  <2> HIDE DEF nth, ds, n
  <2> QED
    BY <2>1, <2>2, <2>3 DEF DecidedAs
<1>5. ASSUME NEW i \in DOMAIN src, i \notin Open(src)
      PROVE  i \in enforced /\ Direct(src, "1.0.0", i) = <<src[i].meaning>>
  <2>1. src[i].pair = <<>>
    BY DEF Comparable
  <2>2. Direct(src, "1.0.0", i) # <<>>
    BY <1>5 DEF Open
  <2>3. /\ i \in Recognised(src) /\ i \notin UNION Ambiguities[src]
        /\ Direct(src, "1.0.0", i) = <<src[i].meaning>>
    BY <2>1, <2>2, DirectHistorical
  <2>4. Outcome(src, records)[i] = "enforced"
    BY <2>3, OutcomeOfAnswers DEF Recognised
  <2> QED
    BY <2>3, <2>4 DEF EnforcedOf
<1>6. enforced \subseteq DOMAIN src
  BY EnforcedShape
<1>7. \A i \in Open(src) : nr(i) \in 1..n /\ nth(nr(i)) = i
  BY <1>3
<1>8. ASSUME NEW i \in enforced
      PROVE  /\ i \in Open(src) => place[i] = <<"decided", nr(i), 1>>
             /\ i \notin Open(src) => place[i] = <<"direct", i, 1>>
             /\ place[i] \in DOMAIN rules /\ rules[place[i]] = src[i].meaning
  <2>1. CASE i \in Open(src)
    <3>1. place[i] = <<"decided", nr(i), 1>>
      BY <2>1
    <3>2. nr(i) \in 1..n /\ nth(nr(i)) = i
      BY <1>7, <2>1
    <3>3. nr(i) \in DOMAIN ds /\ ds[nr(i)].constraint = <<src[i].meaning>>
      <4> HIDE DEF nr, nth, ds, n, enforced
      <4> QED BY <1>4, <3>2
    <3>4. 1 \in DOMAIN ds[nr(i)].constraint /\ ds[nr(i)].constraint[1] = src[i].meaning
      <4> HIDE DEF nr, ds
      <4> QED BY <3>3
    <3>5. /\ <<"decided", nr(i), 1>> \in DOMAIN rules
          /\ rules[<<"decided", nr(i), 1>>] = src[i].meaning
      <4> HIDE DEF nr, ds
      <4> QED BY <1>2, <3>3, <3>4 DEF Composed
    <3> HIDE DEF place, rules, nr
    <3> QED
      BY <2>1, <3>1, <3>5
  <2>2. CASE i \notin Open(src)
    <3>1. place[i] = <<"direct", i, 1>>
      BY <2>2
    <3>2. Direct(src, "1.0.0", i) = <<src[i].meaning>>
      BY <1>5, <1>6, <2>2
    <3>3. <<"direct", i, 1>> \in direct
      BY <1>6, <3>2 DEF DirectIds
    <3>4. DirectRules(src, "1.0.0")[<<"direct", i, 1>>] = src[i].meaning
      BY <3>2, <3>3 DEF DirectRules
    <3>5. /\ <<"direct", i, 1>> \in DOMAIN rules
          /\ rules[<<"direct", i, 1>>] = src[i].meaning
      <4> HIDE DEF ds
      <4> QED BY <1>2, <3>3, <3>4 DEF Composed
    <3> HIDE DEF place, rules, nr
    <3> QED
      BY <2>2, <3>1, <3>5
  <2> QED
    BY <2>1, <2>2
<1>9. ASSUME NEW i \in enforced, NEW j \in enforced, place[i] = place[j]
      PROVE  i = j
  <2> HIDE DEF place, nr, nth, n, rules, enforced
  <2>1. CASE i \in Open(src) /\ j \in Open(src)
    <3>1. nr(i) = nr(j)
      BY <1>8, <1>9, <2>1
    <3> QED
      BY <1>7, <2>1, <3>1
  <2>2. CASE i \notin Open(src) \/ j \notin Open(src)
    BY <1>8, <1>9, <2>2
  <2> QED
    BY <2>1, <2>2
<1>10. ASSUME NEW id \in DOMAIN rules
       PROVE  \E i \in enforced : place[i] = id
  <2>1. CASE id \in direct
    <3>1. /\ id[2] \in DOMAIN src /\ id[3] \in DOMAIN Direct(src, "1.0.0", id[2])
          /\ id = <<"direct", id[2], id[3]>>
      BY <1>1, <2>1, DirectPlaces
    <3>2. id[2] \notin Open(src)
      BY <3>1 DEF Open
    <3>3. id[2] \in enforced /\ id[3] = 1
      BY <1>5, <3>1, <3>2
    <3> HIDE DEF place, nr, nth, n, rules, enforced
    <3> QED
      BY <1>8, <3>1, <3>2, <3>3
  <2>2. CASE id \in decided
    <3>1. /\ id[2] \in DOMAIN ds /\ id[3] \in DOMAIN ds[id[2]].constraint
          /\ id = <<"decided", id[2], id[3]>>
      BY <1>2, <2>2 DEF Composed
    <3>2. id[2] \in 1..n
      BY <1>3, <3>1
    <3> DEFINE i == nth(id[2])
    <3>3. i \in Open(src)
      BY <1>3, <3>2
    <3>4. nr(i) = id[2]
      <4>1. nr(i) \in 1..n /\ nth(nr(i)) = i
        <5> HIDE DEF i, nr, nth, n
        <5> QED BY <1>7, <3>3
      <4> HIDE DEF nr, nth, n
      <4> QED BY <1>3, <3>2, <4>1
    <3>5. ds[id[2]].constraint # <<>>
      BY <3>1
    <3>6. i \in enforced /\ ds[id[2]].constraint = <<src[i].meaning>>
      <4> HIDE DEF nth, ds, n, enforced
      <4> QED BY <1>4, <3>2, <3>5
    <3>7. id[3] = 1
      <4> HIDE DEF ds
      <4> QED BY <3>1, <3>6
    <3>8. place[i] = <<"decided", nr(i), 1>>
      <4> HIDE DEF place, nr, nth, n, rules, enforced, i
      <4> QED BY <1>8, <3>3, <3>6
    <3> HIDE DEF place, nr, nth, n, rules, enforced, i
    <3> QED
      BY <3>1, <3>4, <3>6, <3>7, <3>8
  <2>3. id \in direct \cup decided
    BY <1>2 DEF Composed
  <2> QED
    BY <2>1, <2>2, <2>3
<1>11. place \in [enforced -> DOMAIN rules]
  <2>1. place = [i \in enforced |-> place[i]]
    OBVIOUS
  <2>2. \A i \in enforced : place[i] \in DOMAIN rules
    BY <1>8
  <2> HIDE DEF place, rules, enforced
  <2> QED
    BY <2>1, <2>2
<1> HIDE DEF place
<1> WITNESS place \in [enforced -> DOMAIN rules]
<1> QED
  BY <1>8, <1>9, <1>10

LEMMA SamePublication ==
  ASSUME NEW src \in Sources, NEW records, records \in Seq(Records(src)), records # <<>>,
         Answered(src, records), Comparable(src)
  PROVE  LET d == Replayed(src, "1.0.0", AsDecided(src, records))
             rules == ConfirmedRules(src, records)
         IN /\ V2Publishable(src, d) <=>
                 /\ V1Publishable(src, records)
                 /\ HasGrant(rules)
                 /\ Cardinality(DOMAIN rules) = Cardinality(EnforcedOf(src, records))
            /\ V2Publishable(src, d) => Range(Constraints(src, d)) = Range(rules)
<1> DEFINE ds == AsDecided(src, records)
           d == Replayed(src, "1.0.0", ds)
           made == Made("1.0.0", ds)
           all == Constraints(src, made)
           rules == ConfirmedRules(src, records)
           enforced == EnforcedOf(src, records)
           n == Cardinality(Open(src))
           NoClash == \A i, j \in enforced : ~ Clash(src, i, j)
<1>1. "1.0.0" \in Catalogs
  BY DEF Catalogs
<1>2. DOMAIN records \subseteq Nat /\ 1 \in DOMAIN records /\ records[1] \in Records(src)
  <2> HIDE DEF Records
  <2> QED OBVIOUS
<1>3. records[1].at \in Times /\ records[1].at \in Nat
  BY <1>2, RecordShape, TimesAssumption
<1>4. /\ n \in Nat
      /\ ds = [k \in 1..n |-> DecidedAs(src, records, Nth(Open(src), k))]
      /\ \A k \in 1..n : Nth(Open(src), k) \in Open(src)
      /\ \A k, l \in 1..n : Nth(Open(src), k) = Nth(Open(src), l) => k = l
      /\ \A i \in Open(src) : \E k \in 1..n : Nth(Open(src), k) = i
  BY AsDecidedShape
<1>5. /\ DOMAIN ds = 1..n
      /\ \A k \in 1..n : ds[k].statement = Nth(Open(src), k) /\ ds[k].at = records[1].at
  <2> HIDE DEF n, ds
  <2> QED BY <1>4 DEF DecidedAs
<1>6. ds \in Seq(Range(ds))
  <2>1. \A k \in 1..n : ds[k] \in Range(ds)
    BY <1>5 DEF Range
  <2>2. ds = [k \in 1..n |-> ds[k]]
    BY <1>4
  <2> HIDE DEF ds
  <2> QED BY <1>4, <2>1, <2>2
<1>7. PICK place \in [enforced -> DOMAIN all] :
        /\ \A i, j \in enforced : place[i] = place[j] => i = j
        /\ \A id \in DOMAIN all : \E i \in enforced : place[i] = id
        /\ \A i \in enforced : all[place[i]] = src[i].meaning
  BY <1>2, DecidedRules
<1>8. /\ d = [catalog |-> "1.0.0", decisions |-> ds,
              ready |-> IF ds = <<>> THEN Interpreted(src, "1.0.0").ready ELSE Status(src, made)]
  <2> HIDE DEF ds
  <2> QED BY <1>6, ReplayedShape
<1>9. /\ rules = [i \in First(src, records) |-> src[i].meaning]
      /\ First(src, records) \subseteq enforced
      /\ \A i \in enforced : \E j \in First(src, records) : src[j].meaning = src[i].meaning
      /\ \A i, j \in First(src, records) : src[i].meaning = src[j].meaning => i = j
  BY FirstStated
<1>10. /\ enforced \subseteq DOMAIN src /\ IsFiniteSet(enforced)
       /\ \A i \in enforced : src[i].meaning \in Meanings
  <2>1. enforced \subseteq DOMAIN src /\ IsFiniteSet(enforced)
    BY EnforcedShape
  <2> QED
    BY <1>2, <2>1, AnsweredClass DEF EnforcedOf
<1>11. d.catalog = "1.0.0" /\ d.decisions = ds
  BY <1>8
<1>12. Constraints(src, d) = all
  <2>1. Constraints(src, d) = Constraints(src, Made(d.catalog, d.decisions))
    BY SameDecisions
  <2> QED
    BY <1>11, <2>1
<1>13. Pending(src, made) = {}
  <2>1. made.catalog = "1.0.0" /\ made.decisions = ds
    BY DEF Made
  <2>2. Decided(made) = Open(src)
    <3> HIDE DEF ds, made, n
    <3> QED BY <1>4, <1>5, <2>1 DEF Decided
  <2> HIDE DEF made
  <2> QED
    BY <2>1, <2>2 DEF Pending, Open
<1> HIDE DEF ds, made, all, rules, enforced, n
<1>14. Range(all) = {src[i].meaning : i \in enforced} /\ (DOMAIN all # {} <=> enforced # {})
  BY <1>7 DEF Range
<1>15. Range(rules) = {src[i].meaning : i \in enforced}
  BY <1>9 DEF Range
<1>16. HasGrant(all) <=> HasGrant(rules)
  <2>1. HasGrant(all) <=> \E r \in Range(all) : Grants(r)
    BY DEF HasGrant, Range
  <2>2. HasGrant(rules) <=> \E r \in Range(rules) : Grants(r)
    BY DEF HasGrant, Range
  <2> QED
    BY <1>14, <1>15, <2>1, <2>2
<1>17. Conflicting(all) <=> ~ NoClash
  <2>1. ASSUME NEW x \in DOMAIN all, NEW y \in DOMAIN all, x # y, RulesConflict(all[x], all[y])
        PROVE  ~ NoClash
    <3>1. PICK i \in enforced : place[i] = x
      BY <1>7
    <3>2. PICK j \in enforced : place[j] = y
      BY <1>7
    <3>3. Clash(src, i, j)
      BY <1>7, <2>1, <3>1, <3>2 DEF Clash
    <3> QED
      BY <3>3
  <2>2. ASSUME NEW i \in enforced, NEW j \in enforced, Clash(src, i, j)
        PROVE  Conflicting(all)
    <3>1. /\ place[i] \in DOMAIN all /\ place[j] \in DOMAIN all /\ place[i] # place[j]
          /\ RulesConflict(all[place[i]], all[place[j]])
      BY <1>7, <2>2 DEF Clash
    <3> QED
      BY <3>1 DEF Conflicting
  <2> QED
    BY <2>1, <2>2 DEF Conflicting
<1>18. NoClash => IRFits(all)
  <2>1. \A x \in DOMAIN all : all[x] \in Meanings
    BY <1>7, <1>10
  <2> QED
    BY <1>17, <2>1, AgreementFits
<1>19. ASSUME NoClash
       PROVE  Replays(src, "1.0.0", ds)
  <2>1. Interpretable(src, "1.0.0")
    BY DirectAgrees DEF Comparable
  <2>2. \A k \in DOMAIN ds :
          ds[k].statement \in DOMAIN src /\ Direct(src, "1.0.0", ds[k].statement) = <<>>
    BY <1>4, <1>5 DEF Open
  <2>3. \A k, l \in DOMAIN ds : ds[k].statement = ds[l].statement => k = l
    BY <1>4, <1>5
  <2>4. IRFits(Constraints(src, Made("1.0.0", ds)))
    BY <1>18, <1>19 DEF all, made
  <2>5. Fit(src, "1.0.0", ds)
    BY <2>1, <2>2, <2>3, <2>4 DEF Fit
  <2> QED
    BY <1>1, <1>6, <2>5, ReplaysIsFit
<1>20. d.ready <=> DOMAIN all # {}
  <2>1. Status(src, made) <=> DOMAIN all # {}
    BY <1>13 DEF Status, all
  <2>2. CASE ds = <<>>
    <3> DEFINE bare == [catalog |-> "1.0.0", decisions |-> <<>>, ready |-> FALSE]
    <3>1. bare = made
      BY <2>2 DEF made, Made
    <3>2. Interpreted(src, "1.0.0").ready <=> Status(src, bare)
      BY DEF Interpreted
    <3>3. d.ready = Interpreted(src, "1.0.0").ready
      BY <1>8, <2>2
    <3> QED
      BY <2>1, <3>1, <3>2, <3>3
  <2>3. CASE ds # <<>>
    <3>1. d.ready = Status(src, made)
      BY <1>8, <2>3
    <3> QED
      BY <2>1, <3>1
  <2> QED
    BY <2>2, <2>3
<1> HIDE DEF d
<1>21. InOrder({ds[k].at : k \in DOMAIN ds}, records[1].at, records[1].at, records[1].at)
  BY <1>3, <1>5 DEF InOrder
<1>22. V2Publishable(src, d) <=> NoClash /\ HasGrant(all)
  <2>1. ASSUME V2Publishable(src, d)
        PROVE  NoClash /\ HasGrant(all)
    BY <1>12, <1>17, <2>1 DEF V2Publishable, V2Accepts
  <2>2. ASSUME NoClash, HasGrant(all)
        PROVE  V2Publishable(src, d)
    <3>1. DOMAIN all # {}
      BY <2>2 DEF HasGrant
    <3>2. Replays(src, d.catalog, d.decisions) /\ d = Replayed(src, d.catalog, d.decisions)
      BY <1>11, <1>19, <2>2 DEF d
    <3>3. InOrder({d.decisions[k].at : k \in DOMAIN d.decisions},
                  records[1].at, records[1].at, records[1].at)
      BY <1>11, <1>21
    <3>4. V2Accepts(src, d, records[1].at, records[1].at, records[1].at)
      BY <1>11, <1>12, <1>17, <1>20, <2>2, <3>1, <3>2, <3>3 DEF V2Accepts
    <3> QED
      BY <1>3, <3>4 DEF V2Publishable
  <2> QED
    BY <2>1, <2>2
<1>23. V1Publishable(src, records) <=>
         enforced # {} /\ \A i, j \in enforced : Clash(src, i, j) => src[i].meaning = src[j].meaning
  BY PublishableAnswers DEF AnswersConsistent, Comparable, enforced
<1>24. Cardinality(DOMAIN rules) = Cardinality(enforced) <=> First(src, records) = enforced
  BY <1>9, <1>10, FS_Subset
<1>25. NoClash /\ HasGrant(rules) <=>
         /\ enforced # {}
         /\ \A i, j \in enforced : Clash(src, i, j) => src[i].meaning = src[j].meaning
         /\ HasGrant(rules)
         /\ First(src, records) = enforced
  <2>1. ASSUME NoClash, HasGrant(rules)
        PROVE  enforced # {} /\ First(src, records) = enforced
    <3>1. enforced # {}
      BY <1>9, <2>1 DEF HasGrant
    <3>2. ASSUME NEW i \in enforced
          PROVE  i \in First(src, records)
      <4>1. PICK j \in First(src, records) : src[j].meaning = src[i].meaning
        BY <1>9
      <4>2. i = j
        BY <1>9, <2>1, <4>1 DEF Clash, RulesConflict
      <4> QED
        BY <4>1, <4>2
    <3> QED
      BY <1>9, <3>1, <3>2
  <2>2. ASSUME \A i, j \in enforced : Clash(src, i, j) => src[i].meaning = src[j].meaning,
               First(src, records) = enforced
        PROVE  NoClash
    BY <1>9, <2>2 DEF Clash
  <2> QED
    BY <2>1, <2>2
<1>26. V2Publishable(src, d) <=>
         /\ V1Publishable(src, records) /\ HasGrant(rules)
         /\ Cardinality(DOMAIN rules) = Cardinality(enforced)
  BY <1>16, <1>22, <1>23, <1>24, <1>25
<1>27. Range(Constraints(src, d)) = Range(rules)
  BY <1>12, <1>14, <1>15
<1> QED
  BY <1>26, <1>27 DEF d, ds, rules, enforced

(* The customer track and the domain track of the historical catalog       *)
(* publish the same rules of the same policy, and one publishes when the   *)
(* other does, a path is granted and no meaning is enforced twice.         *)
THEOREM TracksAgreed == Spec => []TracksAgree
<1>1. IInv => TracksAgree
  <2> SUFFICES ASSUME IInv, Comparable(source), resolutions # <<>>, Answered(source, resolutions)
               PROVE  LET d == Replayed(source, "1.0.0", AsDecided(source, resolutions))
                          rules == ConfirmedRules(source, resolutions)
                      IN /\ V2Publishable(source, d) <=>
                              /\ V1Publishable(source, resolutions)
                              /\ HasGrant(rules)
                              /\ Cardinality(DOMAIN rules)
                                   = Cardinality(EnforcedOf(source, resolutions))
                         /\ V2Publishable(source, d) => Range(Constraints(source, d)) = Range(rules)
    BY DEF TracksAgree
  <2> QED
    BY HeldResolutions, SamePublication
<1> QED
  BY <1>1, Invariance, PTL
=============================================================================
