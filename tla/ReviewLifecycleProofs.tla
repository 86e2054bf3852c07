------------------------ MODULE ReviewLifecycleProofs ------------------------
(***************************************************************************)
(* Theorems about the lifecycle of a review, for any actors, any number of *)
(* snapshots and histories of any length.                                  *)
(***************************************************************************)
EXTENDS ReviewLifecycle, TLAPS

-----------------------------------------------------------------------------
(* The inductive invariant: a snapshot may become the review again, so what *)
(* is to hold of the review must hold of every snapshot.                    *)

(* A linked contract was compiled after an approval.                       *)
LinkEarned(r) ==
  r.linked => \E c \in DOMAIN r.lifecycle : CompiledAfterApproval(r.lifecycle, c)

Sound(r) == r \in Review /\ Follows(r) /\ LinkEarned(r) /\ Earned(r)

IInv == \A r \in snapshots \cup {review} : Sound(r)

-----------------------------------------------------------------------------
(* Lemmas about histories that grow at their end.                          *)

(* What Append and Len do to a history.                                    *)
LEMMA AppendFacts ==
  ASSUME NEW l \in Seq(Event), NEW e \in Event
  PROVE  /\ Append(l, e) \in Seq(Event)
         /\ Len(l) \in Nat
         /\ Len(Append(l, e)) = Len(l) + 1
         /\ DOMAIN l = 1 .. Len(l)
         /\ DOMAIN Append(l, e) = 1 .. Len(l) + 1
         /\ \A k \in 1 .. Len(l) : Append(l, e)[k] = l[k]
         /\ Append(l, e)[Len(l) + 1] = e
  OBVIOUS

(* The statuses that a history went through are not changed by an entry.   *)
LEMMA PastIsKept ==
  ASSUME NEW l \in Seq(Event), NEW e \in Event, NEW k \in 1 .. Len(l) + 1, NEW s
  PROVE  LeadsTo(Append(l, e), k, s) <=> LeadsTo(l, k, s)
<1>1. \A i \in 1 .. k - 1 : Append(l, e)[i] = l[i]
  BY AppendFacts
<1>2. \A j \in 1 .. k - 1 : \A i \in j + 1 .. k - 1 : Append(l, e)[i] = l[i]
  BY <1>1, AppendFacts
<1>3. QED
  BY <1>1, <1>2 DEF LeadsTo, IsTransition

(* An allowed transition from the status of a sound review is soundly      *)
(* recorded.                                                               *)
LEMMA TransitionFollows ==
  ASSUME NEW r \in Review, Follows(r), NEW to \in Allowed[r.status], to \in Statuses,
         NEW actor \in Actors,
         NEW q \in Review, q.status = to,
         q.lifecycle = Append(r.lifecycle, Transition(r.status, to, actor))
  PROVE  Follows(q)
<1> DEFINE l == r.lifecycle
           e == Transition(r.status, to, actor)
           n == Len(l)
<1>1. l \in Seq(Event) /\ e \in Event
  BY DEF Review, Event, Transition
<1>2. n \in Nat /\ Len(q.lifecycle) = n + 1 /\ DOMAIN q.lifecycle = 1 .. n + 1
      /\ DOMAIN l = 1 .. n /\ q.lifecycle[n + 1] = e
      /\ \A k \in 1 .. n : q.lifecycle[k] = l[k]
  BY <1>1, AppendFacts
<1>3. e.event = "transition" /\ e.from = r.status /\ e.to = to
  BY DEF Transition
<1>4. LeadsTo(q.lifecycle, n + 2, to)
  <2>1. n + 1 \in 1 .. n + 2 - 1 /\ \A i \in n + 1 + 1 .. n + 2 - 1 : FALSE
    BY <1>2
  <2>2. QED
    BY <2>1, <1>2, <1>3 DEF LeadsTo, IsTransition
<1>5. ASSUME NEW k \in 1 .. n + 1, IsTransition(q.lifecycle, k)
      PROVE  /\ LeadsTo(q.lifecycle, k, q.lifecycle[k].from)
             /\ q.lifecycle[k].to \in Allowed[q.lifecycle[k].from]
  <2>1. CASE k = n + 1
    <3>1. LeadsTo(l, n + 1, r.status)
      BY DEF Follows
    <3>2. QED
      BY <3>1, <2>1, <1>1, <1>2, <1>3, PastIsKept
  <2>2. CASE k \in 1 .. n
    <3>1. q.lifecycle[k] = l[k] /\ IsTransition(l, k)
      BY <2>2, <1>2, <1>5 DEF IsTransition
    <3>2. LeadsTo(l, k, l[k].from) /\ l[k].to \in Allowed[l[k].from]
      BY <3>1, <2>2, <1>2 DEF Follows
    <3>3. LeadsTo(q.lifecycle, k, l[k].from)
      BY <3>2, <1>1, PastIsKept
    <3>4. QED
      BY <3>1, <3>2, <3>3
  <2>3. QED
    BY <2>1, <2>2, <1>2
<1>6. QED
  BY <1>2, <1>4, <1>5 DEF Follows

(* The entry of a rollback records no transition.                          *)
LEMMA RollbackFollows ==
  ASSUME NEW r \in Review, Follows(r), NEW actor \in Actors,
         NEW q \in Review, q.status = r.status,
         q.lifecycle = Append(r.lifecycle, RollbackEvent(actor))
  PROVE  Follows(q)
<1> DEFINE l == r.lifecycle
           e == RollbackEvent(actor)
           n == Len(l)
<1>1. l \in Seq(Event) /\ e \in Event /\ e.event # "transition"
  BY DEF Review, Event, RollbackEvent
<1>2. n \in Nat /\ Len(q.lifecycle) = n + 1 /\ DOMAIN q.lifecycle = 1 .. n + 1
      /\ DOMAIN l = 1 .. n /\ q.lifecycle[n + 1] = e
      /\ \A k \in 1 .. n : q.lifecycle[k] = l[k]
  BY <1>1, AppendFacts
<1>3. ~ IsTransition(q.lifecycle, n + 1)
  BY <1>1, <1>2 DEF IsTransition
<1>4. LeadsTo(q.lifecycle, n + 2, r.status)
  <2>1. LeadsTo(q.lifecycle, n + 1, r.status)
    BY <1>1, <1>2, PastIsKept DEF Follows
  <2>2. \A i : i \in 1 .. n + 2 - 1 <=> i \in 1 .. n + 1 - 1 \/ i = n + 1
    BY <1>2
  <2>3. CASE r.status = "pending" /\ \A i \in 1 .. n + 1 - 1 : ~ IsTransition(q.lifecycle, i)
    BY <2>2, <2>3, <1>3 DEF LeadsTo
  <2>4. CASE \E j \in 1 .. n + 1 - 1 :
               /\ IsTransition(q.lifecycle, j) /\ q.lifecycle[j].to = r.status
               /\ \A i \in j + 1 .. n + 1 - 1 : ~ IsTransition(q.lifecycle, i)
    <3>1. PICK j \in 1 .. n + 1 - 1 :
               /\ IsTransition(q.lifecycle, j) /\ q.lifecycle[j].to = r.status
               /\ \A i \in j + 1 .. n + 1 - 1 : ~ IsTransition(q.lifecycle, i)
      BY <2>4
    <3>2. \A i \in j + 1 .. n + 2 - 1 : i \in j + 1 .. n + 1 - 1 \/ i = n + 1
      BY <1>2
    <3>3. \A i \in j + 1 .. n + 2 - 1 : ~ IsTransition(q.lifecycle, i)
      BY <3>1, <3>2, <1>3
    <3>4. QED
      BY <3>1, <3>3, <2>2 DEF LeadsTo
  <2>5. QED
    BY <2>1, <2>3, <2>4 DEF LeadsTo
<1>5. ASSUME NEW k \in 1 .. n + 1, IsTransition(q.lifecycle, k)
      PROVE  /\ LeadsTo(q.lifecycle, k, q.lifecycle[k].from)
             /\ q.lifecycle[k].to \in Allowed[q.lifecycle[k].from]
  <2>1. k \in 1 .. n /\ q.lifecycle[k] = l[k] /\ IsTransition(l, k)
    BY <1>2, <1>3, <1>5 DEF IsTransition
  <2>2. LeadsTo(l, k, l[k].from) /\ l[k].to \in Allowed[l[k].from]
    BY <2>1, <1>2 DEF Follows
  <2>3. LeadsTo(q.lifecycle, k, l[k].from)
    BY <2>2, <1>1, PastIsKept
  <2>4. QED
    BY <2>1, <2>2, <2>3
<1>6. QED
  BY <1>2, <1>4, <1>5 DEF Follows

(* What a history has shown, it shows with one more entry.                 *)
LEMMA CompilationIsKept ==
  ASSUME NEW l \in Seq(Event), NEW e \in Event, NEW c \in 1 .. Len(l),
         CompiledAfterApproval(l, c)
  PROVE  CompiledAfterApproval(Append(l, e), c)
<1>1. PICK a \in 1 .. c - 1 : IsMoveTo(l, a, "approved")
  BY DEF CompiledAfterApproval
<1>2. a \in 1 .. Len(l) /\ Append(l, e)[a] = l[a] /\ Append(l, e)[c] = l[c]
  BY AppendFacts
<1>3. QED
  BY <1>1, <1>2 DEF CompiledAfterApproval, IsMoveTo, IsTransition

LEMMA LinkStaysEarned ==
  ASSUME NEW r \in Review, LinkEarned(r), NEW e \in Event,
         NEW q, q.linked = r.linked, q.lifecycle = Append(r.lifecycle, e)
  PROVE  LinkEarned(q)
<1>1. r.lifecycle \in Seq(Event)
  BY DEF Review
<1>2. SUFFICES ASSUME r.linked
               PROVE  \E c \in DOMAIN q.lifecycle : CompiledAfterApproval(q.lifecycle, c)
  BY DEF LinkEarned
<1>3. PICK c \in DOMAIN r.lifecycle : CompiledAfterApproval(r.lifecycle, c)
  BY <1>2 DEF LinkEarned
<1>4. c \in 1 .. Len(r.lifecycle) /\ c \in DOMAIN q.lifecycle
  BY <1>1, AppendFacts
<1>5. QED
  BY <1>1, <1>3, <1>4, CompilationIsKept

LEMMA DeploymentStaysEarned ==
  ASSUME NEW r \in Review, Earned(r), NEW e \in Event,
         NEW q, q.deployedBy = r.deployedBy, r.linked => q.linked,
         q.linked \in BOOLEAN, q.lifecycle = Append(r.lifecycle, e)
  PROVE  Earned(q)
<1> DEFINE l == r.lifecycle
<1>1. l \in Seq(Event)
  BY DEF Review
<1>2. SUFFICES ASSUME r.deployedBy # None
               PROVE  /\ q.linked
                      /\ \E d \in DOMAIN q.lifecycle :
                           /\ IsMoveTo(q.lifecycle, d, "deployed")
                           /\ q.lifecycle[d].actor = r.deployedBy
                           /\ \E c \in 1 .. d - 1 : CompiledAfterApproval(q.lifecycle, c)
  BY DEF Earned
<1>3. PICK d \in DOMAIN l :
         /\ IsMoveTo(l, d, "deployed")
         /\ l[d].actor = r.deployedBy
         /\ \E c \in 1 .. d - 1 : CompiledAfterApproval(l, c)
  BY <1>2 DEF Earned
<1>4. PICK c \in 1 .. d - 1 : CompiledAfterApproval(l, c)
  BY <1>3
<1>5. d \in 1 .. Len(l) /\ d \in DOMAIN q.lifecycle /\ q.lifecycle[d] = l[d]
      /\ c \in 1 .. Len(l)
  BY <1>1, AppendFacts
<1>6. CompiledAfterApproval(q.lifecycle, c)
  BY <1>1, <1>4, <1>5, CompilationIsKept
<1>7. IsMoveTo(q.lifecycle, d, "deployed") /\ q.lifecycle[d].actor = r.deployedBy
  BY <1>3, <1>5 DEF IsMoveTo, IsTransition
<1>8. q.linked
  BY <1>2 DEF Earned, Review
<1>9. QED
  BY <1>5, <1>6, <1>7, <1>8

(* A sound review with status "approved" was approved.                     *)
LEMMA ApprovedIsRecorded ==
  ASSUME NEW r \in Review, Follows(r), r.status = "approved"
  PROVE  \E a \in 1 .. Len(r.lifecycle) : IsMoveTo(r.lifecycle, a, "approved")
<1>1. LeadsTo(r.lifecycle, Len(r.lifecycle) + 1, "approved")
  BY DEF Follows
<1>2. Len(r.lifecycle) \in Nat
  BY DEF Review
<1>3. QED
  BY <1>1, <1>2 DEF LeadsTo, IsMoveTo

-----------------------------------------------------------------------------
(* Every operation returns a sound review: one lemma per action.           *)

(* A new review is sound.                                                  *)
LEMMA InitSound == Init => IInv
<1>1. SUFFICES ASSUME Init PROVE Sound(review)
  BY DEF Init, IInv
<1>2. review \in Review
  BY <1>1 DEF Init, Review, Statuses
<1>3. Follows(review)
  BY <1>1 DEF Init, Follows, LeadsTo
<1>4. LinkEarned(review) /\ Earned(review)
  BY <1>1 DEF Init, LinkEarned, Earned
<1>5. QED
  BY <1>2, <1>3, <1>4 DEF Sound

(* A transition that changes neither linkage nor deployment.               *)
LEMMA StepSound ==
  ASSUME NEW r, Sound(r), NEW to \in Statuses, to \in Allowed[r.status], NEW actor \in Actors
  PROVE  Sound([r EXCEPT !.status = to,
                         !.lifecycle = Append(@, Transition(r.status, to, actor))])
<1> DEFINE e == Transition(r.status, to, actor)
           q == [r EXCEPT !.status = to, !.lifecycle = Append(@, e)]
<1>1. r \in Review /\ e \in Event
  BY DEF Sound, Review, Event, Transition
<1> HIDE DEF e
<1>2. Append(r.lifecycle, e) \in Seq(Event)
  BY <1>1, AppendFacts DEF Review
<1>3. q \in Review /\ q.status = to /\ q.lifecycle = Append(r.lifecycle, e)
      /\ q.linked = r.linked /\ q.deployedBy = r.deployedBy /\ q.linked \in BOOLEAN
  BY <1>1, <1>2 DEF Review
<1>4. Follows(q)
  BY <1>1, <1>3, TransitionFollows DEF Sound, e
<1>5. LinkEarned(q)
  BY <1>1, <1>3, LinkStaysEarned DEF Sound
<1>6. Earned(q)
  BY <1>1, <1>3, DeploymentStaysEarned DEF Sound
<1>7. QED
  BY <1>3, <1>4, <1>5, <1>6 DEF Sound, e

LEMMA MoveSound ==
  ASSUME IInv, NEW actor \in Actors, NEW to \in Statuses, Move(to, actor)
  PROVE  Sound(review')
  BY StepSound DEF IInv, Move, Moved

(* An approval may overwrite the one before it, and nothing depends on it. *)
LEMMA ApproverImmaterial ==
  ASSUME NEW r, Sound(r), NEW actor \in Actors
  PROVE  Sound([r EXCEPT !.approvedBy = actor])
<1> DEFINE q == [r EXCEPT !.approvedBy = actor]
<1>1. r \in Review
  BY DEF Sound
<1>2. q \in Review /\ q.status = r.status /\ q.lifecycle = r.lifecycle
      /\ q.linked = r.linked /\ q.deployedBy = r.deployedBy
  BY <1>1 DEF Review
<1>3. QED
  BY <1>2 DEF Sound, Follows, LinkEarned, Earned

(* The transitions of the operations that are not validated as such.       *)
LEMMA StepsAreAllowed ==
  /\ "reviewed" \in Statuses /\ "reviewed" \in Allowed["pending"]
  /\ "approved" \in Statuses /\ "approved" \in Allowed["reviewed"]
  /\ "compiled" \in Statuses /\ "compiled" \in Allowed["approved"]
  /\ "deployed" \in Statuses /\ "deployed" \in Allowed["compiled"]
  /\ Allowed["rejected"] = {} /\ Allowed["deployed"] = {}
  BY DEF Statuses, Allowed

(* A history with one more entry, as a concatenation.                      *)
LEMMA ConcatIsAppend ==
  ASSUME NEW l \in Seq(Event), NEW e \in Event
  PROVE  l \o <<e>> = Append(l, e) /\ l \o << >> = l
  OBVIOUS

(* The first approval: one transition, or two at once.                     *)
LEMMA ApproveSound ==
  ASSUME IInv, NEW actor \in Actors, Approve(actor)
  PROVE  Sound(review')
<1> DEFINE after(r, to) ==
             [r EXCEPT !.status = to, !.lifecycle = Append(@, Transition(r.status, to, actor))]
           seen == Transition("pending", "reviewed", actor)
           approval == Transition("reviewed", "approved", actor)
<1>1. Sound(review) /\ review \in Review
  BY DEF IInv, Sound
<1>2. review.lifecycle \in Seq(Event) /\ seen \in Event /\ approval \in Event
  BY <1>1 DEF Review, Event, Transition, Statuses
<1>3. ASSUME NEW r, Sound(r), r.status = "reviewed",
             review' = [r EXCEPT !.status = "approved",
                                 !.lifecycle = Append(@, approval), !.approvedBy = actor]
      PROVE  Sound(review')
  <2>1. Sound(after(r, "approved"))
    BY <1>3, StepSound, StepsAreAllowed
  <2>2. review' = [after(r, "approved") EXCEPT !.approvedBy = actor]
    BY <1>3 DEF Sound, Review
  <2>3. QED
    BY <2>1, <2>2, ApproverImmaterial
<1>4. CASE review.status = "reviewed"
  <2>1. review.lifecycle \o << >> \o <<approval>> = Append(review.lifecycle, approval)
    BY <1>2, ConcatIsAppend
  <2>2. QED
    BY <1>1, <1>3, <1>4, <2>1 DEF Approve
<1>5. CASE review.status = "pending"
  <2> DEFINE r == after(review, "reviewed")
  <2>1. Sound(r) /\ r.status = "reviewed"
    <3>1. Sound(r)
      BY <1>1, <1>5, StepSound, StepsAreAllowed
    <3>2. QED
      BY <3>1, <1>1 DEF Review
  <2>2. r.lifecycle = Append(review.lifecycle, seen) /\ Append(review.lifecycle, seen) \in Seq(Event)
    BY <1>1, <1>2, <1>5, AppendFacts DEF Review
  <2>3. review.lifecycle \o <<seen>> \o <<approval>> = Append(r.lifecycle, approval)
    BY <1>2, <2>2, ConcatIsAppend
  <2>4. review' = [r EXCEPT !.status = "approved",
                            !.lifecycle = Append(@, approval), !.approvedBy = actor]
    BY <1>1, <1>5, <2>2, <2>3 DEF Approve, Review
  <2>5. QED
    BY <1>3, <2>1, <2>4
<1>6. QED
  BY <1>4, <1>5 DEF Approve

LEMMA ApproveAgainSound ==
  ASSUME IInv, NEW actor \in Actors, ApproveAgain(actor)
  PROVE  Sound(review')
  BY ApproverImmaterial DEF IInv, ApproveAgain

(* The contract is linked to a review whose history has an approval.       *)
LEMMA AttachCompiledContractSound ==
  ASSUME IInv, NEW actor \in Actors, AttachCompiledContract(actor)
  PROVE  Sound(review')
<1> DEFINE m == Moved("compiled", actor)
           e == Transition("approved", "compiled", actor)
           l == review.lifecycle
           n == Len(l)
<1>1. Sound(review) /\ review \in Review /\ review.status = "approved"
      /\ review' = [m EXCEPT !.linked = TRUE]
  BY DEF IInv, Sound, AttachCompiledContract
<1>2. Sound(m)
  BY <1>1, StepSound, StepsAreAllowed DEF Moved
<1>3. l \in Seq(Event) /\ e \in Event
  BY <1>1 DEF Review, Event, Transition, Statuses
<1>4. m.lifecycle = Append(l, e) /\ m \in Review
  BY <1>1, <1>2, <1>3 DEF Moved, Review, Sound
<1>5. review' \in Review /\ review'.status = m.status /\ review'.lifecycle = m.lifecycle
      /\ review'.deployedBy = m.deployedBy /\ review'.linked = TRUE
  BY <1>1, <1>4 DEF Review
<1>6. Follows(review')
  BY <1>2, <1>5 DEF Sound, Follows
<1>7. Earned(review')
  BY <1>2, <1>5 DEF Sound, Earned
<1>8. LinkEarned(review')
  <2>1. PICK a \in 1 .. n : IsMoveTo(l, a, "approved")
    BY <1>1, ApprovedIsRecorded DEF Sound
  <2>2. n \in Nat /\ m.lifecycle[a] = l[a] /\ m.lifecycle[n + 1] = e
        /\ DOMAIN m.lifecycle = 1 .. n + 1
    BY <1>3, <1>4, AppendFacts
  <2>3. IsMoveTo(m.lifecycle, a, "approved") /\ IsMoveTo(m.lifecycle, n + 1, "compiled")
    BY <2>1, <2>2 DEF IsMoveTo, IsTransition, Transition
  <2>4. n + 1 \in DOMAIN m.lifecycle /\ a \in 1 .. n + 1 - 1
    BY <2>1, <2>2
  <2>5. CompiledAfterApproval(m.lifecycle, n + 1)
    BY <2>3, <2>4 DEF CompiledAfterApproval
  <2>6. QED
    BY <1>5, <2>4, <2>5 DEF LinkEarned
<1>9. QED
  BY <1>5, <1>6, <1>7, <1>8 DEF Sound

(* A deployment finds a linked contract, whose compilation is in the past.  *)
LEMMA AttachDeploymentSound ==
  ASSUME IInv, NEW actor \in Actors, AttachDeployment(actor)
  PROVE  Sound(review')
<1> DEFINE m == Moved("deployed", actor)
           e == Transition("compiled", "deployed", actor)
           l == review.lifecycle
           n == Len(l)
<1>1. Sound(review) /\ review \in Review /\ review.status = "compiled" /\ review.linked
      /\ review' = [m EXCEPT !.deployedBy = actor]
  BY DEF IInv, Sound, AttachDeployment
<1>2. Sound(m)
  BY <1>1, StepSound, StepsAreAllowed DEF Moved
<1>3. l \in Seq(Event) /\ e \in Event
  BY <1>1 DEF Review, Event, Transition, Statuses
<1>4. m.lifecycle = Append(l, e) /\ m.linked = review.linked /\ m \in Review
  BY <1>1, <1>2, <1>3 DEF Moved, Review, Sound
<1>5. review' \in Review /\ review'.status = m.status /\ review'.lifecycle = m.lifecycle
      /\ review'.deployedBy = actor /\ review'.linked = m.linked
  BY <1>1, <1>4 DEF Review
<1>6. Follows(review')
  BY <1>2, <1>5 DEF Sound, Follows
<1>7. LinkEarned(review')
  BY <1>2, <1>5 DEF Sound, LinkEarned
<1>8. Earned(review')
  <2>1. PICK c \in DOMAIN l : CompiledAfterApproval(l, c)
    BY <1>1 DEF Sound, LinkEarned
  <2>2. n \in Nat /\ DOMAIN l = 1 .. n /\ DOMAIN m.lifecycle = 1 .. n + 1
        /\ m.lifecycle[n + 1] = e
    BY <1>3, <1>4, AppendFacts
  <2>3. CompiledAfterApproval(m.lifecycle, c)
    BY <1>3, <1>4, <2>1, <2>2, CompilationIsKept
  <2>4. c \in 1 .. n + 1 - 1 /\ n + 1 \in DOMAIN m.lifecycle
    BY <2>1, <2>2
  <2>5. IsMoveTo(m.lifecycle, n + 1, "deployed") /\ m.lifecycle[n + 1].actor = actor
    BY <2>2 DEF IsMoveTo, IsTransition, Transition
  <2>6. \E d \in DOMAIN m.lifecycle :
          /\ IsMoveTo(m.lifecycle, d, "deployed")
          /\ m.lifecycle[d].actor = actor
          /\ \E k \in 1 .. d - 1 : CompiledAfterApproval(m.lifecycle, k)
    BY <2>3, <2>4, <2>5
  <2>7. m.linked
    BY <1>1, <1>4
  <2> HIDE DEF m
  <2>8. QED
    BY <1>5, <2>6, <2>7 DEF Earned
<1>9. QED
  BY <1>5, <1>6, <1>7, <1>8 DEF Sound

(* A rollback returns a snapshot, which is sound, with one entry more.     *)
LEMMA RollbackSound ==
  ASSUME IInv, NEW snapshot \in snapshots, NEW actor \in Actors, Rollback(snapshot, actor)
  PROVE  Sound(review')
<1> DEFINE e == RollbackEvent(actor)
<1>1. Sound(snapshot) /\ snapshot \in Review /\ review \in Review
  BY DEF IInv, Sound
<1>2. e \in Event
  BY DEF Event, RollbackEvent
<1>3. Append(snapshot.lifecycle, e) \in Seq(Event)
  BY <1>1, <1>2, AppendFacts DEF Review
<1>4. review' = [snapshot EXCEPT !.lifecycle = Append(snapshot.lifecycle, e),
                                 !.rolledBackFrom = review.status]
  BY DEF Rollback
<1> HIDE DEF e
<1>5. review' \in Review /\ review'.status = snapshot.status
      /\ review'.lifecycle = Append(snapshot.lifecycle, e)
      /\ review'.linked = snapshot.linked /\ review'.deployedBy = snapshot.deployedBy
      /\ review'.linked \in BOOLEAN
  BY <1>1, <1>3, <1>4 DEF Review
<1>6. Follows(review')
  BY <1>1, <1>5, RollbackFollows DEF Sound, e
<1>7. LinkEarned(review')
  BY <1>1, <1>2, <1>5, LinkStaysEarned DEF Sound
<1>8. Earned(review')
  BY <1>1, <1>2, <1>5, DeploymentStaysEarned DEF Sound
<1>9. QED
  BY <1>5, <1>6, <1>7, <1>8 DEF Sound

-----------------------------------------------------------------------------
(* The theorems.                                                           *)

LEMMA NextPreserves == IInv /\ [Next]_vars => IInv'
<1>1. SUFFICES ASSUME IInv, [Next]_vars PROVE IInv'
  OBVIOUS
<1>2. ASSUME Sound(review'), UNCHANGED snapshots
      PROVE  IInv'
  BY <1>1, <1>2 DEF IInv
<1>3. ASSUME NEW actor \in Actors, NEW to \in Statuses, Move(to, actor) PROVE IInv'
  BY <1>1, <1>2, <1>3, MoveSound DEF Move
<1>4. ASSUME NEW actor \in Actors, Approve(actor) PROVE IInv'
  BY <1>1, <1>2, <1>4, ApproveSound DEF Approve
<1>5. ASSUME NEW actor \in Actors, ApproveAgain(actor) PROVE IInv'
  BY <1>1, <1>2, <1>5, ApproveAgainSound DEF ApproveAgain
<1>6. ASSUME NEW actor \in Actors, AttachCompiledContract(actor) PROVE IInv'
  BY <1>1, <1>2, <1>6, AttachCompiledContractSound DEF AttachCompiledContract
<1>7. ASSUME NEW actor \in Actors, AttachDeployment(actor) PROVE IInv'
  BY <1>1, <1>2, <1>7, AttachDeploymentSound DEF AttachDeployment
<1>8. ASSUME NEW actor \in Actors, NEW snapshot \in snapshots, Rollback(snapshot, actor)
      PROVE  IInv'
  BY <1>1, <1>2, <1>8, RollbackSound DEF Rollback
<1>9. CASE CreateSnapshot
  BY <1>1, <1>9 DEF CreateSnapshot, IInv
<1>10. CASE UNCHANGED vars
  BY <1>1, <1>10 DEF vars, IInv
<1>11. QED
  BY <1>1, <1>3, <1>4, <1>5, <1>6, <1>7, <1>8, <1>9, <1>10 DEF Next

LEMMA Invariant == Spec => []IInv
  BY InitSound, NextPreserves, PTL DEF Spec

(* Every review an operation returns, and every snapshot, is a review      *)
(* artifact with a history of well formed entries.                         *)
THEOREM TypeCorrect == Spec => []TypeOK
<1>1. IInv => TypeOK
  BY DEF IInv, Sound, TypeOK
<1>2. QED
  BY <1>1, Invariant, PTL

(* The status is the one that the recorded transitions lead to, each of    *)
(* them allowed, however often and to whatever snapshot the review was     *)
(* rolled back.                                                            *)
THEOREM StatusIsTheOneRecorded == Spec => []StatusFollowsLifecycle
<1>1. IInv => StatusFollowsLifecycle
  BY DEF IInv, Sound, StatusFollowsLifecycle
<1>2. QED
  BY <1>1, Invariant, PTL

(* A deployed review has a linked contract, an approval before its         *)
(* compilation, and that before its deployment.                            *)
THEOREM DeploymentsAreEarned == Spec => []DeploymentIsEarned
<1>1. IInv => DeploymentIsEarned
  BY DEF IInv, Sound, DeploymentIsEarned
<1>2. QED
  BY <1>1, Invariant, PTL

(* A rejected or deployed review goes on only by a rollback that is the    *)
(* last entry of its history and says which status was left.               *)
THEOREM TerminalStatusesStay == Spec => TerminalStatusesAreLeftOnRecord
<1> DEFINE Left == review.status \in {"rejected", "deployed"} /\ review'.status # review.status =>
                     /\ Len(review'.lifecycle) > 0
                     /\ review'.lifecycle[Len(review'.lifecycle)].event = "rollback"
                     /\ review'.rolledBackFrom = review.status
<1>1. IInv /\ [Next]_vars => [Left]_review
  <2>1. SUFFICES ASSUME IInv, Next, review.status \in {"rejected", "deployed"},
                        review'.status # review.status
                 PROVE  /\ Len(review'.lifecycle) > 0
                        /\ review'.lifecycle[Len(review'.lifecycle)].event = "rollback"
                        /\ review'.rolledBackFrom = review.status
    BY DEF vars
  <2>2. PICK snapshot \in snapshots, actor \in Actors : Rollback(snapshot, actor)
    <3>1. ASSUME NEW actor \in Actors PROVE ~ \E to \in Statuses : Move(to, actor)
      BY <2>1, StepsAreAllowed DEF Move
    <3>2. ASSUME NEW actor \in Actors PROVE ~ Approve(actor)
      BY <2>1 DEF Approve
    <3>3. ASSUME NEW actor \in Actors
          PROVE  /\ ~ ApproveAgain(actor)
                 /\ ~ AttachCompiledContract(actor) /\ ~ AttachDeployment(actor)
      BY <2>1 DEF ApproveAgain, AttachCompiledContract, AttachDeployment
    <3>4. ~ CreateSnapshot
      BY <2>1 DEF CreateSnapshot
    <3>5. QED
      BY <2>1, <3>1, <3>2, <3>3, <3>4 DEF Next
  <2>3. snapshot \in Review /\ RollbackEvent(actor) \in Event
    BY <2>1 DEF IInv, Sound, Event, RollbackEvent
  <2>4. snapshot.lifecycle \in Seq(Event)
    BY <2>3 DEF Review
  <2>5. review'.lifecycle = Append(snapshot.lifecycle, RollbackEvent(actor))
        /\ review'.rolledBackFrom = review.status
    BY <2>2, <2>3 DEF Rollback, Review
  <2>6. Len(snapshot.lifecycle) \in Nat
        /\ Len(review'.lifecycle) = Len(snapshot.lifecycle) + 1
        /\ review'.lifecycle[Len(snapshot.lifecycle) + 1] = RollbackEvent(actor)
    BY <2>3, <2>4, <2>5, AppendFacts
  <2>7. QED
    BY <2>5, <2>6 DEF RollbackEvent
<1>2. QED
  BY <1>1, Invariant, PTL DEF Spec, TerminalStatusesAreLeftOnRecord
=============================================================================
