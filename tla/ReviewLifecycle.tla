-------------------------- MODULE ReviewLifecycle --------------------------
(***************************************************************************)
(* The lifecycle of one review artifact: status transitions                *)
(* (lifecycle.py), approval (publish.py), linkage of the compiled contract *)
(* (contract_linkage.py), deployment (deployment.py), snapshots            *)
(* (snapshot.py) and rollback to one of them (rollback.py).                *)
(*                                                                         *)
(* The operations return a new review; the state is the review of the      *)
(* caller who goes on with what was returned.  An operation that raises    *)
(* returns nothing and is no step.  The identity of a snapshot is the hash *)
(* of the review it froze, so snapshots are a set of reviews and one that  *)
(* was tampered with, which rollback refuses, is not among them.           *)
(***************************************************************************)
EXTENDS Naturals, Sequences, FiniteSets

CONSTANTS
  Actors,        \* who may move a review on
  MaxLifecycle,  \* bound: entries in a review's lifecycle
  MaxSnapshots,  \* bound: snapshots taken
  None

ASSUME ActorsAssumption == None \notin Actors
ASSUME BoundsAssumption == MaxLifecycle \in Nat /\ MaxSnapshots \in Nat

VARIABLES
  review,     \* the review artifact
  snapshots   \* the reviews frozen so far

vars == <<review, snapshots>>

Statuses == {"pending", "reviewed", "approved", "rejected", "compiled", "deployed"}

(* ALLOWED_REVIEW_TRANSITIONS                                              *)
Allowed ==
  [pending  |-> {"reviewed", "rejected"},
   reviewed |-> {"approved", "rejected"},
   approved |-> {"compiled"},
   compiled |-> {"deployed"},
   rejected |-> {},
   deployed |-> {}]

(* What build_review_report makes of a text.                               *)
Init ==
  /\ review = [status |-> "pending", lifecycle |-> << >>, approvedBy |-> None,
               linked |-> FALSE, deployedBy |-> None, rolledBackFrom |-> None]
  /\ snapshots = {}

-----------------------------------------------------------------------------
(* Operations.                                                             *)

Transition(from, to, actor) == [event |-> "transition", from |-> from, to |-> to, actor |-> actor]
RollbackEvent(actor) == [event |-> "rollback", actor |-> actor]

Room(n) == Len(review.lifecycle) + n <= MaxLifecycle

(* transition_review_status(review, to), which validates the transition.   *)
Moved(to, actor) ==
  [review EXCEPT !.status = to,
                 !.lifecycle = Append(@, Transition(review.status, to, actor))]

Move(to, actor) ==
  /\ Room(1)
  /\ to \in Allowed[review.status]
  /\ review' = Moved(to, actor)
  /\ UNCHANGED snapshots

(* approve_review_file on a pending or a reviewed review.                  *)
Approve(actor) ==
  /\ Room(2)
  /\ review.status \in {"pending", "reviewed"}
  /\ LET seen == IF review.status = "pending"
                 THEN <<Transition("pending", "reviewed", actor)>> ELSE << >>
     IN review' = [review EXCEPT
          !.status = "approved",
          !.lifecycle = @ \o seen \o <<Transition("reviewed", "approved", actor)>>,
          !.approvedBy = actor]
  /\ UNCHANGED snapshots

(* approve_review_file on an approved review: the approval is overwritten  *)
(* and no lifecycle entry says so.  The timestamp of the last entry is     *)
(* read, which the entry of a rollback does not have: the call raises.     *)
ApproveAgain(actor) ==
  /\ review.status = "approved"
  /\ review.lifecycle[Len(review.lifecycle)].event = "transition"
  /\ review' = [review EXCEPT !.approvedBy = actor]
  /\ UNCHANGED snapshots

(* attach_compiled_contract                                                *)
AttachCompiledContract(actor) ==
  /\ Room(1)
  /\ review.status = "approved"
  /\ review' = [Moved("compiled", actor) EXCEPT !.linked = TRUE]
  /\ UNCHANGED snapshots

(* Mutant: the contract linkage is not required.                           *)
Mutant_AttachDeployment(actor) ==
  /\ Room(1)
  /\ review.status = "compiled"
  /\ review' = [Moved("deployed", actor) EXCEPT !.deployedBy = actor]
  /\ UNCHANGED snapshots

(* attach_deployment                                                       *)
AttachDeployment(actor) ==
  /\ Room(1)
  /\ review.status = "compiled"
  /\ review.linked
  /\ review' = [Moved("deployed", actor) EXCEPT !.deployedBy = actor]
  /\ UNCHANGED snapshots

(* create_snapshot                                                         *)
CreateSnapshot ==
  /\ Cardinality(snapshots) < MaxSnapshots
  /\ snapshots' = snapshots \cup {review}
  /\ UNCHANGED review

(* Mutant: the rollback record holds the status that is restored.          *)
Mutant_Rollback(snapshot, actor) ==
  /\ Len(snapshot.lifecycle) < MaxLifecycle
  /\ review' = [snapshot EXCEPT !.lifecycle = Append(@, RollbackEvent(actor)),
                                !.rolledBackFrom = snapshot.status]
  /\ UNCHANGED snapshots

(* Mutant: the rollback record holds the actor for the status.             *)
Mutant_RollbackRecord(snapshot, actor) ==
  /\ Len(snapshot.lifecycle) < MaxLifecycle
  /\ review' = [snapshot EXCEPT !.lifecycle = Append(@, RollbackEvent(actor)),
                                !.rolledBackFrom = actor]
  /\ UNCHANGED snapshots

(* Mutant: the status is restored and the rest of the review is kept.      *)
Mutant_RollbackStatus(snapshot, actor) ==
  /\ Room(1)
  /\ review' = [review EXCEPT !.status = snapshot.status,
                              !.lifecycle = Append(@, RollbackEvent(actor)),
                              !.rolledBackFrom = review.status]
  /\ UNCHANGED snapshots

(* rollback_to_snapshot                                                    *)
Rollback(snapshot, actor) ==
  /\ Len(snapshot.lifecycle) < MaxLifecycle
  /\ review' = [snapshot EXCEPT !.lifecycle = Append(@, RollbackEvent(actor)),
                                !.rolledBackFrom = review.status]
  /\ UNCHANGED snapshots

Next ==
  \/ \E actor \in Actors :
       \/ \E to \in Statuses : Move(to, actor)
       \/ Approve(actor)
       \/ ApproveAgain(actor)
       \/ AttachCompiledContract(actor)
       \/ AttachDeployment(actor)
       \/ \E snapshot \in snapshots : Rollback(snapshot, actor)
  \/ CreateSnapshot

Spec == Init /\ [][Next]_vars

-----------------------------------------------------------------------------
(* Properties.                                                             *)

Event ==
  [event : {"transition"}, from : Statuses, to : Statuses, actor : Actors]
    \cup [event : {"rollback"}, actor : Actors]

Review ==
  [status : Statuses, lifecycle : Seq(Event), approvedBy : Actors \cup {None},
   linked : BOOLEAN, deployedBy : Actors \cup {None},
   rolledBackFrom : Statuses \cup {None}]

TypeOK == review \in Review /\ snapshots \subseteq Review

(* The entries of l before the k-th lead a new review to status s.         *)
IsTransition(l, k) == l[k].event = "transition"

LeadsTo(l, k, s) ==
  \/ s = "pending" /\ \A i \in 1 .. k - 1 : ~ IsTransition(l, i)
  \/ \E j \in 1 .. k - 1 :
       /\ IsTransition(l, j) /\ l[j].to = s
       /\ \A i \in j + 1 .. k - 1 : ~ IsTransition(l, i)

Follows(r) ==
  /\ LeadsTo(r.lifecycle, Len(r.lifecycle) + 1, r.status)
  /\ \A k \in DOMAIN r.lifecycle : IsTransition(r.lifecycle, k) =>
       /\ LeadsTo(r.lifecycle, k, r.lifecycle[k].from)
       /\ r.lifecycle[k].to \in Allowed[r.lifecycle[k].from]

(* The transitions a review's lifecycle records, in their order, lead from *)
(* "pending" to the status it has, each an allowed one from where the one  *)
(* before it led, however often the review was rolled back.                *)
StatusFollowsLifecycle == Follows(review)

IsMoveTo(l, k, to) == IsTransition(l, k) /\ l[k].to = to

CompiledAfterApproval(l, c) ==
  IsMoveTo(l, c, "compiled") /\ \E a \in 1 .. c - 1 : IsMoveTo(l, a, "approved")

Earned(r) ==
  r.deployedBy # None =>
    /\ r.linked
    /\ \E d \in DOMAIN r.lifecycle :
         /\ IsMoveTo(r.lifecycle, d, "deployed")
         /\ r.lifecycle[d].actor = r.deployedBy
         /\ \E c \in 1 .. d - 1 : CompiledAfterApproval(r.lifecycle, c)

(* "Compiled contract linkage is forbidden unless the review is already    *)
(* approved", and a deployment without it: a review with deployment        *)
(* provenance has a linked contract, and its lifecycle has an approval     *)
(* before the compilation and that before the deployment.                  *)
DeploymentIsEarned == Earned(review)

(* "rejected" and "deployed" are left only by a rollback, which records    *)
(* the status it left.                                                     *)
TerminalStatusesAreLeftOnRecord ==
  [][review.status \in {"rejected", "deployed"} /\ review'.status # review.status =>
       /\ Len(review'.lifecycle) > 0
       /\ review'.lifecycle[Len(review'.lifecycle)].event = "rollback"
       /\ review'.rolledBackFrom = review.status]_review
=============================================================================
