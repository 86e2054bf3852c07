------------------------- MODULE AtomicPublication -------------------------
(***************************************************************************)
(* What a publication promises its readers, with no files, backups or      *)
(* faults in sight: all the outputs of an attempt are published in one     *)
(* step, and an immutable output that is published keeps its content.      *)
(***************************************************************************)
CONSTANTS Outputs, Immutable, Absent, Payloads

VARIABLE store

Init == store = [i \in Outputs |-> Absent]

Compatible(p) ==
  \A i \in Immutable : p[i] = Absent \/ store[i] \in {Absent, p[i]}

Publish(p) ==
  /\ Compatible(p)
  /\ store' = [i \in Outputs |-> IF p[i] = Absent THEN store[i] ELSE p[i]]

Next == \E p \in Payloads : Publish(p)

Spec == Init /\ [][Next]_store
=============================================================================
