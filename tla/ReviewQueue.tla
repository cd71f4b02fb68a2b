----------------------------- MODULE ReviewQueue -----------------------------
(***************************************************************************)
(* What the table ea_changes promises to the people of a review, whatever  *)
(* it is about: the links (EaReview), the nodes (EaNodes) and the          *)
(* resources of the infrastructure (EaInfra).  Those modules have their    *)
(* own reads, commits and failures, and implement this one.                *)
(*                                                                         *)
(* For each subject (entity, op, target) the queue is the sequence of its  *)
(* proposals, oldest first.  A subject on which two writers cross, each of *)
(* whom had read it before the other wrote, is contended, and nothing is   *)
(* promised of it any more: rows are not locked and carry no version.      *)
(***************************************************************************)
EXTENDS Integers, Sequences

CONSTANT Subjects
VARIABLES
  queue,
  contended

Decisions == {"approved", "rejected"}

(* What lets the same thing be proposed again: people accepted it, or the  *)
(* sources took it back.  A refusal never does.                            *)
Reopenable == {"approved", "superseded"}

Init == queue = [s \in Subjects |-> <<>>] /\ contended = {}

(* The one open proposal of a subject gets a new status. *)
Closed(q, r, statuses) ==
  /\ DOMAIN r = DOMAIN q
  /\ \E i \in DOMAIN q : /\ q[i] = "open" /\ r[i] \in statuses
                         /\ \A j \in DOMAIN q : j # i => r[j] = q[j]

(* A proposal is added behind others that are all over. *)
Proposed(q, r) ==
  /\ \A i \in DOMAIN q : q[i] \in Reopenable /\ r[i] = q[i]
  /\ Len(r) = Len(q) + 1
  /\ r[Len(r)] = "open"

(* A run adds and withdraws proposals about any number of subjects. *)
Run ==
  \A s \in Subjects \ contended' :
                      \/ queue'[s] = queue[s]
                      \/ Proposed(queue[s], queue'[s])
                      \/ Closed(queue[s], queue'[s], {"superseded"})

(* A person decides one proposal. *)
Decide(s) ==
  /\ Closed(queue[s], queue'[s], Decisions)
  /\ \A t \in Subjects \ contended' : t # s => queue'[t] = queue[t]

Next ==
  /\ contended \subseteq contended'
  /\ Run \/ \E s \in Subjects : Decide(s)

Spec == Init /\ [][Next]_<<queue, contended>>
=============================================================================
