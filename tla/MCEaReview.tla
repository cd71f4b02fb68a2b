----------------------------- MODULE MCEaReview -----------------------------
(* Small instances of EaReview for TLC: one component that may call one    *)
(* target in two ways, which nothing tells apart, and one link between     *)
(* datasets.                                                               *)
EXTENDS EaReview, TLC

CONSTANTS calls, uses

TwoHelm == [from : {"component"}, to : {"target"}, type : {calls, uses}]
OneHelm == [from : {"component"}, to : {"target"}, type : {calls}]
OneContract == {[from |-> "dataset", to |-> "product", type |-> "feeds"]}

Symmetry == Permutations({calls, uses})
=============================================================================
