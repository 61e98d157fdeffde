--------------------------- MODULE MCCanPipeline ---------------------------
(***************************************************************************)
(* The CAN pipeline with two identifiers on the bus, a standard and an     *)
(* extended one, and two filters that both accept the standard one: a      *)
(* single identifier, and a mask that ignores the other bits.              *)
(***************************************************************************)
EXTENDS CanPipeline

MCKinds == {[id |-> {0}, ide |-> FALSE], [id |-> {0, 1}, ide |-> TRUE]}

MCFilters ==
    {[mode |-> "list", id |-> {0}, mask |-> {}, enabled |-> TRUE, extended |-> FALSE],
     [mode |-> "mask", id |-> {0, 1}, mask |-> {0}, enabled |-> TRUE, extended |-> FALSE]}
=============================================================================
