----------------------------- MODULE MCCanRing -----------------------------
(***************************************************************************)
(* CanRing on a small instance.  overflow_count is the only unbounded      *)
(* variable: after MaxOverflow refused frames no further frame arrives.    *)
(***************************************************************************)
EXTENDS CanRing

CONSTANT MaxOverflow

MCNext ==
    /\ Next
    /\ isrPc = "idle" /\ isrPc' = "check" => overflow < MaxOverflow

MCSpec == Init /\ [][MCNext]_ringVars
=============================================================================
