--------------------------- MODULE CanDispatcher ---------------------------
(***************************************************************************)
(* The acceptance filters and the dispatch table of challenge_03_can_-     *)
(* message_handler.c, as operators on the table.                           *)
(*                                                                         *)
(* An identifier or a mask is the set of its one bits, so that the C       *)
(* expression  id & mask  is  id \cap mask.  A table entry carries the     *)
(* entry's filter, its match_count, and the number of frames dispatched    *)
(* before it was registered (for the properties only).                     *)
(***************************************************************************)
EXTENDS Naturals, Sequences, FiniteSets

CONSTANT MaxEntries     \* CAN_DISPATCHER_MAX_ENTRIES

(* can_filter_matches *)
Matches(filter, frame) ==
    /\ filter.enabled
    /\ filter.extended = frame.ide
    /\ \/ /\ filter.mode = "mask"
          /\ frame.id \cap filter.mask = filter.id \cap filter.mask
       \/ /\ filter.mode = "list"
          /\ frame.id = filter.id

(* can_dispatcher_init *)
NoHandlers == [entries |-> <<>>, unmatched |-> 0]

(* can_dispatcher_register: a full table is left as it is (return -1).     *)
Register(disp, filter, dispatched) ==
    IF Len(disp.entries) >= MaxEntries
    THEN disp
    ELSE [disp EXCEPT !.entries =
            Append(@, [filter |-> filter, matches |-> 0, since |-> dispatched])]

(* The entries whose handler can_dispatcher_dispatch calls for a frame.    *)
Matching(disp, frame) ==
    {i \in DOMAIN disp.entries : Matches(disp.entries[i].filter, frame)}

(* Seeded fault: only the first matching handler is called.                *)
DispatchExclusive(disp, frame) ==
    LET hit == Matching(disp, frame)
        first == {i \in hit : \A j \in hit : i <= j}
    IN  [entries |-> [i \in DOMAIN disp.entries |->
                        IF i \in first
                        THEN [disp.entries[i] EXCEPT !.matches = @ + 1]
                        ELSE disp.entries[i]],
         unmatched |-> IF hit = {} THEN disp.unmatched + 1 ELSE disp.unmatched]

(* can_dispatcher_dispatch: every matching entry counts the frame; a frame *)
(* nobody wants is counted once.                                           *)
Dispatch(disp, frame) ==
    LET hit == Matching(disp, frame)
    IN  [entries |-> [i \in DOMAIN disp.entries |->
                        IF i \in hit
                        THEN [disp.entries[i] EXCEPT !.matches = @ + 1]
                        ELSE disp.entries[i]],
         unmatched |-> IF hit = {} THEN disp.unmatched + 1 ELSE disp.unmatched]
=============================================================================
