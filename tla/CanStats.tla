------------------------------ MODULE CanStats ------------------------------
(***************************************************************************)
(* The per-identifier statistics of challenge_03_can_message_handler.c as  *)
(* operators on the statistics record.  Time is the 32-bit millisecond     *)
(* tick: differences are taken modulo TickMod (2^32 in the code), and the  *)
(* largest tick value, TickMod - 1, is the UINT32_MAX that initialises     *)
(* min_gap_ms.                                                             *)
(***************************************************************************)
EXTENDS Naturals, Sequences, FiniteSetsExt

CONSTANTS
    MaxIds,     \* CAN_STATS_MAX_IDS
    TickMod     \* number of values of a uint32_t tick

Elapsed(from, to) == (to + TickMod - from) % TickMod

(* can_stats_init *)
NoStats == [entries |-> <<>>, total |-> 0, overflow |-> 0]

(* The entries whose id is the given one; the code looks at the id only,   *)
(* not at the identifier type.                                             *)
EntriesOf(stats, id) ==
    {i \in DOMAIN stats.entries : stats.entries[i].id = id}

(* Seeded fault: the time of the last frame is not refreshed.              *)
RefreshKeepsLast(entry, ts) ==
    LET gap == Elapsed(entry.last, ts)
    IN  [id |-> entry.id, frames |-> entry.frames + 1, last |-> entry.last,
         min |-> IF gap < entry.min \/ entry.frames = 1 THEN gap ELSE entry.min,
         max |-> IF gap > entry.max THEN gap ELSE entry.max]

(* The first half of can_stats_update: a further frame of a known id.      *)
Refresh(entry, ts) ==
    LET gap == Elapsed(entry.last, ts)
    IN  [id |-> entry.id, frames |-> entry.frames + 1, last |-> ts,
         min |-> IF gap < entry.min \/ entry.frames = 1 THEN gap ELSE entry.min,
         max |-> IF gap > entry.max THEN gap ELSE entry.max]

(* The second half: the first frame of an id.                              *)
NewEntry(id, ts) ==
    [id |-> id, frames |-> 1, last |-> ts, min |-> TickMod - 1, max |-> 0]

(* can_stats_update *)
Update(stats, id, ts) ==
    LET counted == [stats EXCEPT !.total = @ + 1]
        known == EntriesOf(stats, id)
    IN  CASE known # {} ->
               [counted EXCEPT !.entries[Min(known)] = Refresh(@, ts)]
          [] known = {} /\ Len(stats.entries) >= MaxIds ->
               [counted EXCEPT !.overflow = @ + 1]
          [] OTHER ->
               [counted EXCEPT !.entries = Append(@, NewEntry(id, ts))]

(* Seeded fault: the limit itself already counts as a timeout.             *)
TimedOutAtLimit(stats, id, now, timeout) ==
    LET known == EntriesOf(stats, id)
    IN  known # {} /\ Elapsed(stats.entries[Min(known)].last, now) >= timeout

(* can_stats_check_timeout *)
TimedOut(stats, id, now, timeout) ==
    LET known == EntriesOf(stats, id)
    IN  known # {} /\ Elapsed(stats.entries[Min(known)].last, now) > timeout
=============================================================================
