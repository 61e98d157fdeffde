------------------------- MODULE CanPipeline_proofs -------------------------
(***************************************************************************)
(* Proofs about the composed CAN pipeline.  It uses the ring only as       *)
(* CanRing specifies, so what is proved of the ring holds inside it; no    *)
(* frame goes unaccounted; every handler is called for exactly the frames  *)
(* it accepts; the statistics describe what was dispatched; a timeout      *)
(* query is right about the silence of an identifier; and the whole is an  *)
(* implementation of FrameDelivery.                                        *)
(*                                                                         *)
(* The order of the parts: the ring inside the pipeline, the account of    *)
(* the frames, the dispatcher, the arithmetic of the tick, the table of    *)
(* the statistics, the order of the frames in time, the statistics again,  *)
(* now for the whole run, and the delivery.                                *)
(***************************************************************************)
EXTENDS CanPipeline, FiniteSetTheorems, SequenceTheorems, TLAPS

RP == INSTANCE CanRing_proofs WITH Frames <- Frame

TimeInv == now \in 0 .. MaxTime

(* Every frame the ISR enqueues is one of the frames the ring is           *)
(* specified for, because its timestamp lies in the range of time.         *)
LEMMA TimeInRange == Spec => []TimeInv
  <1>1. Init => TimeInv
    BY PipelineAssumption DEF Init, TimeInv
  <1>2. TimeInv /\ [Next]_vars => TimeInv'
    BY PipelineAssumption
       DEF Next, Tick, IsrEnqueue, IsrStep, Drain, CallProcess, PopAccess,
           UpdateStats, DispatchFrame, RegisterHandler, appVars, vars, TimeInv
  <1> QED BY <1>1, <1>2, PTL DEF Spec

(* The accesses the pipeline makes are the steps of the ring.              *)
LEMMA PipelineStep ==
    ASSUME TimeInv, [Next]_vars
    PROVE  [RP!Next]_(RP!ringVars)
  <1>1. ASSUME IsrEnqueue PROVE RP!Next
    <2>1. PICK k \in Kinds :
              Ring!PushBegin([id |-> k.id, ide |-> k.ide, at |-> now])
      BY <1>1 DEF IsrEnqueue
    <2>2. [id |-> k.id, ide |-> k.ide, at |-> now] \in Frame
      BY PipelineAssumption DEF Frame, TimeInv
    <2>3. RP!PushBegin([id |-> k.id, ide |-> k.ide, at |-> now])
      BY <2>1 DEF Ring!PushBegin, RP!PushBegin
    <2> QED BY <2>2, <2>3 DEF RP!Next
  <1>2. ASSUME IsrStep PROVE RP!Next
    BY <1>2
       DEF IsrStep, RP!Next, Ring!PushStep, RP!PushStep,
           Ring!PushFull, Ring!PushRoom, Ring!PushStoreLo, Ring!PushStoreHi,
           Ring!PushPublish, RP!PushFull, RP!PushRoom, RP!PushStoreLo,
           RP!PushStoreHi, RP!PushPublish, Ring!Succ, RP!Succ
  <1>3. ASSUME PopAccess PROVE RP!Next
    BY <1>3
       DEF PopAccess, RP!Next, RP!PopStep,
           Ring!PopBegin, Ring!PopEmpty, Ring!PopNonEmpty, Ring!PopCopyLo,
           Ring!PopCopyHi, Ring!PopAdvance, RP!PopBegin, RP!PopEmpty,
           RP!PopNonEmpty, RP!PopCopyLo, RP!PopCopyHi, RP!PopAdvance,
           Ring!Succ, RP!Succ
  <1>4. ASSUME \/ Tick \/ CallProcess \/ UpdateStats \/ DispatchFrame
               \/ RegisterHandler \/ UNCHANGED vars
        PROVE  UNCHANGED RP!ringVars
    BY <1>4
       DEF Tick, CallProcess, UpdateStats, DispatchFrame, RegisterHandler,
           vars, ringVars, RP!ringVars
  <1> QED BY <1>1, <1>2, <1>3, <1>4 DEF Next, Drain

(* The pipeline is an environment of the ring like any other: whatever     *)
(* the main loop, the statistics and the handlers do, the ring behaves as  *)
(* CanRing specifies.                                                      *)
THEOREM PipelineUsesRing == Spec => RP!Spec
  <1>1. Init => RP!Init
    BY DEF Init, Ring!Init, RP!Init, Ring!Slots, RP!Slots, Ring!Empty, RP!Empty
  <1>2. TimeInv /\ [Next]_vars => [RP!Next]_(RP!ringVars)
    BY PipelineStep
  <1> QED BY <1>1, <1>2, TimeInRange, PTL DEF Spec, RP!Spec

(* Hence the ring's inductive invariant holds inside the pipeline.         *)
LEMMA RingInvInside == Spec => []RP!RingInv
  BY PipelineUsesRing, RP!RingInvariant, PipelineAssumption, PTL

-----------------------------------------------------------------------------
(* What one update of the statistics does to the total.                    *)
LEMMA UpdateCounts ==
    ASSUME NEW s, NEW id, NEW ts,
           s = [entries |-> s.entries, total |-> s.total, overflow |-> s.overflow]
    PROVE  LET u == Update(s, id, ts)
           IN  /\ u = [entries |-> u.entries, total |-> u.total,
                       overflow |-> u.overflow]
               /\ u.total = s.total + 1
  BY DEF Update

(* The counters are numbers and the task is at a known place: what the     *)
(* accounting needs besides the ring's invariant.                          *)
AccountType ==
    /\ arrived \in Nat
    /\ stats = [entries |-> stats.entries, total |-> stats.total,
                overflow |-> stats.overflow]
    /\ stats.total \in Nat
    /\ task \in {"app", "pop", "update", "dispatch"}

AccountInv == AccountType /\ EveryFrameAccounted

(* Each step moves a frame from one place of the account to the next: the  *)
(* ISR takes it in and drops or publishes it, the task pops it and counts  *)
(* it; no other step touches an account.                                   *)
LEMMA AccountStep ==
    ASSUME RP!RingInv, RP!RingInv', AccountInv, [Next]_vars
    PROVE  AccountInv'
  <1>0. /\ overflow \in Nat /\ overflow' \in Nat
        /\ Ring!Count \in Nat
        /\ RP!PushPublish => (Ring!Count)' = Ring!Count + 1
        /\ RP!PopAdvance => (Ring!Count)' = Ring!Count - 1
        /\ head' = head /\ tail' = tail => (Ring!Count)' = Ring!Count
    <2>1. RP!Count = Ring!Count /\ (RP!Count)' = (Ring!Count)'
      BY DEF RP!Count, Ring!Count
    <2>2. overflow \in Nat /\ overflow' \in Nat
      BY DEF RP!RingInv, RP!TypeOK
    <2> QED BY <2>1, <2>2, RP!CountChanges, PipelineAssumption
  <1> USE DEF AccountInv, AccountType, EveryFrameAccounted
  <1>1. CASE IsrEnqueue
    <2>1. /\ isrPc = "idle" /\ isrPc' # "idle"
          /\ arrived' = arrived + 1
          /\ UNCHANGED <<head, tail, overflow, task, stats>>
      BY <1>1 DEF IsrEnqueue, Ring!PushBegin
    <2> QED BY <1>0, <2>1
  <1>2. CASE IsrStep
    <2>1. UNCHANGED <<head, arrived, task, stats>>
      BY <1>2 DEF IsrStep, appVars, Ring!PushStep, Ring!PushFull, Ring!PushRoom,
                  Ring!PushStoreLo, Ring!PushStoreHi, Ring!PushPublish
    <2>2. CASE Ring!PushFull
      BY <1>0, <2>1, <2>2 DEF Ring!PushFull
    <2>3. CASE Ring!PushRoom \/ Ring!PushStoreLo \/ Ring!PushStoreHi
      BY <1>0, <2>1, <2>3 DEF Ring!PushRoom, Ring!PushStoreLo, Ring!PushStoreHi
    <2>4. CASE Ring!PushPublish
      <3>1. RP!PushPublish
        BY <2>4 DEF Ring!PushPublish, RP!PushPublish, Ring!Succ, RP!Succ
      <3>2. isrPc = "publish" /\ isrPc' = "idle" /\ overflow' = overflow
        BY <2>4 DEF Ring!PushPublish
      <3> QED BY <1>0, <2>1, <3>1, <3>2
    <2> QED BY <1>2, <2>2, <2>3, <2>4 DEF IsrStep, Ring!PushStep
  <1>3. CASE PopAccess
    <2>1. UNCHANGED <<arrived, stats, isrPc, overflow, tail>> /\ task = "pop"
      BY <1>3 DEF PopAccess, appVars, Ring!PopBegin, Ring!PopEmpty,
                  Ring!PopNonEmpty, Ring!PopCopyLo, Ring!PopCopyHi, Ring!PopAdvance
    <2>2. CASE Ring!PopAdvance /\ task' = "update"
      <3>1. RP!PopAdvance
        BY <2>2 DEF Ring!PopAdvance, RP!PopAdvance, Ring!Succ, RP!Succ
      <3> QED BY <1>0, <2>1, <2>2, <3>1
    <2>3. CASE head' = head /\ task' \in {"pop", "app"}
      BY <1>0, <2>1, <2>3
    <2> QED
      BY <1>3, <2>2, <2>3
         DEF PopAccess, Ring!PopBegin, Ring!PopEmpty, Ring!PopNonEmpty,
             Ring!PopCopyLo, Ring!PopCopyHi
  <1>4. CASE UpdateStats
    <2>1. /\ task = "update" /\ task' = "dispatch"
          /\ UNCHANGED <<head, tail, isrPc, overflow, arrived>>
          /\ stats' = Update(stats, InHand.id, Timestamp(InHand))
      BY <1>4 DEF UpdateStats, ringVars
    <2> QED BY <1>0, <2>1, UpdateCounts
  <1>5. CASE Tick \/ CallProcess \/ DispatchFrame \/ RegisterHandler \/ UNCHANGED vars
    <2>1. /\ UNCHANGED <<head, tail, isrPc, overflow, arrived, stats>>
          /\ (task # "update" /\ task' # "update") \/ task' = task
          /\ task' \in {"app", "pop", "update", "dispatch"}
      BY <1>5 DEF Tick, CallProcess, DispatchFrame, RegisterHandler, vars,
                  appVars, ringVars
    <2> QED BY <1>0, <2>1
  <1> QED BY <1>1, <1>2, <1>3, <1>4, <1>5 DEF Next, Drain

(* For every ring size, every bus and every interleaving of the ISR with   *)
(* the task: a frame the controller received is dropped and counted, or    *)
(* queued, or in someone's hand, or in the statistics.                     *)
THEOREM NoFrameUnaccounted == Spec => []EveryFrameAccounted
  <1>1. Init => AccountInv
    BY PipelineAssumption
       DEF Init, AccountInv, AccountType, EveryFrameAccounted, NoStats,
           Ring!Init, Ring!Count
  <1>2. RP!RingInv /\ RP!RingInv' /\ AccountInv /\ [Next]_vars => AccountInv'
    BY AccountStep
  <1>3. AccountInv => EveryFrameAccounted
    BY DEF AccountInv
  <1> QED BY <1>1, <1>2, <1>3, RingInvInside, PTL DEF Spec
-----------------------------------------------------------------------------
(* The dispatch table holds filters, each with the number of frames it has *)
(* accepted and the number dispatched before it was registered.            *)
Entry == [filter : Filters, matches : Nat, since : Nat]
Tables == [entries : Seq(Entry), unmatched : Nat]

IsLog(l) == \E S : l \in Seq(S)

(* The positions of a log at which an entry must have been called, and     *)
(* those of the frames no entry wanted.                                    *)
Accepted(e, l) == {n \in e.since + 1 .. Len(l) : Matches(e.filter, l[n])}
Unwanted(entries, l) ==
    {n \in DOMAIN l : \A i \in DOMAIN entries :
        entries[i].since < n => ~ Matches(entries[i].filter, l[n])}

(* The inductive invariant of the dispatcher: no entry was registered in   *)
(* the future.                                                             *)
HandlersInv ==
    /\ IsLog(log)
    /\ disp \in Tables
    /\ \A i \in DOMAIN disp.entries : disp.entries[i].since <= Len(log)
    /\ HandlersSawTheirFrames

(* Appending to the log leaves what was logged.                            *)
LEMMA AppendToLog ==
    ASSUME NEW l, IsLog(l), NEW f
    PROVE  LET m == Append(l, f)
           IN  /\ IsLog(m)
               /\ Len(l) \in Nat /\ DOMAIN l = 1 .. Len(l)
               /\ Len(m) = Len(l) + 1 /\ DOMAIN m = 1 .. Len(m)
               /\ \A n \in 1 .. Len(l) : m[n] = l[n]
               /\ m[Len(m)] = f
  <1>1. PICK S : l \in Seq(S)
    BY DEF IsLog
  <1>2. l \in Seq(S \cup {f}) /\ f \in S \cup {f}
    BY <1>1
  <1>3. Append(l, f) \in Seq(S \cup {f})
    BY <1>2
  <1> QED
    BY <1>2, <1>3, AppendProperties DEF IsLog

(* Counting the positions up to one more.                                  *)
LEMMA CountUpTo ==
    ASSUME NEW k \in Nat, NEW S, NEW T, S \subseteq 1 .. k, T \subseteq 1 .. k + 1,
           \A n \in 1 .. k : n \in T <=> n \in S
    PROVE  Cardinality(T) = IF k + 1 \in T THEN Cardinality(S) + 1 ELSE Cardinality(S)
  <1>0. IsFiniteSet(1 .. k) /\ S \in SUBSET (1 .. k)
    BY FS_Interval
  <1>1. IsFiniteSet(S) /\ Cardinality(S) \in Nat
    BY <1>0, FS_Subset, FS_CardinalityType
  <1>2. k + 1 \notin S
    OBVIOUS
  <1>3. T = IF k + 1 \in T THEN S \cup {k + 1} ELSE S
    <2>1. 1 .. k + 1 = 1 .. k \cup {k + 1}
      OBVIOUS
    <2>2. ASSUME NEW n PROVE n \in T <=> n \in IF k + 1 \in T THEN S \cup {k + 1} ELSE S
      BY <2>1
    <2> QED
      BY <2>2, Zenon
  <1>4. Cardinality(S \cup {k + 1}) = Cardinality(S) + 1
    BY <1>1, <1>2, FS_AddElement
  <1> QED
    BY <1>3, <1>4

(* A frame handed to the dispatcher is counted by every entry whose filter *)
(* accepts it, and as unmatched when there is none.                        *)
LEMMA DispatchSound ==
    ASSUME HandlersInv, DispatchFrame
    PROVE  HandlersInv'
  <1> DEFINE f == InHand
             hit == Matching(disp, f)
             e == disp.entries
             k == Len(log)
             new == disp'.entries
  <1>1. log' = Append(log, f)
    BY DEF DispatchFrame
  <1>2. /\ IsLog(log') /\ k \in Nat /\ DOMAIN log = 1 .. k
        /\ Len(log') = k + 1 /\ DOMAIN log' = 1 .. k + 1
        /\ \A n \in 1 .. k : log'[n] = log[n]
        /\ log'[k + 1] = f
    BY <1>1, AppendToLog DEF HandlersInv
  <1>3. /\ e \in Seq(Entry) /\ disp.unmatched \in Nat
        /\ disp' = [entries |-> [i \in DOMAIN e |-> IF i \in hit
                                    THEN [e[i] EXCEPT !.matches = @ + 1] ELSE e[i]],
                    unmatched |-> IF hit = {} THEN disp.unmatched + 1 ELSE disp.unmatched]
    BY DEF DispatchFrame, Dispatch, HandlersInv, Tables
  <1>4. /\ DOMAIN e = 1 .. Len(e) /\ Len(e) \in Nat /\ \A i \in DOMAIN e : e[i] \in Entry
        /\ hit = {i \in DOMAIN e : Matches(e[i].filter, f)}
    BY <1>3 DEF Matching
  <1>5. /\ DOMAIN new = DOMAIN e
        /\ \A i \in DOMAIN e : /\ new[i] \in Entry
                               /\ new[i].filter = e[i].filter /\ new[i].since = e[i].since
                               /\ new[i].matches = IF i \in hit THEN e[i].matches + 1
                                                                ELSE e[i].matches
    <2>1. new = [i \in DOMAIN e |-> IF i \in hit
                    THEN [e[i] EXCEPT !.matches = @ + 1] ELSE e[i]]
      BY <1>3
    <2>2. ASSUME NEW x \in Entry
          PROVE  LET y == [x EXCEPT !.matches = @ + 1]
                 IN  /\ y \in Entry /\ y.filter = x.filter /\ y.since = x.since
                     /\ y.matches = x.matches + 1
      BY DEF Entry
    <2> HIDE DEF hit
    <2> QED
      BY <1>4, <2>1, <2>2
  <1>6. new \in Seq(Entry)
    <2>1. new = [i \in 1 .. Len(e) |-> new[i]]
      BY <1>3, <1>4
    <2> HIDE DEF new
    <2> QED
      BY <1>4, <1>5, <2>1
  <1>7. disp' \in Tables
    BY <1>3, <1>6 DEF Tables
  <1>8. \A i \in DOMAIN e : e[i].since <= k /\ e[i].matches = Cardinality(Accepted(e[i], log))
    BY DEF HandlersInv, HandlersSawTheirFrames, Accepted
  <1>9. disp.unmatched = Cardinality(Unwanted(e, log))
    BY DEF HandlersInv, HandlersSawTheirFrames, Unwanted
  <1> HIDE DEF f, k, e, new, hit
  <1>10. ASSUME NEW i \in DOMAIN e
         PROVE  new[i].matches = Cardinality(Accepted(new[i], log'))
    <2>1. e[i].since \in Nat /\ e[i].since <= k
      BY <1>4, <1>8 DEF Entry
    <2>2. Accepted(e[i], log) \subseteq 1 .. k
      BY <1>2, <2>1 DEF Accepted, k
    <2>3. k + 1 \in Accepted(new[i], log') <=> i \in hit
      BY <1>2, <1>4, <1>5, <2>1 DEF Accepted
    <2>4. \A n \in 1 .. k : n \in Accepted(new[i], log') <=> n \in Accepted(e[i], log)
      BY <1>2, <1>5, <2>1 DEF Accepted, k
    <2>5. Accepted(new[i], log') \subseteq 1 .. k + 1
      BY <1>2, <1>5, <2>1 DEF Accepted
    <2> DEFINE S == Accepted(e[i], log)
               T == Accepted(new[i], log')
    <2>6. k \in Nat
      BY <1>2
    <2> HIDE DEF S, T
    <2>7. Cardinality(T) = IF k + 1 \in T THEN Cardinality(S) + 1 ELSE Cardinality(S)
      BY <2>2, <2>4, <2>5, <2>6, CountUpTo DEF S, T
    <2> QED
      BY <1>5, <1>8, <2>3, <2>7 DEF S, T
  <1>11. disp'.unmatched = Cardinality(Unwanted(new, log'))
    <2>1. Unwanted(e, log) \subseteq 1 .. k
      BY <1>2 DEF Unwanted
    <2>2. Unwanted(new, log') \subseteq 1 .. k + 1
      BY <1>2 DEF Unwanted
    <2>3. k + 1 \in Unwanted(new, log') <=> hit = {}
      <3>1. \A i \in DOMAIN e : e[i].since < k + 1
        BY <1>2, <1>4, <1>8 DEF Entry
      <3> QED
        BY <1>2, <1>4, <1>5, <3>1 DEF Unwanted
    <2>4. ASSUME NEW n \in 1 .. k PROVE n \in Unwanted(new, log') <=> n \in Unwanted(e, log)
      <3>1. n \in DOMAIN log /\ n \in DOMAIN log' /\ log'[n] = log[n]
        BY <1>2
      <3>2. \A i \in DOMAIN e : new[i].since = e[i].since /\ new[i].filter = e[i].filter
        BY <1>5
      <3> QED
        BY <1>5, <3>1, <3>2 DEF Unwanted
    <2>5. disp'.unmatched = IF hit = {} THEN disp.unmatched + 1 ELSE disp.unmatched
      BY <1>3
    <2> DEFINE S == Unwanted(e, log)
               T == Unwanted(new, log')
    <2>6. k \in Nat
      BY <1>2
    <2> HIDE DEF S, T
    <2>7. Cardinality(T) = IF k + 1 \in T THEN Cardinality(S) + 1 ELSE Cardinality(S)
      BY <2>1, <2>2, <2>4, <2>6, CountUpTo DEF S, T
    <2> QED
      BY <1>9, <2>3, <2>5, <2>7 DEF S, T
  <1>12. HandlersSawTheirFrames'
    BY <1>5, <1>10, <1>11 DEF HandlersSawTheirFrames, Accepted, Unwanted, new
  <1>13. \A i \in DOMAIN new : new[i].since <= Len(log')
    BY <1>2, <1>4, <1>5, <1>8 DEF Entry
  <1> QED
    BY <1>2, <1>7, <1>12, <1>13 DEF HandlersInv, new

(* A new entry has counted none of the frames dispatched before it, and    *)
(* does not change who was unmatched.                                      *)
LEMMA RegisterSound ==
    ASSUME HandlersInv, RegisterHandler
    PROVE  HandlersInv'
  <1> DEFINE e == disp.entries
             k == Len(log)
             new == disp'.entries
  <1>1. PICK f \in Filters : disp' = Register(disp, f, Len(log))
    BY DEF RegisterHandler
  <1>2. log' = log
    BY DEF RegisterHandler
  <1>3. /\ k \in Nat /\ DOMAIN log = 1 .. k
        /\ disp \in Tables /\ e \in Seq(Entry)
        /\ DOMAIN e = 1 .. Len(e) /\ Len(e) \in Nat /\ \A i \in DOMAIN e : e[i] \in Entry
    BY DEF HandlersInv, IsLog, Tables
  <1>4. CASE disp' = disp
    BY <1>2, <1>4 DEF HandlersInv, HandlersSawTheirFrames
  <1>5. CASE disp' = [disp EXCEPT !.entries =
                        Append(@, [filter |-> f, matches |-> 0, since |-> Len(log)])]
    <2> DEFINE x == [filter |-> f, matches |-> 0, since |-> k]
    <2>1. x \in Entry
      BY <1>3 DEF Entry
    <2>2. new = Append(e, x) /\ disp'.unmatched = disp.unmatched /\ disp' \in Tables
      <3>1. Append(e, x) \in Seq(Entry)
        BY <1>3, <2>1
      <3>2. disp' = [disp EXCEPT !.entries = Append(e, x)]
        BY <1>5
      <3> HIDE DEF x
      <3> QED
        BY <1>3, <3>1, <3>2 DEF Tables
    <2>3. /\ DOMAIN new = 1 .. Len(e) + 1
          /\ \A i \in DOMAIN e : new[i] = e[i]
          /\ new[Len(e) + 1] = x
      BY <1>3, <2>1, <2>2
    <2>4. \A i \in DOMAIN e : e[i].since <= k /\ e[i].matches = Cardinality(Accepted(e[i], log))
      BY DEF HandlersInv, HandlersSawTheirFrames, Accepted
    <2>5. x.matches = Cardinality(Accepted(x, log)) /\ x.since <= k
      <3>1. Accepted(x, log) = {}
        BY <1>3 DEF Accepted
      <3>2. Cardinality(Accepted(x, log)) = 0
        BY <3>1, FS_EmptySet
      <3>3. x.matches = 0 /\ x.since = k /\ k <= k
        BY <1>3
      <3> HIDE DEF x
      <3> QED
        BY <3>2, <3>3
    <2>6. disp.unmatched = Cardinality(Unwanted(e, log))
      BY DEF HandlersInv, HandlersSawTheirFrames, Unwanted
    <2> HIDE DEF x, e, new, k
    <2>7. Unwanted(new, log) = Unwanted(e, log)
      <3>1. \A n \in 1 .. k : ~ (x.since < n)
        BY <1>3 DEF x
      <3>2. DOMAIN new = DOMAIN e \cup {Len(e) + 1}
        BY <1>3, <2>3
      <3> QED
        BY <1>3, <2>3, <3>1, <3>2 DEF Unwanted
    <2>8. \A i \in DOMAIN new : /\ new[i].since <= k
                                /\ new[i].matches = Cardinality(Accepted(new[i], log))
      <3>1. \A i \in DOMAIN new : i \in DOMAIN e \/ i = Len(e) + 1
        BY <1>3, <2>3
      <3> QED
        BY <2>3, <2>4, <2>5, <3>1
    <2>9. HandlersSawTheirFrames'
      BY <1>2, <2>2, <2>6, <2>7, <2>8 DEF HandlersSawTheirFrames, Accepted, Unwanted, new
    <2> QED
      BY <1>2, <2>2, <2>8, <2>9 DEF HandlersInv, new, k
  <1> QED
    BY <1>1, <1>4, <1>5 DEF Register

(* HandlersSawTheirFrames: every handler is called for exactly the frames  *)
(* its filter accepts, each of several that overlap, from its registration *)
(* on; a frame is unmatched when none wanted it.  For every bus, every set *)
(* of filters and every order of registrations and frames.                 *)
THEOREM HandlersAreCalled == Spec => []HandlersSawTheirFrames
  <1>1. Init => HandlersInv
    <2> SUFFICES ASSUME Init PROVE HandlersInv
      OBVIOUS
    <2>1. log = <<>> /\ disp = [entries |-> <<>>, unmatched |-> 0]
      BY DEF Init, NoHandlers
    <2>2. log \in Seq({}) /\ <<>> \in Seq(Entry) /\ DOMAIN log = {} /\ DOMAIN disp.entries = {}
      BY <2>1
    <2>3. Cardinality({n \in DOMAIN log :
            \A i \in DOMAIN disp.entries :
                disp.entries[i].since < n => ~ Matches(disp.entries[i].filter, log[n])}) = 0
      BY <2>2, FS_EmptySet
    <2> QED
      BY <2>1, <2>2, <2>3 DEF HandlersInv, HandlersSawTheirFrames, IsLog, Tables
  <1>2. HandlersInv /\ [Next]_vars => HandlersInv'
    <2> SUFFICES ASSUME HandlersInv, [Next]_vars PROVE HandlersInv'
      OBVIOUS
    <2>1. CASE UNCHANGED <<log, disp>>
      BY <2>1 DEF HandlersInv, HandlersSawTheirFrames
    <2>2. CASE Tick \/ IsrEnqueue \/ IsrStep \/ CallProcess \/ PopAccess \/ UpdateStats
               \/ UNCHANGED vars
      BY <2>1, <2>2
      DEF Tick, IsrEnqueue, IsrStep, CallProcess, PopAccess, UpdateStats, vars, appVars
    <2> QED
      BY <2>2, DispatchSound, RegisterSound DEF Next, Drain
  <1>3. HandlersInv => HandlersSawTheirFrames
    BY DEF HandlersInv
  <1> QED
    BY <1>1, <1>2, <1>3, PTL DEF Spec
-----------------------------------------------------------------------------
(* Arithmetic of the tick: what determines a remainder, and the real time  *)
(* between two instants less than a turn of the tick apart.                *)
LEMMA Remainder ==
    ASSUME NEW d \in Nat, d > 0, NEW q \in Nat, NEW r \in 0 .. d - 1, NEW n \in Nat,
           n = q * d + r
    PROVE  n % d = r
  OBVIOUS

(* Every number is a multiple of the divisor and a remainder below it.     *)
LEMMA Quotient ==
    ASSUME NEW n \in Nat, NEW d \in Nat, d > 0
    PROVE  \E q \in Nat : n = q * d + (n % d)
  BY SMTT(20)

(* How the tick moves in a gap g shorter than one turn of it: it advances  *)
(* by g, or it wraps once and loses a whole turn.                          *)
LEMMA TickAfter ==
    ASSUME NEW a \in Nat, NEW r \in Nat, r = a % TickMod, NEW g \in 0 .. TickMod - 1
    PROVE  /\ r < TickMod
           /\ (a + g) % TickMod = IF r + g < TickMod THEN r + g ELSE r + g - TickMod
  <1>0. TickMod \in Nat /\ TickMod > 0
    BY PipelineAssumption
  <1>1. PICK q \in Nat : a = q * TickMod + r
    BY <1>0, Quotient
  <1>2. r \in 0 .. TickMod - 1 /\ q * TickMod \in Nat
    BY <1>0
  <1>3. CASE r + g < TickMod
    <2>1. a + g \in Nat /\ r + g \in 0 .. TickMod - 1 /\ a + g = q * TickMod + (r + g)
      BY <1>0, <1>1, <1>2, <1>3
    <2>2. (a + g) % TickMod = r + g
      BY <1>0, <2>1, Remainder
    <2> QED
      BY <1>0, <1>2, <1>3, <2>2
  <1>4. CASE r + g >= TickMod
    <2>1. PICK p \in Nat : p = q + 1
      OBVIOUS
    <2>2. p * TickMod = q * TickMod + TickMod
      BY <1>0, <2>1
    <2>3. PICK t \in 0 .. TickMod - 1 : t = r + g - TickMod
      BY <1>0, <1>2, <1>4
    <2>4. PICK n \in Nat : n = a + g
      BY <1>0
    <2>5. n = p * TickMod + t
      BY <1>0, <1>1, <1>2, <2>2, <2>3, <2>4
    <2>6. n % TickMod = t
      BY <1>0, <2>5, Remainder
    <2> QED
      BY <1>0, <1>2, <1>4, <2>3, <2>4, <2>6
  <1> QED
    BY <1>0, <1>2, <1>3, <1>4

(* The unsigned subtraction of two ticks is the time between the two       *)
(* instants, across the wrap too, when they are less than a turn apart.    *)
LEMMA ElapsedIsAge ==
    ASSUME NEW a \in Nat, NEW b \in Nat, a <= b, b - a < TickMod
    PROVE  Elapsed(a % TickMod, b % TickMod) = b - a
  <1>0. TickMod \in Nat /\ TickMod > 0
    BY PipelineAssumption
  <1>1. PICK r \in Nat : r = a % TickMod
    BY <1>0
  <1>2. PICK g \in 0 .. TickMod - 1 : g = b - a
    BY <1>0
  <1>3. PICK e \in Nat : e = b % TickMod
    BY <1>0
  <1>4. r < TickMod /\ e = IF r + g < TickMod THEN r + g ELSE r + g - TickMod
    <2>1. b = a + g
      BY <1>2
    <2> QED
      BY <1>1, <1>3, <2>1, TickAfter
  <1>5. Elapsed(r, e) = (e + TickMod - r) % TickMod
    BY DEF Elapsed
  <1>6. CASE r + g < TickMod
    <2>1. e + TickMod - r = g + TickMod
      BY <1>0, <1>4, <1>6
    <2>2. (g + TickMod) % TickMod = g
      BY <1>0
    <2> QED
      BY <1>1, <1>2, <1>3, <1>5, <2>1, <2>2
  <1>7. CASE r + g >= TickMod
    <2>1. e + TickMod - r = g
      BY <1>0, <1>4, <1>7
    <2>2. g % TickMod = g
      BY <1>0
    <2> QED
      BY <1>1, <1>2, <1>3, <1>5, <2>1, <2>2
  <1> QED
    BY <1>0, <1>6, <1>7

-----------------------------------------------------------------------------
(* The per-identifier table.                                               *)
Ids == {k.id : k \in Kinds}
Ticks == 0 .. TickMod - 1
IdEntry == [id : Ids, frames : Nat, last : Ticks, min : Ticks, max : Ticks]
Statistics == [entries : Seq(IdEntry), total : Nat, overflow : Nat]

(* No identifier has two entries.                                          *)
Distinct(entries) ==
    \A i, j \in DOMAIN entries : entries[i].id = entries[j].id => i = j

(* One further frame of an entry's identifier.                             *)
LEMMA RefreshIs ==
    ASSUME NEW e \in IdEntry, NEW ts \in Ticks
    PROVE  Refresh(e, ts) \in IdEntry /\ Refresh(e, ts).id = e.id /\ Refresh(e, ts).last = ts
  <1>1. Elapsed(e.last, ts) \in Ticks
    BY PipelineAssumption DEF Elapsed, Ticks, IdEntry
  <1> QED
    BY <1>1 DEF Refresh, IdEntry

(* can_stats_update: the entry of the identifier is refreshed, or the frame *)
(* finds the table full, or it gets an entry of its own.                   *)
LEMMA UpdateIs ==
    ASSUME NEW s \in Statistics, Distinct(s.entries), NEW id \in Ids, NEW ts \in Ticks
    PROVE  LET e == s.entries
               u == Update(s, id, ts)
               unknown == \A i \in DOMAIN e : e[i].id # id
           IN  /\ u \in Statistics /\ Distinct(u.entries)
               /\ u.total = s.total + 1
               /\ \/ /\ \E k \in DOMAIN e :
                           e[k].id = id /\ u.entries = [e EXCEPT ![k] = Refresh(e[k], ts)]
                     /\ u.overflow = s.overflow
                  \/ /\ unknown /\ Len(e) >= MaxIds
                     /\ u.entries = e /\ u.overflow = s.overflow + 1
                  \/ /\ unknown /\ ~ (Len(e) >= MaxIds)
                     /\ u.entries = Append(e, NewEntry(id, ts)) /\ u.overflow = s.overflow
  <1> DEFINE u == Update(s, id, ts)
             known == EntriesOf(s, id)
             e == s.entries
  <1>1. e \in Seq(IdEntry) /\ s.total \in Nat /\ s.overflow \in Nat
        /\ s = [entries |-> e, total |-> s.total, overflow |-> s.overflow]
    BY DEF Statistics
  <1>2. /\ DOMAIN e = 1 .. Len(e) /\ Len(e) \in Nat /\ \A i \in DOMAIN e : e[i] \in IdEntry
        /\ e = [i \in 1 .. Len(e) |-> e[i]]
    BY <1>1
  <1>3. known = {i \in DOMAIN e : e[i].id = id}
    BY DEF EntriesOf
  <1>4. CASE known # {}
    <2>1. PICK k \in DOMAIN e : e[k].id = id
      BY <1>3, <1>4
    <2>2. known = {k}
      BY <1>3, <2>1 DEF Distinct
    <2>3. Min(known) = k
      <3>1. k <= k
        BY <1>2, <2>1
      <3> QED
        BY <2>2, <3>1 DEF Min
    <2> DEFINE new == [e EXCEPT ![k] = Refresh(e[k], ts)]
    <2>4. u = [entries |-> new, total |-> s.total + 1, overflow |-> s.overflow]
      BY <1>1, <1>4, <2>3 DEF Update
    <2>5. Refresh(e[k], ts) \in IdEntry /\ Refresh(e[k], ts).id = id
      BY <1>2, <2>1, RefreshIs
    <2>6. /\ DOMAIN new = DOMAIN e /\ new[k] = Refresh(e[k], ts)
          /\ \A i \in DOMAIN e : i # k => new[i] = e[i]
      BY <2>1
    <2>7. new \in Seq(IdEntry)
      BY <1>1, <1>2, <2>1, <2>5
    <2>8. Distinct(new)
      <3> HIDE DEF new
      <3> QED
        BY <2>1, <2>5, <2>6 DEF Distinct
    <2> HIDE DEF u, new
    <2>9. /\ u \in Statistics /\ u.entries = new
          /\ u.total = s.total + 1 /\ u.overflow = s.overflow
      BY <1>1, <2>4, <2>7 DEF Statistics
    <2> QED
      BY <2>1, <2>8, <2>9 DEF u, new
  <1>5. CASE known = {} /\ Len(e) >= MaxIds
    <2>1. u = [entries |-> e, total |-> s.total + 1, overflow |-> s.overflow + 1]
      BY <1>1, <1>5 DEF Update
    <2> HIDE DEF u
    <2>2. /\ u \in Statistics /\ u.entries = e
          /\ u.total = s.total + 1 /\ u.overflow = s.overflow + 1
      BY <1>1, <2>1 DEF Statistics
    <2> QED
      BY <1>3, <1>5, <2>2 DEF u
  <1>6. CASE known = {} /\ ~ (Len(e) >= MaxIds)
    <2> DEFINE new == Append(e, NewEntry(id, ts))
    <2>1. u = [entries |-> new, total |-> s.total + 1, overflow |-> s.overflow]
      BY <1>1, <1>6 DEF Update
    <2>2. NewEntry(id, ts) \in IdEntry /\ NewEntry(id, ts).id = id
      BY PipelineAssumption DEF NewEntry, IdEntry, Ticks
    <2>3. /\ new \in Seq(IdEntry) /\ DOMAIN new = 1 .. Len(e) + 1
          /\ \A i \in DOMAIN e : new[i] = e[i]
          /\ new[Len(e) + 1] = NewEntry(id, ts)
      BY <1>1, <1>2, <2>2, AppendProperties
    <2>4. \A i \in DOMAIN new : i \in DOMAIN e \/ i = Len(e) + 1
      BY <1>2, <2>3
    <2> HIDE DEF new, u
    <2>5. Distinct(new)
      BY <1>3, <1>6, <2>2, <2>3, <2>4 DEF Distinct
    <2>6. /\ u \in Statistics /\ u.entries = new
          /\ u.total = s.total + 1 /\ u.overflow = s.overflow
      BY <1>1, <2>1, <2>3 DEF Statistics
    <2> QED
      BY <1>3, <1>6, <2>5, <2>6 DEF u, new
  <1> QED
    BY <1>4, <1>5, <1>6

-----------------------------------------------------------------------------
(* What the table says of a log l: the positions of an identifier, the     *)
(* last of them, and the gaps between two that follow each other.          *)
Seen(l, id) == {n \in DOMAIN l : l[n].id = id}
IsLast(l, id, n) == n \in Seen(l, id) /\ \A m \in Seen(l, id) : m <= n
Follows(l, id, i, j) ==
    /\ i \in Seen(l, id) /\ j \in Seen(l, id) /\ i < j
    /\ \A m \in Seen(l, id) : ~ (i < m /\ m < j)
IsGap(l, id, g) ==
    \E i, j \in Seen(l, id) : Follows(l, id, i, j) /\ g = l[j].at - l[i].at

(* An entry is right about a log: it counted every frame of its            *)
(* identifier, has the time of the last, and knows the least and the       *)
(* greatest gap unless the tick could not show one of them.                *)
EntrySound(l, e) ==
    /\ \E n \in DOMAIN l : IsLast(l, e.id, n) /\ e.last = Timestamp(l[n])
    /\ e.frames = Cardinality(Seen(l, e.id))
    /\ e.frames = 1 => e.max = 0 /\ \A g : ~ IsGap(l, e.id, g)
    /\ e.frames # 1 => \E g : IsGap(l, e.id, g)
    /\ (\A g : IsGap(l, e.id, g) => g < TickMod) =>
        /\ \A g : IsGap(l, e.id, g) => e.min <= g /\ g <= e.max
        /\ e.frames # 1 => IsGap(l, e.id, e.min) /\ IsGap(l, e.id, e.max)

(* A log with a frame appended.                                            *)
LEMMA LogAppend ==
    ASSUME NEW l \in Seq(Frame), NEW f \in Frame
    PROVE  LET m == Append(l, f)
               k == Len(l) + 1
           IN  /\ m \in Seq(Frame) /\ Len(l) \in Nat /\ k \in Nat
               /\ DOMAIN l = 1 .. Len(l) /\ DOMAIN m = 1 .. k
               /\ \A n \in DOMAIN l : m[n] = l[n] /\ n \in Nat /\ n < k
               /\ m[k] = f /\ k \in DOMAIN m
               /\ \A n \in DOMAIN m : n = k \/ n \in DOMAIN l
  <1>1. /\ Append(l, f) \in Seq(Frame) /\ Len(Append(l, f)) = Len(l) + 1
        /\ \A n \in 1 .. Len(l) : Append(l, f)[n] = l[n]
        /\ Append(l, f)[Len(l) + 1] = f
    BY AppendProperties
  <1>2. Len(l) \in Nat /\ DOMAIN l = 1 .. Len(l)
    OBVIOUS
  <1> QED
    BY <1>1, <1>2

(* The times of the frames of a log are numbers.                           *)
LEMMA TimesAreNat ==
    ASSUME NEW f \in Frame
    PROVE  f.at \in Nat /\ f.id \in Ids /\ Timestamp(f) \in Ticks
  <1>1. f.at \in Nat /\ f.id \in Ids
    BY PipelineAssumption DEF Frame, Ids
  <1> QED
    BY <1>1, PipelineAssumption DEF Timestamp, Ticks

(* What is said of other identifiers stays.                                *)
LEMMA OtherEntry ==
    ASSUME NEW l \in Seq(Frame), NEW f \in Frame, NEW e, e.id # f.id, EntrySound(l, e)
    PROVE  EntrySound(Append(l, f), e)
  <1> DEFINE m == Append(l, f)
  <1>1. /\ \A n \in DOMAIN l : n \in DOMAIN m /\ m[n] = l[n]
        /\ \A n \in DOMAIN m : n \in DOMAIN l \/ m[n] = f
    BY LogAppend
  <1> HIDE DEF m
  <1>2. Seen(m, e.id) = Seen(l, e.id)
    BY <1>1 DEF Seen
  <1>3. \A n \in Seen(l, e.id) : n \in DOMAIN l /\ m[n] = l[n]
    BY <1>1 DEF Seen
  <1>4. \A i, j : Follows(m, e.id, i, j) <=> Follows(l, e.id, i, j)
    BY <1>2 DEF Follows
  <1>5. \A g : IsGap(m, e.id, g) <=> IsGap(l, e.id, g)
    BY <1>2, <1>3, <1>4 DEF IsGap
  <1>6. \E n \in DOMAIN m : IsLast(m, e.id, n) /\ e.last = Timestamp(m[n])
    <2>1. PICK n \in DOMAIN l : IsLast(l, e.id, n) /\ e.last = Timestamp(l[n])
      BY DEF EntrySound
    <2> QED
      BY <1>1, <1>2, <2>1 DEF IsLast
  <1>7. EntrySound(m, e)
    BY <1>2, <1>5, <1>6 DEF EntrySound
  <1> QED
    BY <1>7 DEF m

(* The first frame of an identifier.                                       *)
LEMMA FirstOfEntry ==
    ASSUME NEW l \in Seq(Frame), NEW f \in Frame, Seen(l, f.id) = {}
    PROVE  EntrySound(Append(l, f), NewEntry(f.id, Timestamp(f)))
  <1> DEFINE m == Append(l, f)
             k == Len(l) + 1
             e == NewEntry(f.id, Timestamp(f))
  <1>1. /\ \A n \in DOMAIN l : m[n] = l[n]
        /\ k \in DOMAIN m /\ m[k] = f /\ k \in Nat
        /\ \A n \in DOMAIN m : n = k \/ n \in DOMAIN l
    BY LogAppend
  <1>2. e.id = f.id /\ e.frames = 1 /\ e.last = Timestamp(f) /\ e.max = 0
    BY DEF NewEntry
  <1> HIDE DEF m, k, e
  <1>3. Seen(m, e.id) = {k}
    BY <1>1, <1>2 DEF Seen
  <1>4. Cardinality(Seen(m, e.id)) = 1
    BY <1>3, FS_Singleton
  <1>5. IsLast(m, e.id, k)
    BY <1>1, <1>3 DEF IsLast
  <1>6. \A g : ~ IsGap(m, e.id, g)
    BY <1>1, <1>3 DEF IsGap, Follows
  <1>7. EntrySound(m, e)
    BY <1>1, <1>2, <1>4, <1>5, <1>6 DEF EntrySound
  <1> QED
    BY <1>7 DEF m, e

(* A further frame of an identifier closes one more gap, from the last     *)
(* frame to this one.                                                      *)
LEMMA GapAfter ==
    ASSUME NEW l \in Seq(Frame), NEW f \in Frame, NEW n, IsLast(l, f.id, n)
    PROVE  /\ n \in DOMAIN l
           /\ Seen(Append(l, f), f.id) = Seen(l, f.id) \cup {Len(l) + 1}
           /\ IsLast(Append(l, f), f.id, Len(l) + 1)
           /\ \A g : IsGap(Append(l, f), f.id, g)
                        <=> IsGap(l, f.id, g) \/ g = f.at - l[n].at
  <1> DEFINE m == Append(l, f)
             k == Len(l) + 1
             id == f.id
             S == Seen(l, id)
             T == Seen(m, id)
  <1>1. /\ \A x \in DOMAIN l : x \in DOMAIN m /\ m[x] = l[x] /\ x \in Nat /\ x < k
        /\ k \in DOMAIN m /\ m[k] = f /\ k \in Nat
        /\ \A x \in DOMAIN m : x = k \/ x \in DOMAIN l
    BY LogAppend
  <1> HIDE DEF m, k
  <1>2. T = S \cup {k} /\ k \notin S
    BY <1>1 DEF Seen
  <1>3. \A x \in S : x \in DOMAIN l /\ x \in Nat /\ x < k /\ m[x] = l[x]
    BY <1>1 DEF Seen
  <1>4. n \in S /\ \A x \in S : x <= n
    BY DEF IsLast
  <1> HIDE DEF S, T
  <1>5. IsLast(m, id, k)
    BY <1>1, <1>2, <1>3 DEF IsLast, T
  <1>6. \A i, j : Follows(m, id, i, j) <=> Follows(l, id, i, j) \/ (i = n /\ j = k)
    <2>1. ASSUME NEW i, NEW j, Follows(m, id, i, j) PROVE Follows(l, id, i, j) \/ (i = n /\ j = k)
      <3>1. i \in T /\ j \in T /\ i < j /\ \A x \in T : ~ (i < x /\ x < j)
        BY <2>1 DEF Follows, T
      <3>2. i \in S
        <4>1. i # k
          BY <1>1, <1>2, <1>3, <3>1
        <4> QED
          BY <1>2, <3>1, <4>1
      <3>3. CASE j = k
        <4>1. ~ (i < n /\ n < k)
          BY <1>2, <1>4, <3>1, <3>3
        <4>2. i = n
          BY <1>3, <1>4, <3>2, <4>1
        <4> QED
          BY <3>3, <4>2
      <3>4. CASE j \in S
        BY <1>2, <3>1, <3>2, <3>4 DEF Follows, S
      <3> QED
        BY <1>2, <3>1, <3>3, <3>4
    <2>2. ASSUME NEW i, NEW j, Follows(l, id, i, j) PROVE Follows(m, id, i, j)
      <3>1. i \in S /\ j \in S /\ i < j /\ \A x \in S : ~ (i < x /\ x < j)
        BY <2>2 DEF Follows, S
      <3>2. ~ (i < k /\ k < j)
        BY <1>1, <1>3, <3>1
      <3> QED
        BY <1>2, <3>1, <3>2 DEF Follows, T
    <2>3. Follows(m, id, n, k)
      <3>1. n < k /\ \A x \in T : ~ (n < x /\ x < k)
        BY <1>1, <1>2, <1>3, <1>4
      <3> QED
        BY <1>2, <1>4, <3>1 DEF Follows, T
    <2> QED
      BY <2>1, <2>2, <2>3
  <1>7. ASSUME NEW g PROVE IsGap(m, id, g) <=> IsGap(l, id, g) \/ g = f.at - l[n].at
    <2>1. ASSUME IsGap(m, id, g) PROVE IsGap(l, id, g) \/ g = f.at - l[n].at
      <3>1. PICK i, j \in T : Follows(m, id, i, j) /\ g = m[j].at - m[i].at
        BY <2>1 DEF IsGap, T
      <3>2. CASE i = n /\ j = k
        BY <1>1, <1>3, <1>4, <3>1, <3>2
      <3>3. CASE Follows(l, id, i, j)
        <4>1. i \in S /\ j \in S
          BY <3>3 DEF Follows, S
        <4> QED
          BY <1>3, <3>1, <3>3, <4>1 DEF IsGap, S
      <3> QED
        BY <1>6, <3>1, <3>2, <3>3
    <2>2. ASSUME IsGap(l, id, g) PROVE IsGap(m, id, g)
      <3>1. PICK i, j \in S : Follows(l, id, i, j) /\ g = l[j].at - l[i].at
        BY <2>2 DEF IsGap, S
      <3> QED
        BY <1>2, <1>3, <1>6, <3>1 DEF IsGap, T
    <2>3. ASSUME g = f.at - l[n].at PROVE IsGap(m, id, g)
      <3>1. Follows(m, id, n, k) /\ n \in T /\ k \in T
        BY <1>2, <1>4, <1>6
      <3>2. g = m[k].at - m[n].at
        BY <1>1, <1>3, <1>4, <2>3
      <3> QED
        BY <3>1, <3>2 DEF IsGap, T
    <2> QED
      BY <2>1, <2>2, <2>3
  <1> QED
    BY <1>2, <1>3, <1>4, <1>5, <1>7 DEF m, k, S, T

(* A gap is a number.                                                      *)
LEMMA GapIsInt ==
    ASSUME NEW l \in Seq(Frame), NEW id, NEW g, IsGap(l, id, g)
    PROVE  g \in Int
  <1>1. PICK i, j \in Seen(l, id) : g = l[j].at - l[i].at
    BY DEF IsGap
  <1>2. l[i] \in Frame /\ l[j] \in Frame
    BY DEF Seen
  <1> QED
    BY <1>1, <1>2, TimesAreNat

(* What can_stats_update computes for a further frame of an entry's        *)
(* identifier: across a wrap of the tick too, the difference of the two    *)
(* timestamps is the real gap.                                             *)
LEMMA SameEntry ==
    ASSUME NEW l \in Seq(Frame), NEW f \in Frame, NEW e \in IdEntry, e.id = f.id,
           EntrySound(l, e), \A n \in DOMAIN l : l[n].at <= f.at
    PROVE  EntrySound(Append(l, f), Refresh(e, Timestamp(f)))
  <1> DEFINE m == Append(l, f)
             k == Len(l) + 1
             r == Refresh(e, Timestamp(f))
             id == f.id
  <1>1. PICK n \in DOMAIN l : IsLast(l, id, n) /\ e.last = Timestamp(l[n])
    BY DEF EntrySound
  <1>2. l[n] \in Frame /\ l[n].at \in Nat /\ f.at \in Nat /\ l[n].at <= f.at
    BY <1>1, TimesAreNat
  <1>3. PICK gap \in Nat : gap = f.at - l[n].at
    BY <1>2
  <1>4. /\ Seen(m, id) = Seen(l, id) \cup {k} /\ IsLast(m, id, k)
        /\ \A g : IsGap(m, id, g) <=> IsGap(l, id, g) \/ g = gap
    BY <1>1, <1>3, GapAfter
  <1>5. k \in DOMAIN m /\ m[k] = f /\ k \notin Seen(l, id)
        /\ Seen(l, id) \in SUBSET (1 .. Len(l)) /\ Len(l) \in Nat
    BY LogAppend DEF Seen
  <1>6. IsFiniteSet(Seen(l, id)) /\ Cardinality(Seen(l, id)) \in Nat
    <2>1. IsFiniteSet(1 .. Len(l))
      BY <1>5, FS_Interval
    <2> HIDE DEF m, k, r, id
    <2> QED
      BY <1>5, <2>1, FS_Subset, FS_CardinalityType
  <1>7. Cardinality(Seen(m, id)) = Cardinality(Seen(l, id)) + 1
    <2> HIDE DEF m, k, r, id
    <2> QED
      BY <1>4, <1>5, <1>6, FS_AddElement
  <1>8. Cardinality(Seen(l, id)) # 0
    <2>1. Seen(l, id) # {}
      BY <1>1 DEF IsLast
    <2> HIDE DEF m, k, r, id
    <2> QED
      BY <1>6, <2>1, FS_EmptySet
  <1>9. /\ r.id = id /\ r.frames = e.frames + 1 /\ r.last = Timestamp(f)
        /\ LET elapsed == Elapsed(e.last, Timestamp(f))
           IN  /\ r.min = IF elapsed < e.min \/ e.frames = 1 THEN elapsed ELSE e.min
               /\ r.max = IF elapsed > e.max THEN elapsed ELSE e.max
    BY DEF Refresh
  <1>10. e.frames \in Nat /\ e.min \in Nat /\ e.max \in Nat
    BY PipelineAssumption DEF IdEntry, Ticks
  <1>11. e.frames = Cardinality(Seen(l, id)) /\ e.frames # 0
    BY <1>8 DEF EntrySound
  <1>12. ASSUME \A g : IsGap(m, id, g) => g < TickMod
         PROVE  /\ \A g : IsGap(m, id, g) => r.min <= g /\ g <= r.max
                /\ IsGap(m, id, r.min) /\ IsGap(m, id, r.max)
    <2>1. gap < TickMod /\ \A g : IsGap(l, id, g) => g < TickMod
      BY <1>4, <1>12
    <2>2. Elapsed(e.last, Timestamp(f)) = gap
      <3>1. Elapsed(l[n].at % TickMod, f.at % TickMod) = f.at - l[n].at
        BY <1>2, <1>3, <2>1, ElapsedIsAge
      <3> QED
        BY <1>1, <1>3, <3>1 DEF Timestamp
    <2>3. CASE e.frames = 1
      <3>1. e.max = 0 /\ \A g : ~ IsGap(l, id, g)
        BY <2>3 DEF EntrySound
      <3>2. r.min = gap /\ r.max = gap
        BY <1>3, <1>9, <2>2, <2>3, <3>1
      <3>3. \A g : IsGap(m, id, g) <=> g = gap
        BY <1>4, <3>1
      <3> HIDE DEF m, k, r, id
      <3> QED
        BY <3>2, <3>3
    <2>4. CASE e.frames # 1
      <3>1. /\ \A g : IsGap(l, id, g) => e.min <= g /\ g <= e.max
            /\ IsGap(l, id, e.min) /\ IsGap(l, id, e.max)
        BY <2>1, <2>4 DEF EntrySound
      <3>2. /\ r.min = IF gap < e.min THEN gap ELSE e.min
            /\ r.max = IF gap > e.max THEN gap ELSE e.max
        BY <1>9, <2>2, <2>4
      <3>3. \A g : IsGap(l, id, g) => r.min <= g /\ g <= r.max
        <4> SUFFICES ASSUME NEW g, IsGap(l, id, g) PROVE r.min <= g /\ g <= r.max
          OBVIOUS
        <4>1. e.min <= g /\ g <= e.max
          BY <3>1
        <4>2. g \in Int
          BY GapIsInt
        <4> HIDE DEF m, k, r, id
        <4> QED
          BY <1>10, <3>2, <4>1, <4>2
      <3>4. r.min <= gap /\ gap <= r.max
        BY <1>10, <3>2
      <3> HIDE DEF m, k, r, id
      <3> QED
        BY <1>4, <3>1, <3>2, <3>3, <3>4
    <2> QED
      BY <2>3, <2>4
  <1>13. IsGap(m, id, gap) /\ r.frames # 1 /\ r.frames = Cardinality(Seen(m, id))
    BY <1>4, <1>7, <1>9, <1>10, <1>11
  <1> HIDE DEF m, k, r, id
  <1>14. EntrySound(m, r)
    BY <1>4, <1>5, <1>9, <1>12, <1>13 DEF EntrySound
  <1> QED
    BY <1>14 DEF m, r

(* The frames of a log whose identifier has no entry.                      *)
Untracked(l, entries) == {n \in DOMAIN l : \A i \in DOMAIN entries : entries[i].id # l[n].id}

(* The whole table is right about a log.  A frame is without an entry only *)
(* when the table is full, and the table stays full.                       *)
StatsSound(l, s) ==
    /\ s \in Statistics
    /\ Distinct(s.entries)
    /\ s.total = Len(l)
    /\ s.overflow = Cardinality(Untracked(l, s.entries))
    /\ Untracked(l, s.entries) # {} => Len(s.entries) >= MaxIds
    /\ \A i \in DOMAIN s.entries : EntrySound(l, s.entries[i])

(* can_stats_update keeps it right about the log with the frame.           *)
LEMMA UpdateSound ==
    ASSUME NEW l \in Seq(Frame), NEW f \in Frame, NEW s, StatsSound(l, s),
           \A n \in DOMAIN l : l[n].at <= f.at
    PROVE  StatsSound(Append(l, f), Update(s, f.id, Timestamp(f)))
  <1> DEFINE m == Append(l, f)
             k == Len(l) + 1
             e == s.entries
             id == f.id
             ts == Timestamp(f)
             u == Update(s, id, ts)
             unknown == \A i \in DOMAIN e : e[i].id # id
             old == Untracked(l, e)
             new == Untracked(m, u.entries)
  <1>1. /\ s \in Statistics /\ Distinct(e) /\ s.total = Len(l)
        /\ s.overflow = Cardinality(old)
        /\ old # {} => Len(e) >= MaxIds
        /\ \A i \in DOMAIN e : EntrySound(l, e[i])
    BY DEF StatsSound
  <1>2. e \in Seq(IdEntry) /\ DOMAIN e = 1 .. Len(e) /\ Len(e) \in Nat
        /\ \A i \in DOMAIN e : e[i] \in IdEntry
    BY <1>1 DEF Statistics
  <1>3. id \in Ids /\ ts \in Ticks
    BY TimesAreNat
  <1>4. /\ DOMAIN l = 1 .. Len(l) /\ Len(l) \in Nat /\ DOMAIN m = 1 .. Len(l) + 1
        /\ \A n \in DOMAIN l : m[n] = l[n] /\ n \in DOMAIN m
        /\ k \in DOMAIN m /\ m[k] = f /\ k \notin DOMAIN l
        /\ \A n \in DOMAIN m : n = k \/ n \in DOMAIN l
    BY LogAppend
  <1>5. Len(m) = Len(l) + 1
    BY AppendProperties
  <1>6. old \subseteq 1 .. Len(l) /\ new \subseteq 1 .. Len(l) + 1
    BY <1>4 DEF Untracked
  <1>7. CASE \E j \in DOMAIN e : e[j].id = id /\ u.entries = [e EXCEPT ![j] = Refresh(e[j], ts)]
                                 /\ u.overflow = s.overflow
    <2>1. PICK j \in DOMAIN e : /\ e[j].id = id /\ u.entries = [e EXCEPT ![j] = Refresh(e[j], ts)]
                                /\ u.overflow = s.overflow
      BY <1>7
    <2> DEFINE v == u.entries
    <2>2. /\ DOMAIN v = DOMAIN e /\ v[j] = Refresh(e[j], ts) /\ Len(v) = Len(e)
          /\ \A i \in DOMAIN e : i # j => v[i] = e[i]
      BY <1>2, <2>1
    <2>3. v[j].id = id
      BY <1>2, <1>3, <2>1, <2>2, RefreshIs
    <2>4. \A i \in DOMAIN v : v[i].id = e[i].id
      BY <2>1, <2>2, <2>3
    <2>5. new = old
      <3> HIDE DEF v, m, k, id, u, e
      <3> QED
        BY <1>4, <2>1, <2>2, <2>4 DEF Untracked, v, id
    <2>6. \A i \in DOMAIN v : EntrySound(m, v[i])
      <3>1. ASSUME NEW i \in DOMAIN v, i # j PROVE EntrySound(m, v[i])
        <4>1. e[i].id # id
          BY <1>1, <2>1, <2>2, <3>1 DEF Distinct
        <4>2. EntrySound(m, e[i])
          BY <1>1, <2>2, <4>1, OtherEntry
        <4> QED
          BY <2>2, <3>1, <4>2
      <3>2. EntrySound(m, v[j])
        <4>1. e[j] \in IdEntry /\ EntrySound(l, e[j]) /\ e[j].id = f.id
          BY <1>1, <1>2, <2>1
        <4>2. EntrySound(m, Refresh(e[j], ts))
          BY <4>1, SameEntry
        <4> QED
          BY <2>2, <4>2
      <3> QED
        BY <3>1, <3>2
    <2>7. u \in Statistics /\ Distinct(v) /\ u.total = s.total + 1
      BY <1>1, <1>3, UpdateIs
    <2> HIDE DEF v, m, k, id, ts, u, e, old, new
    <2>8. StatsSound(m, u)
      BY <1>1, <1>5, <2>1, <2>2, <2>5, <2>6, <2>7 DEF StatsSound, v, new
    <2> QED
      BY <2>8 DEF m, u, id, ts
  <1>8. CASE unknown /\ Len(e) >= MaxIds /\ u.entries = e /\ u.overflow = s.overflow + 1
    <2>1. new = old \cup {k}
      <3> HIDE DEF m, k, u, e
      <3> QED
        BY <1>4, <1>8 DEF Untracked, id
    <2>2. Cardinality(new) = Cardinality(old) + 1
      <3>1. \A n \in 1 .. Len(l) : n \in new <=> n \in old
        BY <1>4, <2>1
      <3>2. k \in new
        BY <2>1
      <3> HIDE DEF m, e, u, old, new
      <3> QED
        BY <1>4, <1>6, <3>1, <3>2, CountUpTo DEF k
    <2>3. \A i \in DOMAIN e : EntrySound(m, e[i])
      BY <1>1, <1>8, OtherEntry
    <2>4. u \in Statistics /\ Distinct(u.entries) /\ u.total = s.total + 1
      BY <1>1, <1>3, UpdateIs
    <2> HIDE DEF m, k, id, ts, u, e, old, new, unknown
    <2>5. StatsSound(m, u)
      BY <1>1, <1>5, <1>8, <2>2, <2>3, <2>4 DEF StatsSound, new
    <2> QED
      BY <2>5 DEF m, u, id, ts
  <1>9. CASE /\ unknown /\ ~ (Len(e) >= MaxIds)
             /\ u.entries = Append(e, NewEntry(id, ts)) /\ u.overflow = s.overflow
    <2> DEFINE x == NewEntry(id, ts)
               v == u.entries
    <2>1. x \in IdEntry /\ x.id = id
      BY <1>3, PipelineAssumption DEF NewEntry, IdEntry, Ticks
    <2>2. /\ DOMAIN v = 1 .. Len(e) + 1 /\ v[Len(e) + 1] = x
          /\ \A i \in DOMAIN e : i \in DOMAIN v /\ v[i] = e[i]
      <3> HIDE DEF x
      <3>1. v = Append(e, x)
        BY <1>9 DEF x
      <3> HIDE DEF v
      <3> QED
        BY <1>2, <2>1, <3>1, AppendProperties
    <2>3. old = {}
      BY <1>1, <1>9
    <2>4. new = {}
      <3>1. \A n \in DOMAIN l : \E i \in DOMAIN e : e[i].id = l[n].id
        BY <2>3 DEF Untracked
      <3>2. \A n \in DOMAIN m : \E i \in DOMAIN v : v[i].id = m[n].id
        <4> SUFFICES ASSUME NEW n \in DOMAIN m PROVE \E i \in DOMAIN v : v[i].id = m[n].id
          OBVIOUS
        <4>1. CASE n = k
          <5>1. Len(e) + 1 \in DOMAIN v /\ v[Len(e) + 1].id = id
            BY <1>2, <2>1, <2>2
          <5> QED
            BY <1>4, <4>1, <5>1
        <4>2. CASE n \in DOMAIN l
          BY <1>4, <2>2, <3>1, <4>2
        <4> QED
          BY <1>4, <4>1, <4>2
      <3> HIDE DEF v
      <3> QED
        BY <3>2 DEF Untracked, v
    <2>5. Seen(l, id) = {}
      <3>1. \A n \in DOMAIN l : \E i \in DOMAIN e : e[i].id = l[n].id
        BY <2>3 DEF Untracked
      <3> QED
        BY <1>9, <3>1 DEF Seen
    <2>6. \A i \in DOMAIN v : EntrySound(m, v[i])
      <3>1. \A i \in DOMAIN e : EntrySound(m, v[i])
        BY <1>1, <1>9, <2>2, OtherEntry
      <3>2. EntrySound(m, x)
        BY <2>5, FirstOfEntry
      <3>3. \A i \in DOMAIN v : i \in DOMAIN e \/ i = Len(e) + 1
        BY <1>2, <2>2
      <3> QED
        BY <2>2, <3>1, <3>2, <3>3
    <2>7. u \in Statistics /\ Distinct(u.entries) /\ u.total = s.total + 1
      BY <1>1, <1>3, UpdateIs
    <2> HIDE DEF v, x, m, k, id, ts, u, e, old, new, unknown
    <2>8. StatsSound(m, u)
      BY <1>1, <1>5, <1>9, <2>3, <2>4, <2>6, <2>7, FS_EmptySet DEF StatsSound, new, v
    <2> QED
      BY <2>8 DEF m, u, id, ts
  <1>10. \/ \E j \in DOMAIN e : e[j].id = id /\ u.entries = [e EXCEPT ![j] = Refresh(e[j], ts)]
                                 /\ u.overflow = s.overflow
         \/ unknown /\ Len(e) >= MaxIds /\ u.entries = e /\ u.overflow = s.overflow + 1
         \/ /\ unknown /\ ~ (Len(e) >= MaxIds)
            /\ u.entries = Append(e, NewEntry(id, ts)) /\ u.overflow = s.overflow
    <2>1. s \in Statistics /\ Distinct(s.entries)
      BY <1>1
    <2> HIDE DEF id, ts
    <2> QED
      BY <1>3, <2>1, UpdateIs
  <1> QED
    BY <1>7, <1>8, <1>9, <1>10

-----------------------------------------------------------------------------
(* Sequences of frames in the order of their reception.                    *)
Sorted(s) == \A i, j \in 1 .. Len(s) : i <= j => s[i].at <= s[j].at
AtMost(s, t) == \A i \in 1 .. Len(s) : s[i].at <= t
AtLeast(s, t) == \A i \in 1 .. Len(s) : t <= s[i].at

(* A frame received last goes to the end of a sequence in order.           *)
LEMMA OrderOfAppend ==
    ASSUME NEW s \in Seq(Frame), NEW f \in Frame
    PROVE  /\ Sorted(s) /\ AtMost(s, f.at) => Sorted(Append(s, f))
           /\ \A t : AtMost(s, t) /\ f.at <= t => AtMost(Append(s, f), t)
           /\ \A t : AtLeast(s, t) /\ t <= f.at => AtLeast(Append(s, f), t)
  <1> DEFINE m == Append(s, f)
             k == Len(s) + 1
  <1>1. Len(m) = k /\ DOMAIN s = 1 .. Len(s) /\ Len(s) \in Nat
    BY LogAppend, AppendProperties
  <1>2. m[k] = f /\ \A i \in 1 .. Len(s) : m[i] = s[i]
    BY <1>1, LogAppend
  <1>3. \A i \in 1 .. Len(s) : s[i].at \in Nat
    BY <1>1, TimesAreNat
  <1>4. f.at \in Nat
    BY TimesAreNat
  <1> HIDE DEF m
  <1>5. \A i \in 1 .. Len(m) : i \in 1 .. Len(s) \/ i = k
    BY <1>1
  <1>6. Sorted(s) /\ AtMost(s, f.at) => Sorted(m)
    BY <1>1, <1>2, <1>3, <1>4, <1>5 DEF Sorted, AtMost
  <1>7. /\ \A t : AtMost(s, t) /\ f.at <= t => AtMost(m, t)
        /\ \A t : AtLeast(s, t) /\ t <= f.at => AtLeast(m, t)
    BY <1>1, <1>2, <1>5 DEF AtMost, AtLeast
  <1> QED
    BY <1>6, <1>7 DEF m

(* The frame at the front is the earliest, and the others stay in order.   *)
LEMMA OrderOfTail ==
    ASSUME NEW s \in Seq(Frame), s # <<>>
    PROVE  /\ Head(s) \in Frame
           /\ Sorted(s) => Sorted(Tail(s)) /\ AtLeast(Tail(s), Head(s).at)
           /\ \A t : AtMost(s, t) => AtMost(Tail(s), t) /\ Head(s).at <= t
           /\ \A t : AtLeast(s, t) => AtLeast(Tail(s), t) /\ t <= Head(s).at
  <1> DEFINE m == Tail(s)
  <1>1. /\ Head(s) = s[1] /\ Len(s) \in Nat /\ Len(s) >= 1 /\ Len(m) = Len(s) - 1
        /\ \A i \in 1 .. Len(m) : m[i] = s[i + 1]
    BY HeadTailProperties, EmptySeq
  <1>2. s[1] \in Frame /\ 1 \in 1 .. Len(s)
    BY <1>1
  <1> HIDE DEF m
  <1>3. \A i \in 1 .. Len(m) : i \in Int /\ i + 1 \in 1 .. Len(s) /\ 1 <= i + 1
    BY <1>1
  <1>4. Sorted(s) => Sorted(m)
    <2> SUFFICES ASSUME Sorted(s), NEW i \in 1 .. Len(m), NEW j \in 1 .. Len(m), i <= j
                 PROVE  m[i].at <= m[j].at
      BY DEF Sorted
    <2>1. i + 1 \in 1 .. Len(s) /\ j + 1 \in 1 .. Len(s) /\ i + 1 <= j + 1
      BY <1>3
    <2>2. s[i + 1].at <= s[j + 1].at
      BY <2>1 DEF Sorted
    <2> QED
      BY <1>1, <2>2
  <1>5. Sorted(s) => AtLeast(m, s[1].at)
    <2> SUFFICES ASSUME Sorted(s), NEW i \in 1 .. Len(m) PROVE s[1].at <= m[i].at
      BY DEF AtLeast
    <2>1. s[1].at <= s[i + 1].at
      BY <1>2, <1>3 DEF Sorted
    <2> QED
      BY <1>1, <2>1
  <1>6. /\ \A t : AtMost(s, t) => AtMost(m, t) /\ s[1].at <= t
        /\ \A t : AtLeast(s, t) => AtLeast(m, t) /\ t <= s[1].at
    BY <1>1, <1>2, <1>3 DEF AtMost, AtLeast
  <1> QED
    BY <1>1, <1>2, <1>4, <1>5, <1>6 DEF m

(* What was received by an instant was received by any later one.          *)
LEMMA AtMostLater ==
    ASSUME NEW s \in Seq(Frame), NEW t \in Nat, NEW u \in Nat, AtMost(s, t), t <= u
    PROVE  AtMost(s, u)
  <1>1. \A i \in 1 .. Len(s) : s[i].at \in Nat
    BY TimesAreNat
  <1> QED
    BY <1>1 DEF AtMost

(* The latest reception: every frame in the system is at most this old.    *)
Latest == IF isrPc = "idle" THEN now ELSE isrFrame.at

(* The task has a frame that it has not dispatched yet.                    *)
Holds == task \in {"update", "dispatch"}

(* Frames stay in the order of their reception on the whole way: those     *)
(* logged, the one in the task's hand, those queued, the one with the ISR. *)
TrafficInv ==
    /\ log \in Seq(Frame)
    /\ isrPc # "idle" => isrFrame \in Frame
    /\ Latest <= now
    /\ Sorted(RP!Queue)
    /\ AtMost(RP!Queue, Latest)
    /\ AtMost(log, Latest)
    /\ \A n \in DOMAIN log : AtLeast(RP!Queue, log[n].at)
    /\ Holds => /\ InHand \in Frame
                /\ InHand.at <= Latest
                /\ AtLeast(RP!Queue, InHand.at)
                /\ AtMost(log, InHand.at)

(* A step that leaves log, hand and queue alone leaves their order.        *)
LEMMA TrafficKept ==
    ASSUME RP!RingInv, TrafficInv, now \in Nat, now' \in Nat, RP!Queue' = RP!Queue,
           log' = log, Holds' => Holds /\ returned' = returned,
           isrPc' # "idle" => isrFrame' \in Frame, Latest <= Latest', Latest' <= now'
    PROVE  TrafficInv'
  <1> DEFINE q == RP!Queue
  <1>1. q \in Seq(Frame) /\ q' = q /\ \A i \in 1 .. Len(q) : q[i] \in Frame
    BY RP!QueueFacts, PipelineAssumption
  <1>2. Latest \in Nat /\ Latest' \in Nat
    BY TimesAreNat DEF Latest, TrafficInv
  <1>3. Holds' => InHand' = InHand
    BY DEF InHand
  <1>5. Holds => InHand.at <= Latest'
    <2>1. Holds => InHand.at \in Nat /\ InHand.at <= Latest
      BY TimesAreNat DEF TrafficInv
    <2> QED
      BY <1>2, <2>1
  <1> HIDE DEF q
  <1>6. AtMost(q, Latest') /\ AtMost(log, Latest')
    BY <1>1, <1>2, AtMostLater DEF TrafficInv, q
  <1> QED
    BY <1>1, <1>3, <1>5, <1>6 DEF TrafficInv, q

(* Every step keeps the order: the ISR adds the latest frame at one end,   *)
(* publishing and popping move a frame from one part of the way to the     *)
(* next.                                                                   *)
LEMMA TrafficStep ==
    ASSUME RP!RingInv, TimeInv, TrafficInv, [Next]_vars
    PROVE  TrafficInv'
  <1>t. now \in Nat /\ now' \in Nat
    BY PipelineAssumption
    DEF TimeInv, Next, Tick, IsrEnqueue, IsrStep, Drain, CallProcess, PopAccess,
        UpdateStats, DispatchFrame, RegisterHandler, appVars, vars
  <1>r. [RP!Next]_(RP!ringVars)
    BY PipelineStep
  <1>q. ~ RP!PushPublish /\ ~ RP!PopAdvance => RP!Queue' = RP!Queue
    BY <1>r, RP!QueueOtherwise, PipelineAssumption
  <1>l. Latest \in Nat
    BY <1>t, TimesAreNat DEF Latest, TrafficInv
  <1> DEFINE q == RP!Queue
  <1>s. q \in Seq(Frame) /\ \A i \in 1 .. Len(q) : q[i] \in Frame /\ q[i].at \in Nat
    BY RP!QueueFacts, TimesAreNat, PipelineAssumption
  <1>1. CASE Tick \/ CallProcess \/ UpdateStats \/ RegisterHandler \/ UNCHANGED vars
    <2>1. /\ UNCHANGED <<isrPc, isrFrame, popPc, head, buf, tail, returned, log>>
          /\ now <= now'
          /\ Holds' => Holds
      BY <1>1, <1>t
      DEF Tick, CallProcess, UpdateStats, RegisterHandler, vars, ringVars, appVars, Holds
    <2>2. ~ RP!PushPublish /\ ~ RP!PopAdvance
      BY <2>1 DEF RP!PushPublish, RP!PopAdvance
    <2>3. Latest <= Latest' /\ Latest' <= now'
      BY <1>t, <1>l, <2>1 DEF Latest, TrafficInv
    <2> QED
      BY <1>q, <1>t, <2>1, <2>2, <2>3, TrafficKept DEF TrafficInv
  <1>2. CASE IsrEnqueue
    <2>1. PICK k \in Kinds : Ring!PushBegin([id |-> k.id, ide |-> k.ide, at |-> now])
      BY <1>2 DEF IsrEnqueue
    <2>2. /\ isrFrame' = [id |-> k.id, ide |-> k.ide, at |-> now]
          /\ isrPc = "idle" /\ isrPc' = "check"
          /\ UNCHANGED <<popPc, returned, log, task, now>>
      BY <1>2, <2>1 DEF IsrEnqueue, Ring!PushBegin
    <2>3. isrFrame' \in Frame /\ Latest' = now /\ Latest = now
      BY <2>2, PipelineAssumption DEF Frame, TimeInv, Latest
    <2>4. ~ RP!PushPublish /\ ~ RP!PopAdvance
      BY <2>2 DEF RP!PushPublish, RP!PopAdvance
    <2> QED
      BY <1>q, <1>t, <2>2, <2>3, <2>4, TrafficKept DEF Holds
  <1>3. CASE IsrStep
    <2>1. UNCHANGED <<popPc, returned, log, task, now, isrFrame>>
      BY <1>3 DEF IsrStep, appVars, Ring!PushStep, Ring!PushFull, Ring!PushRoom,
                  Ring!PushStoreLo, Ring!PushStoreHi, Ring!PushPublish
    <2>2. isrPc # "idle"
      BY <1>3 DEF IsrStep, Ring!PushStep, Ring!PushFull, Ring!PushRoom,
                  Ring!PushStoreLo, Ring!PushStoreHi, Ring!PushPublish
    <2>3. Latest <= Latest' /\ Latest' <= now'
      BY <1>t, <1>l, <2>1, <2>2 DEF Latest, TrafficInv
    <2>4. ~ RP!PopAdvance
      BY <1>t, <2>1 DEF RP!PopAdvance
    <2>5. CASE ~ RP!PushPublish
      BY <1>q, <1>t, <2>1, <2>2, <2>3, <2>4, <2>5, TrafficKept DEF Holds, TrafficInv
    <2>6. CASE RP!PushPublish
      <3>1. q' = Append(q, isrFrame) /\ isrPc' = "idle"
        BY <2>6, RP!PublishAppends, PipelineAssumption DEF RP!PushPublish
      <3>2. isrFrame \in Frame /\ isrFrame.at = Latest /\ InHand' = InHand /\ Latest' = now
        BY <2>1, <2>2, <3>1 DEF TrafficInv, Latest, InHand
      <3> HIDE DEF q
      <3>3. /\ log \in Seq(Frame) /\ Latest <= now
            /\ Sorted(q) /\ AtMost(q, Latest) /\ AtMost(log, Latest)
            /\ \A n \in DOMAIN log : AtLeast(q, log[n].at)
            /\ Holds => /\ InHand \in Frame
                        /\ InHand.at <= Latest
                        /\ AtLeast(q, InHand.at)
                        /\ AtMost(log, InHand.at)
        BY DEF TrafficInv, q
      <3>4. Sorted(q') /\ AtMost(q', now)
        <4>1. AtMost(q', Latest) /\ Sorted(q')
          BY <1>s, <1>l, <3>1, <3>2, <3>3, OrderOfAppend
        <4>2. q' \in Seq(Frame)
          BY <1>s, <3>1, <3>2, AppendProperties
        <4> QED
          BY <1>t, <1>l, <3>3, <4>1, <4>2, AtMostLater
      <3>5. AtMost(log, now)
        BY <1>t, <1>l, <3>3, AtMostLater
      <3>6. \A n \in DOMAIN log : AtLeast(q', log[n].at)
        <4>1. \A n \in DOMAIN log : log[n].at <= Latest
          BY <3>3 DEF AtMost
        <4> QED
          BY <1>s, <3>1, <3>2, <3>3, <4>1, OrderOfAppend
      <3>7. Holds => InHand.at <= now /\ AtLeast(q', InHand.at)
        <4>1. Holds => AtLeast(q', InHand.at)
          BY <1>s, <3>1, <3>2, <3>3, OrderOfAppend
        <4>2. Holds => InHand.at \in Nat
          BY <3>3, TimesAreNat
        <4> QED
          BY <1>t, <1>l, <3>3, <4>1, <4>2
      <3>10. Holds' <=> Holds
        BY <2>1 DEF Holds
      <3> QED
        BY <1>t, <2>1, <3>1, <3>2, <3>3, <3>4, <3>5, <3>6, <3>7, <3>10 DEF TrafficInv, q
    <2> QED
      BY <2>5, <2>6
  <1>4. CASE PopAccess
    <2>1. UNCHANGED <<isrPc, isrFrame, now, log>> /\ task = "pop" /\ Latest' = Latest
      BY <1>4 DEF PopAccess, appVars, Latest, Ring!PopBegin, Ring!PopEmpty,
                  Ring!PopNonEmpty, Ring!PopCopyLo, Ring!PopCopyHi, Ring!PopAdvance
    <2>2. ~ RP!PushPublish
      BY <2>1 DEF RP!PushPublish
    <2>3. CASE ~ RP!PopAdvance
      <3>1. ~ Holds'
        BY <1>4, <2>1, <2>3
        DEF PopAccess, Ring!PopAdvance, RP!PopAdvance, Ring!Succ, RP!Succ, Holds
      <3> QED
        BY <1>q, <1>t, <1>l, <2>1, <2>2, <2>3, <3>1, TrafficKept DEF TrafficInv
    <2>4. CASE RP!PopAdvance
      <3>1. q # <<>> /\ q' = Tail(q) /\ returned'.hi = Head(q) /\ returned'.lo = Head(q)
        BY <2>4, RP!AdvanceRemoves, RP!AdvanceReturnsWhole, PipelineAssumption
      <3> HIDE DEF q
      <3>2. InHand' = Head(q) /\ Head(q) \in Frame
        <4>1. \A f \in Frame : f = [id |-> f.id, ide |-> f.ide, at |-> f.at]
          BY DEF Frame
        <4>2. Head(q) \in Frame
          BY <1>s, <3>1, OrderOfTail
        <4> QED
          BY <3>1, <4>1, <4>2 DEF InHand
      <3>3. /\ log \in Seq(Frame) /\ isrPc # "idle" => isrFrame \in Frame
            /\ Latest <= now
            /\ Sorted(q) /\ AtMost(q, Latest) /\ AtMost(log, Latest)
            /\ \A n \in DOMAIN log : AtLeast(q, log[n].at)
        BY DEF TrafficInv, q
      <3>4. /\ Sorted(q') /\ AtMost(q', Latest) /\ Head(q).at <= Latest
            /\ AtLeast(q', Head(q).at)
            /\ \A n \in DOMAIN log : AtLeast(q', log[n].at) /\ log[n].at <= Head(q).at
        BY <1>s, <3>1, <3>3, OrderOfTail
      <3>5. AtMost(log, Head(q).at)
        BY <3>3, <3>4 DEF AtMost
      <3> QED
        BY <2>1, <3>2, <3>3, <3>4, <3>5 DEF TrafficInv, q
    <2> QED
      BY <2>3, <2>4
  <1>5. CASE DispatchFrame
    <2>1. /\ UNCHANGED <<isrPc, isrFrame, popPc, head, tail, buf, returned, now>>
          /\ Holds /\ ~ Holds' /\ log' = Append(log, InHand) /\ Latest' = Latest
      BY <1>5 DEF DispatchFrame, ringVars, Holds, Latest
    <2>2. ~ RP!PushPublish /\ ~ RP!PopAdvance
      BY <2>1 DEF RP!PushPublish, RP!PopAdvance
    <2>3. q' = q
      BY <1>q, <2>2
    <2>4. log \in Seq(Frame) /\ InHand \in Frame
      BY <2>1 DEF TrafficInv
    <2>5. /\ log' \in Seq(Frame)
          /\ \A n \in DOMAIN log' : (n \in DOMAIN log /\ log'[n] = log[n]) \/ log'[n] = InHand
      BY <2>1, <2>4, LogAppend
    <2>6. AtMost(log', Latest)
      BY <2>1, <2>4, OrderOfAppend DEF TrafficInv
    <2>7. \A n \in DOMAIN log' : AtLeast(q, log'[n].at)
      BY <2>1, <2>5 DEF TrafficInv
    <2> QED
      BY <2>1, <2>3, <2>5, <2>6, <2>7 DEF TrafficInv
  <1> QED
    BY <1>1, <1>2, <1>3, <1>4, <1>5 DEF Next, Drain

-----------------------------------------------------------------------------
(* The frames the statistics have seen: the log, and the frame on its way  *)
(* from the statistics to the dispatcher.                                  *)
Counted == IF task = "dispatch" THEN Append(log, InHand) ELSE log

StatsInv == StatsSound(Counted, stats)

(* can_stats_update counts the frame in hand, the dispatcher logs that     *)
(* frame; no other step touches the table or what it has seen.             *)
LEMMA StatsStep ==
    ASSUME TrafficInv, AccountType, StatsInv, [Next]_vars
    PROVE  StatsInv'
  <1>1. CASE UpdateStats
    <2>1. /\ task = "update" /\ task' = "dispatch" /\ log' = log /\ returned' = returned
          /\ stats' = Update(stats, InHand.id, Timestamp(InHand))
      BY <1>1 DEF UpdateStats, ringVars
    <2>2. InHand' = InHand
      BY <2>1 DEF InHand
    <2>3. Counted = log /\ Counted' = Append(log, InHand)
      BY <2>1, <2>2 DEF Counted
    <2>4. log \in Seq(Frame) /\ InHand \in Frame /\ AtMost(log, InHand.at)
      BY <2>1 DEF TrafficInv, Holds
    <2>5. \A n \in DOMAIN log : log[n].at <= InHand.at
      BY <2>4 DEF AtMost
    <2>6. StatsSound(log, stats)
      BY <2>3 DEF StatsInv
    <2> DEFINE f == InHand
    <2> HIDE DEF f
    <2>7. StatsSound(Append(log, f), Update(stats, f.id, Timestamp(f)))
      BY <2>4, <2>5, <2>6, UpdateSound DEF f
    <2>8. StatsSound(Counted', stats')
      BY <2>1, <2>3, <2>7 DEF f
    <2> QED
      BY <2>8 DEF StatsInv
  <1>2. CASE ~ UpdateStats
    <2>1. stats' = stats /\ Counted' = Counted
      <3>1. CASE DispatchFrame
        BY <3>1 DEF DispatchFrame, Counted
      <3>2. CASE PopAccess
        BY <3>2 DEF PopAccess, appVars, Counted
      <3>3. CASE Tick \/ IsrEnqueue \/ IsrStep \/ CallProcess \/ RegisterHandler
                 \/ UNCHANGED vars
        <4>1. /\ stats' = stats /\ log' = log /\ returned' = returned
              /\ task' = task \/ (task = "app" /\ task' = "pop")
          BY <3>3
             DEF Tick, IsrEnqueue, IsrStep, CallProcess, RegisterHandler, vars, ringVars,
                 appVars, Ring!PushBegin, Ring!PushStep, Ring!PushFull, Ring!PushRoom,
                 Ring!PushStoreLo, Ring!PushStoreHi, Ring!PushPublish
        <4> QED
          BY <4>1 DEF Counted, InHand
      <3> QED
        BY <1>2, <3>1, <3>2, <3>3 DEF Next, Drain
    <2> QED
      BY <2>1 DEF StatsInv
  <1> QED
    BY <1>1, <1>2

(* Least and greatest element of a set that is known to have them.         *)
LEMMA BoundsAre ==
    ASSUME NEW S \in SUBSET Int, NEW x \in S
    PROVE  /\ (\A y \in S : x <= y) => Min(S) = x
           /\ (\A y \in S : y <= x) => Max(S) = x
  <1>1. ASSUME \A y \in S : x <= y PROVE Min(S) = x
    <2>1. \A z \in S : (\A y \in S : z <= y) => z = x
      BY <1>1
    <2> QED
      BY <1>1, <2>1 DEF Min
  <1>2. ASSUME \A y \in S : y <= x PROVE Max(S) = x
    <2>1. \A z \in S : (\A y \in S : z >= y) => z = x
      BY <1>2
    <2>2. \A y \in S : x >= y
      BY <1>2
    <2> QED
      BY <2>1, <2>2 DEF Max
  <1> QED
    BY <1>1, <1>2

(* Hence the answer of can_stats_check_timeout.                            *)
LEMMA VerdictIs ==
    ASSUME TimeInv, TrafficInv, StatsInv
    PROVE  TimeoutVerdictSound
  <1> SUFFICES ASSUME task = "app", NEW id \in {k.id : k \in Kinds}
               PROVE  /\ SeenOf(id) = {} => ~ TimedOut(stats, id, now % TickMod, Timeout)
                      /\ SeenOf(id) # {} /\ EntriesOf(stats, id) # {}
                         /\ now - log[Max(SeenOf(id))].at < TickMod
                         => (TimedOut(stats, id, now % TickMod, Timeout)
                                <=> now - log[Max(SeenOf(id))].at > Timeout)
    BY DEF TimeoutVerdictSound
  <1>1. CASE EntriesOf(stats, id) = {}
    BY <1>1 DEF TimedOut
  <1>2. CASE EntriesOf(stats, id) # {}
    <2>1. PICK i \in DOMAIN stats.entries : stats.entries[i].id = id
      BY <1>2 DEF EntriesOf
    <2>2. stats \in Statistics /\ Distinct(stats.entries) /\ EntrySound(log, stats.entries[i])
      BY DEF StatsInv, StatsSound, Counted
    <2>3. Min(EntriesOf(stats, id)) = i
      <3>1. EntriesOf(stats, id) = {i}
        BY <2>1, <2>2 DEF EntriesOf, Distinct
      <3>2. i \in Int
        BY <2>2 DEF Statistics
      <3>3. {i} \in SUBSET Int /\ i \in {i} /\ \A y \in {i} : i <= y
        BY <3>2
      <3>4. Min({i}) = i
        BY <3>3, BoundsAre
      <3> QED
        BY <3>1, <3>4
    <2>4. TimedOut(stats, id, now % TickMod, Timeout)
            <=> Elapsed(stats.entries[i].last, now % TickMod) > Timeout
      BY <1>2, <2>3 DEF TimedOut
    <2>5. PICK n \in DOMAIN log :
            /\ IsLast(log, id, n) /\ stats.entries[i].last = Timestamp(log[n])
      BY <2>1, <2>2 DEF EntrySound
    <2>6. log \in Seq(Frame) /\ log[n] \in Frame /\ SeenOf(id) = Seen(log, id)
      BY <2>5 DEF TrafficInv, SeenOf, Seen
    <2>7. SeenOf(id) # {} /\ Max(SeenOf(id)) = n
      <3>1. n \in SeenOf(id) /\ SeenOf(id) \in SUBSET Int /\ \A m \in SeenOf(id) : m <= n
        BY <2>5, <2>6 DEF SeenOf, IsLast
      <3> QED
        BY <3>1, BoundsAre
    <2>8. log[n].at \in Nat /\ log[n].at <= now /\ now \in Nat
      <3>1. now \in Nat /\ log[n].at \in Nat /\ Latest \in Nat
        BY <2>6, TimesAreNat, PipelineAssumption DEF TimeInv, Latest, TrafficInv
      <3>2. log[n].at <= Latest /\ Latest <= now
        BY <2>5, <2>6 DEF TrafficInv, AtMost
      <3> QED
        BY <3>1, <3>2
    <2>9. CASE now - log[n].at < TickMod
      <3>1. Elapsed(stats.entries[i].last, now % TickMod) = now - log[n].at
        BY <2>5, <2>8, <2>9, ElapsedIsAge DEF Timestamp
      <3> QED
        BY <2>4, <2>7, <3>1
    <2> QED
      BY <2>7, <2>9
  <1> QED
    BY <1>1, <1>2

(* The set of gaps of the property holds the gaps of the log.              *)
LEMMA GapsAre ==
    ASSUME NEW id, NEW g
    PROVE  g \in Gaps(id) <=> IsGap(log, id, g)
  <1>1. SeenOf(id) = Seen(log, id)
    BY DEF SeenOf, Seen
  <1> DEFINE pair(p) == /\ p[1] < p[2]
                        /\ \A m \in SeenOf(id) : ~ (p[1] < m /\ m < p[2])
  <1>2. g \in Gaps(id) <=> \E p \in SeenOf(id) \X SeenOf(id) :
                               pair(p) /\ g = log[p[2]].at - log[p[1]].at
    BY DEF Gaps
  <1>3. ASSUME NEW i \in SeenOf(id), NEW j \in SeenOf(id)
        PROVE  pair(<<i, j>>) <=> Follows(log, id, i, j)
    BY <1>1, <1>3 DEF Follows
  <1>4. ASSUME g \in Gaps(id) PROVE IsGap(log, id, g)
    <2>1. PICK p \in SeenOf(id) \X SeenOf(id) : pair(p) /\ g = log[p[2]].at - log[p[1]].at
      BY <1>2, <1>4
    <2>2. p = <<p[1], p[2]>> /\ p[1] \in SeenOf(id) /\ p[2] \in SeenOf(id)
      OBVIOUS
    <2> QED
      BY <1>1, <2>1, <2>2 DEF IsGap, Follows
  <1>5. ASSUME IsGap(log, id, g) PROVE g \in Gaps(id)
    <2>1. PICK i, j \in SeenOf(id) : Follows(log, id, i, j) /\ g = log[j].at - log[i].at
      BY <1>1, <1>5 DEF IsGap
    <2>2. <<i, j>> \in SeenOf(id) \X SeenOf(id) /\ pair(<<i, j>>)
      BY <1>3, <2>1
    <2> QED
      BY <1>2, <2>1, <2>2
  <1> QED
    BY <1>4, <1>5

(* The table is right about the log between two frames.                    *)
LEMMA StatisticsAre ==
    ASSUME TrafficInv, StatsInv
    PROVE  StatisticsMatchTraffic
  <1> SUFFICES ASSUME task # "dispatch" PROVE StatisticsMatchTraffic
    BY DEF StatisticsMatchTraffic
  <1>1. /\ log \in Seq(Frame) /\ StatsSound(log, stats)
        /\ \A n \in DOMAIN log : log[n].at \in Nat
    <2>1. log \in Seq(Frame)
      BY DEF TrafficInv
    <2> QED
      BY <2>1, TimesAreNat DEF StatsInv, Counted
  <1>2. stats.total = Len(log)
    BY <1>1 DEF StatsSound
  <1>3. stats.overflow = Cardinality({n \in DOMAIN log : EntriesOf(stats, log[n].id) = {}})
    <2>1. {n \in DOMAIN log : EntriesOf(stats, log[n].id) = {}} = Untracked(log, stats.entries)
      BY DEF EntriesOf, Untracked
    <2> QED
      BY <1>1, <2>1 DEF StatsSound
  <1>4. ASSUME NEW i \in DOMAIN stats.entries
        PROVE  LET e == stats.entries[i]
                   gaps == Gaps(e.id)
               IN  /\ e.frames = Cardinality(SeenOf(e.id))
                   /\ gaps # {} /\ (\A g \in gaps : g < TickMod)
                        => e.min = Min(gaps) /\ e.max = Max(gaps)
    <2> DEFINE e == stats.entries[i]
               gaps == Gaps(e.id)
    <2>1. EntrySound(log, e)
      BY <1>1 DEF StatsSound
    <2>2. SeenOf(e.id) = Seen(log, e.id)
      BY DEF SeenOf, Seen
    <2>3. \A g : g \in gaps <=> IsGap(log, e.id, g)
      BY GapsAre
    <2>4. gaps \in SUBSET Int
      BY <1>1, <2>3, GapIsInt
    <2> HIDE DEF e, gaps
    <2>5. ASSUME gaps # {}, \A g \in gaps : g < TickMod
          PROVE  e.min = Min(gaps) /\ e.max = Max(gaps)
      <3>1. /\ \A g : IsGap(log, e.id, g) => e.min <= g /\ g <= e.max
            /\ IsGap(log, e.id, e.min) /\ IsGap(log, e.id, e.max)
        BY <2>1, <2>3, <2>5 DEF EntrySound
      <3>2. /\ e.min \in gaps /\ e.max \in gaps
            /\ \A g \in gaps : e.min <= g /\ g <= e.max
        BY <2>3, <3>1
      <3> QED
        BY <2>4, <3>2, BoundsAre
    <2>6. e.frames = Cardinality(SeenOf(e.id))
      BY <2>1, <2>2 DEF EntrySound
    <2> QED
      BY <2>5, <2>6 DEF e, gaps
  <1> QED
    BY <1>2, <1>3, <1>4 DEF StatisticsMatchTraffic

(* What must hold initially, of the traffic and of the statistics.         *)
LEMMA InitSound ==
    ASSUME Init
    PROVE  AccountInv /\ TrafficInv /\ StatsInv
  <1>1. AccountInv
    BY PipelineAssumption
       DEF Init, AccountInv, AccountType, EveryFrameAccounted, NoStats,
           Ring!Init, Ring!Count
  <1>2. TrafficInv
    <2>1. RP!Queue = <<>>
      <3>1. RP!Count = 0
        BY PipelineAssumption DEF Init, Ring!Init, RP!Count
      <3> QED
        BY <3>1 DEF RP!Queue
    <2>2. log = <<>> /\ isrPc = "idle" /\ now = 0 /\ ~ Holds
      BY DEF Init, Ring!Init, Holds
    <2> QED
      BY <2>1, <2>2 DEF TrafficInv, Sorted, AtMost, AtLeast, Latest
  <1>3. StatsInv
    <2>1. stats = [entries |-> <<>>, total |-> 0, overflow |-> 0] /\ Counted = <<>>
      BY DEF Init, NoStats, Counted
    <2>2. Untracked(<<>>, <<>>) = {}
      BY DEF Untracked
    <2>3. Cardinality({}) = 0
      BY FS_EmptySet
    <2>4. stats \in Statistics /\ Distinct(stats.entries)
      BY <2>1 DEF Statistics, Distinct
    <2>5. /\ stats.total = 0 /\ stats.overflow = 0 /\ stats.entries = <<>>
          /\ DOMAIN stats.entries = {} /\ Len(<<>>) = 0
      BY <2>1
    <2> QED
      BY <2>1, <2>2, <2>3, <2>4, <2>5 DEF StatsInv, StatsSound
  <1> QED
    BY <1>1, <1>2, <1>3

(* TimeoutVerdictSound: a timeout query between two drains is right about  *)
(* the frames processed so far, for every limit, every table size and      *)
(* every width of the tick, across the wrap of the tick, as long as the    *)
(* silence is shorter than a turn of it.                                   *)
THEOREM TimeoutIsSilence == Spec => []TimeoutVerdictSound
  <1> DEFINE Inv == AccountInv /\ TrafficInv /\ StatsInv
  <1>1. Init => Inv
    BY InitSound
  <1>2. RP!RingInv /\ RP!RingInv' /\ TimeInv /\ Inv /\ [Next]_vars => Inv'
    BY AccountStep, TrafficStep, StatsStep DEF AccountInv
  <1>3. TimeInv /\ Inv => TimeoutVerdictSound
    BY VerdictIs
  <1> QED
    BY <1>1, <1>2, <1>3, RingInvInside, TimeInRange, PTL DEF Spec

(* StatisticsMatchTraffic: for every table size, every bus and every width *)
(* of the tick, the statistics tell the truth about what was dispatched:   *)
(* the totals, the frames of each identifier, those that found no entry,   *)
(* and, across the wrap of the tick, the least and the greatest gap.       *)
THEOREM StatisticsAreTrue == Spec => []StatisticsMatchTraffic
  <1> DEFINE Inv == AccountInv /\ TrafficInv /\ StatsInv
  <1>1. Init => Inv
    BY InitSound
  <1>2. RP!RingInv /\ RP!RingInv' /\ TimeInv /\ Inv /\ [Next]_vars => Inv'
    BY AccountStep, TrafficStep, StatsStep DEF AccountInv
  <1>3. Inv => StatisticsMatchTraffic
    BY StatisticsAre
  <1> QED
    BY <1>1, <1>2, <1>3, RingInvInside, TimeInRange, PTL DEF Spec

-----------------------------------------------------------------------------
(* From the controller to the handlers: the pipeline implements            *)
(* FrameDelivery.                                                          *)

(* A frame put before a sequence: what it is the head and the tail of, and *)
(* what appending to it does.                                              *)
LEMMA OneBefore ==
    ASSUME NEW S, NEW x \in S, NEW q \in Seq(S), NEW y \in S
    PROVE  /\ <<x>> \o q # <<>>
           /\ Head(<<x>> \o q) = x /\ Tail(<<x>> \o q) = q
           /\ Len(<<x>> \o q) = Len(q) + 1
           /\ Append(<<x>> \o q, y) = <<x>> \o Append(q, y)
  OBVIOUS

LEMMA NoneBefore ==
    ASSUME NEW S, NEW q \in Seq(S)
    PROVE  <<>> \o q = q /\ (q # <<>> => <<Head(q)>> \o Tail(q) = q)
  OBVIOUS

(* Every step of the pipeline is a step of the delivery, or does not show  *)
(* in it: the copy out of the ring and the statistics do not.              *)
LEMMA DeliveryStep ==
    ASSUME RP!RingInv, TimeInv, AccountInv, TrafficInv, [Next]_vars
    PROVE  [Delivery!Next]_(Delivery!deliveryVars)
  <1> DEFINE q == RP!Queue
             inHand == IF Holds THEN <<InHand>> ELSE <<>>
             Still == UNCHANGED <<Entering, Waiting, overflow, log>>
  <1>1. /\ q \in Seq(Frame) /\ Len(q) \in Nat /\ q' = RP!Queue'
        /\ Waiting = inHand \o q /\ Waiting' = inHand' \o q'
    <2>1. Ring!Queue = q /\ Ring!Queue' = q'
      BY DEF Ring!Queue, RP!Queue, Ring!Count, RP!Count, Ring!NthSlot, RP!NthSlot
    <2>2. q \in Seq(Frame)
      BY RP!QueueFacts, PipelineAssumption
    <2> QED
      BY <2>1, <2>2 DEF Waiting, Holds
  <1>2. /\ isrPc # "idle" => isrFrame \in Frame
        /\ Holds => InHand \in Frame
    BY DEF TrafficInv
  <1>3. ~ RP!PushPublish /\ ~ RP!PopAdvance => q' = q
    BY PipelineStep, RP!QueueOtherwise, PipelineAssumption
  <1> HIDE DEF q
  <1>4. /\ ~ Holds => Waiting = q
        /\ Holds => Waiting = <<InHand>> \o q /\ Len(Waiting) = Len(q) + 1
    BY <1>1, <1>2, OneBefore, NoneBefore
  <1>5. Still /\ now' = now => [Delivery!Next]_(Delivery!deliveryVars)
    BY DEF Delivery!deliveryVars
  <1>6. CASE Tick
    <2>1. /\ now' = now + 1
          /\ UNCHANGED <<isrPc, isrFrame, popPc, returned, overflow, log, task>>
      BY <1>6 DEF Tick, ringVars
    <2>2. ~ RP!PushPublish /\ ~ RP!PopAdvance
      BY <1>6 DEF Tick, ringVars, RP!PushPublish, RP!PopAdvance
    <2>3. Still
      BY <1>1, <1>3, <2>1, <2>2 DEF Entering, Holds, InHand
    <2>4. Delivery!TimePasses
      BY <2>1, <2>3 DEF Delivery!TimePasses
    <2> QED
      BY <2>4 DEF Delivery!Next
  <1>7. CASE IsrEnqueue
    <2>1. PICK k \in Kinds : Ring!PushBegin([id |-> k.id, ide |-> k.ide, at |-> now])
      BY <1>7 DEF IsrEnqueue
    <2> DEFINE f == [id |-> k.id, ide |-> k.ide, at |-> now]
    <2>2. f \in Frame /\ f.at = now
      BY PipelineAssumption DEF Frame, TimeInv
    <2>3. /\ isrFrame' = f /\ isrPc = "idle" /\ isrPc' = "check"
          /\ UNCHANGED <<popPc, returned, overflow, log, task, now>>
      BY <1>7, <2>1 DEF IsrEnqueue, Ring!PushBegin
    <2> HIDE DEF f
    <2>4. ~ RP!PushPublish /\ ~ RP!PopAdvance
      BY <2>3 DEF RP!PushPublish, RP!PopAdvance
    <2>5. Waiting' = Waiting
      BY <1>1, <1>3, <2>3, <2>4 DEF Holds, InHand
    <2>6. Delivery!Receive(f)
      BY <2>2, <2>3, <2>5 DEF Delivery!Receive, Entering
    <2> QED
      BY <2>2, <2>6 DEF Delivery!Next
  <1>8. CASE IsrStep
    <2>1. /\ isrPc # "idle" /\ ~ RP!PopAdvance
          /\ UNCHANGED <<isrFrame, returned, log, task, now>>
      BY <1>8 DEF IsrStep, appVars, Ring!PushStep, Ring!PushFull, Ring!PushRoom,
                  Ring!PushStoreLo, Ring!PushStoreHi, Ring!PushPublish, RP!PopAdvance
    <2>2. inHand' = inHand /\ Entering = <<isrFrame>> /\ isrFrame \in Frame
      BY <1>2, <2>1 DEF Holds, InHand, Entering
    <2>3. CASE Ring!PushRoom \/ Ring!PushStoreLo \/ Ring!PushStoreHi
      <3>1. ~ RP!PushPublish /\ isrPc' # "idle" /\ overflow' = overflow
        BY <2>3 DEF Ring!PushRoom, Ring!PushStoreLo, Ring!PushStoreHi, RP!PushPublish
      <3>2. Still
        BY <1>1, <1>3, <2>1, <2>2, <3>1 DEF Entering
      <3> QED
        BY <1>5, <2>1, <3>2
    <2>4. CASE Ring!PushFull
      <3>1. isrPc' = "idle" /\ overflow' = overflow + 1 /\ ~ RP!PushPublish
        BY <2>4 DEF Ring!PushFull, RP!PushPublish
      <3>2. Len(q) = Size - 1
        BY <2>4, RP!FullWhenRefused, PipelineAssumption
        DEF q, Ring!PushFull, RP!PushFull, Ring!Succ, RP!Succ
      <3>3. Waiting' = Waiting /\ Len(Waiting) >= Size - 1
        <4>1. q' = q
          BY <1>3, <2>1, <3>1
        <4>2. Waiting' = Waiting
          BY <1>1, <2>2, <4>1
        <4>3. Len(Waiting) \in {Len(q), Len(q) + 1}
          BY <1>4
        <4> QED
          BY <1>1, <3>2, <4>2, <4>3, PipelineAssumption
      <3>4. Delivery!Refuse
        BY <2>1, <2>2, <3>1, <3>3 DEF Delivery!Refuse, Entering
      <3> QED
        BY <3>4 DEF Delivery!Next
    <2>5. CASE Ring!PushPublish
      <3>1. RP!PushPublish /\ isrPc' = "idle" /\ overflow' = overflow
        BY <2>5 DEF Ring!PushPublish, RP!PushPublish, Ring!Succ, RP!Succ
      <3>2. Len(q) < Size - 1 /\ q' = Append(q, isrFrame)
        BY <3>1, RP!PublishAppends, PipelineAssumption DEF q
      <3>3. Waiting' = Append(Waiting, isrFrame) /\ Len(Waiting) <= Size - 1
        <4>1. CASE Holds
          <5>1. Waiting' = <<InHand>> \o Append(q, isrFrame)
            BY <1>1, <2>2, <3>2, <4>1
          <5>2. InHand \in Frame /\ Waiting = <<InHand>> \o q /\ Len(Waiting) = Len(q) + 1
            BY <1>2, <1>4, <4>1
          <5>3. Append(<<InHand>> \o q, isrFrame) = <<InHand>> \o Append(q, isrFrame)
            <6>1. \A x, y \in Frame : \A s \in Seq(Frame) :
                      Append(<<x>> \o s, y) = <<x>> \o Append(s, y)
              BY OneBefore
            <6> HIDE DEF q
            <6>2. q \in Seq(Frame) /\ InHand \in Frame /\ isrFrame \in Frame
              BY <1>1, <2>2, <5>2
            <6> QED
              BY <6>1, <6>2, Zenon
          <5>4. Len(Waiting) <= Size - 1
            BY <1>1, <3>2, <5>2, PipelineAssumption
          <5> QED
            BY <5>1, <5>2, <5>3, <5>4
        <4>2. CASE ~ Holds
          <5>1. Waiting' = Append(q, isrFrame)
            BY <1>1, <2>2, <3>2, <4>2, AppendProperties, NoneBefore
          <5> QED
            BY <1>1, <1>4, <3>2, <4>2, <5>1, PipelineAssumption
        <4> QED
          BY <4>1, <4>2
      <3>4. Delivery!Accept
        BY <2>1, <2>2, <3>1, <3>3 DEF Delivery!Accept, Entering
      <3> QED
        BY <3>4 DEF Delivery!Next
    <2> QED
      BY <1>8, <2>3, <2>4, <2>5 DEF IsrStep, Ring!PushStep
  <1>9. CASE PopAccess
    <2>1. /\ UNCHANGED <<isrPc, isrFrame, overflow, now, log>>
          /\ task = "pop" /\ ~ Holds /\ ~ RP!PushPublish
      BY <1>9 DEF PopAccess, appVars, Holds, Ring!PopBegin, Ring!PopEmpty, RP!PushPublish,
                  Ring!PopNonEmpty, Ring!PopCopyLo, Ring!PopCopyHi, Ring!PopAdvance
    <2>2. CASE ~ RP!PopAdvance
      <3>1. ~ Holds'
        BY <1>9, <2>1, <2>2
        DEF PopAccess, Ring!PopAdvance, RP!PopAdvance, Ring!Succ, RP!Succ, Holds
      <3>2. Still
        BY <1>1, <1>3, <2>1, <2>2, <3>1 DEF Entering
      <3> QED
        BY <1>5, <2>1, <3>2
    <2>3. CASE RP!PopAdvance
      <3>1. q # <<>> /\ q' = Tail(q) /\ returned'.hi = Head(q) /\ returned'.lo = Head(q)
        BY <2>3, RP!AdvanceRemoves, RP!AdvanceReturnsWhole, PipelineAssumption DEF q
      <3>2. Holds'
        BY <1>9, <2>3
        DEF PopAccess, Ring!PopBegin, Ring!PopEmpty, Ring!PopNonEmpty, Ring!PopCopyLo,
            Ring!PopCopyHi, RP!PopAdvance, Holds
      <3>3. InHand' = Head(q)
        <4>1. \A f \in Frame : f = [id |-> f.id, ide |-> f.ide, at |-> f.at]
          BY DEF Frame
        <4>2. Head(q) \in Frame
          BY <1>1, <3>1, HeadTailProperties
        <4> QED
          BY <3>1, <4>1, <4>2 DEF InHand
      <3>4. Waiting' = <<Head(q)>> \o Tail(q)
        BY <1>1, <3>1, <3>2, <3>3
      <3>5. Waiting' = Waiting
        BY <1>1, <1>4, <2>1, <3>1, <3>4, NoneBefore
      <3> QED
        BY <1>5, <2>1, <3>5 DEF Entering
    <2> QED
      BY <2>2, <2>3
  <1>10. CASE DispatchFrame
    <2>1. /\ UNCHANGED <<isrPc, isrFrame, popPc, overflow, now>>
          /\ Holds /\ ~ Holds' /\ log' = Append(log, InHand)
      BY <1>10 DEF DispatchFrame, ringVars, Holds
    <2>2. ~ RP!PushPublish /\ ~ RP!PopAdvance
      BY <2>1 DEF RP!PushPublish, RP!PopAdvance
    <2>3. Waiting' = q
      BY <1>1, <1>3, <2>1, <2>2, NoneBefore
    <2>4. Waiting # <<>> /\ Head(Waiting) = InHand /\ Tail(Waiting) = q
      <3>1. Waiting = <<InHand>> \o q /\ q \in Seq(Frame) /\ InHand \in Frame
        BY <1>1, <1>2, <1>4, <2>1
      <3> QED BY <3>1, OneBefore
    <2>5. Delivery!Handle
      BY <2>1, <2>3, <2>4 DEF Delivery!Handle, Entering
    <2> QED
      BY <2>5 DEF Delivery!Next
  <1>11. CASE CallProcess \/ UpdateStats \/ RegisterHandler \/ UNCHANGED vars
    <2>1. /\ UNCHANGED <<isrPc, isrFrame, popPc, returned, overflow, log, now>>
          /\ Holds' <=> Holds
      BY <1>11 DEF CallProcess, UpdateStats, RegisterHandler, vars, ringVars, appVars, Holds
    <2>2. ~ RP!PushPublish /\ ~ RP!PopAdvance
      BY <1>11 DEF CallProcess, UpdateStats, RegisterHandler, vars, ringVars, appVars,
                   RP!PushPublish, RP!PopAdvance
    <2>3. Still
      BY <1>1, <1>3, <2>1, <2>2 DEF Entering, InHand
    <2> QED
      BY <1>5, <2>1, <2>3
  <1> QED
    BY <1>6, <1>7, <1>8, <1>9, <1>10, <1>11 DEF Next, Drain

(* ImplementsDelivery: for every ring size, every bus and every            *)
(* interleaving of the ISR with the task, what the handlers are given is   *)
(* what the controller received, but for the frames counted as dropped.    *)
THEOREM PipelineDelivers == Spec => ImplementsDelivery
  <1> DEFINE Inv == AccountInv /\ TrafficInv /\ StatsInv
  <1>1. Init => Inv
    BY InitSound
  <1>2. RP!RingInv /\ RP!RingInv' /\ TimeInv /\ Inv /\ [Next]_vars => Inv'
    BY AccountStep, TrafficStep, StatsStep DEF AccountInv
  <1>3. Init => Delivery!Init
    <2> SUFFICES ASSUME Init PROVE Delivery!Init
      OBVIOUS
    <2>1. /\ now = 0 /\ overflow = 0 /\ log = <<>> /\ isrPc = "idle" /\ task = "app"
          /\ head = 0 /\ tail = 0
      BY DEF Init, Ring!Init
    <2>2. Ring!Queue = <<>>
      BY <2>1 DEF Ring!Queue, Ring!Count
    <2> QED
      BY <2>1, <2>2 DEF Delivery!Init, Entering, Waiting
  <1>4. RP!RingInv /\ TimeInv /\ Inv /\ [Next]_vars
            => [Delivery!Next]_(Delivery!deliveryVars)
    BY DeliveryStep
  <1> QED
    BY <1>1, <1>2, <1>3, <1>4, RingInvInside, TimeInRange, PTL
    DEF Spec, ImplementsDelivery, Delivery!Spec
=============================================================================
