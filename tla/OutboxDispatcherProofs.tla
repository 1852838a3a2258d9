----------------------- MODULE OutboxDispatcherProofs -----------------------
(***************************************************************************)
(* Proofs about OutboxDispatcher, for every number of dispatchers and      *)
(* events, every batch size and every limit.                               *)
(*                                                                         *)
(* The argument: one local state changes at a time (Frame), to one of the  *)
(* shapes Loop and Resting describe; OutboxInv is inductive, conjunct by   *)
(* conjunct; every step of the dispatcher is a step of the abstract outbox *)
(* or leaves it unchanged.                                                 *)
(***************************************************************************)
EXTENDS OutboxDispatcher, FiniteSetTheorems, TLAPS

(* What the loop over a batch leads to.                                    *)
LoopResult(p, todo, claimed, x) ==
  /\ x \in LocalState
  /\ x.running = disp[p].running
  /\ \/ /\ x.pc = "publish" /\ x.running /\ disp[p].running
        /\ x.event \in todo /\ x.todo = todo \ {x.event}
        /\ x.claimed = claimed
     \/ /\ x.pc \in {"idle", "off"}
        /\ x.event = None /\ x.todo = {}
        /\ x.pc = "idle" => x.running
        /\ todo = {} \/ ~disp[p].running

LEMMA LoopShape ==
  ASSUME TypeOK, NEW p \in Dispatchers, NEW todo \in SUBSET Events,
         NEW claimed \in [Events -> Nat], NEW x \in Loop(p, todo, claimed)
  PROVE  LoopResult(p, todo, claimed, x)
<1>. USE NoneIsNobody
<1>1. CASE disp[p].running /\ todo # {}
  <2>1. PICK v \in todo :
          x = [pc |-> "publish", running |-> TRUE, todo |-> todo \ {v},
               event |-> v, claimed |-> claimed]
    BY <1>1 DEF Loop
  <2>. QED
    BY <1>1, <2>1 DEF LoopResult, LocalState, Label, TypeOK
<1>2. CASE ~(disp[p].running /\ todo # {})
  <2>1. x = Resting(disp[p].running)
    BY <1>2 DEF Loop
  <2>. QED
    BY <1>2, <2>1 DEF LoopResult, LocalState, Label, TypeOK, Resting
<1>. QED
  BY <1>1, <1>2

(* A state outside of a batch.                                             *)
LEMMA RestingShape ==
  ASSUME NEW running \in BOOLEAN
  PROVE  /\ Resting(running) \in LocalState
         /\ Resting(running).pc \in {"idle", "off"}
         /\ Resting(running).running = running
         /\ Resting(running).pc = "idle" => running
         /\ Resting(running).event = None
         /\ Resting(running).todo = {}
  BY DEF Resting, LocalState, Label

(* One dispatcher moves, to a well-typed state.                            *)
Moves(p, x) ==
  /\ x \in LocalState
  /\ x.pc \in Publishing => x.event \in Events
  /\ disp' = [disp EXCEPT ![p] = x]

LEMMA NextEventMoves ==
  ASSUME TypeOK, NEW p \in Dispatchers, disp[p].event \in Events, NextEvent(p)
  PROVE  \E x : Moves(p, x)
<1>. DEFINE rest == disp[p].todo
            claimed == [disp[p].claimed EXCEPT ![disp[p].event] = 0]
<1>1. rest \in SUBSET Events /\ claimed \in [Events -> Nat]
  BY DEF TypeOK, LocalState
<1>2. PICK x \in Loop(p, rest, claimed) : disp' = [disp EXCEPT ![p] = x]
  BY DEF NextEvent
<1>. HIDE DEF rest, claimed
<1>3. x \in LocalState /\ (x.pc \in Publishing => x.event \in Events)
  <2>1. LoopResult(p, rest, claimed, x)
    BY <1>1, <1>2, LoopShape
  <2>. QED
    BY <1>1, <2>1 DEF LoopResult, Publishing
<1>. QED
  BY <1>2, <1>3 DEF Moves

LEMMA GotoMoves ==
  ASSUME TypeOK, NEW p \in Dispatchers, NEW label \in Label,
         label \in Publishing => disp[p].event \in Events, Goto(p, label)
  PROVE  Moves(p, [disp[p] EXCEPT !.pc = label])
<1>1. disp[p] \in LocalState
  BY DEF TypeOK
<1>. QED
  BY <1>1 DEF Goto, Moves, LocalState

LEMMA AbandonMoves ==
  ASSUME TypeOK, NEW p \in Dispatchers, AbandonBatch(p)
  PROVE  Moves(p, Resting(disp[p].running))
<1>1. disp[p].running \in BOOLEAN
  BY DEF TypeOK, LocalState
<1>. QED
  BY <1>1, RestingShape DEF AbandonBatch, Moves, Publishing

LEMMA ClaimMoves ==
  ASSUME TypeOK, NEW p \in Dispatchers,
         NEW x \in Loop(p, Batch, [v \in Events |->
                  IF v \in Batch THEN row[v].attempts + 1 ELSE 0]),
         disp' = [disp EXCEPT ![p] = x]
  PROVE  Moves(p, x)
<1>1. Batch \in SUBSET Events
  BY DEF Batch
<1>2. [v \in Events |-> IF v \in Batch THEN row[v].attempts + 1 ELSE 0]
        \in [Events -> Nat]
  BY DEF TypeOK, Row
<1>3. LoopResult(p, Batch, [v \in Events |->
                 IF v \in Batch THEN row[v].attempts + 1 ELSE 0], x)
  BY <1>1, <1>2, LoopShape
<1>. QED
  BY <1>1, <1>3 DEF LoopResult, Moves, Publishing

(* A move keeps the dispatchers well typed.                                *)
LEMMA MoveType ==
  ASSUME TypeOK, NEW p \in Dispatchers, NEW x, Moves(p, x)
  PROVE  /\ disp' \in [Dispatchers -> LocalState]
         /\ \A q \in Dispatchers :
              disp'[q].pc \in Publishing => disp'[q].event \in Events
         /\ disp'[p] = x
         /\ \A q \in Dispatchers : q # p => disp'[q] = disp[q]
  BY DEF Moves, TypeOK

RowsOK(rows) ==
  rows \in [Events -> Row] /\ \A v \in Events : LockOK(rows[v])

LEMMA RowsType ==
  ASSUME TypeOK, NEW p \in Dispatchers
  PROVE  /\ RowsOK(row) /\ RowsOK(Released) /\ RowsOK(Claimed(p))
         /\ \A v \in Events :
              /\ RowsOK([row EXCEPT ![v] = PublishedRow(v)])
              /\ RowsOK([row EXCEPT ![v] = FailedRow(p, v)])
<1>1. RowsOK(row)
  BY DEF TypeOK, RowsOK
<1>2. \A v \in Events : row[v] \in Row /\ LockOK(row[v])
  BY DEF TypeOK
<1>3. ASSUME NEW v \in Events, NEW s \in Status \ {"PROCESSING"}
      PROVE  LET r == [row[v] EXCEPT !.status = s, !.lockedBy = None,
                                     !.expired = FALSE]
             IN r \in Row /\ LockOK(r)
  BY <1>2, NoneIsNobody DEF Row, LockOK
<1>4. RowsOK(Released)
  <2>1. ASSUME NEW v \in Events
        PROVE  Released[v] \in Row /\ LockOK(Released[v])
    BY <1>2, <1>3 DEF Released, Status
  <2>. QED
    BY <2>1 DEF RowsOK, Released
<1>5. RowsOK(Claimed(p))
  <2>1. ASSUME NEW v \in Events
        PROVE  Claimed(p)[v] \in Row /\ LockOK(Claimed(p)[v])
    <3>1. row[v].attempts + 1 \in Nat
      BY <1>2 DEF Row
    <3>. QED
      BY <1>2, <3>1, NoneIsNobody DEF Claimed, Row, LockOK, Status
  <2>. QED
    BY <2>1 DEF RowsOK, Claimed
<1>6. ASSUME NEW v \in Events, NEW r \in Row, LockOK(r)
      PROVE  RowsOK([row EXCEPT ![v] = r])
  BY <1>1, <1>6 DEF RowsOK
<1>7. ASSUME NEW v \in Events
      PROVE  RowsOK([row EXCEPT ![v] = PublishedRow(v)])
  BY <1>3, <1>6 DEF PublishedRow, Status
<1>8. ASSUME NEW v \in Events
      PROVE  RowsOK([row EXCEPT ![v] = FailedRow(p, v)])
  <2>1. FailedRow(p, v) \in Row /\ LockOK(FailedRow(p, v))
    <3>1. CASE disp[p].claimed[v] >= MaxAttempts
      BY <1>3, <3>1 DEF FailedRow, Status
    <3>2. CASE ~(disp[p].claimed[v] >= MaxAttempts)
      BY <1>2, <3>2, NoneIsNobody DEF FailedRow, Row, LockOK, Status
    <3>. QED
      BY <3>1, <3>2
  <2>. QED
    BY <1>6, <2>1
<1>. QED
  BY <1>1, <1>4, <1>5, <1>7, <1>8

LEMMA AddType ==
  ASSUME TypeOK, NEW v \in Events, UNCHANGED <<queue, created>> \/ Add(v)
  PROVE  /\ queue' \in [Events -> {"none", "queued", "kept"}]
         /\ created' \in [Events -> Nat]
         /\ \A w \in Events : created'[w] >= created[w]
         /\ \A w \in Events : w # v => created'[w] = created[w]
  BY DEF TypeOK, Add

LEMMA CountersType ==
  ASSUME TypeOK
  PROVE  /\ Throws => faults' \in 0..MaxFaults /\ faults' = faults + 1
         /\ Disrupts => /\ disruptions' \in 0..MaxDisruptions
                        /\ disruptions' = disruptions + 1
  BY Bounds DEF TypeOK, Throws, Disrupts

-----------------------------------------------------------------------------
(* Type correctness.                                                       *)

(* Every step of a dispatcher's code moves that dispatcher only.           *)
LEMMA WorkMoves ==
  ASSUME TypeOK, NEW p \in Dispatchers, Work(p)
  PROVE  \E x : Moves(p, x)
<1>0. disp[p].pc \in Publishing => disp[p].event \in Events
  BY DEF TypeOK
<1>1. ASSUME NEW label \in Label, Goto(p, label),
             label \in Publishing => disp[p].pc \in Publishing
      PROVE  \E x : Moves(p, x)
  BY <1>0, <1>1, GotoMoves
<1>2. AbandonBatch(p) => \E x : Moves(p, x)
  BY AbandonMoves
<1>3. disp[p].pc \in Publishing /\ NextEvent(p) => \E x : Moves(p, x)
  BY <1>0, NextEventMoves
<1>4. CASE Start(p)
  <2>. DEFINE x == [disp[p] EXCEPT !.pc = "releaseExpiredLocks",
                                   !.running = TRUE]
  <2>1. disp' = [disp EXCEPT ![p] = x]
    BY <1>4 DEF Start, TypeOK
  <2>2. x \in LocalState /\ x.pc \notin Publishing
    BY ZenonT(60) DEF TypeOK, LocalState, Label, Publishing
  <2>. QED
    BY <2>1, <2>2 DEF Moves
<1>5. CASE Poll(p)
  BY <1>1, <1>5 DEF Poll, Label, Publishing
<1>6. CASE ReleaseExpiredLocks(p)
  BY <1>1, <1>2, <1>6 DEF ReleaseExpiredLocks, Label, Publishing
<1>7. CASE ClaimPendingEvents(p)
  BY <1>2, <1>7, ClaimMoves DEF ClaimPendingEvents
<1>8. CASE Publish(p)
  BY <1>1, <1>2, <1>3, <1>8 DEF Publish, Label, Publishing, At
<1>9. CASE Dispatch(p)
  BY <1>1, <1>9 DEF Dispatch, Label, Publishing, At
<1>10. CASE MarkPublished(p)
  BY <1>1, <1>3, <1>10 DEF MarkPublished, Label, Publishing, At
<1>11. CASE HandlePublishFailure(p)
  BY <1>1, <1>2, <1>3, <1>11 DEF HandlePublishFailure, Label, Publishing, At
<1>12. CASE MarkFailed(p)
  BY <1>2, <1>3, <1>12 DEF MarkFailed, Publishing, At
<1>. QED
  BY <1>4, <1>5, <1>6, <1>7, <1>8, <1>9, <1>10, <1>11, <1>12 DEF Work

(* What a step of a dispatcher writes to the rows, to the queue and to the *)
(* counters.                                                               *)
LEMMA WorkWrites ==
  ASSUME TypeOK, NEW p \in Dispatchers, Work(p)
  PROVE  /\ RowsOK(row')
         /\ queue' \in [Events -> {"none", "queued", "kept"}]
         /\ created' \in [Events -> Nat]
         /\ requeued' = requeued /\ disruptions' = disruptions
         /\ trims' = trims /\ faults' \in 0..MaxFaults
<1>0. /\ disp[p] \in LocalState
      /\ disp[p].pc \in Publishing => disp[p].event \in Events
      /\ queue \in [Events -> {"none", "queued", "kept"}]
      /\ created \in [Events -> Nat]
      /\ faults \in 0..MaxFaults
  BY DEF TypeOK
<1>1. CASE Start(p) \/ Poll(p)
  BY <1>0, <1>1, RowsType DEF Start, Poll, jobs, bounded
<1>3. CASE ReleaseExpiredLocks(p)
  BY <1>0, <1>3, RowsType, CountersType DEF ReleaseExpiredLocks, jobs
<1>4. CASE ClaimPendingEvents(p)
  BY <1>0, <1>4, RowsType, CountersType DEF ClaimPendingEvents, jobs
<1>5. CASE Publish(p) \/ HandlePublishFailure(p)
  BY <1>0, <1>5, RowsType, CountersType DEF Publish, HandlePublishFailure, jobs
<1>6. CASE Dispatch(p)
  <2>1. disp[p].event \in Events
    BY <1>0, <1>6 DEF Dispatch, At, Publishing
  <2>. QED
    BY <1>0, <1>6, <2>1, RowsType, CountersType, AddType DEF Dispatch
<1>7. CASE MarkPublished(p)
  <2>1. disp[p].event \in Events
    BY <1>0, <1>7 DEF MarkPublished, At, Publishing
  <2>. QED
    BY <1>0, <1>7, <2>1, RowsType, CountersType DEF MarkPublished, jobs
<1>9. CASE MarkFailed(p)
  <2>1. disp[p].event \in Events
    BY <1>0, <1>9 DEF MarkFailed, At, Publishing
  <2>. QED
    BY <1>0, <1>9, <2>1, RowsType, CountersType DEF MarkFailed, jobs
<1>. QED
  BY <1>1, <1>3, <1>4, <1>5, <1>6, <1>7, <1>9 DEF Work

LEMMA TypeInit == Init => TypeOK
<1>. SUFFICES ASSUME Init PROVE TypeOK
  OBVIOUS
<1>1. row \in [Events -> Row] /\ \A v \in Events : LockOK(row[v])
  BY NoneIsNobody DEF Init, Row, Status, LockOK
<1>. DEFINE fresh == [Resting(FALSE) EXCEPT !.pc = "new"]
<1>2. fresh \in LocalState /\ fresh.pc = "new"
  BY DEF Resting, LocalState, Label
<1>3. disp \in [Dispatchers -> LocalState]
      /\ \A p \in Dispatchers : disp[p].pc = "new"
  <2>1. disp = [p \in Dispatchers |-> fresh]
    BY DEF Init
  <2>. HIDE DEF fresh
  <2>. QED
    BY <1>2, <2>1
<1>4. /\ queue \in [Events -> {"none", "queued", "kept"}]
      /\ created \in [Events -> Nat] /\ requeued \in [Events -> Nat]
      /\ disruptions \in 0..MaxDisruptions /\ faults \in 0..MaxFaults
      /\ trims \in 0..MaxTrims
  BY Bounds DEF Init
<1>. QED
  BY <1>1, <1>3, <1>4 DEF TypeOK, Publishing

(* What time, the queue and the operator write.                            *)
EnvironmentWrites ==
  /\ RowsOK(row')
  /\ queue' \in [Events -> {"none", "queued", "kept"}]
  /\ requeued' \in [Events -> Nat]
  /\ disruptions' \in 0..MaxDisruptions
  /\ trims' \in 0..MaxTrims
  /\ UNCHANGED <<created, faults>>

LEMMA RowWritten ==
  ASSUME TypeOK, NEW v \in Events, NEW r \in Row, LockOK(r),
         row' = [row EXCEPT ![v] = r]
  PROVE  RowsOK(row')
  BY DEF TypeOK, RowsOK

LEMMA EnvironmentTypes ==
  ASSUME TypeOK,
         \/ \E v \in Events : \/ LockTimesOut(v) \/ BackoffElapses(v)
                             \/ JobFinishes(v) \/ JobIsTrimmed(v)
                             \/ RequeueDeadLetter(v)
         \/ RecoverStuckEvents
  PROVE  EnvironmentWrites /\ UNCHANGED disp
<1>0. /\ RowsOK(row)
      /\ queue \in [Events -> {"none", "queued", "kept"}]
      /\ requeued \in [Events -> Nat]
      /\ disruptions \in 0..MaxDisruptions
      /\ trims \in 0..MaxTrims
  BY DEF TypeOK, RowsOK
<1>1. ASSUME NEW v \in Events, LockTimesOut(v)
      PROVE  EnvironmentWrites /\ UNCHANGED disp
  <2>1. RowsOK(row')
    <3>1. row' = [row EXCEPT ![v] = [row[v] EXCEPT !.expired = TRUE]]
      BY <1>1 DEF LockTimesOut
    <3>2. [row[v] EXCEPT !.expired = TRUE] \in Row
          /\ LockOK([row[v] EXCEPT !.expired = TRUE])
      BY <1>0, <1>1 DEF RowsOK, Row, LockOK, LockTimesOut
    <3>. QED
      BY <3>1, <3>2, RowWritten
  <2>. QED
    BY <1>0, <1>1, <2>1, CountersType DEF LockTimesOut, EnvironmentWrites, jobs
<1>2. ASSUME NEW v \in Events, BackoffElapses(v)
      PROVE  EnvironmentWrites /\ UNCHANGED disp
  <2>1. RowsOK(row')
    <3>1. row' = [row EXCEPT ![v] = [row[v] EXCEPT !.available = TRUE]]
      BY <1>2 DEF BackoffElapses
    <3>2. [row[v] EXCEPT !.available = TRUE] \in Row
          /\ LockOK([row[v] EXCEPT !.available = TRUE])
      <4>1. row[v] \in Row /\ LockOK(row[v])
        BY <1>0 DEF RowsOK
      <4>. QED
        BY <4>1 DEF Row, LockOK
    <3>. QED
      BY <3>1, <3>2, RowWritten
  <2>. QED
    BY <1>0, <1>2, <2>1 DEF BackoffElapses, EnvironmentWrites, jobs, bounded
<1>3. ASSUME NEW v \in Events, JobFinishes(v)
      PROVE  EnvironmentWrites /\ UNCHANGED disp
  BY <1>0, <1>3 DEF JobFinishes, EnvironmentWrites, bounded
<1>4. ASSUME NEW v \in Events, JobIsTrimmed(v)
      PROVE  EnvironmentWrites /\ UNCHANGED disp
  BY <1>0, <1>4, Bounds DEF JobIsTrimmed, EnvironmentWrites, bounded
<1>5. ASSUME NEW v \in Events, RequeueDeadLetter(v)
      PROVE  EnvironmentWrites /\ UNCHANGED disp
  <2>. DEFINE r == [row[v] EXCEPT !.status = "PENDING", !.available = TRUE]
  <2>1. RowsOK(row')
    <3>1. row' = [row EXCEPT ![v] = r]
      BY <1>0, <1>5 DEF RequeueDeadLetter, RowsOK
    <3>2. r \in Row /\ LockOK(r)
      BY <1>0, <1>5 DEF RowsOK, Row, LockOK, RequeueDeadLetter, Status
    <3>. QED
      BY <3>1, <3>2, RowWritten
  <2>2. requeued' \in [Events -> Nat]
    BY <1>0, <1>5 DEF RequeueDeadLetter
  <2>. QED
    BY <1>0, <1>5, <2>1, <2>2 DEF RequeueDeadLetter, EnvironmentWrites, jobs
<1>6. CASE RecoverStuckEvents
  <2>1. RowsOK(Released)
    BY RowsType, <1>0 DEF RowsOK, Released, Row, LockOK, Stale, Status
  <2>2. ASSUME NEW v \in Events
        PROVE  /\ [Released[v] EXCEPT !.available = TRUE] \in Row
               /\ LockOK([Released[v] EXCEPT !.available = TRUE])
    BY <2>1 DEF RowsOK, Row, LockOK
  <2>3. RowsOK(row')
    BY <1>0, <1>6, <2>2 DEF RecoverStuckEvents, RowsOK
  <2>. QED
    BY <1>0, <1>6, <2>3 DEF RecoverStuckEvents, EnvironmentWrites, jobs, bounded
<1>. QED
  BY <1>1, <1>2, <1>3, <1>4, <1>5, <1>6

LEMMA StopMoves ==
  ASSUME TypeOK, NEW p \in Dispatchers, Stop(p) \/ Crash(p)
  PROVE  \E x : Moves(p, x)
<1>1. disp[p] \in LocalState
      /\ (disp[p].pc \in Publishing => disp[p].event \in Events)
  BY DEF TypeOK
<1>2. CASE Stop(p)
  <2>. DEFINE x == [disp[p] EXCEPT !.running = FALSE,
                       !.pc = IF At(p, "idle") THEN "off" ELSE disp[p].pc]
  <2>1. disp' = [disp EXCEPT ![p] = x]
    BY <1>1, <1>2 DEF Stop, TypeOK
  <2>2. x \in LocalState /\ (x.pc \in Publishing => x.event \in Events)
    BY <1>1 DEF LocalState, Label, Publishing
  <2>. QED
    BY <2>1, <2>2 DEF Moves
<1>3. CASE Crash(p)
  BY <1>3 DEF Crash, Moves, Resting, LocalState, Label, Publishing
<1>. QED
  BY <1>2, <1>3

LEMMA TypeStep ==
  ASSUME TypeOK, [Next]_vars
  PROVE  TypeOK'
<1>1. CASE \E p \in Dispatchers : Work(p)
  BY <1>1, WorkMoves, WorkWrites, MoveType DEF TypeOK, RowsOK
<1>2. CASE \E p \in Dispatchers : Stop(p) \/ Crash(p)
  <2>1. PICK p \in Dispatchers : Stop(p) \/ Crash(p)
    BY <1>2
  <2>2. disruptions' \in 0..MaxDisruptions
        /\ UNCHANGED <<row, queue, created, trims, requeued, faults>>
    BY <2>1, CountersType DEF Stop, Crash, jobs
  <2>. QED
    BY <2>1, <2>2, StopMoves, MoveType DEF TypeOK
<1>3. CASE \/ \E v \in Events : \/ LockTimesOut(v) \/ BackoffElapses(v)
                               \/ JobFinishes(v) \/ JobIsTrimmed(v)
                               \/ RequeueDeadLetter(v)
           \/ RecoverStuckEvents
  BY <1>3, EnvironmentTypes DEF EnvironmentWrites, RowsOK, TypeOK
<1>4. CASE UNCHANGED vars
  BY <1>4 DEF TypeOK, vars
<1>. QED
  BY <1>1, <1>2, <1>3, <1>4 DEF Next

(* Rows, dispatchers and the queue keep their types; in particular a row   *)
(* is locked exactly while it is PROCESSING.                               *)
THEOREM OutboxTypeCorrect == Spec => []TypeOK
  BY TypeInit, TypeStep, PTL DEF Spec

-----------------------------------------------------------------------------
(* The inductive invariant.                                                *)

(* A move that stays in the batch: the same events, or the next one.       *)
Stays(p, x) ==
  /\ x.event = disp[p].event /\ x.todo = disp[p].todo
  /\ x.claimed = disp[p].claimed
Advances(p, x) ==
  /\ x.pc = "publish" /\ x.running /\ disp[p].running
  /\ x.event \in disp[p].todo /\ x.todo = disp[p].todo \ {x.event}
  /\ x.claimed = [disp[p].claimed EXCEPT ![disp[p].event] = 0]
Rests(x) ==
  /\ x.event = None /\ x.todo = {} /\ x.pc \in {"idle", "off"}
  /\ x.pc = "idle" => x.running
Begins(p, x) ==
  /\ x.pc = "publish" /\ x.running /\ disp[p].running
  /\ x.event \in Batch /\ x.todo = Batch \ {x.event}
  /\ \A v \in Batch : x.claimed[v] = row[v].attempts + 1

LEMMA NextEventShape ==
  ASSUME TypeOK, NEW p \in Dispatchers, disp[p].event \in Events, NextEvent(p)
  PROVE  \E x : /\ Moves(p, x) /\ x.running = disp[p].running
               /\ \/ Advances(p, x)
                  \/ Rests(x) /\ (disp[p].todo = {} \/ ~disp[p].running)
<1>. DEFINE rest == disp[p].todo
            claimed == [disp[p].claimed EXCEPT ![disp[p].event] = 0]
<1>1. rest \in SUBSET Events /\ claimed \in [Events -> Nat]
  BY DEF TypeOK, LocalState
<1>2. PICK x \in Loop(p, rest, claimed) : disp' = [disp EXCEPT ![p] = x]
  BY DEF NextEvent
<1>. HIDE DEF rest, claimed
<1>3. /\ x \in LocalState /\ x.running = disp[p].running
      /\ \/ /\ x.pc = "publish" /\ x.running /\ disp[p].running
            /\ x.event \in rest /\ x.todo = rest \ {x.event}
            /\ x.claimed = claimed
         \/ /\ x.pc \in {"idle", "off"} /\ x.event = None /\ x.todo = {}
            /\ x.pc = "idle" => x.running
            /\ rest = {} \/ ~disp[p].running
  <2>1. LoopResult(p, rest, claimed, x)
    BY <1>1, <1>2, LoopShape
  <2>. QED
    BY <2>1 DEF LoopResult
<1>4. Moves(p, x)
  BY <1>1, <1>2, <1>3 DEF Moves, Publishing
<1>5. CASE /\ x.pc = "publish" /\ x.running /\ disp[p].running
           /\ x.event \in rest /\ x.todo = rest \ {x.event}
           /\ x.claimed = claimed
  <2>1. Advances(p, x)
    BY <1>5 DEF Advances, rest, claimed
  <2>. QED
    BY <1>3, <1>4, <2>1
<1>6. CASE /\ x.pc \in {"idle", "off"} /\ x.event = None /\ x.todo = {}
           /\ x.pc = "idle" => x.running
           /\ rest = {} \/ ~disp[p].running
  <2>1. Rests(x) /\ (disp[p].todo = {} \/ ~disp[p].running)
    BY <1>6 DEF Rests, rest
  <2>. QED
    BY <1>3, <1>4, <2>1
<1>. QED
  BY <1>3, <1>5, <1>6

LEMMA ClaimShape ==
  ASSUME TypeOK, NEW p \in Dispatchers,
         NEW x \in Loop(p, Batch, [v \in Events |->
                  IF v \in Batch THEN row[v].attempts + 1 ELSE 0]),
         disp' = [disp EXCEPT ![p] = x]
  PROVE  /\ Moves(p, x) /\ x.running = disp[p].running
         /\ Begins(p, x) \/ (Rests(x) /\ (Batch = {} \/ ~disp[p].running))
<1>. DEFINE claimed == [v \in Events |->
                          IF v \in Batch THEN row[v].attempts + 1 ELSE 0]
<1>1. Batch \in SUBSET Events
  BY DEF Batch
<1>2. claimed \in [Events -> Nat]
      /\ \A v \in Batch : claimed[v] = row[v].attempts + 1
  BY <1>1 DEF TypeOK, Row
<1>3. Moves(p, x)
  BY ClaimMoves
<1>. HIDE DEF claimed
<1>4. x \in Loop(p, Batch, claimed)
  BY DEF claimed
<1>5. /\ x.running = disp[p].running
      /\ \/ /\ x.pc = "publish" /\ x.running /\ disp[p].running
            /\ x.event \in Batch /\ x.todo = Batch \ {x.event}
            /\ x.claimed = claimed
         \/ /\ x.pc \in {"idle", "off"} /\ x.event = None /\ x.todo = {}
            /\ x.pc = "idle" => x.running
            /\ Batch = {} \/ ~disp[p].running
  <2>1. LoopResult(p, Batch, claimed, x)
    BY <1>1, <1>2, <1>4, LoopShape
  <2>. QED
    BY <2>1 DEF LoopResult
<1>6. CASE /\ x.pc = "publish" /\ x.running /\ disp[p].running
           /\ x.event \in Batch /\ x.todo = Batch \ {x.event}
           /\ x.claimed = claimed
  <2>1. Begins(p, x)
    BY <1>2, <1>6 DEF Begins
  <2>. QED
    BY <1>3, <1>5, <2>1
<1>7. CASE /\ x.pc \in {"idle", "off"} /\ x.event = None /\ x.todo = {}
           /\ x.pc = "idle" => x.running
           /\ Batch = {} \/ ~disp[p].running
  <2>1. Rests(x)
    BY <1>7 DEF Rests
  <2>. QED
    BY <1>3, <1>5, <1>7, <2>1
<1>. QED
  BY <1>5, <1>6, <1>7

(* What a step of dispatcher p writes to the rows.                         *)
RowsKept == row' = row
RowsReleased == row' = Released
RowsClaimed(p) == row' = Claimed(p) /\ At(p, "claimPendingEvents")
RowPublished(p) ==
  /\ At(p, "markPublished") /\ Owns(p, disp[p].event)
  /\ row' = [row EXCEPT ![disp[p].event] = PublishedRow(disp[p].event)]
RowFailed(p) ==
  /\ At(p, "markFailed") /\ Owns(p, disp[p].event)
  /\ row' = [row EXCEPT ![disp[p].event] = FailedRow(p, disp[p].event)]

(* The shapes of a step of a dispatcher's code: it stays in its batch,     *)
(* begins one, claims one it leaves at once, goes on after an event it no  *)
(* longer owns, or abandons the batch after an error.                      *)
Keeping(p, x) ==
  Stays(p, x) /\ (RowsKept \/ RowsReleased \/ RowPublished(p))
Beginning(p, x) ==
  Begins(p, x) /\ RowsClaimed(p)
Wasting(p, x) ==
  /\ Rests(x) /\ RowsClaimed(p)
  /\ Batch = {} \/ ~disp[p].running \/ faults' = faults + 1
GoingOn(p, x) ==
  /\ Advances(p, x) \/ (Rests(x) /\ (disp[p].todo = {} \/ ~disp[p].running))
  /\ disp[p].event \in Events
  /\ ~(/\ row'[disp[p].event].status = "PROCESSING"
       /\ row'[disp[p].event].lockedBy = p)
  /\ RowsKept \/ RowPublished(p) \/ RowFailed(p)
Abandoning(p, x) ==
  /\ Rests(x) /\ faults' = faults + 1
  /\ RowsKept \/ RowsReleased \/ RowFailed(p)

Shape(p, x) ==
  \/ Keeping(p, x) \/ Beginning(p, x) \/ Wasting(p, x) \/ GoingOn(p, x)
  \/ Abandoning(p, x)

(* A dispatcher that was stopped does not come back, and the two updates   *)
(* of a row are entered from the await before them.                        *)
LeavesOnly(p, x) ==
  /\ /\ x.pc \in {"releaseExpiredLocks", "claimPendingEvents"}
     /\ ~x.running
     => p \in Leaving
  /\ RowsClaimed(p) => x.pc # "claimPendingEvents"
                         /\ x.pc # "releaseExpiredLocks"
  /\ x.pc = "idle" => x.running
  /\ x.pc \notin Publishing => x.event = None /\ x.todo = {}
  /\ x.pc = "markPublished" => At(p, "dispatch")
  /\ x.pc = "markFailed" => At(p, "handlePublishFailure")

(* The timer of a dispatcher is neither started nor stopped.              *)
Kept(p, x) == x.running = disp[p].running

LEMMA GotoShape ==
  ASSUME TypeOK, HandsInOrder, NEW p \in Dispatchers, NEW label \in Label,
         Goto(p, label), label # "idle",
         label \in Publishing <=> disp[p].pc \in Publishing,
         label \in {"releaseExpiredLocks", "claimPendingEvents"} =>
           disp[p].pc \in {"releaseExpiredLocks", "idle"},
         label = "markPublished" => At(p, "dispatch"),
         label = "markFailed" => At(p, "handlePublishFailure"),
         ~RowsClaimed(p)
  PROVE  \E x : Moves(p, x) /\ Stays(p, x) /\ LeavesOnly(p, x)
                /\ Kept(p, x)
<1>. DEFINE x == [disp[p] EXCEPT !.pc = label]
<1>1. disp[p] \in LocalState
      /\ (disp[p].pc \in Publishing => disp[p].event \in Events)
  BY DEF TypeOK
<1>2. Moves(p, x)
  BY <1>1, GotoMoves
<1>3. /\ x.pc = label /\ x.event = disp[p].event /\ x.todo = disp[p].todo
      /\ x.claimed = disp[p].claimed /\ Kept(p, x)
  BY <1>1 DEF LocalState, Kept
<1>. HIDE DEF x
<1>4. Stays(p, x)
  BY <1>3 DEF Stays
<1>5. LeavesOnly(p, x)
  BY <1>1, <1>3 DEF LeavesOnly, Leaving, HandsInOrder, At, Kept
<1>. QED
  BY <1>2, <1>3, <1>4, <1>5

LEMMA AbandonShape ==
  ASSUME TypeOK, NEW p \in Dispatchers, AbandonBatch(p)
  PROVE  \E x : Moves(p, x) /\ Rests(x) /\ Kept(p, x)
<1>. DEFINE x == Resting(disp[p].running)
<1>1. disp[p].running \in BOOLEAN
  BY DEF TypeOK, LocalState
<1>2. Moves(p, x)
  BY AbandonMoves
<1>3. Rests(x) /\ Kept(p, x)
  BY <1>1, RestingShape DEF Rests, Kept
<1>. QED
  BY <1>2, <1>3

Moved(p, x) == Moves(p, x) /\ Shape(p, x) /\ LeavesOnly(p, x)
WorkTo(p, x) == Moved(p, x) /\ (Kept(p, x) \/ x.running)

LEMMA WorkShape ==
  ASSUME TypeOK, HandsInOrder, NEW p \in Dispatchers, Work(p)
  PROVE  \E x : WorkTo(p, x)
<1>. USE DEF At
<1>1. /\ disp[p] \in LocalState /\ disp[p].running \in BOOLEAN
      /\ disp[p].pc \in Publishing => disp[p].event \in Events
  BY DEF TypeOK, LocalState
(* The two shapes in which a step ends a batch.                            *)
<1>2. ASSUME AbandonBatch(p), faults' = faults + 1,
             RowsKept \/ RowsReleased \/ RowFailed(p)
      PROVE  \E x : WorkTo(p, x)
  <2>1. PICK x : Moves(p, x) /\ Rests(x) /\ Kept(p, x)
    BY <1>2, AbandonShape
  <2>2. Abandoning(p, x) /\ LeavesOnly(p, x)
    BY <1>2, <2>1 DEF Abandoning, LeavesOnly, Rests
  <2>. QED
    BY <2>1, <2>2 DEF WorkTo, Moved, Shape
<1>3. ASSUME NextEvent(p), disp[p].pc \in Publishing,
             RowsKept \/ RowPublished(p) \/ RowFailed(p),
             ~(/\ row'[disp[p].event].status = "PROCESSING"
               /\ row'[disp[p].event].lockedBy = p)
      PROVE  \E x : WorkTo(p, x)
  <2>1. PICK x : /\ Moves(p, x) /\ Kept(p, x)
                 /\ \/ Advances(p, x)
                    \/ Rests(x) /\ (disp[p].todo = {} \/ ~disp[p].running)
    BY <1>1, <1>3, NextEventShape DEF Kept
  <2>2. GoingOn(p, x)
    BY <1>1, <1>3, <2>1 DEF GoingOn
  <2>3. LeavesOnly(p, x)
    BY <2>1 DEF LeavesOnly, Advances, Rests, Publishing
  <2>. QED
    BY <2>1, <2>2, <2>3 DEF WorkTo, Moved, Shape
(* A step within the batch, or to the next await.                          *)
<1>4. ASSUME NEW label \in Label, Goto(p, label), label # "idle",
             label \in Publishing <=> disp[p].pc \in Publishing,
             label \in {"releaseExpiredLocks", "claimPendingEvents"} =>
               disp[p].pc \in {"releaseExpiredLocks", "idle"},
             label = "markPublished" => At(p, "dispatch"),
             label = "markFailed" => At(p, "handlePublishFailure"),
             RowsKept \/ RowsReleased \/ RowPublished(p),
             disp[p].pc # "claimPendingEvents"
      PROVE  \E x : WorkTo(p, x)
  <2>1. PICK x : Moves(p, x) /\ Stays(p, x) /\ LeavesOnly(p, x)
                 /\ Kept(p, x)
    BY <1>4, GotoShape DEF RowsClaimed
  <2>. QED
    BY <1>4, <2>1 DEF WorkTo, Moved, Shape, Keeping
<1>5. CASE Start(p)
  <2>. DEFINE x == [disp[p] EXCEPT !.pc = "releaseExpiredLocks",
                                   !.running = TRUE]
  <2>1. disp' = [disp EXCEPT ![p] = x]
    BY <1>5 DEF Start, TypeOK
  <2>2. /\ x \in LocalState /\ x.pc = "releaseExpiredLocks" /\ x.running
        /\ Stays(p, x)
    BY <1>1 DEF LocalState, Label, Stays
  <2>3. disp[p].pc = "new" /\ RowsKept
    BY <1>5 DEF Start, RowsKept
  <2>. HIDE DEF x
  <2>4. Moves(p, x) /\ Keeping(p, x)
    BY <2>1, <2>2, <2>3 DEF Moves, Keeping, Publishing
  <2>5. LeavesOnly(p, x)
    BY <2>2, <2>3 DEF LeavesOnly, RowsClaimed, HandsInOrder, Stays, Publishing
  <2>. QED
    BY <2>2, <2>4, <2>5 DEF WorkTo, Moved, Shape
<1>6. CASE Poll(p)
  BY <1>4, <1>6 DEF Poll, Label, Publishing, RowsKept
<1>7. CASE ReleaseExpiredLocks(p)
  <2>1. CASE row' = Released /\ Goto(p, "claimPendingEvents")
    BY <1>4, <1>7, <2>1
    DEF ReleaseExpiredLocks, Label, Publishing, RowsReleased
  <2>2. CASE row' \in {row, Released} /\ AbandonBatch(p) /\ Throws
    BY <1>2, <2>2 DEF RowsKept, RowsReleased, Throws
  <2>. QED
    BY <1>7, <2>1, <2>2 DEF ReleaseExpiredLocks
<1>8. CASE ClaimPendingEvents(p)
  <2>1. ASSUME NEW x \in Loop(p, Batch, [v \in Events |->
                 IF v \in Batch THEN row[v].attempts + 1 ELSE 0]),
               disp' = [disp EXCEPT ![p] = x], row' = Claimed(p)
        PROVE  WorkTo(p, x)
    <3>1. /\ Moves(p, x) /\ Kept(p, x)
          /\ Begins(p, x) \/ (Rests(x) /\ (Batch = {} \/ ~disp[p].running))
      BY <2>1, ClaimShape DEF Kept
    <3>2. RowsClaimed(p)
      BY <1>8, <2>1 DEF ClaimPendingEvents, RowsClaimed
    <3>3. Beginning(p, x) \/ Wasting(p, x)
      BY <3>1, <3>2 DEF Beginning, Wasting
    <3>4. LeavesOnly(p, x)
      BY <3>1 DEF LeavesOnly, Begins, Rests, Publishing
    <3>. QED
      BY <3>1, <3>3, <3>4 DEF WorkTo, Moved, Shape
  <2>2. CASE row' \in {row, Claimed(p)} /\ AbandonBatch(p) /\ Throws
    <3>1. CASE row' = row
      BY <1>2, <2>2, <3>1 DEF RowsKept, Throws
    <3>2. CASE row' = Claimed(p)
      <4>1. PICK x : Moves(p, x) /\ Rests(x) /\ Kept(p, x)
        BY <2>2, AbandonShape
      <4>2. Wasting(p, x)
        BY <1>8, <2>2, <3>2, <4>1
        DEF Wasting, RowsClaimed, ClaimPendingEvents, Throws
      <4>3. LeavesOnly(p, x)
        BY <4>1 DEF LeavesOnly, Rests
      <4>. QED
        BY <4>1, <4>2, <4>3 DEF WorkTo, Moved, Shape
    <3>. QED
      BY <2>2, <3>1, <3>2
  <2>. QED
    BY <1>8, <2>1, <2>2 DEF ClaimPendingEvents
<1>9. CASE Publish(p)
  BY <1>1, <1>2, <1>3, <1>4, <1>9
  DEF Publish, Label, Publishing, RowsKept, Throws
<1>10. CASE Dispatch(p)
  BY <1>4, <1>10 DEF Dispatch, Label, Publishing, RowsKept
<1>11. CASE MarkPublished(p)
  <2>1. disp[p].event \in Events
    BY <1>1, <1>11 DEF MarkPublished, Publishing
  <2>. DEFINE v == disp[p].event
              mark == row' = [row EXCEPT ![v] = PublishedRow(v)]
  <2>2. CASE Owns(p, v) /\ mark /\ NextEvent(p)
    <3>1. row'[v].status = "PUBLISHED"
      BY <2>1, <2>2 DEF PublishedRow, TypeOK, Row
    <3>. QED
      BY <1>3, <1>11, <2>2, <3>1 DEF MarkPublished, Publishing, RowPublished
  <2>3. CASE ~Owns(p, v) /\ NextEvent(p) /\ UNCHANGED row
    BY <1>3, <1>11, <2>3 DEF MarkPublished, Publishing, RowsKept, Owns
  <2>4. CASE /\ UNCHANGED row \/ (Owns(p, v) /\ mark)
             /\ Goto(p, "handlePublishFailure")
    BY <1>4, <1>11, <2>4
    DEF MarkPublished, Label, Publishing, RowsKept, RowPublished
  <2>. QED
    BY <1>11, <2>2, <2>3, <2>4 DEF MarkPublished
<1>12. CASE HandlePublishFailure(p)
  BY <1>1, <1>2, <1>3, <1>4, <1>12
  DEF HandlePublishFailure, Label, Publishing, RowsKept, Throws, Owns
<1>13. CASE MarkFailed(p)
  <2>1. disp[p].event \in Events
    BY <1>1, <1>13 DEF MarkFailed, Publishing
  <2>. DEFINE v == disp[p].event
              mark == row' = [row EXCEPT ![v] = FailedRow(p, v)]
  <2>2. CASE Owns(p, v) /\ mark /\ NextEvent(p)
    <3>1. row'[v].status # "PROCESSING"
      BY <2>1, <2>2 DEF FailedRow, TypeOK, Row
    <3>. QED
      BY <1>3, <1>13, <2>2, <3>1 DEF MarkFailed, Publishing, RowFailed
  <2>3. CASE ~Owns(p, v) /\ NextEvent(p) /\ UNCHANGED row
    BY <1>3, <1>13, <2>3 DEF MarkFailed, Publishing, RowsKept, Owns
  <2>4. CASE /\ UNCHANGED row \/ (Owns(p, v) /\ mark)
             /\ AbandonBatch(p) /\ Throws
    BY <1>2, <1>13, <2>4 DEF MarkFailed, RowsKept, RowFailed, Throws
  <2>. QED
    BY <1>13, <2>2, <2>3, <2>4 DEF MarkFailed
<1>. QED
  BY <1>5, <1>6, <1>7, <1>8, <1>9, <1>10, <1>11, <1>12, <1>13 DEF Work

(* What a step of dispatcher p makes of one row.                           *)
RowChange(p, v) ==
  \/ row'[v] = row[v]
  \/ /\ Stale(v) /\ row'[v].status = "PENDING"
     /\ row'[v].attempts = row[v].attempts
  \/ /\ RowsClaimed(p) /\ v \in Batch /\ Claimable(v)
     /\ row'[v].status = "PROCESSING" /\ row'[v].lockedBy = p
     /\ row'[v].attempts = row[v].attempts + 1 /\ ~row'[v].expired
  \/ /\ RowPublished(p) /\ v = disp[p].event
     /\ row'[v].status = "PUBLISHED" /\ row'[v].attempts = row[v].attempts
  \/ /\ RowFailed(p) /\ v = disp[p].event
     /\ row'[v].attempts = row[v].attempts
     /\ \/ disp[p].claimed[v] >= MaxAttempts /\ row'[v].status = "DEAD_LETTER"
        \/ disp[p].claimed[v] < MaxAttempts /\ row'[v].status = "PENDING"

LEMMA RowChanges ==
  ASSUME TypeOK, NEW p \in Dispatchers, NEW x, Shape(p, x), NEW v \in Events
  PROVE  RowChange(p, v)
<1>0. row \in [Events -> Row] /\ row[v] \in Row
      /\ disp[p].claimed \in [Events -> Nat]
  BY DEF TypeOK, LocalState
<1>1. CASE RowsKept
  BY <1>1 DEF RowsKept, RowChange
<1>2. CASE RowsReleased
  <2>1. row'[v] = IF Stale(v)
                    THEN [row[v] EXCEPT !.status = "PENDING",
                                        !.lockedBy = None, !.expired = FALSE]
                    ELSE row[v]
    BY <1>2 DEF RowsReleased, Released
  <2>2. CASE Stale(v)
    <3>1. /\ row'[v].status = "PENDING"
          /\ row'[v].attempts = row[v].attempts
      BY <1>0, <2>1, <2>2 DEF Row
    <3>. QED
      BY <2>2, <3>1 DEF RowChange
  <2>. QED
    BY <2>1, <2>2 DEF RowChange
<1>3. CASE RowsClaimed(p)
  <2>1. CASE v \in Batch
    <3>1. /\ row'[v].status = "PROCESSING" /\ row'[v].lockedBy = p
          /\ row'[v].attempts = row[v].attempts + 1 /\ ~row'[v].expired
      BY <1>3, <2>1 DEF RowsClaimed, Claimed
    <3>. QED
      BY <1>3, <2>1, <3>1 DEF RowChange, Batch
  <2>2. CASE v \notin Batch
    BY <1>3, <2>2 DEF RowsClaimed, Claimed, RowChange
  <2>. QED
    BY <2>1, <2>2
<1>4. CASE RowPublished(p)
  <2>1. CASE v = disp[p].event
    <3>1. /\ row'[v].status = "PUBLISHED"
          /\ row'[v].attempts = row[v].attempts
      BY <1>0, <1>4, <2>1 DEF RowPublished, PublishedRow, Row
    <3>. QED
      BY <1>4, <2>1, <3>1 DEF RowChange
  <2>2. CASE v # disp[p].event
    BY <1>0, <1>4, <2>2 DEF RowPublished, RowChange
  <2>. QED
    BY <2>1, <2>2
<1>5. CASE RowFailed(p)
  <2>1. CASE v = disp[p].event
    <3>1. /\ row'[v].attempts = row[v].attempts
          /\ \/ /\ disp[p].claimed[v] >= MaxAttempts
                /\ row'[v].status = "DEAD_LETTER"
             \/ /\ disp[p].claimed[v] < MaxAttempts
                /\ row'[v].status = "PENDING"
      BY <1>0, <1>5, <2>1, Bounds DEF RowFailed, FailedRow, Row
    <3>. QED
      BY <1>5, <2>1, <3>1 DEF RowChange
  <2>2. CASE v # disp[p].event
    BY <1>0, <1>5, <2>2 DEF RowFailed, RowChange
  <2>. QED
    BY <2>1, <2>2
<1>. QED
  BY <1>1, <1>2, <1>3, <1>4, <1>5
  DEF Shape, Keeping, Beginning, Wasting, GoingOn, Abandoning

LEMMA WorkCounts ==
  ASSUME TypeOK, NEW p \in Dispatchers, Work(p)
  PROVE  /\ requeued' = requeued /\ disruptions' = disruptions
         /\ trims' = trims /\ (faults' = faults \/ faults' = faults + 1)
         /\ \A v \in Events : created'[v] >= created[v]
<1>1. created \in [Events -> Nat]
      /\ (disp[p].pc \in Publishing => disp[p].event \in Events)
  BY DEF TypeOK
<1>2. ~Dispatch(p) => created' = created
  BY DEF Work, Start, Poll, ReleaseExpiredLocks, ClaimPendingEvents, Publish,
         MarkPublished, HandlePublishFailure, MarkFailed, jobs
<1>3. Dispatch(p) => \A v \in Events : created'[v] >= created[v]
  BY <1>1, AddType DEF Dispatch, At, Publishing
<1>4. faults' = faults \/ faults' = faults + 1
  BY DEF Work, Start, Poll, ReleaseExpiredLocks, ClaimPendingEvents, Publish,
         MarkPublished, HandlePublishFailure, MarkFailed, Dispatch, bounded,
         Throws
<1>. QED
  BY <1>1, <1>2, <1>3, <1>4, WorkWrites

(* Hands: a step keeps what is in hand in order.                           *)
LEMMA WorkHands ==
  ASSUME TypeOK, HandsInOrder, NEW p \in Dispatchers, Work(p)
  PROVE  HandsInOrder'
<1>1. PICK x : Moved(p, x)
  BY WorkShape DEF WorkTo
<1>2. /\ x.pc = "idle" => x.running
      /\ x.event \notin x.todo
      /\ x.pc \notin Publishing => x.event = None /\ x.todo = {}
  <2>1. x.event \notin x.todo
    BY <1>1
    DEF Moved, Shape, Keeping, Beginning, Wasting, GoingOn, Abandoning, Stays,
        Begins, Advances, Rests, HandsInOrder
  <2>. QED
    BY <1>1, <2>1 DEF Moved, LeavesOnly
<1>3. disp'[p] = x /\ \A q \in Dispatchers : q # p => disp'[q] = disp[q]
  BY <1>1, MoveType DEF Moved
<1>4. ASSUME NEW q \in Dispatchers
      PROVE  /\ disp'[q].pc = "idle" => disp'[q].running
             /\ disp'[q].event \notin disp'[q].todo
             /\ disp'[q].pc \notin Publishing =>
                  disp'[q].event = None /\ disp'[q].todo = {}
  <2>1. CASE q = p
    BY <1>2, <1>3, <2>1
  <2>2. CASE q # p
    BY <1>3, <2>2 DEF HandsInOrder, At
  <2>. QED
    BY <2>1, <2>2
<1>. QED
  BY <1>4 DEF HandsInOrder, At

(* What a step that claims nothing leaves of a row.                        *)
LEMMA Unclaimed ==
  ASSUME TypeOK, NEW p \in Dispatchers, NEW v \in Events,
         RowsKept \/ RowsReleased \/ RowPublished(p) \/ RowFailed(p)
  PROVE  /\ row'[v].attempts = row[v].attempts
         /\ row'[v].status = "PROCESSING" => row'[v] = row[v]
<1>0. row \in [Events -> Row] /\ row[v] \in Row
  BY DEF TypeOK
<1>1. CASE RowsKept
  BY <1>1 DEF RowsKept
<1>2. CASE RowsReleased
  <2>1. row'[v] = IF Stale(v)
                    THEN [row[v] EXCEPT !.status = "PENDING",
                                        !.lockedBy = None, !.expired = FALSE]
                    ELSE row[v]
    BY <1>2 DEF RowsReleased, Released
  <2>. QED
    BY <1>0, <2>1 DEF Row
<1>3. CASE RowPublished(p)
  BY <1>0, <1>3 DEF RowPublished, PublishedRow, Row
<1>4. CASE RowFailed(p)
  BY <1>0, <1>4 DEF RowFailed, FailedRow, Row
<1>. QED
  BY <1>1, <1>2, <1>3, <1>4

(* Nothing is in hand outside of a batch.                                  *)
LEMMA NothingInHand ==
  ASSUME TypeOK, HandsInOrder, NEW p \in Dispatchers,
         disp[p].pc \notin Publishing, NEW v \in Events
  PROVE  v \notin disp[p].todo \cup {disp[p].event}
  BY NoneIsNobody DEF HandsInOrder

(* The attempts a dispatcher decides with are those of the rows it owns.   *)
LEMMA WorkExhausts ==
  ASSUME OutboxInv, NEW p \in Dispatchers, Work(p)
  PROVE  DeadIsExhausted'
<1>. USE DEF OutboxInv
<1>1. PICK x : Moved(p, x)
  BY WorkShape DEF WorkTo
<1>2. Moves(p, x) /\ Shape(p, x)
  BY <1>1 DEF Moved
<1>3. disp'[p] = x /\ \A q \in Dispatchers : q # p => disp'[q] = disp[q]
  BY <1>2, MoveType
<1>4. ASSUME NEW v \in Events, row'[v].status = "DEAD_LETTER"
      PROVE  row'[v].attempts >= MaxAttempts
  <2>1. RowChange(p, v)
    BY <1>2, RowChanges
  <2>2. CASE row'[v] = row[v]
    BY <1>4, <2>2 DEF DeadIsExhausted
  <2>3. CASE row'[v] # row[v]
    <3>1. RowFailed(p) /\ v = disp[p].event
          /\ disp[p].claimed[v] >= MaxAttempts
          /\ row'[v].attempts = row[v].attempts
      BY <1>4, <2>1, <2>3 DEF RowChange
    <3>2. disp[p].claimed[v] = row[v].attempts
      BY <3>1 DEF RowFailed, DeadIsExhausted
    <3>. QED
      BY <3>1, <3>2
  <2>. QED
    BY <2>2, <2>3
<1>5. ASSUME NEW v \in Events, NEW q \in Dispatchers,
             row'[v].status = "PROCESSING", row'[v].lockedBy = q,
             v \in disp'[q].todo \cup {disp'[q].event}
      PROVE  disp'[q].claimed[v] = row'[v].attempts
  <2>1. CASE q # p
    <3>1. RowChange(p, v)
      BY <1>2, RowChanges
    <3>2. row'[v] = row[v]
      BY <1>5, <2>1, <3>1 DEF RowChange
    <3>. QED
      BY <1>3, <1>5, <2>1, <3>2 DEF DeadIsExhausted, Owns
  <2>2. CASE q = p
    <3>0. /\ v \in x.todo \cup {x.event} /\ disp[p] \in LocalState
          /\ row'[v].lockedBy = p
      BY <1>3, <1>5, <2>2 DEF TypeOK
    <3>1. CASE Keeping(p, x)
      <4>1. row'[v] = row[v]
        BY <1>5, <3>1, Unclaimed DEF Keeping
      <4>. QED
        BY <1>3, <1>5, <2>2, <3>0, <3>1, <4>1
        DEF Keeping, Stays, DeadIsExhausted, Owns
    <3>2. CASE Beginning(p, x)
      <4>1. v \in Batch /\ x.claimed[v] = row[v].attempts + 1
        BY <3>0, <3>2 DEF Beginning, Begins
      <4>2. row'[v].attempts = row[v].attempts + 1
        BY <3>2, <4>1 DEF Beginning, RowsClaimed, Claimed
      <4>. QED
        BY <1>3, <2>2, <4>1, <4>2
    <3>3. CASE Rests(x)
      BY <3>0, <3>3, NoneIsNobody DEF Rests
    <3>4. CASE GoingOn(p, x) /\ Advances(p, x)
      <4>1. row'[v] = row[v]
        BY <1>5, <3>4, Unclaimed DEF GoingOn
      <4>2. v \in disp[p].todo /\ v # disp[p].event
        BY <3>0, <3>4 DEF Advances, HandsInOrder
      <4>3. x.claimed[v] = disp[p].claimed[v]
        BY <3>0, <3>4, <4>2 DEF Advances, LocalState
      <4>4. disp[p].claimed[v] = row[v].attempts
        BY <1>5, <2>2, <4>1, <4>2 DEF DeadIsExhausted, Owns
      <4>. QED
        BY <1>3, <2>2, <4>1, <4>3, <4>4
    <3>. QED
      BY <1>2, <3>1, <3>2, <3>3, <3>4 DEF Shape, Wasting, GoingOn, Abandoning
  <2>. QED
    BY <2>1, <2>2
<1>. QED
  BY <1>4, <1>5 DEF DeadIsExhausted, Owns

(* What a step does to the queue.                                          *)
QueueKept == UNCHANGED <<queue, created>>

LEMMA WorkQueues ==
  ASSUME TypeOK, NEW p \in Dispatchers, Work(p)
  PROVE  \/ QueueKept
         \/ /\ Dispatch(p) /\ Add(disp[p].event) /\ row' = row
            /\ disp[p].event \in Events /\ disp[p].event \notin Poison
<1>1. CASE Dispatch(p)
  BY <1>1 DEF Dispatch, QueueKept, TypeOK, At, Publishing
<1>2. CASE ~Dispatch(p)
  BY <1>2 DEF Work, Start, Poll, ReleaseExpiredLocks, ClaimPendingEvents,
       Publish, MarkPublished, HandlePublishFailure, MarkFailed, jobs, QueueKept
<1>. QED
  BY <1>1, <1>2

LEMMA WorkJobs ==
  ASSUME OutboxInv, NEW p \in Dispatchers, Work(p)
  PROVE  JobsAccounted'
<1>. USE DEF OutboxInv
<1>1. trims' = trims /\ trims \in Nat /\ created \in [Events -> Nat]
      /\ queue \in [Events -> {"none", "queued", "kept"}]
  BY WorkCounts DEF TypeOK
<1>2. CASE QueueKept
  BY <1>1, <1>2 DEF QueueKept, JobsAccounted
<1>3. CASE Add(disp[p].event) /\ disp[p].event \in Events
  BY <1>1, <1>3 DEF Add, JobsAccounted
<1>. QED
  BY <1>2, <1>3, WorkQueues

LEMMA WorkPublishes ==
  ASSUME OutboxInv, NEW p \in Dispatchers, Work(p)
  PROVE  PublishedWasCreated'
<1>. USE DEF OutboxInv
<1>0. created \in [Events -> Nat] /\ created' \in [Events -> Nat]
      /\ queue \in [Events -> {"none", "queued", "kept"}]
      /\ \A v \in Events : created'[v] >= created[v]
  BY WorkCounts, WorkWrites DEF TypeOK
<1>1. PICK x : Moved(p, x)
  BY WorkShape DEF WorkTo
<1>2. Moves(p, x) /\ Shape(p, x) /\ LeavesOnly(p, x)
  BY <1>1 DEF Moved
<1>3. disp'[p] = x /\ \A q \in Dispatchers : q # p => disp'[q] = disp[q]
  BY <1>2, MoveType
<1>4. \A v \in Events : queue'[v] # "none" => created'[v] > 0
  <2>1. CASE QueueKept
    BY <2>1 DEF QueueKept, PublishedWasCreated
  <2>2. CASE Add(disp[p].event) /\ disp[p].event \in Events
    BY <1>0, <2>2 DEF Add, PublishedWasCreated
  <2>. QED
    BY <2>1, <2>2, WorkQueues
<1>5. ASSUME NEW v \in Events, row'[v].status = "PUBLISHED"
      PROVE  created'[v] > 0
  <2>1. RowChange(p, v)
    BY <1>2, RowChanges
  <2>2. created[v] > 0
    <3>1. CASE row'[v] = row[v]
      BY <1>5, <3>1 DEF PublishedWasCreated
    <3>2. CASE row'[v] # row[v]
      BY <1>5, <2>1, <3>2 DEF RowChange, RowPublished, PublishedWasCreated
    <3>. QED
      BY <3>1, <3>2
  <2>. QED
    BY <1>0, <2>2
<1>6. ASSUME NEW q \in Dispatchers, disp'[q].pc = "markPublished"
      PROVE  created'[disp'[q].event] > 0
  <2>1. CASE q # p
    <3>1. disp[q].event \in Events /\ created[disp[q].event] > 0
      BY <1>3, <1>6, <2>1 DEF PublishedWasCreated, At, TypeOK, Publishing
    <3>. QED
      BY <1>0, <1>3, <2>1, <3>1
  <2>2. CASE q = p
    <3>0. x.pc = "markPublished"
      BY <1>3, <1>6, <2>2
    <3>1. At(p, "dispatch") /\ disp[p].event \in Events
      <4>1. At(p, "dispatch")
        BY <1>2, <3>0 DEF LeavesOnly
      <4>. QED
        BY <4>1 DEF At, TypeOK, Publishing
    <3>2. Dispatch(p)
      BY <3>1 DEF Work, Start, Poll, ReleaseExpiredLocks, ClaimPendingEvents,
           Publish, MarkPublished, HandlePublishFailure, MarkFailed, At
    <3>3. ~Goto(p, "handlePublishFailure")
      BY <1>6, <2>2 DEF Goto, TypeOK, LocalState
    <3>4. Add(disp[p].event) /\ Goto(p, "markPublished")
      BY <3>2, <3>3 DEF Dispatch
    <3>5. disp'[p].event = disp[p].event
      BY <3>4 DEF Goto, TypeOK, LocalState
    <3>6. created'[disp[p].event] > 0
      BY <1>0, <3>1, <3>4 DEF Add, PublishedWasCreated
    <3>. QED
      BY <2>2, <3>5, <3>6
  <2>. QED
    BY <2>1, <2>2
<1>. QED
  BY <1>4, <1>5, <1>6 DEF PublishedWasCreated, At

-----------------------------------------------------------------------------
(* The attempts.                                                           *)

LEMMA LeavingIsCounted ==
  ASSUME TypeOK
  PROVE  Cardinality(Leaving) \in Nat /\ IsFiniteSet(Leaving)
<1>1. Leaving \subseteq Dispatchers
  BY DEF Leaving
<1>. QED
  BY <1>1, DispatchersAreFinite, FS_Subset, FS_CardinalityType

(* A step of the code never adds to the dispatchers that leave.            *)
LEMMA WorkLeaves ==
  ASSUME TypeOK, NEW p \in Dispatchers, NEW x, Moves(p, x), LeavesOnly(p, x)
  PROVE  /\ Leaving' \subseteq Leaving
         /\ Cardinality(Leaving') \in Nat
         /\ Cardinality(Leaving') <= Cardinality(Leaving)
         /\ p \in Leaving /\ p \notin Leaving' =>
              Cardinality(Leaving') + 1 <= Cardinality(Leaving)
<1>1. disp'[p] = x /\ \A q \in Dispatchers : q # p => disp'[q] = disp[q]
  BY MoveType
<1>2. Leaving' \subseteq Leaving
  <2>1. ASSUME NEW q \in Leaving'
        PROVE  q \in Leaving
    <3>1. q \in Dispatchers
          /\ disp'[q].pc \in {"releaseExpiredLocks", "claimPendingEvents"}
          /\ ~disp'[q].running
      BY <2>1 DEF Leaving
    <3>2. CASE q = p
      BY <1>1, <3>1, <3>2 DEF LeavesOnly
    <3>3. CASE q # p
      BY <1>1, <3>1, <3>3 DEF Leaving
    <3>. QED
      BY <3>2, <3>3
  <2>. QED
    BY <2>1
<1>3. /\ Cardinality(Leaving) \in Nat /\ IsFiniteSet(Leaving)
      /\ IsFiniteSet(Leaving') /\ Cardinality(Leaving') \in Nat
      /\ Cardinality(Leaving') <= Cardinality(Leaving)
  BY <1>2, LeavingIsCounted, FS_Subset, FS_CardinalityType
<1>4. ASSUME p \in Leaving, p \notin Leaving'
      PROVE  Cardinality(Leaving') + 1 <= Cardinality(Leaving)
  <2>1. IsFiniteSet(Leaving \ {p})
        /\ Cardinality(Leaving \ {p}) = Cardinality(Leaving) - 1
    BY <1>3, <1>4, FS_RemoveElement
  <2>2. Leaving' \subseteq Leaving \ {p}
    BY <1>2, <1>4
  <2>3. Cardinality(Leaving') <= Cardinality(Leaving \ {p})
    BY <2>1, <2>2, FS_Subset
  <2>. QED
    BY <1>3, <2>1, <2>3
<1>. QED
  BY <1>2, <1>3, <1>4

(* The attempts of an event, and the allowance it has, as numbers.         *)
LEMMA AttemptsType ==
  ASSUME TypeOK, NEW v \in Events
  PROVE  /\ row[v].attempts \in Nat /\ Allowance(v) \in Nat
         /\ disruptions \in Nat /\ faults \in Nat /\ requeued[v] \in Nat
         /\ MaxAttempts \in Nat
  BY Bounds DEF TypeOK, Row, Allowance

(* A row that was not claimed by the step dangles only if it did before,   *)
(* if it has attempts left, or if the batch it was in was abandoned.       *)
LEMMA WorkDangles ==
  ASSUME OutboxInv, NEW p \in Dispatchers, NEW x, WorkTo(p, x),
         NEW v \in Events, row'[v].attempts = row[v].attempts, Dangling(v)'
  PROVE  \/ Dangling(v)
         \/ row[v].attempts < MaxAttempts
         \/ faults' = faults + 1
<1>. USE DEF OutboxInv
<1>1. Moves(p, x) /\ Shape(p, x) /\ RowChange(p, v)
  BY RowChanges DEF WorkTo, Moved
<1>2. disp'[p] = x /\ \A q \in Dispatchers : q # p => disp'[q] = disp[q]
  BY <1>1, MoveType
<1>3. row[v].attempts \in Nat
  BY AttemptsType
<1>4. CASE row'[v].status = "PENDING"
  <2>1. CASE row'[v] = row[v]
    BY <1>4, <2>1 DEF Dangling
  <2>2. CASE Stale(v)
    BY <2>2 DEF Stale, Dangling
  <2>3. CASE RowFailed(p) /\ v = disp[p].event /\ disp[p].claimed[v] < MaxAttempts
    BY <2>3 DEF RowFailed, DeadIsExhausted
  <2>. QED
    BY <1>1, <1>4, <2>1, <2>2, <2>3 DEF RowChange
<1>5. CASE row'[v].status = "PROCESSING"
  <2>1. row'[v] = row[v]
    BY <1>1, <1>3, <1>5 DEF RowChange
  <2>2. CASE row'[v].expired
    BY <1>5, <2>1, <2>2 DEF Dangling
  <2>3. CASE ~InHand(v)'
    <3>1. SUFFICES ASSUME InHand(v)
                   PROVE  Dangling(v) \/ faults' = faults + 1
      BY <1>5, <2>1 DEF Dangling
    <3>2. PICK q \in Dispatchers :
            row[v].lockedBy = q /\ v \in disp[q].todo \cup {disp[q].event}
      BY <3>1 DEF InHand
    <3>3. q = p /\ v \notin x.todo \cup {x.event}
      BY <1>2, <2>1, <2>3, <3>2 DEF InHand
    <3>4. disp[p].pc \in Publishing
      BY <3>2, <3>3, NothingInHand
    <3>5. ~RowsClaimed(p)
      BY <3>4 DEF RowsClaimed, At, Publishing
    <3>6. ~Keeping(p, x)
      BY <3>2, <3>3 DEF Keeping, Stays
    <3>7. CASE GoingOn(p, x)
      <4>1. v \in disp[p].todo
        BY <1>5, <2>1, <3>2, <3>3, <3>7 DEF GoingOn
      <4>2. ~Advances(p, x)
        BY <3>3, <4>1 DEF Advances
      <4>3. ~disp[p].running
        BY <3>7, <4>1, <4>2 DEF GoingOn
      <4>. QED
        BY <1>5, <2>1, <3>2, <3>3, <4>3 DEF Dangling
    <3>8. CASE Abandoning(p, x)
      BY <3>8 DEF Abandoning
    <3>. QED
      BY <1>1, <3>5, <3>6, <3>7, <3>8 DEF Shape, Beginning, Wasting
  <2>4. CASE \E q \in Dispatchers : row'[v].lockedBy = q /\ ~disp'[q].running
    <3>1. PICK q \in Dispatchers : row'[v].lockedBy = q /\ ~disp'[q].running
      BY <2>4
    <3>2. ~disp[q].running
      <4>1. CASE q = p
        BY <1>2, <3>1, <4>1 DEF WorkTo, Kept
      <4>2. CASE q # p
        BY <1>2, <3>1, <4>2
      <4>. QED
        BY <4>1, <4>2
    <3>. QED
      BY <1>5, <2>1, <3>1, <3>2 DEF Dangling
  <2>. QED
    BY <1>5, <2>2, <2>3, <2>4 DEF Dangling
<1>. QED
  BY <1>4, <1>5 DEF Dangling

(* A row the step claimed is in hand afterwards, or a dispatcher that was  *)
(* leaving has left, or a call threw.                                      *)
LEMMA ClaimDangles ==
  ASSUME OutboxInv, NEW p \in Dispatchers, NEW x, WorkTo(p, x),
         NEW v \in Events, RowsClaimed(p), v \in Batch,
         row'[v].attempts # row[v].attempts, row'[v].lockedBy = p,
         ~row'[v].expired, row'[v].status = "PROCESSING", Dangling(v)'
  PROVE  \/ p \in Leaving /\ p \notin Leaving'
         \/ faults' = faults + 1
<1>. USE DEF OutboxInv
<1>1. Moves(p, x) /\ Shape(p, x)
  BY DEF WorkTo, Moved
<1>2. disp'[p] = x
  BY <1>1, MoveType
<1>3. /\ ~(RowsKept \/ RowsReleased \/ RowPublished(p) \/ RowFailed(p))
      /\ ~Keeping(p, x) /\ ~GoingOn(p, x)
  BY Unclaimed DEF Keeping, GoingOn
<1>4. CASE Beginning(p, x)
  <2>1. InHand(v)'
    BY <1>2, <1>4 DEF Beginning, Begins, InHand
  <2>2. disp'[p].running
    BY <1>2, <1>4 DEF Beginning, Begins
  <2>. QED
    BY <2>1, <2>2 DEF Dangling
<1>5. CASE Wasting(p, x)
  <2>1. SUFFICES ASSUME ~disp[p].running
                 PROVE  p \in Leaving /\ p \notin Leaving'
    BY <1>5 DEF Wasting
  <2>2. p \in Leaving
    BY <2>1 DEF RowsClaimed, At, Leaving
  <2>3. disp'[p].pc \in {"idle", "off"}
    BY <1>2, <1>5 DEF Wasting, Rests
  <2>4. p \notin Leaving'
    BY <2>3 DEF Leaving
  <2>. QED
    BY <2>2, <2>4
<1>6. CASE Abandoning(p, x)
  BY <1>6 DEF Abandoning
<1>. QED
  BY <1>1, <1>3, <1>4, <1>5, <1>6 DEF Shape

LEMMA WorkAttempts ==
  ASSUME OutboxInv, NEW p \in Dispatchers, Work(p)
  PROVE  AttemptsAccounted'
<1>. USE DEF OutboxInv
<1>1. PICK x : WorkTo(p, x)
  BY WorkShape
<1>2. Moves(p, x) /\ Shape(p, x) /\ LeavesOnly(p, x)
  BY <1>1 DEF WorkTo, Moved
<1>. DEFINE c == Cardinality(Leaving)
            d == Cardinality(Leaving')
<1>3. /\ c \in Nat /\ d \in Nat /\ d <= c
      /\ p \in Leaving /\ p \notin Leaving' => d + 1 <= c
  BY <1>2, WorkLeaves, LeavingIsCounted
<1>4. /\ requeued' = requeued /\ disruptions' = disruptions
      /\ faults' = faults \/ faults' = faults + 1
  BY WorkCounts
<1>5. c <= disruptions
  BY DEF AttemptsAccounted
<1>. HIDE DEF c, d
<1>6. ASSUME NEW v \in Events
      PROVE  /\ row'[v].attempts + d <= MaxAttempts + Allowance(v)'
             /\ Dangling(v)' =>
                  row'[v].attempts + d < MaxAttempts + Allowance(v)'
  <2>. DEFINE a == row[v].attempts
              b == row'[v].attempts
              k == Allowance(v)
              l == Allowance(v)'
  <2>1. /\ a \in Nat /\ k \in Nat /\ MaxAttempts \in Nat /\ disruptions \in Nat
        /\ k >= disruptions /\ l \in Nat /\ l >= k
        /\ faults' = faults + 1 => l = k + 1
    BY <1>4, AttemptsType DEF Allowance
  <2>2. /\ a + c <= MaxAttempts + k
        /\ Dangling(v) => a + c < MaxAttempts + k
    BY DEF AttemptsAccounted, c
  <2>3. RowChange(p, v)
    BY <1>2, RowChanges
  <2>. HIDE DEF k, l
  <2>4. CASE b = a
    <3>1. Dangling(v)' => \/ Dangling(v) \/ a < MaxAttempts
                          \/ faults' = faults + 1
      BY <1>1, <2>4, WorkDangles
    <3>. HIDE DEF a, b
    <3>. QED
      BY <1>3, <1>5, <2>1, <2>2, <2>4, <3>1 DEF a, b, k, l
  <2>5. CASE b # a
    <3>1. /\ RowsClaimed(p) /\ v \in Batch /\ Claimable(v) /\ b = a + 1
          /\ row'[v].lockedBy = p /\ row'[v].status = "PROCESSING"
          /\ ~row'[v].expired
      BY <2>3, <2>5 DEF RowChange
    <3>2. Dangling(v)
      BY <3>1 DEF Claimable, Stale, Dangling
    <3>3. Dangling(v)' => \/ p \in Leaving /\ p \notin Leaving'
                          \/ faults' = faults + 1
      BY <1>1, <2>5, <3>1, ClaimDangles
    <3>4. b = a + 1
      BY <3>1
    <3>. HIDE DEF a, b
    <3>. QED
      BY <1>3, <2>1, <2>2, <3>2, <3>3, <3>4 DEF a, b, k, l
  <2>. QED
    BY <2>4, <2>5
<1>7. d <= disruptions'
  BY <1>3, <1>4, <1>5, AttemptsType DEF TypeOK
<1>. QED
  BY <1>6, <1>7, Zenon DEF AttemptsAccounted, d

-----------------------------------------------------------------------------
(* The end of a dispatcher.                                                *)

LEMMA StopShape ==
  ASSUME TypeOK, NEW p \in Dispatchers, Stop(p)
  PROVE  /\ UNCHANGED <<row, queue, created, trims, requeued, faults>>
         /\ disruptions' = disruptions + 1
         /\ \A q \in Dispatchers : q # p => disp'[q] = disp[q]
         /\ disp'[p].event = disp[p].event /\ disp'[p].todo = disp[p].todo
         /\ disp'[p].claimed = disp[p].claimed
         /\ disp[p].pc # "idle" => disp'[p].pc = disp[p].pc
         /\ disp[p].pc = "idle" => disp'[p].pc = "off"
<1>1. disp[p] \in LocalState
  BY DEF TypeOK
<1>2. disp' = [disp EXCEPT ![p] =
                [disp[p] EXCEPT !.running = FALSE,
                   !.pc = IF At(p, "idle") THEN "off" ELSE disp[p].pc]]
  BY <1>1 DEF Stop, TypeOK
<1>3. disp'[p] = [disp[p] EXCEPT !.running = FALSE,
                     !.pc = IF At(p, "idle") THEN "off" ELSE disp[p].pc]
      /\ \A q \in Dispatchers : q # p => disp'[q] = disp[q]
  BY <1>2 DEF TypeOK
<1>4. UNCHANGED <<row, queue, created, trims, requeued, faults>>
      /\ disruptions' = disruptions + 1
  BY DEF Stop, jobs, Disrupts
<1>. QED
  BY <1>1, <1>3, <1>4 DEF LocalState, At

LEMMA CrashShape ==
  ASSUME TypeOK, NEW p \in Dispatchers, Crash(p)
  PROVE  /\ UNCHANGED <<row, queue, created, trims, requeued, faults>>
         /\ disruptions' = disruptions + 1
         /\ \A q \in Dispatchers : q # p => disp'[q] = disp[q]
         /\ disp'[p].event = None /\ disp'[p].todo = {}
         /\ disp'[p].pc = "crashed"
<1>1. disp'[p] = [Resting(FALSE) EXCEPT !.pc = "crashed"]
      /\ \A q \in Dispatchers : q # p => disp'[q] = disp[q]
  BY DEF Crash, TypeOK
<1>2. UNCHANGED <<row, queue, created, trims, requeued, faults>>
      /\ disruptions' = disruptions + 1
  BY DEF Crash, jobs, Disrupts
<1>. QED
  BY <1>1, <1>2 DEF Resting

LEMMA StopStep ==
  ASSUME OutboxInv, NEW p \in Dispatchers, Stop(p)
  PROVE  /\ HandsInOrder' /\ PublishedWasCreated' /\ DeadIsExhausted'
         /\ JobsAccounted' /\ AttemptsAccounted'
<1>. USE DEF OutboxInv
<1>1. /\ UNCHANGED <<row, queue, created, trims, requeued, faults>>
      /\ disruptions' = disruptions + 1
      /\ \A q \in Dispatchers : q # p => disp'[q] = disp[q]
      /\ disp'[p].event = disp[p].event /\ disp'[p].todo = disp[p].todo
      /\ disp'[p].claimed = disp[p].claimed
      /\ disp[p].pc # "idle" => disp'[p].pc = disp[p].pc
      /\ disp[p].pc = "idle" => disp'[p].pc = "off"
  BY StopShape
<1>2. \A q \in Dispatchers :
        /\ disp'[q].event = disp[q].event /\ disp'[q].todo = disp[q].todo
        /\ disp'[q].claimed = disp[q].claimed
  BY <1>1
<1>3. HandsInOrder'
  <2>1. ASSUME NEW q \in Dispatchers
        PROVE  /\ disp'[q].pc = "idle" => disp'[q].running
               /\ disp'[q].pc \notin Publishing => disp[q].pc \notin Publishing
    <3>1. CASE q = p
      BY <1>1, <3>1 DEF Publishing
    <3>2. CASE q # p
      <4>1. disp'[q] = disp[q]
        BY <1>1, <3>2
      <4>. QED
        BY <4>1 DEF HandsInOrder, At
    <3>. QED
      BY <3>1, <3>2
  <2>. QED
    BY <1>2, <2>1 DEF HandsInOrder, At
<1>4. PublishedWasCreated'
  <2>1. \A q \in Dispatchers :
          disp'[q].pc = "markPublished" => disp[q].pc = "markPublished"
    BY <1>1
  <2>. QED
    BY <1>1, <1>2, <2>1 DEF PublishedWasCreated, At
<1>5. DeadIsExhausted'
  BY <1>1, <1>2 DEF DeadIsExhausted, Owns
<1>6. JobsAccounted'
  BY <1>1 DEF JobsAccounted
<1>7. AttemptsAccounted'
  <2>. DEFINE c == Cardinality(Leaving)
              d == Cardinality(Leaving')
  <2>1. Leaving' \subseteq Leaving \cup {p}
    BY <1>1 DEF Leaving
  <2>2. c \in Nat /\ IsFiniteSet(Leaving)
    BY LeavingIsCounted
  <2>3. d \in Nat /\ d <= c + 1
    <3>1. IsFiniteSet(Leaving \cup {p})
          /\ Cardinality(Leaving \cup {p}) \in Nat
          /\ Cardinality(Leaving \cup {p}) <= c + 1
      BY <2>2, FS_AddElement, FS_CardinalityType
    <3>2. IsFiniteSet(Leaving')
          /\ Cardinality(Leaving') <= Cardinality(Leaving \cup {p})
      BY <2>1, <3>1, FS_Subset
    <3>. QED
      BY <2>2, <3>1, <3>2, FS_CardinalityType
  <2>4. p \notin Leaving' => d <= c
    <3>1. p \notin Leaving' => Leaving' \subseteq Leaving
      BY <2>1
    <3>. QED
      BY <2>2, <3>1, FS_Subset
  <2>5. c <= disruptions
    BY DEF AttemptsAccounted
  <2>. HIDE DEF c, d
  <2>6. ASSUME NEW v \in Events
        PROVE  /\ row'[v].attempts + d <= MaxAttempts + Allowance(v)'
               /\ Dangling(v)' =>
                    row'[v].attempts + d < MaxAttempts + Allowance(v)'
    <3>. DEFINE a == row[v].attempts
                k == Allowance(v)
                l == Allowance(v)'
    <3>1. a \in Nat /\ k \in Nat /\ l = k + 1 /\ MaxAttempts \in Nat
          /\ row' = row
      BY <1>1, AttemptsType DEF Allowance
    <3>2. /\ a + c <= MaxAttempts + k
          /\ Dangling(v) => a + c < MaxAttempts + k
      BY DEF AttemptsAccounted, c
    <3>3. InHand(v)' <=> InHand(v)
      BY <1>1, <1>2 DEF InHand
    <3>4. Dangling(v)' /\ p \in Leaving' => Dangling(v)
      <4>1. SUFFICES ASSUME Dangling(v)', p \in Leaving'
                     PROVE  Dangling(v)
        OBVIOUS
      <4>2. disp[p].pc \notin Publishing
        BY <1>1, <4>1 DEF Leaving, Publishing
      <4>3. row[v].lockedBy = p => ~InHand(v)
        BY <4>2, NothingInHand DEF InHand
      <4>. QED
        BY <1>1, <3>3, <4>1, <4>3 DEF Dangling
    <3>. HIDE DEF a, k, l
    <3>. QED
      BY <2>2, <2>3, <2>4, <3>1, <3>2, <3>4 DEF a, k, l
  <2>7. d <= disruptions'
    BY <1>1, <2>2, <2>3, <2>5 DEF TypeOK
  <2>. QED
    BY <2>6, <2>7, Zenon DEF AttemptsAccounted, d
<1>. QED
  BY <1>3, <1>4, <1>5, <1>6, <1>7

LEMMA CrashStep ==
  ASSUME OutboxInv, NEW p \in Dispatchers, Crash(p)
  PROVE  /\ HandsInOrder' /\ PublishedWasCreated' /\ DeadIsExhausted'
         /\ JobsAccounted' /\ AttemptsAccounted'
<1>. USE DEF OutboxInv
<1>1. /\ UNCHANGED <<row, queue, created, trims, requeued, faults>>
      /\ disruptions' = disruptions + 1
      /\ \A q \in Dispatchers : q # p => disp'[q] = disp[q]
      /\ disp'[p].event = None /\ disp'[p].todo = {}
      /\ disp'[p].pc = "crashed"
  BY CrashShape
<1>3. HandsInOrder'
  <2>1. ASSUME NEW q \in Dispatchers
        PROVE  /\ disp'[q].pc = "idle" => disp'[q].running
               /\ disp'[q].event \notin disp'[q].todo
               /\ disp'[q].pc \notin Publishing =>
                    disp'[q].event = None /\ disp'[q].todo = {}
    <3>1. CASE q = p
      BY <1>1, <3>1
    <3>2. CASE q # p
      <4>1. disp'[q] = disp[q]
        BY <1>1, <3>2
      <4>. QED
        BY <4>1 DEF HandsInOrder, At
    <3>. QED
      BY <3>1, <3>2
  <2>. QED
    BY <2>1 DEF HandsInOrder, At
<1>4. PublishedWasCreated'
  <2>1. \A q \in Dispatchers :
          disp'[q].pc = "markPublished" =>
            disp'[q].event = disp[q].event /\ disp[q].pc = "markPublished"
    BY <1>1
  <2>. QED
    BY <1>1, <2>1 DEF PublishedWasCreated, At
<1>5. DeadIsExhausted'
  <2>1. ASSUME NEW v \in Events, NEW q \in Dispatchers,
               v \in disp'[q].todo \cup {disp'[q].event}
        PROVE  disp'[q] = disp[q]
    BY <1>1, <2>1, NoneIsNobody
  <2>. QED
    BY <1>1, <2>1 DEF DeadIsExhausted, Owns
<1>6. JobsAccounted'
  BY <1>1 DEF JobsAccounted
<1>7. AttemptsAccounted'
  <2>. DEFINE c == Cardinality(Leaving)
              d == Cardinality(Leaving')
  <2>1. Leaving' \subseteq Leaving
    BY <1>1 DEF Leaving
  <2>2. c \in Nat /\ d \in Nat /\ d <= c
    BY <2>1, LeavingIsCounted, FS_Subset, FS_CardinalityType
  <2>3. c <= disruptions /\ disruptions \in Nat
    BY DEF AttemptsAccounted, TypeOK
  <2>. HIDE DEF c, d
  <2>4. ASSUME NEW v \in Events
        PROVE  row'[v].attempts + d < MaxAttempts + Allowance(v)'
               /\ row'[v].attempts + d <= MaxAttempts + Allowance(v)'
    <3>. DEFINE a == row[v].attempts
                k == Allowance(v)
                l == Allowance(v)'
    <3>1. a \in Nat /\ k \in Nat /\ l = k + 1 /\ MaxAttempts \in Nat
          /\ row' = row
      BY <1>1, AttemptsType DEF Allowance
    <3>2. a + c <= MaxAttempts + k
      BY DEF AttemptsAccounted, c
    <3>. HIDE DEF a, k, l
    <3>. QED
      BY <2>2, <3>1, <3>2 DEF a, k, l
  <2>5. d <= disruptions'
    BY <1>1, <2>2, <2>3
  <2>. QED
    BY <2>4, <2>5, Zenon DEF AttemptsAccounted, d
<1>. QED
  BY <1>3, <1>4, <1>5, <1>6, <1>7

-----------------------------------------------------------------------------
(* Time, the queue and the operator.                                       *)

(* What they may do to one event: nobody's claim begins, nothing becomes   *)
(* PUBLISHED or DEAD_LETTER, and a row that begins to dangle is paid for.  *)
QuietFor(v) ==
  /\ row'[v].attempts = row[v].attempts
  /\ row'[v].status \in {"PUBLISHED", "DEAD_LETTER"} =>
       row'[v].status = row[v].status
  /\ row'[v].status = "PROCESSING" =>
       row[v].status = "PROCESSING" /\ row'[v].lockedBy = row[v].lockedBy
  /\ Allowance(v)' \in Nat /\ Allowance(v)' >= Allowance(v)
  /\ Dangling(v)' => Dangling(v) \/ Allowance(v)' > Allowance(v)
  /\ queue'[v] = "none" => queue[v] = "none" \/ trims' = trims + 1
  /\ queue'[v] # "none" => queue[v] # "none"

Quiet ==
  /\ UNCHANGED <<disp, created>>
  /\ trims' \in Nat /\ trims' >= trims
  /\ disruptions' \in Nat /\ disruptions' >= disruptions
  /\ \A v \in Events : QuietFor(v)

LEMMA SameRow ==
  ASSUME NEW v \in Events, row'[v] = row[v], disp' = disp
  PROVE  Dangling(v)' <=> Dangling(v)
  BY DEF Dangling, InHand

LEMMA QuietSteps ==
  ASSUME TypeOK,
         \/ \E v \in Events : \/ LockTimesOut(v) \/ BackoffElapses(v)
                             \/ JobFinishes(v) \/ JobIsTrimmed(v)
                             \/ RequeueDeadLetter(v)
         \/ RecoverStuckEvents
  PROVE  Quiet
<1>0. /\ row \in [Events -> Row] /\ queue \in [Events -> {"none", "queued", "kept"}]
      /\ requeued \in [Events -> Nat]
      /\ trims \in Nat /\ disruptions \in Nat /\ faults \in Nat
  BY DEF TypeOK
<1>1. ASSUME NEW v \in Events, LockTimesOut(v)
      PROVE  Quiet
  <2>1. /\ UNCHANGED <<disp, queue, created, trims, requeued, faults>>
        /\ row' = [row EXCEPT ![v].expired = TRUE]
        /\ row[v].status = "PROCESSING"
        /\ \/ ~InHand(v) /\ disruptions' = disruptions
           \/ disruptions' = disruptions + 1
    BY <1>1 DEF LockTimesOut, jobs, Disrupts
  <2>2. ASSUME NEW w \in Events
        PROVE  QuietFor(w)
    <3>1. Allowance(w) \in Nat /\ Allowance(w)' \in Nat
          /\ Allowance(w)' >= Allowance(w)
          /\ (disruptions' = disruptions + 1 => Allowance(w)' > Allowance(w))
      BY <1>0, <2>1 DEF Allowance
    <3>2. /\ row'[w].attempts = row[w].attempts
          /\ row'[w].status = row[w].status
          /\ row'[w].lockedBy = row[w].lockedBy
      BY <1>0, <2>1 DEF Row
    <3>3. Dangling(w)' => Dangling(w) \/ Allowance(w)' > Allowance(w)
      <4>1. CASE w = v
        BY <2>1, <3>1, <4>1 DEF Dangling
      <4>2. CASE w # v
        <5>1. row'[w] = row[w]
          BY <1>0, <2>1, <4>2
        <5>. QED
          BY <2>1, <5>1, SameRow
      <4>. QED
        BY <4>1, <4>2
    <3>. QED
      BY <2>1, <3>1, <3>2, <3>3 DEF QuietFor
  <2>. QED
    BY <1>0, <2>1, <2>2 DEF Quiet
<1>2. ASSUME NEW v \in Events, BackoffElapses(v)
      PROVE  Quiet
  <2>1. /\ UNCHANGED <<disp, queue, created, trims, requeued, faults,
                       disruptions>>
        /\ row' = [row EXCEPT ![v].available = TRUE]
    BY <1>2 DEF BackoffElapses, jobs, bounded
  <2>2. ASSUME NEW w \in Events
        PROVE  QuietFor(w)
    <3>1. Allowance(w) \in Nat /\ Allowance(w)' = Allowance(w)
      BY <1>0, <2>1 DEF Allowance
    <3>2. /\ row'[w].attempts = row[w].attempts
          /\ row'[w].status = row[w].status
          /\ row'[w].lockedBy = row[w].lockedBy
      BY <1>0, <2>1 DEF Row
    <3>3. row'[w].expired = row[w].expired
      BY <1>0, <2>1 DEF Row
    <3>4. Dangling(w)' => Dangling(w)
      BY <2>1, <3>2, <3>3 DEF Dangling, InHand
    <3>. QED
      BY <2>1, <3>1, <3>2, <3>4 DEF QuietFor
  <2>. QED
    BY <1>0, <2>1, <2>2 DEF Quiet
<1>3. ASSUME NEW v \in Events, JobFinishes(v) \/ JobIsTrimmed(v)
      PROVE  Quiet
  <2>1. /\ UNCHANGED <<disp, row, created, requeued, faults, disruptions>>
        /\ \A w \in Events :
             /\ queue'[w] = "none" => queue[w] = "none" \/ trims' = trims + 1
             /\ queue'[w] # "none" => queue[w] # "none"
        /\ trims' \in Nat /\ trims' >= trims
    BY <1>0, <1>3 DEF JobFinishes, JobIsTrimmed, bounded
  <2>2. ASSUME NEW w \in Events
        PROVE  QuietFor(w)
    <3>1. Allowance(w) \in Nat /\ Allowance(w)' = Allowance(w)
      BY <1>0, <2>1 DEF Allowance
    <3>. QED
      BY <2>1, <3>1, SameRow DEF QuietFor
  <2>. QED
    BY <1>0, <2>1, <2>2 DEF Quiet
<1>4. ASSUME NEW v \in Events, RequeueDeadLetter(v)
      PROVE  Quiet
  <2>1. /\ UNCHANGED <<disp, queue, created, trims, faults, disruptions>>
        /\ row' = [row EXCEPT ![v].status = "PENDING", ![v].available = TRUE]
        /\ requeued' = [requeued EXCEPT ![v] = requeued[v] + 1]
    BY <1>4 DEF RequeueDeadLetter, jobs
  <2>2. ASSUME NEW w \in Events
        PROVE  QuietFor(w)
    <3>1. CASE w = v
      <4>1. Allowance(w) \in Nat /\ Allowance(w)' \in Nat
            /\ Allowance(w)' > Allowance(w)
        BY <1>0, <2>1, <3>1 DEF Allowance
      <4>2. row'[w].attempts = row[w].attempts
            /\ row'[w].status = "PENDING"
        BY <1>0, <2>1, <3>1 DEF Row
      <4>. QED
        BY <2>1, <4>1, <4>2 DEF QuietFor
    <3>2. CASE w # v
      <4>1. row'[w] = row[w] /\ requeued'[w] = requeued[w]
        BY <1>0, <2>1, <3>2
      <4>2. Allowance(w) \in Nat /\ Allowance(w)' = Allowance(w)
        BY <1>0, <2>1, <4>1 DEF Allowance
      <4>3. disp' = disp /\ queue' = queue
        BY <2>1
      <4>. QED
        BY <4>1, <4>2, <4>3, SameRow DEF QuietFor
    <3>. QED
      BY <3>1, <3>2
  <2>. QED
    BY <1>0, <2>1, <2>2 DEF Quiet
<1>5. CASE RecoverStuckEvents
  <2>1. UNCHANGED <<disp, queue, created, trims, requeued, faults, disruptions>>
    BY <1>5 DEF RecoverStuckEvents, jobs, bounded
  <2>2. ASSUME NEW w \in Events
        PROVE  QuietFor(w)
    <3>1. Allowance(w) \in Nat /\ Allowance(w)' = Allowance(w)
      BY <1>0, <2>1 DEF Allowance
    <3>2. CASE Stale(w)
      <4>1. row'[w] = [[row[w] EXCEPT !.status = "PENDING", !.lockedBy = None,
                                      !.expired = FALSE]
                       EXCEPT !.available = TRUE]
        BY <1>5, <3>2 DEF RecoverStuckEvents, Released
      <4>2. row'[w].attempts = row[w].attempts
            /\ row'[w].status = "PENDING"
        BY <1>0, <4>1 DEF Row
      <4>3. Dangling(w)
        BY <3>2 DEF Stale, Dangling
      <4>. QED
        BY <2>1, <3>1, <4>2, <4>3 DEF QuietFor
    <3>3. CASE ~Stale(w)
      <4>1. row'[w] = row[w]
        BY <1>5, <3>3 DEF RecoverStuckEvents
      <4>. QED
        BY <2>1, <3>1, <4>1, SameRow DEF QuietFor
    <3>. QED
      BY <3>2, <3>3
  <2>. QED
    BY <1>0, <2>1, <2>2 DEF Quiet
<1>. QED
  BY <1>1, <1>2, <1>3, <1>4, <1>5

LEMMA QuietKeeps ==
  ASSUME OutboxInv, Quiet
  PROVE  /\ HandsInOrder' /\ PublishedWasCreated' /\ DeadIsExhausted'
         /\ JobsAccounted' /\ AttemptsAccounted'
<1>. USE DEF OutboxInv
<1>1. HandsInOrder'
  BY DEF Quiet, HandsInOrder, At
<1>2. PublishedWasCreated'
  BY DEF Quiet, QuietFor, PublishedWasCreated, At
<1>3. DeadIsExhausted'
  BY DEF Quiet, QuietFor, DeadIsExhausted, Owns
<1>4. JobsAccounted'
  <2>1. created \in [Events -> Nat] /\ trims \in Nat
    BY DEF TypeOK
  <2>2. /\ created' = created /\ trims' \in Nat /\ trims' >= trims
        /\ \A v \in Events :
             queue'[v] = "none" => queue[v] = "none" \/ trims' = trims + 1
    BY DEF Quiet, QuietFor
  <2>. QED
    BY <2>1, <2>2 DEF JobsAccounted
<1>5. AttemptsAccounted'
  <2>. DEFINE c == Cardinality(Leaving)
              d == Cardinality(Leaving')
  <2>1. c \in Nat /\ d = c /\ c <= disruptions
    BY LeavingIsCounted DEF Quiet, Leaving, AttemptsAccounted
  <2>. HIDE DEF c, d
  <2>2. ASSUME NEW v \in Events
        PROVE  /\ row'[v].attempts + d <= MaxAttempts + Allowance(v)'
               /\ Dangling(v)' =>
                    row'[v].attempts + d < MaxAttempts + Allowance(v)'
    <3>. DEFINE a == row[v].attempts
                k == Allowance(v)
                l == Allowance(v)'
    <3>1. a \in Nat /\ k \in Nat /\ MaxAttempts \in Nat
          /\ row'[v].attempts = a
      BY AttemptsType DEF Quiet, QuietFor
    <3>2. /\ a + c <= MaxAttempts + k
          /\ Dangling(v) => a + c < MaxAttempts + k
      BY DEF AttemptsAccounted, c
    <3>3. l \in Nat /\ l >= k /\ (Dangling(v)' => Dangling(v) \/ l > k)
      BY DEF Quiet, QuietFor
    <3>. HIDE DEF a, k, l
    <3>. QED
      BY <2>1, <3>1, <3>2, <3>3 DEF a, k, l
  <2>3. d <= disruptions'
    BY <2>1 DEF Quiet, TypeOK
  <2>. QED
    BY <2>2, <2>3, Zenon DEF AttemptsAccounted, d
<1>. QED
  BY <1>1, <1>2, <1>3, <1>4, <1>5

-----------------------------------------------------------------------------
(* The invariant, and what follows from it.                                *)

LEMMA OutboxInvInit == Init => OutboxInv
<1>. SUFFICES ASSUME Init PROVE OutboxInv
  OBVIOUS
<1>1. \A p \in Dispatchers :
        disp[p].pc = "new" /\ disp[p].event = None /\ disp[p].todo = {}
  BY DEF Init, Resting
<1>2. /\ \A v \in Events : /\ row[v].status = "PENDING"
                           /\ row[v].attempts = 0 /\ queue[v] = "none"
                           /\ created[v] = 0 /\ requeued[v] = 0
      /\ disruptions = 0 /\ faults = 0 /\ trims = 0
  BY DEF Init
<1>3. HandsInOrder
  BY <1>1 DEF HandsInOrder, At
<1>4. PublishedWasCreated /\ DeadIsExhausted /\ JobsAccounted
  BY <1>1, <1>2 DEF PublishedWasCreated, DeadIsExhausted, JobsAccounted, At, Owns
<1>5. AttemptsAccounted
  <2>1. Leaving = {}
    BY <1>1 DEF Leaving
  <2>2. Cardinality(Leaving) = 0
    BY <2>1, FS_EmptySet
  <2>. QED
    BY <1>2, <2>2, Bounds DEF AttemptsAccounted, Allowance
<1>. QED
  BY <1>3, <1>4, <1>5, TypeInit DEF OutboxInv

LEMMA OutboxInvStep ==
  ASSUME OutboxInv, [Next]_vars
  PROVE  OutboxInv'
<1>0. TypeOK /\ HandsInOrder
  BY DEF OutboxInv
<1>1. TypeOK'
  BY <1>0, TypeStep
<1>2. CASE \E p \in Dispatchers : Work(p)
  BY <1>0, <1>1, <1>2, WorkHands, WorkPublishes, WorkExhausts, WorkJobs,
     WorkAttempts DEF OutboxInv
<1>3. CASE \E p \in Dispatchers : Stop(p)
  BY <1>1, <1>3, StopStep DEF OutboxInv
<1>4. CASE \E p \in Dispatchers : Crash(p)
  BY <1>1, <1>4, CrashStep DEF OutboxInv
<1>5. CASE \/ \E v \in Events : \/ LockTimesOut(v) \/ BackoffElapses(v)
                               \/ JobFinishes(v) \/ JobIsTrimmed(v)
                               \/ RequeueDeadLetter(v)
           \/ RecoverStuckEvents
  BY <1>0, <1>1, <1>5, QuietSteps, QuietKeeps DEF OutboxInv
<1>6. CASE UNCHANGED vars
  BY <1>6 DEF OutboxInv, vars, TypeOK, HandsInOrder, PublishedWasCreated,
       DeadIsExhausted, AttemptsAccounted, JobsAccounted, At, Owns, Dangling,
       InHand, Leaving, Allowance
<1>. QED
  BY <1>2, <1>3, <1>4, <1>5, <1>6 DEF Next

(* The inductive invariant of the dispatcher.                              *)
THEOREM OutboxInvariant == Spec => []OutboxInv
  BY OutboxInvInit, OutboxInvStep, PTL DEF Spec

(* However dispatchers crash, are stopped, lose locks and see calls fail,  *)
(* a row is claimed at most MaxAttempts times, plus once for each of those *)
(* interruptions and for each requeue by an operator.                      *)
THEOREM AttemptsBounded == Spec => []AttemptsAreBounded
<1>1. OutboxInv => AttemptsAreBounded
  <2>1. ASSUME OutboxInv, NEW v \in Events
        PROVE  row[v].attempts <=
                 MaxAttempts + disruptions + faults + requeued[v]
    <3>1. TypeOK /\ Cardinality(Leaving) \in Nat
      BY <2>1, LeavingIsCounted DEF OutboxInv
    <3>2. row[v].attempts + Cardinality(Leaving) <= MaxAttempts + Allowance(v)
      BY <2>1 DEF OutboxInv, AttemptsAccounted
    <3>. QED
      BY <3>1, <3>2, AttemptsType DEF Allowance
  <2>. QED
    BY <2>1 DEF AttemptsAreBounded
<1>. QED
  BY <1>1, OutboxInvariant, PTL

(* An event is given up only when its attempts are used up, and dispatchers*)
(* decide with the attempts of the row as it is.                           *)
THEOREM DeadExhausted == Spec => []DeadIsExhausted
<1>1. OutboxInv => DeadIsExhausted
  BY DEF OutboxInv
<1>. QED
  BY <1>1, OutboxInvariant, PTL

(* The deterministic job id makes publications idempotent for as long as   *)
(* the queue remembers the id.                                             *)
THEOREM OneJob == Spec => []OneJobPerEvent
<1>1. OutboxInv => OneJobPerEvent
  BY DEF OutboxInv, JobsAccounted, OneJobPerEvent
<1>. QED
  BY <1>1, OutboxInvariant, PTL

-----------------------------------------------------------------------------
(* Claims are exclusive.                                                   *)

LEMMA ClaimsStep ==
  ASSUME OutboxInv, Next, NEW v \in Events,
         row[v].status = "PROCESSING", ~row[v].expired,
         <<row'[v].status, row'[v].lockedBy>> #
           <<row[v].status, row[v].lockedBy>>
  PROVE  \E p \in Dispatchers :
           /\ row[v].lockedBy = p /\ disp[p].event = v
           /\ disp'[p] # disp[p]
<1>0. TypeOK /\ HandsInOrder /\ row \in [Events -> Row]
  BY DEF OutboxInv, TypeOK
<1>1. ASSUME NEW p \in Dispatchers, Work(p)
      PROVE  row[v].lockedBy = p /\ disp[p].event = v /\ disp'[p] # disp[p]
  <2>1. PICK x : Moved(p, x)
    BY <1>0, <1>1, WorkShape DEF WorkTo
  <2>2. Moves(p, x) /\ Shape(p, x) /\ LeavesOnly(p, x)
    BY <2>1 DEF Moved
  <2>3. RowChange(p, v) /\ row'[v] # row[v] /\ ~Stale(v) /\ ~Claimable(v)
    BY <1>0, <2>2, RowChanges DEF Stale, Claimable
  <2>4. v = disp[p].event /\ (RowPublished(p) \/ RowFailed(p))
    BY <2>3 DEF RowChange
  <2>5. row[v].lockedBy = p
    BY <2>4 DEF RowPublished, RowFailed, Owns
  <2>6. disp'[p] = x
    BY <1>0, <2>2, MoveType
  <2>7. x # disp[p]
    <3>1. disp[p].pc \in {"markPublished", "markFailed"}
      BY <2>4 DEF RowPublished, RowFailed, At
    <3>2. x.pc = "markPublished" => disp[p].pc = "dispatch"
      BY <2>2 DEF LeavesOnly, At
    <3>3. x.pc = "markFailed" => disp[p].pc = "handlePublishFailure"
      BY <2>2 DEF LeavesOnly, At
    <3>. QED
      BY <3>1, <3>2, <3>3
  <2>. QED
    BY <2>4, <2>5, <2>6, <2>7
<1>2. ASSUME NEW w \in Events,
             LockTimesOut(w) \/ BackoffElapses(w) \/ RequeueDeadLetter(w)
      PROVE  FALSE
  <2>1. CASE LockTimesOut(w) \/ BackoffElapses(w)
    BY <1>0, <2>1 DEF LockTimesOut, BackoffElapses, Row
  <2>2. CASE RequeueDeadLetter(w)
    BY <1>0, <2>2 DEF RequeueDeadLetter, Row
  <2>. QED
    BY <1>2, <2>1, <2>2
<1>3. CASE RecoverStuckEvents
  BY <1>3 DEF RecoverStuckEvents, Stale
<1>4. row' # row
  OBVIOUS
<1>5. ~\E p \in Dispatchers : Stop(p) \/ Crash(p)
  BY <1>4 DEF Stop, Crash
<1>6. ~\E w \in Events : JobFinishes(w) \/ JobIsTrimmed(w)
  BY <1>4 DEF JobFinishes, JobIsTrimmed
<1>. QED
  BY <1>1, <1>2, <1>3, <1>5, <1>6 DEF Next

(* A claim ends only by its owner's own update, until its lock times out.  *)
THEOREM ClaimIsExclusive == Spec => LiveClaimIsExclusive
<1>1. OutboxInv /\ [Next]_vars =>
        [\A v \in Events :
           row[v].status = "PROCESSING" /\ ~row[v].expired
             /\ <<row'[v].status, row'[v].lockedBy>> #
                <<row[v].status, row[v].lockedBy>> =>
             \E p \in Dispatchers :
               /\ row[v].lockedBy = p /\ disp[p].event = v
               /\ disp'[p] # disp[p]]_vars
  BY ClaimsStep
<1>. QED
  BY <1>1, OutboxInvariant, PTL DEF Spec, LiveClaimIsExclusive

-----------------------------------------------------------------------------
(* The refinement.                                                         *)

(* The state of an event, and whether the queue has had it, as the users   *)
(* of the outbox see them.                                                 *)
StateOf(v) ==
  IF row[v].status = "PUBLISHED" THEN "published"
  ELSE IF row[v].status = "DEAD_LETTER" THEN "dead"
  ELSE "pending"
States == [v \in Events |-> StateOf(v)]
Deliveries == {v \in Events : created[v] > 0}

LEMMA StutterStep ==
  ASSUME \A v \in Events : StateOf(v)' = StateOf(v),
         \A v \in Events : created'[v] > 0 <=> created[v] > 0
  PROVE  States' = States /\ Deliveries' = Deliveries
  BY DEF States, Deliveries

(* One event changes its state, the queue gets nothing new.                *)
LEMMA OneState ==
  ASSUME NEW v \in Events, created' = created,
         \A w \in Events : w # v => row'[w] = row[w]
  PROVE  /\ States' = [States EXCEPT ![v] = StateOf(v)']
         /\ Deliveries' = Deliveries
<1>1. \A w \in Events : w # v => StateOf(w)' = StateOf(w)
  BY DEF StateOf
<1>. HIDE DEF StateOf
<1>. QED
  BY <1>1 DEF States, Deliveries

AbstractStep ==
  \/ States' = States /\ Deliveries' = Deliveries
  \/ \E v \in Events :
       \/ /\ v \notin Poison /\ v \notin Deliveries
          /\ Deliveries' = Deliveries \cup {v}
          /\ States' = States
       \/ /\ States[v] = "pending" /\ v \in Deliveries
          /\ States' = [States EXCEPT ![v] = "published"]
          /\ Deliveries' = Deliveries
       \/ /\ States[v] = "pending"
          /\ States' = [States EXCEPT ![v] = "dead"]
          /\ Deliveries' = Deliveries
       \/ /\ States[v] = "dead"
          /\ States' = [States EXCEPT ![v] = "pending"]
          /\ Deliveries' = Deliveries

LEMMA AbstractSteps ==
  ASSUME OutboxInv, [Next]_vars
  PROVE  AbstractStep
<1>0. TypeOK /\ HandsInOrder /\ row \in [Events -> Row]
      /\ created \in [Events -> Nat]
  BY DEF OutboxInv, TypeOK
<1>1. ASSUME NEW p \in Dispatchers, Work(p)
      PROVE  AbstractStep
  <2>1. PICK x : Moved(p, x)
    BY <1>0, <1>1, WorkShape DEF WorkTo
  <2>2. \A v \in Events : RowChange(p, v)
    BY <1>0, <2>1, RowChanges DEF Moved
  <2>3. CASE ~QueueKept
    <3>1. /\ Add(disp[p].event) /\ row' = row
          /\ disp[p].event \in Events /\ disp[p].event \notin Poison
      BY <1>0, <1>1, <2>3, WorkQueues
    <3>. DEFINE v == disp[p].event
    <3>2. created' = [created EXCEPT ![v] = created[v] + 1]
      BY <2>3, <3>1 DEF Add, QueueKept
    <3>3. \A w \in Events : StateOf(w)' = StateOf(w)
      BY <3>1 DEF StateOf
    <3>4. CASE created[v] > 0
      BY <1>0, <3>1, <3>2, <3>3, <3>4, StutterStep DEF AbstractStep
    <3>5. CASE ~(created[v] > 0)
      <4>1. Deliveries' = Deliveries \cup {v}
        BY <1>0, <3>1, <3>2 DEF Deliveries
      <4>2. States' = States
        BY <3>3 DEF States
      <4>3. v \notin Deliveries
        BY <3>1, <3>5 DEF Deliveries
      <4>. QED
        BY <3>1, <4>1, <4>2, <4>3 DEF AbstractStep
    <3>. QED
      BY <3>4, <3>5
  <2>4. CASE QueueKept /\ (RowPublished(p) \/ RowFailed(p))
    <3>1. PICK v \in Events :
            /\ v = disp[p].event
            /\ row[v].status = "PROCESSING" /\ created' = created
            /\ \A w \in Events : w # v => row'[w] = row[w]
      BY <1>0, <2>4
      DEF RowPublished, RowFailed, At, Owns, QueueKept, TypeOK, Publishing
    <3>2. /\ States' = [States EXCEPT ![v] = StateOf(v)']
          /\ Deliveries' = Deliveries
      BY <3>1, OneState
    <3>3. States[v] = "pending" /\ [States EXCEPT ![v] = "pending"] = States
      BY <3>1 DEF States, StateOf
    <3>4. CASE RowPublished(p)
      <4>1. StateOf(v)' = "published"
        BY <1>0, <3>1, <3>4 DEF RowPublished, PublishedRow, StateOf
      <4>2. v \in Deliveries
        BY <3>1, <3>4
        DEF RowPublished, OutboxInv, PublishedWasCreated, Deliveries
      <4>. QED
        BY <3>1, <3>2, <3>3, <4>1, <4>2 DEF AbstractStep
    <3>5. CASE RowFailed(p)
      <4>1. StateOf(v)' = "dead" \/ StateOf(v)' = "pending"
        BY <1>0, <3>1, <3>5 DEF RowFailed, FailedRow, StateOf
      <4>2. CASE StateOf(v)' = "dead"
        BY <3>1, <3>2, <3>3, <4>2 DEF AbstractStep
      <4>3. CASE StateOf(v)' = "pending"
        <5>1. States' = States
          BY <3>1, <3>2, <3>3, <4>3
        <5>. QED
          BY <3>2, <5>1 DEF AbstractStep
      <4>. QED
        BY <4>1, <4>2, <4>3
    <3>. QED
      BY <2>4, <3>4, <3>5
  <2>5. CASE QueueKept /\ ~RowPublished(p) /\ ~RowFailed(p)
    <3>1. ASSUME NEW v \in Events
          PROVE  StateOf(v)' = StateOf(v)
      <4>1. \/ row'[v] = row[v]
            \/ Stale(v) /\ row'[v].status = "PENDING"
            \/ Claimable(v) /\ row'[v].status = "PROCESSING"
        BY <2>2, <2>5 DEF RowChange
      <4>. QED
        BY <4>1 DEF StateOf, Stale, Claimable
    <3>2. States' = States /\ Deliveries' = Deliveries
      BY <2>5, <3>1, StutterStep DEF QueueKept
    <3>. QED
      BY <3>2 DEF AbstractStep
  <2>. QED
    BY <2>3, <2>4, <2>5
<1>2. ASSUME NEW v \in Events, RequeueDeadLetter(v)
      PROVE  AbstractStep
  <2>1. /\ created' = created /\ row[v].status = "DEAD_LETTER"
        /\ \A w \in Events : w # v => row'[w] = row[w]
        /\ row'[v].status = "PENDING"
    BY <1>0, <1>2 DEF RequeueDeadLetter, jobs, Row
  <2>2. /\ States' = [States EXCEPT ![v] = StateOf(v)']
        /\ Deliveries' = Deliveries
    BY <2>1, OneState
  <2>3. States[v] = "dead" /\ StateOf(v)' = "pending"
    BY <2>1 DEF States, StateOf
  <2>. QED
    BY <2>2, <2>3 DEF AbstractStep
<1>3. ASSUME \/ \E p \in Dispatchers : Stop(p) \/ Crash(p)
             \/ \E v \in Events : \/ LockTimesOut(v) \/ BackoffElapses(v)
                                  \/ JobFinishes(v) \/ JobIsTrimmed(v)
             \/ RecoverStuckEvents
             \/ UNCHANGED vars
      PROVE  AbstractStep
  <2>1. created' = created
    BY <1>3 DEF Stop, Crash, LockTimesOut, BackoffElapses, JobFinishes,
         JobIsTrimmed, RecoverStuckEvents, jobs, vars
  <2>2. ASSUME NEW w \in Events
        PROVE  StateOf(w)' = StateOf(w)
    <3>1. CASE RecoverStuckEvents
      <4>1. CASE Stale(w)
        <5>1. row'[w].status = "PENDING"
          BY <1>0, <3>1, <4>1 DEF RecoverStuckEvents, Released, Row
        <5>. QED
          BY <4>1, <5>1 DEF Stale, StateOf
      <4>2. CASE ~Stale(w)
        BY <3>1, <4>2 DEF RecoverStuckEvents, StateOf
      <4>. QED
        BY <4>1, <4>2
    <3>2. CASE \E v \in Events : LockTimesOut(v) \/ BackoffElapses(v)
      <4>1. row'[w].status = row[w].status
        BY <1>0, <3>2 DEF LockTimesOut, BackoffElapses, Row
      <4>. QED
        BY <4>1 DEF StateOf
    <3>3. CASE row' = row
      BY <3>3 DEF StateOf
    <3>. QED
      BY <1>3, <3>1, <3>2, <3>3
      DEF Stop, Crash, JobFinishes, JobIsTrimmed, vars
  <2>. QED
    BY <2>1, <2>2, StutterStep DEF AbstractStep
<1>. QED
  BY <1>1, <1>2, <1>3 DEF Next

(* The dispatcher implements the abstract outbox of module Outbox, for     *)
(* every number of dispatchers, events, crashes and failed calls.          *)
THEOREM OutboxImplemented == Spec => ImplementsOutbox
<1>1. Init => Abstract!Init
  BY DEF Init, Abstract!Init
<1>2. OutboxInv /\ [Next]_vars => [Abstract!Next]_(Abstract!vars)
  <2>1. SUFFICES ASSUME OutboxInv, [Next]_vars
                 PROVE  [Abstract!Next]_(Abstract!vars)
    OBVIOUS
  <2>2. AbstractStep
    BY <2>1, AbstractSteps
  <2>. QED
    BY <2>2
    DEF AbstractStep, States, Deliveries, StateOf, Abstract!Next,
        Abstract!vars, Abstract!Deliver, Abstract!Publish, Abstract!GiveUp,
        Abstract!Requeue
<1>. QED
  BY <1>1, <1>2, OutboxInvariant, PTL DEF Spec, ImplementsOutbox, Abstract!Spec
=============================================================================
