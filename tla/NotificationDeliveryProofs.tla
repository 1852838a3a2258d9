--------------------- MODULE NotificationDeliveryProofs ---------------------
(***************************************************************************)
(* Proofs about NotificationDelivery for every value of its constants:     *)
(* type correctness, the pairing of the two tokens of a primary attempt,   *)
(* and four inductive invariants that build on one another: SubmissionInv  *)
(* (no submission is repeated), OutcomeInv (what is SENT was accepted, and *)
(* what is settled stays), ChannelInv (one channel accepts) and QuietInv   *)
(* (parent and deliveries agree when nothing disturbs them).               *)
(***************************************************************************)
EXTENDS NotificationDelivery, TLAPS

(* The key of a running execution is a delivery key; the primary is the    *)
(* key of the parent's own claim and of no other.                          *)
LEMMA KeyType ==
  ASSUME TypeOK, NEW e \in Execs, exec[e].pc # "idle"
  PROVE  /\ exec[e].job \in Jobs
         /\ Chain[exec[e].job] \in Seq(Deliveries)
         /\ exec[e].pos \in 1..Len(Chain[exec[e].job])
         /\ exec[e].pos \in Nat
         /\ Len(Chain[exec[e].job]) \in Nat
         /\ Key(e) \in Deliveries
         /\ Key(e) = Primary <=> ClaimsParent(e)
  BY ChainsAreKeys, KeysAreDistinct
     DEF TypeOK, LocalOK, LocalState, Key, ClaimsParent, IsReplay, InFallback

LEMMA InitTypeOK == Init => TypeOK
  BY ChainsAreKeys, Bounds
     DEF Init, TypeOK, ParentStatus, DeliveryStatus, JobState, Label, Reason,
         Outcome, ParentRow, DeliveryRow, JobRecord, LocalState, JobOK, LocalOK

-----------------------------------------------------------------------------
(* A local state an execution may move to.                                 *)
Legal(x) == x \in LocalState /\ LocalOK(x)

LEMMA MoveLegal ==
  ASSUME TypeOK, NEW e \in Execs, exec[e].pc # "idle",
         NEW l \in Label, NEW w \in Reason,
         NEW p \in 1..Len(Chain[exec[e].job])
  PROVE  Legal(Move(e, l, p, w))
  BY KeyType DEF TypeOK, LocalState, LocalOK, Legal, Move

LEMMA MovesLegal ==
  ASSUME TypeOK, NEW e \in Execs, exec[e].pc # "idle"
  PROVE  /\ \A l \in Label : Legal(To(e, l))
         /\ \A w \in Reason : Legal(ToFail(e, w))
         /\ Legal(Infra(e)) /\ Legal(Unexpected(e))
         /\ \A r \in BOOLEAN : Legal(AfterRejection(e, r))
         /\ Legal(AfterFailed(e))
  <1>0. exec[e].why \in Reason
    BY DEF TypeOK, LocalState
  <1>1. /\ exec[e].pos \in Nat /\ exec[e].pos \in 1..Len(Chain[exec[e].job])
        /\ Len(Chain[exec[e].job]) \in Nat
    BY KeyType
  <1>2. \A l \in Label : Legal(To(e, l))
    BY <1>0, <1>1, MoveLegal DEF To
  <1>3. \A w \in Reason : Legal(ToFail(e, w))
    <2>1. "markFailed" \in Label
      BY DEF Label
    <2> QED
      BY <1>1, <2>1, MoveLegal DEF ToFail
  <1>4. Legal(Infra(e)) /\ Legal(Unexpected(e))
    BY <1>2, <1>3 DEF Infra, Unexpected, Label, Reason
  <1>5. \A p \in 1..Len(Chain[exec[e].job]) : Legal(ToChannel(e, p))
    BY MoveLegal DEF ToChannel, Label, Reason
  <1>6. HasFallback(e) => exec[e].pos + 1 \in 1..Len(Chain[exec[e].job])
    BY <1>1 DEF HasFallback
  <1>7. \A r \in BOOLEAN : Legal(AfterRejection(e, r))
    <2>1. ~InFallback(e) /\ HasFallback(e) => Legal(ToChannel(e, 2))
      BY <1>1, <1>5, <1>6 DEF InFallback
    <2> QED
      BY <1>3, <2>1 DEF AfterRejection, Reason
  <1>8. Legal(AfterFailed(e))
    <2>1. HasFallback(e) => Legal(ToChannel(e, exec[e].pos + 1))
      BY <1>5, <1>6
    <2>2. Legal(Move(e, "markFailed", 1, "terminal"))
      <3>1. "markFailed" \in Label /\ "terminal" \in Reason
        BY DEF Label, Reason
      <3>2. 1 \in 1..Len(Chain[exec[e].job])
        BY <1>1
      <3> QED
        BY <3>1, <3>2, MoveLegal
    <2> QED
      BY <1>2, <2>1, <2>2 DEF AfterFailed, NextChannel, Label
  <1> QED
    BY <1>2, <1>3, <1>4, <1>7, <1>8

LEMMA MoveType ==
  ASSUME TypeOK, NEW e \in Execs, NEW STATE x, Legal(x),
         exec' = [exec EXCEPT ![e] = x]
  PROVE  exec' \in [Execs -> LocalState] /\ \A f \in Execs : LocalOK(exec'[f])
  BY DEF TypeOK, Legal, LocalOK

LEMMA DbThrowsType ==
  ASSUME TypeOK, DbThrows \/ UNCHANGED dbFaults
  PROVE  dbFaults' \in 0..MaxDbFaults
  BY Bounds DEF TypeOK, DbThrows

-----------------------------------------------------------------------------
LEMMA RowsType ==
  ASSUME TypeOK, NEW e \in Execs, NEW d \in Deliveries,
         NEW b \in BOOLEAN
  PROVE  /\ delivery[d] \in DeliveryRow
         /\ Pending \in DeliveryRow
         /\ Taken(e, d) \in DeliveryRow
         /\ [delivery[d] EXCEPT !.started = b] \in DeliveryRow
         /\ [delivery[d] EXCEPT !.expired = b] \in DeliveryRow
         /\ Settled("SENT", FALSE) \in DeliveryRow
         /\ Settled("FAILED", FALSE) \in DeliveryRow
         /\ Settled("ACCEPTANCE_UNKNOWN", TRUE) \in DeliveryRow
         /\ \A st \in ParentStatus : SettledParent(st) \in ParentRow
         /\ [status |-> "PROCESSING", token |-> e, expired |-> FALSE]
              \in ParentRow
  BY DEF TypeOK, DeliveryRow, DeliveryStatus, ParentRow, ParentStatus, Pending,
         Taken, Settled, SettledParent

(* The labels an execution is sent to by name.                             *)
LEMMA Labels ==
  /\ "idle" \in Label /\ "createIfMissing" \in Label
  /\ "getByDeliveryKey" \in Label /\ "claim" \in Label
  /\ "markProviderSubmissionStarted" \in Label /\ "send" \in Label
  /\ "inflight" \in Label /\ "markSent" \in Label
  /\ "markAcceptanceUnknown" \in Label /\ "markFailed" \in Label
  /\ "parentMarkSent" \in Label /\ "parentMarkRetrying" \in Label
  /\ "parentMarkFailed" \in Label /\ "parentMarkUnknown" \in Label
  /\ "reconcile" \in Label /\ "return" \in Label /\ "throw" \in Label
  /\ "done" \in Label /\ "crashed" \in Label
  BY DEF Label

LEMMA Reasons ==
  /\ "none" \in Reason /\ "retry" \in Reason /\ "terminal" \in Reason
  /\ "infra" \in Reason /\ "refused" \in Reason /\ "error" \in Reason
  BY DEF Reason

(* No step of an execution is taken before its job is picked up.           *)
LEMMA StepRuns ==
  ASSUME TypeOK, NEW e \in Execs, Step(e)
  PROVE  exec[e].pc # "idle"
  BY DEF Step, At, CreateIfMissing, GetByDeliveryKey,
      ReconcileSentFromDelivery, ClaimPrimaryAttempt, MarkProcessing,
      MarkProviderSubmissionStarted, Send, AnswerUncertain, AnswerSuccess,
      AnswerRejected, MarkSent, MarkAcceptanceUnknown,
      ParentMarkAcceptanceUnknown, MarkFailed, ParentMarkSent,
      ParentMarkRetrying, ParentMarkFailed, Return, Throw

LEMMA StepTypeOK ==
  ASSUME TypeOK, NEW e \in Execs, Step(e)
  PROVE  TypeOK'
  <1>key. /\ exec[e].pc # "idle"
          /\ exec[e].job \in Jobs
          /\ Key(e) \in Deliveries
    BY StepRuns, KeyType
  <1>m. /\ \A l \in Label : Legal(To(e, l))
        /\ \A w \in Reason : Legal(ToFail(e, w))
        /\ Legal(Infra(e)) /\ Legal(Unexpected(e))
        /\ \A r \in BOOLEAN : Legal(AfterRejection(e, r))
        /\ Legal(AfterFailed(e))
    BY <1>key, MovesLegal
  <1>1. CASE CreateIfMissing(e)
    <2>1. (IF delivery[Key(e)].status = "ABSENT" THEN Pending
           ELSE delivery[Key(e)]) \in DeliveryRow
      BY <1>key, RowsType
    <2>2. delivery' \in [Deliveries -> DeliveryRow]
      BY <1>1, <1>key, <2>1 DEF CreateIfMissing, UpdateDelivery, TypeOK
    <2>3. /\ exec' \in [Execs -> LocalState]
          /\ \A f \in Execs : LocalOK(exec'[f])
      BY <1>1, <1>m, <2>1, Labels, Reasons, MoveType
         DEF CreateIfMissing, UpdateDelivery
    <2>4. dbFaults' \in 0..MaxDbFaults
      BY <1>1, DbThrowsType DEF CreateIfMissing, UpdateDelivery
    <2> QED
      BY <1>1, <2>2, <2>3, <2>4 DEF CreateIfMissing, TypeOK
  <1>2. CASE GetByDeliveryKey(e)
    <2>1. AfterRead(e) \in Label
      BY Labels DEF AfterRead
    <2>2. /\ exec' \in [Execs -> LocalState]
          /\ \A f \in Execs : LocalOK(exec'[f])
      BY <1>2, <1>m, <2>1, MoveType DEF GetByDeliveryKey
    <2> QED
      BY <1>2, <2>2, DbThrowsType DEF GetByDeliveryKey, TypeOK
  <1>3. CASE ReconcileSentFromDelivery(e)
    <2>1. SettledParent("SENT") \in ParentRow
      BY <1>key, RowsType DEF ParentStatus
    <2>2. parent' \in ParentRow
      BY <1>3, <1>key, <2>1 DEF ReconcileSentFromDelivery, UpdateParent, TypeOK
    <2>3. /\ exec' \in [Execs -> LocalState]
          /\ \A f \in Execs : LocalOK(exec'[f])
      BY <1>3, <1>m, <2>1, Labels, Reasons, MoveType
         DEF ReconcileSentFromDelivery, UpdateParent
    <2>4. dbFaults' \in 0..MaxDbFaults
      BY <1>3, DbThrowsType DEF ReconcileSentFromDelivery, UpdateParent
    <2> QED
      BY <1>3, <2>2, <2>3, <2>4 DEF ReconcileSentFromDelivery, TypeOK
  <1>4. CASE ClaimPrimaryAttempt(e)
    <2>1. /\ exec' \in [Execs -> LocalState]
          /\ \A f \in Execs : LocalOK(exec'[f])
      BY <1>4, <1>m, Labels, MoveType DEF ClaimPrimaryAttempt
    <2>2. /\ Taken(e, Primary) \in DeliveryRow
          /\ [status |-> "PROCESSING", token |-> e, expired |-> FALSE]
               \in ParentRow
      BY RowsType, ChainsAreKeys
    <2>3. UNCHANGED rows \/ TakePrimary(e)
      BY <1>4 DEF ClaimPrimaryAttempt, rows
    <2>4. /\ parent' \in ParentRow
          /\ delivery' \in [Deliveries -> DeliveryRow]
      BY <2>2, <2>3 DEF TakePrimary, TypeOK, rows
    <2> QED
      BY <1>4, <2>1, <2>4, DbThrowsType DEF ClaimPrimaryAttempt, TypeOK
  <1>5. CASE MarkProcessing(e)
    <2>1. Taken(e, Key(e)) \in DeliveryRow
      BY <1>key, RowsType
    <2>2. delivery' \in [Deliveries -> DeliveryRow]
      BY <1>5, <1>key, <2>1 DEF MarkProcessing, UpdateDelivery, TypeOK
    <2>3. /\ exec' \in [Execs -> LocalState]
          /\ \A f \in Execs : LocalOK(exec'[f])
      BY <1>5, <1>m, <2>1, Labels, Reasons, MoveType
         DEF MarkProcessing, UpdateDelivery
    <2>4. dbFaults' \in 0..MaxDbFaults
      BY <1>5, DbThrowsType DEF MarkProcessing, UpdateDelivery
    <2> QED
      BY <1>5, <2>2, <2>3, <2>4 DEF MarkProcessing, TypeOK
  <1>6. CASE MarkProviderSubmissionStarted(e)
    <2>1. [delivery[Key(e)] EXCEPT !.started = TRUE] \in DeliveryRow
      BY <1>key, RowsType
    <2>2. delivery' \in [Deliveries -> DeliveryRow]
      BY <1>6, <1>key, <2>1
         DEF MarkProviderSubmissionStarted, UpdateDelivery, TypeOK
    <2>3. /\ exec' \in [Execs -> LocalState]
          /\ \A f \in Execs : LocalOK(exec'[f])
      BY <1>6, <1>m, <2>1, Labels, Reasons, MoveType
         DEF MarkProviderSubmissionStarted, UpdateDelivery
    <2>4. dbFaults' \in 0..MaxDbFaults
      BY <1>6, DbThrowsType DEF MarkProviderSubmissionStarted, UpdateDelivery
    <2> QED
      BY <1>6, <2>2, <2>3, <2>4 DEF MarkProviderSubmissionStarted, TypeOK
  <1>7. CASE Send(e)
    <2>1. ledger' \in [Execs -> [Deliveries -> Outcome]]
      BY <1>7, <1>key DEF Send, TypeOK, Outcome
    <2> QED
      BY <1>7, <1>m, <2>1, Labels, MoveType DEF Send, TypeOK, faults
  <1>8. CASE AnswerUncertain(e)
    BY <1>8, <1>m, Labels, MoveType DEF AnswerUncertain, TypeOK, faults
  <1>9. CASE AnswerSuccess(e)
    BY <1>9, <1>m, Labels, MoveType DEF AnswerSuccess, TypeOK, faults
  <1>10. CASE AnswerRejected(e)
    <2>1. ledger' \in [Execs -> [Deliveries -> Outcome]]
      BY <1>10, <1>key DEF AnswerRejected, TypeOK, Outcome
    <2> QED
      BY <1>10, <1>m, <2>1, MoveType DEF AnswerRejected, TypeOK, faults
  <1>11. CASE MarkSent(e)
    <2>1. Settled("SENT", FALSE) \in DeliveryRow
      BY <1>key, RowsType
    <2>2. delivery' \in [Deliveries -> DeliveryRow]
      BY <1>11, <1>key, <2>1 DEF MarkSent, UpdateDelivery, TypeOK
    <2>3. /\ exec' \in [Execs -> LocalState]
          /\ \A f \in Execs : LocalOK(exec'[f])
      BY <1>11, <1>m, <2>1, Labels, Reasons, MoveType
         DEF MarkSent, UpdateDelivery
    <2>4. dbFaults' \in 0..MaxDbFaults
      BY <1>11, DbThrowsType DEF MarkSent, UpdateDelivery
    <2> QED
      BY <1>11, <2>2, <2>3, <2>4 DEF MarkSent, TypeOK
  <1>12. CASE MarkAcceptanceUnknown(e)
    <2>1. Settled("ACCEPTANCE_UNKNOWN", TRUE) \in DeliveryRow
      BY <1>key, RowsType
    <2>2. delivery' \in [Deliveries -> DeliveryRow]
      BY <1>12, <1>key, <2>1 DEF MarkAcceptanceUnknown, UpdateDelivery, TypeOK
    <2>3. /\ exec' \in [Execs -> LocalState]
          /\ \A f \in Execs : LocalOK(exec'[f])
      BY <1>12, <1>m, <2>1, Labels, Reasons, MoveType
         DEF MarkAcceptanceUnknown, UpdateDelivery
    <2>4. dbFaults' \in 0..MaxDbFaults
      BY <1>12, DbThrowsType DEF MarkAcceptanceUnknown, UpdateDelivery
    <2> QED
      BY <1>12, <2>2, <2>3, <2>4 DEF MarkAcceptanceUnknown, TypeOK
  <1>13. CASE ParentMarkAcceptanceUnknown(e)
    <2>1. SettledParent("ACCEPTANCE_UNKNOWN") \in ParentRow
      BY <1>key, RowsType DEF ParentStatus
    <2>2. parent' \in ParentRow
      BY <1>13, <1>key, <2>1
         DEF ParentMarkAcceptanceUnknown, UpdateParent, TypeOK
    <2>3. /\ exec' \in [Execs -> LocalState]
          /\ \A f \in Execs : LocalOK(exec'[f])
      BY <1>13, <1>m, <2>1, Labels, Reasons, MoveType
         DEF ParentMarkAcceptanceUnknown, UpdateParent
    <2>4. dbFaults' \in 0..MaxDbFaults
      BY <1>13, DbThrowsType DEF ParentMarkAcceptanceUnknown, UpdateParent
    <2> QED
      BY <1>13, <2>2, <2>3, <2>4 DEF ParentMarkAcceptanceUnknown, TypeOK
  <1>14. CASE MarkFailed(e)
    <2>1. Settled("FAILED", FALSE) \in DeliveryRow
      BY <1>key, RowsType
    <2>2. delivery' \in [Deliveries -> DeliveryRow]
      BY <1>14, <1>key, <2>1 DEF MarkFailed, UpdateDelivery, TypeOK
    <2>3. /\ exec' \in [Execs -> LocalState]
          /\ \A f \in Execs : LocalOK(exec'[f])
      BY <1>14, <1>m, <2>1, Labels, Reasons, MoveType
         DEF MarkFailed, UpdateDelivery
    <2>4. dbFaults' \in 0..MaxDbFaults
      BY <1>14, DbThrowsType DEF MarkFailed, UpdateDelivery
    <2> QED
      BY <1>14, <2>2, <2>3, <2>4 DEF MarkFailed, TypeOK
  <1>15. CASE ParentMarkSent(e)
    <2>1. SettledParent("SENT") \in ParentRow
      BY <1>key, RowsType DEF ParentStatus
    <2>2. parent' \in ParentRow
      BY <1>15, <1>key, <2>1 DEF ParentMarkSent, UpdateParent, TypeOK
    <2>3. /\ exec' \in [Execs -> LocalState]
          /\ \A f \in Execs : LocalOK(exec'[f])
      BY <1>15, <1>m, <2>1, Labels, Reasons, MoveType
         DEF ParentMarkSent, UpdateParent
    <2>4. dbFaults' \in 0..MaxDbFaults
      BY <1>15, DbThrowsType DEF ParentMarkSent, UpdateParent
    <2> QED
      BY <1>15, <2>2, <2>3, <2>4 DEF ParentMarkSent, TypeOK
  <1>16. CASE ParentMarkRetrying(e)
    <2>1. SettledParent("RETRYING") \in ParentRow
      BY <1>key, RowsType DEF ParentStatus
    <2>2. parent' \in ParentRow
      BY <1>16, <1>key, <2>1 DEF ParentMarkRetrying, UpdateParent, TypeOK
    <2>3. /\ exec' \in [Execs -> LocalState]
          /\ \A f \in Execs : LocalOK(exec'[f])
      BY <1>16, <1>m, <2>1, Labels, Reasons, MoveType
         DEF ParentMarkRetrying, UpdateParent
    <2>4. dbFaults' \in 0..MaxDbFaults
      BY <1>16, DbThrowsType DEF ParentMarkRetrying, UpdateParent
    <2> QED
      BY <1>16, <2>2, <2>3, <2>4 DEF ParentMarkRetrying, TypeOK
  <1>17. CASE ParentMarkFailed(e)
    <2>1. SettledParent("FAILED") \in ParentRow
      BY <1>key, RowsType DEF ParentStatus
    <2>2. parent' \in ParentRow
      BY <1>17, <1>key, <2>1 DEF ParentMarkFailed, UpdateParent, TypeOK
    <2>3. /\ exec' \in [Execs -> LocalState]
          /\ \A f \in Execs : LocalOK(exec'[f])
      BY <1>17, <1>m, <2>1, Labels, Reasons, MoveType
         DEF ParentMarkFailed, UpdateParent
    <2>4. dbFaults' \in 0..MaxDbFaults
      BY <1>17, DbThrowsType DEF ParentMarkFailed, UpdateParent
    <2> QED
      BY <1>17, <2>2, <2>3, <2>4 DEF ParentMarkFailed, TypeOK
  <1>18. CASE Return(e)
    <2>1. job' \in [Jobs -> JobRecord] /\ \A j \in Jobs : JobOK(job'[j])
      BY <1>18, <1>key DEF Return, Report, TypeOK, JobRecord, JobState, JobOK
    <2> QED
      BY <1>18, <1>m, <2>1, Labels, MoveType DEF Return, TypeOK, rows, faults
  <1>19. CASE Throw(e)
    <2>1. exec[e].attempt \in 0..MaxAttempts
      BY DEF TypeOK, LocalState
    <2>2. job' \in [Jobs -> JobRecord] /\ \A j \in Jobs : JobOK(job'[j])
      BY <1>19, <1>key, <2>1, Bounds
         DEF Throw, Report, TypeOK, JobRecord, JobState, JobOK
    <2> QED
      BY <1>19, <1>m, <2>2, Labels, MoveType DEF Throw, TypeOK, rows, faults
  <1> QED
    BY <1>1, <1>2, <1>3, <1>4, <1>5, <1>6, <1>7, <1>8, <1>9, <1>10, <1>11,
       <1>12, <1>13, <1>14, <1>15, <1>16, <1>17, <1>18, <1>19 DEF Step

(* The steps of the queue, of time and of a crash.                         *)
LEMMA EnvironmentTypeOK ==
  ASSUME TypeOK, Next, ~\E e \in Execs : Step(e)
  PROVE  TypeOK'
  <1>1. ASSUME NEW e \in Execs, NEW j \in Jobs, PickUp(e, j)
        PROVE  TypeOK'
    <2>1. job[j] \in JobRecord /\ job[j].made + 1 \in 0..MaxAttempts
      BY <1>1, Bounds DEF PickUp, TypeOK, JobRecord, JobOK
    <2> DEFINE x == [pc |-> "createIfMissing", job |-> j,
                     attempt |-> job[j].made + 1, pos |-> 1, why |-> "none"]
    <2>2. Legal(x)
      BY <2>1, Labels, Reasons, ChainsAreKeys DEF Legal, LocalState, LocalOK
    <2>3. /\ exec' \in [Execs -> LocalState]
          /\ \A f \in Execs : LocalOK(exec'[f])
      BY <1>1, <2>2, MoveType DEF PickUp
    <2>4. job' \in [Jobs -> JobRecord] /\ \A k \in Jobs : JobOK(job'[k])
      BY <1>1, <2>1 DEF PickUp, TypeOK, JobRecord, JobState, JobOK
    <2> QED
      BY <1>1, <2>3, <2>4 DEF PickUp, TypeOK, rows, faults
  <1>2. ASSUME NEW e \in Execs, Crash(e)
        PROVE  TypeOK'
    <2>1. Legal(To(e, "crashed"))
      BY <1>2, Labels, MovesLegal DEF Crash, Running
    <2>2. /\ exec' \in [Execs -> LocalState]
          /\ \A f \in Execs : LocalOK(exec'[f])
      BY <1>2, <2>1, MoveType DEF Crash
    <2>3. disruptions' \in 0..MaxDisruptions
      BY <1>2, Bounds DEF Crash, TypeOK
    <2> QED
      BY <1>2, <2>2, <2>3 DEF Crash, TypeOK, rows
  <1>3. ASSUME NEW j \in Jobs, StallOfCrashed(j) \/ StallOfRunning(j)
        PROVE  TypeOK'
    <2>1. job[j] \in JobRecord /\ JobOK(job[j]) /\ job[j].state = "active"
      BY <1>3 DEF StallOfCrashed, StallOfRunning, TypeOK
    <2>2. Requeued(j) \in JobRecord /\ JobOK(Requeued(j))
      BY <2>1, Bounds DEF Requeued, JobRecord, JobState, JobOK
    <2>3. job' \in [Jobs -> JobRecord] /\ \A k \in Jobs : JobOK(job'[k])
      BY <1>3, <2>2 DEF StallOfCrashed, StallOfRunning, TypeOK
    <2>4. disruptions' \in 0..MaxDisruptions
      BY <1>3, Bounds DEF StallOfCrashed, StallOfRunning, TypeOK, faults
    <2> QED
      BY <1>3, <2>3, <2>4 DEF StallOfCrashed, StallOfRunning, TypeOK, rows,
        faults
  <1>4. CASE PrimaryLeaseLapses
    <2>1. parent' \in ParentRow
      BY <1>4 DEF PrimaryLeaseLapses, TypeOK, ParentRow
    <2>2. delivery' \in [Deliveries -> DeliveryRow]
      <3>1. delivery[Primary] \in DeliveryRow
        BY ChainsAreKeys DEF TypeOK
      <3>2. [delivery[Primary] EXCEPT !.expired =
               delivery[Primary].status = "PROCESSING"] \in DeliveryRow
        BY <3>1 DEF DeliveryRow
      <3> QED
        BY <1>4, <3>2 DEF PrimaryLeaseLapses, TypeOK
    <2> QED
      BY <1>4, <2>1, <2>2 DEF PrimaryLeaseLapses, TypeOK, faults
  <1>5. ASSUME NEW d \in Deliveries, DeliveryLeaseLapses(d)
        PROVE  TypeOK'
    <2>1. delivery' \in [Deliveries -> DeliveryRow]
      BY <1>5 DEF DeliveryLeaseLapses, TypeOK, DeliveryRow
    <2> QED
      BY <1>5, <2>1 DEF DeliveryLeaseLapses, TypeOK, faults
  <1> QED
    BY <1>1, <1>2, <1>3, <1>4, <1>5 DEF Next

(* The rows, the queue and the local states stay within their types.       *)
THEOREM TypeCorrect == Spec => []TypeOK
  <1>1. TypeOK /\ [Next]_vars => TypeOK'
    <2>1. CASE UNCHANGED vars
      BY <2>1 DEF TypeOK, vars
    <2> QED
      BY <2>1, StepTypeOK, EnvironmentTypeOK
  <1> QED
    BY <1>1, InitTypeOK, PTL DEF Spec

-----------------------------------------------------------------------------
(* The parent's token and the primary delivery's token.                    *)

(* A write that gives up the primary's token, or settles the parent.       *)
LEMMA PairKept ==
  ASSUME TokensPaired,
         delivery'[Primary].token \in {delivery[Primary].token, None},
         \/ parent'.token = parent.token /\ parent'.status = parent.status
         \/ parent'.status # "PROCESSING"
  PROVE  TokensPaired'
  BY DEF TokensPaired

LEMMA StepPaired ==
  ASSUME TypeOK, TokensPaired, NEW e \in Execs, Step(e)
  PROVE  TokensPaired'
  <1>key. /\ delivery \in [Deliveries -> DeliveryRow]
          /\ Key(e) \in Deliveries /\ (Key(e) = Primary <=> ClaimsParent(e))
    BY StepRuns, KeyType DEF TypeOK
  <1>prim. Primary \in Deliveries
    BY ChainsAreKeys
  <1>1. CASE CreateIfMissing(e)
    <2>1. /\ parent' = parent
          /\ delivery'[Primary].token \in {delivery[Primary].token, None}
      BY <1>1, <1>key, <1>prim DEF CreateIfMissing, UpdateDelivery, Pending
    <2> QED
      BY <2>1, PairKept
  <1>2. CASE GetByDeliveryKey(e)
    BY <1>2, PairKept DEF GetByDeliveryKey
  <1>3. CASE ReconcileSentFromDelivery(e)
    BY <1>3, PairKept
       DEF ReconcileSentFromDelivery, UpdateParent, SettledParent
  <1>4. CASE ClaimPrimaryAttempt(e)
    <2>1. \/ parent' = parent /\ delivery' = delivery
          \/ TakePrimary(e)
      BY <1>4 DEF ClaimPrimaryAttempt, rows
    <2>2. CASE parent' = parent /\ delivery' = delivery
      BY <2>2, PairKept
    <2>3. CASE TakePrimary(e)
      BY <1>key, <1>prim, <2>3 DEF TakePrimary, Taken, TokensPaired
    <2> QED
      BY <2>1, <2>2, <2>3
  <1>5. CASE MarkProcessing(e)
    <2>1. /\ parent' = parent
          /\ delivery'[Primary].token \in {delivery[Primary].token, None}
      BY <1>5, <1>key, <1>prim DEF MarkProcessing, UpdateDelivery
    <2> QED
      BY <2>1, PairKept
  <1>6. CASE MarkProviderSubmissionStarted(e)
    <2>1. /\ parent' = parent
          /\ delivery'[Primary].token \in {delivery[Primary].token, None}
      <3>1. delivery[Key(e)] \in DeliveryRow
        BY <1>key
      <3>2. [delivery[Key(e)] EXCEPT !.started = TRUE].token
              = delivery[Key(e)].token
        BY <3>1 DEF DeliveryRow
      <3> QED
        BY <1>6, <1>key, <1>prim, <3>2
           DEF MarkProviderSubmissionStarted, UpdateDelivery
    <2> QED
      BY <2>1, PairKept
  <1>7. CASE Send(e)
    BY <1>7, PairKept DEF Send
  <1>8. CASE AnswerUncertain(e)
    BY <1>8, PairKept DEF AnswerUncertain
  <1>9. CASE AnswerSuccess(e)
    BY <1>9, PairKept DEF AnswerSuccess
  <1>10. CASE AnswerRejected(e)
    BY <1>10, PairKept DEF AnswerRejected
  <1>11. CASE MarkSent(e)
    <2>1. /\ parent' = parent
          /\ delivery'[Primary].token \in {delivery[Primary].token, None}
      BY <1>11, <1>key, <1>prim DEF MarkSent, UpdateDelivery, Settled
    <2> QED
      BY <2>1, PairKept
  <1>12. CASE MarkAcceptanceUnknown(e)
    <2>1. /\ parent' = parent
          /\ delivery'[Primary].token \in {delivery[Primary].token, None}
      BY <1>12, <1>key, <1>prim
         DEF MarkAcceptanceUnknown, UpdateDelivery, Settled
    <2> QED
      BY <2>1, PairKept
  <1>13. CASE ParentMarkAcceptanceUnknown(e)
    BY <1>13, PairKept
       DEF ParentMarkAcceptanceUnknown, UpdateParent, SettledParent
  <1>14. CASE MarkFailed(e)
    <2>1. /\ parent' = parent
          /\ delivery'[Primary].token \in {delivery[Primary].token, None}
      BY <1>14, <1>key, <1>prim DEF MarkFailed, UpdateDelivery, Settled
    <2> QED
      BY <2>1, PairKept
  <1>15. CASE ParentMarkSent(e)
    BY <1>15, PairKept DEF ParentMarkSent, UpdateParent, SettledParent
  <1>16. CASE ParentMarkRetrying(e)
    BY <1>16, PairKept DEF ParentMarkRetrying, UpdateParent, SettledParent
  <1>17. CASE ParentMarkFailed(e)
    BY <1>17, PairKept DEF ParentMarkFailed, UpdateParent, SettledParent
  <1>18. CASE Return(e)
    BY <1>18, PairKept DEF Return, rows
  <1>19. CASE Throw(e)
    BY <1>19, PairKept DEF Throw, rows
  <1> QED
    BY <1>1, <1>2, <1>3, <1>4, <1>5, <1>6, <1>7, <1>8, <1>9, <1>10, <1>11,
       <1>12, <1>13, <1>14, <1>15, <1>16, <1>17, <1>18, <1>19 DEF Step

(* The owner of the parent owns the primary delivery or has given it up,   *)
(* and nobody else has it: claimPrimaryAttempt takes both rows in one      *)
(* transaction, and no other write moves a token to another attempt.       *)
THEOREM TokensStayPaired == Spec => []TokensPaired
  <1>1. Init => TokensPaired
    BY DEF Init, TokensPaired
  <1>2. TypeOK /\ TokensPaired /\ [Next]_vars => TokensPaired'
    <2> SUFFICES ASSUME TypeOK, TokensPaired, [Next]_vars
                 PROVE  TokensPaired'
      OBVIOUS
    <2>type. /\ delivery \in [Deliveries -> DeliveryRow]
             /\ parent \in ParentRow /\ Primary \in Deliveries
      BY ChainsAreKeys DEF TypeOK
    <2>1. ASSUME NEW e \in Execs, Step(e) PROVE TokensPaired'
      BY <2>1, StepPaired
    <2>2. ASSUME NEW e \in Execs, NEW j \in Jobs, PickUp(e, j)
          PROVE  TokensPaired'
      BY <2>2, PairKept DEF PickUp, rows
    <2>3. ASSUME NEW e \in Execs, Crash(e) PROVE TokensPaired'
      BY <2>3, PairKept DEF Crash, rows
    <2>4. ASSUME NEW j \in Jobs, StallOfCrashed(j) \/ StallOfRunning(j)
          PROVE  TokensPaired'
      BY <2>4, PairKept DEF StallOfCrashed, StallOfRunning, rows
    <2>5. CASE PrimaryLeaseLapses
      BY <2>5, <2>type, PairKept DEF PrimaryLeaseLapses, DeliveryRow, ParentRow
    <2>6. ASSUME NEW d \in Deliveries, DeliveryLeaseLapses(d)
          PROVE  TokensPaired'
      BY <2>6, <2>type, PairKept DEF DeliveryLeaseLapses
    <2>7. CASE UNCHANGED vars
      BY <2>7, PairKept DEF vars
    <2> QED
      BY <2>1, <2>2, <2>3, <2>4, <2>5, <2>6, <2>7 DEF Next
  <1> QED
    BY <1>1, <1>2, TypeCorrect, PTL DEF Spec
-----------------------------------------------------------------------------
(* A step moves one execution, keeps its job, and writes only its own      *)
(* history.                                                                *)
LEMMA StepMoves ==
  ASSUME TypeOK, NEW e \in Execs, Step(e)
  PROVE  /\ \E l, p, w : exec' = [exec EXCEPT ![e] = Move(e, l, p, w)]
         /\ \/ ledger' = ledger
            \/ \E o : ledger' = [ledger EXCEPT ![e][Key(e)] = o]
  <1>1. CASE CreateIfMissing(e)
    BY <1>1 DEF CreateIfMissing, To, UpdateDelivery
  <1>2. CASE GetByDeliveryKey(e)
    BY <1>2 DEF GetByDeliveryKey, To, Unexpected, Infra, ToFail
  <1>3. CASE ReconcileSentFromDelivery(e)
    BY <1>3 DEF ReconcileSentFromDelivery, To, UpdateParent
  <1>4. CASE ClaimPrimaryAttempt(e)
    BY <1>4 DEF ClaimPrimaryAttempt, To, Infra, ToFail
  <1>5. CASE MarkProcessing(e)
    BY <1>5 DEF MarkProcessing, To, UpdateDelivery, Unexpected, Infra, ToFail
  <1>6. CASE MarkProviderSubmissionStarted(e)
    BY <1>6
       DEF MarkProviderSubmissionStarted, To, UpdateDelivery, Infra, ToFail
  <1>7. CASE Send(e)
    BY <1>7 DEF Send, To, faults
  <1>8. CASE AnswerUncertain(e)
    BY <1>8 DEF AnswerUncertain, To, faults
  <1>9. CASE AnswerSuccess(e)
    BY <1>9 DEF AnswerSuccess, To, faults
  <1>10. CASE AnswerRejected(e)
    BY <1>10, ZenonT(90) DEF AnswerRejected, To, faults, AfterRejection, ToFail, ToChannel
  <1>11. CASE MarkSent(e)
    BY <1>11 DEF MarkSent, To, UpdateDelivery
  <1>12. CASE MarkAcceptanceUnknown(e)
    BY <1>12 DEF MarkAcceptanceUnknown, To, UpdateDelivery
  <1>13. CASE ParentMarkAcceptanceUnknown(e)
    BY <1>13 DEF ParentMarkAcceptanceUnknown, To, UpdateParent
  <1>14. CASE MarkFailed(e)
    <2>1. \E l, p, w : AfterFailed(e) = Move(e, l, p, w)
      BY DEF AfterFailed, NextChannel, To, ToChannel
    <2>2. \/ exec' = [exec EXCEPT ![e] = AfterFailed(e)]
          \/ exec' = [exec EXCEPT ![e] = To(e, "throw")]
          \/ exec' = [exec EXCEPT ![e] = ToFail(e, "error")]
      BY <1>14 DEF MarkFailed, UpdateDelivery
    <2>3. ledger' = ledger
      BY <1>14 DEF MarkFailed
    <2> QED
      BY <2>1, <2>2, <2>3 DEF To, ToFail
  <1>15. CASE ParentMarkSent(e)
    BY <1>15 DEF ParentMarkSent, To, UpdateParent, Unexpected, Infra, ToFail
  <1>16. CASE ParentMarkRetrying(e)
    BY <1>16 DEF ParentMarkRetrying, To, UpdateParent
  <1>17. CASE ParentMarkFailed(e)
    BY <1>17 DEF ParentMarkFailed, To, UpdateParent
  <1>18. CASE Return(e)
    BY <1>18 DEF Return, To, faults
  <1>19. CASE Throw(e)
    BY <1>19 DEF Throw, To, faults
  <1> QED
    BY <1>1, <1>2, <1>3, <1>4, <1>5, <1>6, <1>7, <1>8, <1>9,
        <1>10, <1>11, <1>12, <1>13, <1>14, <1>15, <1>16, <1>17, <1>18, <1>19
       DEF Step

LEMMA StepFrame ==
  ASSUME TypeOK, NEW e \in Execs, Step(e)
  PROVE  /\ \A f \in Execs : f # e =>
              exec'[f] = exec[f] /\ ledger'[f] = ledger[f]
         /\ exec'[e].job = exec[e].job
         /\ \A d \in Deliveries : d # Key(e) => ledger'[e][d] = ledger[e][d]
  <1>1. /\ exec \in [Execs -> LocalState]
        /\ ledger \in [Execs -> [Deliveries -> Outcome]]
        /\ Key(e) \in Deliveries
    BY StepRuns, KeyType DEF TypeOK
  <1>2. PICK l, p, w : exec' = [exec EXCEPT ![e] = Move(e, l, p, w)]
    BY StepMoves
  <1>3. \/ ledger' = ledger
        \/ \E o : ledger' = [ledger EXCEPT ![e][Key(e)] = o]
    BY StepMoves
  <1> QED
    BY <1>1, <1>2, <1>3 DEF Move

-----------------------------------------------------------------------------
(* The history of the moving execution.                                    *)

(* A move that only changes the label.                                     *)
LEMMA FollowsTo ==
  ASSUME TypeOK, NEW e \in Execs, LedgerFollows(e), exec[e].pc # "idle",
         NEW l \in Label, l # "idle",
         exec'[e] = To(e, l), ledger' = ledger,
         l \in BeforeSend => exec[e].pc \in BeforeSend,
         exec[e].why # "none" => l \in Failing,
         l \in {"inflight", "markAcceptanceUnknown"} => Open(e, Key(e)),
         l = "markSent" => ledger[e][Key(e)] = "accepted",
         l \in ParentWrites => ~IsReplay(e)
  PROVE  LedgerFollows(e)'
  <1>1. /\ exec'[e].pc = l /\ exec'[e].pos = exec[e].pos
        /\ exec'[e].job = exec[e].job /\ exec'[e].why = exec[e].why
    BY DEF To, Move
  <1>2. Key(e)' = Key(e) /\ (InFallback(e)' <=> InFallback(e))
        /\ (IsReplay(e)' <=> IsReplay(e))
    BY <1>1 DEF Key, InFallback, IsReplay
  <1> QED
    BY <1>1, <1>2 DEF LedgerFollows, At, Open

(* A definite rejection, or no news, of the execution's own call.          *)
OwnCallClosed(e) ==
  \/ ledger' = ledger
  \/ /\ ledger'[e][Key(e)] = "rejected"
     /\ \A d \in Deliveries : d # Key(e) => ledger'[e][d] = ledger[e][d]

(* The keys of a chain differ: another position has another key.           *)
LEMMA OtherKey ==
  ASSUME TypeOK, NEW e \in Execs, exec[e].pc # "idle",
         NEW k \in 1..Len(Chain[exec[e].job]), k # exec[e].pos
  PROVE  /\ Chain[exec[e].job][k] \in Deliveries
         /\ Chain[exec[e].job][k] # Key(e)
  BY KeyType, KeysAreDistinct DEF Key

(* In the fallback the first channel stays closed: the call is another's.  *)
LEMMA FirstStaysClosed ==
  ASSUME TypeOK, NEW e \in Execs, LedgerFollows(e), exec[e].pc # "idle",
         InFallback(e), OwnCallClosed(e)
  PROVE  ledger'[e][Chain[exec[e].job][1]] \notin {"accepted", "dropped"}
  <1> DEFINE first == Chain[exec[e].job][1]
  <1>1. 1 \in 1..Len(Chain[exec[e].job]) /\ exec[e].pos # 1
    BY KeyType DEF InFallback
  <1>2. first \in Deliveries /\ first # Key(e)
    BY <1>1, OtherKey
  <1>3. ~At(e, "idle")
    BY DEF At
  <1>4. ~Open(e, first)
    BY <1>3 DEF LedgerFollows
  <1> HIDE DEF first
  <1>5. ledger'[e][first] = ledger[e][first]
    BY <1>2 DEF OwnCallClosed
  <1> QED
    BY <1>4, <1>5 DEF Open, first

(* What leaves an execution and its calls alone.                           *)
LEMMA SameLedger ==
  ASSUME NEW e \in Execs, LedgerFollows(e), exec'[e] = exec[e], ledger' = ledger
  PROVE  LedgerFollows(e)'
  <1>1. Key(e)' = Key(e) /\ (InFallback(e)' <=> InFallback(e))
    BY DEF Key, InFallback
  <1>2. /\ At(e, "idle")' <=> At(e, "idle")
        /\ At(e, "markSent")' <=> At(e, "markSent")
    BY DEF At
  <1>3. \A d \in Deliveries : ledger'[e][d] = ledger[e][d]
    OBVIOUS
  <1>4. ~At(e, "idle") /\ exec[e].why # "terminal" =>
          \A k \in 1..Len(Chain[exec[e].job]) :
            k > exec[e].pos \/ (k = exec[e].pos /\ exec[e].pc \in BeforeSend) =>
              ledger[e][Chain[exec[e].job][k]] = "none"
    BY DEF LedgerFollows
  <1>5. /\ Open(e, Key(e))' <=> Open(e, Key(e))
        /\ Open(e, Chain[exec[e].job][1])' <=> Open(e, Chain[exec[e].job][1])
    BY <1>1 DEF Open
  <1>6. IsReplay(e)' <=> IsReplay(e)
    BY DEF IsReplay
  <1> QED
    BY <1>1, <1>2, <1>4, <1>5, <1>6 DEF LedgerFollows

(* A move to the recording of a failure.                                   *)
LEMMA FollowsToFail ==
  ASSUME TypeOK, NEW e \in Execs, LedgerFollows(e), exec[e].pc # "idle",
         NEW w \in Reason, exec[e].why # "terminal",
         exec'[e] = ToFail(e, w), OwnCallClosed(e),
         w \in {"refused", "error"} => InFallback(e)
  PROVE  LedgerFollows(e)'
  <1>1. /\ exec[e].pos \in Nat /\ exec[e].pos \in 1..Len(Chain[exec[e].job])
        /\ Len(Chain[exec[e].job]) \in Nat /\ exec[e].job \in Jobs
    BY KeyType
  <1>2. /\ exec'[e].pc = "markFailed" /\ exec'[e].pos = exec[e].pos
        /\ exec'[e].job = exec[e].job /\ exec'[e].why = w
    BY DEF ToFail, Move
  <1>3. \A k \in 1..Len(Chain[exec[e].job]) : k > exec[e].pos =>
          ledger'[e][Chain[exec[e].job][k]] = "none"
    BY <1>1, OtherKey DEF LedgerFollows, At, OwnCallClosed
  <1>4. InFallback(e) => ~Open(e, Chain[exec[e].job][1])'
    BY <1>2, FirstStaysClosed DEF Open
  <1> QED
    BY <1>1, <1>2, <1>3, <1>4
       DEF LedgerFollows, At, InFallback, BeforeSend, Failing, ParentWrites

(* A move to the next channel, which nobody was asked for yet.             *)
LEMMA FollowsToChannel ==
  ASSUME TypeOK, NEW e \in Execs, LedgerFollows(e), exec[e].pc # "idle",
         exec[e].why # "terminal", HasFallback(e),
         exec'[e] = ToChannel(e, exec[e].pos + 1), OwnCallClosed(e),
         exec[e].pos = 1 => ledger'[e][Key(e)] = "rejected"
  PROVE  LedgerFollows(e)'
  <1>1. /\ exec[e].pos \in Nat /\ exec[e].pos \in 1..Len(Chain[exec[e].job])
        /\ Len(Chain[exec[e].job]) \in Nat /\ exec[e].job \in Jobs
    BY KeyType
  <1>2. /\ exec'[e].pc = "createIfMissing" /\ exec'[e].pos = exec[e].pos + 1
        /\ exec'[e].job = exec[e].job /\ exec'[e].why = "none"
    BY DEF ToChannel, Move
  <1>3. \A k \in 1..Len(Chain[exec[e].job]) : k > exec[e].pos =>
          ledger'[e][Chain[exec[e].job][k]] = "none"
    BY <1>1, OtherKey DEF LedgerFollows, At, OwnCallClosed
  <1>4. ~Open(e, Chain[exec[e].job][1])'
    <2>1. CASE exec[e].pos = 1
      BY <1>2, <2>1 DEF Open, Key
    <2>2. CASE exec[e].pos # 1
      <3>1. InFallback(e)
        BY <1>1, <2>2 DEF InFallback
      <3> QED
        BY <1>2, <3>1, FirstStaysClosed DEF Open
    <2> QED
      BY <2>1, <2>2
  <1>5. \A k \in 1..Len(Chain[exec'[e].job]) :
          k > exec'[e].pos \/ (k = exec'[e].pos /\ exec'[e].pc \in BeforeSend) =>
            ledger'[e][Chain[exec'[e].job][k]] = "none"
    BY <1>1, <1>2, <1>3, SMTT(30)
  <1> QED
    BY <1>2, <1>4, <1>5
       DEF LedgerFollows, At, InFallback, Failing, ParentWrites

LEMMA StepFollows ==
  ASSUME TypeOK, NEW e \in Execs, LedgerFollows(e), Step(e)
  PROVE  LedgerFollows(e)'
  <1>key. /\ exec[e].pc # "idle" /\ exec[e].job \in Jobs
          /\ Key(e) \in Deliveries
          /\ Key(e) = Primary <=> ClaimsParent(e)
          /\ exec \in [Execs -> LocalState]
          /\ ledger \in [Execs -> [Deliveries -> Outcome]]
          /\ exec[e].why \in Reason
    BY StepRuns, KeyType DEF TypeOK, LocalState
  <1>why. exec[e].why # "none" => exec[e].pc \in Failing
    BY DEF LedgerFollows
  <1>1. CASE CreateIfMissing(e)
    <2>1. ledger' = ledger /\ exec[e].why = "none"
          /\ \E l \in {"getByDeliveryKey", "throw"} : exec'[e] = To(e, l)
      BY <1>1, <1>key, <1>why DEF CreateIfMissing, UpdateDelivery, At, Failing
    <2> QED
      BY <1>1, <1>key, <2>1, FollowsTo, Labels
         DEF CreateIfMissing, At, BeforeSend, Failing, ParentWrites
  <1>2. CASE GetByDeliveryKey(e)
    <2>1. ledger' = ledger /\ exec[e].why = "none"
          /\ \/ exec'[e] = ToFail(e, "infra")
             \/ \E l \in {"claim", "throw", "parentMarkSent", "return",
                          "reconcile"} :
                  exec'[e] = To(e, l) /\ (l \in ParentWrites => ~IsReplay(e))
      <3>1. InFallback(e) => ~IsReplay(e)
        BY <1>key, KeyType, KeysAreDistinct DEF InFallback, IsReplay
      <3> QED
        BY <1>2, <1>key, <1>why, <3>1 DEF GetByDeliveryKey, AfterRead,
          Unexpected, Infra, At, Failing, ParentWrites
    <2> QED
      BY <1>2, <1>key, <2>1, FollowsTo, FollowsToFail, Labels, Reasons
         DEF GetByDeliveryKey, At, BeforeSend, Failing, ParentWrites,
             OwnCallClosed
  <1>3. CASE ReconcileSentFromDelivery(e)
    <2>1. ledger' = ledger /\ exec[e].why = "none"
          /\ exec'[e] = To(e, "return")
      BY <1>3, <1>key, <1>why
         DEF ReconcileSentFromDelivery, UpdateParent, At, Failing
    <2> QED
      BY <1>key, <2>1, FollowsTo, Labels
         DEF BeforeSend, Failing, ParentWrites
  <1>4. CASE ClaimPrimaryAttempt(e)
    <2>1. ledger' = ledger /\ exec[e].why = "none" /\ exec[e].pc = "claim"
          /\ \/ exec'[e] = ToFail(e, "infra")
             \/ \E l \in {"markProviderSubmissionStarted", "throw"} :
                  exec'[e] = To(e, l)
      BY <1>4, <1>key, <1>why DEF ClaimPrimaryAttempt, Infra, At, Failing
    <2> QED
      BY <1>key, <2>1, FollowsTo, FollowsToFail, Labels, Reasons
         DEF BeforeSend, Failing, ParentWrites, OwnCallClosed
  <1>5. CASE MarkProcessing(e)
    <2>1. ledger' = ledger /\ exec[e].why = "none" /\ exec[e].pc = "claim"
          /\ \/ exec'[e] = ToFail(e, "infra")
             \/ \E l \in {"markProviderSubmissionStarted", "throw"} :
                  exec'[e] = To(e, l)
      BY <1>5, <1>key, <1>why
         DEF MarkProcessing, UpdateDelivery, Unexpected, Infra, At, Failing
    <2> QED
      BY <1>key, <2>1, FollowsTo, FollowsToFail, Labels, Reasons
         DEF BeforeSend, Failing, ParentWrites, OwnCallClosed
  <1>6. CASE MarkProviderSubmissionStarted(e)
    <2>1. ledger' = ledger /\ exec[e].why = "none"
          /\ exec[e].pc = "markProviderSubmissionStarted"
          /\ \/ \E w \in {"infra", "error"} :
                  exec'[e] = ToFail(e, w) /\ (w = "error" => InFallback(e))
             \/ \E l \in {"send", "throw"} : exec'[e] = To(e, l)
      BY <1>6, <1>key, <1>why
         DEF MarkProviderSubmissionStarted, UpdateDelivery, Infra, At, Failing
    <2> QED
      BY <1>key, <2>1, FollowsTo, FollowsToFail, Labels, Reasons
         DEF BeforeSend, Failing, ParentWrites, OwnCallClosed
  <1>7. CASE Send(e)
    <2>1. /\ exec'[e] = To(e, "inflight")
          /\ ledger'[e][Key(e)] \in {"accepted", "dropped"}
          /\ \A d \in Deliveries : d # Key(e) => ledger'[e][d] = ledger[e][d]
          /\ exec[e].pc = "send" /\ exec[e].why = "none"
      BY <1>7, <1>key, <1>why DEF Send, At, Failing
    <2>2. /\ exec'[e].pc = "inflight" /\ exec'[e].pos = exec[e].pos
          /\ exec'[e].job = exec[e].job /\ exec'[e].why = "none"
      BY <2>1 DEF To, Move
    <2>3. /\ exec[e].pos \in Nat /\ exec[e].pos \in 1..Len(Chain[exec[e].job])
          /\ Len(Chain[exec[e].job]) \in Nat
      BY <1>key, KeyType
    <2>4. \A k \in 1..Len(Chain[exec[e].job]) : k > exec[e].pos =>
            ledger'[e][Chain[exec[e].job][k]] = "none"
      BY <1>key, <2>1, <2>3, OtherKey DEF LedgerFollows, At
    <2>5. InFallback(e) => ~Open(e, Chain[exec[e].job][1])'
      BY <1>key, <2>1, <2>2, <2>3, OtherKey
         DEF LedgerFollows, At, InFallback, Open
    <2>6. Open(e, Key(e))'
      BY <2>1, <2>2 DEF Open, Key
    <2> QED
      BY <2>2, <2>3, <2>4, <2>5, <2>6
         DEF LedgerFollows, At, InFallback, BeforeSend, Failing, ParentWrites
  <1>8. CASE AnswerUncertain(e)
    <2>1. ledger' = ledger /\ exec[e].why = "none" /\ exec[e].pc = "inflight"
          /\ exec'[e] = To(e, "markAcceptanceUnknown") /\ Open(e, Key(e))
      BY <1>8, <1>key, <1>why DEF AnswerUncertain, At, Failing, LedgerFollows
    <2> QED
      BY <1>key, <2>1, FollowsTo, Labels
         DEF BeforeSend, Failing, ParentWrites
  <1>9. CASE AnswerSuccess(e)
    <2>1. ledger' = ledger /\ exec[e].why = "none" /\ exec[e].pc = "inflight"
          /\ exec'[e] = To(e, "markSent") /\ ledger[e][Key(e)] = "accepted"
      BY <1>9, <1>key, <1>why DEF AnswerSuccess, At, Failing
    <2> QED
      BY <1>key, <2>1, FollowsTo, Labels
         DEF BeforeSend, Failing, ParentWrites
  <1>10. CASE AnswerRejected(e)
    <2>1. /\ exec[e].why = "none" /\ exec[e].pc = "inflight"
          /\ ledger'[e][Key(e)] = "rejected"
          /\ \A d \in Deliveries : d # Key(e) => ledger'[e][d] = ledger[e][d]
      BY <1>10, <1>key, <1>why DEF AnswerRejected, At, Failing
    <2>2. OwnCallClosed(e)
      BY <2>1 DEF OwnCallClosed
    <2>3. PICK r \in BOOLEAN : exec'[e] = AfterRejection(e, r)
      BY <1>10, <1>key DEF AnswerRejected
    <2>4. CASE InFallback(e)
      <3>1. exec'[e] = ToFail(e, "refused")
        BY <2>3, <2>4 DEF AfterRejection
      <3> QED
        BY <1>key, <2>1, <2>2, <2>4, <3>1, FollowsToFail, Reasons
    <2>5. CASE ~InFallback(e) /\ ShouldRetry(e, r)
      <3>1. exec'[e] = ToFail(e, "retry")
        BY <2>3, <2>5 DEF AfterRejection
      <3> QED
        BY <1>key, <2>1, <2>2, <3>1, FollowsToFail, Reasons
    <2>6. CASE ~InFallback(e) /\ ~ShouldRetry(e, r) /\ ~HasFallback(e)
      <3>1. exec'[e] = ToFail(e, "terminal")
        BY <2>3, <2>6 DEF AfterRejection
      <3> QED
        BY <1>key, <2>1, <2>2, <3>1, FollowsToFail, Reasons
    <2>7. CASE ~InFallback(e) /\ ~ShouldRetry(e, r) /\ HasFallback(e)
      <3>1. exec'[e] = ToChannel(e, 2)
        BY <2>3, <2>7 DEF AfterRejection
      <3>2. exec[e].pos + 1 = 2
        BY <1>key, <2>7, KeyType DEF InFallback
      <3> QED
        BY <1>key, <2>1, <2>2, <2>7, <3>1, <3>2, FollowsToChannel
    <2> QED
      BY <2>4, <2>5, <2>6, <2>7
  <1>11. CASE MarkSent(e)
    <2>1. ledger' = ledger /\ exec[e].why = "none"
          /\ exec[e].pc = "markSent" /\ ledger[e][Key(e)] = "accepted"
          /\ \E l \in {"return", "parentMarkSent", "throw",
                       "markAcceptanceUnknown"} :
               exec'[e] = To(e, l) /\ (l = "parentMarkSent" => ~IsReplay(e))
      BY <1>11, <1>key, <1>why
         DEF MarkSent, UpdateDelivery, At, Failing, LedgerFollows
    <2> QED
      BY <1>key, <2>1, FollowsTo, Labels
         DEF BeforeSend, Failing, ParentWrites, Open
  <1>12. CASE MarkAcceptanceUnknown(e)
    <2>1. ledger' = ledger /\ exec[e].why = "none"
          /\ exec[e].pc = "markAcceptanceUnknown"
          /\ \E l \in {"return", "parentMarkUnknown"} :
               exec'[e] = To(e, l) /\ (l = "parentMarkUnknown" => ~IsReplay(e))
      <3>1. InFallback(e) => ~IsReplay(e)
        BY <1>key, KeyType, KeysAreDistinct DEF InFallback, IsReplay
      <3> QED
        BY <1>12, <1>key, <1>why, <3>1
           DEF MarkAcceptanceUnknown, UpdateDelivery, At, Failing
    <2> QED
      BY <1>key, <2>1, FollowsTo, Labels
         DEF BeforeSend, Failing, ParentWrites
  <1>13. CASE ParentMarkAcceptanceUnknown(e)
    <2>1. ledger' = ledger /\ exec'[e] = To(e, "return")
      BY <1>13, <1>key DEF ParentMarkAcceptanceUnknown, UpdateParent
    <2> QED
      BY <1>key, <2>1, FollowsTo, Labels
         DEF BeforeSend, Failing, ParentWrites
  <1>14. CASE MarkFailed(e)
    <2>1. ledger' = ledger /\ exec[e].pc = "markFailed"
      BY <1>14 DEF MarkFailed, At
    <2>2. \/ exec'[e] = To(e, "throw")
          \/ exec'[e] = AfterFailed(e)
          \/ exec'[e] = ToFail(e, "error") /\ exec[e].why = "refused"
      BY <1>14, <1>key DEF MarkFailed, UpdateDelivery
    <2>3. CASE exec'[e] = To(e, "throw")
      BY <1>key, <2>1, <2>3, FollowsTo, Labels
         DEF BeforeSend, Failing, ParentWrites
    <2>4. CASE exec'[e] = ToFail(e, "error") /\ exec[e].why = "refused"
      <3>1. InFallback(e)
        BY <2>4 DEF LedgerFollows
      <3> QED
        BY <1>key, <2>1, <2>4, <3>1, FollowsToFail, Reasons DEF OwnCallClosed
    <2>5. CASE exec'[e] = AfterFailed(e)
      <3>1. CASE exec[e].why \in {"refused", "error"} /\ HasFallback(e)
        <4>1. exec[e].pos # 1
          BY <3>1 DEF LedgerFollows, InFallback
        <4>2. exec'[e] = ToChannel(e, exec[e].pos + 1)
          BY <2>5, <3>1 DEF AfterFailed, NextChannel
        <4> QED
          BY <1>key, <2>1, <3>1, <4>1, <4>2, FollowsToChannel DEF OwnCallClosed
      <3>2. CASE exec[e].why \in {"refused", "error"} /\ ~HasFallback(e)
        <4>1. exec'[e] = Move(e, "markFailed", 1, "terminal")
          BY <2>5, <3>2 DEF AfterFailed, NextChannel
        <4> QED
          BY <4>1
             DEF LedgerFollows, Move, At, InFallback, Failing, ParentWrites
      <3>3. CASE exec[e].why \notin {"refused", "error"}
        <4>1. \E l \in {"return", "throw", "parentMarkRetrying",
                        "parentMarkFailed"} :
                exec'[e] = To(e, l) /\ (l \in ParentWrites => ~IsReplay(e))
          <5>1. CASE IsReplay(e)
            BY <1>key, <2>5, <3>3, <5>1
               DEF AfterFailed, NextChannel, ParentWrites
          <5>2. CASE ~IsReplay(e)
            BY <1>key, <2>5, <3>3, <5>2 DEF AfterFailed, NextChannel, Reason
          <5> QED
            BY <5>1, <5>2
        <4> QED
          BY <1>key, <2>1, <4>1, FollowsTo, Labels
             DEF BeforeSend, Failing, ParentWrites
      <3> QED
        BY <3>1, <3>2, <3>3
    <2> QED
      BY <2>2, <2>3, <2>4, <2>5
  <1>15. CASE ParentMarkSent(e)
    <2>1. ledger' = ledger /\ exec[e].why = "none"
          /\ exec[e].pc = "parentMarkSent"
          /\ \/ exec'[e] = ToFail(e, "infra")
             \/ \E l \in {"return", "throw"} : exec'[e] = To(e, l)
      BY <1>15, <1>key, <1>why
         DEF ParentMarkSent, UpdateParent, Unexpected, Infra, At, Failing
    <2> QED
      BY <1>key, <2>1, FollowsTo, FollowsToFail, Labels, Reasons
         DEF BeforeSend, Failing, ParentWrites, OwnCallClosed
  <1>16. CASE ParentMarkRetrying(e)
    <2>1. ledger' = ledger /\ exec'[e] = To(e, "throw")
      BY <1>16, <1>key DEF ParentMarkRetrying, UpdateParent
    <2> QED
      BY <1>key, <2>1, FollowsTo, Labels
         DEF BeforeSend, Failing, ParentWrites
  <1>17. CASE ParentMarkFailed(e)
    <2>1. ledger' = ledger
          /\ \E l \in {"return", "throw"} : exec'[e] = To(e, l)
      BY <1>17, <1>key DEF ParentMarkFailed, UpdateParent
    <2> QED
      BY <1>key, <2>1, FollowsTo, Labels
         DEF BeforeSend, Failing, ParentWrites
  <1>18. CASE Return(e)
    <2>1. ledger' = ledger /\ exec'[e] = To(e, "done")
      BY <1>18, <1>key DEF Return, faults
    <2> QED
      BY <1>key, <2>1, FollowsTo, Labels
         DEF BeforeSend, Failing, ParentWrites
  <1>19. CASE Throw(e)
    <2>1. ledger' = ledger /\ exec'[e] = To(e, "done")
      BY <1>19, <1>key DEF Throw, faults
    <2> QED
      BY <1>key, <2>1, FollowsTo, Labels
         DEF BeforeSend, Failing, ParentWrites
  <1> QED
    BY <1>1, <1>2, <1>3, <1>4, <1>5, <1>6, <1>7, <1>8, <1>9,
        <1>10, <1>11,
       <1>12, <1>13, <1>14, <1>15, <1>16, <1>17, <1>18, <1>19 DEF Step

-----------------------------------------------------------------------------
(* The submission marker of one row.                                       *)

Stopped == {"throw", "done", "crashed"}

(* What a step may do to a row, and to an execution's bearing on it,       *)
(* without touching the marker's invariant.                                *)
Frozen(d) ==
  /\ delivery'[d].status = delivery[d].status
  /\ delivery'[d].token = delivery[d].token
  /\ delivery'[d].started = delivery[d].started
Calm(e, d) ==
  /\ Marked(e, d)' => Marked(e, d)
  /\ Open(e, d)' => Engaged(e, d)
  /\ Blocked(e, d) => Blocked(e, d)'
  /\ (At(e, "markFailed") /\ Key(e) = d)' /\ OwnsDelivery(e, d) => ~Open(e, d)'

LEMMA QuietRow ==
  ASSUME NEW d \in Deliveries, MarkerInv(d), Frozen(d),
         \A e \in Execs : Calm(e, d)
  PROVE  MarkerInv(d)'
  <1> SUFFICES ASSUME MarkerHolds(d) PROVE MarkerInv(d)'
    BY DEF MarkerInv, MarkerHolds
  <1>1. \A e \in Execs : OwnsDelivery(e, d)' <=> OwnsDelivery(e, d)
    BY DEF Frozen, OwnsDelivery
  <1>2. \A e \in Execs : Engaged(e, d)' => Engaged(e, d)
    BY DEF Calm, Engaged
  <1>0. Kept(d) => Kept(d)'
    BY DEF Frozen, Kept
  <1>3. \A e \in Execs : Marked(e, d)' => (delivery[d].started /\ Kept(d))'
    BY <1>0 DEF Calm, Frozen, MarkerInv
  <1>4. \A e \in Execs : Open(e, d)' =>
          \/ delivery'[d].status = "SENT"
          \/ /\ delivery'[d].started
             /\ Kept(d)' \/ delivery'[d].status = "ACCEPTANCE_UNKNOWN"
    BY <1>0 DEF Calm, Frozen, MarkerInv, Engaged
  <1>5. \A e, f \in Execs : Engaged(e, d)' /\ Engaged(f, d)' => e = f
    BY <1>2 DEF MarkerInv
  <1>6. \A e, f \in Execs :
          OwnsDelivery(e, d)' /\ Engaged(f, d)' => e = f \/ Blocked(e, d)'
    BY <1>1, <1>2 DEF MarkerInv, Calm
  <1>7. \A e \in Execs :
          (At(e, "markFailed") /\ Key(e) = d /\ OwnsDelivery(e, d))' =>
            ~Open(e, d)'
    BY <1>1 DEF Calm
  <1> QED
    BY <1>3, <1>4, <1>5, <1>6, <1>7 DEF MarkerInv

LEMMA EmptyRow ==
  ASSUME NEW d \in Deliveries, \A e \in Execs : ~Engaged(e, d)'
  PROVE  MarkerInv(d)'
  BY DEF MarkerInv, Engaged

(* An execution that did not move.                                         *)
LEMMA StillCalm ==
  ASSUME NEW d \in Deliveries, MarkerInv(d), MarkerHolds(d),
         NEW f \in Execs, exec'[f] = exec[f], ledger'[f] = ledger[f]
  PROVE  /\ Calm(f, d)
         /\ Engaged(f, d)' <=> Engaged(f, d)
         /\ Marked(f, d)' <=> Marked(f, d)
         /\ Open(f, d)' <=> Open(f, d)
  <1>1. Key(f)' = Key(f)
    BY DEF Key
  <1> QED
    BY <1>1 DEF Calm, Marked, Open, Engaged, Blocked, At, MarkerInv

(* An execution that moved without calling or hearing from the provider.   *)
LEMMA CalmMove ==
  ASSUME NEW d \in Deliveries, NEW e \in Execs,
         ledger'[e] = ledger[e], exec'[e].pc # "send",
         exec[e].pc \in Stopped => exec'[e].pc \in Stopped,
         exec[e].pc = "markProviderSubmissionStarted" =>
           d # Primary \/ exec'[e].pc \in Stopped,
         exec'[e].pc = "markFailed" => ~OwnsDelivery(e, d) \/ ~Open(e, d)
  PROVE  Calm(e, d)
  BY DEF Calm, Marked, Open, Engaged, Blocked, At, Stopped

(* Where a step can lead, and the one row it can write.                    *)
LEMMA StepShape ==
  ASSUME TypeOK, NEW e \in Execs, Step(e), LedgerFollows(e)
  PROVE  /\ exec[e].pc \in Stopped => exec'[e].pc \in Stopped
         /\ exec'[e].pc = "send" => exec'[e].pos = exec[e].pos
         /\ exec'[e].pc = "markFailed" =>
              \/ exec'[e].pos = exec[e].pos
              \/ exec'[e].pos = 1 /\ InFallback(e)
         /\ \A d \in Deliveries : d # Key(e) => delivery'[d] = delivery[d]
  <1>key. /\ exec \in [Execs -> LocalState]
          /\ delivery \in [Deliveries -> DeliveryRow]
          /\ Key(e) \in Deliveries /\ (ClaimsParent(e) => Key(e) = Primary)
    BY StepRuns, KeyType DEF TypeOK
  <1>1. CASE CreateIfMissing(e)
    BY <1>1, <1>key DEF CreateIfMissing, At, Stopped, To, Move, UpdateDelivery
  <1>2. CASE GetByDeliveryKey(e)
    BY <1>2, <1>key
       DEF GetByDeliveryKey, At, Stopped, To, Move, Unexpected, Infra,
           ToFail, AfterRead
  <1>3. CASE ReconcileSentFromDelivery(e)
    BY <1>3, <1>key
       DEF ReconcileSentFromDelivery, At, Stopped, To, Move, UpdateParent
  <1>4. CASE ClaimPrimaryAttempt(e)
    BY <1>4, <1>key
       DEF ClaimPrimaryAttempt, At, Stopped, To, Move, Infra, ToFail, rows,
           TakePrimary
  <1>5. CASE MarkProcessing(e)
    BY <1>5, <1>key
       DEF MarkProcessing, At, Stopped, To, Move, UpdateDelivery, Unexpected,
           Infra, ToFail
  <1>6. CASE MarkProviderSubmissionStarted(e)
    BY <1>6, <1>key
       DEF MarkProviderSubmissionStarted, At, Stopped, To, Move,
           UpdateDelivery, Infra, ToFail
  <1>7. CASE Send(e)
    BY <1>7, <1>key DEF Send, At, Stopped, To, Move, faults
  <1>8. CASE AnswerUncertain(e)
    BY <1>8, <1>key DEF AnswerUncertain, At, Stopped, To, Move, faults
  <1>9. CASE AnswerSuccess(e)
    BY <1>9, <1>key DEF AnswerSuccess, At, Stopped, To, Move, faults
  <1>10. CASE AnswerRejected(e)
    <2>1. /\ delivery' = delivery /\ exec[e].pc = "inflight"
          /\ \E r \in BOOLEAN : exec'[e] = AfterRejection(e, r)
      BY <1>10, <1>key DEF AnswerRejected, At
    <2>2. \/ \E w : exec'[e] = ToFail(e, w)
          \/ exec'[e] = ToChannel(e, 2)
      BY <2>1 DEF AfterRejection
    <2> QED
      BY <2>1, <2>2 DEF ToFail, ToChannel, Move, Stopped
  <1>11. CASE MarkSent(e)
    <2>1. /\ exec[e].pc \notin Stopped
          /\ \E l \in {"return", "parentMarkSent", "throw",
                      "markAcceptanceUnknown"} :
               exec'[e] = To(e, l)
      BY <1>11, <1>key DEF MarkSent, UpdateDelivery, At, Stopped
    <2>2. \A d \in Deliveries : d # Key(e) => delivery'[d] = delivery[d]
      BY <1>11, <1>key DEF MarkSent, UpdateDelivery
    <2> QED
      BY <2>1, <2>2 DEF To, Move
  <1>12. CASE MarkAcceptanceUnknown(e)
    <2>1. /\ exec[e].pc \notin Stopped
          /\ \E l \in {"return", "parentMarkUnknown"} :
               exec'[e] = To(e, l)
      BY <1>12, <1>key DEF MarkAcceptanceUnknown, UpdateDelivery, At, Stopped
    <2>2. \A d \in Deliveries : d # Key(e) => delivery'[d] = delivery[d]
      BY <1>12, <1>key DEF MarkAcceptanceUnknown, UpdateDelivery
    <2> QED
      BY <2>1, <2>2 DEF To, Move
  <1>13. CASE ParentMarkAcceptanceUnknown(e)
    BY <1>13, <1>key
       DEF ParentMarkAcceptanceUnknown, At, Stopped, To, Move, UpdateParent
  <1>14. CASE MarkFailed(e)
    <2>1. \/ exec'[e] = AfterFailed(e)
          \/ exec'[e] = To(e, "throw")
          \/ exec'[e] = ToFail(e, "error")
      BY <1>14, <1>key DEF MarkFailed, UpdateDelivery
    <2>2. \A d \in Deliveries : d # Key(e) => delivery'[d] = delivery[d]
      BY <1>14, <1>key DEF MarkFailed, UpdateDelivery
    <2>3. exec[e].pc = "markFailed"
      BY <1>14 DEF MarkFailed, At
    <2>4. CASE exec'[e] = AfterFailed(e)
      <3>1. exec[e].why \in {"refused", "error"} => InFallback(e)
        BY DEF LedgerFollows
      <3> QED
        BY <2>2, <2>3, <2>4, <3>1
           DEF AfterFailed, NextChannel, To, Move, ToChannel, Stopped
    <2>5. CASE exec'[e] = To(e, "throw") \/ exec'[e] = ToFail(e, "error")
      BY <2>2, <2>3, <2>5 DEF To, ToFail, Move, Stopped
    <2> QED
      BY <2>1, <2>4, <2>5
  <1>15. CASE ParentMarkSent(e)
    BY <1>15, <1>key
       DEF ParentMarkSent, At, Stopped, To, Move, UpdateParent, Unexpected,
           Infra, ToFail
  <1>16. CASE ParentMarkRetrying(e)
    BY <1>16, <1>key
       DEF ParentMarkRetrying, At, Stopped, To, Move, UpdateParent
  <1>17. CASE ParentMarkFailed(e)
    BY <1>17, <1>key DEF ParentMarkFailed, At, Stopped, To, Move, UpdateParent
  <1>18. CASE Return(e)
    BY <1>18, <1>key DEF Return, At, Stopped, To, Move, rows, faults
  <1>19. CASE Throw(e)
    BY <1>19, <1>key DEF Throw, At, Stopped, To, Move, rows, faults
  <1> QED
    BY <1>1, <1>2, <1>3, <1>4, <1>5, <1>6, <1>7, <1>8, <1>9,
        <1>10, <1>11,
       <1>12, <1>13, <1>14, <1>15, <1>16, <1>17, <1>18, <1>19 DEF Step

(* A step leaves the invariant of the rows it does not name alone.         *)
LEMMA OtherRow ==
  ASSUME TypeOK, NEW e \in Execs, Step(e), LedgerFollows(e),
         NEW d \in Deliveries, MarkerInv(d), d # Key(e)
  PROVE  MarkerInv(d)'
  <1> SUFFICES ASSUME MarkerHolds(d) PROVE MarkerInv(d)'
    BY DEF MarkerInv, MarkerHolds
  <1>1. /\ exec'[e].job = exec[e].job /\ ledger'[e][d] = ledger[e][d]
        /\ exec[e].pc # "idle"
    BY StepFrame, StepRuns
  <1>2. Frozen(d)
    BY StepShape DEF Frozen
  <1>3. exec'[e].pos = exec[e].pos => Key(e)' # d
    BY <1>1 DEF Key
  <1>4. Calm(e, d)
    <2>1. ~Marked(e, d)'
      BY <1>3, StepShape DEF Marked, At
    <2>2. Open(e, d)' <=> Open(e, d)
      BY <1>1 DEF Open
    <2>3. Blocked(e, d) => Blocked(e, d)'
      BY StepShape DEF Blocked, Stopped
    <2>4. (At(e, "markFailed") /\ Key(e) = d)' => ~Open(e, d)
      <3>1. SUFFICES ASSUME exec'[e].pc = "markFailed", Key(e)' = d
                     PROVE  ~Open(e, d)
        BY DEF At
      <3>2. exec'[e].pos = 1 /\ InFallback(e)
        BY <1>3, <3>1, StepShape
      <3>3. ~Open(e, Chain[exec[e].job][1])
        BY <1>1, <3>2 DEF LedgerFollows, At
      <3> QED
        BY <1>1, <3>1, <3>2, <3>3 DEF Key
    <2> QED
      BY <2>1, <2>2, <2>3, <2>4 DEF Calm, Engaged
  <1>5. \A f \in Execs : f # e => Calm(f, d)
    BY StepFrame, StillCalm
  <1> QED
    BY <1>2, <1>4, <1>5, QuietRow

(* A step that writes nothing to the row it names, and does not call the   *)
(* provider.                                                               *)
LEMMA OwnRowKept ==
  ASSUME TypeOK, NEW e \in Execs, Step(e), LedgerFollows(e),
         NEW d \in Deliveries, MarkerInv(d), MarkerHolds(d), Frozen(d),
         Calm(e, d)
  PROVE  MarkerInv(d)'
  BY StepFrame, StillCalm, QuietRow

(* A row nobody is engaged on, and a step that engages nobody.             *)
LEMMA OwnRowEmpty ==
  ASSUME TypeOK, NEW e \in Execs, Step(e),
         NEW d \in Deliveries, MarkerInv(d), MarkerHolds(d),
         \A f \in Execs : ~Engaged(f, d),
         ledger' = ledger, exec'[e].pc # "send"
  PROVE  MarkerInv(d)'
  <1>1. \A f \in Execs : f # e => ~Engaged(f, d)'
    BY StepFrame, StillCalm
  <1>2. ~Engaged(e, d)'
    BY DEF Engaged, Marked, At, Open
  <1> QED
    BY <1>1, <1>2, EmptyRow

(* The guard of a claim or a marker that asks for an unstarted row finds   *)
(* nobody engaged on it.                                                   *)
LEMMA NotStarted ==
  ASSUME NEW d \in Deliveries, MarkerInv(d), MarkerHolds(d),
         ~delivery[d].started, delivery[d].status # "SENT"
  PROVE  \A f \in Execs : ~Engaged(f, d)
  BY DEF MarkerInv, Engaged

(* The row the moving execution names, one case per step.                  *)
LEMMA OwnRow ==
  ASSUME TypeOK, NEW e \in Execs, Step(e), LedgerFollows(e),
         NEW d \in Deliveries, MarkerInv(d), d = Key(e)
  PROVE  MarkerInv(d)'
  <1> SUFFICES ASSUME MarkerHolds(d) PROVE MarkerInv(d)'
    BY DEF MarkerInv, MarkerHolds
  <1>key. /\ exec[e].pc # "idle" /\ exec \in [Execs -> LocalState]
          /\ ledger \in [Execs -> [Deliveries -> Outcome]]
          /\ delivery \in [Deliveries -> DeliveryRow]
          /\ (d = Primary <=> ClaimsParent(e))
    BY StepRuns, KeyType DEF TypeOK
  <1>fresh. exec[e].pc \in BeforeSend => ledger[e][d] = "none"
    <2>1. exec[e].why = "none" \/ exec[e].pc \notin BeforeSend
      BY DEF LedgerFollows, BeforeSend, Failing
    <2> QED
      BY <1>key, <2>1, KeyType DEF LedgerFollows, At, Key
  <1>sound. d = Primary => ~DbThrows
    BY DEF MarkerHolds, DbThrows, TypeOK
  <1>1. CASE CreateIfMissing(e)
    <2>1. /\ ledger' = ledger /\ exec[e].pc = "createIfMissing"
          /\ exec'[e].pc \in {"getByDeliveryKey", "throw"}
          /\ delivery'[d] = delivery[d] \/ delivery[d].status = "ABSENT"
      BY <1>1, <1>key DEF CreateIfMissing, UpdateDelivery, At, To, Move
    <2>2. CASE delivery[d].status = "ABSENT"
      <3>1. \A f \in Execs : ~Engaged(f, d)
        BY <2>2 DEF MarkerInv, Kept, Engaged
      <3> QED
        BY <2>1, <3>1, OwnRowEmpty
    <2>3. CASE delivery'[d] = delivery[d]
      BY <2>1, <2>3, CalmMove, OwnRowKept DEF Stopped, Frozen
    <2> QED
      BY <2>1, <2>2, <2>3
  <1>2. CASE GetByDeliveryKey(e)
    <2>1. /\ ledger' = ledger /\ delivery' = delivery
          /\ exec[e].pc = "getByDeliveryKey" /\ exec'[e].pc # "send"
      BY <1>2, <1>key DEF GetByDeliveryKey, At, To, Move, AfterRead,
        Unexpected, Infra, ToFail
    <2>2. ~Open(e, d)
      BY <1>fresh, <2>1 DEF BeforeSend, Open
    <2> QED
      BY <2>1, <2>2, CalmMove, OwnRowKept DEF Stopped, Frozen
  <1>3. CASE ReconcileSentFromDelivery(e)
    <2>1. /\ ledger' = ledger /\ delivery' = delivery
          /\ exec[e].pc = "reconcile" /\ exec'[e].pc = "return"
      BY <1>3, <1>key DEF ReconcileSentFromDelivery, UpdateParent, At, To, Move
    <2> QED
      BY <2>1, CalmMove, OwnRowKept DEF Stopped, Frozen
  <1>4. CASE ClaimPrimaryAttempt(e)
    <2>1. d = Primary /\ ledger' = ledger /\ exec[e].pc = "claim"
      BY <1>4, <1>key DEF ClaimPrimaryAttempt, At
    <2>2. \/ /\ ~PrimaryClaimable /\ exec'[e].pc = "throw"
             /\ delivery' = delivery
          \/ /\ PrimaryClaimable /\ delivery'[d] = Taken(e, d)
             /\ exec'[e].pc = "markProviderSubmissionStarted"
             /\ exec'[e].pos = exec[e].pos /\ exec'[e].job = exec[e].job
      BY <1>4, <1>key, <1>sound, <2>1
         DEF ClaimPrimaryAttempt, TakePrimary, To, Move
    <2>3. CASE exec'[e].pc = "throw" /\ delivery' = delivery
      BY <2>1, <2>3, CalmMove, OwnRowKept DEF Stopped, Frozen
    <2>4. CASE /\ PrimaryClaimable /\ delivery'[d] = Taken(e, d)
               /\ exec'[e].pc = "markProviderSubmissionStarted"
               /\ exec'[e].pos = exec[e].pos /\ exec'[e].job = exec[e].job
      <3>1. /\ delivery'[d].status = "PROCESSING" /\ delivery'[d].token = e
            /\ delivery'[d].started = delivery[d].started
            /\ delivery[d].status \notin Terminal
        BY <2>1, <2>4 DEF Taken, PrimaryClaimable, Claimable
      <3>2. ~Marked(e, d)' /\ ~At(e, "markFailed")'
        BY <2>4 DEF Marked, At
      <3>3. Open(e, d)' <=> Open(e, d)
        BY <2>1 DEF Open
      <3>4. \A f \in Execs : /\ Marked(f, d)' => Marked(f, d)
                             /\ Open(f, d)' => Open(f, d)
        BY <3>2, <3>3, StepFrame, StillCalm
      <3>5. Blocked(e, d)'
        BY <2>1, <2>4 DEF Blocked, At, Key
      <3>6. \A f \in Execs : OwnsDelivery(f, d)' => f = e
        BY <3>1 DEF OwnsDelivery
      <3>7. \A f \in Execs : Open(f, d) => delivery[d].started
        BY <3>1 DEF MarkerInv, Terminal
      <3>8. \A f \in Execs : Marked(f, d) => delivery[d].started
        BY DEF MarkerInv
      <3>9. \A f, g \in Execs : Engaged(f, d)' /\ Engaged(g, d)' => f = g
        BY <3>4 DEF MarkerInv, Engaged
      <3> QED
        BY <3>1, <3>2, <3>4, <3>5, <3>6, <3>7, <3>8, <3>9 DEF MarkerInv, Kept
    <2> QED
      BY <2>2, <2>3, <2>4
  <1>5. CASE MarkProcessing(e)
    <2>1. /\ d # Primary /\ ledger' = ledger /\ exec[e].pc = "claim"
          /\ exec'[e].pc # "send"
          /\ \/ delivery'[d] = delivery[d]
             \/ Claimable(delivery[d]) /\ ~delivery[d].started
      BY <1>5, <1>key DEF MarkProcessing, UpdateDelivery, At, To, Move,
        Unexpected, Infra, ToFail
    <2>2. CASE delivery'[d] = delivery[d]
      <3>1. ~Open(e, d)
        BY <1>fresh, <2>1 DEF BeforeSend, Open
      <3> QED
        BY <2>1, <2>2, <3>1, CalmMove, OwnRowKept DEF Stopped, Frozen
    <2>3. CASE Claimable(delivery[d]) /\ ~delivery[d].started
      BY <2>1, <2>3, NotStarted, OwnRowEmpty DEF Claimable, Terminal
    <2> QED
      BY <2>1, <2>2, <2>3
  <1>6. CASE MarkProviderSubmissionStarted(e)
    <2>1. /\ ledger' = ledger
          /\ exec[e].pc = "markProviderSubmissionStarted"
      BY <1>6 DEF MarkProviderSubmissionStarted, At
    <2>2. \/ /\ OwnsDelivery(e, d) /\ ~delivery[d].started
             /\ delivery'[d] = [delivery[d] EXCEPT !.started = TRUE]
             /\ exec'[e] = To(e, "send")
          \/ exec'[e].pc = "throw" /\ delivery'[d] = delivery[d]
          \/ /\ DbThrows /\ exec'[e].pc = "markFailed"
             /\ \/ delivery'[d] = delivery[d]
                \/ OwnsDelivery(e, d) /\ ~delivery[d].started
      <3>1. /\ To(e, "throw").pc = "throw" /\ Infra(e).pc = "markFailed"
            /\ ToFail(e, "error").pc = "markFailed"
        BY DEF To, Move, Infra, ToFail
      <3>2. \/ /\ OwnsDelivery(e, d) /\ ~delivery[d].started
               /\ delivery'[d] = [delivery[d] EXCEPT !.started = TRUE]
               /\ exec'[e] = To(e, "send")
            \/ exec'[e] = To(e, "throw") /\ delivery'[d] = delivery[d]
            \/ /\ DbThrows
               /\ exec'[e] = ToFail(e, "error") \/ exec'[e] = Infra(e)
               /\ \/ delivery'[d] = delivery[d]
                  \/ OwnsDelivery(e, d) /\ ~delivery[d].started
        BY <1>6, <1>key DEF MarkProviderSubmissionStarted, UpdateDelivery
      <3> QED
        BY <3>1, <3>2
    <2>3. ~Open(e, d)
      BY <1>fresh, <2>1 DEF BeforeSend, Open
    <2>4. CASE /\ OwnsDelivery(e, d) /\ ~delivery[d].started
               /\ delivery'[d] = [delivery[d] EXCEPT !.started = TRUE]
               /\ exec'[e] = To(e, "send")
      <3>1. /\ delivery'[d].started /\ delivery'[d].status = "PROCESSING"
            /\ delivery'[d].token = e
        BY <1>key, <2>4 DEF OwnsDelivery, DeliveryRow
      <3>2. \A f \in Execs : f # e => ~Engaged(f, d)'
        <4>1. \A f \in Execs : ~Engaged(f, d)
          BY <2>4, NotStarted DEF OwnsDelivery
        <4> QED
          BY <4>1, StepFrame, StillCalm
      <3>3. ~Open(e, d)' /\ ~At(e, "markFailed")'
        BY <2>1, <2>3, <2>4 DEF Open, At, To, Move
      <3>4. \A f \in Execs : OwnsDelivery(f, d)' => f = e
        BY <3>1 DEF OwnsDelivery
      <3> QED
        BY <3>1, <3>2, <3>3, <3>4 DEF MarkerInv, Engaged, Kept
    <2>5. CASE exec'[e].pc = "throw" /\ delivery'[d] = delivery[d]
      BY <2>1, <2>5, CalmMove, OwnRowKept DEF Stopped, Frozen
    <2>6. CASE /\ DbThrows /\ exec'[e].pc = "markFailed"
               /\ delivery'[d] = delivery[d]
      BY <1>sound, <2>1, <2>3, <2>6, CalmMove, OwnRowKept DEF Stopped, Frozen
    <2>7. CASE /\ OwnsDelivery(e, d) /\ ~delivery[d].started
               /\ exec'[e].pc = "markFailed"
      BY <2>1, <2>7, NotStarted, OwnRowEmpty DEF OwnsDelivery
    <2> QED
      BY <2>2, <2>4, <2>5, <2>6, <2>7
  <1>7. CASE Send(e)
    <2>1. /\ delivery' = delivery /\ Marked(e, d)
          /\ exec'[e].pc = "inflight"
      BY <1>7, <1>key DEF Send, At, Marked, To, Move
    <2>2. Calm(e, d)
      BY <2>1 DEF Calm, Engaged, Marked, Blocked, At
    <2> QED
      BY <2>1, <2>2, OwnRowKept DEF Frozen
  <1>8. CASE AnswerUncertain(e)
    <2>1. /\ ledger' = ledger /\ delivery' = delivery
          /\ exec[e].pc = "inflight"
          /\ exec'[e].pc = "markAcceptanceUnknown"
      BY <1>8, <1>key DEF AnswerUncertain, At, To, Move
    <2> QED
      BY <2>1, CalmMove, OwnRowKept DEF Stopped, Frozen
  <1>9. CASE AnswerSuccess(e)
    <2>1. /\ ledger' = ledger /\ delivery' = delivery
          /\ exec[e].pc = "inflight" /\ exec'[e].pc = "markSent"
      BY <1>9, <1>key DEF AnswerSuccess, At, To, Move
    <2> QED
      BY <2>1, CalmMove, OwnRowKept DEF Stopped, Frozen
  <1>10. CASE AnswerRejected(e)
    <2>1. /\ delivery' = delivery /\ exec[e].pc = "inflight"
          /\ ledger'[e][d] = "rejected"
      BY <1>10, <1>key DEF AnswerRejected, At
    <2>2. exec'[e].pc # "send"
      <3>1. PICK r \in BOOLEAN : exec'[e] = AfterRejection(e, r)
        BY <1>10, <1>key DEF AnswerRejected
      <3> QED
        BY <3>1 DEF AfterRejection, ToFail, ToChannel, Move
    <2>3. Calm(e, d)
      BY <2>1, <2>2 DEF Calm, Marked, Open, Blocked, At
    <2> QED
      BY <2>1, <2>3, OwnRowKept DEF Frozen
  <1>11. CASE MarkSent(e)
    <2>1. /\ ledger' = ledger /\ exec[e].pc = "markSent"
          /\ exec'[e].pc \in {"return", "parentMarkSent", "throw",
                              "markAcceptanceUnknown"}
          /\ delivery'[d] = delivery[d] \/ delivery'[d] = Settled("SENT", FALSE)
      <3>1. \E l \in {"return", "parentMarkSent", "throw",
                              "markAcceptanceUnknown"} :
              exec'[e] = To(e, l)
        BY <1>11, <1>key DEF MarkSent, UpdateDelivery
      <3>2. exec'[e].pc \in {"return", "parentMarkSent", "throw",
                              "markAcceptanceUnknown"}
        BY <3>1 DEF To, Move
      <3> QED
        BY <1>11, <1>key, <3>2 DEF MarkSent, UpdateDelivery, At
    <2>2. Open(e, d)
      BY <1>11 DEF LedgerFollows, MarkSent, At, Open
    <2>3. CASE delivery'[d] = delivery[d]
      BY <2>1, <2>3, CalmMove, OwnRowKept DEF Stopped, Frozen
    <2>4. CASE delivery'[d] = Settled("SENT", FALSE)
      <3>1. \A f \in Execs : f # e => ~Engaged(f, d)'
        BY <2>2, StepFrame, StillCalm DEF MarkerInv, Engaged
      <3>2. delivery'[d].status = "SENT" /\ ~Marked(e, d)'
        BY <2>1, <2>4 DEF Settled, Marked, At
      <3>3. \A f \in Execs : ~OwnsDelivery(f, d)'
        BY <3>2 DEF OwnsDelivery
      <3> QED
        BY <3>1, <3>2, <3>3 DEF MarkerInv, Engaged
    <2> QED
      BY <2>1, <2>3, <2>4
  <1>12. CASE MarkAcceptanceUnknown(e)
    <2>1. /\ ledger' = ledger /\ exec[e].pc = "markAcceptanceUnknown"
          /\ exec'[e].pc \in {"return", "parentMarkUnknown"}
          /\ \/ delivery'[d] = delivery[d]
             \/ delivery'[d] = Settled("ACCEPTANCE_UNKNOWN", TRUE)
      <3>1. \E l \in {"return", "parentMarkUnknown"} :
              exec'[e] = To(e, l)
        BY <1>12, <1>key DEF MarkAcceptanceUnknown, UpdateDelivery
      <3>2. exec'[e].pc \in {"return", "parentMarkUnknown"}
        BY <3>1 DEF To, Move
      <3> QED
        BY <1>12, <1>key, <3>2 DEF MarkAcceptanceUnknown, UpdateDelivery, At
    <2>2. Open(e, d)
      BY <1>12 DEF LedgerFollows, MarkAcceptanceUnknown, At
    <2>3. CASE delivery'[d] = delivery[d]
      BY <2>1, <2>3, CalmMove, OwnRowKept DEF Stopped, Frozen
    <2>4. CASE delivery'[d] = Settled("ACCEPTANCE_UNKNOWN", TRUE)
      <3>1. \A f \in Execs : f # e => ~Engaged(f, d)'
        BY <2>2, StepFrame, StillCalm DEF MarkerInv, Engaged
      <3>2. /\ delivery'[d].status = "ACCEPTANCE_UNKNOWN"
            /\ delivery'[d].started /\ ~Marked(e, d)'
        BY <2>1, <2>4 DEF Settled, Marked, At
      <3>3. \A f \in Execs : ~OwnsDelivery(f, d)'
        BY <3>2 DEF OwnsDelivery
      <3> QED
        BY <3>1, <3>2, <3>3 DEF MarkerInv, Engaged
    <2> QED
      BY <2>1, <2>3, <2>4
  <1>13. CASE ParentMarkAcceptanceUnknown(e)
    <2>1. /\ ledger' = ledger /\ delivery' = delivery
          /\ exec[e].pc = "parentMarkUnknown" /\ exec'[e].pc = "return"
      BY <1>13, <1>key
         DEF ParentMarkAcceptanceUnknown, UpdateParent, At, To, Move
    <2> QED
      BY <2>1, CalmMove, OwnRowKept DEF Stopped, Frozen
  <1>14. CASE MarkFailed(e)
    <2>1. /\ ledger' = ledger /\ exec[e].pc = "markFailed"
          /\ delivery'[d] = delivery[d] \/ OwnsDelivery(e, d)
      BY <1>14, <1>key DEF MarkFailed, UpdateDelivery, At
    <2>2. OwnsDelivery(e, d) => ~Open(e, d)
      BY <2>1 DEF MarkerInv, At
    <2>3. exec'[e].pc # "send"
      <3>1. \/ exec'[e] = AfterFailed(e)
            \/ exec'[e] = To(e, "throw")
            \/ exec'[e] = ToFail(e, "error")
        BY <1>14, <1>key DEF MarkFailed, UpdateDelivery
      <3>2. AfterFailed(e).pc # "send"
        BY DEF AfterFailed, NextChannel, To, ToChannel, Move
      <3> QED
        BY <3>1, <3>2 DEF To, ToFail, Move
    <2>4. CASE delivery'[d] = delivery[d]
      BY <2>1, <2>2, <2>3, <2>4, CalmMove, OwnRowKept DEF Stopped, Frozen
    <2>5. CASE OwnsDelivery(e, d)
      <3>1. ~Engaged(e, d) /\ ~Blocked(e, d)
        BY <2>1, <2>2, <2>5 DEF Engaged, Marked, Blocked, At
      <3>2. \A f \in Execs : ~Engaged(f, d)
        BY <2>5, <3>1 DEF MarkerInv
      <3> QED
        BY <2>1, <2>3, <3>2, OwnRowEmpty
    <2> QED
      BY <2>1, <2>4, <2>5
  <1>15. CASE ParentMarkSent(e)
    <2>1. /\ ledger' = ledger /\ delivery' = delivery
          /\ exec[e].pc = "parentMarkSent"
          /\ \/ exec'[e].pc \in {"return", "throw"}
             \/ DbThrows /\ ~InFallback(e) /\ exec'[e].pc = "markFailed"
      BY <1>15, <1>key DEF ParentMarkSent, UpdateParent, Unexpected, Infra,
        ToFail, At, To, Move
    <2>2. exec'[e].pc \in {"return", "throw"}
      <3>1. ~IsReplay(e)
        BY <2>1 DEF LedgerFollows, ParentWrites
      <3> QED
        BY <1>key, <1>sound, <2>1, <3>1 DEF ClaimsParent
    <2> QED
      BY <2>1, <2>2, CalmMove, OwnRowKept DEF Stopped, Frozen
  <1>16. CASE ParentMarkRetrying(e)
    <2>1. /\ ledger' = ledger /\ delivery' = delivery
          /\ exec[e].pc = "parentMarkRetrying" /\ exec'[e].pc = "throw"
      BY <1>16, <1>key DEF ParentMarkRetrying, UpdateParent, At, To, Move
    <2> QED
      BY <2>1, CalmMove, OwnRowKept DEF Stopped, Frozen
  <1>17. CASE ParentMarkFailed(e)
    <2>1. /\ ledger' = ledger /\ delivery' = delivery
          /\ exec[e].pc = "parentMarkFailed"
          /\ exec'[e].pc \in {"return", "throw"}
      BY <1>17, <1>key DEF ParentMarkFailed, UpdateParent, At, To, Move
    <2> QED
      BY <2>1, CalmMove, OwnRowKept DEF Stopped, Frozen
  <1>18. CASE Return(e)
    <2>1. /\ ledger' = ledger /\ delivery' = delivery
          /\ exec[e].pc = "return" /\ exec'[e].pc = "done"
      BY <1>18, <1>key DEF Return, rows, faults, At, To, Move
    <2> QED
      BY <2>1, CalmMove, OwnRowKept DEF Stopped, Frozen
  <1>19. CASE Throw(e)
    <2>1. /\ ledger' = ledger /\ delivery' = delivery
          /\ exec[e].pc = "throw" /\ exec'[e].pc = "done"
      BY <1>19, <1>key DEF Throw, rows, faults, At, To, Move
    <2> QED
      BY <2>1, CalmMove, OwnRowKept DEF Stopped, Frozen
  <1> QED
    BY <1>1, <1>2, <1>3, <1>4, <1>5, <1>6, <1>7, <1>8, <1>9,
        <1>10, <1>11,
       <1>12, <1>13, <1>14, <1>15, <1>16, <1>17, <1>18, <1>19 DEF Step

-----------------------------------------------------------------------------
(* The specification keeps SubmissionInv.                                  *)

LEMMA StepSubmission ==
  ASSUME SubmissionInv, NEW e \in Execs, Step(e)
  PROVE  SubmissionInv'
  <1>1. TypeOK /\ LedgerFollows(e)
    BY DEF SubmissionInv
  <1>2. TypeOK'
    BY <1>1, StepTypeOK
  <1>3. LedgerFollows(e)'
    BY <1>1, StepFollows
  <1>4. ASSUME NEW f \in Execs, f # e PROVE LedgerFollows(f)'
    <2>1. exec'[f] = exec[f] /\ ledger'[f] = ledger[f] /\ LedgerFollows(f)
      BY <1>1, <1>4, StepFrame DEF SubmissionInv
    <2> QED
      BY <2>1 DEF LedgerFollows, At, InFallback, Open, Key, IsReplay
  <1>5. ASSUME NEW d \in Deliveries PROVE MarkerInv(d)'
    <2>1. MarkerInv(d)
      BY DEF SubmissionInv
    <2> QED
      BY <1>1, <2>1, OtherRow, OwnRow
  <1> QED
    BY <1>2, <1>3, <1>4, <1>5 DEF SubmissionInv

(* Nothing outside an execution's own steps bears on the marker.           *)
LEMMA EnvironmentSubmission ==
  ASSUME SubmissionInv, Next, ~\E e \in Execs : Step(e)
  PROVE  SubmissionInv'
  <1>0. TypeOK /\ TypeOK'
    BY EnvironmentTypeOK DEF SubmissionInv
  <1>type. /\ exec \in [Execs -> LocalState]
           /\ delivery \in [Deliveries -> DeliveryRow]
    BY <1>0 DEF TypeOK
  <1>1. ASSUME ledger' = ledger, \A d \in Deliveries : Frozen(d),
               \A f \in Execs : LedgerFollows(f)',
               \A f \in Execs, d \in Deliveries :
                 MarkerInv(d) /\ MarkerHolds(d) => Calm(f, d)
        PROVE  SubmissionInv'
    <2>1. ASSUME NEW d \in Deliveries PROVE MarkerInv(d)'
      <3>1. MarkerInv(d)
        BY DEF SubmissionInv
      <3>2. CASE MarkerHolds(d)
        BY <1>1, <3>1, <3>2, QuietRow
      <3>3. CASE ~MarkerHolds(d)
        BY <3>3 DEF MarkerInv, MarkerHolds
      <3> QED
        BY <3>2, <3>3
    <2> QED
      BY <1>0, <1>1, <2>1 DEF SubmissionInv
  <1>2. ASSUME ledger' = ledger, exec' = exec,
               \A d \in Deliveries : Frozen(d)
        PROVE  SubmissionInv'
    <2>1. \A f \in Execs : LedgerFollows(f)'
      BY <1>2 DEF SubmissionInv, LedgerFollows, At, InFallback, Open, Key,
                  IsReplay
    <2>2. \A f \in Execs, d \in Deliveries :
            MarkerInv(d) /\ MarkerHolds(d) => Calm(f, d)
      BY <1>2, StillCalm
    <2> QED
      BY <1>1, <1>2, <2>1, <2>2
  <1>3. ASSUME NEW e \in Execs, ledger' = ledger, delivery' = delivery,
               \A f \in Execs : f # e => exec'[f] = exec[f],
               LedgerFollows(e)', \A d \in Deliveries : Calm(e, d)
        PROVE  SubmissionInv'
    <2>1. ASSUME NEW f \in Execs, f # e PROVE LedgerFollows(f)'
      <3>1. LedgerFollows(f) /\ exec'[f] = exec[f] /\ ledger'[f] = ledger[f]
        BY <1>3, <2>1 DEF SubmissionInv
      <3> QED
        BY <3>1 DEF LedgerFollows, At, InFallback, Open, Key, IsReplay
    <2>2. \A f \in Execs, d \in Deliveries :
            MarkerInv(d) /\ MarkerHolds(d) => Calm(f, d)
      BY <1>3, StillCalm
    <2>3. \A d \in Deliveries : Frozen(d)
      BY <1>3 DEF Frozen
    <2> QED
      BY <1>1, <1>3, <2>1, <2>2, <2>3
  <1>4. ASSUME NEW e \in Execs, NEW j \in Jobs, PickUp(e, j)
        PROVE  SubmissionInv'
    <2>1. /\ ledger' = ledger /\ delivery' = delivery /\ exec[e].pc = "idle"
          /\ \A f \in Execs : f # e => exec'[f] = exec[f]
      BY <1>4, <1>type DEF PickUp, rows, faults, At
    <2>2. /\ exec'[e].pc = "createIfMissing" /\ exec'[e].job = j
          /\ exec'[e].pos = 1 /\ exec'[e].why = "none"
      BY <1>4, <1>type DEF PickUp
    <2>3. \A d \in Deliveries : ledger[e][d] = "none"
      BY <2>1 DEF SubmissionInv, LedgerFollows, At
    <2>4. LedgerFollows(e)'
      <3>1. \A k \in 1..Len(Chain[j]) : Chain[j][k] \in Deliveries
        BY ChainsAreKeys
      <3> QED
        BY <2>1, <2>2, <2>3, <3>1 DEF LedgerFollows, At, InFallback,
          BeforeSend, Failing, ParentWrites
    <2>5. \A d \in Deliveries : Calm(e, d)
      BY <2>1, <2>2, CalmMove DEF Stopped
    <2> QED
      BY <1>3, <2>1, <2>4, <2>5
  <1>5. ASSUME NEW e \in Execs, Crash(e)
        PROVE  SubmissionInv'
    <2>1. /\ ledger' = ledger /\ delivery' = delivery /\ exec[e].pc # "idle"
          /\ \A f \in Execs : f # e => exec'[f] = exec[f]
          /\ exec'[e] = To(e, "crashed")
      BY <1>5, <1>type DEF Crash, rows, Running
    <2>2. LedgerFollows(e)'
      BY <1>0, <2>1, FollowsTo, Labels
         DEF SubmissionInv, BeforeSend, Failing, ParentWrites
    <2>3. exec'[e].pc = "crashed"
      BY <2>1 DEF To, Move
    <2>4. \A d \in Deliveries : Calm(e, d)
      BY <2>1, <2>3, CalmMove DEF Stopped
    <2> QED
      BY <1>3, <2>1, <2>2, <2>4
  <1>6. ASSUME NEW j \in Jobs, StallOfCrashed(j) \/ StallOfRunning(j)
        PROVE  SubmissionInv'
    BY <1>2, <1>6 DEF StallOfCrashed, StallOfRunning, rows, faults, Frozen
  <1>7. CASE PrimaryLeaseLapses
    <2>1. \A d \in Deliveries : Frozen(d)
      BY <1>7, <1>type DEF PrimaryLeaseLapses, Frozen, DeliveryRow
    <2> QED
      BY <1>2, <1>7, <2>1 DEF PrimaryLeaseLapses
  <1>8. ASSUME NEW d \in Deliveries, DeliveryLeaseLapses(d)
        PROVE  SubmissionInv'
    <2>1. \A c \in Deliveries : Frozen(c)
      BY <1>8, <1>type DEF DeliveryLeaseLapses, Frozen, DeliveryRow
    <2> QED
      BY <1>2, <1>8, <2>1 DEF DeliveryLeaseLapses
  <1> QED
    BY <1>4, <1>5, <1>6, <1>7, <1>8 DEF Next

LEMMA InitSubmission == Init => SubmissionInv
  <1> SUFFICES ASSUME Init PROVE SubmissionInv
    OBVIOUS
  <1>1. \A e \in Execs : LedgerFollows(e)
    BY DEF Init, LedgerFollows, At, InFallback, ParentWrites
  <1>2. \A d \in Deliveries : MarkerInv(d)
    BY DEF Init, MarkerInv, Engaged, Marked, Open, At
  <1> QED
    BY <1>1, <1>2, InitTypeOK DEF SubmissionInv

LEMMA StutterSubmission == SubmissionInv /\ UNCHANGED vars => SubmissionInv'
  <1> SUFFICES ASSUME SubmissionInv, UNCHANGED vars PROVE SubmissionInv'
    OBVIOUS
  <1>1. TypeOK'
    BY DEF SubmissionInv, TypeOK, vars
  <1>2. \A e \in Execs : LedgerFollows(e)'
    BY DEF SubmissionInv, LedgerFollows, At, InFallback, Open, Key, IsReplay,
           vars
  <1>3. \A d \in Deliveries : MarkerInv(d)'
    BY DEF SubmissionInv, MarkerInv, MarkerHolds, Engaged, Marked, Open,
           OwnsDelivery, Blocked, Kept, At, Key, InFallback, IsReplay, vars
  <1> QED
    BY <1>1, <1>2, <1>3 DEF SubmissionInv

(* Whoever is engaged on a row left the durable marker on it, and the row  *)
(* is the business of nobody else: the invariant that carries the          *)
(* submission boundary of process() and tryChannel().                      *)
THEOREM SubmissionInvariant == Spec => []SubmissionInv
  <1>1. SubmissionInv /\ [Next]_vars => SubmissionInv'
    BY StepSubmission, EnvironmentSubmission, StutterSubmission
  <1> QED
    BY <1>1, InitSubmission, PTL DEF Spec

(* provider.send is not called for a delivery while an earlier call for it *)
(* may have been accepted: for every number of workers, jobs, channels,    *)
(* crashes, stalls and lapsed leases, with database faults for every       *)
(* delivery but the primary, whose claim ignores the marker.               *)
THEOREM SubmissionSafe == Spec => []NoResubmission
  <1>1. SubmissionInv => NoResubmission
    BY DEF SubmissionInv, MarkerInv, NoResubmission, Engaged
  <1> QED
    BY <1>1, SubmissionInvariant, PTL
-----------------------------------------------------------------------------
(* What a step writes, and on which of its branches.                       *)

(* The writes of a step of e to row d: a claim, the marker, an outcome.    *)
RowWrite(e, d) ==
  \/ delivery'[d] = delivery[d]
  \/ delivery[d].status = "ABSENT" /\ delivery'[d] = Pending
  \/ /\ At(e, "claim") /\ Claimable(delivery[d])
     /\ d # Primary => ~delivery[d].started
     /\ delivery'[d] = Taken(e, d)
  \/ /\ At(e, "markProviderSubmissionStarted")
     /\ OwnsDelivery(e, d) /\ ~delivery[d].started
     /\ delivery'[d] = [delivery[d] EXCEPT !.started = TRUE]
  \/ /\ At(e, "markSent") /\ OwnsDelivery(e, d)
     /\ delivery'[d] = Settled("SENT", FALSE)
  \/ /\ At(e, "markAcceptanceUnknown") /\ OwnsDelivery(e, d)
     /\ delivery[d].started
     /\ delivery'[d] = Settled("ACCEPTANCE_UNKNOWN", TRUE)
  \/ /\ At(e, "markFailed") /\ OwnsDelivery(e, d)
     /\ delivery'[d] = Settled("FAILED", FALSE)

(* The call of the provider, its rejection, and every other step.          *)
LedgerWrite(e) ==
  \/ ledger' = ledger
  \/ /\ At(e, "send") /\ exec'[e].pc = "inflight"
     /\ ledger'[e][Key(e)] \in {"accepted", "dropped"}
  \/ /\ At(e, "inflight") /\ ledger[e][Key(e)] = "dropped"
     /\ ledger'[e][Key(e)] = "rejected"

(* How a step comes to be about to write SENT to the parent, when its      *)
(* channel is SENT, and about to call the provider, when it set the marker. *)
Arrives(e) ==
  /\ exec'[e].pc \in {"parentMarkSent", "reconcile"} =>
       /\ exec'[e].pos = exec[e].pos
       /\ delivery'[Key(e)].status = "SENT"
  /\ exec'[e].pc = "send" => At(e, "markProviderSubmissionStarted")

(* The writes of a step of e to the parent.                                *)
ParentWrite(e) ==
  \/ parent' = parent
  \/ At(e, "claim") /\ Claimable(parent) /\ parent'.status = "PROCESSING"
  \/ At(e, "reconcile") /\ parent' = SettledParent("SENT")
  \/ At(e, "parentMarkSent") /\ parent' = SettledParent("SENT")
  \/ /\ OwnsParent(e)
     /\ parent'.status \in {"RETRYING", "FAILED", "ACCEPTANCE_UNKNOWN"}

StepWrites(e) ==
  /\ RowWrite(e, Key(e))
  /\ LedgerWrite(e)
  /\ Arrives(e)
  /\ ParentWrite(e)

LEMMA StepWritesThese ==
  ASSUME TypeOK, NEW e \in Execs, Step(e)
  PROVE  StepWrites(e)
  <1>key. /\ exec \in [Execs -> LocalState]
          /\ delivery \in [Deliveries -> DeliveryRow]
          /\ ledger \in [Execs -> [Deliveries -> Outcome]]
          /\ Key(e) \in Deliveries /\ (ClaimsParent(e) <=> Key(e) = Primary)
    BY StepRuns, KeyType DEF TypeOK
  <1> USE DEF At, To, Move, StepWrites
  <1>1. CASE CreateIfMissing(e)
    BY <1>1, <1>key
       DEF CreateIfMissing, UpdateDelivery, RowWrite, LedgerWrite, Arrives,
           ParentWrite
  <1>2. CASE GetByDeliveryKey(e)
    BY <1>2, <1>key
       DEF GetByDeliveryKey, Unexpected, Infra, ToFail, AfterRead, RowWrite,
           LedgerWrite, Arrives, ParentWrite
  <1>3. CASE ReconcileSentFromDelivery(e)
    BY <1>3, <1>key
       DEF ReconcileSentFromDelivery, UpdateParent, RowWrite, LedgerWrite,
           Arrives, ParentWrite
  <1>4. CASE ClaimPrimaryAttempt(e)
    BY <1>4, <1>key
       DEF ClaimPrimaryAttempt, Infra, ToFail, rows, PrimaryClaimable,
           TakePrimary, RowWrite, LedgerWrite, Arrives, ParentWrite
  <1>5. CASE MarkProcessing(e)
    BY <1>5, <1>key
       DEF MarkProcessing, UpdateDelivery, Unexpected, Infra, ToFail,
           RowWrite, LedgerWrite, Arrives, ParentWrite
  <1>6. CASE MarkProviderSubmissionStarted(e)
    <2>1. RowWrite(e, Key(e))
      BY <1>6, <1>key DEF MarkProviderSubmissionStarted, UpdateDelivery, RowWrite
    <2>2. parent' = parent /\ ledger' = ledger
      BY <1>6 DEF MarkProviderSubmissionStarted
    <2>3. Arrives(e)
      BY <1>6, <1>key DEF MarkProviderSubmissionStarted, UpdateDelivery, Infra, ToFail, Arrives
    <2> QED
      BY <2>1, <2>2, <2>3 DEF LedgerWrite, ParentWrite
  <1>7. CASE Send(e)
    BY <1>7, <1>key
       DEF Send, faults, RowWrite, LedgerWrite, Arrives, ParentWrite
  <1>8. CASE AnswerUncertain(e)
    BY <1>8, <1>key
       DEF AnswerUncertain, faults, RowWrite, LedgerWrite, Arrives,
           ParentWrite
  <1>9. CASE AnswerSuccess(e)
    BY <1>9, <1>key
       DEF AnswerSuccess, faults, RowWrite, LedgerWrite, Arrives,
           ParentWrite
  <1>10. CASE AnswerRejected(e)
    <2>1. exec'[e].pc \in {"markFailed", "createIfMissing"}
      <3>1. PICK r \in BOOLEAN : exec'[e] = AfterRejection(e, r)
        BY <1>10, <1>key DEF AnswerRejected
      <3> QED
        BY <3>1 DEF AfterRejection, ToFail, ToChannel
    <2>2. /\ At(e, "inflight") /\ ledger[e][Key(e)] = "dropped"
          /\ ledger'[e][Key(e)] = "rejected"
          /\ delivery' = delivery /\ parent' = parent
      BY <1>10, <1>key DEF AnswerRejected
    <2> QED
      BY <2>1, <2>2 DEF RowWrite, LedgerWrite, Arrives, ParentWrite
  <1>11. CASE MarkSent(e)
    <2>1. RowWrite(e, Key(e))
      BY <1>11, <1>key DEF MarkSent, UpdateDelivery, RowWrite
    <2>2. parent' = parent /\ ledger' = ledger
      BY <1>11 DEF MarkSent
    <2>3. Arrives(e)
      BY <1>11, <1>key DEF MarkSent, UpdateDelivery, Settled, Arrives
    <2> QED
      BY <2>1, <2>2, <2>3 DEF LedgerWrite, ParentWrite
  <1>12. CASE MarkAcceptanceUnknown(e)
    <2>1. RowWrite(e, Key(e))
      BY <1>12, <1>key DEF MarkAcceptanceUnknown, UpdateDelivery, RowWrite
    <2>2. parent' = parent /\ ledger' = ledger
      BY <1>12 DEF MarkAcceptanceUnknown
    <2>3. Arrives(e)
      <3>1. \/ exec'[e] = To(e, "parentMarkUnknown")
            \/ exec'[e] = To(e, "return")
        BY <1>12, <1>key DEF MarkAcceptanceUnknown, UpdateDelivery
      <3> QED
        BY <3>1 DEF Arrives
    <2> QED
      BY <2>1, <2>2, <2>3 DEF LedgerWrite, ParentWrite
  <1>13. CASE ParentMarkAcceptanceUnknown(e)
    BY <1>13, <1>key
       DEF ParentMarkAcceptanceUnknown, UpdateParent, SettledParent,
           RowWrite, LedgerWrite, Arrives, ParentWrite
  <1>14. CASE MarkFailed(e)
    <2>1. exec'[e].pc \notin {"parentMarkSent", "reconcile", "send"}
      <3>1. \/ exec'[e] = AfterFailed(e)
            \/ exec'[e] = To(e, "throw")
            \/ exec'[e] = ToFail(e, "error")
        BY <1>14, <1>key DEF MarkFailed, UpdateDelivery
      <3> QED
        BY <3>1 DEF AfterFailed, NextChannel, ToChannel, ToFail
    <2>2. RowWrite(e, Key(e)) /\ ledger' = ledger /\ parent' = parent
      BY <1>14, <1>key DEF MarkFailed, UpdateDelivery, RowWrite
    <2> QED
      BY <2>1, <2>2 DEF LedgerWrite, Arrives, ParentWrite
  <1>15. CASE ParentMarkSent(e)
    BY <1>15, <1>key
       DEF ParentMarkSent, UpdateParent, Unexpected, Infra, ToFail,
           RowWrite, LedgerWrite, Arrives, ParentWrite
  <1>16. CASE ParentMarkRetrying(e)
    BY <1>16, <1>key
       DEF ParentMarkRetrying, UpdateParent, SettledParent, RowWrite,
           LedgerWrite, Arrives, ParentWrite
  <1>17. CASE ParentMarkFailed(e)
    BY <1>17, <1>key
       DEF ParentMarkFailed, UpdateParent, SettledParent, RowWrite,
           LedgerWrite, Arrives, ParentWrite
  <1>18. CASE Return(e)
    BY <1>18, <1>key
       DEF Return, rows, faults, RowWrite, LedgerWrite, Arrives, ParentWrite
  <1>19. CASE Throw(e)
    BY <1>19, <1>key
       DEF Throw, rows, faults, RowWrite, LedgerWrite, Arrives, ParentWrite
  <1> QED
    BY <1>1, <1>2, <1>3, <1>4, <1>5, <1>6, <1>7, <1>8, <1>9, <1>10, <1>11,
       <1>12, <1>13, <1>14, <1>15, <1>16, <1>17, <1>18, <1>19 DEF Step
-----------------------------------------------------------------------------
(* A settled row, an accepted message and what was written on them stay.   *)

LEMMA TerminalStays ==
  ASSUME SubmissionInv, NEW e \in Execs, Step(e),
         NEW d \in Deliveries, delivery[d].status \in Terminal
  PROVE  delivery'[d] = delivery[d]
  <1>1. CASE d # Key(e)
    BY <1>1, StepShape DEF SubmissionInv
  <1>2. CASE d = Key(e)
    <2>1. RowWrite(e, d)
      BY <1>2, StepWritesThese DEF SubmissionInv, StepWrites
    <2> QED
      BY <2>1 DEF RowWrite, Claimable, OwnsDelivery, Terminal
  <1> QED
    BY <1>1, <1>2

(* A call is made by an execution that has made none for the channel.      *)
LEMMA CallIsFirst ==
  ASSUME SubmissionInv, NEW e \in Execs, At(e, "send")
  PROVE  /\ Key(e) \in Deliveries
         /\ ledger[e][Key(e)] = "none"
  <1>1. TypeOK /\ LedgerFollows(e) /\ exec[e].pc # "idle"
    BY DEF SubmissionInv, At
  <1>2. /\ Key(e) \in Deliveries
        /\ exec[e].pos \in 1..Len(Chain[exec[e].job])
    BY <1>1, KeyType
  <1>3. exec[e].why # "terminal"
    BY <1>1 DEF LedgerFollows, At, Failing
  <1> QED
    BY <1>1, <1>2, <1>3 DEF LedgerFollows, At, BeforeSend, Key

LEMMA AcceptedStays ==
  ASSUME SubmissionInv, NEW e \in Execs, Step(e),
         NEW f \in Execs, NEW d \in Deliveries, ledger[f][d] = "accepted"
  PROVE  ledger'[f][d] = "accepted"
  <1>1. CASE f # e \/ d # Key(e)
    BY <1>1, StepFrame DEF SubmissionInv
  <1>2. CASE f = e /\ d = Key(e)
    <2>1. LedgerWrite(e)
      BY StepWritesThese DEF SubmissionInv, StepWrites
    <2>2. ~At(e, "send")
      BY <1>2, CallIsFirst
    <2> QED
      BY <1>2, <2>1, <2>2 DEF LedgerWrite
  <1> QED
    BY <1>1, <1>2

-----------------------------------------------------------------------------
(* SENT is backed.                                                         *)

LEMMA SentIsAccepted ==
  ASSUME OutcomeInv, NEW e \in Execs, Step(e),
         NEW d \in Deliveries, delivery'[d].status = "SENT"
  PROVE  \E f \in Execs : ledger'[f][d] = "accepted"
  <1>0. SubmissionInv /\ TypeOK /\ LedgerFollows(e)
    BY DEF OutcomeInv, SubmissionInv
  <1>1. CASE delivery[d].status = "SENT"
    <2>1. PICK f \in Execs : ledger[f][d] = "accepted"
      BY <1>1 DEF OutcomeInv, SentIsBacked
    <2> QED
      BY <1>0, <2>1, AcceptedStays
  <1>2. CASE delivery[d].status # "SENT"
    <2>1. d = Key(e)
      BY <1>0, <1>2, StepShape
    <2>2. RowWrite(e, d)
      BY <1>0, <2>1, StepWritesThese DEF StepWrites
    <2>3. delivery[d] \in DeliveryRow
      BY <1>0 DEF TypeOK
    <2>4. At(e, "markSent")
      BY <1>2, <2>2, <2>3
         DEF RowWrite, Pending, Taken, Settled, OwnsDelivery, DeliveryRow
    <2>5. ledger[e][d] = "accepted"
      BY <1>0, <2>1, <2>4 DEF LedgerFollows
    <2> QED
      BY <1>0, <2>5, AcceptedStays
  <1> QED
    BY <1>1, <1>2

(* The channel an execution saw SENT stays so.                             *)
LEMMA SentStaysSeen ==
  ASSUME OutcomeInv, NEW e \in Execs, Step(e)
  PROVE  SentWasSeen'
  <1>0. SubmissionInv /\ TypeOK
    BY DEF OutcomeInv, SubmissionInv
  <1>1. ASSUME NEW f \in Execs, f # e,
               exec'[f].pc \in {"parentMarkSent", "reconcile"}
        PROVE  (delivery[Key(f)].status = "SENT")'
    <2>1. exec'[f] = exec[f]
      BY <1>0, <1>1, StepFrame
    <2>2. Key(f)' = Key(f) /\ Key(f) \in Deliveries
      BY <1>0, <1>1, <2>1, KeyType DEF Key
    <2>3. delivery[Key(f)].status = "SENT"
      BY <1>1, <2>1 DEF OutcomeInv, SentWasSeen
    <2> QED
      BY <1>0, <2>2, <2>3, TerminalStays DEF Terminal
  <1>2. ASSUME exec'[e].pc \in {"parentMarkSent", "reconcile"}
        PROVE  (delivery[Key(e)].status = "SENT")'
    <2>1. /\ exec'[e].pos = exec[e].pos /\ delivery'[Key(e)].status = "SENT"
      BY <1>0, <1>2, StepWritesThese DEF StepWrites, Arrives
    <2>2. exec'[e].job = exec[e].job
      BY <1>0, StepFrame
    <2>3. Key(e)' = Key(e)
      BY <2>1, <2>2 DEF Key
    <2> QED
      BY <2>1, <2>3
  <1> QED
    BY <1>1, <1>2 DEF SentWasSeen

LEMMA ParentStaysBacked ==
  ASSUME OutcomeInv, NEW e \in Execs, Step(e), parent'.status = "SENT"
  PROVE  \E j \in Jobs \ Replays : \E k \in 1..Len(Chain[j]) :
           delivery'[Chain[j][k]].status = "SENT"
  <1>0. SubmissionInv /\ TypeOK /\ LedgerFollows(e)
    BY DEF OutcomeInv, SubmissionInv
  <1>1. \E j \in Jobs \ Replays : \E k \in 1..Len(Chain[j]) :
          delivery[Chain[j][k]].status = "SENT"
    <2>1. CASE parent.status = "SENT"
      BY <2>1 DEF OutcomeInv, SentIsBacked
    <2>2. CASE parent.status # "SENT"
      <3>1. ParentWrite(e)
        BY <1>0, StepWritesThese DEF StepWrites
      <3>2. exec[e].pc \in {"parentMarkSent", "reconcile"}
        BY <2>2, <3>1 DEF ParentWrite, At
      <3>3. delivery[Key(e)].status = "SENT" /\ ~IsReplay(e)
        BY <1>0, <3>2
           DEF OutcomeInv, SentWasSeen, LedgerFollows, ParentWrites
      <3>4. /\ exec[e].job \in Jobs \ Replays
            /\ exec[e].pos \in 1..Len(Chain[exec[e].job])
        BY <1>0, <3>2, <3>3, KeyType DEF IsReplay
      <3> QED
        BY <3>3, <3>4 DEF Key
    <2> QED
      BY <2>1, <2>2
  <1>2. PICK j \in Jobs \ Replays : \E k \in 1..Len(Chain[j]) :
          delivery[Chain[j][k]].status = "SENT"
    BY <1>1
  <1>k. PICK k \in 1..Len(Chain[j]) : delivery[Chain[j][k]].status = "SENT"
    BY <1>2
  <1>3. Chain[j][k] \in Deliveries
    BY ChainsAreKeys
  <1> QED
    BY <1>0, <1>k, <1>3, TerminalStays DEF Terminal

LEMMA StepOutcome ==
  ASSUME OutcomeInv, NEW e \in Execs, Step(e)
  PROVE  OutcomeInv'
  <1>0. SubmissionInv /\ TypeOK /\ LedgerFollows(e)
    BY DEF OutcomeInv, SubmissionInv
  <1>1. SubmissionInv'
    BY <1>0, StepSubmission
  <1>2. SentWasSeen'
    BY SentStaysSeen
  <1>3. SentIsBacked'
    BY SentIsAccepted, ParentStaysBacked DEF SentIsBacked
  <1>4. ASSUME NEW d \in Deliveries, delivery'[d].status \in Terminal
        PROVE  ~delivery'[d].expired
    <2>1. CASE delivery[d].status \in Terminal
      BY <1>0, <2>1, TerminalStays DEF OutcomeInv
    <2>2. CASE delivery[d].status \notin Terminal
      <3>1. d = Key(e)
        BY <1>0, <1>4, <2>2, StepShape
      <3>2. RowWrite(e, d)
        BY <1>0, <3>1, StepWritesThese DEF StepWrites
      <3>3. delivery[d] \in DeliveryRow
        BY <1>0 DEF TypeOK
      <3> QED
        BY <1>4, <2>2, <3>2, <3>3
           DEF RowWrite, Pending, Taken, Settled, OwnsDelivery, DeliveryRow,
               Terminal
    <2> QED
      BY <2>1, <2>2
  <1> QED
    BY <1>1, <1>2, <1>3, <1>4 DEF OutcomeInv

(* What a step outside the executions' own leaves alone.                   *)
OutcomeFrame ==
  /\ ledger' = ledger /\ parent'.status = parent.status
  /\ \A d \in Deliveries :
       /\ delivery'[d].status = delivery[d].status
       /\ delivery[d].status \in Terminal => delivery'[d] = delivery[d]
  /\ \A f \in Execs : exec'[f].pc \in {"parentMarkSent", "reconcile"} =>
       exec'[f] = exec[f]

(* Outside the executions' own steps nothing is settled and nothing sent.  *)
LEMMA EnvironmentOutcome ==
  ASSUME OutcomeInv, Next, ~\E e \in Execs : Step(e)
  PROVE  /\ OutcomeInv'
         /\ ledger' = ledger
         /\ \A d \in Deliveries : delivery[d].status \in Terminal =>
              delivery'[d] = delivery[d]
  <1>0. SubmissionInv /\ TypeOK
    BY DEF OutcomeInv, SubmissionInv
  <1>type. /\ exec \in [Execs -> LocalState]
           /\ delivery \in [Deliveries -> DeliveryRow]
           /\ parent \in ParentRow
    BY <1>0 DEF TypeOK
  <1>1. SubmissionInv'
    BY <1>0, EnvironmentSubmission
  <1>2. OutcomeFrame
    <2>1. ASSUME NEW e \in Execs, NEW j \in Jobs, PickUp(e, j) PROVE OutcomeFrame
      BY <2>1, <1>type DEF PickUp, rows, faults, OutcomeFrame
    <2>2. ASSUME NEW e \in Execs, Crash(e) PROVE OutcomeFrame
      BY <2>2, <1>type DEF Crash, rows, To, Move, OutcomeFrame
    <2>3. ASSUME NEW j \in Jobs, StallOfCrashed(j) \/ StallOfRunning(j)
          PROVE OutcomeFrame
      BY <2>3 DEF StallOfCrashed, StallOfRunning, rows, faults, OutcomeFrame
    <2>4. CASE PrimaryLeaseLapses
      BY <2>4, <1>type
         DEF PrimaryLeaseLapses, faults, DeliveryRow, ParentRow, OutcomeInv,
             OutcomeFrame, Terminal
    <2>5. ASSUME NEW d \in Deliveries, DeliveryLeaseLapses(d) PROVE OutcomeFrame
      BY <2>5, <1>type
         DEF DeliveryLeaseLapses, faults, DeliveryRow, OutcomeFrame, Terminal
    <2> QED
      BY <2>1, <2>2, <2>3, <2>4, <2>5 DEF Next
  <1>3. SentWasSeen'
    <2>1. \A f \in Execs : exec'[f].pc \in {"parentMarkSent", "reconcile"} =>
            Key(f)' = Key(f) /\ Key(f) \in Deliveries
      BY <1>0, <1>2, KeyType DEF Key, OutcomeFrame
    <2> QED
      BY <1>2, <2>1 DEF OutcomeInv, SentWasSeen, OutcomeFrame
  <1>4. SentIsBacked'
    <2>1. \A j \in Jobs : \A k \in 1..Len(Chain[j]) : Chain[j][k] \in Deliveries
      BY ChainsAreKeys
    <2> QED
      BY <1>2, <2>1 DEF OutcomeInv, SentIsBacked, OutcomeFrame
  <1> QED
    BY <1>1, <1>2, <1>3, <1>4 DEF OutcomeInv, OutcomeFrame

LEMMA InitOutcome == Init => OutcomeInv
  <1> SUFFICES ASSUME Init PROVE OutcomeInv
    OBVIOUS
  <1>1. SentWasSeen /\ SentIsBacked
    BY DEF Init, SentWasSeen, SentIsBacked
  <1>2. \A d \in Deliveries : delivery[d].status \notin Terminal
    BY DEF Init, Terminal
  <1> QED
    BY <1>1, <1>2, InitSubmission DEF OutcomeInv

LEMMA StutterOutcome == OutcomeInv /\ UNCHANGED vars => OutcomeInv'
  <1> SUFFICES ASSUME OutcomeInv, UNCHANGED vars PROVE OutcomeInv'
    OBVIOUS
  <1>1. SubmissionInv'
    BY StutterSubmission DEF OutcomeInv
  <1> QED
    BY <1>1 DEF OutcomeInv, SentWasSeen, SentIsBacked, Key, vars

(* What was sent was accepted: the invariant that relates the settled rows *)
(* to the provider's answers and to what an execution has read of them.    *)
THEOREM OutcomeInvariant == Spec => []OutcomeInv
  <1>1. OutcomeInv /\ [Next]_vars => OutcomeInv'
    BY StepOutcome, EnvironmentOutcome, StutterOutcome
  <1> QED
    BY <1>1, InitOutcome, PTL DEF Spec

(* A SENT parent stands on a SENT delivery of one of its own channels, and *)
(* a SENT delivery on a message the provider accepted, whatever crashes,   *)
(* stale executions and database writes that throw after their commit.     *)
THEOREM SentStaysBacked == Spec => []SentIsBacked
  <1>1. OutcomeInv => SentIsBacked
    BY DEF OutcomeInv
  <1> QED
    BY <1>1, OutcomeInvariant, PTL

(* A settled row is left alone by a step of an execution, and nothing is   *)
(* submitted for it: whoever is about to call the provider holds a row     *)
(* that nobody settled.                                                    *)
LEMMA StepSettled ==
  ASSUME SubmissionInv, NEW e \in Execs, Step(e)
  PROVE  SettledStep
  <1>0. TypeOK
    BY DEF SubmissionInv
  <1>1. ASSUME NEW d \in Deliveries, delivery[d].status \in Terminal,
               MarkerHolds(d), NEW f \in Execs, ledger[f][d] = "none"
        PROVE  ledger'[f][d] = "none"
    <2>1. CASE f # e \/ d # Key(e)
      BY <1>0, <1>1, <2>1, StepFrame
    <2>2. CASE f = e /\ d = Key(e)
      <3>1. LedgerWrite(e)
        BY <1>0, StepWritesThese DEF StepWrites
      <3>2. ~At(e, "send")
        BY <1>1, <2>2 DEF SubmissionInv, MarkerInv, Marked, Kept, Terminal
      <3> QED
        BY <1>1, <2>2, <3>1, <3>2 DEF LedgerWrite
    <2> QED
      BY <2>1, <2>2
  <1> QED
    BY <1>1, TerminalStays DEF SettledStep

LEMMA EnvironmentSettled ==
  ASSUME OutcomeInv, Next, ~\E e \in Execs : Step(e)
  PROVE  SettledStep
  BY EnvironmentOutcome DEF SettledStep

(* No step moves a settled row or submits anything for it: the where       *)
(* clause of every write looks at the status, and whoever is about to call *)
(* the provider holds a row that is PROCESSING.                            *)
THEOREM SettledRowsStay == Spec => SettledStays
  <1>1. OutcomeInv /\ [Next]_vars => [SettledStep]_vars
    BY StepSettled, EnvironmentSettled DEF OutcomeInv
  <1> QED
    BY <1>1, OutcomeInvariant, PTL DEF Spec, SettledStays
-----------------------------------------------------------------------------
(* One channel accepts: ChannelInv assumes that no call of the database    *)
(* throws.                                                                 *)

LEMMA NoFaults ==
  ASSUME TypeOK, MaxDbFaults = 0
  PROVE  ~DbThrows
  BY DEF TypeOK, DbThrows

(* Every step but the two that record a rejection changes the label only.  *)
LEMMA PlainStep ==
  ASSUME TypeOK, ~DbThrows, NEW e \in Execs, Step(e),
         ~AnswerRejected(e), ~MarkFailed(e)
  PROVE  \E l \in Label \ {"idle", "crashed", "markFailed"} : exec'[e] = To(e, l)
  <1>key. exec \in [Execs -> LocalState]
    BY DEF TypeOK
  <1>1. ASSUME NEW l, l \in Label, l # "markFailed", l # "idle",
               l # "crashed",
               exec'[e] = To(e, l)
        PROVE  \E m \in Label \ {"idle", "crashed", "markFailed"} : exec'[e] = To(e, m)
    BY <1>1
  <1>2. CASE CreateIfMissing(e)
    BY <1>2, <1>key, <1>1, Labels DEF CreateIfMissing, UpdateDelivery
  <1>3. CASE GetByDeliveryKey(e)
    BY <1>3, <1>key, <1>1, Labels DEF GetByDeliveryKey, AfterRead
  <1>4. CASE ReconcileSentFromDelivery(e)
    BY <1>4, <1>key, <1>1, Labels DEF ReconcileSentFromDelivery, UpdateParent
  <1>5. CASE ClaimPrimaryAttempt(e)
    BY <1>5, <1>key, <1>1, Labels DEF ClaimPrimaryAttempt
  <1>6. CASE MarkProcessing(e)
    BY <1>6, <1>key, <1>1, Labels DEF MarkProcessing, UpdateDelivery
  <1>7. CASE MarkProviderSubmissionStarted(e)
    BY <1>7, <1>key, <1>1, Labels
       DEF MarkProviderSubmissionStarted, UpdateDelivery
  <1>8. CASE Send(e)
    BY <1>8, <1>key, <1>1, Labels DEF Send
  <1>9. CASE AnswerUncertain(e)
    BY <1>9, <1>key, <1>1, Labels DEF AnswerUncertain
  <1>10. CASE AnswerSuccess(e)
    BY <1>10, <1>key, <1>1, Labels DEF AnswerSuccess
  <1>11. CASE MarkSent(e)
    BY <1>11, <1>key, <1>1, Labels DEF MarkSent, UpdateDelivery
  <1>12. CASE MarkAcceptanceUnknown(e)
    <2>1. \/ exec'[e] = To(e, "parentMarkUnknown")
          \/ exec'[e] = To(e, "return")
      BY <1>12, <1>key DEF MarkAcceptanceUnknown, UpdateDelivery
    <2> QED
      BY <2>1, <1>1, Labels
  <1>13. CASE ParentMarkAcceptanceUnknown(e)
    BY <1>13, <1>key, <1>1, Labels DEF ParentMarkAcceptanceUnknown, UpdateParent
  <1>14. CASE ParentMarkSent(e)
    BY <1>14, <1>key, <1>1, Labels DEF ParentMarkSent, UpdateParent
  <1>15. CASE ParentMarkRetrying(e)
    BY <1>15, <1>key, <1>1, Labels DEF ParentMarkRetrying, UpdateParent
  <1>16. CASE ParentMarkFailed(e)
    BY <1>16, <1>key, <1>1, Labels DEF ParentMarkFailed, UpdateParent
  <1>17. CASE Return(e)
    BY <1>17, <1>key, <1>1, Labels DEF Return
  <1>18. CASE Throw(e)
    BY <1>18, <1>key, <1>1, Labels DEF Throw
  <1> QED
    BY <1>2, <1>3, <1>4, <1>5, <1>6, <1>7, <1>8, <1>9, <1>10, <1>11, <1>12,
       <1>13, <1>14, <1>15, <1>16, <1>17, <1>18 DEF Step

(* What a rejection leads to: the recording of it, or the second channel.  *)
LEMMA RejectionLeads ==
  ASSUME TypeOK, NEW e \in Execs, AnswerRejected(e)
  PROVE  /\ At(e, "inflight") /\ Open(e, Key(e))
         /\ ledger'[e][Key(e)] = "rejected"
         /\ delivery' = delivery
         /\ \/ exec'[e] = ToFail(e, "refused")
            \/ exec'[e] = ToFail(e, "retry")
            \/ /\ exec'[e] = ToFail(e, "terminal")
               /\ exec[e].pos = 1 /\ Len(Chain[exec[e].job]) = 1
            \/ /\ exec'[e] = ToChannel(e, 2)
               /\ exec[e].pos = 1 /\ HasFallback(e)
  <1>1. /\ exec \in [Execs -> LocalState]
        /\ ledger \in [Execs -> [Deliveries -> Outcome]]
        /\ exec[e].pc # "idle"
    BY DEF TypeOK, AnswerRejected, At
  <1>2. /\ exec[e].job \in Jobs /\ exec[e].pos \in 1..Len(Chain[exec[e].job])
        /\ Len(Chain[exec[e].job]) \in Nat /\ Key(e) \in Deliveries
        /\ (IsReplay(e) => Len(Chain[exec[e].job]) = 1)
    BY <1>1, KeyType, KeysAreDistinct DEF IsReplay
  <1>3. PICK r \in BOOLEAN : exec'[e] = AfterRejection(e, r)
    BY <1>1 DEF AnswerRejected
  <1>4. /\ At(e, "inflight") /\ Open(e, Key(e))
        /\ ledger'[e][Key(e)] = "rejected" /\ delivery' = delivery
    BY <1>1, <1>2 DEF AnswerRejected, Open
  <1> QED
    <2>1. CASE InFallback(e)
      BY <1>3, <1>4, <2>1 DEF AfterRejection
    <2>2. CASE ~InFallback(e) /\ ShouldRetry(e, r)
      BY <1>3, <1>4, <2>2 DEF AfterRejection
    <2>3. CASE ~InFallback(e) /\ ~ShouldRetry(e, r)
      <3>1. exec[e].pos = 1
        BY <1>2, <2>3 DEF InFallback
      <3>2. ~HasFallback(e) => Len(Chain[exec[e].job]) = 1
        <4>1. CASE IsReplay(e)
          BY <1>2, <4>1
        <4>2. CASE ~IsReplay(e) /\ ~(exec[e].pos < Len(Chain[exec[e].job]))
          <5> DEFINE n == Len(Chain[exec[e].job])
          <5>1. n \in Nat /\ 1 \in 1..n /\ ~(1 < n)
            BY <1>2, <3>1, <4>2
          <5> HIDE DEF n
          <5>2. n = 1
            BY <5>1
          <5> QED
            BY <5>2 DEF n
        <4> QED
          BY <4>1, <4>2, Zenon DEF HasFallback
      <3>3. exec'[e] = IF HasFallback(e) THEN ToChannel(e, 2)
                                         ELSE ToFail(e, "terminal")
        BY <1>3, <2>3 DEF AfterRejection
      <3> QED
        BY <1>4, <3>1, <3>2, <3>3
    <2> QED
      BY <2>1, <2>2, <2>3

(* Where a recorded failure leads without database faults.                 *)
LEMMA FailureLeads ==
  ASSUME TypeOK, ~DbThrows, NEW e \in Execs, LedgerFollows(e),
         MarkFailed(e)
  PROVE  /\ At(e, "markFailed") /\ ledger' = ledger
         /\ \/ \E l \in Label \ {"idle", "crashed", "markFailed"} : exec'[e] = To(e, l)
            \/ /\ HasFallback(e) /\ InFallback(e) /\ exec[e].why # "terminal"
               /\ exec'[e] = ToChannel(e, exec[e].pos + 1)
            \/ /\ exec[e].pos = Len(Chain[exec[e].job])
               /\ exec'[e] = Move(e, "markFailed", 1, "terminal")
  <1>1. exec \in [Execs -> LocalState] /\ exec[e].pc # "idle"
    BY DEF TypeOK, MarkFailed, At
  <1>2. /\ exec[e].pos \in 1..Len(Chain[exec[e].job])
        /\ Len(Chain[exec[e].job]) \in Nat /\ exec[e].job \in Jobs
        /\ (IsReplay(e) => Len(Chain[exec[e].job]) = 1)
    BY <1>1, KeyType, KeysAreDistinct DEF IsReplay
  <1>3. At(e, "markFailed") /\ ledger' = ledger
    BY DEF MarkFailed
  <1>4. exec'[e] = AfterFailed(e) \/ exec'[e] = To(e, "throw")
    BY <1>1 DEF MarkFailed, UpdateDelivery
  <1>5. CASE exec'[e] = To(e, "throw")
    BY <1>3, <1>5, Labels
  <1>6. CASE exec'[e] = AfterFailed(e) /\ exec[e].why \in {"refused", "error"}
    <2>1. exec'[e] = NextChannel(e) /\ InFallback(e)
      BY <1>6 DEF AfterFailed, LedgerFollows
    <2>2. ~HasFallback(e) => exec[e].pos = Len(Chain[exec[e].job])
      <3> DEFINE n == Len(Chain[exec[e].job])
                 p == exec[e].pos
      <3>1. n \in Nat /\ p \in 1..n /\ p > 1 /\ (IsReplay(e) => n = 1)
        BY <1>2, <2>1 DEF InFallback
      <3>2. ~HasFallback(e) => IsReplay(e) \/ ~(p < n)
        BY Zenon DEF HasFallback
      <3> HIDE DEF n, p
      <3>3. ~(p < n) => p = n
        BY <3>1
      <3>4. ~IsReplay(e)
        BY <3>1
      <3> QED
        BY <3>2, <3>3, <3>4 DEF n, p
    <2>3. exec[e].why # "terminal"
      BY <1>6
    <2>4. exec'[e] = IF HasFallback(e) THEN ToChannel(e, exec[e].pos + 1)
                     ELSE Move(e, "markFailed", 1, "terminal")
      BY <2>1 DEF NextChannel
    <2> QED
      BY <1>3, <2>1, <2>2, <2>3, <2>4
  <1>7. CASE exec'[e] = AfterFailed(e) /\ exec[e].why \notin {"refused", "error"}
    <2>1. \/ exec'[e] = To(e, "throw")
          \/ exec'[e] = To(e, "return")
          \/ exec'[e] = To(e, "parentMarkRetrying")
          \/ exec'[e] = To(e, "parentMarkFailed")
      BY <1>7 DEF AfterFailed
    <2> QED
      BY <1>3, <2>1, Labels
  <1> QED
    BY <1>4, <1>5, <1>6, <1>7

-----------------------------------------------------------------------------
(* The channels an execution has gone past.                                *)

LEMMA StepChain ==
  ASSUME SubmissionInv, MaxDbFaults = 0, NEW e \in Execs, Step(e),
         ChainFollows(e)
  PROVE  ChainFollows(e)'
  <1>0. TypeOK /\ TypeOK' /\ LedgerFollows(e)
    BY StepTypeOK DEF SubmissionInv
  <1> DEFINE chain == Chain[exec[e].job]
  <1>1. /\ exec[e].pc # "idle" /\ exec[e].job \in Jobs
        /\ exec[e].pos \in 1..Len(chain) /\ Len(chain) \in Nat
        /\ Key(e) \in Deliveries
    BY <1>0, StepRuns, KeyType
  <1>2. exec'[e].job = exec[e].job
    BY <1>0, StepFrame
  <1>3. \A d \in Deliveries : d # Key(e) => ledger'[e][d] = ledger[e][d]
    BY <1>0, StepFrame
  <1>4. \A k \in 1..Len(chain) : k # exec[e].pos =>
          /\ chain[k] \in Deliveries
          /\ ledger'[e][chain[k]] = ledger[e][chain[k]]
    BY <1>0, <1>1, <1>3, OtherKey
  <1>5. chain[exec[e].pos] = Key(e)
    BY DEF Key
  <1>6. exec'[e].pc # "idle"
    <2>1. CASE AnswerRejected(e)
      <3>1. \/ \E w : exec'[e] = ToFail(e, w)
            \/ exec'[e] = ToChannel(e, 2)
        BY <1>0, <2>1, RejectionLeads
      <3>2. CASE \E w : exec'[e] = ToFail(e, w)
        BY <3>2 DEF ToFail, Move
      <3>3. CASE exec'[e] = ToChannel(e, 2)
        BY <3>3 DEF ToChannel, Move
      <3> QED
        BY <3>1, <3>2, <3>3
    <2>2. CASE MarkFailed(e)
      <3>1. \/ \E l \in Label \ {"idle", "crashed", "markFailed"} : exec'[e] = To(e, l)
            \/ exec'[e] = ToChannel(e, exec[e].pos + 1)
            \/ exec'[e] = Move(e, "markFailed", 1, "terminal")
        BY <1>0, <2>2, FailureLeads, NoFaults
      <3>2. CASE \E l \in Label \ {"idle", "crashed", "markFailed"} : exec'[e] = To(e, l)
        BY <3>2 DEF To, Move
      <3>3. CASE exec'[e] = ToChannel(e, exec[e].pos + 1)
        BY <3>3 DEF ToChannel, Move
      <3>4. CASE exec'[e] = Move(e, "markFailed", 1, "terminal")
        BY <3>4 DEF Move
      <3> QED
        BY <3>1, <3>2, <3>3, <3>4
    <2>3. CASE ~AnswerRejected(e) /\ ~MarkFailed(e)
      <3>1. \E l \in Label \ {"idle", "crashed", "markFailed"} : exec'[e] = To(e, l)
        BY <1>0, <2>3, PlainStep, NoFaults
      <3> QED
        BY <3>1 DEF To, Move
    <2> QED
      BY <2>1, <2>2, <2>3
  <1>7. ASSUME NEW d \in Deliveries, ledger'[e][d] # "none"
        PROVE  \E k \in 1..Len(chain) : d = chain[k]
    BY <1>1, <1>3, <1>5, <1>7 DEF ChainFollows
  <1>8. ASSUME NEW k \in 1..Len(chain),
               \/ k < exec'[e].pos
               \/ k = exec'[e].pos /\ exec'[e].pc = "markFailed"
               \/ exec'[e].why = "terminal"
        PROVE  ledger'[e][chain[k]] \notin {"accepted", "dropped"}
    <2>0. ASSUME k < exec[e].pos \/ exec[e].why = "terminal", k # exec[e].pos
          PROVE  ledger'[e][chain[k]] \notin {"accepted", "dropped"}
      BY <1>1, <1>4, <2>0 DEF ChainFollows, At, Open
    <2>1. CASE AnswerRejected(e)
      <3>1. /\ ledger'[e][Key(e)] = "rejected"
            /\ \/ exec'[e] = ToFail(e, "refused")
               \/ exec'[e] = ToFail(e, "retry")
               \/ /\ exec'[e] = ToFail(e, "terminal")
                  /\ exec[e].pos = 1 /\ Len(chain) = 1
               \/ exec'[e] = ToChannel(e, 2) /\ exec[e].pos = 1
        BY <1>0, <2>1, RejectionLeads
      <3>2. k = exec[e].pos \/ k < exec[e].pos
        <4>1. CASE exec'[e] = ToFail(e, "refused") \/ exec'[e] = ToFail(e, "retry")
          BY <1>1, <1>8, <4>1 DEF ToFail, Move
        <4>2. CASE Len(chain) = 1 /\ exec[e].pos = 1
          BY <1>1, <4>2
        <4>3. CASE exec'[e] = ToChannel(e, 2) /\ exec[e].pos = 1
          BY <1>1, <1>8, <4>3 DEF ToChannel, Move
        <4> QED
          BY <3>1, <4>1, <4>2, <4>3
      <3> QED
        BY <1>1, <1>5, <2>0, <3>1, <3>2
    <2>2. CASE MarkFailed(e)
      <3>1. /\ At(e, "markFailed") /\ ledger' = ledger
            /\ \/ \E l \in Label \ {"idle", "crashed", "markFailed"} : exec'[e] = To(e, l)
               \/ exec'[e] = ToChannel(e, exec[e].pos + 1)
               \/ /\ exec[e].pos = Len(chain)
                  /\ exec'[e] = Move(e, "markFailed", 1, "terminal")
        BY <1>0, <2>2, FailureLeads, NoFaults
      <3>2. \/ k <= exec[e].pos
            \/ exec[e].why = "terminal"
        <4>1. CASE \E l \in Label \ {"idle", "crashed", "markFailed"} : exec'[e] = To(e, l)
          BY <1>1, <1>8, <4>1 DEF To, Move
        <4>2. CASE exec'[e] = ToChannel(e, exec[e].pos + 1)
          BY <1>1, <1>8, <4>2 DEF ToChannel, Move
        <4>3. CASE exec[e].pos = Len(chain)
          BY <1>1, <4>3
        <4> QED
          BY <3>1, <4>1, <4>2, <4>3
      <3>3. ~Open(e, chain[k])
        BY <1>1, <3>1, <3>2 DEF ChainFollows, At
      <3> QED
        BY <3>1, <3>3 DEF Open
    <2>3. CASE ~AnswerRejected(e) /\ ~MarkFailed(e)
      <3>1. PICK l \in Label \ {"idle", "crashed", "markFailed"} : exec'[e] = To(e, l)
        BY <1>0, <2>3, PlainStep, NoFaults
      <3>2. k < exec[e].pos \/ exec[e].why = "terminal"
        BY <1>8, <3>1 DEF To, Move
      <3>3. CASE k # exec[e].pos
        BY <2>0, <3>2, <3>3
      <3>4. CASE k = exec[e].pos
        <4>1. exec[e].why = "terminal" /\ exec[e].pc \in Failing
          BY <1>0, <1>1, <3>2, <3>4 DEF LedgerFollows
        <4>2. ledger' = ledger
          <5>1. LedgerWrite(e)
            BY <1>0, StepWritesThese DEF StepWrites
          <5> QED
            BY <4>1, <5>1 DEF LedgerWrite, At, Failing
        <4> QED
          BY <1>1, <4>1, <4>2 DEF ChainFollows, At, Open
      <3> QED
        BY <3>3, <3>4
    <2> QED
      BY <2>1, <2>2, <2>3
  <1> QED
    BY <1>2, <1>6, <1>7, <1>8 DEF ChainFollows, At, Open
-----------------------------------------------------------------------------
(* Which handler runs at a label.                                          *)

LEMMA LeavesMarker ==
  ASSUME NEW e \in Execs, Step(e), At(e, "markProviderSubmissionStarted")
  PROVE  MarkProviderSubmissionStarted(e)
  BY DEF Step, At, CreateIfMissing, GetByDeliveryKey,
         ReconcileSentFromDelivery, ClaimPrimaryAttempt, MarkProcessing, Send,
         AnswerUncertain, AnswerSuccess, AnswerRejected, MarkSent,
         MarkAcceptanceUnknown, ParentMarkAcceptanceUnknown, MarkFailed,
         ParentMarkSent, ParentMarkRetrying, ParentMarkFailed, Return, Throw

LEMMA LeavesClaim ==
  ASSUME NEW e \in Execs, Step(e), At(e, "claim"), ClaimsParent(e)
  PROVE  ClaimPrimaryAttempt(e)
  BY SMTT(60) DEF Step, At, CreateIfMissing, GetByDeliveryKey,
         ReconcileSentFromDelivery, MarkProcessing,
         MarkProviderSubmissionStarted, Send,
         AnswerUncertain, AnswerSuccess, AnswerRejected, MarkSent,
         MarkAcceptanceUnknown, ParentMarkAcceptanceUnknown, MarkFailed,
         ParentMarkSent, ParentMarkRetrying, ParentMarkFailed, Return, Throw

(* An execution commits itself at the marker of the primary, which it finds *)
(* unset and sets, and by no other step.                                    *)
CommitsNow(e) ==
  /\ Key(e) = Primary /\ OwnsDelivery(e, Primary)
  /\ ~delivery[Primary].started
  /\ delivery'[Primary] = [delivery[Primary] EXCEPT !.started = TRUE]

LEMMA CommitsAtMarker ==
  ASSUME SubmissionInv, MaxDbFaults = 0, NEW e \in Execs, Step(e),
         Committed(e)'
  PROVE  Committed(e) \/ CommitsNow(e)
  <1>0. TypeOK /\ LedgerFollows(e)
    BY DEF SubmissionInv
  <1> DEFINE chain == Chain[exec[e].job]
  <1>1. /\ exec[e].pc # "idle" /\ exec[e].job \in Jobs
        /\ exec[e].pos \in 1..Len(chain) /\ Len(chain) \in Nat
        /\ exec[e].pos \in Nat
        /\ Key(e) \in Deliveries
        /\ Key(e) = Primary <=> ~IsReplay(e) /\ ~InFallback(e)
    BY <1>0, StepRuns, KeyType DEF ClaimsParent
  <1>2. exec'[e].job = exec[e].job
    BY <1>0, StepFrame
  <1>3. ~IsReplay(e)
    BY <1>2 DEF Committed, IsReplay
  <1>4. CASE InFallback(e)
    BY <1>1, <1>3, <1>4 DEF Committed, At
  <1>5. CASE ~InFallback(e) /\ Marked(e, Primary)'
    <2>1. MarkProviderSubmissionStarted(e)
      BY <1>0, <1>5, StepWritesThese, LeavesMarker
         DEF StepWrites, Arrives, Marked, At
    <2>2. Key(e) = Primary /\ exec \in [Execs -> LocalState]
      BY <1>0, <1>1, <1>3, <1>5 DEF TypeOK
    <2>3. exec'[e].pc = "send"
      BY <1>5 DEF Marked, At
    <2>4. OwnsDelivery(e, Primary) /\ ~delivery[Primary].started
          /\ delivery' = [delivery EXCEPT ![Primary] =
                            [delivery[Primary] EXCEPT !.started = TRUE]]
      BY <1>0, <2>1, <2>2, <2>3, NoFaults
         DEF MarkProviderSubmissionStarted, UpdateDelivery, To, Move
    <2>5. Primary \in Deliveries /\ delivery \in [Deliveries -> DeliveryRow]
      BY <1>0, ChainsAreKeys DEF TypeOK
    <2> QED
      BY <2>2, <2>4, <2>5 DEF CommitsNow
  <1>6. CASE ~InFallback(e) /\ InFallback(e)'
    <2>1. exec[e].pos = 1 /\ exec'[e].pos # 1
      BY <1>1, <1>6 DEF InFallback
    <2>2. AnswerRejected(e)
      <3>1. CASE MarkFailed(e)
        <4>1. \/ \E l \in Label \ {"idle", "crashed", "markFailed"} : exec'[e] = To(e, l)
              \/ exec'[e] = Move(e, "markFailed", 1, "terminal")
          BY <1>0, <1>6, <3>1, FailureLeads, NoFaults
        <4>2. CASE \E l \in Label \ {"idle", "crashed", "markFailed"} : exec'[e] = To(e, l)
          BY <2>1, <4>2 DEF To, Move
        <4>3. CASE exec'[e] = Move(e, "markFailed", 1, "terminal")
          BY <2>1, <4>3 DEF Move
        <4> QED
          BY <4>1, <4>2, <4>3
      <3>2. CASE ~AnswerRejected(e) /\ ~MarkFailed(e)
        <4>1. PICK l \in Label \ {"idle", "crashed", "markFailed"} : exec'[e] = To(e, l)
          BY <1>0, <3>2, PlainStep, NoFaults
        <4> QED
          BY <2>1, <4>1 DEF To, Move
      <3> QED
        BY <3>1, <3>2
    <2>3. Open(e, Key(e))
      BY <1>0, <2>2, RejectionLeads
    <2> QED
      BY <1>1, <1>3, <2>3 DEF Committed, At, Key
  <1>7. CASE /\ ~InFallback(e)
             /\ \E k \in 1..Len(chain) :
                  ledger'[e][chain[k]] \in {"accepted", "dropped"}
    <2>1. PICK k \in 1..Len(chain) :
            ledger'[e][chain[k]] \in {"accepted", "dropped"}
      BY <1>7
    <2>2. CASE Open(e, chain[k])
      BY <1>1, <1>3, <2>2 DEF Committed, At
    <2>3. CASE ~Open(e, chain[k])
      <3>1. ledger'[e][chain[k]] # ledger[e][chain[k]]
        BY <2>1, <2>3 DEF Open
      <3>2. chain[k] = Key(e)
        <4>1. k # exec[e].pos => chain[k] \in Deliveries
          BY <1>0, <1>1, OtherKey
        <4>2. k = exec[e].pos => chain[k] = Key(e)
          BY DEF Key
        <4> QED
          BY <1>0, <3>1, <4>1, <4>2, StepFrame
      <3>3. LedgerWrite(e)
        BY <1>0, StepWritesThese DEF StepWrites
      <3>4. At(e, "send")
        BY <2>1, <3>1, <3>2, <3>3 DEF LedgerWrite, Open
      <3> QED
        BY <1>1, <1>3, <1>7, <3>4 DEF Committed, Marked, At
    <2> QED
      BY <2>2, <2>3
  <1> QED
    BY <1>2, <1>4, <1>5, <1>6, <1>7 DEF Committed, Open

(* Who owns a started primary and is blocked on it stays blocked.          *)
LEMMA StaysBlocked ==
  ASSUME SubmissionInv, MaxDbFaults = 0, NEW e \in Execs, Step(e),
         Blocked(e, Primary), delivery[Primary].started
  PROVE  Blocked(e, Primary)'
  <1>0. TypeOK /\ LedgerFollows(e) /\ exec \in [Execs -> LocalState]
    BY DEF SubmissionInv, TypeOK
  <1>1. CASE exec[e].pc \in Stopped
    BY <1>0, <1>1, StepShape DEF Blocked, Stopped
  <1>2. CASE At(e, "markProviderSubmissionStarted") /\ Key(e) = Primary
    <2>1. MarkProviderSubmissionStarted(e)
      BY <1>0, <1>2, LeavesMarker
    <2>2. exec'[e] = To(e, "throw")
      BY <1>0, <1>2, <2>1, NoFaults
         DEF MarkProviderSubmissionStarted, UpdateDelivery
    <2> QED
      BY <2>2 DEF Blocked, To, Move
  <1> QED
    BY <1>1, <1>2 DEF Blocked, Stopped

(* A claim of the primary leads to its marker.                             *)
LEMMA ClaimBlocks ==
  ASSUME SubmissionInv, MaxDbFaults = 0, NEW e \in Execs, Step(e),
         At(e, "claim"), Key(e) = Primary,
         delivery'[Primary] # delivery[Primary]
  PROVE  Blocked(e, Primary)'
  <1>0. TypeOK /\ LedgerFollows(e) /\ exec \in [Execs -> LocalState]
    BY DEF SubmissionInv, TypeOK
  <1>1. ClaimPrimaryAttempt(e)
    BY <1>0, LeavesClaim, StepRuns, KeyType
  <1>2. exec'[e] = To(e, "markProviderSubmissionStarted")
    BY <1>0, <1>1, NoFaults DEF ClaimPrimaryAttempt
  <1> QED
    BY <1>2 DEF Blocked, At, Key, To, Move

LEMMA StepChannel ==
  ASSUME SubmissionInv, ChannelInv, NEW e \in Execs, Step(e)
  PROVE  ChannelInv'
  <1> SUFFICES ASSUME MaxDbFaults = 0 PROVE ChannelInv'
    BY DEF ChannelInv
  <1>0. TypeOK /\ LedgerFollows(e)
    BY DEF SubmissionInv
  <1>1. /\ exec[e].pc # "idle" /\ exec[e].job \in Jobs
        /\ exec[e].pos \in 1..Len(Chain[exec[e].job])
        /\ Len(Chain[exec[e].job]) \in Nat
        /\ exec[e].pos \in Nat
        /\ Key(e) = Primary <=> ~IsReplay(e) /\ ~InFallback(e)
        /\ Primary \in Deliveries /\ delivery[Primary] \in DeliveryRow
    BY <1>0, StepRuns, KeyType, ChainsAreKeys DEF ClaimsParent, TypeOK
  <1>2. \A f \in Execs : f # e => exec'[f] = exec[f] /\ ledger'[f] = ledger[f]
    BY <1>0, StepFrame
  <1>3. \A f \in Execs : ChainFollows(f)'
    <2>1. ChainFollows(e)'
      BY StepChain DEF ChannelInv
    <2>2. ASSUME NEW f \in Execs, f # e PROVE ChainFollows(f)'
      BY <1>2, <2>2 DEF ChannelInv, ChainFollows, At, Open
    <2> QED
      BY <2>1, <2>2
  <1>4. \A f \in Execs : f # e =>
          /\ Committed(f)' => Committed(f)
          /\ Blocked(f, Primary) => Blocked(f, Primary)'
    BY <1>2 DEF Committed, Blocked, Marked, InFallback, IsReplay, Open, At, Key
  <1>5. Committed(e)' => Committed(e) \/ CommitsNow(e)
    BY CommitsAtMarker
  <1>6. CASE CommitsNow(e)
    <2>1. \A f \in Execs : ~Committed(f)
      BY <1>6 DEF ChannelInv, CommitsNow, OwnsDelivery
    <2>2. \A f \in Execs : Committed(f)' => f = e
      BY <1>4, <2>1
    <2>3. /\ delivery'[Primary].started
          /\ delivery'[Primary].status = "PROCESSING"
          /\ delivery'[Primary].token = e
      BY <1>1, <1>6 DEF CommitsNow, OwnsDelivery, DeliveryRow
    <2> QED
      BY <1>3, <2>2, <2>3 DEF ChannelInv, OwnsDelivery
  <1>7. CASE ~CommitsNow(e)
    <2>0. \A f \in Execs : Committed(f)' => Committed(f)
      BY <1>4, <1>5, <1>7
    <2>1. SUFFICES ASSUME NEW g \in Execs, Committed(g)
                   PROVE  /\ \/ delivery'[Primary].status = "SENT"
                             \/ /\ delivery'[Primary].started
                                /\ delivery'[Primary].status
                                     \in {"PROCESSING", "ACCEPTANCE_UNKNOWN"}
                          /\ \A f \in Execs : OwnsDelivery(f, Primary)' =>
                               f = g \/ Blocked(f, Primary)'
      BY <1>3, <2>0 DEF ChannelInv
    <2>2. /\ \/ delivery[Primary].status = "SENT"
             \/ /\ delivery[Primary].started
                /\ delivery[Primary].status
                     \in {"PROCESSING", "ACCEPTANCE_UNKNOWN"}
          /\ \A f \in Execs : OwnsDelivery(f, Primary) =>
               f = g \/ Blocked(f, Primary)
      BY <2>1 DEF ChannelInv
    <2>3. CASE delivery'[Primary] = delivery[Primary]
      <3>1. \A f \in Execs : OwnsDelivery(f, Primary)' <=> OwnsDelivery(f, Primary)
        BY <2>3 DEF OwnsDelivery
      <3>2. OwnsDelivery(e, Primary) /\ Blocked(e, Primary) => Blocked(e, Primary)'
        BY <2>2, StaysBlocked DEF OwnsDelivery
      <3> QED
        BY <1>4, <2>2, <2>3, <3>1, <3>2
    <2>4. CASE delivery'[Primary] # delivery[Primary]
      <3>1. Key(e) = Primary
        BY <1>0, <1>1, <2>4, StepShape
      <3>2. RowWrite(e, Primary)
        BY <1>0, <3>1, StepWritesThese DEF StepWrites
      <3>3. CASE At(e, "claim") /\ Claimable(delivery[Primary])
                 /\ delivery'[Primary] = Taken(e, Primary)
        <4>1. Blocked(e, Primary)'
          BY <2>4, <3>1, <3>3, ClaimBlocks
        <4>2. /\ delivery'[Primary].token = e
              /\ delivery'[Primary].status = "PROCESSING"
              /\ delivery'[Primary].started = delivery[Primary].started
          BY <3>3 DEF Taken
        <4>3. delivery[Primary].started
          BY <2>2, <3>3 DEF Claimable, Terminal
        <4> QED
          BY <4>1, <4>2, <4>3 DEF OwnsDelivery
      <3>4. CASE \/ delivery'[Primary] = Settled("SENT", FALSE)
                 \/ delivery'[Primary] = Settled("ACCEPTANCE_UNKNOWN", TRUE)
        BY <3>4 DEF Settled, OwnsDelivery
      <3>5. ~(At(e, "markFailed") /\ OwnsDelivery(e, Primary))
        <4>1. SUFFICES ASSUME At(e, "markFailed"), OwnsDelivery(e, Primary)
                       PROVE  FALSE
          OBVIOUS
        <4>2. g = e
          BY <2>2, <4>1 DEF Blocked, At
        <4>3. exec[e].pos = 1
          BY <1>1, <3>1 DEF InFallback
        <4>4. PICK k \in 1..Len(Chain[exec[e].job]) :
                Open(e, Chain[exec[e].job][k])
          BY <1>1, <2>1, <3>1, <4>1, <4>2 DEF Committed, Marked, At
        <4>5. ~(k = 1) /\ exec[e].why # "terminal"
          BY <1>1, <4>1, <4>3, <4>4 DEF ChannelInv, ChainFollows, At
        <4>6. ledger[e][Chain[exec[e].job][k]] = "none"
          BY <1>0, <1>1, <4>1, <4>3, <4>5 DEF LedgerFollows, At
        <4> QED
          BY <4>4, <4>6 DEF Open
      <3>6. delivery[Primary].status # "ABSENT"
            /\ ~(OwnsDelivery(e, Primary) /\ ~delivery[Primary].started)
        BY <2>2 DEF OwnsDelivery
      <3> QED
        BY <2>4, <3>2, <3>3, <3>4, <3>5, <3>6 DEF RowWrite
    <2> QED
      BY <2>3, <2>4
  <1> QED
    BY <1>6, <1>7

(* What another execution does leaves this one where it is.                *)
LEMMA SameCall ==
  ASSUME NEW e \in Execs, exec'[e] = exec[e], ledger' = ledger
  PROVE  /\ ChainFollows(e)' <=> ChainFollows(e)
         /\ Committed(e)' <=> Committed(e)
         /\ Blocked(e, Primary)' <=> Blocked(e, Primary)
  <1>1. ChainFollows(e)' <=> ChainFollows(e)
    BY Zenon DEF ChainFollows, Open, At
  <1>2. Key(e)' = Key(e)
    BY DEF Key
  <1>3. Committed(e)' <=> Committed(e)
    <2>1. Marked(e, Primary)' <=> Marked(e, Primary)
      BY <1>2 DEF Marked, At
    <2>2. InFallback(e)' <=> InFallback(e)
      BY DEF InFallback
    <2> QED
      BY <2>1, <2>2, Zenon DEF Committed, At, IsReplay, Open
  <1>4. Blocked(e, Primary)' <=> Blocked(e, Primary)
    BY <1>2 DEF Blocked, At
  <1> QED
    BY <1>1, <1>3, <1>4

(* Outside the executions' own steps nobody commits himself and the        *)
(* primary keeps owner, status and marker.                                 *)
LEMMA EnvironmentChannel ==
  ASSUME SubmissionInv, ChannelInv, Next, ~\E e \in Execs : Step(e)
  PROVE  ChannelInv'
  <1> SUFFICES ASSUME MaxDbFaults = 0 PROVE ChannelInv'
    BY DEF ChannelInv
  <1>type. /\ exec \in [Execs -> LocalState]
           /\ delivery \in [Deliveries -> DeliveryRow]
           /\ Primary \in Deliveries
    BY ChainsAreKeys DEF SubmissionInv, TypeOK
  <1>1. ASSUME ledger' = ledger, Frozen(Primary),
               \A f \in Execs : /\ ChainFollows(f)'
                                /\ Committed(f)' => Committed(f)
                                /\ Blocked(f, Primary) => Blocked(f, Primary)'
        PROVE  ChannelInv'
    BY <1>1 DEF ChannelInv, Frozen, OwnsDelivery
  <1>2. ASSUME NEW f \in Execs, exec'[f] = exec[f], ledger' = ledger
        PROVE  /\ ChainFollows(f)'
               /\ Committed(f)' => Committed(f)
               /\ Blocked(f, Primary) => Blocked(f, Primary)'
    BY <1>2, SameCall DEF ChannelInv
  <1>3. ASSUME NEW e \in Execs, NEW j \in Jobs, PickUp(e, j)
        PROVE  ChannelInv'
    <2>1. /\ ledger' = ledger /\ delivery' = delivery /\ exec[e].pc = "idle"
          /\ \A f \in Execs : f # e => exec'[f] = exec[f]
          /\ exec'[e].pc = "createIfMissing" /\ exec'[e].job = j
          /\ exec'[e].pos = 1 /\ exec'[e].why = "none"
      BY <1>3, <1>type DEF PickUp, rows, faults, At
    <2>2. \A d \in Deliveries : ledger[e][d] = "none"
      BY <2>1 DEF SubmissionInv, LedgerFollows, At
    <2>3. \A k \in 1..Len(Chain[j]) : Chain[j][k] \in Deliveries
      BY ChainsAreKeys
    <2>4. ChainFollows(e)' /\ ~Committed(e)'
      BY <2>1, <2>2, <2>3
         DEF ChainFollows, Committed, Marked, InFallback, Open, At
    <2>5. ~Blocked(e, Primary)
      BY <2>1 DEF Blocked, At
    <2> QED
      BY <1>1, <1>2, <2>1, <2>4, <2>5 DEF Frozen
  <1>4. ASSUME NEW e \in Execs, Crash(e)
        PROVE  ChannelInv'
    <2>1. /\ ledger' = ledger /\ delivery' = delivery /\ exec[e].pc # "idle"
          /\ \A f \in Execs : f # e => exec'[f] = exec[f]
          /\ exec'[e].pc = "crashed" /\ exec'[e].job = exec[e].job
          /\ exec'[e].pos = exec[e].pos /\ exec'[e].why = exec[e].why
      BY <1>4, <1>type DEF Crash, rows, Running, To, Move
    <2>2. ChainFollows(e)' /\ Blocked(e, Primary)'
      <3>1. ChainFollows(e)
        BY DEF ChannelInv
      <3>2. ChainFollows(e)'
        <4>1. \A d \in Deliveries : ledger[e][d] # "none" =>
                \E k \in 1..Len(Chain[exec[e].job]) : d = Chain[exec[e].job][k]
          BY <3>1 DEF ChainFollows
        <4>2. \A k \in 1..Len(Chain[exec[e].job]) :
                k < exec[e].pos \/ exec[e].why = "terminal" =>
                  ledger[e][Chain[exec[e].job][k]] \notin {"accepted", "dropped"}
          BY <2>1, <3>1 DEF ChainFollows, Open, At
        <4> QED
          BY <2>1, <4>1, <4>2 DEF ChainFollows, Open, At
      <3>3. Blocked(e, Primary)'
        BY <2>1 DEF Blocked
      <3> QED
        BY <3>2, <3>3
    <2>3. Committed(e)' => Committed(e)
      BY <2>1 DEF Committed, Marked, InFallback, IsReplay, Open, At
    <2> QED
      BY <1>1, <1>2, <2>1, <2>2, <2>3 DEF Frozen
  <1>5. ASSUME NEW j \in Jobs, StallOfCrashed(j) \/ StallOfRunning(j)
        PROVE  ChannelInv'
    BY <1>1, <1>2, <1>5
       DEF StallOfCrashed, StallOfRunning, rows, faults, Frozen
  <1>6. CASE PrimaryLeaseLapses
    <2>1. Frozen(Primary) /\ exec' = exec /\ ledger' = ledger
      BY <1>6, <1>type DEF PrimaryLeaseLapses, faults, Frozen, DeliveryRow
    <2> QED
      BY <1>1, <1>2, <2>1
  <1>7. ASSUME NEW d \in Deliveries, DeliveryLeaseLapses(d)
        PROVE  ChannelInv'
    <2>1. Frozen(Primary) /\ exec' = exec /\ ledger' = ledger
      BY <1>7, <1>type DEF DeliveryLeaseLapses, faults, Frozen, DeliveryRow
    <2> QED
      BY <1>1, <1>2, <2>1
  <1> QED
    BY <1>3, <1>4, <1>5, <1>6, <1>7 DEF Next

LEMMA InitChannel == Init => ChannelInv
  BY DEF Init, ChannelInv, ChainFollows, Committed, At

LEMMA StutterChannel ==
  ASSUME ChannelInv, UNCHANGED vars
  PROVE  ChannelInv'
  <1>1. \A e \in Execs : /\ ChainFollows(e)' <=> ChainFollows(e)
                         /\ Committed(e)' <=> Committed(e)
                         /\ Blocked(e, Primary)' <=> Blocked(e, Primary)
    BY SameCall DEF vars
  <1>2. delivery' = delivery
    BY DEF vars
  <1> QED
    BY <1>1, <1>2 DEF ChannelInv, OwnsDelivery

(* The primary row carries the decision for the whole notification: an     *)
(* execution that passed its marker keeps every other from passing it,     *)
(* through all the channels it then tries.                                 *)
THEOREM ChannelInvariant == Spec => []ChannelInv
  <1>1. SubmissionInv /\ ChannelInv /\ [Next]_vars => ChannelInv'
    BY StepChannel, EnvironmentChannel, StutterChannel
  <1> QED
    BY <1>1, InitChannel, SubmissionInvariant, PTL DEF Spec

(* Of all the channels of one notification at most one may have taken the  *)
(* message, however many jobs and workers deliver it and whoever takes     *)
(* over whose lease, as long as the database answers.                      *)
THEOREM OneChannel == Spec => []OneChannelAccepts
  <1>1. ASSUME SubmissionInv, ChannelInv PROVE OneChannelAccepts
    <2> SUFFICES ASSUME MaxDbFaults = 0,
                        NEW j1 \in Jobs \ Replays, NEW j2 \in Jobs \ Replays,
                        NEW k \in 1..Len(Chain[j1]), NEW l \in 1..Len(Chain[j2]),
                        NEW e1 \in Execs, NEW e2 \in Execs,
                        Open(e1, Chain[j1][k]), Open(e2, Chain[j2][l])
                 PROVE  e1 = e2 /\ Chain[j1][k] = Chain[j2][l]
      BY DEF OneChannelAccepts
    <2>1. ASSUME NEW j \in Jobs \ Replays, NEW i \in 1..Len(Chain[j]),
                 NEW e \in Execs, Open(e, Chain[j][i])
          PROVE  /\ Committed(e)
                 /\ Chain[j][i] = Key(e)
      <3>1. Chain[j][i] \in Deliveries
        BY ChainsAreKeys
      <3>2. /\ ~At(e, "idle")
            /\ \E n \in 1..Len(Chain[exec[e].job]) :
                 Chain[j][i] = Chain[exec[e].job][n]
        BY <1>1, <2>1, <3>1, SMTT(30) DEF ChannelInv, ChainFollows, Open
      <3>3. PICK n \in 1..Len(Chain[exec[e].job]) :
              Chain[j][i] = Chain[exec[e].job][n]
        BY <3>2
      <3>4. /\ exec[e].job \in Jobs /\ exec[e].pos \in Nat
            /\ Len(Chain[exec[e].job]) \in Nat
        BY <1>1, <3>2, KeyType DEF SubmissionInv, At
      <3>5. ~IsReplay(e)
        <4>1. SUFFICES ASSUME exec[e].job \in Replays PROVE FALSE
          BY DEF IsReplay
        <4>2. n = 1
          BY <4>1, <3>3, KeysAreDistinct
        <4> QED
          BY <3>3, <4>1, <4>2, KeysAreDistinct
      <3>6. ~(n < exec[e].pos) /\ exec[e].why # "terminal"
        BY <1>1, <2>1, <3>2, <3>3 DEF ChannelInv, ChainFollows
      <3>7. ~(n > exec[e].pos)
        BY <1>1, <2>1, <3>2, <3>3, <3>6 DEF SubmissionInv, LedgerFollows, Open
      <3>8. n = exec[e].pos
        BY <3>4, <3>6, <3>7
      <3> QED
        BY <2>1, <3>2, <3>3, <3>5, <3>8 DEF Committed, Key
    <2>2. /\ Committed(e1) /\ Chain[j1][k] = Key(e1)
          /\ Committed(e2) /\ Chain[j2][l] = Key(e2)
      BY <2>1
    <2>3. e1 = e2
      BY <1>1, <2>2 DEF ChannelInv
    <2> QED
      BY <2>2, <2>3
  <1> QED
    BY <1>1, ChannelInvariant, SubmissionInvariant, PTL
-----------------------------------------------------------------------------
(* Undisturbed, one job: parent and deliveries agree when all is quiet.    *)

(* The counts of disturbances never fall, and the queue hears of an        *)
(* execution only when it ends.                                            *)
LEMMA StepQueue ==
  ASSUME TypeOK, NEW e \in Execs, Step(e), ~DbThrows
  PROVE  /\ disruptions' = disruptions
         /\ \/ job' = job
            \/ /\ exec'[e].pc = "done"
               /\ \/ ~HoldsJob(e) /\ job' = job
                  \/ \A j \in Jobs : j # exec[e].job => job'[j] = job[j]
         /\ exec'[e].pc \notin {"idle", "crashed"}
         /\ Running(e)
  <1>key. /\ exec \in [Execs -> LocalState] /\ job \in [Jobs -> JobRecord]
          /\ exec[e].pc # "idle" /\ exec[e].job \in Jobs
    BY StepRuns, KeyType DEF TypeOK
  <1>run. Running(e)
    BY DEF Step, At, Running, CreateIfMissing, GetByDeliveryKey,
       ReconcileSentFromDelivery, ClaimPrimaryAttempt, MarkProcessing,
       MarkProviderSubmissionStarted, Send, AnswerUncertain, AnswerSuccess,
       AnswerRejected, MarkSent, MarkAcceptanceUnknown,
       ParentMarkAcceptanceUnknown, MarkFailed, ParentMarkSent,
       ParentMarkRetrying, ParentMarkFailed, Return, Throw
  <1>0. exec'[e].pc \notin {"idle", "crashed"}
    <2>1. CASE AnswerRejected(e)
      <3>1. \/ \E w : exec'[e] = ToFail(e, w)
            \/ exec'[e] = ToChannel(e, 2)
        BY <2>1, RejectionLeads
      <3>2. CASE \E w : exec'[e] = ToFail(e, w)
        BY <3>2 DEF ToFail, Move
      <3>3. CASE exec'[e] = ToChannel(e, 2)
        BY <3>3 DEF ToChannel, Move
      <3> QED
        BY <3>1, <3>2, <3>3
    <2>2. CASE MarkFailed(e)
      <3>1. exec'[e] = AfterFailed(e) \/ exec'[e] = To(e, "throw")
        BY <1>key, <2>2 DEF MarkFailed, UpdateDelivery
      <3> QED
        BY <3>1 DEF AfterFailed, NextChannel, ToChannel, To, Move
    <2>3. CASE ~AnswerRejected(e) /\ ~MarkFailed(e)
      <3>1. PICK l \in Label \ {"idle", "crashed", "markFailed"} :
              exec'[e] = To(e, l)
        BY <2>3, PlainStep
      <3> QED
        BY <3>1 DEF To, Move
    <2> QED
      BY <2>1, <2>2, <2>3
  <1>1. CASE Return(e) \/ Throw(e)
    <2>1. exec'[e].pc = "done" /\ disruptions' = disruptions
      BY <1>1, <1>key DEF Return, Throw, To, Move, faults
    <2>2. \E s, m : Report(e, exec[e].job, s, m)
      BY <1>1 DEF Return, Throw
    <2>3. job' = job \/ \A j \in Jobs : j # exec[e].job => job'[j] = job[j]
      BY <1>key, <2>2 DEF Report
    <2> QED
      BY <1>run, <1>0, <2>1, <2>3
  <1>2. CASE ~(Return(e) \/ Throw(e))
    <2>1. disruptions' = disruptions /\ job' = job
      BY <1>2 DEF Step, CreateIfMissing, GetByDeliveryKey,
         ReconcileSentFromDelivery, ClaimPrimaryAttempt, MarkProcessing,
         MarkProviderSubmissionStarted, Send, AnswerUncertain, AnswerSuccess,
         AnswerRejected, MarkSent, MarkAcceptanceUnknown,
         ParentMarkAcceptanceUnknown, MarkFailed, ParentMarkSent,
         ParentMarkRetrying, ParentMarkFailed, faults
    <2> QED
      BY <1>run, <1>0, <2>1
  <1> QED
    BY <1>1, <1>2
LEMMA LeavesMarkSent ==
  ASSUME NEW e \in Execs, Step(e), At(e, "markSent")
  PROVE  MarkSent(e)
  BY DEF Step, At, CreateIfMissing, GetByDeliveryKey,
         ReconcileSentFromDelivery, ClaimPrimaryAttempt, MarkProcessing,
         MarkProviderSubmissionStarted, Send, AnswerUncertain,
         AnswerSuccess, AnswerRejected, MarkAcceptanceUnknown,
         ParentMarkAcceptanceUnknown, MarkFailed, ParentMarkSent,
         ParentMarkRetrying, ParentMarkFailed, Return, Throw

LEMMA LeavesParentMarkSent ==
  ASSUME NEW e \in Execs, Step(e), At(e, "parentMarkSent")
  PROVE  ParentMarkSent(e)
  BY DEF Step, At, CreateIfMissing, GetByDeliveryKey,
         ReconcileSentFromDelivery, ClaimPrimaryAttempt, MarkProcessing,
         MarkProviderSubmissionStarted, Send, AnswerUncertain,
         AnswerSuccess, AnswerRejected, MarkSent, MarkAcceptanceUnknown,
         ParentMarkAcceptanceUnknown, MarkFailed, ParentMarkRetrying,
         ParentMarkFailed, Return, Throw

LEMMA StepCounts ==
  ASSUME NEW e \in Execs, Step(e)
  PROVE  /\ disruptions' = disruptions
         /\ dbFaults' \in {dbFaults, dbFaults + 1}
  BY DEF Step, DbThrows, UpdateDelivery, UpdateParent, faults,
         CreateIfMissing, GetByDeliveryKey, ReconcileSentFromDelivery,
         ClaimPrimaryAttempt, MarkProcessing, MarkProviderSubmissionStarted,
         Send, AnswerUncertain, AnswerSuccess, AnswerRejected, MarkSent,
         MarkAcceptanceUnknown, ParentMarkAcceptanceUnknown, MarkFailed,
         ParentMarkSent, ParentMarkRetrying, ParentMarkFailed, Return, Throw

(* An execution comes to hold the parent by claiming it, and lets go of it *)
(* with the write that ends its hold.                                      *)
LEMMA HoldingComes ==
  ASSUME TypeOK, NEW e \in Execs, Step(e), ~DbThrows,
         LedgerFollows(e), Holding(e)'
  PROVE  /\ ~IsReplay(e)
         /\ \/ Holding(e) /\ parent' = parent
            \/ parent' = [status |-> "PROCESSING", token |-> e,
                          expired |-> FALSE]
  <1>key. /\ exec \in [Execs -> LocalState] /\ exec[e].pc # "idle"
          /\ exec[e].pos \in Nat
    BY StepRuns, KeyType DEF TypeOK
  <1>0. exec'[e].job = exec[e].job /\ ~IsReplay(e)
    BY StepFrame DEF Holding, IsReplay
  <1> DEFINE Owned == parent' = [status |-> "PROCESSING", token |-> e,
                                 expired |-> FALSE]
  <1> USE DEF At
  <1>1. CASE CreateIfMissing(e)
    <2>1. /\ parent' = parent /\ exec[e].pc = "createIfMissing"
          /\ exec'[e] \in {To(e, "getByDeliveryKey"), To(e, "throw")}
      BY <1>1, <1>key DEF CreateIfMissing, UpdateDelivery
    <2> QED
      BY <1>0, <2>1 DEF Holding, InFallback, To, Move
  <1>2. CASE GetByDeliveryKey(e)
    <2>1. /\ parent' = parent /\ exec[e].pc = "getByDeliveryKey"
          /\ exec'[e] = To(e, AfterRead(e))
      BY <1>2, <1>key DEF GetByDeliveryKey
    <2>2. /\ AfterRead(e) = "parentMarkSent" => InFallback(e)
          /\ AfterRead(e) \in {"claim", "parentMarkSent", "return", "reconcile"}
      BY DEF AfterRead
    <2> QED
      BY <1>0, <2>1, <2>2 DEF Holding, InFallback, To, Move
  <1>3. CASE ReconcileSentFromDelivery(e)
    <2>1. exec'[e] = To(e, "return")
      BY <1>3, <1>key DEF ReconcileSentFromDelivery, UpdateParent
    <2> QED
      BY <2>1 DEF Holding, To, Move
  <1>4. CASE ClaimPrimaryAttempt(e)
    <2>1. \/ Owned
          \/ exec'[e] = To(e, "throw")
      BY <1>4, <1>key DEF ClaimPrimaryAttempt, TakePrimary
    <2> QED
      BY <1>0, <2>1 DEF Holding, To, Move
  <1>5. CASE MarkProcessing(e)
    <2>1. /\ parent' = parent /\ exec[e].pc = "claim" /\ ~ClaimsParent(e)
      BY <1>5 DEF MarkProcessing
    <2> QED
      BY <1>0, <2>1 DEF Holding, ClaimsParent
  <1>6. CASE MarkProviderSubmissionStarted(e)
    BY <1>0, <1>6 DEF MarkProviderSubmissionStarted, Holding
  <1>7. CASE Send(e)
    BY <1>0, <1>7 DEF Send, Holding
  <1>8. CASE AnswerUncertain(e)
    BY <1>0, <1>8 DEF AnswerUncertain, Holding
  <1>9. CASE AnswerSuccess(e)
    BY <1>0, <1>9 DEF AnswerSuccess, Holding
  <1>10. CASE AnswerRejected(e)
    BY <1>0, <1>10 DEF AnswerRejected, Holding
  <1>11. CASE MarkSent(e)
    BY <1>0, <1>11 DEF MarkSent, Holding
  <1>12. CASE MarkAcceptanceUnknown(e)
    BY <1>0, <1>12 DEF MarkAcceptanceUnknown, Holding
  <1>13. CASE ParentMarkAcceptanceUnknown(e)
    <2>1. exec'[e] = To(e, "return")
      BY <1>13, <1>key DEF ParentMarkAcceptanceUnknown, UpdateParent
    <2> QED
      BY <2>1 DEF Holding, To, Move
  <1>14. CASE MarkFailed(e)
    BY <1>0, <1>14 DEF MarkFailed, Holding
  <1>15. CASE ParentMarkSent(e)
    <2>1. exec'[e] \in {To(e, "return"), To(e, "throw")}
      BY <1>15, <1>key DEF ParentMarkSent, UpdateParent
    <2> QED
      BY <2>1 DEF Holding, To, Move
  <1>16. CASE ParentMarkRetrying(e)
    <2>1. exec'[e] = To(e, "throw")
      BY <1>16, <1>key DEF ParentMarkRetrying, UpdateParent
    <2> QED
      BY <2>1 DEF Holding, To, Move
  <1>17. CASE ParentMarkFailed(e)
    <2>1. exec'[e] = To(e, "return") \/ exec'[e] = To(e, "throw")
      BY <1>17, <1>key DEF ParentMarkFailed, UpdateParent
    <2> QED
      BY <2>1 DEF Holding, To, Move
  <1>18. CASE Return(e) \/ Throw(e)
    <2>1. exec'[e] = To(e, "done")
      BY <1>18, <1>key DEF Return, Throw
    <2> QED
      BY <2>1 DEF Holding, To, Move
  <1> QED
    BY <1>1, <1>2, <1>3, <1>4, <1>5, <1>6, <1>7, <1>8, <1>9, <1>10, <1>11,
       <1>12, <1>13, <1>14, <1>15, <1>16, <1>17, <1>18 DEF Step

(* A replay writes nothing to the parent.                                  *)
LEMMA ParentIsOrdinary ==
  ASSUME TypeOK, NEW e \in Execs, Step(e), LedgerFollows(e), IsReplay(e)
  PROVE  parent' = parent
  <1>1. ~(exec[e].pc \in ParentWrites) /\ ~ClaimsParent(e)
    BY DEF LedgerFollows, ClaimsParent
  <1> QED
    BY <1>1
       DEF Step, At, ParentWrites, rows, CreateIfMissing, GetByDeliveryKey,
           ReconcileSentFromDelivery, ClaimPrimaryAttempt, MarkProcessing,
           MarkProviderSubmissionStarted, Send, AnswerUncertain,
           AnswerSuccess, AnswerRejected, MarkSent, MarkAcceptanceUnknown,
           ParentMarkAcceptanceUnknown, MarkFailed, ParentMarkSent,
           ParentMarkRetrying, ParentMarkFailed, Return, Throw

LEMMA StepQuiet ==
  ASSUME OutcomeInv, QuietInv, NEW e \in Execs, Step(e)
  PROVE  QuietInv'
  <1> SUFFICES ASSUME OneJob, Undisturbed' PROVE QuietInv'
    BY DEF QuietInv, OneJob
  <1>0. SubmissionInv /\ TypeOK /\ LedgerFollows(e) /\ LedgerFollows(e)'
    BY StepSubmission DEF OutcomeInv, SubmissionInv
  <1>1. Undisturbed /\ ~DbThrows
    <2>1. dbFaults \in Nat /\ disruptions' = disruptions
          /\ dbFaults' \in {dbFaults, dbFaults + 1}
      BY <1>0, Bounds, StepCounts DEF TypeOK
    <2>2. dbFaults = 0 /\ disruptions = 0 /\ dbFaults' = 0
      BY <2>1 DEF Undisturbed
    <2> QED
      BY <2>2 DEF Undisturbed, DbThrows
  <1>2. /\ \A f \in Execs : exec[f].pc # "crashed"
        /\ \A f \in Execs : Running(f) => HoldsJob(f)
        /\ \A f \in Execs : Holding(f) => OwnsParent(f)
        /\ \A j \in Jobs \ Replays : \A k \in 1..Len(Chain[j]) :
             delivery[Chain[j][k]].status = "SENT" =>
               \/ parent.status = "SENT"
               \/ \E f \in Execs : At(f, "parentMarkSent") /\ ~IsReplay(f)
    BY <1>1 DEF QuietInv
  <1>3. /\ \A f \in Execs : f # e =>
             exec'[f] = exec[f] /\ ledger'[f] = ledger[f]
        /\ exec'[e].job = exec[e].job
    BY <1>0, StepFrame
  <1>4. /\ Running(e) /\ exec'[e].pc \notin {"idle", "crashed"}
        /\ job' = job \/ ( /\ exec'[e].pc = "done"
                           /\ \A j \in Jobs : j # exec[e].job => job'[j] = job[j] )
    BY <1>0, <1>1, StepQueue
  <1>5. ASSUME NEW f \in Execs, f # e, Running(f), ~IsReplay(f)
        PROVE  IsReplay(e)
    <2>1. HoldsJob(f) /\ HoldsJob(e)
      BY <1>2, <1>4, <1>5
    <2>2. exec[e].job \in Jobs /\ exec[f].job \in Jobs
      BY <1>0, <1>4, <1>5, KeyType DEF Running
    <2>3. exec[e].job # exec[f].job
      BY <1>5, <2>1 DEF HoldsJob
    <2> QED
      BY <1>5, <2>2, <2>3 DEF OneJob, IsReplay
  <1>6. \A f \in Execs : exec'[f].pc # "crashed"
    BY <1>2, <1>3, <1>4
  <1>7. ASSUME NEW f \in Execs, Running(f)' PROVE HoldsJob(f)'
    <2>1. CASE f = e
      <3>1. job' = job
        BY <1>4, <1>7, <2>1 DEF Running
      <3> QED
        BY <1>2, <1>3, <1>4, <2>1, <3>1 DEF HoldsJob
    <2>2. CASE f # e
      <3>1. exec'[f] = exec[f] /\ Running(f)
        BY <1>3, <1>7, <2>2 DEF Running
      <3>2. HoldsJob(f) /\ HoldsJob(e)
        BY <1>2, <1>4, <3>1
      <3>3. exec[f].job \in Jobs /\ exec[f].job # exec[e].job
        BY <1>0, <2>2, <3>1, <3>2, KeyType DEF HoldsJob, Running
      <3>4. job'[exec[f].job] = job[exec[f].job]
        BY <1>4, <3>3
      <3> QED
        BY <3>1, <3>2, <3>4 DEF HoldsJob
    <2> QED
      BY <2>1, <2>2
  <1>8. ASSUME NEW f \in Execs, Holding(f)' PROVE OwnsParent(f)'
    <2>1. CASE f = e
      <3>1. \/ Holding(e) /\ parent' = parent
            \/ parent' = [status |-> "PROCESSING", token |-> e,
                          expired |-> FALSE]
        BY <1>0, <1>1, <1>8, <2>1, HoldingComes
      <3> QED
        BY <1>2, <2>1, <3>1 DEF OwnsParent
    <2>2. CASE f # e
      <3>1. exec'[f] = exec[f]
        BY <1>3, <2>2
      <3>2. Holding(f) /\ Running(f) /\ ~IsReplay(f)
        BY <1>8, <3>1 DEF Holding, Running, InFallback, IsReplay
      <3>3. parent' = parent
        BY <1>0, <1>5, <2>2, <3>2, ParentIsOrdinary
      <3> QED
        BY <1>2, <3>2, <3>3 DEF OwnsParent
    <2> QED
      BY <2>1, <2>2
  <1>9. ASSUME NEW j \in Jobs \ Replays, NEW k \in 1..Len(Chain[j]),
               delivery'[Chain[j][k]].status = "SENT"
        PROVE  \/ parent'.status = "SENT"
               \/ \E f \in Execs : (At(f, "parentMarkSent") /\ ~IsReplay(f))'
    <2> DEFINE d == Chain[j][k]
    <2>1. d \in Deliveries
      BY ChainsAreKeys
    <2>2. CASE delivery[d].status # "SENT"
      <3>1. d = Key(e)
        BY <1>0, <1>9, <2>1, <2>2, StepShape
      <3>2. RowWrite(e, d)
        BY <1>0, <3>1, StepWritesThese DEF StepWrites
      <3>3. At(e, "markSent")
        <4>1. delivery[d] \in DeliveryRow
          BY <1>0, <2>1 DEF TypeOK
        <4> QED
          BY <1>9, <2>2, <3>2, <4>1
             DEF RowWrite, Pending, Taken, Settled, OwnsDelivery, DeliveryRow
      <3>4. MarkSent(e)
        BY <3>3, LeavesMarkSent
      <3>5. ~IsReplay(e)
        <4>1. SUFFICES ASSUME exec[e].job \in Replays PROVE FALSE
          BY DEF IsReplay
        <4>2. exec[e].pos = 1
          BY <1>0, <4>1, <1>4, KeyType, KeysAreDistinct DEF Running
        <4> QED
          BY <3>1, <4>1, <4>2, KeysAreDistinct DEF Key
      <3>6. exec \in [Execs -> LocalState]
        BY <1>0 DEF TypeOK
      <3>7. exec'[e] = To(e, "parentMarkSent")
        <4>1. delivery' # delivery
          BY <1>9, <2>2
        <4> QED
          BY <1>1, <3>4, <3>5, <3>6, <4>1 DEF MarkSent, UpdateDelivery
      <3> QED
        BY <1>3, <3>5, <3>7 DEF To, Move, At, IsReplay
    <2>3. CASE parent.status = "SENT"
      <3>1. ParentWrite(e)
        BY <1>0, StepWritesThese DEF StepWrites
      <3> QED
        BY <2>3, <3>1
           DEF ParentWrite, Claimable, Terminal, OwnsParent, SettledParent
    <2>4. ASSUME NEW f \in Execs, At(f, "parentMarkSent"), ~IsReplay(f)
          PROVE  \/ parent'.status = "SENT"
                 \/ \E g \in Execs : (At(g, "parentMarkSent") /\ ~IsReplay(g))'
      <3>1. CASE f = e
        <4>1. ParentMarkSent(e)
          BY <2>4, <3>1, LeavesParentMarkSent
        <4>2. OwnsParent(e)
          BY <1>2, <2>4, <3>1 DEF Holding, At
        <4> QED
          BY <1>1, <4>1, <4>2 DEF ParentMarkSent, UpdateParent, SettledParent
      <3>2. CASE f # e
        BY <1>3, <2>4, <3>2 DEF At, IsReplay
      <3> QED
        BY <3>1, <3>2
    <2> QED
      BY <1>2, <2>2, <2>3, <2>4
  <1> QED
    BY <1>6, <1>7, <1>8, <1>9 DEF QuietInv

LEMMA EnvironmentQuiet ==
  ASSUME OutcomeInv, QuietInv, Next, ~\E e \in Execs : Step(e)
  PROVE  QuietInv'
  <1> SUFFICES ASSUME OneJob, Undisturbed' PROVE QuietInv'
    BY DEF QuietInv, OneJob
  <1>0. TypeOK
    BY DEF OutcomeInv, SubmissionInv
  <1>type. /\ exec \in [Execs -> LocalState] /\ job \in [Jobs -> JobRecord]
           /\ delivery \in [Deliveries -> DeliveryRow] /\ parent \in ParentRow
           /\ disruptions \in Nat
    BY <1>0, Bounds DEF TypeOK
  <1>1. ASSUME disruptions' = disruptions + 1 PROVE FALSE
    BY <1>1, <1>type DEF Undisturbed
  <1>2. ASSUME disruptions' = disruptions /\ dbFaults' = dbFaults
        PROVE  /\ \A f \in Execs : exec[f].pc # "crashed"
               /\ \A f \in Execs : Running(f) => HoldsJob(f)
               /\ \A f \in Execs : Holding(f) => OwnsParent(f)
               /\ \A j \in Jobs \ Replays : \A k \in 1..Len(Chain[j]) :
                    delivery[Chain[j][k]].status = "SENT" =>
                      \/ parent.status = "SENT"
                      \/ \E f \in Execs : At(f, "parentMarkSent") /\ ~IsReplay(f)
    BY <1>2 DEF QuietInv, Undisturbed
  <1>3. ASSUME NEW e \in Execs, NEW j \in Jobs, PickUp(e, j)
        PROVE  QuietInv'
    <2>1. /\ disruptions' = disruptions /\ dbFaults' = dbFaults
          /\ parent' = parent /\ delivery' = delivery
          /\ exec[e].pc = "idle" /\ job[j].state = "waiting"
          /\ \A f \in Execs : f # e => exec'[f] = exec[f]
          /\ exec'[e].pc = "createIfMissing" /\ exec'[e].job = j
          /\ exec'[e].pos = 1
          /\ job'[j].state = "active" /\ job'[j].holder = e
          /\ \A i \in Jobs : i # j => job'[i] = job[i]
      BY <1>3, <1>type DEF PickUp, rows, faults, At
    <2>2. \A f \in Execs : exec'[f].pc # "crashed"
      BY <1>2, <2>1
    <2>3. ASSUME NEW f \in Execs, Running(f)' PROVE HoldsJob(f)'
      <3>1. CASE f = e
        BY <2>1, <3>1 DEF HoldsJob
      <3>2. CASE f # e
        <4>1. exec'[f] = exec[f] /\ Running(f) /\ HoldsJob(f)
          BY <1>2, <2>1, <2>3, <3>2 DEF Running
        <4>2. exec[f].job \in Jobs /\ exec[f].job # j
          BY <1>0, <2>1, <4>1, KeyType DEF Running, HoldsJob
        <4> QED
          BY <2>1, <4>1, <4>2 DEF HoldsJob
      <3> QED
        BY <3>1, <3>2
    <2>4. ~Holding(e)'
      BY <2>1 DEF Holding, InFallback
    <2>5. \A f \in Execs : Holding(f)' => OwnsParent(f)'
      BY <1>2, <2>1, <2>4 DEF Holding, InFallback, IsReplay, OwnsParent
    <2>6. \A f \in Execs : At(f, "parentMarkSent") /\ ~IsReplay(f) =>
            (At(f, "parentMarkSent") /\ ~IsReplay(f))'
      BY <2>1 DEF At, IsReplay
    <2> QED
      BY <1>2, <2>1, <2>2, <2>3, <2>5, <2>6 DEF QuietInv
  <1>4. ASSUME NEW e \in Execs, Crash(e) PROVE QuietInv'
    BY <1>1, <1>4 DEF Crash
  <1>5. ASSUME NEW j \in Jobs, StallOfCrashed(j) PROVE QuietInv'
    <2>1. job[j].holder \in Execs /\ exec[job[j].holder].pc = "crashed"
      BY <1>0, <1>5 DEF StallOfCrashed, TypeOK, JobOK
    <2> QED
      BY <1>2, <1>5, <2>1 DEF StallOfCrashed, faults
  <1>6. ASSUME NEW j \in Jobs, StallOfRunning(j) PROVE QuietInv'
    BY <1>1, <1>6 DEF StallOfRunning
  <1>7. ASSUME exec' = exec, job' = job,
               disruptions' = disruptions, dbFaults' = dbFaults,
               parent'.status = parent.status, parent'.token = parent.token,
               \A d \in Deliveries : delivery'[d].status = delivery[d].status
        PROVE  QuietInv'
    <2>1. \A j \in Jobs : \A k \in 1..Len(Chain[j]) : Chain[j][k] \in Deliveries
      BY ChainsAreKeys
    <2>2. \A f \in Execs : /\ Running(f)' <=> Running(f)
                           /\ HoldsJob(f)' <=> HoldsJob(f)
                           /\ Holding(f)' <=> Holding(f)
                           /\ OwnsParent(f)' <=> OwnsParent(f)
                           /\ At(f, "parentMarkSent")' <=> At(f, "parentMarkSent")
                           /\ IsReplay(f)' <=> IsReplay(f)
      BY <1>7 DEF Running, HoldsJob, Holding, OwnsParent, InFallback, IsReplay,
                  At
    <2> QED
      BY <1>2, <1>7, <2>1, <2>2 DEF QuietInv
  <1>8. CASE PrimaryLeaseLapses
    <2>1. /\ exec' = exec /\ job' = job
          /\ disruptions' = disruptions /\ dbFaults' = dbFaults
          /\ parent'.status = parent.status /\ parent'.token = parent.token
          /\ \A d \in Deliveries : delivery'[d].status = delivery[d].status
      BY <1>8, <1>type DEF PrimaryLeaseLapses, faults, DeliveryRow, ParentRow
    <2> QED
      BY <1>7, <2>1
  <1>9. ASSUME NEW d \in Deliveries, DeliveryLeaseLapses(d) PROVE QuietInv'
    <2>1. /\ exec' = exec /\ job' = job /\ parent' = parent
          /\ disruptions' = disruptions /\ dbFaults' = dbFaults
          /\ \A c \in Deliveries : delivery'[c].status = delivery[c].status
      BY <1>9, <1>type DEF DeliveryLeaseLapses, faults, DeliveryRow
    <2> QED
      BY <1>7, <2>1
  <1> QED
    BY <1>3, <1>4, <1>5, <1>6, <1>8, <1>9 DEF Next

LEMMA InitQuiet == Init => QuietInv
  <1>1. \A j \in Jobs : \A k \in 1..Len(Chain[j]) : Chain[j][k] \in Deliveries
    BY ChainsAreKeys
  <1>2. ASSUME Init
        PROVE  /\ \A e \in Execs : exec[e].pc = "idle" /\ exec[e].pos = 0
               /\ \A d \in Deliveries : delivery[d].status = "ABSENT"
    BY <1>2 DEF Init
  <1> QED
    BY <1>1, <1>2 DEF QuietInv, Running, Holding, InFallback

LEMMA StutterQuiet ==
  ASSUME QuietInv, UNCHANGED vars
  PROVE  QuietInv'
  BY DEF vars, QuietInv, OneJob, Undisturbed, Running, HoldsJob, Holding,
         OwnsParent, InFallback, IsReplay, At

(* Undisturbed, the execution of the one job keeps the parent it claimed   *)
(* until it records on it what it recorded on the delivery.                *)
THEOREM QuietInvariant == Spec => []QuietInv
  <1>1. OutcomeInv /\ QuietInv /\ [Next]_vars => QuietInv'
    BY StepQuiet, EnvironmentQuiet, StutterQuiet
  <1> QED
    BY <1>1, InitQuiet, OutcomeInvariant, PTL DEF Spec

(* With one job and nothing disturbed, the parent says SENT just when one  *)
(* of its channels does, once the queue is empty and nothing runs.         *)
THEOREM QuietStaysAgreed == Spec => []QuietAgrees
  <1>1. OutcomeInv /\ QuietInv => QuietAgrees
    BY DEF OutcomeInv, SentIsBacked, QuietInv, QuietAgrees, Quiet, Running, At
  <1> QED
    BY <1>1, OutcomeInvariant, QuietInvariant, PTL
=============================================================================
