--------------------- MODULE NotificationOperationsProofs ---------------------
(***************************************************************************)
(* Proofs about NotificationOperations for every value of its constants:   *)
(* rows, jobs and executions keep their types beside the outside writers,  *)
(* no failure is retried twice, the invariant of the attempts survives     *)
(* what is written under them, and the parent fails for a reason.          *)
(***************************************************************************)
EXTENDS NotificationOperations, NotificationDeliveryProofs, FiniteSetTheorems,
        SequenceTheorems

(* Every step of NotificationDelivery, as a step of the larger system.     *)
LEMMA NextTypeOK ==
  ASSUME TypeOK, Next
  PROVE  TypeOK'
  BY StepTypeOK, EnvironmentTypeOK

LEMMA DeliverTypeOK ==
  ASSUME TypeOK, NEW v \in Enqueues, Deliver(v)
  PROVE  TypeOK'
  <1>1. disruptions' \in 0..MaxDisruptions
    BY Bounds DEF Deliver, TypeOK
  <1> QED
    BY <1>1 DEF Deliver, TypeOK, rows

LEMMA ForgottenTypeOK ==
  ASSUME TypeOK, NEW j \in Jobs, JobIsForgotten(j)
  PROVE  TypeOK'
  <1> DEFINE x == [state |-> "waiting", made |-> 0, stalls |-> 0,
                   holder |-> None]
  <1>1. x \in JobRecord /\ JobOK(x)
    BY Bounds DEF JobRecord, JobState, JobOK
  <1>2. job' \in [Jobs -> JobRecord] /\ \A k \in Jobs : JobOK(job'[k])
    BY <1>1 DEF JobIsForgotten, TypeOK
  <1> QED
    BY <1>2 DEF JobIsForgotten, TypeOK, rows, faults

LEMMA OrphanTypeOK ==
  ASSUME TypeOK, OrphanLeaseLapses
  PROVE  TypeOK'
  <1>1. delivery' \in [Deliveries -> DeliveryRow]
    BY ChainsAreKeys DEF OrphanLeaseLapses, TypeOK, DeliveryRow
  <1> QED
    BY <1>1 DEF OrphanLeaseLapses, TypeOK, faults

(* An operator's request and a step of the synchronisation write at most   *)
(* the parent's status, and count a call that throws.                      *)
LEMMA ParentWriteTypeOK ==
  ASSUME TypeOK, DbThrows \/ UNCHANGED dbFaults,
         \/ parent' = parent
         \/ parent' = [parent EXCEPT !.status = "RETRYING"]
         \/ parent' = [parent EXCEPT !.status = "FAILED", !.expired = FALSE],
         UNCHANGED <<delivery, job, exec, ledger, disruptions>>
  PROVE  TypeOK'
  <1>1. parent' \in ParentRow
    BY DEF TypeOK, ParentRow, ParentStatus
  <1> QED
    BY <1>1, DbThrowsType DEF TypeOK

LEMMA RequestEffect ==
  ASSUME NEW r \in Requests, Operates(r)
  PROVE  /\ DbThrows \/ UNCHANGED dbFaults
         /\ \/ UNCHANGED <<parent, scheduled>>
            \/ /\ UNCHANGED parent /\ scheduled' = scheduled \cup {r}
               /\ r \in ReplayRequests \/ request[r] = "create"
            \/ /\ parent.status = "FAILED"
               /\ parent' = [parent EXCEPT !.status = "RETRYING"]
               /\ scheduled' = scheduled \cup {r}
         /\ UNCHANGED <<failures, untouched>>
  BY DEF Operates, RetryRead, FindActiveRetry, RetryTransition, FindWinner,
         ReplayRead, CreateReplay, RequestThrows, Retryable, ScheduleRetry

LEMMA SyncEffect ==
  ASSUME SyncNext
  PROVE  /\ DbThrows \/ UNCHANGED dbFaults
         /\ \/ UNCHANGED <<parent, failures>>
            \/ /\ parent.status # "FAILED" /\ failures' = failures + 1
               /\ parent' = [parent EXCEPT !.status = "FAILED",
                                           !.expired = FALSE]
         /\ UNCHANGED <<delivery, job, exec, ledger, disruptions>>
         /\ UNCHANGED <<scheduled, request>>
  BY DEF SyncNext, FailParent, Unsettled, outbox

LEMMA RecoveryTypeOK ==
  ASSUME TypeOK, NEW c \in Recoveries, RecoverUpdate(c)
  PROVE  TypeOK'
  <1>1. \A d \in Deliveries : Recovered(d) \in DeliveryRow
    BY DEF Recovered, TypeOK, DeliveryRow, DeliveryStatus
  <1>2. delivery' \in [Deliveries -> DeliveryRow]
    <2>1. CASE UNCHANGED delivery
      BY <2>1 DEF TypeOK
    <2>2. CASE delivery' = [d \in Deliveries |->
                              IF d \in recovery[c] THEN Recovered(d)
                              ELSE delivery[d]]
      BY <1>1, <2>2 DEF TypeOK
    <2> QED
      BY <2>1, <2>2 DEF RecoverUpdate
  <1>3. DbThrows \/ UNCHANGED dbFaults
    BY DEF RecoverUpdate
  <1> QED
    BY <1>2, <1>3, DbThrowsType DEF RecoverUpdate, TypeOK

(* What a worker, the queue and time do is a step of NotificationDelivery. *)
LEMMA InnerStep ==
  ASSUME (\E e \in Execs : Works(e))
         \/ (\E e \in Execs, j \in Jobs : TakesJob(e, j))
         \/ (Surroundings /\ ~OrphanLeaseLapses)
  PROVE  Next
  BY DEF Works, TakesJob, Surroundings, Next

LEMMA OpsStepTypeOK ==
  ASSUME TypeOK, OpsNext
  PROVE  TypeOK'
  <1>1. CASE \/ \E e \in Execs : Works(e)
             \/ \E e \in Execs, j \in Jobs : TakesJob(e, j)
             \/ Surroundings
    BY <1>1, InnerStep, NextTypeOK, OrphanTypeOK
  <1>2. CASE \E v \in Enqueues : Deliver(v)
    BY <1>2, DeliverTypeOK
  <1>3. CASE \E v \in Enqueues : Published(v) \/ GivenUp(v) \/ Requeue(v)
    BY <1>3 DEF Published, GivenUp, Requeue, TypeOK, vars
  <1>4. CASE \E j \in Jobs : JobIsForgotten(j)
    BY <1>4, ForgottenTypeOK
  <1>5. CASE \E r \in Requests : Operates(r)
    BY <1>5, RequestEffect, ParentWriteTypeOK DEF untouched
  <1>6. CASE SyncSelect \/ \E c \in Recoveries : RecoverSelect(c)
    BY <1>6 DEF SyncSelect, RecoverSelect, TypeOK, vars
  <1>7. CASE SyncNext
    BY <1>7, SyncEffect, ParentWriteTypeOK
  <1>8. CASE \E c \in Recoveries : RecoverUpdate(c)
    BY <1>8, RecoveryTypeOK
  <1> QED
    BY <1>1, <1>2, <1>3, <1>4, <1>5, <1>6, <1>7, <1>8 DEF OpsNext

(* The rows, the queue and the local states keep their types although the  *)
(* outbox, operators, the synchronisation and the recovery write them too. *)
THEOREM OpsTypeCorrect == OpsSpec => []TypeOK
  <1>1. OpsInit => TypeOK
    BY InitTypeOK DEF OpsInit
  <1>2. TypeOK /\ [OpsNext]_allVars => TypeOK'
    <2>1. ASSUME TypeOK, UNCHANGED allVars
          PROVE  TypeOK'
      BY <2>1 DEF TypeOK, allVars, vars
    <2> QED
      BY <2>1, OpsStepTypeOK
  <1> QED
    BY <1>1, <1>2, PTL DEF OpsSpec

-----------------------------------------------------------------------------
(* Retries and failures.                                                   *)

Revived == RetryRequests \cap scheduled
InHand == IF parent.status = "FAILED" THEN 1 ELSE 0

(* A failed parent holds a failure that no retry has used.                 *)
RetryAccount ==
  /\ request \in [Requests -> RequestLabel]
  /\ \A r \in RetryRequests : request[r] # "create"
  /\ failures \in Nat
  /\ IsFiniteSet(Revived)
  /\ Cardinality(Revived) + InHand <= failures

(* Where a request goes next; only a replay creates without a transition.  *)
LEMMA RequestMoves ==
  ASSUME NEW r \in Requests, Operates(r),
         request \in [Requests -> RequestLabel],
         \A q \in RetryRequests : request[q] # "create"
  PROVE  /\ request' \in [Requests -> RequestLabel]
         /\ \A q \in RetryRequests : request'[q] # "create"
  <1>1. PICK l \in RequestLabel :
          /\ request' = [request EXCEPT ![r] = l]
          /\ l = "create" => r \in ReplayRequests
    <2>1. \A l \in {"transition", "findActive", "findWinner", "create",
                    "scheduled", "already", "refused"} : l \in RequestLabel
      BY DEF RequestLabel
    <2>2. CASE RetryRead(r)
      BY <2>1, <2>2 DEF RetryRead, RequestThrows, Going
    <2>3. CASE FindActiveRetry(r)
      BY <2>1, <2>3 DEF FindActiveRetry, RequestThrows, Going
    <2>4. CASE RetryTransition(r)
      BY <2>1, <2>4 DEF RetryTransition, RequestThrows, Going
    <2>5. CASE FindWinner(r)
      BY <2>1, <2>5 DEF FindWinner, RequestThrows, Going
    <2>6. CASE ReplayRead(r)
      BY <2>1, <2>6 DEF ReplayRead, RequestThrows, Going
    <2>7. CASE CreateReplay(r)
      BY <2>1, <2>7 DEF CreateReplay, RequestThrows, Going
    <2> QED
      BY <2>2, <2>3, <2>4, <2>5, <2>6, <2>7 DEF Operates
  <1> QED
    BY <1>1, RequestsAreDistinct

(* What a step makes of the account: the retries stay and failures keep    *)
(* pace with the parent, or a retry takes up the failure in hand.          *)
LEMMA AccountKept ==
  ASSUME RetryAccount,
         Revived' = Revived,
         request' \in [Requests -> RequestLabel],
         \A r \in RetryRequests : request'[r] # "create",
         \/ failures' = failures + 1
         \/ failures' = failures /\ InHand' <= InHand
  PROVE  RetryAccount'
  <1>1. /\ Cardinality(Revived) \in Nat
        /\ InHand \in {0, 1} /\ InHand' \in {0, 1}
    BY FS_CardinalityType DEF RetryAccount, InHand
  <1>2. CASE failures' = failures /\ InHand' <= InHand
    BY <1>1, <1>2 DEF RetryAccount
  <1>3. CASE failures' = failures + 1
    \* A failure is counted when the parent was not failed before.
    BY <1>1, <1>3 DEF RetryAccount
  <1> QED
    BY <1>2, <1>3

LEMMA AccountUsed ==
  ASSUME RetryAccount, NEW r \in Requests,
         parent.status = "FAILED", InHand' = 0,
         scheduled' = scheduled \cup {r}, failures' = failures,
         request' \in [Requests -> RequestLabel],
         \A q \in RetryRequests : request'[q] # "create"
  PROVE  RetryAccount'
  <1>1. Revived' \in {Revived, Revived \cup {r}}
    BY DEF Revived
  <1>2. IsFiniteSet(Revived') /\ Cardinality(Revived') <= Cardinality(Revived) + 1
    <2>1. IsFiniteSet(Revived) /\ Cardinality(Revived) \in Nat
      BY FS_CardinalityType DEF RetryAccount
    <2>2. /\ IsFiniteSet(Revived \cup {r})
          /\ Cardinality(Revived \cup {r}) <= Cardinality(Revived) + 1
      <3>1. /\ IsFiniteSet(Revived \cup {r})
            /\ Cardinality(Revived \cup {r}) =
                 IF r \in Revived THEN Cardinality(Revived)
                 ELSE Cardinality(Revived) + 1
        BY <2>1, FS_AddElement, Zenon
      <3> QED
        BY <2>1, <3>1
    <2>3. CASE Revived' = Revived
      BY <2>1, <2>3
    <2>4. CASE Revived' = Revived \cup {r}
      BY <2>2, <2>4
    <2> QED
      BY <1>1, <2>3, <2>4
  <1>3. Cardinality(Revived) \in Nat /\ Cardinality(Revived') \in Nat
    BY <1>2, FS_CardinalityType DEF RetryAccount
  <1> QED
    BY <1>1, <1>2, <1>3 DEF RetryAccount, InHand

LEMMA WorkKeepsAccount ==
  ASSUME TypeOK, RetryAccount,
         \/ \E e \in Execs : Works(e)
         \/ \E e \in Execs, j \in Jobs : TakesJob(e, j)
         \/ Surroundings
  PROVE  RetryAccount'
  <1>1. UNCHANGED <<scheduled, request>>
    BY DEF Works, TakesJob, Surroundings, opsVars, outbox
  <1>2. \/ failures' = failures + 1
        \/ failures' = failures /\ InHand' <= InHand
    <2>1. CASE \E e \in Execs : Works(e)
      BY <2>1 DEF Works, InHand
    <2>2. CASE \E e \in Execs, j \in Jobs : TakesJob(e, j)
      BY <2>2 DEF TakesJob, PickUp, opsVars, history, rows, InHand
    <2>3. CASE Surroundings
      <3>1. parent'.status = parent.status
        BY <2>3 DEF Surroundings, Crash, StallOfCrashed, StallOfRunning,
             PrimaryLeaseLapses, DeliveryLeaseLapses, OrphanLeaseLapses,
             rows, TypeOK, ParentRow
      <3> QED
        BY <2>3, <3>1 DEF Surroundings, opsVars, history, InHand
    <2> QED
      BY <2>1, <2>2, <2>3
  <1> QED
    BY <1>1, <1>2, AccountKept DEF RetryAccount, Revived

LEMMA RequestKeepsAccount ==
  ASSUME TypeOK, RetryAccount, NEW r \in Requests, Operates(r)
  PROVE  RetryAccount'
  <1>1. /\ request' \in [Requests -> RequestLabel]
        /\ \A q \in RetryRequests : request'[q] # "create"
    BY RequestMoves DEF RetryAccount
  <1>2. failures' = failures
    BY RequestEffect
  <1>3. CASE UNCHANGED <<parent, scheduled>>
    BY <1>1, <1>2, <1>3, AccountKept DEF RetryAccount, Revived, InHand
  <1>4. CASE /\ UNCHANGED parent /\ scheduled' = scheduled \cup {r}
             /\ r \in ReplayRequests \/ request[r] = "create"
    <2>1. r \in ReplayRequests /\ r \notin RetryRequests
      BY <1>4, RequestsAreDistinct DEF RetryAccount, Requests
    <2>2. Revived' = Revived
      BY <1>4, <2>1 DEF Revived
    <2>3. InHand' <= InHand
      BY <1>4 DEF InHand
    <2> QED
      BY <1>1, <1>2, <2>2, <2>3, AccountKept
  <1>5. CASE /\ parent.status = "FAILED"
             /\ parent' = [parent EXCEPT !.status = "RETRYING"]
             /\ scheduled' = scheduled \cup {r}
    <2>1. InHand' = 0
      BY <1>5 DEF InHand, TypeOK, ParentRow
    <2> QED
      BY <1>1, <1>2, <1>5, <2>1, AccountUsed
  <1> QED
    BY <1>3, <1>4, <1>5, RequestEffect

LEMMA OpsStepAccount ==
  ASSUME TypeOK, RetryAccount, OpsNext
  PROVE  RetryAccount'
  <1>1. ASSUME UNCHANGED <<scheduled, request, failures, parent>>
        PROVE  RetryAccount'
    BY <1>1 DEF RetryAccount, Revived, InHand
  <1>2. CASE \E v \in Enqueues : Deliver(v) \/ Published(v) \/ GivenUp(v)
                                 \/ Requeue(v)
    BY <1>1, <1>2 DEF Deliver, Published, GivenUp, Requeue, vars, rows, history
  <1>3. CASE \E j \in Jobs : JobIsForgotten(j)
    BY <1>1, <1>3 DEF JobIsForgotten, rows, outbox
  <1>4. CASE \/ SyncSelect
             \/ \E c \in Recoveries : RecoverSelect(c) \/ RecoverUpdate(c)
    BY <1>1, <1>4 DEF SyncSelect, RecoverSelect, RecoverUpdate, vars, outbox, history
  <1>5. CASE SyncNext
    <2>1. /\ UNCHANGED <<scheduled, request>>
          /\ \/ failures' = failures + 1
             \/ failures' = failures /\ InHand' <= InHand
      BY <1>5, SyncEffect DEF InHand
    <2> QED
      BY <2>1, AccountKept DEF RetryAccount, Revived
  <1> QED
    BY <1>2, <1>3, <1>4, <1>5, WorkKeepsAccount, RequestKeepsAccount
       DEF OpsNext

(* No failure of a notification is retried twice, however many operators   *)
(* ask for it and whatever else writes the parent meanwhile.               *)
THEOREM NoFailureRetriedTwice == OpsSpec => []OneRetryPerFailure
  <1>1. OpsInit => RetryAccount
    <2> SUFFICES ASSUME OpsInit
                 PROVE  RetryAccount
      OBVIOUS
    <2>2. Revived = {}
      BY RequestsAreDistinct DEF OpsInit, Revived, Requests
    <2>3. InHand = 0
      BY DEF OpsInit, Init, InHand
    <2> QED
      <3>1. IsFiniteSet(Revived) /\ Cardinality(Revived) = 0
        BY <2>2, FS_EmptySet, Zenon
      <3>2. /\ request \in [Requests -> RequestLabel]
            /\ \A r \in RetryRequests : request[r] # "create"
        BY DEF OpsInit, RequestLabel, Requests
      <3>3. failures = 0
        BY DEF OpsInit
      <3> QED
        BY <2>3, <3>1, <3>2, <3>3 DEF RetryAccount
  <1>2. TypeOK /\ RetryAccount /\ [OpsNext]_allVars => RetryAccount'
    <2>1. ASSUME RetryAccount, UNCHANGED allVars
          PROVE  RetryAccount'
      BY <2>1 DEF RetryAccount, Revived, InHand, allVars, vars, opsVars,
           outbox, history
    <2> QED
      BY <2>1, OpsStepAccount
  <1>3. RetryAccount => OneRetryPerFailure
    <2> SUFFICES ASSUME RetryAccount
                 PROVE  OneRetryPerFailure
      OBVIOUS
    <2>1. Cardinality(Revived) \in Nat /\ InHand \in {0, 1}
      BY FS_CardinalityType DEF RetryAccount, InHand
    <2> QED
      BY <2>1 DEF RetryAccount, Revived, OneRetryPerFailure
  <1> QED
    BY <1>1, <1>2, <1>3, OpsTypeCorrect, PTL DEF OpsSpec

-----------------------------------------------------------------------------
(* The rows of the attempts beside the outside writers.                    *)

(* What an outside writer does to the rows: a row that is not PROCESSING   *)
(* stays as it is, a PROCESSING one keeps token and marker and stays       *)
(* PROCESSING or becomes FAILED, and the parent does not become SENT.      *)
OutsideWrite ==
  /\ UNCHANGED <<exec, ledger>>
  /\ parent'.status = "SENT" => parent.status = "SENT"
  /\ \A d \in Deliveries :
       \/ delivery'[d] = delivery[d]
       \/ /\ delivery[d].status = "PROCESSING"
          /\ delivery'[d].status \in {"PROCESSING", "FAILED"}
          /\ delivery'[d].token = delivery[d].token
          /\ delivery'[d].started = delivery[d].started

(* A row somebody holds names its holder: what the recovery fails under an *)
(* attempt keeps a token, and is not mistaken for a row that is free.      *)
HeldHasToken ==
  \A d \in Deliveries :
    delivery[d].status = "PROCESSING" => delivery[d].token # None

OpsInv == OutcomeInv /\ HeldHasToken

LEMMA OutsideMarker ==
  ASSUME OpsInv, OutsideWrite, NEW d \in Deliveries
  PROVE  MarkerInv(d)'
  <1> SUFFICES ASSUME MarkerHolds(d) PROVE MarkerInv(d)'
    BY DEF MarkerInv, MarkerHolds
  <1>0. MarkerInv(d)
    BY DEF OpsInv, OutcomeInv, SubmissionInv
  <1>1. /\ delivery'[d].started = delivery[d].started
        /\ delivery[d].status \in {"SENT", "ACCEPTANCE_UNKNOWN"} =>
             delivery'[d].status = delivery[d].status
        /\ Kept(d) => Kept(d)'
    BY DEF OpsInv, HeldHasToken, OutsideWrite, Kept
  <1>2. \A e \in Execs : OwnsDelivery(e, d)' => OwnsDelivery(e, d)
    BY DEF OutsideWrite, OwnsDelivery
  <1>3. \A e \in Execs : /\ Marked(e, d)' <=> Marked(e, d)
                         /\ Open(e, d)' <=> Open(e, d)
                         /\ Blocked(e, d)' <=> Blocked(e, d)
                         /\ (At(e, "markFailed") /\ Key(e) = d)' <=>
                              (At(e, "markFailed") /\ Key(e) = d)
    BY DEF OutsideWrite, Marked, Open, Blocked, At, Key
  <1> QED
    BY <1>0, <1>1, <1>2, <1>3 DEF MarkerInv, Engaged

LEMMA OutsideKeepsRows ==
  ASSUME OpsInv, OutsideWrite, TypeOK',
         \A d \in Deliveries : delivery[d].status \in Terminal =>
           ~delivery'[d].expired
  PROVE  OpsInv' /\ SettledStep
  <1>1. \A e \in Execs : LedgerFollows(e)'
    <2>1. exec' = exec /\ ledger' = ledger /\ \A e \in Execs : LedgerFollows(e)
      BY DEF OpsInv, OutcomeInv, SubmissionInv, OutsideWrite
    <2> QED
      BY <2>1, SameLedger
  <1>2. SubmissionInv'
    BY <1>1, OutsideMarker DEF SubmissionInv
  <1>3. \A d \in Deliveries : /\ delivery[d].status \in Terminal => delivery'[d] = delivery[d]
                              /\ delivery'[d].status \in Terminal => delivery'[d] = delivery[d]
    BY DEF OutsideWrite, Terminal
  <1>4. SentWasSeen'
    <2>1. TypeOK
      BY DEF OpsInv, OutcomeInv, SubmissionInv
    <2>2. \A e \in Execs : exec[e].pc \in {"parentMarkSent", "reconcile"} =>
            Key(e) \in Deliveries
      BY <2>1, KeyType
    <2> QED
      BY <1>3, <2>2
         DEF OpsInv, OutcomeInv, SentWasSeen, OutsideWrite, Key, Terminal
  <1>5. SentIsBacked'
    <2>1. \A j \in Jobs : \A k \in 1..Len(Chain[j]) : Chain[j][k] \in Deliveries
      BY ChainsAreKeys
    <2> QED
      BY <1>3, <2>1
         DEF OpsInv, OutcomeInv, SentIsBacked, OutsideWrite, Terminal
  <1>6. OutcomeInv'
    BY <1>2, <1>3, <1>4, <1>5 DEF OpsInv, OutcomeInv
  <1>7. HeldHasToken'
    BY DEF OpsInv, HeldHasToken, OutsideWrite
  <1>8. SettledStep
    BY <1>3 DEF SettledStep, OutsideWrite
  <1> QED
    BY <1>6, <1>7, <1>8 DEF OpsInv

LEMMA InnerKeepsRows ==
  ASSUME OpsInv, Next
  PROVE  OpsInv' /\ SettledStep
  <1>0. OutcomeInv /\ SubmissionInv /\ TypeOK
    BY DEF OpsInv, OutcomeInv, SubmissionInv
  <1>1. ASSUME NEW e \in Execs, Step(e)
        PROVE  OpsInv' /\ SettledStep
    <2>1. OutcomeInv' /\ SettledStep
      BY <1>0, <1>1, StepOutcome, StepSettled
    <2>2. ASSUME NEW d \in Deliveries
          PROVE  (delivery[d].status = "PROCESSING" => delivery[d].token # None)'
      <3>1. CASE d # Key(e)
        BY <1>0, <1>1, <3>1, StepShape DEF SubmissionInv, OpsInv, HeldHasToken
      <3>2. CASE d = Key(e)
        <4>1. RowWrite(e, d)
          BY <1>0, <1>1, <3>2, StepWritesThese DEF StepWrites
        <4>2. delivery[d] \in DeliveryRow
          BY <1>0 DEF TypeOK
        <4> QED
          BY <4>1, <4>2, NoneIsNobody
             DEF RowWrite, Taken, Settled, Pending, OpsInv, HeldHasToken,
                 DeliveryRow
      <3> QED
        BY <3>1, <3>2
    <2> QED
      BY <2>1, <2>2 DEF OpsInv, HeldHasToken
  <1>2. CASE ~\E e \in Execs : Step(e)
    <2>1. OutcomeInv' /\ SettledStep
      BY <1>0, <1>2, EnvironmentOutcome, EnvironmentSettled
    <2>2. delivery \in [Deliveries -> DeliveryRow]
      BY <1>0 DEF TypeOK
    <2>3. \A d \in Deliveries : /\ delivery'[d].status = delivery[d].status
                                /\ delivery'[d].token = delivery[d].token
      BY <1>2, <2>2 DEF Next, PickUp, Crash, StallOfCrashed, StallOfRunning,
           PrimaryLeaseLapses, DeliveryLeaseLapses, rows, DeliveryRow
    <2> QED
      BY <2>1, <2>3 DEF OpsInv, HeldHasToken
  <1> QED
    BY <1>1, <1>2

LEMMA OpsStepKeepsRows ==
  ASSUME OpsInv, OpsNext
  PROVE  OpsInv' /\ SettledStep
  <1>0. /\ OutcomeInv /\ TypeOK /\ TypeOK'
        /\ parent \in ParentRow /\ delivery \in [Deliveries -> DeliveryRow]
    BY OpsStepTypeOK DEF OpsInv, OutcomeInv, SubmissionInv, TypeOK
  <1>1. ASSUME UNCHANGED <<delivery, exec, ledger>>,
               parent'.status = "SENT" => parent.status = "SENT"
        PROVE  OpsInv' /\ SettledStep
    <2>1. OutsideWrite
      BY <1>1 DEF OutsideWrite
    <2> QED
      BY <1>0, <1>1, <2>1, OutsideKeepsRows DEF OutcomeInv
  <1>2. CASE \/ \E e \in Execs : Works(e)
             \/ \E e \in Execs, j \in Jobs : TakesJob(e, j)
             \/ Surroundings /\ ~OrphanLeaseLapses
    BY <1>2, InnerStep, InnerKeepsRows
  <1>3. CASE OrphanLeaseLapses
    <2>1. OutsideWrite
      BY <1>0, <1>3, ChainsAreKeys
         DEF OrphanLeaseLapses, OutsideWrite, DeliveryRow
    <2>2. \A d \in Deliveries : delivery[d].status \in Terminal =>
            delivery'[d] = delivery[d]
      BY <1>0, <1>3 DEF OrphanLeaseLapses, Terminal
    <2> QED
      BY <1>0, <2>1, <2>2, OutsideKeepsRows DEF OutcomeInv
  <1>4. CASE \E v \in Enqueues : Deliver(v) \/ Published(v) \/ GivenUp(v)
                                 \/ Requeue(v)
    BY <1>1, <1>4 DEF Deliver, Published, GivenUp, Requeue, rows, vars
  <1>5. CASE \E j \in Jobs : JobIsForgotten(j)
    BY <1>1, <1>5 DEF JobIsForgotten, rows
  <1>6. CASE \E r \in Requests : Operates(r)
    <2>1. PICK r \in Requests : Operates(r)
      BY <1>6
    <2>2. UNCHANGED <<delivery, exec, ledger>>
      BY <2>1, RequestEffect DEF untouched
    <2>3. parent' = parent \/ parent' = [parent EXCEPT !.status = "RETRYING"]
      BY <2>1, RequestEffect
    <2> QED
      BY <1>0, <1>1, <2>2, <2>3 DEF ParentRow
  <1>7. CASE SyncSelect \/ \E c \in Recoveries : RecoverSelect(c)
    BY <1>1, <1>7 DEF SyncSelect, RecoverSelect, vars
  <1>8. CASE SyncNext
    <2>1. UNCHANGED <<delivery, exec, ledger>>
      BY <1>8, SyncEffect
    <2>2. \/ parent' = parent
          \/ parent' = [parent EXCEPT !.status = "FAILED", !.expired = FALSE]
      BY <1>8, SyncEffect
    <2> QED
      BY <1>0, <1>1, <2>1, <2>2 DEF ParentRow
  <1>9. CASE \E c \in Recoveries : RecoverUpdate(c)
    <2>1. PICK c \in Recoveries : RecoverUpdate(c)
      BY <1>9
    <2>2. \A d \in Deliveries : delivery'[d] \in {delivery[d], Recovered(d)}
      BY <2>1, SMTT(30) DEF RecoverUpdate
    <2>3. OutsideWrite
      BY <1>0, <2>1, <2>2, ZenonT(60) DEF RecoverUpdate, OutsideWrite, Recovered, DeliveryRow
    <2>4. \A d \in Deliveries : delivery[d].status \in Terminal =>
            delivery'[d] = delivery[d]
      BY <2>2 DEF Recovered, Terminal
    <2> QED
      BY <1>0, <2>3, <2>4, OutsideKeepsRows DEF OutcomeInv
  <1> QED
    BY <1>2, <1>3, <1>4, <1>5, <1>6, <1>7, <1>8, <1>9 DEF OpsNext, Surroundings

(* The invariant of the attempts survives operators, the synchronisation   *)
(* and the recovery: what these fail or revive under a running attempt     *)
(* leaves the marker where it is.                                          *)
THEOREM OpsInvariant == OpsSpec => []OpsInv
  <1>1. OpsInit => OpsInv
    BY InitOutcome, NoneIsNobody DEF OpsInit, OpsInv, HeldHasToken, Init
  <1>2. OpsInv /\ [OpsNext]_allVars => OpsInv'
    <2>1. ASSUME OpsInv, UNCHANGED allVars
          PROVE  OpsInv'
      BY <2>1, StutterOutcome DEF OpsInv, HeldHasToken, allVars, vars
    <2> QED
      BY <2>1, OpsStepKeepsRows
  <1> QED
    BY <1>1, <1>2, PTL DEF OpsSpec

(* Recoveries, retries and synchronisations beside the attempts cause no   *)
(* second submission, undo no settled delivery, and leave SENT on a SENT   *)
(* delivery.                                                               *)
THEOREM OutsideWritesStaySafe == OpsSpec => OutsideWritesAreSafe
  <1>1. OpsInv => NoResubmission /\ SentIsBacked
    BY DEF OpsInv, OutcomeInv, SubmissionInv, MarkerInv, NoResubmission, Engaged
  <1>2. OpsInv /\ OpsInv' /\ [OpsNext]_allVars =>
          [SettledStep /\ NoResubmission' /\ SentIsBacked']_allVars
    <2>1. OpsInv' => NoResubmission' /\ SentIsBacked'
      BY <1>1, PTL
    <2> QED
      BY <2>1, OpsStepKeepsRows
  <1> QED
    BY <1>2, OpsInvariant, PTL DEF OpsSpec, OutsideWritesAreSafe

-----------------------------------------------------------------------------
(* Why the parent fails.                                                   *)

(* Every step of an execution changes its label or its reason to fail: a   *)
(* change of the parent without one is the work of somebody else.          *)
LEMMA StepMovesOn ==
  ASSUME TypeOK, NEW e \in Execs, Step(e)
  PROVE  exec' # exec
  <1>key. exec \in [Execs -> LocalState]
    BY DEF TypeOK
  <1>to. ASSUME NEW l, exec'[e] = To(e, l), l # exec[e].pc
         PROVE  exec' # exec
    BY <1>to DEF To, Move
  <1>fail. ASSUME NEW w, exec'[e] = ToFail(e, w), exec[e].pc # "markFailed"
           PROVE  exec' # exec
    BY <1>fail DEF ToFail, Move
  <1>infra. ASSUME exec'[e] = Infra(e), exec[e].pc # "markFailed"
            PROVE  exec' # exec
    BY <1>infra, <1>to, <1>fail DEF Infra
  <1>odd. ASSUME exec'[e] = Unexpected(e), exec[e].pc \notin {"markFailed", "throw"}
          PROVE  exec' # exec
    BY <1>odd, <1>to, <1>fail DEF Unexpected, Infra
  <1>1. CASE CreateIfMissing(e)
    BY <1>1, <1>key, <1>to DEF CreateIfMissing, UpdateDelivery, At
  <1>2. CASE GetByDeliveryKey(e)
    BY <1>2, <1>key, <1>to, <1>odd DEF GetByDeliveryKey, AfterRead, At
  <1>3. CASE ReconcileSentFromDelivery(e)
    BY <1>3, <1>key, <1>to DEF ReconcileSentFromDelivery, UpdateParent, At
  <1>4. CASE ClaimPrimaryAttempt(e)
    BY <1>4, <1>key, <1>to, <1>infra DEF ClaimPrimaryAttempt, At
  <1>5. CASE MarkProcessing(e)
    BY <1>5, <1>key, <1>to, <1>odd DEF MarkProcessing, UpdateDelivery, At
  <1>6. CASE MarkProviderSubmissionStarted(e)
    BY <1>6, <1>key, <1>to, <1>fail, <1>infra
       DEF MarkProviderSubmissionStarted, UpdateDelivery, At
  <1>7. CASE Send(e)
    BY <1>7, <1>key, <1>to DEF Send, At
  <1>8. CASE AnswerUncertain(e)
    BY <1>8, <1>key, <1>to DEF AnswerUncertain, At
  <1>9. CASE AnswerSuccess(e)
    BY <1>9, <1>key, <1>to DEF AnswerSuccess, At
  <1>10. CASE AnswerRejected(e)
    <2>1. exec[e].pc = "inflight" /\ exec'[e].pc # "inflight"
      BY <1>10, <1>key DEF AnswerRejected, At, AfterRejection, ToFail, ToChannel, Move
    <2> QED
      BY <2>1
  <1>11. CASE MarkSent(e)
    BY <1>11, <1>key, <1>to DEF MarkSent, UpdateDelivery, At
  <1>12. CASE MarkAcceptanceUnknown(e)
    BY <1>12, <1>key, <1>to DEF MarkAcceptanceUnknown, UpdateDelivery, At
  <1>13. CASE ParentMarkAcceptanceUnknown(e)
    BY <1>13, <1>key, <1>to DEF ParentMarkAcceptanceUnknown, UpdateParent, At
  <1>14. CASE MarkFailed(e)
    <2>1. exec[e].pc = "markFailed"
      BY <1>14 DEF MarkFailed, At
    <2>2. \/ exec'[e] = AfterFailed(e)
          \/ exec'[e] = To(e, "throw")
          \/ exec[e].why = "refused" /\ exec'[e] = ToFail(e, "error")
      BY <1>14, <1>key DEF MarkFailed, UpdateDelivery
    <2>3. CASE exec[e].why = "refused" /\ exec'[e] = ToFail(e, "error")
      BY <2>3 DEF ToFail, Move
    <2>4. CASE exec'[e] = AfterFailed(e) /\ exec[e].why \in {"refused", "error"}
      BY <2>1, <2>4 DEF AfterFailed, NextChannel, ToChannel, Move
    <2>5. CASE exec'[e] = AfterFailed(e) /\ exec[e].why \notin {"refused", "error"}
      BY <2>1, <2>5, <1>to DEF AfterFailed
    <2> QED
      BY <2>1, <2>2, <2>3, <2>4, <2>5, <1>to
  <1>15. CASE ParentMarkSent(e)
    BY <1>15, <1>key, <1>to, <1>odd DEF ParentMarkSent, UpdateParent, At
  <1>16. CASE ParentMarkRetrying(e)
    BY <1>16, <1>key, <1>to DEF ParentMarkRetrying, UpdateParent, At
  <1>17. CASE ParentMarkFailed(e)
    BY <1>17, <1>key, <1>to DEF ParentMarkFailed, UpdateParent, At
  <1>18. CASE Return(e)
    BY <1>18, <1>key, <1>to DEF Return, At
  <1>19. CASE Throw(e)
    BY <1>19, <1>key, <1>to DEF Throw, At
  <1> QED
    BY <1>1, <1>2, <1>3, <1>4, <1>5, <1>6, <1>7, <1>8, <1>9, <1>10, <1>11,
       <1>12, <1>13, <1>14, <1>15, <1>16, <1>17, <1>18, <1>19 DEF Step

(* What waits to be synchronised has been given up by the outbox.          *)
DeadInv ==
  /\ gaveUp \subseteq Enqueues
  /\ dead \in Seq(gaveUp)
  /\ sync \in Seq(gaveUp)

LEMMA RequeueShortens ==
  ASSUME NEW S, NEW s \in Seq(S), NEW i \in DOMAIN s
  PROVE  [k \in 1..(Len(s) - 1) |-> IF k < i THEN s[k] ELSE s[k + 1]] \in Seq(S)
  <1> DEFINE n == Len(s)
             t == [k \in 1..(n - 1) |-> IF k < i THEN s[k] ELSE s[k + 1]]
  <1>1. n \in Nat /\ DOMAIN s = 1..n /\ i \in 1..n
        /\ \A k \in 1..n : s[k] \in S
    OBVIOUS
  <1>2. n - 1 \in Nat /\ \A k \in 1..(n - 1) : k \in 1..n /\ k + 1 \in 1..n
    BY <1>1
  <1>3. t \in [1..(n - 1) -> S]
    BY <1>1, <1>2
  <1> QED
    BY <1>2, <1>3, SeqDef

LEMMA OpsStepDead ==
  ASSUME DeadInv, OpsNext
  PROVE  DeadInv'
  <1>0. Enqueues = Enqueues' /\ gaveUp \subseteq Enqueues
    BY DEF DeadInv
  <1>1. ASSUME UNCHANGED <<gaveUp, dead, sync>> PROVE DeadInv'
    BY <1>1 DEF DeadInv
  <1>2. CASE \/ \E e \in Execs : Works(e)
             \/ \E e \in Execs, j \in Jobs : TakesJob(e, j)
             \/ Surroundings
    BY <1>1, <1>2 DEF Works, TakesJob, Surroundings, opsVars, outbox
  <1>3. CASE \E v \in Enqueues : Deliver(v) \/ Published(v)
    BY <1>1, <1>3 DEF Deliver, Published
  <1>4. ASSUME NEW v \in Enqueues, GivenUp(v) PROVE DeadInv'
    <2>1. gaveUp' = gaveUp \cup {v} /\ dead' = Append(dead, v) /\ sync' = sync
      BY <1>4 DEF GivenUp
    <2>2. dead \in Seq(gaveUp') /\ sync \in Seq(gaveUp')
      BY <2>1, SeqMonotonic DEF DeadInv
    <2> QED
      BY <2>1, <2>2 DEF DeadInv
  <1>5. ASSUME NEW v \in Enqueues, Requeue(v) PROVE DeadInv'
    <2>1. gaveUp' = gaveUp /\ sync' = sync
      BY <1>5 DEF Requeue
    <2>2. dead' \in Seq(gaveUp)
      BY <1>5, RequeueShortens DEF Requeue, DeadInv
    <2> QED
      BY <2>1, <2>2 DEF DeadInv
  <1>6. CASE \E j \in Jobs : JobIsForgotten(j)
    BY <1>1, <1>6 DEF JobIsForgotten, outbox
  <1>7. CASE \E r \in Requests : Operates(r)
    BY <1>1, <1>7, RequestEffect DEF untouched
  <1>8. CASE SyncSelect
    <2> DEFINE n == IF Len(dead) < SyncBatch THEN Len(dead) ELSE SyncBatch
    <2>1. gaveUp' = gaveUp /\ dead' = dead /\ sync' = SubSeq(dead, 1, n)
      BY <1>8 DEF SyncSelect, outbox
    <2>2. dead \in Seq(gaveUp) /\ n \in Nat /\ n <= Len(dead)
      BY OperationBounds DEF DeadInv
    <2>3. SubSeq(dead, 1, n) \in Seq(gaveUp)
      BY <2>2
    <2> QED
      BY <2>1, <2>3 DEF DeadInv
  <1>9. CASE SyncNext
    <2>1. /\ gaveUp' = gaveUp /\ dead' = dead
          /\ sync # <<>> /\ sync' \in {<<>>, Tail(sync)}
      BY <1>9 DEF SyncNext, outbox
    <2>2. sync \in Seq(gaveUp) /\ Tail(sync) \in Seq(gaveUp)
      BY <2>1, HeadTailProperties DEF DeadInv
    <2> QED
      BY <2>1, <2>2, EmptySeq DEF DeadInv
  <1>10. CASE \E c \in Recoveries : RecoverSelect(c) \/ RecoverUpdate(c)
    BY <1>1, <1>10 DEF RecoverSelect, RecoverUpdate, outbox
  <1> QED
    BY <1>2, <1>3, <1>4, <1>5, <1>6, <1>7, <1>8, <1>9, <1>10 DEF OpsNext

(* A change of the parent's status is a step of an execution, a retry or   *)
(* the dead letter of an event of the notification's own.                  *)
LEMMA OpsStepReason ==
  ASSUME TypeOK, DeadInv, OpsNext, exec' = exec,
         parent'.status # parent.status
  PROVE  \/ parent'.status = "RETRYING"
         \/ parent'.status = "FAILED" /\ gaveUp \cap OwnEvents # {}
  <1>0. parent \in ParentRow
    BY DEF TypeOK
  <1>1. ~\E e \in Execs : Works(e)
    BY StepMovesOn DEF Works
  <1>2. ~\E e \in Execs, j \in Jobs : TakesJob(e, j)
    BY DEF TakesJob, PickUp, rows
  <1>3. ~Surroundings
    BY <1>0 DEF Surroundings, Crash, StallOfCrashed, StallOfRunning,
         PrimaryLeaseLapses, DeliveryLeaseLapses, OrphanLeaseLapses,
         rows, ParentRow
  <1>4. ~\E v \in Enqueues : Deliver(v) \/ Published(v) \/ GivenUp(v) \/ Requeue(v)
    BY DEF Deliver, Published, GivenUp, Requeue, vars, rows
  <1>5. ~\E j \in Jobs : JobIsForgotten(j)
    BY DEF JobIsForgotten, rows
  <1>6. ~(SyncSelect \/ \E c \in Recoveries : RecoverSelect(c) \/ RecoverUpdate(c))
    BY DEF SyncSelect, RecoverSelect, RecoverUpdate, vars
  <1>7. CASE \E r \in Requests : Operates(r)
    <2>1. parent' = [parent EXCEPT !.status = "RETRYING"]
      BY <1>7, RequestEffect
    <2> QED
      BY <1>0, <2>1 DEF ParentRow
  <1>8. CASE SyncNext
    <2>1. /\ sync # <<>> /\ ~Skipped(Head(sync))
          /\ parent' = [parent EXCEPT !.status = "FAILED", !.expired = FALSE]
      BY <1>8 DEF SyncNext, FailParent
    <2>2. Head(sync) \in gaveUp /\ gaveUp \subseteq Enqueues
      BY <2>1 DEF DeadInv
    <2>3. Head(sync) \in OwnEvents
      BY <2>1, <2>2 DEF Skipped, OwnEvents
    <2> QED
      BY <1>0, <2>1, <2>2, <2>3 DEF ParentRow
  <1> QED
    BY <1>1, <1>2, <1>3, <1>4, <1>5, <1>6, <1>7, <1>8 DEF OpsNext

(* What the synchronisation has in hand was given up by the outbox, also   *)
(* when an operator requeues it meanwhile.                                 *)
THEOREM DeadLettersInvariant == OpsSpec => []DeadInv
  <1>1. OpsInit => DeadInv
    BY EmptySeq DEF OpsInit, DeadInv
  <1>2. DeadInv /\ [OpsNext]_allVars => DeadInv'
    <2>1. ASSUME DeadInv, UNCHANGED allVars
          PROVE  DeadInv'
      BY <2>1 DEF DeadInv, allVars, opsVars, outbox
    <2> QED
      BY <2>1, OpsStepDead
  <1> QED
    BY <1>1, <1>2, PTL DEF OpsSpec

(* The parent is failed from outside an attempt only if an event of the    *)
(* notification itself was given up; a replay never changes it.            *)
THEOREM FailuresHaveReasons == OpsSpec => FailedForAReason
  <1> DEFINE R == exec' = exec /\ parent'.status # parent.status =>
                    \/ parent'.status = "RETRYING"
                    \/ parent'.status = "FAILED" /\ gaveUp \cap OwnEvents # {}
  <1>1. TypeOK /\ DeadInv /\ [OpsNext]_allVars => [R]_allVars
    BY OpsStepReason
  <1> QED
    BY <1>1, OpsTypeCorrect, DeadLettersInvariant, PTL
       DEF OpsSpec, FailedForAReason
=============================================================================
