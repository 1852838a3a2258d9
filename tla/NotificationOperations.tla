------------------------ MODULE NotificationOperations ------------------------
(***************************************************************************)
(* Everything that writes a notification's rows besides the attempts of    *)
(* the worker: the outbox that brings its jobs to the queue, the operator's *)
(* retry and replay, the synchronisation of dead letters and the recovery  *)
(* of stale deliveries, over the deliveries of NotificationDelivery.       *)
(*                                                                         *)
(* The outbox is the abstract one, which the dispatcher implements.  An    *)
(* outbox event is named after the request that creates it; the first one  *)
(* is created with the notification.  A retry names the same queue job as  *)
(* the first event, a replay a job of its own.                             *)
(***************************************************************************)
EXTENDS NotificationDelivery

CONSTANTS
  Original,     \* the event created with the notification
  RetryRequests,
  ReplayRequests,
  JobOf,        \* JobOf[v]: the queue job whose id the event's payload names
  Recoveries,   \* the calls of recoverStaleProcessing() that may overlap
  SyncBatch,    \* batchSize of the dead-letter synchronisation
  MaxRequeues,  \* bound: dead letters requeued by an operator
  MaxTrims      \* bound: finished jobs the queue forgets

Requests == RetryRequests \cup ReplayRequests
Enqueues == {Original} \cup Requests
OwnEvents == Enqueues \ ReplayRequests

ASSUME RequestsAreDistinct ==
  RetryRequests \cap ReplayRequests = {} /\ Original \notin Requests

ASSUME EventsNameJobs ==
  /\ JobOf \in [Enqueues -> Jobs]
  /\ \A v \in Enqueues : JobOf[v] \in Replays <=> v \in ReplayRequests

ASSUME OperationBounds ==
  /\ SyncBatch \in Nat \ {0}
  /\ MaxRequeues \in Nat /\ MaxTrims \in Nat

VARIABLES
  state,      \* the outbox's view of each event
  delivered,  \* the events the queue was given a job for
  scheduled,  \* the events that exist
  dead,       \* the dead letters in the order of deadLetteredAt
  queued,     \* the jobs the queue remembers
  request,    \* how far each request of an operator has come
  sync,       \* the dead letters a synchronisation pass has still to look at
  recovery,   \* the deliveries each recovery has selected
  gaveUp,     \* history: the events that have been dead letters
  failures,   \* history: how often the parent became FAILED
  requeues,   \* dead letters requeued so far
  trims       \* jobs forgotten so far

outbox == <<state, delivered, scheduled, dead, gaveUp, requeues>>
history == <<failures, trims>>
opsVars == <<outbox, queued, request, sync, recovery, history>>
allVars == <<vars, opsVars>>

Outbox == INSTANCE Outbox WITH Events <- Enqueues, Poison <- {}

\* "already": an active event answers for the request; "refused": an error.
RequestLabel == {"new", "transition", "findActive", "findWinner", "create",
                 "scheduled", "already", "refused"}

-----------------------------------------------------------------------------
(* The outbox and the queue.                                               *)

Exists(v) == v \in scheduled

(* PENDING or PROCESSING.                                                  *)
Active(v) == Exists(v) /\ state[v] = "pending"

(* queue.add under the job's id: a job the queue remembers is left alone.  *)
(* A dispatcher that lost the event may still add its job.                 *)
Deliver(v) ==
  /\ Exists(v)
  /\ Active(v) \/ disruptions < MaxDisruptions
  /\ disruptions' = IF Active(v) THEN disruptions ELSE disruptions + 1
  /\ v \notin delivered \/ JobOf[v] \notin queued
  /\ Outbox!Deliver(v) \/ (v \in delivered /\ UNCHANGED <<state, delivered>>)
  /\ queued' = queued \cup {JobOf[v]}
  /\ UNCHANGED <<rows, job, exec, ledger, dbFaults, scheduled, dead, gaveUp,
                 requeues, request, sync, recovery, history>>

Published(v) ==
  /\ Active(v) /\ Outbox!Publish(v)
  /\ UNCHANGED <<vars, scheduled, dead, gaveUp, requeues, queued, request,
                 sync, recovery, history>>

(* An event can be given up although its job exists: the update that makes *)
(* it PUBLISHED may have failed.                                           *)
GivenUp(v) ==
  /\ Active(v) /\ Outbox!GiveUp(v)
  /\ dead' = Append(dead, v)
  /\ gaveUp' = gaveUp \cup {v}
  /\ UNCHANGED <<vars, scheduled, requeues, queued, request, sync, recovery,
                 history>>

Requeue(v) ==
  /\ Outbox!Requeue(v) /\ requeues < MaxRequeues
  /\ requeues' = requeues + 1
  /\ \E i \in DOMAIN dead :
       /\ dead[i] = v
       /\ dead' = [k \in 1..(Len(dead) - 1) |->
                     IF k < i THEN dead[k] ELSE dead[k + 1]]
  /\ UNCHANGED <<vars, scheduled, gaveUp, queued, request, sync, recovery,
                 history>>

(* removeOnComplete, removeOnFail: only the most recent ones are kept.     *)
JobIsForgotten(j) ==
  /\ j \in queued /\ job[j].state \in {"completed", "failed"}
  /\ trims < MaxTrims /\ trims' = trims + 1
  /\ queued' = queued \ {j}
  /\ job' = [job EXCEPT ![j] = [state |-> "waiting", made |-> 0,
                               stalls |-> 0, holder |-> None]]
  /\ UNCHANGED <<rows, exec, ledger, faults, outbox, request, sync, recovery,
                 failures>>

-----------------------------------------------------------------------------
(* retry(): read, then one transaction.                                    *)

Going(r, label) == request' = [request EXCEPT ![r] = label]

(* A call to the database throws, or the API process dies: the request     *)
(* fails.                                                                  *)
RequestThrows(r) == Going(r, "refused") /\ DbThrows

\* What no request writes.
untouched == <<delivery, job, exec, ledger, disruptions, state, delivered,
               dead, gaveUp, requeues, queued, sync, recovery, trims>>

RetryRead(r) ==
  /\ r \in RetryRequests /\ request[r] = "new"
  /\ \/ /\ Going(r, CASE parent.status = "FAILED" -> "transition"
                     [] parent.status = "RETRYING" -> "findActive"
                     [] OTHER -> "refused")
        /\ UNCHANGED dbFaults
     \/ RequestThrows(r)
  /\ UNCHANGED <<parent, scheduled, failures, untouched>>

(* An active event of the notification, whatever it is for: a replay's    *)
(* answers for the retry too.                                              *)
SomeActive == \E v \in Enqueues : Active(v)

FindActiveRetry(r) ==
  /\ request[r] = "findActive"
  /\ \/ /\ SomeActive /\ Going(r, "already") /\ UNCHANGED dbFaults
     \/ ~SomeActive /\ Going(r, "refused") /\ UNCHANGED dbFaults
     \/ RequestThrows(r)
  /\ UNCHANGED <<parent, scheduled, failures, untouched>>

(* Mutant: the transaction trusts the status it read before.               *)
RetryableAsRead == parent.status \in {"FAILED", "RETRYING"}

Retryable == parent.status = "FAILED"

(* The parent keeps its activeAttemptToken.                                *)
ScheduleRetry(r) ==
  /\ parent' = [parent EXCEPT !.status = "RETRYING"]
  /\ scheduled' = scheduled \cup {r}

(* The request that loses the transition looks for the winner's event, in  *)
(* a statement of its own.                                                 *)
RetryTransition(r) ==
  /\ request[r] = "transition"
  /\ \/ /\ Retryable /\ ScheduleRetry(r)
        /\ Going(r, "scheduled") /\ UNCHANGED dbFaults
     \/ /\ ~Retryable /\ Going(r, "findWinner")
        /\ UNCHANGED <<parent, scheduled, dbFaults>>
     \/ /\ RequestThrows(r)
        /\ UNCHANGED <<parent, scheduled>> \/ (Retryable /\ ScheduleRetry(r))
  /\ UNCHANGED <<failures, untouched>>

FindWinner(r) ==
  /\ request[r] = "findWinner"
  /\ \/ /\ SomeActive /\ Going(r, "already") /\ UNCHANGED dbFaults
     \/ ~SomeActive /\ Going(r, "refused") /\ UNCHANGED dbFaults
     \/ RequestThrows(r)
  /\ UNCHANGED <<parent, scheduled, failures, untouched>>

-----------------------------------------------------------------------------
(* replay(): a new event with a key and a job of its own; the parent stays *)
(* as it is.                                                               *)

ReplayRead(r) ==
  /\ r \in ReplayRequests /\ request[r] = "new"
  /\ \/ /\ Going(r, IF parent.status \in {"SENT", "FAILED"} THEN "create"
                    ELSE "refused")
        /\ UNCHANGED dbFaults
     \/ RequestThrows(r)
  /\ UNCHANGED <<parent, scheduled, failures, untouched>>

CreateReplay(r) ==
  /\ request[r] = "create"
  /\ \/ /\ scheduled' = scheduled \cup {r}
        /\ Going(r, "scheduled") /\ UNCHANGED dbFaults
     \/ /\ scheduled' \in {scheduled, scheduled \cup {r}}
        /\ RequestThrows(r)
  /\ UNCHANGED <<parent, failures, untouched>>

-----------------------------------------------------------------------------
(* synchronize(): the oldest dead letters, one after the other.            *)

SyncSelect ==
  /\ sync = <<>> /\ dead # <<>>
  /\ sync' = SubSeq(dead, 1, IF Len(dead) < SyncBatch THEN Len(dead)
                             ELSE SyncBatch)
  /\ UNCHANGED <<vars, outbox, queued, request, recovery, history>>

(* Mutant: a replay's dead letter fails the parent too.                    *)
SkippedNever(v) == FALSE

(* A replay's dead letter carries a deliveryKey.                           *)
Skipped(v) == v \in ReplayRequests

Unsettled == parent.status \in {"QUEUED", "PROCESSING", "RETRYING"}

(* The parent keeps its activeAttemptToken here too.                       *)
FailParent ==
  IF Unsettled
    THEN /\ parent' = [parent EXCEPT !.status = "FAILED", !.expired = FALSE]
         /\ failures' = failures + 1
    ELSE UNCHANGED <<parent, failures>>

(* Mutant: a replay ends the pass.                                         *)
SyncNextStops ==
  /\ sync # <<>>
  /\ \/ /\ Skipped(Head(sync))
        /\ sync' = <<>>
        /\ UNCHANGED <<parent, failures, dbFaults>>
     \/ /\ ~Skipped(Head(sync))
        /\ sync' = Tail(sync) /\ FailParent
        /\ UNCHANGED dbFaults
  /\ UNCHANGED <<delivery, job, exec, ledger, disruptions, outbox, queued,
                 request, recovery, trims>>

(* An error ends the pass; the next one begins at the oldest again.        *)
SyncNext ==
  /\ sync # <<>>
  /\ \/ /\ Skipped(Head(sync))
        /\ sync' = Tail(sync)
        /\ UNCHANGED <<parent, failures, dbFaults>>
     \/ /\ ~Skipped(Head(sync))
        /\ sync' = Tail(sync) /\ FailParent
        /\ UNCHANGED dbFaults
     \/ /\ ~Skipped(Head(sync)) /\ DbThrows
        /\ sync' = <<>>
        /\ FailParent \/ UNCHANGED <<parent, failures>>
  /\ UNCHANGED <<delivery, job, exec, ledger, disruptions, outbox, queued,
                 request, recovery, trims>>

-----------------------------------------------------------------------------
(* recoverStaleProcessing(): select, then update by id and status.         *)

(* PROCESSING for longer than five minutes, and among the oldest rows.     *)
RecoverSelect(c) ==
  /\ recovery[c] = {}
  /\ \E stale \in SUBSET {d \in Deliveries : delivery[d].status = "PROCESSING"} :
       stale # {} /\ recovery' = [recovery EXCEPT ![c] = stale]
  /\ UNCHANGED <<vars, outbox, queued, request, sync, history>>

(* Mutant: the update does not look at the status again.                   *)
RecoveredAnyStatus(d) ==
  [delivery[d] EXCEPT !.status = "FAILED", !.expired = FALSE]

(* Mutant: the row is released for the next attempt.                       *)
RecoveredReleased(d) ==
  IF delivery[d].status = "PROCESSING" THEN Settled("FAILED", FALSE)
  ELSE delivery[d]

(* Token and submission marker stay on the row.                            *)
Recovered(d) ==
  IF delivery[d].status = "PROCESSING"
    THEN [delivery[d] EXCEPT !.status = "FAILED", !.expired = FALSE]
    ELSE delivery[d]

RecoverUpdate(c) ==
  /\ recovery[c] # {}
  /\ LET update == delivery' = [d \in Deliveries |->
                                  IF d \in recovery[c] THEN Recovered(d)
                                  ELSE delivery[d]]
     IN \/ update /\ UNCHANGED dbFaults
        \/ (update \/ UNCHANGED delivery) /\ DbThrows
  /\ recovery' = [recovery EXCEPT ![c] = {}]
  /\ UNCHANGED <<parent, job, exec, ledger, disruptions, outbox, queued,
                 request, sync, history>>

-----------------------------------------------------------------------------
OpsInit ==
  /\ Init
  /\ state = [v \in Enqueues |-> "pending"]
  /\ delivered = {}
  /\ scheduled = {Original}
  /\ dead = <<>>
  /\ queued = {}
  /\ request = [r \in Requests |-> "new"]
  /\ sync = <<>>
  /\ recovery = [c \in Recoveries |-> {}]
  /\ gaveUp = {}
  /\ failures = 0
  /\ requeues = 0
  /\ trims = 0

(* A parent that was failed under a running attempt is no longer           *)
(* PROCESSING; the lease of its delivery lapses all the same.              *)
OrphanLeaseLapses ==
  /\ delivery[Primary].status = "PROCESSING" /\ ~delivery[Primary].expired
  /\ parent.status # "PROCESSING"
  /\ delivery' = [delivery EXCEPT ![Primary].expired = TRUE]
  /\ UNCHANGED <<parent, job, exec, ledger, faults>>

(* The worker: as in NotificationDelivery, on the jobs the queue was given.*)
Works(e) ==
  /\ Step(e)
  /\ failures' = IF parent'.status = "FAILED" /\ parent.status # "FAILED"
                   THEN failures + 1 ELSE failures
  /\ UNCHANGED <<outbox, queued, request, sync, recovery, trims>>

TakesJob(e, j) == j \in queued /\ PickUp(e, j) /\ UNCHANGED opsVars

Surroundings ==
  /\ \/ \E e \in Execs : Crash(e)
     \/ \E j \in Jobs : StallOfCrashed(j)
     \/ \E j \in Jobs : StallOfRunning(j)
     \/ PrimaryLeaseLapses
     \/ \E d \in Deliveries : DeliveryLeaseLapses(d)
     \/ OrphanLeaseLapses
  /\ UNCHANGED opsVars

Operates(r) ==
  \/ RetryRead(r) \/ FindActiveRetry(r) \/ RetryTransition(r) \/ FindWinner(r)
  \/ ReplayRead(r) \/ CreateReplay(r)

OpsNext ==
  \/ \E e \in Execs : Works(e)
  \/ \E e \in Execs, j \in Jobs : TakesJob(e, j)
  \/ Surroundings
  \/ \E v \in Enqueues : Deliver(v) \/ Published(v) \/ GivenUp(v) \/ Requeue(v)
  \/ \E j \in Jobs : JobIsForgotten(j)
  \/ \E r \in Requests : Operates(r)
  \/ SyncSelect
  \/ SyncNext
  \/ \E c \in Recoveries : RecoverSelect(c) \/ RecoverUpdate(c)

OpsSpec == OpsInit /\ [][OpsNext]_allVars

(* Workers work and poll, every event is settled, and the synchronisation  *)
(* runs on its interval.  Operators need not do anything.                  *)
OpsFairness ==
  /\ \A e \in Execs : WF_allVars(Works(e))
  /\ \A j \in Jobs : WF_allVars(\E e \in Execs : TakesJob(e, j))
  /\ \A j \in Jobs : WF_allVars(StallOfCrashed(j) /\ UNCHANGED opsVars)
  /\ \A v \in Enqueues :
       /\ WF_allVars(Active(v) /\ Deliver(v))
       /\ WF_allVars(Published(v) \/ GivenUp(v))
  /\ WF_allVars(SyncSelect) /\ WF_allVars(SyncNext)

FairOpsSpec == OpsSpec /\ OpsFairness

-----------------------------------------------------------------------------
(* Properties.                                                             *)

(* Every retry an operator is told was scheduled goes back to a failure of *)
(* its own: two requests never revive one failure.                         *)
OneRetryPerFailure ==
  Cardinality(RetryRequests \cap scheduled) <= failures

(* Recoveries, retries and synchronisations beside the attempts cause no   *)
(* second submission, undo no settled delivery, and leave SENT on a SENT   *)
(* delivery.                                                               *)
OutsideWritesAreSafe ==
  [][SettledStep /\ NoResubmission' /\ SentIsBacked']_allVars

(* The parent is failed from outside an attempt only if an event of the    *)
(* notification itself was given up; a replay never changes it.            *)
FailedForAReason ==
  [][exec' = exec /\ parent'.status # parent.status =>
       \/ parent'.status = "RETRYING"
       \/ parent'.status = "FAILED" /\ gaveUp \cap OwnEvents # {}]_allVars

(* A dead letter of the notification's own does not leave it unsettled:    *)
(* the parent is settled, or an operator has taken the event up again.     *)
DeadIsSynchronised ==
  \A v \in OwnEvents :
    [](state[v] = "dead" => <>(~Unsettled \/ state[v] # "dead"))
=============================================================================
