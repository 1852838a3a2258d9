-------------------------- MODULE OutboxDispatcher --------------------------
(***************************************************************************)
(* The worker's transactional-outbox dispatcher: the OutboxEvent rows, the *)
(* dispatchers that claim them, publish them to a queue and record the     *)
(* result, and the administration that requeues dead letters.              *)
(*                                                                         *)
(* A dispatcher here is one instance of the class: a restarted worker has  *)
(* a new random instanceId and is another member of Dispatchers.  Each     *)
(* await of poll() and publish() is one step.  A call to the database or   *)
(* to the queue may throw, with or without having taken effect.            *)
(***************************************************************************)
EXTENDS Naturals, FiniteSets

CONSTANTS
  Dispatchers,    \* instances of OutboxDispatcher
  Events,         \* outbox events, numbered in the order of createdAt
  Poison,         \* events without a route, or with a malformed payload
  BatchSize,      \* OUTBOX_BATCH_SIZE
  MaxAttempts,    \* OUTBOX_MAX_ATTEMPTS
  MaxDisruptions, \* bound: crashes, stops and locks outlived by their owner
  MaxFaults,      \* bound: calls that throw
  MaxRequeues,    \* bound: dead letters requeued by an operator
  MaxTrims,       \* bound: finished jobs the queue forgets
  None            \* no owner, no event

ASSUME EventsAreNumbered == Events \subseteq Nat /\ IsFiniteSet(Events)

ASSUME DispatchersAreFinite == IsFiniteSet(Dispatchers)

ASSUME PoisonAreEvents == Poison \subseteq Events

ASSUME NoneIsNobody == None \notin Dispatchers /\ None \notin Events

ASSUME Bounds ==
  /\ BatchSize \in Nat \ {0}
  /\ MaxAttempts \in Nat \ {0}
  /\ MaxDisruptions \in Nat
  /\ MaxFaults \in Nat
  /\ MaxRequeues \in Nat
  /\ MaxTrims \in Nat

VARIABLES
  row,          \* the OutboxEvent rows
  disp,         \* the local state of each dispatcher
  queue,        \* what the queue holds under the event's job id
  created,      \* history: jobs the queue has created for the event
  requeued,     \* history: times an operator requeued the event
  disruptions,  \* crashes, stops and outlived locks so far
  faults,       \* calls that threw so far
  trims         \* jobs forgotten so far

vars == <<row, disp, queue, created, requeued, disruptions, faults, trims>>
jobs == <<queue, created, trims>>
bounded == <<requeued, disruptions, faults>>

Status == {"PENDING", "PROCESSING", "PUBLISHED", "DEAD_LETTER"}

(* One label per await of poll(), publish() and handlePublishFailure().    *)
Label == {"new", "idle", "releaseExpiredLocks", "claimPendingEvents",
          "publish", "dispatch", "markPublished", "handlePublishFailure",
          "markFailed", "off", "crashed"}

(* "available" says that availableAt has passed, "expired" that lockedAt   *)
(* is older than OUTBOX_LOCK_TIMEOUT_MS.                                   *)
Row ==
  [status : Status, lockedBy : Dispatchers \cup {None}, attempts : Nat,
   available : BOOLEAN, expired : BOOLEAN]

(* todo: the claimed events not yet looked at; event: the one being        *)
(* published; claimed: the attempts the claim returned for them.           *)
LocalState ==
  [pc : Label, running : BOOLEAN, todo : SUBSET Events,
   event : Events \cup {None}, claimed : [Events -> Nat]]

Publishing == {"publish", "dispatch", "markPublished",
               "handlePublishFailure", "markFailed"}

(* A row is locked exactly while it is PROCESSING.                         *)
LockOK(r) ==
  /\ r.status = "PROCESSING" <=> r.lockedBy # None
  /\ r.expired => r.status = "PROCESSING"

TypeOK ==
  /\ row \in [Events -> Row] /\ \A v \in Events : LockOK(row[v])
  /\ disp \in [Dispatchers -> LocalState]
  /\ \A p \in Dispatchers :
       disp[p].pc \in Publishing => disp[p].event \in Events
  /\ queue \in [Events -> {"none", "queued", "kept"}]
  /\ created \in [Events -> Nat]
  /\ requeued \in [Events -> Nat]
  /\ disruptions \in 0..MaxDisruptions
  /\ faults \in 0..MaxFaults
  /\ trims \in 0..MaxTrims

-----------------------------------------------------------------------------
(* What a dispatcher does next.                                            *)

At(p, label) == disp[p].pc = label

Alive(p) == disp[p].pc \notin {"new", "off", "crashed"}

(* Outside of a batch; running decides whether the interval polls again.   *)
Resting(running) ==
  [pc |-> IF running THEN "idle" ELSE "off", running |-> running,
   todo |-> {}, event |-> None, claimed |-> [v \in Events |-> 0]]

(* The loop over the claimed events, left when stop() has been called.     *)
Loop(p, todo, claimed) ==
  IF disp[p].running /\ todo # {}
    THEN {[pc |-> "publish", running |-> TRUE, todo |-> todo \ {v},
           event |-> v, claimed |-> claimed] : v \in todo}
    ELSE {Resting(disp[p].running)}

NextEvent(p) ==
  \E x \in Loop(p, disp[p].todo,
                [disp[p].claimed EXCEPT ![disp[p].event] = 0]) :
    disp' = [disp EXCEPT ![p] = x]

Goto(p, label) == disp' = [disp EXCEPT ![p].pc = label]

(* poll()'s catch block: the rest of the batch is abandoned.               *)
AbandonBatch(p) ==
  disp' = [disp EXCEPT ![p] = Resting(disp[p].running)]

Throws == faults < MaxFaults /\ faults' = faults + 1

Disrupts == disruptions < MaxDisruptions /\ disruptions' = disruptions + 1

(* Mutant: the guard of an update forgets the owner.                       *)
OwnsUnlocked(p, v) == row[v].status = "PROCESSING"

Owns(p, v) == row[v].status = "PROCESSING" /\ row[v].lockedBy = p

-----------------------------------------------------------------------------
(* poll(): release, claim, publish one event after the other.              *)

Start(p) ==
  /\ At(p, "new")
  /\ disp' = [disp EXCEPT ![p].pc = "releaseExpiredLocks",
                          ![p].running = TRUE]
  /\ UNCHANGED <<row, jobs, bounded>>

Poll(p) ==
  /\ At(p, "idle")
  /\ Goto(p, "releaseExpiredLocks")
  /\ UNCHANGED <<row, jobs, bounded>>

(* Mutant: a row on its last attempt is not recovered.                     *)
StaleWithAttemptsLeft(v) ==
  /\ row[v].status = "PROCESSING" /\ row[v].expired
  /\ row[v].attempts < MaxAttempts

Stale(v) == row[v].status = "PROCESSING" /\ row[v].expired

Released ==
  [v \in Events |->
     IF Stale(v)
       THEN [row[v] EXCEPT !.status = "PENDING", !.lockedBy = None,
                           !.expired = FALSE]
       ELSE row[v]]

ReleaseExpiredLocks(p) ==
  /\ At(p, "releaseExpiredLocks")
  /\ \/ row' = Released /\ Goto(p, "claimPendingEvents") /\ UNCHANGED faults
     \/ row' \in {row, Released} /\ AbandonBatch(p) /\ Throws
  /\ UNCHANGED <<jobs, requeued, disruptions>>

Claimable(v) ==
  row[v].available /\ (row[v].status = "PENDING" \/ Stale(v))

(* The oldest claimable events, at most BatchSize of them.  A row another  *)
(* statement holds is skipped: that statement comes first or after.        *)
Batch ==
  {v \in Events :
     /\ Claimable(v)
     /\ Cardinality({w \in Events : Claimable(w) /\ w < v}) < BatchSize}

Claimed(p) ==
  [v \in Events |->
     IF v \in Batch
       THEN [status |-> "PROCESSING", lockedBy |-> p,
             attempts |-> row[v].attempts + 1, available |-> TRUE,
             expired |-> FALSE]
       ELSE row[v]]

ClaimPendingEvents(p) ==
  /\ At(p, "claimPendingEvents")
  /\ \/ /\ row' = Claimed(p)
        /\ \E x \in Loop(p, Batch,
                [v \in Events |->
                   IF v \in Batch THEN row[v].attempts + 1 ELSE 0]) :
             disp' = [disp EXCEPT ![p] = x]
        /\ UNCHANGED faults
     \/ row' \in {row, Claimed(p)} /\ AbandonBatch(p) /\ Throws
  /\ UNCHANGED <<jobs, requeued, disruptions>>

(* The check at the head of publish(); outside its try block.              *)
Publish(p) ==
  /\ At(p, "publish")
  /\ LET current == row[disp[p].event]
     IN \/ /\ current.status \notin {"PUBLISHED", "DEAD_LETTER"}
           /\ current.lockedBy = p
           /\ Goto(p, "dispatch")
           /\ UNCHANGED faults
        \/ /\ \/ current.status \in {"PUBLISHED", "DEAD_LETTER"}
              \/ current.lockedBy # p
           /\ NextEvent(p)
           /\ UNCHANGED faults
        \/ AbandonBatch(p) /\ Throws
  /\ UNCHANGED <<row, jobs, requeued, disruptions>>

(* Mutant: every publication draws a new job id.                           *)
AddUnderNewId(v) ==
  /\ queue' = [queue EXCEPT ![v] = "queued"]
  /\ created' = [created EXCEPT ![v] = created[v] + 1]

(* queue.add under a job id derived from the event: nothing is created     *)
(* while the queue remembers a job of that id.                             *)
Add(v) ==
  IF queue[v] = "none"
    THEN /\ queue' = [queue EXCEPT ![v] = "queued"]
         /\ created' = [created EXCEPT ![v] = created[v] + 1]
    ELSE UNCHANGED <<queue, created>>

(* Mutant: an error of the queue is swallowed.                             *)
DispatchSwallowsError(p) ==
  /\ At(p, "dispatch")
  /\ \/ /\ disp[p].event \notin Poison
        /\ Add(disp[p].event)
        /\ Goto(p, "markPublished")
        /\ UNCHANGED faults
     \/ /\ disp[p].event \in Poison
        /\ Goto(p, "handlePublishFailure")
        /\ UNCHANGED <<queue, created, faults>>
     \/ /\ disp[p].event \notin Poison
        /\ UNCHANGED <<queue, created>>
        /\ Goto(p, "markPublished")
        /\ Throws
  /\ UNCHANGED <<row, trims, requeued, disruptions>>

Dispatch(p) ==
  /\ At(p, "dispatch")
  /\ \/ /\ disp[p].event \notin Poison
        /\ Add(disp[p].event)
        /\ Goto(p, "markPublished")
        /\ UNCHANGED faults
     \/ /\ disp[p].event \in Poison
        /\ Goto(p, "handlePublishFailure")
        /\ UNCHANGED <<queue, created, faults>>
     \/ /\ disp[p].event \notin Poison
        /\ UNCHANGED <<queue, created>> \/ Add(disp[p].event)
        /\ Goto(p, "handlePublishFailure")
        /\ Throws
  /\ UNCHANGED <<row, trims, requeued, disruptions>>

(* Only the owner of the PROCESSING row makes it PUBLISHED; one that lost  *)
(* the row goes on with its batch.                                         *)
PublishedRow(v) ==
  [row[v] EXCEPT !.status = "PUBLISHED", !.lockedBy = None, !.expired = FALSE]

MarkPublished(p) ==
  /\ At(p, "markPublished")
  /\ LET v == disp[p].event
         mark == row' = [row EXCEPT ![v] = PublishedRow(v)]
     IN \/ Owns(p, v) /\ mark /\ NextEvent(p) /\ UNCHANGED faults
        \/ ~Owns(p, v) /\ NextEvent(p) /\ UNCHANGED <<row, faults>>
        \/ /\ UNCHANGED row \/ (Owns(p, v) /\ mark)
           /\ Goto(p, "handlePublishFailure")
           /\ Throws
  /\ UNCHANGED <<jobs, requeued, disruptions>>

-----------------------------------------------------------------------------
(* handlePublishFailure(): an error in it ends the poll.                   *)

HandlePublishFailure(p) ==
  /\ At(p, "handlePublishFailure")
  /\ \/ Owns(p, disp[p].event) /\ Goto(p, "markFailed") /\ UNCHANGED faults
     \/ ~Owns(p, disp[p].event) /\ NextEvent(p) /\ UNCHANGED faults
     \/ AbandonBatch(p) /\ Throws
  /\ UNCHANGED <<row, jobs, requeued, disruptions>>

(* Mutant: one attempt too many.                                           *)
FailedRowLate(p, v) ==
  IF disp[p].claimed[v] > MaxAttempts
    THEN [row[v] EXCEPT !.status = "DEAD_LETTER", !.lockedBy = None,
                        !.expired = FALSE]
    ELSE [row[v] EXCEPT !.status = "PENDING", !.lockedBy = None,
                        !.expired = FALSE, !.available = FALSE]

(* Mutant: one attempt too few.                                            *)
FailedRowEarly(p, v) ==
  IF disp[p].claimed[v] + 1 >= MaxAttempts
    THEN [row[v] EXCEPT !.status = "DEAD_LETTER", !.lockedBy = None,
                        !.expired = FALSE]
    ELSE [row[v] EXCEPT !.status = "PENDING", !.lockedBy = None,
                        !.expired = FALSE, !.available = FALSE]

(* The attempts are those the claim returned.                              *)
FailedRow(p, v) ==
  IF disp[p].claimed[v] >= MaxAttempts
    THEN [row[v] EXCEPT !.status = "DEAD_LETTER", !.lockedBy = None,
                        !.expired = FALSE]
    ELSE [row[v] EXCEPT !.status = "PENDING", !.lockedBy = None,
                        !.expired = FALSE, !.available = FALSE]

MarkFailed(p) ==
  /\ At(p, "markFailed")
  /\ LET v == disp[p].event
         mark == row' = [row EXCEPT ![v] = FailedRow(p, v)]
     IN \/ Owns(p, v) /\ mark /\ NextEvent(p) /\ UNCHANGED faults
        \/ ~Owns(p, v) /\ NextEvent(p) /\ UNCHANGED <<row, faults>>
        \/ /\ UNCHANGED row \/ (Owns(p, v) /\ mark)
           /\ AbandonBatch(p)
           /\ Throws
  /\ UNCHANGED <<jobs, requeued, disruptions>>

-----------------------------------------------------------------------------
(* Shutdown, crashes, time, the queue and the operator.                    *)

(* stop() waits for the poll in progress, which leaves its loop at the     *)
(* next event and keeps the locks of the others.                           *)
Stop(p) ==
  /\ Alive(p) /\ disp[p].running /\ Disrupts
  /\ disp' = [disp EXCEPT ![p].running = FALSE,
                          ![p].pc = IF At(p, "idle") THEN "off" ELSE @]
  /\ UNCHANGED <<row, jobs, requeued, faults>>

Crash(p) ==
  /\ Alive(p) /\ Disrupts
  /\ disp' = [disp EXCEPT ![p] = [Resting(FALSE) EXCEPT !.pc = "crashed"]]
  /\ UNCHANGED <<row, jobs, requeued, faults>>

(* Somebody is going to settle the row.                                    *)
InHand(v) ==
  \E p \in Dispatchers :
    /\ row[v].lockedBy = p
    /\ v \in disp[p].todo \cup {disp[p].event}

(* A lock nobody will release runs out; a lock in use runs out when its    *)
(* dispatcher is slower than the timeout.                                  *)
LockTimesOut(v) ==
  /\ row[v].status = "PROCESSING" /\ ~row[v].expired
  /\ row' = [row EXCEPT ![v].expired = TRUE]
  /\ \/ ~InHand(v) /\ UNCHANGED disruptions
     \/ InHand(v) /\ Disrupts
  /\ UNCHANGED <<disp, jobs, requeued, faults>>

BackoffElapses(v) ==
  /\ ~row[v].available
  /\ row' = [row EXCEPT ![v].available = TRUE]
  /\ UNCHANGED <<disp, jobs, bounded>>

(* A worker finishes the job; the queue keeps the most recent ones only.   *)
JobFinishes(v) ==
  /\ queue[v] = "queued"
  /\ queue' = [queue EXCEPT ![v] = "kept"]
  /\ UNCHANGED <<row, disp, created, trims, bounded>>

JobIsTrimmed(v) ==
  /\ queue[v] = "kept" /\ trims < MaxTrims
  /\ queue' = [queue EXCEPT ![v] = "none"]
  /\ trims' = trims + 1
  /\ UNCHANGED <<row, disp, created, bounded>>

(* The attempts stay as they are.                                          *)
RequeueDeadLetter(v) ==
  /\ row[v].status = "DEAD_LETTER" /\ requeued[v] < MaxRequeues
  /\ row' = [row EXCEPT ![v].status = "PENDING", ![v].available = TRUE]
  /\ requeued' = [requeued EXCEPT ![v] = requeued[v] + 1]
  /\ UNCHANGED <<disp, jobs, disruptions, faults>>

(* The operator's own release of stale locks.                              *)
RecoverStuckEvents ==
  /\ row' = [v \in Events |->
               IF Stale(v) THEN [Released[v] EXCEPT !.available = TRUE]
                           ELSE row[v]]
  /\ UNCHANGED <<disp, jobs, bounded>>

-----------------------------------------------------------------------------
Init ==
  /\ row = [v \in Events |->
              [status |-> "PENDING", lockedBy |-> None, attempts |-> 0,
               available |-> TRUE, expired |-> FALSE]]
  /\ disp = [p \in Dispatchers |-> [Resting(FALSE) EXCEPT !.pc = "new"]]
  /\ queue = [v \in Events |-> "none"]
  /\ created = [v \in Events |-> 0]
  /\ requeued = [v \in Events |-> 0]
  /\ disruptions = 0
  /\ faults = 0
  /\ trims = 0

(* One step of the code of a dispatcher.                                   *)
Work(p) ==
  \/ Start(p)
  \/ Poll(p)
  \/ ReleaseExpiredLocks(p)
  \/ ClaimPendingEvents(p)
  \/ Publish(p)
  \/ Dispatch(p)
  \/ MarkPublished(p)
  \/ HandlePublishFailure(p)
  \/ MarkFailed(p)

Next ==
  \/ \E p \in Dispatchers : Work(p)
  \/ \E p \in Dispatchers : Stop(p)
  \/ \E p \in Dispatchers : Crash(p)
  \/ \E v \in Events : LockTimesOut(v)
  \/ \E v \in Events : BackoffElapses(v)
  \/ \E v \in Events : JobFinishes(v)
  \/ \E v \in Events : JobIsTrimmed(v)
  \/ \E v \in Events : RequeueDeadLetter(v)
  \/ RecoverStuckEvents

Spec == Init /\ [][Next]_vars

(* The interval timer polls again, awaited calls return, time passes.      *)
(* Nothing is assumed of an operator, a crash or a fault.                  *)
Fairness ==
  /\ \A p \in Dispatchers : WF_vars(Work(p))
  /\ \A v \in Events : WF_vars(LockTimesOut(v) /\ ~InHand(v))
  /\ \A v \in Events : WF_vars(BackoffElapses(v))

FairSpec == Spec /\ Fairness

-----------------------------------------------------------------------------
(* Properties.                                                             *)

(* The outbox as its users see it.                                         *)
Abstract == INSTANCE Outbox WITH
  state <- [v \in Events |->
              IF row[v].status = "PUBLISHED" THEN "published"
              ELSE IF row[v].status = "DEAD_LETTER" THEN "dead"
              ELSE "pending"],
  delivered <- {v \in Events : created[v] > 0}

(* The dispatcher implements the abstract outbox: no event is published    *)
(* that the queue never had, and settled events stay settled.              *)
ImplementsOutbox == Abstract!Spec

(* While a dispatcher that may still crash or lose its locks is running,   *)
(* no event stays pending.                                                 *)
ImplementsLiveOutbox == Abstract!FairSpec

(* A claim whose lock has not timed out ends only by a step of the         *)
(* dispatcher that holds it, and nobody else's claim, release, failed      *)
(* publication or recovery takes the row away.                             *)
LiveClaimIsExclusive ==
  [][\A v \in Events :
       row[v].status = "PROCESSING" /\ ~row[v].expired
         /\ <<row'[v].status, row'[v].lockedBy>> #
            <<row[v].status, row[v].lockedBy>> =>
         \E p \in Dispatchers :
           /\ row[v].lockedBy = p /\ disp[p].event = v
           /\ disp'[p] # disp[p]]_vars

(* Every claim beyond the limit is paid for by an interruption, a failed   *)
(* call or an operator: retries are bounded although an attempt is counted *)
(* when the row is claimed and judged only when a publication fails.       *)
AttemptsAreBounded ==
  \A v \in Events :
    row[v].attempts <= MaxAttempts + disruptions + faults + requeued[v]

(* An event is given up only after all its attempts: the attempts a        *)
(* dispatcher decides with are those of the row it owns.                   *)
DeadIsExhausted ==
  \A v \in Events :
    /\ row[v].status = "DEAD_LETTER" => row[v].attempts >= MaxAttempts
    /\ \A p \in Dispatchers :
         Owns(p, v) /\ v \in disp[p].todo \cup {disp[p].event} =>
           disp[p].claimed[v] = row[v].attempts

(* Dispatchers that publish one event again, after a crash before the      *)
(* PUBLISHED update or after a lost lock, create one job of it, except for *)
(* jobs the queue has forgotten.                                           *)
OneJobPerEvent == \A v \in Events : created[v] <= 1 + trims

(* A healthy event is published in the end, not given up, when there are   *)
(* fewer interruptions and failed calls than attempts, whatever becomes of *)
(* the poison among the others.                                            *)
HealthyIsPublished ==
  \A v \in Events \ Poison : <>[](row[v].status = "PUBLISHED")

-----------------------------------------------------------------------------
(* The inductive invariant behind the safety properties.                   *)

(* The event being published has left the rest of the batch, nothing is in *)
(* hand outside of a batch, and only a running dispatcher waits to poll.   *)
HandsInOrder ==
  \A p \in Dispatchers :
    /\ At(p, "idle") => disp[p].running
    /\ disp[p].event \notin disp[p].todo
    /\ disp[p].pc \notin Publishing =>
         disp[p].event = None /\ disp[p].todo = {}

(* What is PUBLISHED, or about to be, the queue has had.                   *)
PublishedWasCreated ==
  /\ \A v \in Events : row[v].status = "PUBLISHED" => created[v] > 0
  /\ \A v \in Events : queue[v] # "none" => created[v] > 0
  /\ \A p \in Dispatchers : At(p, "markPublished") => created[disp[p].event] > 0

(* A row that may be claimed again.                                        *)
Dangling(v) ==
  \/ row[v].status = "PENDING"
  \/ /\ row[v].status = "PROCESSING"
     /\ \/ row[v].expired
        \/ ~InHand(v)
        \/ \E p \in Dispatchers : row[v].lockedBy = p /\ ~disp[p].running

(* Dispatchers that were stopped and will still claim a batch, only to     *)
(* leave it.                                                               *)
Leaving ==
  {p \in Dispatchers :
     /\ disp[p].pc \in {"releaseExpiredLocks", "claimPendingEvents"}
     /\ ~disp[p].running}

(* What may exceed the limit: interruptions, failed calls, the operator.   *)
Allowance(v) == disruptions + faults + requeued[v]

(* Each attempt beyond the limit, made or to come, is covered.             *)
AttemptsAccounted ==
  /\ Cardinality(Leaving) <= disruptions
  /\ \A v \in Events :
       /\ row[v].attempts + Cardinality(Leaving) <= MaxAttempts + Allowance(v)
       /\ Dangling(v) =>
            row[v].attempts + Cardinality(Leaving)
              < MaxAttempts + Allowance(v)

JobsAccounted ==
  \A v \in Events :
    /\ created[v] <= 1 + trims
    /\ queue[v] = "none" => created[v] <= trims

OutboxInv ==
  /\ TypeOK
  /\ HandsInOrder
  /\ PublishedWasCreated
  /\ DeadIsExhausted
  /\ AttemptsAccounted
  /\ JobsAccounted
=============================================================================
