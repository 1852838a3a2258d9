------------------------ MODULE NotificationDelivery ------------------------
(***************************************************************************)
(* The worker's delivery of one notification: the parent Notification row, *)
(* its NotificationDelivery rows, the queue jobs that name them and the    *)
(* executions of NotificationProcessor.process() that race over them.      *)
(*                                                                         *)
(* An execution is one call of process().  A job may be executed by        *)
(* several of them: again after a failed attempt, and concurrently when    *)
(* the queue declares a job stalled whose worker is still running.  Each   *)
(* await of the code is one step here, so that every other execution, a    *)
(* crash or a lapse of the lease can fall between two of them.  An         *)
(* execution draws its ownership tokens at random on entry; the execution  *)
(* itself stands for both its tokens.                                      *)
(*                                                                         *)
(* Every database write may fail.  A failed write has taken effect or not: *)
(* the connection can be lost before or after the commit.                  *)
(***************************************************************************)
EXTENDS Naturals, Sequences, FiniteSets

CONSTANTS
  Execs,          \* calls of process(), one per pick-up of a job
  Jobs,           \* queue jobs that concern the notification
  Replays,        \* the jobs that carry a deliveryKey of their own
  Deliveries,     \* delivery keys
  Primary,        \* the key of the notification's own channel
  Chain,          \* Chain[j]: keys of job j, its own and then its fallbacks
  MaxAttempts,    \* attempts of a job, and of the retry policy
  MaxStalls,      \* maxStalledCount of the queue
  MaxDisruptions, \* bound: crashes of an execution and locks lost by a live one
  MaxDbFaults,    \* bound: database writes and reads that throw
  None            \* no token, no holder, no job

ASSUME ChainsAreKeys ==
  /\ Replays \subseteq Jobs
  /\ Primary \in Deliveries
  /\ Chain \in [Jobs -> Seq(Deliveries)]
  /\ \A j \in Jobs : Len(Chain[j]) \in Nat \ {0}

\* createNotificationDeliveryKey: one key per channel of the notification;
\* a replay's key is fresh and has no fallback plan.
ASSUME KeysAreDistinct ==
  /\ \A j \in Jobs : \A k, l \in 1..Len(Chain[j]) :
        Chain[j][k] = Chain[j][l] => k = l
  /\ \A j \in Jobs \ Replays : Chain[j][1] = Primary
  /\ \A j \in Replays : Len(Chain[j]) = 1 /\ Chain[j][1] # Primary
  /\ \A r \in Replays, j \in Jobs \ Replays : \A k \in 1..Len(Chain[j]) :
        Chain[j][k] # Chain[r][1]

ASSUME Bounds ==
  /\ MaxAttempts \in Nat \ {0}
  /\ MaxStalls \in Nat
  /\ MaxDisruptions \in Nat
  /\ MaxDbFaults \in Nat

ASSUME NoneIsNobody == None \notin Execs /\ None \notin Jobs

VARIABLES
  parent,       \* the Notification row
  delivery,     \* the NotificationDelivery rows
  job,          \* the queue's view of each job
  exec,         \* the local state of each execution
  ledger,       \* history: what became of each call of provider.send
  disruptions,  \* crashes and lost locks so far
  dbFaults      \* database faults so far

vars == <<parent, delivery, job, exec, ledger, disruptions, dbFaults>>
rows == <<parent, delivery>>
faults == <<disruptions, dbFaults>>

ParentStatus ==
  {"QUEUED", "PROCESSING", "RETRYING", "SENT", "FAILED", "ACCEPTANCE_UNKNOWN"}
DeliveryStatus ==
  {"ABSENT", "PENDING", "PROCESSING", "SENT", "FAILED", "ACCEPTANCE_UNKNOWN"}
JobState == {"waiting", "active", "completed", "failed"}

(* Why an execution is about to record a failed delivery.                  *)
Reason == {"none",
           "retry",     \* a classified rejection the policy retries
           "terminal",  \* a classified rejection with nothing left to try
           "infra",     \* an error the provider contract did not classify
           "refused",   \* a fallback provider's explicit rejection
           "error"}     \* an error before a fallback provider was called

(* One label per await of process() and tryChannel().                      *)
Label == {"idle", "createIfMissing", "getByDeliveryKey", "claim",
          "markProviderSubmissionStarted", "send", "inflight", "markSent",
          "markAcceptanceUnknown", "markFailed", "parentMarkSent",
          "parentMarkRetrying", "parentMarkFailed", "parentMarkUnknown",
          "reconcile", "return", "throw", "done", "crashed"}

(* Outcome of one call of provider.send: "accepted" and "dropped" are what *)
(* the provider did, whether or not the caller hears of it; "rejected" is  *)
(* a definite rejection that reached the caller.                           *)
Outcome == {"none", "accepted", "dropped", "rejected"}

Terminal == {"SENT", "ACCEPTANCE_UNKNOWN"}

ParentRow ==
  [status : ParentStatus, token : Execs \cup {None}, expired : BOOLEAN]
DeliveryRow ==
  [status : DeliveryStatus, token : Execs \cup {None}, started : BOOLEAN,
   expired : BOOLEAN]
JobRecord ==
  [state : JobState, made : 0..MaxAttempts, stalls : 0..MaxStalls,
   holder : Execs \cup {None}]
LocalState ==
  [pc : Label, job : Jobs \cup {None}, attempt : 0..MaxAttempts, pos : Nat,
   why : Reason]

JobOK(jr) ==
  /\ jr.state \in {"waiting", "active"} => jr.made < MaxAttempts
  /\ jr.state = "active" => jr.holder \in Execs
LocalOK(x) ==
  x.pc # "idle" => x.job \in Jobs /\ x.pos \in 1..Len(Chain[x.job])

TypeOK ==
  /\ parent \in ParentRow
  /\ delivery \in [Deliveries -> DeliveryRow]
  /\ job \in [Jobs -> JobRecord] /\ \A j \in Jobs : JobOK(job[j])
  /\ exec \in [Execs -> LocalState] /\ \A e \in Execs : LocalOK(exec[e])
  /\ ledger \in [Execs -> [Deliveries -> Outcome]]
  /\ disruptions \in 0..MaxDisruptions
  /\ dbFaults \in 0..MaxDbFaults

-----------------------------------------------------------------------------
(* What an execution knows.                                                *)

At(e, label) == exec[e].pc = label
IsReplay(e) == exec[e].job \in Replays

(* deliveryKey of process() and, at a later position, of tryChannel().     *)
Key(e) == Chain[exec[e].job][exec[e].pos]

InFallback(e) == exec[e].pos > 1
HasFallback(e) ==
  ~IsReplay(e) /\ exec[e].pos < Len(Chain[exec[e].job])
ClaimsParent(e) == ~IsReplay(e) /\ ~InFallback(e)

Move(e, label, pos, why) ==
  [pc |-> label, job |-> exec[e].job, attempt |-> exec[e].attempt,
   pos |-> pos, why |-> why]
To(e, label) == Move(e, label, exec[e].pos, exec[e].why)
ToFail(e, why) == Move(e, "markFailed", exec[e].pos, why)
ToChannel(e, pos) == Move(e, "createIfMissing", pos, "none")

(* The catch block's branch for an unclassified error, at any await of the *)
(* primary's try block before or after the submission boundary.            *)
Infra(e) == ToFail(e, "infra")

(* An unexpected error outside tryChannel's own try block leaves execute() *)
(* and the catch block it was called from.                                 *)
Unexpected(e) == IF InFallback(e) THEN To(e, "throw") ELSE Infra(e)

-----------------------------------------------------------------------------
(* Database writes: updateMany with a guard.  The caller continues at ok   *)
(* when a row matched, at lost when none did, at err when the call threw.  *)

DbThrows == dbFaults < MaxDbFaults /\ dbFaults' = dbFaults + 1

UpdateDelivery(e, d, matches, row, ok, lost, err) ==
  \/ /\ matches
     /\ delivery' = [delivery EXCEPT ![d] = row]
     /\ exec' = [exec EXCEPT ![e] = ok]
     /\ UNCHANGED dbFaults
  \/ /\ ~matches
     /\ exec' = [exec EXCEPT ![e] = lost]
     /\ UNCHANGED <<delivery, dbFaults>>
  \/ /\ DbThrows
     /\ \/ UNCHANGED delivery
        \/ matches /\ delivery' = [delivery EXCEPT ![d] = row]
     /\ exec' = [exec EXCEPT ![e] = err]

UpdateParent(e, matches, row, ok, lost, err) ==
  \/ /\ matches
     /\ parent' = row
     /\ exec' = [exec EXCEPT ![e] = ok]
     /\ UNCHANGED dbFaults
  \/ /\ ~matches
     /\ exec' = [exec EXCEPT ![e] = lost]
     /\ UNCHANGED <<parent, dbFaults>>
  \/ /\ DbThrows
     /\ UNCHANGED parent \/ (matches /\ parent' = row)
     /\ exec' = [exec EXCEPT ![e] = err]

OwnsDelivery(e, d) ==
  delivery[d].token = e /\ delivery[d].status = "PROCESSING"
OwnsParent(e) == parent.token = e /\ parent.status = "PROCESSING"

(* Mutant: a claim that does not look at the status.                       *)
ClaimableAnyStatus(row) ==
  row.token = None \/ (row.status = "PROCESSING" /\ row.expired)

(* The where clause of every claim: free, or held past the lease.          *)
Claimable(row) ==
  /\ row.status \notin Terminal
  /\ row.token = None \/ (row.status = "PROCESSING" /\ row.expired)

(* "expired" says that a held row's timestamp is older than the lease; it   *)
(* is FALSE of a row nobody holds.                                         *)
Pending == [status |-> "PENDING", token |-> None, started |-> FALSE,
            expired |-> FALSE]
Taken(e, d) ==
  [status |-> "PROCESSING", token |-> e, started |-> delivery[d].started,
   expired |-> FALSE]
Settled(status, started) ==
  [status |-> status, token |-> None, started |-> started, expired |-> FALSE]
SettledParent(status) ==
  [status |-> status, token |-> None, expired |-> FALSE]

-----------------------------------------------------------------------------
(* process() up to the provider call; tryChannel() runs the same steps.    *)

(* The upsert runs before any try block: an error leaves process().        *)
CreateIfMissing(e) ==
  /\ At(e, "createIfMissing")
  /\ UpdateDelivery(e, Key(e), TRUE,
       IF delivery[Key(e)].status = "ABSENT"
         THEN Pending
         ELSE delivery[Key(e)],
       To(e, "getByDeliveryKey"), To(e, "throw"), To(e, "throw"))
  /\ UNCHANGED <<parent, job, ledger, disruptions>>

(* Mutant: any settled row counts as an idempotent success.                *)
AfterReadSettled(e) ==
  IF delivery[Key(e)].status \notin Terminal THEN "claim"
  ELSE IF InFallback(e) THEN "parentMarkSent"
  ELSE IF IsReplay(e) THEN "return" ELSE "reconcile"

(* A SENT row is an idempotent success: the primary repairs its parent, a  *)
(* replay is done, a fallback goes on to record the recovery.              *)
AfterRead(e) ==
  IF delivery[Key(e)].status # "SENT" THEN "claim"
  ELSE IF InFallback(e) THEN "parentMarkSent"
  ELSE IF IsReplay(e) THEN "return" ELSE "reconcile"

GetByDeliveryKey(e) ==
  /\ At(e, "getByDeliveryKey")
  /\ \/ exec' = [exec EXCEPT ![e] = To(e, AfterRead(e))] /\ UNCHANGED dbFaults
     \/ exec' = [exec EXCEPT ![e] = Unexpected(e)] /\ DbThrows
  /\ UNCHANGED <<parent, delivery, job, ledger, disruptions>>

(* Best-effort repair of the parent; an error is logged and dropped.       *)
ReconcileSentFromDelivery(e) ==
  /\ At(e, "reconcile")
  /\ UpdateParent(e, Claimable(parent), SettledParent("SENT"),
       To(e, "return"), To(e, "return"), To(e, "return"))
  /\ UNCHANGED <<delivery, job, ledger, disruptions>>

(* Parent and primary delivery in one transaction, both or neither.  The   *)
(* delivery's where clause does not look at providerSubmissionStartedAt.   *)
PrimaryClaimable == Claimable(parent) /\ Claimable(delivery[Primary])

(* Mutant: the transaction leaves the previous owner on the parent.        *)
TakePrimaryKeepsOwner(e) ==
  /\ parent' = [status |-> "PROCESSING", token |-> parent.token,
                expired |-> FALSE]
  /\ delivery' = [delivery EXCEPT ![Primary] = Taken(e, Primary)]

TakePrimary(e) ==
  /\ parent' = [status |-> "PROCESSING", token |-> e, expired |-> FALSE]
  /\ delivery' = [delivery EXCEPT ![Primary] = Taken(e, Primary)]

ClaimPrimaryAttempt(e) ==
  /\ At(e, "claim") /\ ClaimsParent(e)
  /\ \/ /\ PrimaryClaimable /\ TakePrimary(e)
        /\ exec' = [exec EXCEPT ![e] = To(e, "markProviderSubmissionStarted")]
        /\ UNCHANGED dbFaults
     \/ /\ ~PrimaryClaimable
        /\ exec' = [exec EXCEPT ![e] = To(e, "throw")]
        /\ UNCHANGED <<parent, delivery, dbFaults>>
     \/ /\ DbThrows
        /\ UNCHANGED rows \/ (PrimaryClaimable /\ TakePrimary(e))
        /\ exec' = [exec EXCEPT ![e] = Infra(e)]
  /\ UNCHANGED <<job, ledger, disruptions>>

(* A replay and a fallback own their delivery row only, and take it only   *)
(* when no submission was started on it.                                   *)
MarkProcessing(e) ==
  /\ At(e, "claim") /\ ~ClaimsParent(e)
  /\ UpdateDelivery(e, Key(e),
       Claimable(delivery[Key(e)]) /\ ~delivery[Key(e)].started,
       Taken(e, Key(e)),
       To(e, "markProviderSubmissionStarted"), To(e, "throw"), Unexpected(e))
  /\ UNCHANGED <<parent, job, ledger, disruptions>>

(* Mutant: the marker is set again on a submission already started.        *)
MarkProviderSubmissionStartedAgain(e) ==
  /\ At(e, "markProviderSubmissionStarted")
  /\ UpdateDelivery(e, Key(e), OwnsDelivery(e, Key(e)),
       [delivery[Key(e)] EXCEPT !.started = TRUE],
       To(e, "send"), To(e, "throw"),
       IF InFallback(e) THEN ToFail(e, "error") ELSE Infra(e))
  /\ UNCHANGED <<parent, job, ledger, disruptions>>

(* The durable marker that precedes provider I/O.                          *)
MarkProviderSubmissionStarted(e) ==
  /\ At(e, "markProviderSubmissionStarted")
  /\ UpdateDelivery(e, Key(e),
       OwnsDelivery(e, Key(e)) /\ ~delivery[Key(e)].started,
       [delivery[Key(e)] EXCEPT !.started = TRUE],
       To(e, "send"), To(e, "throw"),
       IF InFallback(e) THEN ToFail(e, "error") ELSE Infra(e))
  /\ UNCHANGED <<parent, job, ledger, disruptions>>

-----------------------------------------------------------------------------
(* The provider call.                                                      *)

(* The call leaves the worker; whether the provider takes the message is   *)
(* its own choice.                                                         *)
Send(e) ==
  /\ At(e, "send")
  /\ \E verdict \in {"accepted", "dropped"} :
        ledger' = [ledger EXCEPT ![e][Key(e)] = verdict]
  /\ exec' = [exec EXCEPT ![e] = To(e, "inflight")]
  /\ UNCHANGED <<parent, delivery, job, faults>>

AnswerSuccess(e) ==
  /\ At(e, "inflight") /\ ledger[e][Key(e)] = "accepted"
  /\ exec' = [exec EXCEPT ![e] = To(e, "markSent")]
  /\ UNCHANGED <<parent, delivery, job, ledger, faults>>

(* Mutant: the last attempt is retried too.                                *)
ShouldRetryOnceMore(e, retryable) ==
  retryable /\ exec[e].attempt <= MaxAttempts

(* decideNotificationRetry: RETRYABLE and RATE_LIMITED are retried while   *)
(* attempts remain, NON_RETRYABLE and PERMANENT never.                     *)
ShouldRetry(e, retryable) == retryable /\ exec[e].attempt < MaxAttempts

(* After a definite rejection: a fallback channel records it and makes     *)
(* room for the next one; the primary retries, falls back or gives up.     *)
AfterRejection(e, retryable) ==
  IF InFallback(e) THEN ToFail(e, "refused")
  ELSE IF ShouldRetry(e, retryable) THEN ToFail(e, "retry")
  ELSE IF HasFallback(e)
    THEN ToChannel(e, 2)
  ELSE ToFail(e, "terminal")

AnswerRejected(e) ==
  /\ At(e, "inflight") /\ ledger[e][Key(e)] = "dropped"
  /\ \E retryable \in BOOLEAN :
        exec' = [exec EXCEPT ![e] = AfterRejection(e, retryable)]
  /\ ledger' = [ledger EXCEPT ![e][Key(e)] = "rejected"]
  /\ UNCHANGED <<parent, delivery, job, faults>>

(* Mutant: a lost answer is taken for a rejection.                         *)
AnswerUncertainAsRejection(e) ==
  /\ At(e, "inflight")
  /\ exec' = [exec EXCEPT ![e] = AfterRejection(e, FALSE)]
  /\ UNCHANGED <<parent, delivery, job, ledger, faults>>

(* The answer is lost, a transport error is thrown, or SUCCESS comes       *)
(* without a message id: the outcome is unknown to the caller.             *)
AnswerUncertain(e) ==
  /\ At(e, "inflight")
  /\ exec' = [exec EXCEPT ![e] = To(e, "markAcceptanceUnknown")]
  /\ UNCHANGED <<parent, delivery, job, ledger, faults>>

-----------------------------------------------------------------------------
(* Recording the outcome.                                                  *)

(* Mutant: the parent hears of the primary's success only.                 *)
MarkSentPrimaryOnly(e) ==
  /\ At(e, "markSent")
  /\ UpdateDelivery(e, Key(e), OwnsDelivery(e, Key(e)),
       Settled("SENT", FALSE),
       To(e, IF ClaimsParent(e) THEN "parentMarkSent" ELSE "return"),
       To(e, "throw"), To(e, "markAcceptanceUnknown"))
  /\ UNCHANGED <<parent, job, ledger, disruptions>>

(* SENT clears the marker and the owner in one write.                      *)
MarkSent(e) ==
  /\ At(e, "markSent")
  /\ UpdateDelivery(e, Key(e), OwnsDelivery(e, Key(e)),
       Settled("SENT", FALSE),
       To(e, IF IsReplay(e) THEN "return" ELSE "parentMarkSent"),
       To(e, "throw"), To(e, "markAcceptanceUnknown"))
  /\ UNCHANGED <<parent, job, ledger, disruptions>>

(* Best effort: the marker stays.  The primary then completes its job and  *)
(* leaves the parent as it is; a fallback reports the uncertainty.         *)
MarkAcceptanceUnknown(e) ==
  /\ At(e, "markAcceptanceUnknown")
  /\ LET next == To(e, IF InFallback(e) THEN "parentMarkUnknown" ELSE "return")
     IN UpdateDelivery(e, Key(e),
          OwnsDelivery(e, Key(e)) /\ delivery[Key(e)].started,
          Settled("ACCEPTANCE_UNKNOWN", TRUE),
          next, next, next)
  /\ UNCHANGED <<parent, job, ledger, disruptions>>

ParentMarkAcceptanceUnknown(e) ==
  /\ At(e, "parentMarkUnknown")
  /\ UpdateParent(e, OwnsParent(e), SettledParent("ACCEPTANCE_UNKNOWN"),
       To(e, "return"), To(e, "return"), To(e, "return"))
  /\ UNCHANGED <<delivery, job, ledger, disruptions>>

(* Mutant: an exhausted fallback sequence starts again.                    *)
NextChannelAgain(e) ==
  ToChannel(e, IF HasFallback(e) THEN exec[e].pos + 1 ELSE 2)

(* The loop over the remaining channels; when they are exhausted the       *)
(* primary's failure is recorded.                                          *)
NextChannel(e) ==
  IF HasFallback(e)
    THEN ToChannel(e, exec[e].pos + 1)
    ELSE Move(e, "markFailed", 1, "terminal")

(* Where an execution goes once the failed delivery is on record.          *)
AfterFailed(e) ==
  CASE exec[e].why \in {"refused", "error"} -> NextChannel(e)
    [] exec[e].why = "retry" ->
         To(e, IF IsReplay(e) THEN "throw" ELSE "parentMarkRetrying")
    [] exec[e].why = "terminal" ->
         To(e, IF IsReplay(e) THEN "return" ELSE "parentMarkFailed")
    [] OTHER ->
         To(e, IF IsReplay(e) THEN "throw"
               ELSE IF exec[e].attempt < MaxAttempts THEN "parentMarkRetrying"
               ELSE "parentMarkFailed")

(* A write that throws while a rejection is recorded inside tryChannel is  *)
(* caught there, and the row is marked failed once more.                   *)
MarkFailed(e) ==
  /\ At(e, "markFailed")
  /\ UpdateDelivery(e, Key(e), OwnsDelivery(e, Key(e)),
       Settled("FAILED", FALSE), AfterFailed(e), To(e, "throw"),
       IF exec[e].why = "refused" THEN ToFail(e, "error") ELSE To(e, "throw"))
  /\ UNCHANGED <<parent, job, ledger, disruptions>>

(* After a primary delivery an error here reaches the unclassified branch; *)
(* after a fallback it is thrown from the catch block itself.              *)
ParentMarkSent(e) ==
  /\ At(e, "parentMarkSent")
  /\ UpdateParent(e, OwnsParent(e), SettledParent("SENT"),
       To(e, "return"), To(e, "throw"), Unexpected(e))
  /\ UNCHANGED <<delivery, job, ledger, disruptions>>

ParentMarkRetrying(e) ==
  /\ At(e, "parentMarkRetrying")
  /\ UpdateParent(e, OwnsParent(e), SettledParent("RETRYING"),
       To(e, "throw"), To(e, "throw"), To(e, "throw"))
  /\ UNCHANGED <<delivery, job, ledger, disruptions>>

(* A classified terminal failure completes the job, an unclassified one    *)
(* is thrown again.                                                        *)
ParentMarkFailed(e) ==
  /\ At(e, "parentMarkFailed")
  /\ UpdateParent(e, OwnsParent(e), SettledParent("FAILED"),
       To(e, IF exec[e].why = "terminal" THEN "return" ELSE "throw"),
       To(e, "throw"), To(e, "throw"))
  /\ UNCHANGED <<delivery, job, ledger, disruptions>>

-----------------------------------------------------------------------------
(* The queue, the passage of time and crashes.                             *)

(* A free worker slot picks a waiting job up: attempt = attemptsMade + 1.  *)
PickUp(e, j) ==
  /\ At(e, "idle") /\ job[j].state = "waiting"
  /\ exec' = [exec EXCEPT ![e] =
                [pc |-> "createIfMissing", job |-> j,
                 attempt |-> job[j].made + 1, pos |-> 1, why |-> "none"]]
  /\ job' = [job EXCEPT ![j] = [state |-> "active", made |-> job[j].made,
                               stalls |-> job[j].stalls, holder |-> e]]
  /\ UNCHANGED <<rows, ledger, faults>>

(* The queue hears of a result only from the execution that still holds    *)
(* the job's lock.                                                         *)
HoldsJob(e) ==
  job[exec[e].job].state = "active" /\ job[exec[e].job].holder = e

Report(e, j, state, made) ==
  job' = IF HoldsJob(e)
           THEN [job EXCEPT ![j] =
                   [state |-> state, made |-> made, stalls |-> job[j].stalls,
                    holder |-> None]]
           ELSE job

Return(e) ==
  /\ At(e, "return")
  /\ Report(e, exec[e].job, "completed", job[exec[e].job].made)
  /\ exec' = [exec EXCEPT ![e] = To(e, "done")]
  /\ UNCHANGED <<rows, ledger, faults>>

(* A thrown error, ownership loss included, uses up an attempt.            *)
Throw(e) ==
  /\ At(e, "throw")
  /\ LET made == exec[e].attempt
     IN Report(e, exec[e].job,
               IF made < MaxAttempts THEN "waiting" ELSE "failed", made)
  /\ exec' = [exec EXCEPT ![e] = To(e, "done")]
  /\ UNCHANGED <<rows, ledger, faults>>

Running(e) == exec[e].pc \notin {"idle", "done", "crashed"}

Crash(e) ==
  /\ Running(e) /\ disruptions < MaxDisruptions
  /\ disruptions' = disruptions + 1
  /\ exec' = [exec EXCEPT ![e] = To(e, "crashed")]
  /\ UNCHANGED <<rows, job, ledger, dbFaults>>

(* The stalled check: the lock of an active job was not renewed.  The job  *)
(* goes back to waiting, or fails after maxStalledCount of them.           *)
Requeued(j) ==
  IF job[j].stalls < MaxStalls
    THEN [state |-> "waiting", made |-> job[j].made,
          stalls |-> job[j].stalls + 1, holder |-> None]
    ELSE [state |-> "failed", made |-> job[j].made,
          stalls |-> job[j].stalls, holder |-> None]

StallOfCrashed(j) ==
  /\ job[j].state = "active" /\ exec[job[j].holder].pc = "crashed"
  /\ job' = [job EXCEPT ![j] = Requeued(j)]
  /\ UNCHANGED <<rows, exec, ledger, faults>>

(* A paused or partitioned worker loses the lock and keeps running.        *)
StallOfRunning(j) ==
  /\ job[j].state = "active" /\ Running(job[j].holder)
  /\ disruptions < MaxDisruptions /\ disruptions' = disruptions + 1
  /\ job' = [job EXCEPT ![j] = Requeued(j)]
  /\ UNCHANGED <<rows, exec, ledger, dbFaults>>

(* Time passes the lease.  The parent and the primary delivery were        *)
(* claimed with one timestamp and lapse together.                          *)
PrimaryLeaseLapses ==
  /\ parent.status = "PROCESSING" /\ ~parent.expired
  /\ parent' = [parent EXCEPT !.expired = TRUE]
  /\ delivery' = [delivery EXCEPT ![Primary].expired =
                     delivery[Primary].status = "PROCESSING"]
  /\ UNCHANGED <<job, exec, ledger, faults>>

(* A fallback row was claimed after the parent by the same execution and   *)
(* cannot lapse before it.                                                 *)
DeliveryLeaseLapses(d) ==
  /\ d # Primary
  /\ delivery[d].status = "PROCESSING" /\ ~delivery[d].expired
  /\ delivery[d].token = parent.token => parent.expired
  /\ delivery' = [delivery EXCEPT ![d].expired = TRUE]
  /\ UNCHANGED <<parent, job, exec, ledger, faults>>

-----------------------------------------------------------------------------
Init ==
  /\ parent = [status |-> "QUEUED", token |-> None, expired |-> FALSE]
  /\ delivery = [d \in Deliveries |->
                   [status |-> "ABSENT", token |-> None,
                    started |-> FALSE, expired |-> FALSE]]
  /\ job = [j \in Jobs |-> [state |-> "waiting", made |-> 0, stalls |-> 0,
                            holder |-> None]]
  /\ exec = [e \in Execs |-> [pc |-> "idle", job |-> None, attempt |-> 0,
                              pos |-> 0, why |-> "none"]]
  /\ ledger = [e \in Execs |-> [d \in Deliveries |-> "none"]]
  /\ disruptions = 0
  /\ dbFaults = 0

(* One step of the code of an execution.                                   *)
Step(e) ==
  \/ CreateIfMissing(e)
  \/ GetByDeliveryKey(e)
  \/ ReconcileSentFromDelivery(e)
  \/ ClaimPrimaryAttempt(e)
  \/ MarkProcessing(e)
  \/ MarkProviderSubmissionStarted(e)
  \/ Send(e)
  \/ AnswerUncertain(e)
  \/ AnswerSuccess(e)
  \/ AnswerRejected(e)
  \/ MarkSent(e)
  \/ MarkAcceptanceUnknown(e)
  \/ ParentMarkAcceptanceUnknown(e)
  \/ MarkFailed(e)
  \/ ParentMarkSent(e)
  \/ ParentMarkRetrying(e)
  \/ ParentMarkFailed(e)
  \/ Return(e)
  \/ Throw(e)

Next ==
  \/ \E e \in Execs : Step(e)
  \/ \E e \in Execs, j \in Jobs : PickUp(e, j)
  \/ \E e \in Execs : Crash(e)
  \/ \E j \in Jobs : StallOfCrashed(j)
  \/ \E j \in Jobs : StallOfRunning(j)
  \/ PrimaryLeaseLapses
  \/ \E d \in Deliveries : DeliveryLeaseLapses(d)

Spec == Init /\ [][Next]_vars

(* A running worker keeps running its executions, polls the queue and      *)
(* checks for stalled jobs every stalledInterval; time passes.  Nothing is *)
(* assumed of crashes, lost locks and database faults.                     *)
Fairness ==
  /\ \A e \in Execs : WF_vars(Step(e))
  /\ \A j \in Jobs : WF_vars(\E e \in Execs : PickUp(e, j))
  /\ \A j \in Jobs : WF_vars(StallOfCrashed(j))
  /\ WF_vars(PrimaryLeaseLapses)
  /\ \A d \in Deliveries : WF_vars(DeliveryLeaseLapses(d))

FairSpec == Spec /\ Fairness

-----------------------------------------------------------------------------
(* Properties.                                                             *)

(* A call of provider.send whose outcome nobody has shown to be a          *)
(* rejection: the provider may have taken the message.                     *)
Open(e, d) == ledger[e][d] \in {"accepted", "dropped"}

(* The deliveries whose claims look at the submission marker, and the      *)
(* primary as long as no database call throws.                             *)
MarkerHolds(d) == d # Primary \/ MaxDbFaults = 0

(* provider.send is not called for a delivery while an earlier call for it *)
(* may have been accepted, whatever crashes, lost locks, redeliveries and  *)
(* expired leases come between the two calls.                              *)
NoResubmission ==
  \A d \in Deliveries : MarkerHolds(d) =>
    \A e1, e2 \in Execs : Open(e1, d) /\ Open(e2, d) => e1 = e2

(* The same without the exception for database faults.                     *)
NoResubmissionEver ==
  \A d \in Deliveries :
    \A e1, e2 \in Execs : Open(e1, d) /\ Open(e2, d) => e1 = e2

(* Fallback is used only after definite rejections: of all the channels of *)
(* one notification at most one may have taken the message.                *)
OneChannelAccepts ==
  MaxDbFaults = 0 =>
    \A j1, j2 \in Jobs \ Replays :
      \A k \in 1..Len(Chain[j1]), l \in 1..Len(Chain[j2]) :
        \A e1, e2 \in Execs :
          /\ Open(e1, Chain[j1][k])
          /\ Open(e2, Chain[j2][l])
          => e1 = e2 /\ Chain[j1][k] = Chain[j2][l]

(* A SENT parent stands on a SENT delivery of one of its own channels, and *)
(* a SENT delivery on a message the provider accepted.                     *)
SentIsBacked ==
  /\ parent.status = "SENT" =>
       \E j \in Jobs \ Replays : \E k \in 1..Len(Chain[j]) :
         delivery[Chain[j][k]].status = "SENT"
  /\ \A d \in Deliveries : delivery[d].status = "SENT" =>
       \E e \in Execs : ledger[e][d] = "accepted"

(* The two tokens of a primary attempt stay paired: the owner of the       *)
(* parent owns the primary delivery, or has given it up and nobody else    *)
(* has it.                                                                 *)
TokensPaired ==
  parent.status = "PROCESSING" =>
    delivery[Primary].token \in {parent.token, None}

(* What a step leaves alone: a settled row, and the ledger of its channel.  *)
SettledStep ==
  \A d \in Deliveries : delivery[d].status \in Terminal =>
    /\ delivery'[d] = delivery[d]
    /\ MarkerHolds(d) =>
         \A e \in Execs : ledger[e][d] = "none" => ledger'[e][d] = "none"

(* Once a delivery is SENT or ACCEPTANCE_UNKNOWN nothing moves it, and     *)
(* nothing is submitted for it: no late write of a stale execution undoes  *)
(* a settled outcome, and no stale read of it leads to another submission. *)
SettledStays == [][SettledStep]_vars

(* With one job for the notification and no crash, lost lock or database   *)
(* fault: when every job has left the queue and nothing runs any more, the *)
(* parent and the deliveries of its channels agree on whether the          *)
(* notification was sent.  A second job may take the parent over while the *)
(* first is on a fallback channel, whose success then stays off the parent. *)
OneJob == \A i, j \in Jobs \ Replays : i = j
Quiet ==
  /\ \A j \in Jobs : job[j].state \in {"completed", "failed"}
  /\ \A e \in Execs : ~Running(e)
Undisturbed == disruptions = 0 /\ dbFaults = 0
QuietAgrees ==
  OneJob /\ Quiet /\ Undisturbed =>
    ((parent.status = "SENT") <=>
       \E j \in Jobs \ Replays : \E k \in 1..Len(Chain[j]) :
         delivery[Chain[j][k]].status = "SENT")

(* With no crash, lost lock or database fault: the notification ends SENT, *)
(* FAILED, or with an outcome recorded as unknown.                         *)
EventuallyDecided ==
  []Undisturbed =>
    <>[](\/ parent.status \in {"SENT", "FAILED", "ACCEPTANCE_UNKNOWN"}
         \/ delivery[Primary].status = "ACCEPTANCE_UNKNOWN")

(* Every job leaves the queue for good, however its executions crash, lose *)
(* their lock or fail to reach the database.                               *)
JobsLeave == <>[](\A j \in Jobs : job[j].state \in {"completed", "failed"})

-----------------------------------------------------------------------------
(* The inductive invariant behind the safety properties.                   *)

(* Has set the marker and is about to call the provider.                   *)
Marked(e, d) == At(e, "send") /\ Key(e) = d
Engaged(e, d) == Marked(e, d) \/ Open(e, d)

(* Labels before the call of the provider, and labels that can only be     *)
(* reached by failing.                                                     *)
BeforeSend == {"createIfMissing", "getByDeliveryKey", "claim",
               "markProviderSubmissionStarted", "send"}
Failing == {"markFailed", "parentMarkFailed", "parentMarkRetrying",
            "return", "throw", "done", "crashed"}
ParentWrites == {"reconcile", "parentMarkSent", "parentMarkUnknown",
                 "parentMarkRetrying", "parentMarkFailed"}

(* The history of an execution follows its position in the chain.          *)
LedgerFollows(e) ==
  /\ At(e, "idle") => \A d \in Deliveries : ledger[e][d] = "none"
  /\ ~At(e, "idle") /\ exec[e].why # "terminal" =>
       \A k \in 1..Len(Chain[exec[e].job]) :
         k > exec[e].pos \/ (k = exec[e].pos /\ exec[e].pc \in BeforeSend) =>
           ledger[e][Chain[exec[e].job][k]] = "none"
  /\ ~At(e, "idle") /\ InFallback(e) => ~Open(e, Chain[exec[e].job][1])
  /\ exec[e].why # "none" => exec[e].pc \in Failing
  /\ exec[e].why \in {"refused", "error"} => InFallback(e)
  /\ exec[e].pc \in {"inflight", "markAcceptanceUnknown"} => Open(e, Key(e))
  /\ At(e, "markSent") => ledger[e][Key(e)] = "accepted"
  /\ exec[e].pc \in ParentWrites => ~IsReplay(e)

(* The owner of a row somebody else is engaged on can do nothing with it:  *)
(* it took the lapsed primary over and will be refused at the marker.      *)
Blocked(e, d) ==
  \/ exec[e].pc \in {"throw", "done", "crashed"}
  \/ At(e, "markProviderSubmissionStarted") /\ Key(e) = d /\ d = Primary

(* Held by an attempt, or failed by the recovery under one: its token then *)
(* stays on the row, which nobody can claim any more.                      *)
Kept(d) ==
  \/ delivery[d].status = "PROCESSING"
  \/ delivery[d].status = "FAILED" /\ delivery[d].token # None

(* One row and the executions engaged on it: they left the marker on it or *)
(* settled it as SENT; there is one of them; it owns the row unless the    *)
(* owner is blocked; an owner that records a failure had its call rejected.*)
MarkerInv(d) ==
  MarkerHolds(d) =>
    /\ \A e \in Execs : Marked(e, d) => delivery[d].started /\ Kept(d)
    /\ \A e \in Execs : Open(e, d) =>
         \/ delivery[d].status = "SENT"
         \/ /\ delivery[d].started
            /\ Kept(d) \/ delivery[d].status = "ACCEPTANCE_UNKNOWN"
    /\ \A e, f \in Execs : Engaged(e, d) /\ Engaged(f, d) => e = f
    /\ \A e, f \in Execs :
         OwnsDelivery(e, d) /\ Engaged(f, d) => e = f \/ Blocked(e, d)
    /\ \A e \in Execs :
         At(e, "markFailed") /\ Key(e) = d /\ OwnsDelivery(e, d) => ~Open(e, d)

SubmissionInv ==
  /\ TypeOK
  /\ \A e \in Execs : LedgerFollows(e)
  /\ \A d \in Deliveries : MarkerInv(d)

(* An execution that writes SENT to the parent has seen or made it true of *)
(* the delivery.                                                           *)
SentWasSeen ==
  \A e \in Execs : exec[e].pc \in {"parentMarkSent", "reconcile"} =>
    delivery[Key(e)].status = "SENT"

(* The inductive invariant behind SentIsBacked and SettledStays.           *)
OutcomeInv ==
  /\ SubmissionInv
  /\ SentWasSeen
  /\ SentIsBacked
  /\ \A d \in Deliveries :
       delivery[d].status \in Terminal => ~delivery[d].expired

(* Has passed the submission marker of the notification's own channel and  *)
(* may have handed the message to one of the channels, or yet do so.       *)
Committed(e) ==
  /\ ~At(e, "idle") /\ ~IsReplay(e)
  /\ \/ Marked(e, Primary)
     \/ InFallback(e)
     \/ \E k \in 1..Len(Chain[exec[e].job]) : Open(e, Chain[exec[e].job][k])

(* An execution calls the channels of its own job, and every channel it    *)
(* has gone past, or is recording the failure of, rejected the message.    *)
ChainFollows(e) ==
  /\ \A d \in Deliveries : ledger[e][d] # "none" =>
       /\ ~At(e, "idle")
       /\ \E k \in 1..Len(Chain[exec[e].job]) : d = Chain[exec[e].job][k]
  /\ ~At(e, "idle") => \A k \in 1..Len(Chain[exec[e].job]) :
       \/ k < exec[e].pos
       \/ k = exec[e].pos /\ At(e, "markFailed")
       \/ exec[e].why = "terminal"
       => ~Open(e, Chain[exec[e].job][k])

(* The primary row stands for the whole notification: while an execution   *)
(* is committed the row keeps the marker or is settled, and whoever else   *)
(* takes it over is blocked.                                               *)
ChannelInv ==
  MaxDbFaults = 0 =>
    /\ \A e \in Execs : ChainFollows(e)
    /\ \A e \in Execs : Committed(e) =>
         \/ delivery[Primary].status = "SENT"
         \/ delivery[Primary].started
              /\ delivery[Primary].status \in {"PROCESSING", "ACCEPTANCE_UNKNOWN"}
    /\ \A e, f \in Execs : Committed(e) /\ Committed(f) => e = f
    /\ \A e, f \in Execs :
         OwnsDelivery(e, Primary) /\ Committed(f) => e = f \/ Blocked(e, Primary)

(* Has claimed the parent and not yet recorded on it how it ended.         *)
Holding(e) ==
  /\ ~IsReplay(e)
  /\ \/ InFallback(e) /\ exec[e].pc \in
          {"createIfMissing", "getByDeliveryKey", "claim"}
     \/ exec[e].pc \in
          {"markProviderSubmissionStarted", "send", "inflight", "markSent",
           "markAcceptanceUnknown", "markFailed", "parentMarkSent",
           "parentMarkRetrying", "parentMarkFailed", "parentMarkUnknown"}

(* Undisturbed, a job has one execution, which keeps the parent it claimed *)
(* until it writes to it what it wrote to the delivery.                    *)
QuietInv ==
  OneJob /\ Undisturbed =>
    /\ \A e \in Execs : exec[e].pc # "crashed"
    /\ \A e \in Execs : Running(e) => HoldsJob(e)
    /\ \A e \in Execs : Holding(e) => OwnsParent(e)
    /\ \A j \in Jobs \ Replays : \A k \in 1..Len(Chain[j]) :
         delivery[Chain[j][k]].status = "SENT" =>
           \/ parent.status = "SENT"
           \/ \E e \in Execs : At(e, "parentMarkSent") /\ ~IsReplay(e)
=============================================================================
