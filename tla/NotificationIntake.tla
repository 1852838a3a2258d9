-------------------------- MODULE NotificationIntake --------------------------
(***************************************************************************)
(* Accepting notifications in the API: a command for one channel is one    *)
(* enqueue, a command for several fans out into one enqueue per channel,   *)
(* all started at once.  An enqueue looks its idempotency key up, creates  *)
(* the notification and its outbox event in one transaction and, when that *)
(* throws, looks the key up again.  Enqueues of the same and of different  *)
(* calls overlap, and those of a call go on after one of them has failed.  *)
(***************************************************************************)
EXTENDS NotificationTemplates

CONSTANTS
  Calls,     \* calls of create that may overlap
  Channels,  \* email, in-app, push
  Lanes      \* everything that may run an enqueue; None is one that is not

(* The enqueue of each channel of a call has a lane; others are left to    *)
(* the modules that enqueue notifications of their own.                    *)
ASSUME CallsHaveLanes == Calls \X Channels \subseteq Lanes

(* What is stored at the start keeps the unique indexes.                   *)
ASSUME RequestsAreTyped ==
  \A w \in Workloads :
    /\ \A req \in w.requests : req.channels \subseteq Channels
    /\ IsFiniteSet(w.seeded)
    /\ \A n, m \in w.seeded : n.key = m.key \/ n.id = m.id => n = m
    /\ \A n \in w.seeded :
         /\ n.row \in Nat
         /\ n.version # 0 => n.version = OfferOf(w.template, w.versions)
         /\ n.version # 0 <=> n.templateData # None

VARIABLES
  notifications,  \* the rows of the table Notification
  events,         \* the rows of OutboxEvent that the enqueues created
  lane,           \* the enqueue in each lane
  submitted, failures

tables == <<notifications, events>>
settings == <<workload, templateVars>>
intakeVars == <<tables, lane, settings, submitted, failures>>

-----------------------------------------------------------------------------
(* The job data of one channel of a request: a fan-out appends the channel *)
(* to the identifier and to the idempotency key.  Its text is literal, or  *)
(* the template's rendering with the templateData.                         *)
Suffix(req, ch) == IF Cardinality(req.channels) > 1 THEN ch ELSE "alone"

JobData(req, ch) ==
  [id |-> <<req.id, Suffix(req, ch)>>, key |-> <<req.key, Suffix(req, ch)>>,
   of |-> {}, templateData |-> req.templateData]

Started(data) ==
  [step |-> IF data.templateData # None THEN "template" ELSE "find", data |-> data, row |-> 0,
   event |-> "unknown", parent |-> NoTemplate, version |-> 0, since |-> Len(offers)]

Ended == {"replied", "failed"}

Running(e) == lane[e] # None /\ lane[e].step \notin Ended

At(e, step) == lane[e] # None /\ lane[e].step = step

Submit(c) ==
  /\ submitted < workload.calls
  /\ \A ch \in Channels : lane[<<c, ch>>] = None
  /\ \E req \in workload.requests :
       lane' = [e \in Lanes |->
         IF \E ch \in req.channels : e = <<c, ch>>
           THEN Started(JobData(req, e[2])) ELSE lane[e]]
  /\ submitted' = submitted + 1
  /\ UNCHANGED <<tables, settings, failures>>

(* All enqueues of the call have ended: the slot is free for another call.  *)
EndCall(c) ==
  /\ \E ch \in Channels : lane[<<c, ch>>] # None
  /\ \A ch \in Channels : ~Running(<<c, ch>>)
  /\ lane' = [e \in Lanes |->
       IF \E ch \in Channels : e = <<c, ch>> THEN None ELSE lane[e]]
  /\ UNCHANGED <<tables, settings, submitted, failures>>

-----------------------------------------------------------------------------
(* The steps of one enqueue.  A template is rendered before anything else, *)
(* from its row and then the rows of its versions; a refusal ends the call.*)

ResolveTemplate(e) ==
  /\ At(e, "template")
  /\ lane' = [lane EXCEPT ![e].step = "versions", ![e].parent = template]
  /\ UNCHANGED <<tables, settings, submitted, failures>>

Resolved(parent) == OfferOf(parent, versions)

RenderVersion(e) ==
  LET found == Resolved(lane[e].parent)
  IN /\ At(e, "versions")
     /\ lane' = [lane EXCEPT ![e].step = IF found = 0 THEN "failed" ELSE "find",
                             ![e].parent = NoTemplate, ![e].version = found]
     /\ UNCHANGED <<tables, settings, submitted, failures>>

Replied(e, row) ==
  [lane EXCEPT ![e].step = "replied", ![e].row = row,
     ![e].event = IF \E v \in events : v.dedupe = lane[e].data.key
                    THEN "found" ELSE "unknown"]

Found(e) == {n \in notifications : n.key = lane[e].data.key}

(* Mutant: whatever conflicts with the new row is taken for the raced one.  *)
FoundByEither(e) ==
  {n \in notifications : n.key = lane[e].data.key \/ n.id = lane[e].data.id}

(* What an enqueue can find again after its transaction threw.             *)
FoundRaced(e) == Found(e)

FindExisting(e) ==
  /\ At(e, "find")
  /\ \/ \E n \in Found(e) : lane' = Replied(e, n.row)
     \/ /\ Found(e) = {}
        /\ lane' = [lane EXCEPT ![e].step = "create"]
  /\ UNCHANGED <<tables, settings, submitted, failures>>

NewRow(e) ==
  [row |-> Cardinality(notifications) + 1, id |-> lane[e].data.id,
   key |-> lane[e].data.key, of |-> lane[e].data.of,
   version |-> lane[e].version, templateData |-> lane[e].data.templateData]

InsertBoth(e) ==
  /\ notifications' = notifications \cup {NewRow(e)}
  /\ events' = events \cup {[about |-> NewRow(e).row, dedupe |-> NewRow(e).key]}

(* The unique indexes of notificationId, idempotencyKey and dedupeKey.      *)
Accepted(e) ==
  /\ \A n \in notifications : n.id # lane[e].data.id /\ n.key # lane[e].data.key
  /\ \A v \in events : v.dedupe # lane[e].data.key

Create(e) ==
  /\ At(e, "create")
  /\ \/ /\ Accepted(e)
        /\ InsertBoth(e)
        /\ lane' = [lane EXCEPT ![e].step = "replied", ![e].row = NewRow(e).row,
                                ![e].event = "found"]
     \/ /\ ~Accepted(e)
        /\ lane' = [lane EXCEPT ![e].step = "recheck"]
        /\ UNCHANGED tables
  /\ UNCHANGED <<settings, submitted, failures>>

FindRaced(e) ==
  /\ At(e, "recheck")
  /\ \/ \E n \in FoundRaced(e) : lane' = Replied(e, n.row)
     \/ /\ FoundRaced(e) = {}
        /\ lane' = [lane EXCEPT ![e].step = "failed"]
  /\ UNCHANGED <<tables, settings, submitted, failures>>

(* A call to the database throws; after the transaction began, whether it  *)
(* was committed is not known.                                             *)
Fail == failures < workload.failures /\ failures' = failures + 1

FindThrows(e) ==
  /\ Fail
  /\ lane[e] # None /\ lane[e].step \in {"template", "versions", "find", "recheck"}
  /\ lane' = [lane EXCEPT ![e].step = "failed"]
  /\ UNCHANGED <<tables, settings, submitted>>

(* Mutant: the two rows are written one after the other.                    *)
CreateThrowsBetween(e) ==
  /\ Fail
  /\ At(e, "create") /\ Accepted(e)
  /\ notifications' = notifications \cup {NewRow(e)}
  /\ lane' = [lane EXCEPT ![e].step = "recheck"]
  /\ UNCHANGED <<events, settings, submitted>>

CreateThrows(e) ==
  /\ Fail
  /\ At(e, "create")
  /\ \/ UNCHANGED tables
     \/ Accepted(e) /\ InsertBoth(e)
  /\ lane' = [lane EXCEPT ![e].step = "recheck"]
  /\ UNCHANGED <<settings, submitted>>

(* The instance that runs the enqueue dies.                                *)
EnqueueDies(e) ==
  /\ Fail
  /\ Running(e)
  /\ lane' = [lane EXCEPT ![e].step = "failed"]
  /\ UNCHANGED <<tables, settings, submitted>>

EnqueueStep(e) ==
  \/ ResolveTemplate(e) \/ RenderVersion(e)
  \/ FindExisting(e) \/ Create(e) \/ FindRaced(e)

EnqueueFault(e) == FindThrows(e) \/ CreateThrows(e) \/ EnqueueDies(e)

IntakeInit ==
  /\ workload \in Workloads /\ TemplateInit
  /\ notifications = workload.seeded
  /\ events = {[about |-> n.row, dedupe |-> n.key] : n \in workload.seeded}
  /\ lane = [e \in Lanes |-> None]
  /\ submitted = 0 /\ failures = 0

IntakeNext ==
  \/ /\ \E c \in Authors : EditStep(c)
     /\ UNCHANGED <<tables, lane, submitted, failures>>
  \/ \E c \in Calls : Submit(c) \/ EndCall(c)
  \/ \E e \in Lanes : EnqueueStep(e) \/ EnqueueFault(e)

-----------------------------------------------------------------------------
(* Every notification was stored with exactly one event, and every event   *)
(* with its notification: never one without the other (enqueue's           *)
(* transaction, notification.queue.ts).                                    *)
StoredTogether ==
  /\ \A n \in notifications :
       Cardinality({v \in events : v.about = n.row /\ v.dedupe = n.key}) = 1
  /\ \A v \in events : \E n \in notifications : n.row = v.about /\ n.key = v.dedupe

(* However many enqueues of one idempotency key overlap or are repeated,   *)
(* one notification has that key; and no two share an identifier.          *)
OneNotificationPerKey ==
  \A n, m \in notifications : n.key = m.key \/ n.id = m.id => n = m

(* What an enqueue renders, and what it stores, was the current version of  *)
(* the published template at some moment of the call, although row and     *)
(* versions are read apart and publications overlap (resolveTemplate).     *)
RenderedWasCurrent ==
  /\ \A e \in Lanes : Running(e) /\ lane[e].version # 0 =>
       \E i \in lane[e].since .. Len(offers) : offers[i] = lane[e].version
  /\ \A n \in notifications : n.version # 0 => n.version \in Range(offers)

(* An enqueue that replies names the notification of its own idempotency   *)
(* key, and the event that will deliver it: the caller of a request whose  *)
(* identifier belongs to another key is never told that it was accepted.   *)
RepliesAreBacked ==
  \A e \in Lanes : At(e, "replied") =>
    /\ \E n \in notifications : n.row = lane[e].row /\ n.key = lane[e].data.key
    /\ lane[e].event = "found"

(* Repeated, overlapping and failing requests leave each idempotency key   *)
(* with one notification and its one event.                                *)
RequestsAreStored == StoredTogether /\ OneNotificationPerKey

(* Publications that overlap leave a published version on offer, and what  *)
(* is rendered meanwhile is one that was on offer.                         *)
TemplatesAreSound == CurrentStaysPublished /\ RenderedWasCurrent
=============================================================================
