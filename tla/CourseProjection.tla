--------------------------- MODULE CourseProjection ---------------------------
(***************************************************************************)
(* The read models of a course: its events are delivered in any order, as  *)
(* often as the queue likes and to handlers that overlap; a handler reads  *)
(* the catalog projection, applies the event to the copy and saves it, and *)
(* derives the search projection from a copy that was accepted.            *)
(***************************************************************************)
EXTENDS Courses

CONSTANT Consumers   \* handlers that may run at the same time

VARIABLES
  catalog,   \* the row of the catalog projection
  search,    \* the row of the search projection
  delivery,  \* the event each handler works on
  handled    \* history: the events a handler finished without an error

projectionVars == <<catalog, search, delivery, handled>>
vars == <<courseVars, projectionVars>>

Waiting == [step |-> "waiting"]

ProjectionRow == [status : CourseStatus, title : Titles, at : Nat]

ASSUME AbsentIsNoProjection == Absent \notin ProjectionRow

Deliver(c) ==
  /\ c \in workload.consumers /\ delivery[c] = Waiting
  /\ \E i \in DOMAIN outbox :
       delivery' = [delivery EXCEPT ![c] = [step |-> "find", event |-> i, copy |-> Absent]]
  /\ UNCHANGED <<courseVars, catalog, search, handled>>

Done(c) ==
  /\ delivery' = [delivery EXCEPT ![c] = Waiting]
  /\ handled' = handled \cup {delivery[c].event}

(* What an event says is taken from it, the rest from the current row.     *)
Applied(event, row) ==
  [status |-> IF event.name = "metadata" THEN row.status ELSE event.to,
   title |-> IF event.name = "status" THEN row.title ELSE event.title,
   at |-> event.at]

(* Only a creation needs no row.                                           *)
FindCatalog(c) ==
  LET event == outbox[delivery[c].event]
  IN /\ delivery[c].step = "find"
     /\ IF event.name = "created" \/ catalog # Absent
        THEN delivery' = [delivery EXCEPT ![c].step = "catalog",
                                          ![c].copy = Applied(event, catalog)]
        ELSE delivery' = [delivery EXCEPT ![c] = Waiting]
     /\ UNCHANGED <<courseVars, catalog, search, handled>>

(* Mutant: an event of the same time is refused.                            *)
IsNewer(row, copy) == row = Absent \/ row.at < copy.at

(* INSERT ... ON CONFLICT DO UPDATE ... WHERE updatedAt <= the new one.    *)
IsAccepted(row, copy) == row = Absent \/ row.at <= copy.at

UpsertCatalog(c) ==
  LET copy == delivery[c].copy
  IN /\ delivery[c].step = "catalog"
     /\ IF IsAccepted(catalog, copy)
        THEN /\ catalog' = copy
             /\ delivery' = [delivery EXCEPT ![c].step = "search"]
             /\ UNCHANGED handled
        ELSE Done(c) /\ UNCHANGED catalog
     /\ UNCHANGED <<courseVars, search>>

UpsertSearch(c) ==
  LET copy == delivery[c].copy
  IN /\ delivery[c].step = "search"
     /\ search' = IF IsAccepted(search, copy) THEN copy ELSE search
     /\ Done(c)
     /\ UNCHANGED <<courseVars, catalog>>

(* A statement fails or the process dies; the event is delivered again.    *)
DeliveryFails(c) ==
  /\ delivery[c] # Waiting
  /\ delivery' = [delivery EXCEPT ![c] = Waiting]
  /\ UNCHANGED <<courseVars, catalog, search, handled>>

Init ==
  /\ CourseInit
  /\ catalog = Absent /\ search = Absent
  /\ delivery = [c \in Consumers |-> Waiting]
  /\ handled = {}

Next ==
  \/ CourseNext /\ UNCHANGED projectionVars
  \/ \E c \in Consumers :
       \/ Deliver(c) \/ FindCatalog(c) \/ UpsertCatalog(c) \/ UpsertSearch(c)
       \/ DeliveryFails(c)

Spec == Init /\ [][Next]_vars

-----------------------------------------------------------------------------
(* Properties.                                                             *)

(* Search shows nothing the catalog has not accepted before.               *)
SearchFollowsCatalog ==
  search # Absent => catalog # Absent /\ search.at <= catalog.at

(* Once the newest event was handled, both projections have its time, also *)
(* when an earlier attempt died between the two writes.                    *)
NewestEventReachesSearch ==
  \A i \in handled :
    (\A j \in DOMAIN outbox : outbox[j].at <= outbox[i].at) =>
      /\ catalog # Absent /\ catalog.at = outbox[i].at
      /\ search # Absent /\ search.at = outbox[i].at

(* In whatever order and however often events arrive, the search index     *)
(* follows the catalog, and neither falls behind the newest event handled. *)
ReadModelsFollow == SearchFollowsCatalog /\ NewestEventReachesSearch
=============================================================================
