------------------------------- MODULE Courses -------------------------------
(***************************************************************************)
(* The application services of one course and its versions, and the        *)
(* repositories under them, as calls that overlap: a call reads rows,      *)
(* changes the copy it read and saves it with its events in one            *)
(* transaction.  A course is saved over whatever its row has become.       *)
(*                                                                         *)
(* The title stands for all the metadata of a course or a version.         *)
(***************************************************************************)
EXTENDS Integers, Sequences, FiniteSets, FiniteSetsExt

CONSTANTS
  Absent,     \* there is no row
  None,       \* no domain event
  Requests,   \* the calls that may overlap
  Titles,     \* metadata
  Principals, \* who can hold a role in a course
  VersionIds, \* identifiers of course versions
  Workloads,  \* [calls, course, versions, max, consumers]: mixes of calls
  MaxTime     \* bound: ticks of the clock

ASSUME TimeIsBounded == MaxTime \in Nat
ASSUME VersionsAreFinite == IsFiniteSet(VersionIds)

VARIABLES
  course,     \* the row of the course with its ownership
  versions,   \* the row of each version of it
  lineage,    \* the rollbacks: which version was derived from which
  audits,     \* the versions whose creation by rollback was audited
  outbox,     \* the events of the course, in the order they were committed
  request,    \* the call in each slot and what it has read
  clock, workload, calls,
  submitted   \* history: the metadata submitted for review so far

rows == <<course, versions, lineage, audits, outbox, submitted>>
courseVars == <<rows, request, clock, workload, calls>>

Idle == [op |-> "none", step |-> "idle"]

-----------------------------------------------------------------------------
(* The aggregates.                                                         *)

CourseStatus == {"DRAFT", "IN_REVIEW", "PUBLISHED", "UNPUBLISHED", "ARCHIVED"}

Assignment == [principal : Principals, role : STRING]

CourseRow == [status : CourseStatus, title : Titles, owners : SUBSET Assignment]

CanTransition ==
  [DRAFT |-> {"IN_REVIEW"}, IN_REVIEW |-> {"PUBLISHED", "DRAFT"},
   PUBLISHED |-> {"UNPUBLISHED", "ARCHIVED"}, UNPUBLISHED |-> {"ARCHIVED"},
   ARCHIVED |-> {}]

NextStatus == [submit |-> "IN_REVIEW", requestChanges |-> "DRAFT",
               publish |-> "PUBLISHED", unpublish |-> "UNPUBLISHED",
               archive |-> "ARCHIVED"]

NewCourse(title) == [status |-> "DRAFT", title |-> title, owners |-> {}]

(* Mutant: also while the course is in review.                              *)
MetadataIsOpenInReview(row) == row.status \in {"DRAFT", "IN_REVIEW"}

MetadataIsOpen(row) == row.status = "DRAFT"

Owners(assignments) == {a \in assignments : a.role = "OWNER"}

ValidOwnership(assignments) == Cardinality(Owners(assignments)) <= 1

CanAssign(assignments, a) ==
  a \notin assignments /\ ValidOwnership(assignments \cup {a})

VersionStatus == {"DRAFT", "IN_REVIEW", "PUBLISHED", "ARCHIVED"}

VersionRow == [number : Nat \ {0}, status : VersionStatus, title : Titles]

NewVersion(number, title) ==
  [number |-> number, status |-> "DRAFT", title |-> title]

CanRollbackTo(row) == row.status \in {"PUBLISHED", "ARCHIVED"}

-----------------------------------------------------------------------------
(* Calls.  A call record carries its arguments: title, owners, version     *)
(* (read or created) and source (of a rollback).                           *)

StatusCalls == DOMAIN NextStatus
OwnershipCalls == {"assign", "unassign", "replaceOwners"}
Ops == StatusCalls \cup OwnershipCalls
       \cup {"create", "edit", "createVersion", "publishVersion", "rollback"}

CallRecord == [op : Ops, title : Titles, owners : SUBSET Assignment,
               version : VersionIds, source : VersionIds]

EventRow == [name : {"created", "metadata", "status"}, from : CourseStatus \cup {None},
             to : CourseStatus, title : Titles, at : Nat]

(* A behaviour starts without a course or with a draft, whose review it    *)
(* will see, and with versions that earlier calls have numbered.           *)
ASSUME WorkloadsAreTyped ==
  \A w \in Workloads :
    /\ w.max \in Nat
    /\ \A call \in w.calls : call \in CallRecord /\ IsFiniteSet(call.owners)
    /\ w.course # Absent =>
         /\ w.course \in CourseRow /\ w.course.status = "DRAFT"
         /\ IsFiniteSet(w.course.owners) /\ ValidOwnership(w.course.owners)
    /\ w.versions \in [VersionIds -> VersionRow \cup {Absent}]
    /\ LET there == {v \in VersionIds : w.versions[v] # Absent}
       IN /\ {w.versions[v].number : v \in there} = 1..Cardinality(there)
          /\ \A u, v \in there :
               w.versions[u].number = w.versions[v].number => u = v

ASSUME AbsentIsNoRow == Absent \notin CourseRow \cup VersionRow
ASSUME NoneIsNoEvent == None \notin EventRow \cup CourseStatus

FirstStep(op) ==
  CASE op = "create" -> "create"
    [] op \in {"edit", "createVersion"} \cup StatusCalls \cup OwnershipCalls
         -> "findCourse"
    [] op = "publishVersion" -> "findVersion"
    [] op = "rollback" -> "findSource"

(* An identifier a call creates is a fresh UUID.                           *)
Fresh(call) ==
  /\ call.op = "create" => /\ course = Absent
                           /\ \A r \in Requests : request[r].op # "create"
  /\ call.op \in {"createVersion", "rollback"} =>
       /\ versions[call.version] = Absent
       /\ \A r \in Requests : request[r].op \in {"createVersion", "rollback"} =>
                                request[r].call.version # call.version

Begin(r) ==
  /\ request[r] = Idle /\ calls < workload.max
  /\ \E call \in workload.calls :
       /\ Fresh(call)
       /\ request' = [request EXCEPT ![r] =
            [op |-> call.op, step |-> FirstStep(call.op), call |-> call,
             copy |-> Absent, event |-> None]]
  /\ calls' = calls + 1
  /\ UNCHANGED <<rows, clock, workload>>

Reply(r) == request' = [request EXCEPT ![r] = Idle]

At(r, step) == request[r].step = step

(* Go on if a check holds, otherwise the call ends: it throws, or there is *)
(* nothing to change.                                                      *)
Continue(r, check, next) ==
  /\ IF check THEN request' = [request EXCEPT ![r] = next] ELSE Reply(r)
  /\ UNCHANGED <<rows, clock, workload, calls>>

Tick ==
  /\ clock < MaxTime
  /\ clock' = clock + 1
  /\ UNCHANGED <<rows, request, workload, calls>>

-----------------------------------------------------------------------------
(* Course.  Every event is dated when the copy was changed.                *)

Event(name, from, copy) ==
  [name |-> name, from |-> from, to |-> copy.status, title |-> copy.title,
   at |-> clock]

ToSave(r, copy, event) ==
  [request[r] EXCEPT !.step = "saveCourse", !.copy = copy, !.event = event]

CreateCourse(r) ==
  LET copy == NewCourse(request[r].call.title)
  IN At(r, "create") /\ Continue(r, TRUE, ToSave(r, copy, Event("created", None, copy)))

UpdateMetadata(r) ==
  LET copy == [course EXCEPT !.title = request[r].call.title]
  IN /\ At(r, "findCourse") /\ request[r].op = "edit"
     /\ Continue(r, course # Absent /\ MetadataIsOpen(course) /\ copy # course,
                 ToSave(r, copy, Event("metadata", course.status, copy)))

TransitionStatus(r) ==
  LET to == NextStatus[request[r].op]
      copy == [course EXCEPT !.status = to]
  IN /\ At(r, "findCourse") /\ request[r].op \in StatusCalls
     /\ Continue(r, course # Absent /\ to \in CanTransition[course.status],
                 ToSave(r, copy, Event("status", course.status, copy)))

(* Assignments are compared in their order, which is left out here: several *)
(* that are given in another order are saved as a change.                   *)
ChangeOwnership(r) ==
  LET q == request[r]
      given == q.call.owners
      owners == CASE q.op = "assign" -> course.owners \cup given
                  [] q.op = "unassign" -> course.owners \ given
                  [] q.op = "replaceOwners" -> given
  IN /\ At(r, "findCourse") /\ q.op \in OwnershipCalls
     /\ Continue(r, /\ course # Absent
                    /\ q.op = "assign" => \A x \in given : CanAssign(course.owners, x)
                    /\ q.op = "unassign" => owners # course.owners
                    /\ q.op = "replaceOwners" =>
                         owners # course.owners \/ Cardinality(owners) > 1
                    /\ ValidOwnership(owners),
                 ToSave(r, [course EXCEPT !.owners = owners], None))

(* Mutant: the old assignments are not deleted.                            *)
SaveCourseMerging(r) ==
  LET q == request[r]
  IN /\ At(r, "saveCourse")
     /\ course' = IF course = Absent THEN q.copy
                  ELSE [q.copy EXCEPT !.owners = @ \cup course.owners]
     /\ outbox' = IF q.event = None THEN outbox ELSE Append(outbox, q.event)
     /\ submitted' = IF q.op = "submit" THEN submitted \cup {q.copy.title}
                                        ELSE submitted
     /\ Reply(r)
     /\ UNCHANGED <<versions, lineage, audits, clock, workload, calls>>

(* One transaction: the course, its ownership and its events.              *)
SaveCourse(r) ==
  LET q == request[r]
  IN /\ At(r, "saveCourse")
     /\ course' = q.copy
     /\ outbox' = IF q.event = None THEN outbox ELSE Append(outbox, q.event)
     /\ submitted' = IF q.op = "submit" THEN submitted \cup {q.copy.title}
                                        ELSE submitted
     /\ Reply(r)
     /\ UNCHANGED <<versions, lineage, audits, clock, workload, calls>>

-----------------------------------------------------------------------------
(* Versions.                                                               *)

Stored == {v \in VersionIds : versions[v] # Absent}

LatestNumber == Max({0} \cup {versions[v].number : v \in Stored})

FindVersioned(r) ==
  /\ At(r, "findCourse") /\ request[r].op = "createVersion"
  /\ Continue(r, course # Absent,
              [request[r] EXCEPT !.step = "findLatest", !.copy = course])

CreateVersion(r) ==
  /\ At(r, "findLatest") /\ request[r].op = "createVersion"
  /\ Continue(r, TRUE,
       [request[r] EXCEPT !.step = "saveVersion",
          !.copy = NewVersion(LatestNumber + 1, request[r].copy.title)])

PublishVersion(r) ==
  LET row == versions[request[r].call.version]
  IN /\ At(r, "findVersion")
     /\ Continue(r, row # Absent /\ row.status = "IN_REVIEW",
                 [request[r] EXCEPT !.step = "saveVersion",
                                    !.copy = [row EXCEPT !.status = "PUBLISHED"]])

(* Mutant: the number of a version is not unique.                          *)
VersionAcceptedAlways(v, row) == v \in VersionIds

(* An insert must have a number no other version has.                      *)
VersionAccepted(v, row) == \A w \in Stored \ {v} : versions[w].number # row.number

(* upsert by id.                                                           *)
SaveVersion(r) ==
  LET q == request[r]
      v == q.call.version
  IN /\ At(r, "saveVersion")
     /\ IF VersionAccepted(v, q.copy)
        THEN versions' = [versions EXCEPT ![v] = q.copy]
        ELSE UNCHANGED versions
     /\ Reply(r)
     /\ UNCHANGED <<course, lineage, audits, outbox, submitted, clock, workload, calls>>

(* A rollback is one transaction, but its reads see what was committed     *)
(* when each of them runs.                                                 *)
FindSource(r) ==
  LET row == versions[request[r].call.source]
  IN /\ At(r, "findSource")
     /\ Continue(r, row # Absent,
                 [request[r] EXCEPT !.step = "findLatest", !.copy = row])

Rollback(r) ==
  LET source == request[r].copy
  IN /\ At(r, "findLatest") /\ request[r].op = "rollback"
     /\ Continue(r, CanRollbackTo(source),
          [request[r] EXCEPT !.step = "saveRollback",
             !.copy = NewVersion(1 + Max({source.number, LatestNumber}), source.title)])

SaveRollback(r) ==
  LET call == request[r].call
  IN /\ At(r, "saveRollback")
     /\ IF VersionAccepted(call.version, request[r].copy)
        THEN /\ versions' = [versions EXCEPT ![call.version] = request[r].copy]
             /\ lineage' = lineage \cup {[source |-> call.source, target |-> call.version]}
             /\ audits' = audits \cup {call.version}
        ELSE UNCHANGED <<versions, lineage, audits>>
     /\ Reply(r)
     /\ UNCHANGED <<course, outbox, submitted, clock, workload, calls>>

(* A statement or the transaction fails, or the process dies: nothing of   *)
(* the call is stored.                                                     *)
Fails(r) ==
  /\ ~At(r, "idle")
  /\ Reply(r)
  /\ UNCHANGED <<rows, clock, workload, calls>>

-----------------------------------------------------------------------------
(* A stored course was created at time 0.                                  *)

CourseInit ==
  /\ workload \in Workloads
  /\ course = workload.course /\ versions = workload.versions
  /\ lineage = {} /\ audits = {}
  /\ outbox = IF course = Absent THEN <<>>
              ELSE <<[name |-> "created", from |-> None, to |-> "DRAFT",
                      title |-> course.title, at |-> 0]>>
  /\ request = [r \in Requests |-> Idle]
  /\ clock = 0 /\ calls = 0 /\ submitted = {}

CourseNext ==
  \/ Tick
  \/ \E r \in Requests :
       \/ Begin(r) \/ Fails(r)
       \/ CreateCourse(r) \/ UpdateMetadata(r) \/ TransitionStatus(r)
       \/ ChangeOwnership(r) \/ SaveCourse(r)
       \/ FindVersioned(r) \/ CreateVersion(r) \/ PublishVersion(r) \/ SaveVersion(r)
       \/ FindSource(r) \/ Rollback(r) \/ SaveRollback(r)

-----------------------------------------------------------------------------
(* Properties.                                                             *)

CourseTypeOK ==
  /\ course # Absent => /\ course.status \in CourseStatus
                        /\ course.title \in Titles
                        /\ \A a \in course.owners : a.principal \in Principals
  /\ \A v \in Stored : /\ versions[v].number \in Nat \ {0}
                       /\ versions[v].status \in VersionStatus
                       /\ versions[v].title \in Titles
  /\ \A l \in lineage : l.source \in Stored /\ l.target \in Stored
  /\ \A i \in DOMAIN outbox : /\ outbox[i].to \in CourseStatus
                              /\ outbox[i].at \in 0..clock
  /\ calls \in 0..workload.max

(* What is published was submitted for review as it is: metadata changed   *)
(* by a call that overlaps the review cannot slip into a published course, *)
(* although every save overwrites the whole row.                           *)
PublishedWasReviewed ==
  course # Absent /\ course.status = "PUBLISHED" => course.title \in submitted

(* Overlapping changes of ownership never leave a course with two owners.  *)
OneOwner ==
  course # Absent => \A a, b \in course.owners :
                       a.role = "OWNER" /\ b.role = "OWNER" => a = b

(* The versions of a course are numbered 1, 2, 3, ... without a gap or a   *)
(* repetition, however creations and rollbacks that read the same latest   *)
(* version overlap and fail.                                               *)
VersionsAreNumberedOnce ==
  /\ \A v, w \in Stored : versions[v].number = versions[w].number => v = w
  /\ \A v \in Stored : versions[v].number \in 1..Cardinality(Stored)

(* A version derived by rollback restores the content of an immutable      *)
(* earlier version of the course, and is stored together with its lineage  *)
(* and its audit.                                                          *)
RollbackRestores ==
  /\ {l.target : l \in lineage} = audits
  /\ audits \subseteq Stored
  /\ \A l \in lineage :
       LET source == versions[l.source]
           target == versions[l.target]
       IN /\ source.status \in {"PUBLISHED", "ARCHIVED"}
          /\ target.number > source.number
          /\ target.title = source.title

(* The rows of a course have their types and never two owners, although    *)
(* every save overwrites the row of the course and all its assignments.    *)
RowsAreSound == CourseTypeOK /\ OneOwner

(* However new versions, publications and rollbacks overlap and fail,      *)
(* numbers are given once and a rollback is stored whole and restores.     *)
VersionsAreSound == VersionsAreNumberedOnce /\ RollbackRestores
=============================================================================
