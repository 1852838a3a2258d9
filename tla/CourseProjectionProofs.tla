------------------------ MODULE CourseProjectionProofs ------------------------
(***************************************************************************)
(* Proofs about courses and their read models, for any calls, handlers and *)
(* versions.  Every save overwrites the row, so what is true of the rows   *)
(* has to be true of every copy a call still holds.                        *)
(***************************************************************************)
EXTENDS CourseProjection, FiniteSetTheorems, TLAPS

(* A call under way is at a step of its operation.                         *)
OpSteps ==
  ({"create"} \X {"create", "saveCourse"}) \cup
  (({"edit"} \cup StatusCalls \cup OwnershipCalls) \X {"findCourse", "saveCourse"}) \cup
  ({"createVersion"} \X {"findCourse", "findLatest", "saveVersion"}) \cup
  ({"publishVersion"} \X {"findVersion", "saveVersion"}) \cup
  ({"rollback"} \X {"findSource", "findLatest", "saveRollback"})

CallSteps == {"create", "findCourse", "findLatest", "findVersion", "findSource",
              "saveCourse", "saveVersion", "saveRollback"}

RequestRow ==
  [op : Ops, step : CallSteps, call : CallRecord,
   copy : CourseRow \cup VersionRow \cup {Absent}, event : EventRow \cup {None}]

SoundOwners(owners) == IsFiniteSet(owners) /\ ValidOwnership(owners)

UnderReview == {"IN_REVIEW", "PUBLISHED"}
Immutable == {"PUBLISHED", "ARCHIVED"}

(* What will be saved over the course: its metadata is open, or what was   *)
(* submitted, or what this call submits.                                   *)
CourseCopy(q) ==
  q.step = "saveCourse" =>
    /\ q.copy \in CourseRow /\ SoundOwners(q.copy.owners)
    /\ q.copy.status \in UnderReview => q.copy.title \in submitted \/ q.op = "submit"
    /\ q.event # None => q.event.at <= clock

(* A row that is published, and the numbers and titles that only stay.     *)
Count == Cardinality(Stored)

VersionCopy(q) ==
  /\ q.step = "findLatest" /\ q.op = "createVersion" => q.copy \in CourseRow
  /\ q.step = "saveVersion" /\ q.op = "createVersion" =>
       q.copy \in VersionRow /\ q.copy.number <= Count + 1
  /\ q.step = "saveVersion" /\ q.op = "publishVersion" =>
       /\ versions[q.call.version] # Absent
       /\ q.copy \in VersionRow /\ q.copy.status = "PUBLISHED"
       /\ q.copy.number = versions[q.call.version].number
       /\ q.copy.title = versions[q.call.version].title

(* The source of a rollback: once it is immutable it stays so.             *)
SourceCopy(q) ==
  /\ q.step \in {"findLatest", "saveRollback"} /\ q.op = "rollback" =>
       versions[q.call.source] # Absent /\ q.copy \in VersionRow
  /\ q.step = "findLatest" /\ q.op = "rollback" =>
       LET source == versions[q.call.source]
       IN /\ q.copy.number = source.number /\ q.copy.title = source.title
          /\ q.copy.status \in Immutable => source.status \in Immutable
  /\ q.step = "saveRollback" =>
       LET source == versions[q.call.source]
       IN /\ q.copy.number > source.number /\ q.copy.title = source.title
          /\ source.status \in Immutable /\ q.copy.number <= Count + 1

RequestOK(q) ==
  q = Idle \/ (/\ q \in RequestRow /\ q.call.op = q.op /\ <<q.op, q.step>> \in OpSteps
               /\ IsFiniteSet(q.call.owners)
               /\ CourseCopy(q) /\ VersionCopy(q) /\ SourceCopy(q))

Creating(q) == q.op \in {"createVersion", "rollback"}

(* The identifiers of versions about to be created are nobody else's.      *)
FreshOK ==
  /\ \A r \in Requests : Creating(request[r]) =>
       versions[request[r].call.version] = Absent
  /\ \A r, s \in Requests : Creating(request[r]) /\ Creating(request[s]) /\ r # s =>
       request[r].call.version # request[s].call.version

Tables ==
  /\ course \in CourseRow \cup {Absent}
  /\ versions \in [VersionIds -> VersionRow \cup {Absent}]
  /\ lineage \subseteq [source : VersionIds, target : VersionIds]
  /\ audits \subseteq VersionIds
  /\ outbox \in Seq(EventRow)
  /\ clock \in Nat /\ workload \in Workloads /\ calls \in 0..workload.max
  /\ DOMAIN request = Requests

RowsOK ==
  /\ course # Absent => /\ SoundOwners(course.owners)
                        /\ course.status \in UnderReview => course.title \in submitted
  /\ \A i \in DOMAIN outbox : outbox[i].at <= clock
  /\ {versions[v].number : v \in Stored} = 1..Count
  /\ \A v, w \in Stored : versions[v].number = versions[w].number => v = w
  /\ RollbackRestores
  /\ \A l \in lineage : l.source \in Stored

CourseInv ==
  /\ Tables /\ (\A r \in Requests : RequestOK(request[r])) /\ FreshOK /\ RowsOK

(* The read models.  A handler's copy has the time of its event, and is     *)
(* saved in the search projection after it was accepted by the catalog.    *)
Reading == [step : {"find"}, event : Nat, copy : {Absent}]
Saving == [step : {"catalog", "search"}, event : Nat, copy : ProjectionRow]

DeliveryOK(d) ==
  \/ d = Waiting
  \/ /\ d \in Reading \cup Saving /\ d.event \in DOMAIN outbox
     /\ d.step # "find" => d.copy.at = outbox[d.event].at
     /\ d.step = "search" => catalog # Absent /\ d.copy.at <= catalog.at

FromOutbox(row) ==
  row # Absent => /\ row \in ProjectionRow
                  /\ \E j \in DOMAIN outbox : row.at = outbox[j].at

ProjectionInv ==
  /\ DOMAIN delivery = Consumers
  /\ \A c \in Consumers : DeliveryOK(delivery[c])
  /\ FromOutbox(catalog) /\ FromOutbox(search)
  /\ handled \subseteq DOMAIN outbox
  /\ ReadModelsFollow

-----------------------------------------------------------------------------
(* Lemmas about the operators.                                             *)

LEMMA CountType == Count \in Nat /\ IsFiniteSet(Stored)
  <1>1. Stored \subseteq VersionIds
    BY DEF Stored
  <1> QED
    BY <1>1, VersionsAreFinite, FS_Subset, FS_CardinalityType DEF Count

(* As the stored versions are numbered without gaps, the greatest number   *)
(* is how many there are.                                                  *)
LEMMA LatestIsCount ==
  ASSUME CourseInv
  PROVE  LatestNumber = Count
  <1> DEFINE Numbers == {0} \cup {versions[v].number : v \in Stored}
  <1>1. Count \in Nat /\ Numbers = 0..Count
    BY CountType DEF CourseInv, RowsOK
  <1>2. Count \in Numbers /\ \A n \in Numbers : n <= Count
    BY <1>1
  <1>3. \A m \in Numbers : (\A n \in Numbers : m >= n) => m = Count
    BY <1>1, <1>2
  <1> QED
    BY <1>1, <1>2, <1>3 DEF LatestNumber, Max

LEMMA GreaterOfTwo ==
  ASSUME NEW m \in Nat, NEW n \in Nat
  PROVE  Max({m, n}) = IF m >= n THEN m ELSE n
  <1>1. \E k \in {m, n} : \A l \in {m, n} : k >= l
    OBVIOUS
  <1> QED
    BY <1>1 DEF Max

(* A set of owners with at most one OWNER has no two.                      *)
LEMMA OneOwnerOnly ==
  ASSUME NEW owners, SoundOwners(owners), NEW a \in owners, NEW b \in owners,
         a.role = "OWNER", b.role = "OWNER"
  PROVE  a = b
  <1>1. /\ IsFiniteSet(Owners(owners)) /\ a \in Owners(owners) /\ b \in Owners(owners)
    BY FS_Subset DEF SoundOwners, Owners
  <1>2. IsFiniteSet({a, b}) /\ Cardinality({a, b}) <= Cardinality(Owners(owners))
    BY <1>1, FS_Subset
  <1>3. a # b => Cardinality({a, b}) = 2
    <2>1. IsFiniteSet({a}) /\ Cardinality({a}) = 1
      BY FS_Singleton
    <2>2. a # b => Cardinality({a} \cup {b}) = Cardinality({a}) + 1
      BY <2>1, FS_AddElement
    <2>3. {a} \cup {b} = {a, b}
      OBVIOUS
    <2> QED
      BY <2>1, <2>2, <2>3
  <1> QED
    BY <1>1, <1>2, <1>3, FS_CardinalityType DEF SoundOwners, ValidOwnership

LEMMA OpOfStep ==
  ASSUME NEW op, NEW step, <<op, step>> \in OpSteps
  PROVE  /\ step = "create" => op = "create"
         /\ step = "findCourse" =>
              op \in {"edit", "createVersion"} \cup StatusCalls \cup OwnershipCalls
         /\ step = "findLatest" => op \in {"createVersion", "rollback"}
         /\ step = "findVersion" => op = "publishVersion"
         /\ step = "findSource" => op = "rollback"
         /\ step = "saveCourse" =>
              op \in {"create", "edit"} \cup StatusCalls \cup OwnershipCalls
         /\ step = "saveVersion" => op \in {"createVersion", "publishVersion"}
         /\ step = "saveRollback" => op = "rollback"
  BY DEF OpSteps, StatusCalls, NextStatus, OwnershipCalls

LEMMA InitCourses == CourseInit => CourseInv
  <1> SUFFICES ASSUME CourseInit PROVE CourseInv
    OBVIOUS
  <1>1. /\ workload \in Workloads /\ clock = 0 /\ calls = 0
        /\ request = [r \in Requests |-> Idle]
        /\ lineage = {} /\ audits = {} /\ submitted = {}
    BY DEF CourseInit
  <1>2. /\ course # Absent => /\ course \in CourseRow /\ course.status = "DRAFT"
                              /\ SoundOwners(course.owners)
        /\ versions \in [VersionIds -> VersionRow \cup {Absent}]
        /\ workload.max \in Nat
    BY <1>1, WorkloadsAreTyped DEF CourseInit, SoundOwners
  <1>3. outbox \in Seq(EventRow) /\ \A i \in DOMAIN outbox : outbox[i].at <= clock
    <2>1. CASE course = Absent
      BY <2>1 DEF CourseInit
    <2>2. CASE course # Absent
      <3> DEFINE event == [name |-> "created", from |-> None, to |-> "DRAFT",
                           title |-> course.title, at |-> 0]
      <3>1. event \in EventRow /\ event.at = 0
        BY <1>2, <2>2 DEF EventRow, CourseStatus, CourseRow
      <3>2. outbox = <<event>>
        BY <2>2 DEF CourseInit
      <3> HIDE DEF event
      <3> QED
        BY <1>1, <3>1, <3>2
    <2> QED
      BY <2>1, <2>2
  <1>4. Tables
    BY <1>1, <1>2, <1>3 DEF Tables
  <1>5. FreshOK /\ \A r \in Requests : RequestOK(request[r])
    BY <1>1 DEF FreshOK, RequestOK, Idle, Creating
  <1>6. /\ {versions[v].number : v \in Stored} = 1..Count
        /\ \A v, w \in Stored : versions[v].number = versions[w].number => v = w
    <2>1. versions = workload.versions
      BY DEF CourseInit
    <2> QED
      BY <1>1, <2>1, WorkloadsAreTyped DEF Stored, Count
  <1>7. RowsOK
    BY <1>1, <1>2, <1>3, <1>6 DEF RowsOK, RollbackRestores, UnderReview
  <1> QED
    BY <1>4, <1>5, <1>7 DEF CourseInv

-----------------------------------------------------------------------------
(* What a step may do to the rows without disturbing a call that has read  *)
(* them: numbers and titles of versions stay, and so does immutability.    *)
VersionKept(v) ==
  versions[v] # Absent =>
    /\ versions'[v] # Absent
    /\ versions'[v].number = versions[v].number
    /\ versions'[v].title = versions[v].title
    /\ versions[v].status \in Immutable => versions'[v].status \in Immutable

RowsKept ==
  /\ submitted \subseteq submitted'
  /\ clock \in Nat /\ clock' \in Nat /\ clock <= clock'
  /\ \A v \in VersionIds : VersionKept(v)
  /\ Count \in Nat /\ Count' \in Nat /\ Count <= Count'

LEMMA SuccessorsKeepOrder ==
  \A k, m, n \in Nat : m <= n /\ k <= m + 1 => k <= n + 1
  OBVIOUS

LEMMA CallKept ==
  ASSUME NEW r \in Requests, RequestOK(request[r]), request'[r] = request[r], RowsKept
  PROVE  RequestOK(request[r])'
  <1>1. CASE request[r] = Idle
    BY <1>1 DEF RequestOK
  <1>2. CASE request[r] # Idle
    <2> DEFINE q == request[r]
    <2>1. /\ q \in RequestRow /\ q.call.op = q.op /\ <<q.op, q.step>> \in OpSteps
          /\ IsFiniteSet(q.call.owners)
          /\ CourseCopy(q) /\ VersionCopy(q) /\ SourceCopy(q)
      BY <1>2 DEF RequestOK
    <2>2. q.call.version \in VersionIds /\ q.call.source \in VersionIds
      BY <2>1 DEF RequestRow, CallRecord
    <2>3. VersionKept(q.call.version) /\ VersionKept(q.call.source)
      BY <2>2 DEF RowsKept
    <2>4. CourseCopy(request[r])'
      <3>1. q.step = "saveCourse" /\ q.event # None => q.event.at \in Nat
        BY <2>1 DEF RequestRow, EventRow
      <3> QED
        BY <2>1, <3>1 DEF CourseCopy, RowsKept
    <2>n. /\ q.copy \in VersionRow => q.copy.number \in Nat
          /\ \A n \in Nat : n <= Count + 1 => n <= Count' + 1
      <3>1. Count \in Nat /\ Count' \in Nat /\ Count <= Count'
        BY DEF RowsKept
      <3> QED
        BY <3>1, SuccessorsKeepOrder DEF VersionRow
    <2>5. VersionCopy(request[r])'
      BY <2>1, <2>3, <2>n DEF VersionCopy, VersionKept
    <2>6. SourceCopy(request[r])'
      <3> DEFINE a == versions[q.call.source]
                 b == versions'[q.call.source]
      <3>1. q.step = "saveRollback" => q.op = "rollback"
        BY <2>1, OpOfStep
      <3>2. a # Absent => /\ b # Absent /\ b.number = a.number /\ b.title = a.title
                          /\ a.status \in Immutable => b.status \in Immutable
        BY <2>3 DEF VersionKept
      <3>3. /\ q.step \in {"findLatest", "saveRollback"} /\ q.op = "rollback" =>
                 a # Absent /\ q.copy \in VersionRow
            /\ q.step = "findLatest" /\ q.op = "rollback" =>
                 /\ q.copy.number = a.number /\ q.copy.title = a.title
                 /\ q.copy.status \in Immutable => a.status \in Immutable
            /\ q.step = "saveRollback" =>
                 /\ q.copy.number > a.number /\ q.copy.title = a.title
                 /\ a.status \in Immutable /\ q.copy.number <= Count + 1
        BY <2>1 DEF SourceCopy
      <3> HIDE DEF a
      <3>4. /\ q.step \in {"findLatest", "saveRollback"} /\ q.op = "rollback" =>
                 b # Absent /\ q.copy \in VersionRow
            /\ q.step = "findLatest" /\ q.op = "rollback" =>
                 /\ q.copy.number = b.number /\ q.copy.title = b.title
                 /\ q.copy.status \in Immutable => b.status \in Immutable
            /\ q.step = "saveRollback" =>
                 /\ q.copy.number > b.number /\ q.copy.title = b.title
                 /\ b.status \in Immutable /\ q.copy.number <= Count' + 1
        BY <2>n, <3>1, <3>2, <3>3
      <3> QED
        BY <3>4 DEF SourceCopy
    <2> QED
      BY <2>1, <2>4, <2>5, <2>6 DEF RequestOK
  <1> QED
    BY <1>1, <1>2

LEMMA Unchanged ==
  ASSUME CourseInv, UNCHANGED rows, clock' \in Nat, clock <= clock'
  PROVE  RowsKept
  <1>1. Count' = Count
    BY DEF Count, Stored, rows
  <1> QED
    BY <1>1, CountType DEF RowsKept, VersionKept, rows, CourseInv, Tables

LEMMA RowsStay ==
  ASSUME CourseInv, UNCHANGED rows, clock' \in Nat, clock <= clock'
  PROVE  RowsOK'
  <1>1. Stored' = Stored /\ Count' = Count
    BY DEF Stored, Count, rows
  <1>2. /\ versions' = versions /\ course' = course /\ submitted' = submitted
        /\ lineage' = lineage /\ audits' = audits /\ outbox' = outbox
    BY DEF rows
  <1>3. \A i \in DOMAIN outbox : outbox[i].at \in Nat
    <2>1. \A i \in DOMAIN outbox : outbox[i] \in EventRow
      BY DEF CourseInv, Tables
    <2> QED
      BY <2>1 DEF EventRow
  <1>4. \A i \in DOMAIN outbox : outbox[i].at <= clock'
    BY <1>3 DEF CourseInv, RowsOK, Tables
  <1>5. RollbackRestores'
    BY <1>1, <1>2 DEF CourseInv, RowsOK, RollbackRestores
  <1>6. {versions'[v].number : v \in Stored} = 1..Count
    BY <1>2 DEF CourseInv, RowsOK
  <1> QED
    BY <1>1, <1>2, <1>4, <1>5, <1>6 DEF CourseInv, RowsOK

-----------------------------------------------------------------------------
(* Steps of a call that write no row.                                      *)

Same(next, q) == next = Idle \/ (next.op = q.op /\ next.call = q.call)

LEMMA QuietFresh ==
  ASSUME CourseInv, NEW r \in Requests, NEW next,
         request' = [request EXCEPT ![r] = next],
         UNCHANGED <<rows, clock, workload>>, calls' \in 0..workload.max,
         RequestOK(next), FreshOK'
  PROVE  CourseInv'
  <1>1. Tables'
    BY DEF CourseInv, Tables, rows
  <1>2. RowsKept
    BY Unchanged DEF CourseInv, Tables
  <1>3. \A s \in Requests : request'[s] = IF s = r THEN next ELSE request[s]
    BY DEF CourseInv, Tables
  <1>4. ASSUME NEW s \in Requests PROVE RequestOK(request[s])'
    <2>1. CASE s # r
      BY <1>2, <1>3, <2>1, CallKept DEF CourseInv
    <2>2. CASE s = r
      <3>1. request'[s] = next
        BY <1>3, <2>2
      <3>2. CourseCopy(next) => CourseCopy(request[s])'
        BY <3>1 DEF CourseCopy, rows
      <3>3. VersionCopy(next) => VersionCopy(request[s])'
        BY <3>1 DEF VersionCopy, Count, Stored, rows
      <3>4. SourceCopy(next) => SourceCopy(request[s])'
        BY <3>1 DEF SourceCopy, Count, Stored, rows
      <3> QED
        BY <3>1, <3>2, <3>3, <3>4 DEF RequestOK
    <2> QED
      BY <2>1, <2>2
  <1>5. RowsOK'
    BY RowsStay DEF CourseInv, Tables
  <1> QED
    BY <1>1, <1>4, <1>5 DEF CourseInv

LEMMA Quiet ==
  ASSUME CourseInv, NEW r \in Requests, NEW next,
         request' = [request EXCEPT ![r] = next],
         UNCHANGED <<rows, clock, workload, calls>>,
         RequestOK(next), Same(next, request[r])
  PROVE  CourseInv'
  <1>1. \A s \in Requests : request'[s] = IF s = r THEN next ELSE request[s]
    BY DEF CourseInv, Tables
  <1>2. FreshOK'
    BY <1>1 DEF CourseInv, FreshOK, Creating, Same, Idle, rows
  <1>3. calls' \in 0..workload.max
    BY DEF CourseInv, Tables
  <1> QED
    BY <1>2, <1>3, QuietFresh

LEMMA Abandon ==
  ASSUME CourseInv, NEW r \in Requests, Reply(r), UNCHANGED <<rows, clock, workload, calls>>
  PROVE  CourseInv'
  <1>1. RequestOK(Idle) /\ Same(Idle, request[r])
    BY DEF RequestOK, Same
  <1> QED
    BY <1>1, Quiet DEF Reply

(* Either the check fails and the call ends, or it goes on as it may.      *)
LEMMA Continues ==
  ASSUME CourseInv, NEW r \in Requests, NEW check, NEW next,
         Continue(r, check, next),
         check => RequestOK(next) /\ Same(next, request[r])
  PROVE  CourseInv'
  <1>1. CASE check
    BY <1>1, Quiet DEF Continue
  <1>2. CASE ~check
    BY <1>2, Abandon DEF Continue
  <1> QED
    BY <1>1, <1>2

LEMMA Running ==
  ASSUME CourseInv, NEW r \in Requests, request[r].step # "idle"
  PROVE  /\ request[r] \in RequestRow /\ request[r].call.op = request[r].op
         /\ <<request[r].op, request[r].step>> \in OpSteps
         /\ IsFiniteSet(request[r].call.owners)
         /\ CourseCopy(request[r]) /\ VersionCopy(request[r]) /\ SourceCopy(request[r])
         /\ request[r].call \in CallRecord
  BY DEF CourseInv, RequestOK, Idle, RequestRow

LEMMA TickKeeps == CourseInv /\ Tick => CourseInv'
  <1> SUFFICES ASSUME CourseInv, Tick PROVE CourseInv'
    OBVIOUS
  <1>1. /\ UNCHANGED <<rows, request, workload, calls>> /\ clock' = clock + 1 /\ clock \in Nat
    BY DEF Tick, CourseInv, Tables
  <1>2. RowsKept
    BY <1>1, Unchanged
  <1>3. Tables'
    BY <1>1 DEF CourseInv, Tables, rows
  <1>4. \A s \in Requests : RequestOK(request[s])'
    BY <1>1, <1>2, CallKept DEF CourseInv
  <1>5. FreshOK'
    BY <1>1 DEF CourseInv, FreshOK, Creating, rows
  <1>6. RowsOK'
    BY <1>1, RowsStay
  <1> QED
    BY <1>3, <1>4, <1>5, <1>6 DEF CourseInv

LEMMA BeginKeeps == ASSUME CourseInv, NEW r \in Requests, Begin(r) PROVE CourseInv'
  <1>1. PICK call \in workload.calls :
          /\ Fresh(call)
          /\ request' = [request EXCEPT ![r] =
               [op |-> call.op, step |-> FirstStep(call.op), call |-> call,
                copy |-> Absent, event |-> None]]
    BY DEF Begin
  <1> DEFINE next == [op |-> call.op, step |-> FirstStep(call.op), call |-> call,
                      copy |-> Absent, event |-> None]
  <1>2. call \in CallRecord /\ call.op \in Ops /\ IsFiniteSet(call.owners)
    BY WorkloadsAreTyped DEF CourseInv, Tables, CallRecord
  <1>3. /\ <<call.op, FirstStep(call.op)>> \in OpSteps /\ FirstStep(call.op) \in CallSteps
        /\ FirstStep(call.op) \notin {"saveCourse", "saveVersion", "saveRollback", "findLatest"}
    BY <1>2 DEF FirstStep, OpSteps, CallSteps, Ops, StatusCalls, NextStatus, OwnershipCalls
  <1>4. RequestOK(next)
    <2>1. next \in RequestRow
      BY <1>2, <1>3 DEF RequestRow
    <2> QED
      BY <1>2, <1>3, <2>1 DEF RequestOK, CourseCopy, VersionCopy, SourceCopy
  <1>5. calls' \in 0..workload.max /\ UNCHANGED <<rows, clock, workload>>
    BY WorkloadsAreTyped DEF Begin, CourseInv, Tables
  <1>6. FreshOK'
    <2>1. \A s \in Requests : request'[s] = IF s = r THEN next ELSE request[s]
      BY <1>1 DEF CourseInv, Tables
    <2>2. versions' = versions
      BY <1>5 DEF rows
    <2>3. Creating(next) => /\ versions[call.version] = Absent
                            /\ \A s \in Requests : Creating(request[s]) =>
                                 request[s].call.version # call.version
      BY <1>1 DEF Creating, Fresh
    <2> QED
      BY <2>1, <2>2, <2>3 DEF CourseInv, FreshOK, Creating
  <1> QED
    BY <1>1, <1>4, <1>5, <1>6, QuietFresh

-----------------------------------------------------------------------------
(* The calls on a course.                                                  *)

LEMMA ToSaveOK ==
  ASSUME CourseInv, NEW r \in Requests, request[r].step # "idle",
         <<request[r].op, "saveCourse">> \in OpSteps,
         NEW copy \in CourseRow, SoundOwners(copy.owners),
         copy.status \in UnderReview => copy.title \in submitted \/ request[r].op = "submit",
         NEW event \in EventRow \cup {None}, event # None => event.at = clock
  PROVE  RequestOK(ToSave(r, copy, event)) /\ Same(ToSave(r, copy, event), request[r])
  <1> DEFINE next == ToSave(r, copy, event)
  <1>1. /\ request[r] \in RequestRow /\ request[r].call.op = request[r].op
        /\ IsFiniteSet(request[r].call.owners)
    BY Running
  <1>2. /\ next \in RequestRow /\ next.op = request[r].op /\ next.call = request[r].call
        /\ next.step = "saveCourse" /\ next.copy = copy /\ next.event = event
    <2>1. "saveCourse" \in CallSteps
      BY DEF CallSteps
    <2>2. next = [request[r] EXCEPT !.step = "saveCourse", !.copy = copy, !.event = event]
      BY DEF ToSave
    <2> QED
      BY <1>1, <2>1, <2>2 DEF RequestRow
  <1>3. clock \in Nat
    BY DEF CourseInv, Tables
  <1> HIDE DEF next
  <1>4. CourseCopy(next) /\ VersionCopy(next) /\ SourceCopy(next)
    BY <1>2, <1>3 DEF CourseCopy, VersionCopy, SourceCopy
  <1> QED
    BY <1>1, <1>2, <1>4 DEF RequestOK, Same, next

LEMMA EventType ==
  ASSUME CourseInv, NEW name \in {"created", "metadata", "status"},
         NEW from \in CourseStatus \cup {None}, NEW copy \in CourseRow
  PROVE  Event(name, from, copy) \in EventRow /\ Event(name, from, copy).at = clock
  BY DEF Event, EventRow, CourseRow, CourseInv, Tables

LEMMA CreateCourseKeeps == ASSUME CourseInv, NEW r \in Requests, CreateCourse(r) PROVE CourseInv'
  <1> DEFINE copy == NewCourse(request[r].call.title)
             event == Event("created", None, copy)
  <1>1. At(r, "create") /\ Continue(r, TRUE, ToSave(r, copy, event))
    BY DEF CreateCourse
  <1>2. /\ request[r].step # "idle" /\ request[r].op = "create"
        /\ request[r].call \in CallRecord
    BY <1>1, Running, OpOfStep DEF At
  <1>3. copy \in CourseRow /\ copy.status = "DRAFT" /\ copy.owners = {}
    BY <1>2 DEF NewCourse, CourseRow, CallRecord, CourseStatus
  <1>4. SoundOwners(copy.owners)
    <2>1. Owners({}) = {}
      BY DEF Owners
    <2> QED
      BY <1>3, <2>1, FS_EmptySet DEF SoundOwners, ValidOwnership
  <1>5. event \in EventRow /\ event.at = clock
    BY <1>3, EventType
  <1>6. <<request[r].op, "saveCourse">> \in OpSteps /\ copy.status \notin UnderReview
    BY <1>2, <1>3 DEF OpSteps, UnderReview
  <1> HIDE DEF copy, event
  <1>7. RequestOK(ToSave(r, copy, event)) /\ Same(ToSave(r, copy, event), request[r])
    BY <1>2, <1>3, <1>4, <1>5, <1>6, ToSaveOK
  <1> QED
    BY <1>1, <1>7, Continues

LEMMA UpdateMetadataKeeps ==
  ASSUME CourseInv, NEW r \in Requests, UpdateMetadata(r) PROVE CourseInv'
  <1> DEFINE copy == [course EXCEPT !.title = request[r].call.title]
             event == Event("metadata", course.status, copy)
             check == course # Absent /\ MetadataIsOpen(course) /\ copy # course
  <1>1. /\ At(r, "findCourse") /\ request[r].op = "edit"
        /\ Continue(r, check, ToSave(r, copy, event))
    BY DEF UpdateMetadata
  <1>2. request[r].step # "idle" /\ request[r].call \in CallRecord
    BY <1>1, Running DEF At
  <1>3. ASSUME check
        PROVE  RequestOK(ToSave(r, copy, event)) /\ Same(ToSave(r, copy, event), request[r])
    <2>1. course \in CourseRow /\ course.status = "DRAFT" /\ SoundOwners(course.owners)
      BY <1>3 DEF CourseInv, Tables, RowsOK, MetadataIsOpen
    <2>2. copy \in CourseRow /\ copy.status = "DRAFT" /\ copy.owners = course.owners
      BY <1>2, <2>1 DEF CourseRow, CallRecord
    <2>3. event \in EventRow /\ event.at = clock
      BY <2>1, <2>2, EventType DEF CourseRow
    <2>4. <<request[r].op, "saveCourse">> \in OpSteps /\ copy.status \notin UnderReview
      BY <1>1, <2>2 DEF OpSteps, UnderReview
    <2> HIDE DEF copy, event
    <2> QED
      BY <1>2, <2>1, <2>2, <2>3, <2>4, ToSaveOK
  <1> HIDE DEF copy, event, check
  <1> QED
    BY <1>1, <1>3, Continues

LEMMA TransitionStatusKeeps ==
  ASSUME CourseInv, NEW r \in Requests, TransitionStatus(r) PROVE CourseInv'
  <1> DEFINE to == NextStatus[request[r].op]
             copy == [course EXCEPT !.status = to]
             event == Event("status", course.status, copy)
             check == course # Absent /\ to \in CanTransition[course.status]
  <1>1. /\ At(r, "findCourse") /\ request[r].op \in StatusCalls
        /\ Continue(r, check, ToSave(r, copy, event))
    BY DEF TransitionStatus
  <1>2. request[r].step # "idle"
    BY <1>1 DEF At
  <1>3. ASSUME check
        PROVE  RequestOK(ToSave(r, copy, event)) /\ Same(ToSave(r, copy, event), request[r])
    <2>1. /\ course \in CourseRow /\ course.status \in CourseStatus
          /\ SoundOwners(course.owners)
          /\ course.status \in UnderReview => course.title \in submitted
      BY <1>3 DEF CourseInv, Tables, RowsOK, CourseRow
    <2>2. to \in CourseStatus /\ (to = "IN_REVIEW" => request[r].op = "submit")
      BY <1>1 DEF StatusCalls, NextStatus, CourseStatus
    <2>3. to = "PUBLISHED" => course.status = "IN_REVIEW"
      BY <1>3, <2>1 DEF CanTransition, CourseStatus
    <2>4. /\ copy \in CourseRow /\ copy.status = to
          /\ copy.title = course.title /\ copy.owners = course.owners
      BY <2>1, <2>2 DEF CourseRow
    <2>5. event \in EventRow /\ event.at = clock
      BY <2>1, <2>4, EventType
    <2>6. <<request[r].op, "saveCourse">> \in OpSteps
      BY <1>1 DEF OpSteps
    <2>7. copy.status \in UnderReview => copy.title \in submitted \/ request[r].op = "submit"
      BY <2>1, <2>2, <2>3, <2>4 DEF UnderReview
    <2> HIDE DEF to, copy, event
    <2> QED
      BY <1>2, <2>1, <2>4, <2>5, <2>6, <2>7, ToSaveOK
  <1> HIDE DEF copy, event, check
  <1> QED
    BY <1>1, <1>3, Continues

LEMMA ChangeOwnershipKeeps ==
  ASSUME CourseInv, NEW r \in Requests, ChangeOwnership(r) PROVE CourseInv'
  <1> DEFINE q == request[r]
             given == q.call.owners
             owners == CASE q.op = "assign" -> course.owners \cup given
                         [] q.op = "unassign" -> course.owners \ given
                         [] q.op = "replaceOwners" -> given
             check == /\ course # Absent
                      /\ q.op = "assign" => \A x \in given : CanAssign(course.owners, x)
                      /\ q.op = "unassign" => owners # course.owners
                      /\ q.op = "replaceOwners" =>
                           owners # course.owners \/ Cardinality(owners) > 1
                      /\ ValidOwnership(owners)
             copy == [course EXCEPT !.owners = owners]
  <1>1. /\ At(r, "findCourse") /\ q.op \in OwnershipCalls
        /\ Continue(r, check, ToSave(r, copy, None))
    BY DEF ChangeOwnership
  <1>2. /\ q.step # "idle" /\ given \subseteq Assignment /\ IsFiniteSet(given)
    BY <1>1, Running DEF At, CallRecord
  <1>3. ASSUME check
        PROVE  RequestOK(ToSave(r, copy, None)) /\ Same(ToSave(r, copy, None), request[r])
    <2>1. /\ course \in CourseRow /\ course.owners \subseteq Assignment
          /\ IsFiniteSet(course.owners)
          /\ course.status \in UnderReview => course.title \in submitted
      BY <1>3 DEF CourseInv, Tables, RowsOK, CourseRow, SoundOwners
    <2>2. owners \subseteq Assignment /\ IsFiniteSet(owners)
      <3>1. CASE q.op = "assign"
        BY <1>2, <2>1, <3>1, FS_Union
      <3>2. CASE q.op = "unassign"
        BY <1>2, <2>1, <3>2, FS_Subset
      <3>3. CASE q.op = "replaceOwners"
        BY <1>2, <3>3
      <3> QED
        BY <1>1, <3>1, <3>2, <3>3 DEF OwnershipCalls
    <2>3. ValidOwnership(owners)
      BY <1>3
    <2> HIDE DEF owners
    <2>4. /\ copy \in CourseRow /\ copy.status = course.status
          /\ copy.title = course.title /\ copy.owners = owners
      BY <2>1, <2>2 DEF CourseRow
    <2>5. <<request[r].op, "saveCourse">> \in OpSteps
      BY <1>1 DEF OpSteps
    <2>6. SoundOwners(copy.owners)
      BY <2>2, <2>3, <2>4 DEF SoundOwners
    <2> HIDE DEF copy
    <2> QED
      BY <1>2, <2>1, <2>4, <2>5, <2>6, ToSaveOK
  <1> HIDE DEF copy, check
  <1> QED
    BY <1>1, <1>3, Continues

(* A step of a call that writes rows and ends the call.                    *)
LEMMA Writes ==
  ASSUME CourseInv, NEW r \in Requests, Reply(r), RowsKept, Tables', RowsOK',
         \A s \in Requests \ {r} : Creating(request[s]) =>
           versions'[request[s].call.version] = Absent
  PROVE  CourseInv'
  <1>1. \A s \in Requests : request'[s] = IF s = r THEN Idle ELSE request[s]
    BY DEF CourseInv, Tables, Reply
  <1>2. \A s \in Requests : RequestOK(request[s])'
    BY <1>1, CallKept DEF CourseInv, RequestOK
  <1>3. FreshOK'
    BY <1>1 DEF CourseInv, FreshOK, Creating, Idle
  <1> QED
    BY <1>2, <1>3 DEF CourseInv

LEMMA SaveCourseKeeps ==
  ASSUME CourseInv, NEW r \in Requests, SaveCourse(r) PROVE CourseInv'
  <1> DEFINE q == request[r]
  <1>1. /\ q.step = "saveCourse" /\ Reply(r)
        /\ course' = q.copy
        /\ outbox' = IF q.event = None THEN outbox ELSE Append(outbox, q.event)
        /\ submitted' = IF q.op = "submit" THEN submitted \cup {q.copy.title} ELSE submitted
        /\ UNCHANGED <<versions, lineage, audits, clock, workload, calls>>
    BY DEF SaveCourse, At
  <1>2. /\ q \in RequestRow /\ q.event \in EventRow \cup {None}
        /\ q.copy \in CourseRow /\ SoundOwners(q.copy.owners)
        /\ q.copy.status \in UnderReview => q.copy.title \in submitted \/ q.op = "submit"
        /\ q.event # None => q.event.at <= clock
    BY <1>1, Running DEF CourseCopy, RequestRow
  <1>3. Stored' = Stored /\ Count' = Count /\ Count \in Nat
    BY <1>1, CountType DEF Stored, Count
  <1>4. RowsKept
    BY <1>1, <1>3 DEF RowsKept, VersionKept, CourseInv, Tables
  <1>5. /\ outbox' \in Seq(EventRow)
        /\ \A i \in DOMAIN outbox' : outbox'[i].at <= clock
    BY <1>1, <1>2 DEF CourseInv, Tables, RowsOK
  <1>6. DOMAIN request' = Requests
    BY <1>1 DEF CourseInv, Tables, Reply
  <1>7. Tables'
    BY <1>1, <1>2, <1>5, <1>6 DEF CourseInv, Tables
  <1>8. RowsOK'
    <2>1. RollbackRestores'
      BY <1>1, <1>3 DEF CourseInv, RowsOK, RollbackRestores
    <2>2. {versions'[v].number : v \in Stored} = 1..Count
      BY <1>1 DEF CourseInv, RowsOK
    <2>3. /\ SoundOwners(course'.owners)
          /\ course'.status \in UnderReview => course'.title \in submitted'
      BY <1>1, <1>2
    <2> QED
      BY <1>1, <1>3, <1>5, <2>1, <2>2, <2>3 DEF CourseInv, RowsOK
  <1>9. \A s \in Requests \ {r} : Creating(request[s]) =>
          versions'[request[s].call.version] = Absent
    BY <1>1 DEF CourseInv, FreshOK
  <1> QED
    BY <1>1, <1>4, <1>7, <1>8, <1>9, Writes

-----------------------------------------------------------------------------
(* The calls on versions.                                                  *)

LEMMA NewVersionType ==
  ASSUME NEW number \in Nat \ {0}, NEW title \in Titles
  PROVE  /\ NewVersion(number, title) \in VersionRow
         /\ NewVersion(number, title).number = number
         /\ NewVersion(number, title).title = title
  BY DEF NewVersion, VersionRow, VersionStatus

(* A call on versions that goes on.                                        *)
LEMMA ToGoOn ==
  ASSUME CourseInv, NEW r \in Requests, request[r].step # "idle",
         NEW step \in CallSteps \ {"saveCourse"}, <<request[r].op, step>> \in OpSteps,
         NEW copy \in CourseRow \cup VersionRow \cup {Absent},
         NEW next, next = [request[r] EXCEPT !.step = step, !.copy = copy],
         VersionCopy(next), SourceCopy(next)
  PROVE  RequestOK(next) /\ Same(next, request[r])
  <1>1. /\ request[r] \in RequestRow /\ request[r].call.op = request[r].op
        /\ IsFiniteSet(request[r].call.owners)
    BY Running
  <1>2. /\ next \in RequestRow /\ next.op = request[r].op /\ next.call = request[r].call
        /\ next.step = step
    BY <1>1 DEF RequestRow
  <1> QED
    BY <1>1, <1>2 DEF RequestOK, Same, CourseCopy

LEMMA FindVersionedKeeps ==
  ASSUME CourseInv, NEW r \in Requests, FindVersioned(r) PROVE CourseInv'
  <1> DEFINE next == [request[r] EXCEPT !.step = "findLatest", !.copy = course]
  <1>1. /\ request[r].step # "idle" /\ request[r].op = "createVersion"
        /\ Continue(r, course # Absent, next)
    BY DEF FindVersioned, At
  <1>2. ASSUME course # Absent
        PROVE  RequestOK(next) /\ Same(next, request[r])
    <2>1. course \in CourseRow /\ request[r] \in RequestRow
      BY <1>1, <1>2, Running DEF CourseInv, Tables
    <2>2. next.op = "createVersion" /\ next.step = "findLatest" /\ next.copy = course
      BY <1>1, <2>1 DEF RequestRow
    <2>3. VersionCopy(next) /\ SourceCopy(next)
      BY <2>1, <2>2 DEF VersionCopy, SourceCopy
    <2>4. /\ <<request[r].op, "findLatest">> \in OpSteps
          /\ "findLatest" \in CallSteps \ {"saveCourse"}
      BY <1>1 DEF OpSteps, CallSteps
    <2> QED
      BY <1>1, <2>1, <2>3, <2>4, ToGoOn
  <1> HIDE DEF next
  <1> QED
    BY <1>1, <1>2, Continues

LEMMA CreateVersionKeeps ==
  ASSUME CourseInv, NEW r \in Requests, CreateVersion(r) PROVE CourseInv'
  <1> DEFINE copy == NewVersion(LatestNumber + 1, request[r].copy.title)
             next == [request[r] EXCEPT !.step = "saveVersion", !.copy = copy]
  <1>1. /\ request[r].step = "findLatest" /\ request[r].op = "createVersion"
        /\ Continue(r, TRUE, next)
    BY DEF CreateVersion, At
  <1>2. request[r] \in RequestRow /\ request[r].copy \in CourseRow
    BY <1>1, Running DEF VersionCopy
  <1>3. copy \in VersionRow /\ copy.number = Count + 1 /\ Count \in Nat
    <2>1. LatestNumber = Count /\ Count \in Nat
      BY LatestIsCount, CountType
    <2> QED
      BY <1>2, <2>1, NewVersionType DEF CourseRow
  <1> HIDE DEF copy
  <1>4. next.op = "createVersion" /\ next.step = "saveVersion" /\ next.copy = copy
    BY <1>1, <1>2 DEF RequestRow
  <1>5. VersionCopy(next) /\ SourceCopy(next)
    BY <1>3, <1>4 DEF VersionCopy, SourceCopy
  <1>6. /\ <<request[r].op, "saveVersion">> \in OpSteps
        /\ "saveVersion" \in CallSteps \ {"saveCourse"}
    BY <1>1 DEF OpSteps, CallSteps
  <1>7. RequestOK(next) /\ Same(next, request[r])
    BY <1>1, <1>3, <1>5, <1>6, ToGoOn
  <1> HIDE DEF next
  <1> QED
    BY <1>1, <1>7, Continues

LEMMA PublishVersionKeeps ==
  ASSUME CourseInv, NEW r \in Requests, PublishVersion(r) PROVE CourseInv'
  <1> DEFINE row == versions[request[r].call.version]
             copy == [row EXCEPT !.status = "PUBLISHED"]
             next == [request[r] EXCEPT !.step = "saveVersion", !.copy = copy]
             check == row # Absent /\ row.status = "IN_REVIEW"
  <1>1. request[r].step = "findVersion" /\ Continue(r, check, next)
    BY DEF PublishVersion, At
  <1>2. /\ request[r] \in RequestRow /\ request[r].op = "publishVersion"
        /\ request[r].call.version \in VersionIds
    BY <1>1, Running, OpOfStep DEF CallRecord
  <1>3. ASSUME check
        PROVE  RequestOK(next) /\ Same(next, request[r])
    <2>1. row \in VersionRow
      BY <1>2, <1>3 DEF CourseInv, Tables
    <2>2. /\ copy \in VersionRow /\ copy.status = "PUBLISHED"
          /\ copy.number = row.number /\ copy.title = row.title
      BY <2>1 DEF VersionRow, VersionStatus
    <2> HIDE DEF copy
    <2>3. /\ next.op = "publishVersion" /\ next.step = "saveVersion" /\ next.copy = copy
          /\ next.call = request[r].call
      BY <1>2 DEF RequestRow
    <2>4. VersionCopy(next) /\ SourceCopy(next)
      BY <1>3, <2>2, <2>3 DEF VersionCopy, SourceCopy
    <2>5. /\ <<request[r].op, "saveVersion">> \in OpSteps
          /\ "saveVersion" \in CallSteps \ {"saveCourse"}
      BY <1>2 DEF OpSteps, CallSteps
    <2> QED
      BY <1>1, <2>2, <2>4, <2>5, ToGoOn
  <1> HIDE DEF next, check
  <1> QED
    BY <1>1, <1>3, Continues

LEMMA FindSourceKeeps ==
  ASSUME CourseInv, NEW r \in Requests, FindSource(r) PROVE CourseInv'
  <1> DEFINE row == versions[request[r].call.source]
             next == [request[r] EXCEPT !.step = "findLatest", !.copy = row]
  <1>1. request[r].step = "findSource" /\ Continue(r, row # Absent, next)
    BY DEF FindSource, At
  <1>2. /\ request[r] \in RequestRow /\ request[r].op = "rollback"
        /\ request[r].call.source \in VersionIds
    BY <1>1, Running, OpOfStep DEF CallRecord
  <1>3. ASSUME row # Absent
        PROVE  RequestOK(next) /\ Same(next, request[r])
    <2>1. row \in VersionRow
      BY <1>2, <1>3 DEF CourseInv, Tables
    <2>2. /\ next.op = "rollback" /\ next.step = "findLatest" /\ next.copy = row
          /\ next.call = request[r].call
      BY <1>2, <2>1 DEF RequestRow
    <2>3. VersionCopy(next) /\ SourceCopy(next)
      BY <1>3, <2>1, <2>2 DEF VersionCopy, SourceCopy
    <2>4. /\ <<request[r].op, "findLatest">> \in OpSteps
          /\ "findLatest" \in CallSteps \ {"saveCourse"}
      BY <1>2 DEF OpSteps, CallSteps
    <2> QED
      BY <1>1, <2>1, <2>3, <2>4, ToGoOn
  <1> HIDE DEF next, row
  <1> QED
    BY <1>1, <1>3, Continues

LEMMA RollbackKeeps ==
  ASSUME CourseInv, NEW r \in Requests, Rollback(r) PROVE CourseInv'
  <1> DEFINE source == request[r].copy
             row == versions[request[r].call.source]
             copy == NewVersion(1 + Max({source.number, LatestNumber}), source.title)
             next == [request[r] EXCEPT !.step = "saveRollback", !.copy = copy]
  <1>1. /\ request[r].step = "findLatest" /\ request[r].op = "rollback"
        /\ Continue(r, CanRollbackTo(source), next)
    BY DEF Rollback, At
  <1>2. /\ request[r] \in RequestRow /\ row # Absent /\ source \in VersionRow
        /\ source.number = row.number /\ source.title = row.title
        /\ source.status \in Immutable => row.status \in Immutable
        /\ request[r].call.source \in Stored
    BY <1>1, Running DEF SourceCopy, CallRecord, Stored
  <1>3. ASSUME CanRollbackTo(source)
        PROVE  RequestOK(next) /\ Same(next, request[r])
    <2>1. LatestNumber = Count /\ Count \in Nat /\ source.number \in Nat /\ source.number <= Count
      BY <1>2, LatestIsCount, CountType DEF VersionRow, CourseInv, RowsOK
    <2>2. Max({source.number, LatestNumber}) = Count
      BY <2>1, GreaterOfTwo
    <2>3. /\ copy \in VersionRow /\ copy.number = Count + 1 /\ copy.title = row.title
      <3>1. source.title \in Titles /\ Count + 1 \in Nat \ {0} /\ 1 + Count = Count + 1
        BY <1>2, <2>1 DEF VersionRow
      <3> QED
        <4>1. copy = NewVersion(Count + 1, source.title)
          BY <2>2, <3>1
        <4> HIDE DEF copy
        <4>2. /\ NewVersion(Count + 1, source.title) \in VersionRow
              /\ NewVersion(Count + 1, source.title).number = Count + 1
              /\ NewVersion(Count + 1, source.title).title = source.title
          BY <3>1, NewVersionType
        <4> QED
          BY <1>2, <4>1, <4>2
    <2> HIDE DEF copy
    <2>4. /\ next.op = "rollback" /\ next.step = "saveRollback" /\ next.copy = copy
          /\ next.call = request[r].call
      BY <1>1, <1>2 DEF RequestRow
    <2>5. row.status \in Immutable
      BY <1>2, <1>3 DEF CanRollbackTo, Immutable
    <2>6. VersionCopy(next) /\ SourceCopy(next)
      BY <1>2, <2>1, <2>3, <2>4, <2>5 DEF VersionCopy, SourceCopy
    <2>7. /\ <<request[r].op, "saveRollback">> \in OpSteps
          /\ "saveRollback" \in CallSteps \ {"saveCourse"}
      BY <1>1 DEF OpSteps, CallSteps
    <2> QED
      BY <1>1, <2>3, <2>6, <2>7, ToGoOn
  <1> HIDE DEF next
  <1> QED
    BY <1>1, <1>3, Continues

(* A version that is accepted under the next number at most gets exactly   *)
(* the next one, for the others are taken.                                 *)
LEMMA Inserted ==
  ASSUME CourseInv, NEW v \in VersionIds, NEW row \in VersionRow,
         versions[v] = Absent, VersionAccepted(v, row), row.number <= Count + 1,
         versions' = [versions EXCEPT ![v] = row]
  PROVE  /\ v \notin Stored /\ Stored' = Stored \cup {v} /\ Count' = Count + 1
         /\ Count \in Nat /\ \A w \in VersionIds : VersionKept(w)
         /\ {versions'[w].number : w \in Stored'} = 1..Count'
         /\ \A w, x \in Stored' : versions'[w].number = versions'[x].number => w = x
  <1>1. /\ versions \in [VersionIds -> VersionRow \cup {Absent}] /\ row # Absent
        /\ Count \in Nat /\ IsFiniteSet(Stored)
    BY AbsentIsNoRow, CountType DEF CourseInv, Tables
  <1>2. \A w \in VersionIds : versions'[w] = IF w = v THEN row ELSE versions[w]
    BY <1>1
  <1>3. v \notin Stored /\ Stored' = Stored \cup {v}
    BY <1>1, <1>2 DEF Stored
  <1>4. Count' = Count + 1
    BY <1>1, <1>3, FS_AddElement DEF Count
  <1>5. {versions[w].number : w \in Stored} = 1..Count
    BY DEF CourseInv, RowsOK
  <1>6. row.number = Count + 1
    <2>1. row.number \notin 1..Count /\ row.number \in Nat \ {0}
      BY <1>3, <1>5 DEF VersionAccepted, VersionRow
    <2> QED
      BY <1>1, <2>1
  <1>7. \A w \in Stored : versions'[w] = versions[w] /\ versions'[w].number \in 1..Count
    BY <1>2, <1>3, <1>5 DEF Stored
  <1>8. {versions'[w].number : w \in Stored'} = 1..Count'
    <2>1. {versions'[w].number : w \in Stored} = 1..Count
      BY <1>5, <1>7
    <2>2. versions'[v].number = Count + 1
      BY <1>2, <1>6
    <2> QED
      BY <1>1, <1>3, <1>4, <2>1, <2>2
  <1>9. \A w, x \in Stored' : versions'[w].number = versions'[x].number => w = x
    BY <1>1, <1>2, <1>3, <1>6, <1>7 DEF CourseInv, RowsOK
  <1> QED
    BY <1>1, <1>2, <1>3, <1>4, <1>8, <1>9 DEF VersionKept

LEMMA Updated ==
  ASSUME CourseInv, NEW v \in VersionIds, NEW row \in VersionRow,
         versions[v] # Absent, row.status = "PUBLISHED",
         row.number = versions[v].number, row.title = versions[v].title,
         versions' = [versions EXCEPT ![v] = row]
  PROVE  /\ Stored' = Stored /\ Count' = Count /\ Count \in Nat
         /\ \A w \in VersionIds : VersionKept(w)
         /\ {versions'[w].number : w \in Stored'} = 1..Count'
         /\ \A w, x \in Stored' : versions'[w].number = versions'[x].number => w = x
  <1>1. /\ versions \in [VersionIds -> VersionRow \cup {Absent}] /\ row # Absent
        /\ Count \in Nat
    BY AbsentIsNoRow, CountType DEF CourseInv, Tables
  <1>2. \A w \in VersionIds : versions'[w] = IF w = v THEN row ELSE versions[w]
    BY <1>1
  <1>3. Stored' = Stored
    BY <1>1, <1>2 DEF Stored
  <1>4. Count' = Count
    BY <1>3 DEF Count
  <1>5. \A w \in Stored : versions'[w].number = versions[w].number
    BY <1>2 DEF Stored
  <1>6. {versions[w].number : w \in Stored} = 1..Count
    BY DEF CourseInv, RowsOK
  <1>7. {versions'[w].number : w \in Stored} = 1..Count
    BY <1>5, <1>6
  <1>8. \A w, x \in Stored : versions'[w].number = versions'[x].number => w = x
    BY <1>5 DEF CourseInv, RowsOK
  <1>9. \A w \in VersionIds : VersionKept(w)
    BY <1>1, <1>2 DEF VersionKept, Immutable
  <1> QED
    BY <1>1, <1>3, <1>4, <1>7, <1>8, <1>9

(* A rollback that was recorded stays one.                                 *)
LEMMA RollbacksKept ==
  ASSUME CourseInv, \A v \in VersionIds : VersionKept(v), NEW l \in lineage
  PROVE  LET source == versions'[l.source]
             target == versions'[l.target]
         IN /\ source.status \in {"PUBLISHED", "ARCHIVED"}
            /\ target.number > source.number /\ target.title = source.title
            /\ l.source \in Stored' /\ l.target \in Stored'
  <1>1. /\ l.source \in Stored /\ l.target \in Stored
        /\ versions[l.source].status \in {"PUBLISHED", "ARCHIVED"}
        /\ versions[l.target].number > versions[l.source].number
        /\ versions[l.target].title = versions[l.source].title
    BY DEF CourseInv, RowsOK, RollbackRestores
  <1>2. VersionKept(l.source) /\ VersionKept(l.target)
    BY <1>1 DEF Stored
  <1> QED
    BY <1>1, <1>2 DEF VersionKept, Immutable, Stored

LEMMA CreatingIsTyped ==
  ASSUME CourseInv, NEW s \in Requests, Creating(request[s])
  PROVE  request[s].call.version \in VersionIds
  <1>1. request[s] # Idle
    BY DEF Creating, Idle
  <1>2. request[s] \in RequestRow
    BY <1>1 DEF CourseInv, RequestOK
  <1> QED
    BY <1>2 DEF RequestRow, CallRecord

LEMMA SaveVersionKeeps ==
  ASSUME CourseInv, NEW r \in Requests, SaveVersion(r) PROVE CourseInv'
  <1> DEFINE q == request[r]
             v == q.call.version
  <1>1. /\ q.step = "saveVersion" /\ Reply(r)
        /\ IF VersionAccepted(v, q.copy)
           THEN versions' = [versions EXCEPT ![v] = q.copy] ELSE UNCHANGED versions
        /\ UNCHANGED <<course, lineage, audits, outbox, submitted, clock, workload, calls>>
    BY DEF SaveVersion, At
  <1>2. CASE ~VersionAccepted(v, q.copy)
    BY <1>1, <1>2, Abandon DEF rows
  <1>3. CASE VersionAccepted(v, q.copy)
    <2>1. /\ q.op \in {"createVersion", "publishVersion"} /\ v \in VersionIds
          /\ VersionCopy(q)
      BY <1>1, Running, OpOfStep DEF CallRecord
    <2>2. q.copy \in VersionRow
      BY <1>1, <2>1 DEF VersionCopy
    <2>3. /\ Stored \subseteq Stored' /\ Count \in Nat /\ Count' \in Nat /\ Count <= Count'
          /\ \A w \in VersionIds : VersionKept(w)
          /\ {versions'[w].number : w \in Stored'} = 1..Count'
          /\ \A w, x \in Stored' : versions'[w].number = versions'[x].number => w = x
      <3>1. CASE q.op = "createVersion"
        <4>1. versions[v] = Absent /\ q.copy.number <= Count + 1
          BY <1>1, <2>1, <3>1 DEF CourseInv, FreshOK, Creating, VersionCopy
        <4> QED
          BY <1>1, <1>3, <2>1, <2>2, <4>1, Inserted
      <3>2. CASE q.op = "publishVersion"
        <4>1. /\ versions[v] # Absent /\ q.copy.status = "PUBLISHED"
              /\ q.copy.number = versions[v].number /\ q.copy.title = versions[v].title
          BY <1>1, <2>1, <3>2 DEF VersionCopy
        <4>2. /\ Stored' = Stored /\ Count' = Count /\ Count \in Nat
              /\ \A w \in VersionIds : VersionKept(w)
              /\ {versions'[w].number : w \in Stored'} = 1..Count'
              /\ \A w, x \in Stored' : versions'[w].number = versions'[x].number => w = x
          BY <1>1, <1>3, <2>1, <2>2, <4>1, Updated
        <4> QED
          BY <4>2
      <3> QED
        BY <2>1, <3>1, <3>2
    <2>4. RowsKept
      BY <1>1, <2>3 DEF RowsKept, CourseInv, Tables
    <2>5. Tables'
      BY <1>1, <1>3, <2>1, <2>2 DEF CourseInv, Tables, Reply
    <2>6. RollbackRestores' /\ \A l \in lineage' : l.source \in Stored'
      BY <1>1, <2>3, RollbacksKept DEF CourseInv, RowsOK, RollbackRestores
    <2>7. RowsOK'
      BY <1>1, <2>3, <2>6 DEF CourseInv, RowsOK
    <2>8. ASSUME NEW s \in Requests \ {r}, Creating(request[s])
          PROVE  versions'[request[s].call.version] = Absent
      <3>1. request[s].call.version \in VersionIds
        BY <2>8, CreatingIsTyped
      <3>2. versions[request[s].call.version] = Absent /\ request[s].call.version # v
        <4>1. CASE Creating(q)
          BY <2>8, <4>1 DEF CourseInv, FreshOK
        <4>2. CASE ~Creating(q)
          BY <1>1, <2>1, <2>8, <4>2 DEF CourseInv, FreshOK, Creating, VersionCopy
        <4> QED
          BY <4>1, <4>2
      <3> QED
        BY <1>1, <1>3, <3>1, <3>2 DEF CourseInv, Tables
    <2> QED
      BY <1>1, <2>4, <2>5, <2>7, <2>8, Writes
  <1> QED
    BY <1>2, <1>3

LEMMA SaveRollbackKeeps ==
  ASSUME CourseInv, NEW r \in Requests, SaveRollback(r) PROVE CourseInv'
  <1> DEFINE q == request[r]
             v == q.call.version
             entry == [source |-> q.call.source, target |-> v]
  <1>1. /\ q.step = "saveRollback" /\ Reply(r)
        /\ IF VersionAccepted(v, q.copy)
           THEN /\ versions' = [versions EXCEPT ![v] = q.copy]
                /\ lineage' = lineage \cup {entry}
                /\ audits' = audits \cup {v}
           ELSE UNCHANGED <<versions, lineage, audits>>
        /\ UNCHANGED <<course, outbox, submitted, clock, workload, calls>>
    BY DEF SaveRollback, At
  <1>2. CASE ~VersionAccepted(v, q.copy)
    BY <1>1, <1>2, Abandon DEF rows
  <1>3. CASE VersionAccepted(v, q.copy)
    <2>1. /\ q.op = "rollback" /\ v \in VersionIds /\ q.call.source \in VersionIds
          /\ SourceCopy(q)
      BY <1>1, Running, OpOfStep DEF CallRecord
    <2>2. /\ q.copy \in VersionRow /\ q.copy.number <= Count + 1
          /\ versions[q.call.source] # Absent
          /\ q.copy.number > versions[q.call.source].number
          /\ q.copy.title = versions[q.call.source].title
          /\ versions[q.call.source].status \in Immutable
      BY <1>1, <2>1 DEF SourceCopy
    <2>3. versions[v] = Absent
      BY <2>1 DEF CourseInv, FreshOK, Creating
    <2>4. /\ Stored' = Stored \cup {v} /\ Count' = Count + 1 /\ Count \in Nat
          /\ \A w \in VersionIds : VersionKept(w)
          /\ {versions'[w].number : w \in Stored'} = 1..Count'
          /\ \A w, x \in Stored' : versions'[w].number = versions'[x].number => w = x
      BY <1>1, <1>3, <2>1, <2>2, <2>3, Inserted
    <2>5. RowsKept
      BY <1>1, <2>4 DEF RowsKept, CourseInv, Tables
    <2>6. Tables'
      BY <1>1, <1>3, <2>1, <2>2 DEF CourseInv, Tables, Reply
    <2>7. /\ versions'[v] = q.copy /\ versions'[q.call.source] = versions[q.call.source]
          /\ v \in Stored' /\ q.call.source \in Stored'
      BY <1>1, <1>3, <2>1, <2>2, <2>3, <2>4 DEF CourseInv, Tables, Stored
    <2>8. RollbackRestores' /\ \A l \in lineage' : l.source \in Stored'
      <3>1. {l.target : l \in lineage'} = audits'
        <4>1. {l.target : l \in lineage} = audits
          BY DEF CourseInv, RowsOK, RollbackRestores
        <4>2. lineage' = lineage \cup {entry} /\ audits' = audits \cup {v} /\ entry.target = v
          BY <1>1, <1>3
        <4> HIDE DEF v, entry
        <4> QED
          BY <4>1, <4>2
      <3>2. audits' \subseteq Stored'
        BY <1>1, <1>3, <2>4 DEF CourseInv, RowsOK, RollbackRestores
      <3>3. ASSUME NEW l \in lineage'
            PROVE  /\ versions'[l.source].status \in {"PUBLISHED", "ARCHIVED"}
                   /\ versions'[l.target].number > versions'[l.source].number
                   /\ versions'[l.target].title = versions'[l.source].title
                   /\ l.source \in Stored'
        <4>1. CASE l \in lineage
          BY <2>4, <4>1, RollbacksKept
        <4>2. CASE l = entry
          BY <2>2, <2>7, <4>2 DEF Immutable
        <4> QED
          BY <1>1, <1>3, <4>1, <4>2
      <3> QED
        BY <3>1, <3>2, <3>3 DEF RollbackRestores
    <2>9. RowsOK'
      BY <1>1, <2>4, <2>8 DEF CourseInv, RowsOK
    <2>10. ASSUME NEW s \in Requests \ {r}, Creating(request[s])
           PROVE  versions'[request[s].call.version] = Absent
      <3>1. request[s].call.version \in VersionIds
        BY <2>10, CreatingIsTyped
      <3>2. versions[request[s].call.version] = Absent /\ request[s].call.version # v
        BY <2>1, <2>10 DEF CourseInv, FreshOK, Creating
      <3> QED
        BY <1>1, <1>3, <3>1, <3>2 DEF CourseInv, Tables
    <2> QED
      BY <1>1, <2>5, <2>6, <2>9, <2>10, Writes
  <1> QED
    BY <1>2, <1>3

LEMMA FailsKeeps ==
  ASSUME CourseInv, NEW r \in Requests, Fails(r) PROVE CourseInv'
  <1>1. Reply(r) /\ UNCHANGED <<rows, clock, workload, calls>>
    BY DEF Fails
  <1> QED
    BY <1>1, Abandon

LEMMA CourseNextKeeps == ASSUME CourseInv, CourseNext PROVE CourseInv'
  <1>1. CASE Tick
    BY <1>1, TickKeeps
  <1>2. ASSUME NEW r \in Requests,
               \/ Begin(r) \/ Fails(r)
               \/ CreateCourse(r) \/ UpdateMetadata(r) \/ TransitionStatus(r)
               \/ ChangeOwnership(r) \/ SaveCourse(r)
               \/ FindVersioned(r) \/ CreateVersion(r) \/ PublishVersion(r)
               \/ SaveVersion(r)
               \/ FindSource(r) \/ Rollback(r) \/ SaveRollback(r)
        PROVE  CourseInv'
    BY <1>2, BeginKeeps, FailsKeeps, CreateCourseKeeps, UpdateMetadataKeeps,
       TransitionStatusKeeps, ChangeOwnershipKeeps, SaveCourseKeeps,
       FindVersionedKeeps, CreateVersionKeeps, PublishVersionKeeps, SaveVersionKeeps,
       FindSourceKeeps, RollbackKeeps, SaveRollbackKeeps
  <1> QED
    BY <1>1, <1>2 DEF CourseNext

LEMMA CourseVarsStay == ASSUME CourseInv, UNCHANGED courseVars PROVE CourseInv'
  <1>1. /\ UNCHANGED rows /\ clock' = clock /\ clock \in Nat
        /\ request' = request /\ workload' = workload /\ calls' = calls
    BY DEF courseVars, CourseInv, Tables
  <1>2. RowsOK' /\ RowsKept
    BY <1>1, RowsStay, Unchanged
  <1>3. \A r \in Requests : RequestOK(request[r])'
    BY <1>1, <1>2, CallKept DEF CourseInv
  <1>4. Tables' /\ FreshOK'
    BY <1>1 DEF CourseInv, Tables, FreshOK, rows
  <1> QED
    BY <1>2, <1>3, <1>4 DEF CourseInv

LEMMA StepKeepsCourse == ASSUME CourseInv, [Next]_vars PROVE CourseInv'
  <1>1. CourseNext \/ UNCHANGED courseVars
    BY DEF Next, Deliver, FindCatalog, UpsertCatalog, UpsertSearch, DeliveryFails, vars
  <1> QED
    BY <1>1, CourseNextKeeps, CourseVarsStay

-----------------------------------------------------------------------------
(* The read models.  Events are only appended, and the newest event of a   *)
(* longer outbox was the newest before.                                    *)
OutboxGrows ==
  /\ outbox \in Seq(EventRow) /\ outbox' \in Seq(EventRow)
  /\ Len(outbox) <= Len(outbox')
  /\ \A i \in DOMAIN outbox : i \in DOMAIN outbox' /\ outbox'[i] = outbox[i]

LEMMA CourseNextAppends == ASSUME CourseInv, CourseNext PROVE OutboxGrows
  <1>1. CASE UNCHANGED outbox
    BY <1>1 DEF OutboxGrows, CourseInv, Tables
  <1>2. ASSUME NEW r \in Requests, SaveCourse(r), request[r].event # None
        PROVE  OutboxGrows
    <2>1. outbox' = Append(outbox, request[r].event)
      BY <1>2 DEF SaveCourse
    <2>2. request[r].event \in EventRow
      BY <1>2, Running DEF SaveCourse, At, RequestRow
    <2> QED
      BY <2>1, <2>2 DEF OutboxGrows, CourseInv, Tables
  <1>3. UNCHANGED outbox \/ \E r \in Requests : SaveCourse(r) /\ request[r].event # None
    BY ZenonT(60) DEF CourseNext, Tick, Begin, Fails, CreateCourse, UpdateMetadata, TransitionStatus,
       ChangeOwnership, SaveCourse, FindVersioned, CreateVersion, PublishVersion,
       SaveVersion, FindSource, Rollback, SaveRollback, Continue, rows
  <1> QED
    BY <1>1, <1>2, <1>3

LEMMA CourseNextFollows ==
  ASSUME CourseInv, ProjectionInv, CourseNext, UNCHANGED projectionVars
  PROVE  ProjectionInv'
  <1>1. OutboxGrows
    BY CourseNextAppends
  <1>2. /\ catalog' = catalog /\ search' = search /\ delivery' = delivery
        /\ handled' = handled
    BY DEF projectionVars
  <1>3. \A c \in Consumers : DeliveryOK(delivery[c])'
    BY <1>1, <1>2 DEF ProjectionInv, DeliveryOK, OutboxGrows
  <1>4. FromOutbox(catalog)' /\ FromOutbox(search)' /\ handled' \subseteq DOMAIN outbox'
    BY <1>1, <1>2 DEF ProjectionInv, FromOutbox, OutboxGrows
  <1>5. ReadModelsFollow'
    BY <1>1, <1>2 DEF ProjectionInv, ReadModelsFollow, SearchFollowsCatalog,
                      NewestEventReachesSearch, OutboxGrows
  <1> QED
    BY <1>2, <1>3, <1>4, <1>5 DEF ProjectionInv

LEMMA EventTimes ==
  ASSUME CourseInv, NEW i \in DOMAIN outbox
  PROVE  outbox[i] \in EventRow /\ outbox[i].at \in Nat
  <1>1. outbox[i] \in EventRow
    BY DEF CourseInv, Tables
  <1> QED
    BY <1>1 DEF EventRow

(* What a handler's step leaves it with.                                    *)
NextDeliveryOK(d) ==
  \/ d = Waiting
  \/ /\ d \in Reading \cup Saving /\ d.event \in DOMAIN outbox
     /\ d.step # "find" => d.copy.at = outbox[d.event].at
     /\ d.step = "search" => catalog' # Absent /\ d.copy.at <= catalog'.at

(* A handler's step leaves the outbox and the other handlers alone.        *)
LEMMA OneHandler ==
  ASSUME ProjectionInv, UNCHANGED courseVars, NEW c \in Consumers, NEW next,
         delivery' = [delivery EXCEPT ![c] = next],
         NextDeliveryOK(next), catalog # Absent => catalog' # Absent,
         catalog # Absent => catalog.at \in Nat /\ catalog'.at \in Nat
                             /\ catalog.at <= catalog'.at,
         FromOutbox(catalog)', FromOutbox(search)', handled' \subseteq DOMAIN outbox',
         ReadModelsFollow'
  PROVE  ProjectionInv'
  <1>1. outbox' = outbox
    BY DEF courseVars, rows
  <1>2. ASSUME NEW d \in Consumers PROVE DeliveryOK(delivery[d])'
    <2>1. CASE d = c
      <3>1. delivery'[d] = next
        BY <2>1 DEF ProjectionInv
      <3> QED
        BY <1>1, <3>1 DEF DeliveryOK, NextDeliveryOK
    <2>2. CASE d # c
      <3>1. delivery'[d] = delivery[d] /\ DeliveryOK(delivery[d])
        BY <2>2 DEF ProjectionInv
      <3> DEFINE q == delivery[d]
      <3>2. q.step = "search" /\ q # Waiting => q.copy.at \in Nat
        BY <3>1 DEF DeliveryOK, Reading, Saving, ProjectionRow
      <3> HIDE DEF q
      <3>3. NextDeliveryOK(q)
        BY <3>1, <3>2 DEF DeliveryOK, NextDeliveryOK, q
      <3> QED
        BY <1>1, <3>1, <3>3 DEF DeliveryOK, NextDeliveryOK, q
    <2> QED
      BY <2>1, <2>2
  <1>3. DOMAIN delivery' = Consumers
    BY DEF ProjectionInv
  <1> QED
    BY <1>2, <1>3 DEF ProjectionInv

LEMMA AtWork ==
  ASSUME CourseInv, ProjectionInv, NEW c \in Consumers, delivery[c].step # "waiting"
  PROVE  /\ delivery[c] \in Reading \cup Saving /\ delivery[c].event \in DOMAIN outbox
         /\ outbox[delivery[c].event] \in EventRow
         /\ outbox[delivery[c].event].at \in Nat
         /\ delivery[c].step \in {"catalog", "search"} =>
              /\ delivery[c].copy \in ProjectionRow
              /\ delivery[c].copy.at = outbox[delivery[c].event].at
         /\ delivery[c].step = "search" => catalog # Absent /\ delivery[c].copy.at <= catalog.at
  <1>1. delivery[c] # Waiting /\ DeliveryOK(delivery[c])
    BY DEF ProjectionInv, Waiting
  <1>2. delivery[c] \in Reading \cup Saving /\ delivery[c].event \in DOMAIN outbox
    BY <1>1 DEF DeliveryOK
  <1>3. outbox[delivery[c].event] \in EventRow /\ outbox[delivery[c].event].at \in Nat
    BY <1>2, EventTimes
  <1>4. delivery[c].step \in {"catalog", "search"} => delivery[c].copy \in ProjectionRow
    BY <1>2 DEF Reading, Saving
  <1> QED
    BY <1>1, <1>2, <1>3, <1>4 DEF DeliveryOK

LEMMA RowsOfOutbox ==
  ASSUME ProjectionInv
  PROVE  /\ catalog # Absent => catalog \in ProjectionRow /\ catalog.at \in Nat
         /\ search # Absent => search \in ProjectionRow /\ search.at \in Nat
  BY DEF ProjectionInv, FromOutbox, ProjectionRow

(* A handler that stops, or that starts on an event.                       *)
LEMMA NothingWritten ==
  ASSUME CourseInv, ProjectionInv, NEW c \in Consumers, NEW next,
         delivery' = [delivery EXCEPT ![c] = next], NextDeliveryOK(next),
         UNCHANGED <<courseVars, catalog, search, handled>>
  PROVE  ProjectionInv'
  <1>1. outbox' = outbox /\ catalog' = catalog /\ search' = search /\ handled' = handled
    BY DEF courseVars, rows
  <1>2. FromOutbox(catalog)' /\ FromOutbox(search)' /\ handled' \subseteq DOMAIN outbox'
    BY <1>1 DEF ProjectionInv, FromOutbox
  <1>3. ReadModelsFollow'
    BY <1>1 DEF ProjectionInv, ReadModelsFollow, SearchFollowsCatalog,
                NewestEventReachesSearch
  <1>4. catalog # Absent => catalog.at \in Nat /\ catalog'.at \in Nat
                            /\ catalog.at <= catalog'.at
    BY <1>1, RowsOfOutbox
  <1>5. UNCHANGED courseVars /\ (catalog # Absent => catalog' # Absent)
    BY <1>1
  <1> QED
    BY <1>2, <1>3, <1>4, <1>5, OneHandler

LEMMA DeliverFollows ==
  ASSUME CourseInv, ProjectionInv, NEW c \in Consumers, Deliver(c)
  PROVE  ProjectionInv'
  <1>1. PICK i \in DOMAIN outbox :
          delivery' = [delivery EXCEPT ![c] = [step |-> "find", event |-> i, copy |-> Absent]]
    BY DEF Deliver
  <1>2. NextDeliveryOK([step |-> "find", event |-> i, copy |-> Absent])
    <2>1. i \in Nat /\ outbox' = outbox
      BY DEF CourseInv, Tables, Deliver, courseVars, rows
    <2> QED
      BY <2>1 DEF NextDeliveryOK, Reading
  <1> QED
    BY <1>1, <1>2, NothingWritten DEF Deliver

LEMMA StopFollows ==
  ASSUME CourseInv, ProjectionInv, NEW c \in Consumers,
         delivery' = [delivery EXCEPT ![c] = Waiting],
         UNCHANGED <<courseVars, catalog, search, handled>>
  PROVE  ProjectionInv'
  <1>1. NextDeliveryOK(Waiting)
    BY DEF NextDeliveryOK
  <1> QED
    BY <1>1, NothingWritten

LEMMA FindCatalogFollows ==
  ASSUME CourseInv, ProjectionInv, NEW c \in Consumers, FindCatalog(c)
  PROVE  ProjectionInv'
  <1> DEFINE d == delivery[c]
             event == outbox[d.event]
             next == [d EXCEPT !.step = "catalog", !.copy = Applied(event, catalog)]
  <1>1. /\ d.step = "find"
        /\ IF event.name = "created" \/ catalog # Absent
           THEN delivery' = [delivery EXCEPT ![c].step = "catalog",
                                             ![c].copy = Applied(event, catalog)]
           ELSE delivery' = [delivery EXCEPT ![c] = Waiting]
        /\ UNCHANGED <<courseVars, catalog, search, handled>>
    BY DEF FindCatalog
  <1>2. CASE ~(event.name = "created" \/ catalog # Absent)
    BY <1>1, <1>2, StopFollows
  <1>3. CASE event.name = "created" \/ catalog # Absent
    <2>1. /\ d \in Reading /\ d.event \in DOMAIN outbox /\ event \in EventRow
      <3>1. d \in Reading \cup Saving /\ d.event \in DOMAIN outbox /\ event \in EventRow
        BY <1>1, AtWork
      <3> QED
        BY <1>1, <3>1 DEF Saving
    <2>2. Applied(event, catalog) \in ProjectionRow /\ Applied(event, catalog).at = event.at
      <3>1. catalog # Absent => catalog.status \in CourseStatus /\ catalog.title \in Titles
        BY RowsOfOutbox DEF ProjectionRow
      <3>2. event.to \in CourseStatus /\ event.title \in Titles /\ event.at \in Nat
        BY <2>1 DEF EventRow
      <3>3. event.name = "metadata" \/ event.name = "status" => catalog # Absent
        BY <1>3
      <3> HIDE DEF event
      <3> QED
        BY <3>1, <3>2, <3>3 DEF Applied, ProjectionRow
    <2>3. delivery' = [delivery EXCEPT ![c] = next]
      BY <1>1, <1>3 DEF ProjectionInv
    <2>4. /\ next \in Saving /\ next.event = d.event /\ next.step = "catalog"
          /\ next.copy = Applied(event, catalog)
      BY <2>1, <2>2 DEF Reading, Saving, CourseInv, Tables
    <2>5. NextDeliveryOK(next)
      <3>1. outbox' = outbox
        BY <1>1 DEF courseVars, rows
      <3> HIDE DEF next
      <3> QED
        BY <2>1, <2>2, <2>4, <3>1 DEF NextDeliveryOK
    <2> HIDE DEF next
    <2> QED
      BY <1>1, <2>3, <2>5, NothingWritten
  <1> QED
    BY <1>2, <1>3

LEMMA UpsertCatalogFollows ==
  ASSUME CourseInv, ProjectionInv, NEW c \in Consumers, UpsertCatalog(c)
  PROVE  ProjectionInv'
  <1> DEFINE d == delivery[c]
             next == [d EXCEPT !.step = "search"]
  <1>1. /\ d.step = "catalog"
        /\ IF IsAccepted(catalog, d.copy)
           THEN /\ catalog' = d.copy
                /\ delivery' = [delivery EXCEPT ![c].step = "search"]
                /\ UNCHANGED handled
           ELSE Done(c) /\ UNCHANGED catalog
        /\ UNCHANGED <<courseVars, search>>
    BY DEF UpsertCatalog
  <1>2. /\ d \in Reading \cup Saving /\ d.event \in DOMAIN outbox
        /\ d.copy \in ProjectionRow /\ d.copy.at = outbox[d.event].at /\ d.copy.at \in Nat
    BY <1>1, AtWork
  <1>3. outbox' = outbox /\ search' = search
    BY <1>1 DEF courseVars, rows
  <1>4. FromOutbox(search)'
    BY <1>3 DEF ProjectionInv, FromOutbox
  <1>5. /\ catalog # Absent => catalog.at \in Nat
        /\ search # Absent => search.at \in Nat
    BY RowsOfOutbox
  <1>6. \A i \in handled : i \in DOMAIN outbox /\ outbox[i].at \in Nat
    BY EventTimes DEF ProjectionInv
  <1>7. CASE IsAccepted(catalog, d.copy)
    <2>1. /\ catalog' = d.copy /\ catalog' # Absent /\ handled' = handled
          /\ catalog # Absent => catalog.at <= catalog'.at
      BY <1>1, <1>2, <1>7, AbsentIsNoProjection DEF IsAccepted
    <2>2. delivery' = [delivery EXCEPT ![c] = next]
      BY <1>1, <1>7 DEF ProjectionInv
    <2>3. /\ next \in Saving /\ next.event = d.event /\ next.copy = d.copy
      BY <1>1, <1>2 DEF Reading, Saving
    <2>4. NextDeliveryOK(next)
      <3> HIDE DEF next
      <3> QED
        BY <1>2, <1>3, <2>1, <2>3 DEF NextDeliveryOK
    <2>5. FromOutbox(catalog)'
      BY <1>2, <1>3, <2>1 DEF FromOutbox
    <2>6. SearchFollowsCatalog'
      BY <1>2, <1>3, <1>5, <2>1 DEF ProjectionInv, ReadModelsFollow, SearchFollowsCatalog
    <2>7. NewestEventReachesSearch'
      <3> SUFFICES ASSUME NEW i \in handled,
                          \A j \in DOMAIN outbox : outbox[j].at <= outbox[i].at
                   PROVE  /\ catalog'.at = outbox[i].at
                          /\ search # Absent /\ search.at = outbox[i].at
        BY <1>3, <2>1 DEF NewestEventReachesSearch
      <3>1. /\ catalog # Absent /\ catalog.at = outbox[i].at
            /\ search # Absent /\ search.at = outbox[i].at
        BY DEF ProjectionInv, ReadModelsFollow, NewestEventReachesSearch
      <3>2. catalog'.at <= outbox[i].at
        BY <1>2, <2>1
      <3> QED
        BY <1>2, <1>6, <2>1, <3>1, <3>2
    <2>8. handled' \subseteq DOMAIN outbox'
      BY <1>3, <2>1 DEF ProjectionInv
    <2> HIDE DEF next
    <2> QED
      BY <1>1, <1>2, <1>4, <1>5, <2>1, <2>2, <2>4, <2>5, <2>6, <2>7, <2>8, OneHandler
         DEF ReadModelsFollow
  <1>8. CASE ~IsAccepted(catalog, d.copy)
    <2>1. /\ delivery' = [delivery EXCEPT ![c] = Waiting] /\ catalog' = catalog
          /\ handled' = handled \cup {d.event}
          /\ catalog # Absent /\ ~(catalog.at <= d.copy.at)
      BY <1>1, <1>8 DEF Done, IsAccepted
    <2>2. NextDeliveryOK(Waiting)
      BY DEF NextDeliveryOK
    <2>3. FromOutbox(catalog)' /\ handled' \subseteq DOMAIN outbox'
      BY <1>2, <1>3, <2>1 DEF ProjectionInv, FromOutbox
    <2>4. SearchFollowsCatalog'
      BY <1>3, <2>1 DEF ProjectionInv, ReadModelsFollow, SearchFollowsCatalog
    <2>5. PICK j \in DOMAIN outbox : catalog.at = outbox[j].at
      BY <2>1 DEF ProjectionInv, FromOutbox
    <2>6. NewestEventReachesSearch'
      BY <1>2, <1>3, <2>1, <2>5 DEF ProjectionInv, ReadModelsFollow, NewestEventReachesSearch
    <2>7. UNCHANGED courseVars /\ catalog' # Absent /\ ReadModelsFollow'
          /\ catalog.at \in Nat /\ catalog'.at \in Nat /\ catalog.at <= catalog'.at
      BY <1>1, <1>5, <2>1, <2>4, <2>6 DEF ReadModelsFollow
    <2> QED
      BY <1>4, <2>1, <2>2, <2>3, <2>7, OneHandler
  <1> QED
    BY <1>7, <1>8

LEMMA UpsertSearchFollows ==
  ASSUME CourseInv, ProjectionInv, NEW c \in Consumers, UpsertSearch(c)
  PROVE  ProjectionInv'
  <1> DEFINE d == delivery[c]
  <1>1. /\ d.step = "search"
        /\ search' = IF IsAccepted(search, d.copy) THEN d.copy ELSE search
        /\ delivery' = [delivery EXCEPT ![c] = Waiting]
        /\ handled' = handled \cup {d.event}
        /\ UNCHANGED <<courseVars, catalog>>
    BY DEF UpsertSearch, Done
  <1>2. /\ d.event \in DOMAIN outbox /\ d.copy \in ProjectionRow
        /\ d.copy.at = outbox[d.event].at /\ d.copy.at \in Nat
        /\ catalog # Absent /\ d.copy.at <= catalog.at
    BY <1>1, AtWork
  <1>3. outbox' = outbox /\ catalog' = catalog
    BY <1>1 DEF courseVars, rows
  <1>4. catalog.at \in Nat /\ (search # Absent => search.at \in Nat)
    BY <1>2, RowsOfOutbox
  <1>5. \A i \in handled' : i \in DOMAIN outbox /\ outbox[i].at \in Nat
    BY <1>1, <1>2, EventTimes DEF ProjectionInv
  <1>6. /\ search' # Absent /\ search'.at \in Nat
        /\ search'.at >= d.copy.at
        /\ search # Absent => search'.at >= search.at
        /\ search' = d.copy \/ search' = search
    BY <1>1, <1>2, <1>4, AbsentIsNoProjection DEF IsAccepted
  <1>7. FromOutbox(catalog)' /\ handled' \subseteq DOMAIN outbox'
    BY <1>1, <1>2, <1>3 DEF ProjectionInv, FromOutbox
  <1>8. FromOutbox(search)'
    BY <1>2, <1>3, <1>6 DEF ProjectionInv, FromOutbox
  <1>9. SearchFollowsCatalog'
    BY <1>2, <1>3, <1>6 DEF ProjectionInv, ReadModelsFollow, SearchFollowsCatalog
  <1>10. NewestEventReachesSearch'
    <2> SUFFICES ASSUME NEW i \in handled',
                        \A j \in DOMAIN outbox : outbox[j].at <= outbox[i].at
                 PROVE  catalog.at = outbox[i].at /\ search'.at = outbox[i].at
      BY <1>2, <1>3, <1>6 DEF NewestEventReachesSearch
    <2>1. PICK j \in DOMAIN outbox : catalog.at = outbox[j].at
      BY <1>2 DEF ProjectionInv, FromOutbox
    <2>2. PICK k \in DOMAIN outbox : search'.at = outbox[k].at
      BY <1>3, <1>6, <1>8 DEF FromOutbox
    <2>3. catalog.at <= outbox[i].at /\ search'.at <= outbox[i].at
      BY <2>1, <2>2
    <2>4. CASE i = d.event
      BY <1>2, <1>4, <1>5, <1>6, <2>3, <2>4
    <2>5. CASE i \in handled
      <3>1. /\ catalog.at = outbox[i].at
            /\ search # Absent /\ search.at = outbox[i].at
        BY <2>5 DEF ProjectionInv, ReadModelsFollow, NewestEventReachesSearch
      <3> QED
        BY <1>4, <1>5, <1>6, <2>3, <3>1
    <2> QED
      BY <1>1, <2>4, <2>5
  <1>11. NextDeliveryOK(Waiting)
    BY DEF NextDeliveryOK
  <1>12. UNCHANGED courseVars /\ catalog' # Absent /\ ReadModelsFollow'
         /\ catalog.at \in Nat /\ catalog'.at \in Nat /\ catalog.at <= catalog'.at
    BY <1>1, <1>2, <1>3, <1>4, <1>9, <1>10 DEF ReadModelsFollow
  <1> QED
    BY <1>1, <1>7, <1>8, <1>11, <1>12, OneHandler

LEMMA StutterFollows ==
  ASSUME ProjectionInv, UNCHANGED vars
  PROVE  ProjectionInv'
  <1>1. /\ outbox' = outbox /\ catalog' = catalog /\ search' = search
        /\ delivery' = delivery /\ handled' = handled
    BY DEF vars, courseVars, projectionVars, rows
  <1>2. \A c \in Consumers : DeliveryOK(delivery[c])'
    BY <1>1 DEF ProjectionInv, DeliveryOK
  <1>3. ReadModelsFollow'
    BY <1>1 DEF ProjectionInv, ReadModelsFollow, SearchFollowsCatalog,
                NewestEventReachesSearch
  <1> QED
    BY <1>1, <1>2, <1>3 DEF ProjectionInv, FromOutbox

LEMMA StepFollows == ASSUME CourseInv, ProjectionInv, [Next]_vars PROVE ProjectionInv'
  <1>1. CASE CourseNext /\ UNCHANGED projectionVars
    BY <1>1, CourseNextFollows
  <1>2. ASSUME NEW c \in Consumers,
               Deliver(c) \/ FindCatalog(c) \/ UpsertCatalog(c) \/ UpsertSearch(c)
               \/ DeliveryFails(c)
        PROVE  ProjectionInv'
    <2>1. CASE DeliveryFails(c)
      BY <2>1, StopFollows DEF DeliveryFails
    <2> QED
      BY <1>2, <2>1, DeliverFollows, FindCatalogFollows, UpsertCatalogFollows,
         UpsertSearchFollows
  <1>3. CASE UNCHANGED vars
    BY <1>3, StutterFollows
  <1> QED
    BY <1>1, <1>2, <1>3 DEF Next

-----------------------------------------------------------------------------
(* What any call may do to the course, its versions and the copies it      *)
(* holds, and any handler to the read models.                              *)
THEOREM CourseInvariant == Spec => [](CourseInv /\ ProjectionInv)
  <1>1. Init => CourseInv /\ ProjectionInv
    <2> SUFFICES ASSUME Init PROVE CourseInv /\ ProjectionInv
      OBVIOUS
    <2>1. CourseInv
      BY InitCourses DEF Init
    <2>2. ProjectionInv
      BY DEF Init, ProjectionInv, DeliveryOK, FromOutbox, ReadModelsFollow,
             SearchFollowsCatalog, NewestEventReachesSearch
    <2> QED
      BY <2>1, <2>2
  <1>2. CourseInv /\ ProjectionInv /\ [Next]_vars => (CourseInv /\ ProjectionInv)'
    BY StepKeepsCourse, StepFollows
  <1> QED
    BY <1>1, <1>2, PTL DEF Spec

(* However saves overwrite each other, no row leaves its type and no       *)
(* course has two owners: each call saves owners that were valid in the    *)
(* copy it read.                                                           *)
THEOREM RowsStaySound == Spec => []RowsAreSound
  <1>1. CourseInv => RowsAreSound
    <2> SUFFICES ASSUME CourseInv PROVE RowsAreSound
      OBVIOUS
    <2>1. /\ course # Absent => course \in CourseRow /\ SoundOwners(course.owners)
          /\ \A v \in VersionIds : versions[v] \in VersionRow \cup {Absent}
      BY DEF CourseInv, Tables, RowsOK
    <2>2. OneOwner
      BY <2>1, OneOwnerOnly DEF OneOwner
    <2>3. \A i \in DOMAIN outbox : /\ outbox[i].to \in CourseStatus
                                  /\ outbox[i].at \in 0..clock
      <3>1. clock \in Nat /\ \A i \in DOMAIN outbox : outbox[i].at <= clock
        BY DEF CourseInv, Tables, RowsOK
      <3>2. \A i \in DOMAIN outbox : outbox[i].to \in CourseStatus /\ outbox[i].at \in Nat
        BY EventTimes DEF EventRow
      <3> QED
        BY <3>1, <3>2
    <2>4. \A v \in Stored : /\ versions[v].number \in Nat \ {0}
                            /\ versions[v].status \in VersionStatus
                            /\ versions[v].title \in Titles
      BY <2>1 DEF Stored, VersionRow
    <2>5. course # Absent => /\ course.status \in CourseStatus
                             /\ course.title \in Titles
                             /\ \A a \in course.owners : a.principal \in Principals
      BY <2>1 DEF CourseRow, Assignment
    <2>6. \A l \in lineage : l.source \in Stored /\ l.target \in Stored
      BY DEF CourseInv, RowsOK, RollbackRestores
    <2>7. calls \in 0..workload.max
      BY DEF CourseInv, Tables
    <2> QED
      BY <2>2, <2>3, <2>4, <2>5, <2>6, <2>7 DEF RowsAreSound, CourseTypeOK
  <1> QED
    BY <1>1, CourseInvariant, PTL

(* A published course shows metadata that was submitted for review: edits  *)
(* are refused once the copy they read is in review, and an older copy     *)
(* saved late puts the course back to draft together with its metadata.    *)
THEOREM PublicationWasReviewed == Spec => []PublishedWasReviewed
  <1>1. CourseInv => PublishedWasReviewed
    BY DEF CourseInv, RowsOK, UnderReview, PublishedWasReviewed
  <1> QED
    BY <1>1, CourseInvariant, PTL

(* Versions are numbered 1, 2, 3, ... once each, and a rollback restores   *)
(* an immutable version and is stored with its lineage and its audit.      *)
THEOREM VersionsStaySound == Spec => []VersionsAreSound
  <1>1. CourseInv => VersionsAreSound
    <2> SUFFICES ASSUME CourseInv PROVE VersionsAreSound
      OBVIOUS
    <2>1. \A v \in Stored : versions[v].number \in 1..Cardinality(Stored)
      BY DEF CourseInv, RowsOK, Count
    <2> QED
      BY <2>1 DEF CourseInv, RowsOK, VersionsAreSound, VersionsAreNumberedOnce
  <1> QED
    BY <1>1, CourseInvariant, PTL

(* The search projection shows nothing the catalog did not accept, and     *)
(* both have the time of the newest event once it was handled, however     *)
(* events are repeated, reordered and handled at the same time.            *)
THEOREM ReadModelsStay == Spec => []ReadModelsFollow
  BY CourseInvariant, PTL DEF ProjectionInv
=============================================================================
