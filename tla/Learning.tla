------------------------------ MODULE Learning ------------------------------
(***************************************************************************)
(* The application services of the learning domain and the repositories    *)
(* under them, as calls that overlap: a call reads rows, applies one       *)
(* transition of an aggregate to the copy it read, and saves the copy and  *)
(* the transition's events in one transaction.  All enrollments are of one *)
(* learner for one published course.                                       *)
(*                                                                         *)
(* An enrollment is saved only over the status the copy was read with; the *)
(* other aggregates are saved over whatever the row has become.            *)
(***************************************************************************)
EXTENDS LearningRecords, Sequences, SequencesExt

CONSTANTS
  Requests,     \* the calls that may overlap
  Enrollments,  \* identifiers of enrollments
  Entitlements, \* identifiers of entitlements
  Sections, Course,  \* what section progress and course-level progress are of
  Workloads,    \* [calls, seeded, started, max]: the mixes of calls
  MaxTime       \* bound: ticks of the clock

Items == Units \cup Sections \cup {Course}

(* An event of an aggregate is the step from one status to the next.       *)
Aggregates == Enrollments \cup Entitlements \cup (Enrollments \X Items)

ASSUME TimeBound == MaxTime \in Nat

(* What calls name: their own fields, and identifiers of the right kind.   *)
EnrollmentCalls == {"enroll", "cancel", "complete"}
EntitlementCalls == {"grant"} \cup EntitlementTransitions
ProgressCalls == {"start", "update", "finish"}

ASSUME CallsAreTyped ==
  \A w \in Workloads :
    /\ w.seeded \subseteq Enrollments \X Entitlements /\ w.started \subseteq Items
    /\ \A c \in w.calls :
         /\ c.op \in EnrollmentCalls \cup EntitlementCalls \cup ProgressCalls \cup {"refresh"}
         /\ c.e \in Enrollments
         /\ c.op \in EntitlementCalls => c.k \in Entitlements
         /\ c.op \in ProgressCalls => c.k \in Items
         /\ c.op \in {"enroll", "grant"} =>
              c.starts \in Int \cup {Absent} /\ c.expires \in Int \cup {Absent, Never}

(* An identifier names one aggregate, and what is missing is no row.       *)
ASSUME AggregatesDiffer ==
  /\ Enrollments \cap Entitlements = {}
  /\ (Enrollments \cup Entitlements) \cap (Enrollments \X Items) = {}

EntitlementRow == [enrollment : Enrollments, status : EntitlementStatus,
                   startsAt : Int, expiresAt : Int \cup {Never}]

ASSUME AbsentIsNoRow ==
  Absent \notin EnrollmentRow /\ Absent \notin EntitlementRow /\ Absent \notin ProgressRow
ASSUME NoneIsNoEvent == None \notin [from : Names, to : Names]
ASSUME NeverIsNoTime == Never \notin Int \cup {Absent}

VARIABLES
  enrollments,   \* the row of each enrollment
  entitlements,  \* the row of each entitlement
  progress,      \* progress[e][i]: the progress of enrollment e on item i
  readModel,     \* the course progress read model of each enrollment
  outbox,        \* the events written for each aggregate, oldest first
  request,       \* the call in each slot and what it has read
  clock,         \* the time of day
  workload,      \* the calls the clients of this behaviour make
  calls,         \* calls made so far
  touched        \* history: when access and lessons were last written

rows == <<enrollments, entitlements, progress, readModel, outbox, touched>>
env == <<clock, workload, calls>>
vars == <<rows, request, env>>

Idle == [op |-> "none", step |-> "idle"]

-----------------------------------------------------------------------------
(* Calls.  A call record carries its arguments: e an enrollment, k an      *)
(* entitlement or an item, percentage, starts and expires.                 *)

FirstStep(op) ==
  CASE op = "enroll" -> "findOpen"
    [] op \in {"cancel", "complete", "refresh"} -> "findEnrollment"
    [] op = "grant" -> "findGranted"
    [] op \in EntitlementTransitions -> "findEntitlement"
    [] op \in ProgressCalls -> "access"

(* An identifier a call creates is a fresh UUID.                           *)
Fresh(call) ==
  /\ call.op = "enroll" =>
       /\ enrollments[call.e] = Absent
       /\ \A r \in Requests : request[r].op = "enroll" => request[r].e # call.e
  /\ call.op = "grant" =>
       /\ entitlements[call.k] = Absent
       /\ \A r \in Requests : request[r].op = "grant" => request[r].k # call.k

Begin(r) ==
  /\ request[r] = Idle /\ calls < workload.max
  /\ \E call \in workload.calls :
       /\ Fresh(call)
       /\ request' = [request EXCEPT ![r] =
            [op |-> call.op, step |-> FirstStep(call.op), call |-> call,
             e |-> call.e, k |-> call.k, now |-> clock, copy |-> Absent, event |-> None]]
  /\ calls' = calls + 1
  /\ UNCHANGED <<rows, clock, workload>>

Reply(r) == request' = [request EXCEPT ![r] = Idle]

At(r, step) == request[r].step = step

(* A call at its next step, with the copy and the event it now holds.      *)
Going(q, step, copy, event) ==
  [op |-> q.op, step |-> step, call |-> q.call, e |-> q.e, k |-> q.k,
   now |-> q.now, copy |-> copy, event |-> event]

(* Go on if a check holds, otherwise the call throws.                      *)
Continue(r, check, next) ==
  /\ IF check THEN request' = [request EXCEPT ![r] = next] ELSE Reply(r)
  /\ UNCHANGED <<rows, env>>

Tick ==
  /\ clock < MaxTime
  /\ clock' = clock + 1
  /\ UNCHANGED <<rows, request, workload, calls>>

-----------------------------------------------------------------------------
(* Enrollment: the service.  An optional time in a call is Absent when the *)
(* caller leaves it out; what it then is, is the second argument.          *)

Given(time, otherwise) ==
  CASE time = Absent -> otherwise
    [] time = Never -> Never
    [] OTHER -> clock + time

Step(from, to) == [from |-> from, to |-> to]

OpenEnrollments == {e \in Enrollments :
  enrollments[e] # Absent /\ enrollments[e].status \in OpenEnrollment}

EnrollLearner(r) ==
  LET call == request[r].call
      row == NewEnrollment(Given(call.starts, clock),
                           Given(call.expires, Never), clock)
  IN /\ At(r, "findOpen")
     /\ Continue(r, OpenEnrollments = {} /\ ValidEnrollment(row),
                 Going(request[r], "saveEnrollment", row, Step(Created, row.status)))

CancelEnrollment(r) ==
  LET row == enrollments[request[r].e]
  IN /\ At(r, "findEnrollment") /\ request[r].op = "cancel"
     /\ Continue(r, row # Absent /\ CanCancel(row),
                 Going(request[r], "saveEnrollment", [row EXCEPT !.status = "CANCELLED"],
                       Step(row.status, "CANCELLED")))

(* completeEnrollment reads the enrollment, then all its lessons at once.  *)
FindCompletable(r) ==
  LET row == enrollments[request[r].e]
  IN /\ At(r, "findEnrollment") /\ request[r].op = "complete"
     /\ Continue(r, row # Absent /\ CanComplete(row) /\ Units # {},
                 Going(request[r], "findLessons", row, None))

(* Mutant: 100% counts as completed.                                       *)
AllUnitsAtHundred(e) ==
  \A u \in Units : progress[e][u] # Absent /\ progress[e][u].percentage = 100

AllUnitsCompleted(e) ==
  \A u \in Units : /\ progress[e][u] # Absent
                   /\ progress[e][u].status = "COMPLETED"

CompleteEnrollment(r) ==
  /\ At(r, "findLessons") /\ request[r].op = "complete"
  /\ Continue(r, AllUnitsCompleted(request[r].e),
              Going(request[r], "saveEnrollment",
                    [request[r].copy EXCEPT !.status = "COMPLETED"],
                    Step("ACTIVE", "COMPLETED")))

(* Mutants: no unique index; an update whatever the status has become.      *)
EnrollmentAcceptedUnindexed(q) ==
  q.event.from = Created \/ enrollments[q.e].status = q.event.from

EnrollmentAcceptedBlind(q) ==
  q.event.from = Created => OpenEnrollments = {}

(* The repository: create under the partial unique index, or update only a *)
(* row that still has the status the transition started from.              *)
EnrollmentAccepted(q) ==
  IF q.event.from = Created
  THEN OpenEnrollments = {}
  ELSE enrollments[q.e] # Absent /\ enrollments[q.e].status = q.event.from

Emit(a, event) ==
  outbox' = IF event = None THEN outbox
                            ELSE [outbox EXCEPT ![a] = Append(@, event)]

SaveEnrollment(r) ==
  LET q == request[r]
  IN /\ At(r, "saveEnrollment")
     /\ IF EnrollmentAccepted(q)
        THEN /\ enrollments' = [enrollments EXCEPT ![q.e] = q.copy]
             /\ Emit(q.e, q.event)
             /\ touched' = [touched EXCEPT !.access[q.e] = clock]
        ELSE UNCHANGED <<enrollments, outbox, touched>>
     /\ Reply(r)
     /\ UNCHANGED <<entitlements, progress, readModel, env>>

-----------------------------------------------------------------------------
(* Entitlement.                                                            *)

LiveOf(e) == {t \in Entitlements : /\ entitlements[t] # Absent
                                   /\ entitlements[t].enrollment = e
                                   /\ entitlements[t].status \in LiveEntitlement}

FindGranted(r) ==
  LET row == enrollments[request[r].e]
  IN /\ At(r, "findGranted")
     /\ Continue(r, row # Absent /\ CanGrant(row),
                 Going(request[r], "findLive", row, None))

GrantEntitlement(r) ==
  LET q == request[r]
      row == NewEntitlement(q.e, Given(q.call.starts, q.copy.startsAt),
                                 Given(q.call.expires, q.copy.expiresAt))
  IN /\ At(r, "findLive")
     /\ Continue(r, LiveOf(q.e) = {} /\ ValidEntitlement(row),
                 Going(q, "saveEntitlement", row, Step(Created, row.status)))

ChangeEntitlement(r) ==
  LET row == entitlements[request[r].k]
      op == request[r].op
  IN /\ At(r, "findEntitlement")
     /\ Continue(r, row # Absent /\ CanChange(op, row),
                 Going(request[r], "saveEntitlement", [row EXCEPT !.status = StatusAfter[op]],
                       Step(row.status, StatusAfter[op])))

(* upsert by id: only the index on live entitlements can refuse it.        *)
EntitlementAccepted(q) ==
  q.copy.status \in LiveEntitlement => LiveOf(q.copy.enrollment) \subseteq {q.k}

SaveEntitlement(r) ==
  LET q == request[r]
  IN /\ At(r, "saveEntitlement")
     /\ IF EntitlementAccepted(q)
        THEN /\ entitlements' = [entitlements EXCEPT ![q.k] = q.copy]
             /\ Emit(q.k, q.event)
             /\ touched' = [touched EXCEPT !.access[q.copy.enrollment] = clock]
        ELSE UNCHANGED <<entitlements, outbox, touched>>
     /\ Reply(r)
     /\ UNCHANGED <<enrollments, progress, readModel, env>>

-----------------------------------------------------------------------------
(* Lesson, section and course-level progress.  checkAccess reads the       *)
(* enrollment and then its live entitlement, and decides for the time the  *)
(* call took when it began.                                                *)

CheckEnrollment(r) ==
  LET row == enrollments[request[r].e]
  IN /\ At(r, "access")
     /\ Continue(r, row # Absent /\ EnrollmentAllowsAccess(row),
                 Going(request[r], "entitled", Absent, None))

CheckEntitlement(r) ==
  /\ At(r, "entitled")
  /\ Continue(r, \E t \in LiveOf(request[r].e) :
                   EntitlementAllowsAccess(entitlements[t], request[r].now),
              Going(request[r], "findProgress", Absent, None))

(* A start creates the record when there is none; an update to the same    *)
(* percentage is saved without an event.                                   *)
FindProgress(r, items, canMove(_, _, _, _)) ==
  LET q == request[r]
      found == progress[q.e][q.k]
      row == IF found = Absent /\ q.op = "start" THEN NotStarted(q.now)
                                                ELSE found
      moved == Moved(q.op, row, q.call.percentage)
  IN /\ At(r, "findProgress") /\ q.k \in items
     /\ Continue(r, row # Absent /\ canMove(q.op, row, q.call.percentage, q.now),
                 Going(q, "saveProgress", moved,
                       IF moved = row THEN None ELSE
                         Step(IF found = Absent THEN Created ELSE row.status, moved.status)))

MoveLesson(r) == FindProgress(r, Units, CanMove)

MoveSection(r) == FindProgress(r, Sections, SectionCanMove)

MoveCourse(r) == FindProgress(r, {Course}, CourseCanMove)

(* upsert by id: a second record for the same item breaks its unique key.  *)
ProgressAccepted(q) ==
  q.event # None /\ q.event.from = Created => progress[q.e][q.k] = Absent

SaveProgress(r, items) ==
  LET q == request[r]
  IN /\ At(r, "saveProgress") /\ q.k \in items
     /\ IF ProgressAccepted(q)
        THEN /\ progress' = [progress EXCEPT ![q.e][q.k] = q.copy]
             /\ Emit(<<q.e, q.k>>, q.event)
             /\ touched' = IF q.k \in Units
                           THEN [touched EXCEPT !.lessons[q.e] = clock]
                           ELSE touched
        ELSE UNCHANGED <<progress, outbox, touched>>
     /\ Reply(r)
     /\ UNCHANGED <<enrollments, entitlements, readModel, env>>

SaveLesson(r) == SaveProgress(r, Units)

SaveSection(r) == SaveProgress(r, Sections)

SaveCourse(r) == SaveProgress(r, {Course})

-----------------------------------------------------------------------------
(* The course progress read model.  calculatedAt is taken when the call    *)
(* begins, before anything is read.                                        *)

Lessons(e) == [u \in Units |-> progress[e][u]]

FindRefreshed(r) ==
  /\ At(r, "findEnrollment") /\ request[r].op = "refresh"
  /\ Continue(r, enrollments[request[r].e] # Absent,
              Going(request[r], "findLessons", Absent, None))

CalculateProgress(r) ==
  LET p == CourseProgress(Lessons(request[r].e))
  IN /\ At(r, "findLessons") /\ request[r].op = "refresh"
     /\ Continue(r, ValidCourseProgress(p),
                 Going(request[r], "saveReadModel", p, None))

(* One serializable transaction that locks the enrollment: an older        *)
(* calculation is dropped, one of the same time is kept or refused.        *)
Supersedes(q) ==
  \/ readModel[q.e] = Absent
  \/ readModel[q.e].calculatedAt < q.now

(* Mutant: calculatedAt is taken when the calculation is saved.             *)
SaveReadModelStamped(r) ==
  LET q == request[r]
  IN /\ At(r, "saveReadModel")
     /\ readModel' = IF Supersedes(q)
                     THEN [readModel EXCEPT ![q.e] =
                             [calculatedAt |-> clock, figures |-> q.copy]]
                     ELSE readModel
     /\ Reply(r)
     /\ UNCHANGED <<enrollments, entitlements, progress, outbox, touched, env>>

SaveReadModel(r) ==
  LET q == request[r]
  IN /\ At(r, "saveReadModel")
     /\ readModel' = IF Supersedes(q)
                     THEN [readModel EXCEPT ![q.e] =
                             [calculatedAt |-> q.now, figures |-> q.copy]]
                     ELSE readModel
     /\ Reply(r)
     /\ UNCHANGED <<enrollments, entitlements, progress, outbox, touched, env>>

(* A statement or the transaction fails, or the process dies: nothing of   *)
(* the call is stored.                                                     *)
Fails(r) ==
  /\ ~At(r, "idle")
  /\ Reply(r)
  /\ UNCHANGED <<rows, env>>

-----------------------------------------------------------------------------
(* Seeded: the learner has enrolled, was granted access, and has brought   *)
(* the items of workload.started to 100%.                                  *)

Seeded(e, t, w) ==
  /\ enrollments = [f \in Enrollments |->
       IF f = e THEN NewEnrollment(0, Never, 0) ELSE Absent]
  /\ entitlements = [s \in Entitlements |->
       IF s = t THEN NewEntitlement(e, 0, Never) ELSE Absent]
  /\ progress = [f \in Enrollments |-> [i \in Items |->
       IF f = e /\ i \in w.started
       THEN [status |-> "IN_PROGRESS", percentage |-> 100, createdAt |-> 0]
       ELSE Absent]]
  /\ outbox = [a \in Aggregates |->
       IF a \in {e, t} THEN <<Step(Created, "ACTIVE")>>
       ELSE IF a \in {e} \X w.started
       THEN <<Step(Created, "IN_PROGRESS"), Step("IN_PROGRESS", "IN_PROGRESS")>>
       ELSE <<>>]

Empty ==
  /\ enrollments = [e \in Enrollments |-> Absent]
  /\ entitlements = [t \in Entitlements |-> Absent]
  /\ progress = [e \in Enrollments |-> [i \in Items |-> Absent]]
  /\ outbox = [a \in Aggregates |-> <<>>]

Init ==
  /\ workload \in Workloads
  /\ IF workload.seeded = {} THEN Empty
     ELSE \E p \in workload.seeded : Seeded(p[1], p[2], workload)
  /\ readModel = [e \in Enrollments |-> Absent]
  /\ request = [r \in Requests |-> Idle]
  /\ clock = 0 /\ calls = 0
  /\ touched = [access |-> [e \in Enrollments |-> -1],
                lessons |-> [e \in Enrollments |-> -1]]

Next ==
  \/ Tick
  \/ \E r \in Requests :
       \/ Begin(r) \/ Fails(r)
       \/ EnrollLearner(r) \/ CancelEnrollment(r) \/ FindCompletable(r)
       \/ CompleteEnrollment(r) \/ SaveEnrollment(r)
       \/ FindGranted(r) \/ GrantEntitlement(r) \/ ChangeEntitlement(r)
       \/ SaveEntitlement(r)
       \/ CheckEnrollment(r) \/ CheckEntitlement(r)
       \/ MoveLesson(r) \/ MoveSection(r) \/ MoveCourse(r)
       \/ SaveLesson(r) \/ SaveSection(r) \/ SaveCourse(r)
       \/ FindRefreshed(r) \/ CalculateProgress(r) \/ SaveReadModel(r)

Spec == Init /\ [][Next]_vars

-----------------------------------------------------------------------------
(* Properties.                                                             *)

(* However enrollments of one learner for one course overlap, at most one  *)
(* of them is pending or active: two calls that both find none cannot both *)
(* insert one.                                                             *)
OneOpenEnrollment ==
  \A e, f \in OpenEnrollments : e = f

(* An enrollment has at most one active or suspended entitlement, also     *)
(* when a restore that read an old status meets a new grant.               *)
OneLiveEntitlement ==
  \A e \in Enrollments : \A s, t \in LiveOf(e) : s = t

(* The two partial unique indexes hold against every overlap of reads and  *)
(* saves.                                                                  *)
OneOfEach == OneOpenEnrollment /\ OneLiveEntitlement

(* The lifecycle events of an enrollment are one chain from its creation   *)
(* to the status in its row, each starting where the one before it ended:  *)
(* of two overlapping transitions only one is stored and published.        *)
EnrollmentHistoryLinked ==
  \A e \in Enrollments :
    LET events == outbox[e]
    IN IF enrollments[e] = Absent
       THEN events = <<>>
       ELSE /\ events # <<>>
            /\ events[1].from = Created
            /\ \A i \in 2..Len(events) : events[i].from = events[i - 1].to
            /\ Last(events).to = enrollments[e].status

(* A completed enrollment has published the completion of every learning   *)
(* unit before: 100% alone, or a missing record, completes nothing.        *)
CompletionWasEarned ==
  \A e \in Enrollments :
    enrollments[e] # Absent /\ enrollments[e].status = "COMPLETED" =>
      \A u \in Units : \E i \in DOMAIN outbox[<<e, u>>] :
                         outbox[<<e, u>>][i].to = "COMPLETED"

HasAccess(e, now) ==
  /\ enrollments[e].status \in {"ACTIVE", "COMPLETED"}
  /\ \E t \in Entitlements :
       LET row == entitlements[t]
       IN /\ row # Absent /\ row.enrollment = e /\ row.status = "ACTIVE"
          /\ row.startsAt <= now /\ (row.expiresAt = Never \/ now < row.expiresAt)

(* Progress is stored only for a learner who had access at some moment of  *)
(* the call: either access holds when it is saved, for the time the call   *)
(* began, or enrollment or entitlement changed while the call ran.         *)
WritesWereAllowed ==
  [][\A r \in Requests :
       At(r, "saveProgress") /\ request'[r] = Idle /\ progress' # progress =>
         LET q == request[r]
         IN HasAccess(q.e, q.now) \/ touched.access[q.e] >= q.now]_vars

(* The read model shows what the lessons were at its calculatedAt: if none *)
(* was saved since then, its figures are those of the lessons now, however *)
(* many refreshes overlapped lesson writes and each other.                 *)
ReadModelIsCurrentAsOf ==
  \A e \in Enrollments :
    readModel[e] # Absent /\ touched.lessons[e] < readModel[e].calculatedAt =>
      readModel[e].figures = CourseProgress(Lessons(e))

(* A slow refresh never replaces a newer calculation, nor one of its own   *)
(* time.                                                                   *)
ReadModelMovesForward ==
  [][\A e \in Enrollments :
       readModel[e] # Absent /\ readModel'[e] # readModel[e] =>
         readModel'[e].calculatedAt > readModel[e].calculatedAt]_vars
=============================================================================
